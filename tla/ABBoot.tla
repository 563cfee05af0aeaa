------------------------------- MODULE ABBoot -------------------------------
(***************************************************************************)
(* A/B firmware updates: reefy-efi (fix, confirm, update), the services    *)
(* reefy-boot-confirm and reefy-boot-watchdog, the update_firmware command *)
(* of control, and the firmware that picks a slot at every power-on.       *)
(*                                                                         *)
(* The boot chain of one power-on is process "boot": storage repairs the   *)
(* boot entries, boot-confirm waits for the critical services and commits  *)
(* the slot. Each update_firmware command runs in a thread of control.     *)
(* Every efibootmgr call that writes, and every write to a slot, is a step *)
(* of its own, because power may be lost between any two of them.          *)
(***************************************************************************)
EXTENDS EfiVariables

CONSTANTS
  Version,        \* firmware images
  Factory,        \* the image both slots hold at first
  Bad,            \* images whose critical services never all become active
  Updater,        \* threads of control running update_firmware
  Nobody,
  Faults,         \* what may go wrong, see FaultKind
  MaxCuts         \* bound on power cuts

(* "power": power is lost. "create", "delete", "order": efibootmgr fails   *)
(* to create an entry, to delete one a commit replaced, to write BootOrder *)
(* ("clean": to delete one that is wrong). "next": the firmware does not   *)
(* keep the BootNext it was given. "entries_lost": a BIOS reset forgets    *)
(* all variables while off. "trial_update": an update command arrives      *)
(* before the running slot is confirmed. "write": formatting or filling    *)
(* the inactive slot fails. "overwrite": filling the active one does.      *)
FaultKind == {"power", "create", "delete", "clean", "order", "next", "entries_lost",
              "trial_update", "write", "overwrite"}

Blank == "blank"   \* a slot that is being formatted or copied to

ASSUME BootAssumption ==
  /\ Factory \in Version \ Bad
  /\ Blank \notin Version
  /\ Nobody \notin Updater /\ "boot" \notin Updater
  /\ Faults \subseteq FaultKind
  /\ MaxCuts \in Nat

VARIABLES
  image,     \* bootx64.efi of each slot
  nv,        \* the UEFI variables
  mounted,   \* the slot mounted at /mnt/reefy, "off" without power
  running,   \* the image that was started from it
  stage,     \* where each process is
  after,     \* where it goes when fix_entries returns
  fresh,     \* locals of commit_current_slot_with_fresh_entries
  wanted,    \* the version each update thread was sent
  number,    \* INACTIVE_BOOTNUM of each update thread
  file,      \* the download at /mnt/reefy-data/cache/reefy-update.efi
  lock,      \* holder of /var/lock/reefy-update.lock
  sent,      \* versions the server has sent
  cuts,      \* power cuts so far
  proven     \* history: versions whose critical services came up

vars == <<image, nv, mounted, running, stage, after, fresh, wanted, number, file, lock,
          sent, cuts, proven>>

Process == {"boot"} \cup Updater

FixStages    == {"clean", "create_a", "create_b", "order"}
CommitStages == {"count", "new_a", "new_b", "reorder", "del_a", "del_b", "verify"}
BootStages   == {"off", "check", "settled", "failed"} \cup FixStages \cup CommitStages
UpdateStages == {"idle", "fetch", "fetched", "number", "mkfs", "copy", "arm",
                 "over", "overcopy", "armed"} \cup FixStages

NoFile  == [version |-> Factory, owner |-> Nobody, whole |-> FALSE, there |-> FALSE]
NoFresh == [old |-> [s \in Slot |-> NoNum], new |-> [s \in Slot |-> NoNum]]

TypeOK ==
  /\ image \in [Slot -> Version \cup {Blank}]
  /\ nv \in Nvram
  /\ mounted \in Slot \cup {"off"} /\ running \in Version \cup {Blank}
  /\ stage \in [Process -> BootStages \cup UpdateStages]
  /\ after \in [Process -> {"check", "count", "number"}]
  /\ fresh \in [old : [Slot -> Num \cup {NoNum}], new : [Slot -> Num \cup {NoNum}]]
  /\ wanted \in [Updater -> Version]
  /\ number \in [Updater -> Num \cup {NoNum}]
  /\ \A u \in Updater :
       stage[u] \in {"mkfs", "copy", "arm", "over", "overcopy"} => number[u] \in Num
  /\ file \in [version : Version, owner : Updater \cup {Nobody},
               whole : BOOLEAN, there : BOOLEAN]
  /\ lock \in Updater \cup {Nobody}
  /\ sent \subseteq Version
  /\ cuts \in 0..MaxCuts
  /\ proven \subseteq Version

(* A freshly flashed disk: both slots hold the same image, and firmware    *)
(* knows nothing of it, or knows an entry of a disk used before.           *)
Init ==
  /\ image = [s \in Slot |-> Factory]
  /\ nv \in {EmptyNvram, Created(EmptyNvram, "a", "gone")}
  /\ mounted = "off" /\ running = Blank
  /\ stage = [p \in Process |-> IF p = "boot" THEN "off" ELSE "idle"]
  /\ after = [p \in Process |-> IF p = "boot" THEN "check" ELSE "number"]
  /\ fresh = NoFresh
  /\ wanted = [u \in Updater |-> Factory]
  /\ number = [u \in Updater |-> NoNum]
  /\ file = NoFile
  /\ lock = Nobody
  /\ sent = {Factory}
  /\ cuts = 0
  /\ proven = {Factory}

Loadable == {s \in Slot : image[s] # Blank}
Inactive == Other(mounted)
MountedIsDefault == mounted = DefaultSlot(nv)
Healthy  == running \notin Bad

Works(call) == {TRUE} \cup (IF call \in Faults THEN {FALSE} ELSE {})

GoTo(p, next) == stage' = [stage EXCEPT ![p] = next]
-----------------------------------------------------------------------------
(* Power and firmware.                                                     *)
Down ==
  /\ mounted' = "off" /\ running' = Blank
  /\ stage' = [p \in Process |-> IF p = "boot" THEN "off" ELSE "idle"]
  /\ lock' = Nobody
  /\ UNCHANGED <<image, nv, after, fresh, wanted, number, file, sent, proven>>

PowerLoss ==
  /\ "power" \in Faults /\ mounted # "off"
  /\ cuts < MaxCuts
  /\ cuts' = cuts + 1
  /\ Down

(* The firmware starts the one-shot choice, the first loadable entry of    *)
(* BootOrder, or removable media, for which it adds an entry of its own.   *)
(* The storage service mounts the slot it came from and repairs entries.   *)
PowerOn ==
  /\ mounted = "off"
  /\ LET list == (IF nv.next = NoNum THEN <<>> ELSE <<nv.next>>) \o nv.order
         known == \E i \in DOMAIN list : nv.entry[list[i]].slot \in Loadable
         consumed == [nv EXCEPT !.next = NoNum]
     IN \E s \in FirmwareChoice(nv, list, Loadable) :
          /\ mounted' = s /\ running' = image[s]
          /\ nv' = IF known \/ FreeNumbers(nv) = {}
                   THEN consumed
                   ELSE Created(consumed, "auto", s)
  /\ GoTo("boot", "clean")
  /\ after' = [after EXCEPT !["boot"] = "check"]
  /\ UNCHANGED <<image, fresh, wanted, number, file, lock, sent, cuts, proven>>

LoseEntries ==
  /\ "entries_lost" \in Faults
  /\ mounted = "off" /\ nv # EmptyNvram
  /\ nv' = EmptyNvram
  /\ UNCHANGED <<image, mounted, running, stage, after, fresh, wanted, number, file,
                 lock, sent, cuts, proven>>

(* reefy-boot-watchdog outlasts boot-confirm: it resets the machine when   *)
(* confirmation gave up and the mounted slot is known not to be the        *)
(* default.                                                                *)
WatchdogReboots ==
  /\ stage["boot"] = "failed"
  /\ DefaultSlot(nv) \notin {mounted, "unknown"}
  /\ Down /\ UNCHANGED cuts
-----------------------------------------------------------------------------
(* fix_entries, called by storage at boot, by confirm and by update.       *)
WrongEntries ==
  {n \in Num : \/ nv.entry[n].label = "auto" /\ nv.entry[n].slot \in Slot
               \/ nv.entry[n].label \in Slot /\ nv.entry[n].slot # nv.entry[n].label}

FixKeeps == UNCHANGED <<image, mounted, running, after, fresh, wanted, number, file, lock,
                        sent, cuts, proven>>

CleanEntries(p) ==
  /\ stage[p] = "clean"
  /\ \/ /\ WrongEntries # {}
        /\ nv' = Deleted(nv, Min(WrongEntries))
        /\ UNCHANGED stage
     \/ /\ WrongEntries = {} \/ "clean" \in Faults
        /\ GoTo(p, "create_a")
        /\ UNCHANGED nv
  /\ FixKeeps

CreateMissing(p, s, here, next) ==
  /\ stage[p] = here
  /\ GoTo(p, next)
  /\ IF Labelled(nv, s) # {} \/ FreeNumbers(nv) = {}
     THEN UNCHANGED nv
     ELSE \E ok \in Works("create") : nv' = IF ok THEN Created(nv, s, s) ELSE nv
  /\ FixKeeps

FixOrder(p) ==
  /\ stage[p] = "order"
  /\ LET a == BootNumber(nv, "a")
         b == BootNumber(nv, "b")
         astray == /\ a # NoNum /\ b # NoNum
                   /\ nv.order = <<>> \/ Head(nv.order) \notin {a, b}
     IN \E ok \in Works("order") :
          nv' = IF astray /\ ok THEN [nv EXCEPT !.order = <<a, b>>] ELSE nv
  /\ GoTo(p, after[p])
  /\ FixKeeps

FixEntries(p) ==
  \/ CleanEntries(p)
  \/ CreateMissing(p, "a", "create_a", "create_b")
  \/ CreateMissing(p, "b", "create_b", "order")
  \/ FixOrder(p)
-----------------------------------------------------------------------------
(* reefy-boot-confirm: wait for storage and control, then reefy-efi        *)
(* confirm. A default slot needs no confirmation.                          *)
(* Mutant: a failed unit no longer stops the wait.                         *)
CheckIgnoresFailure ==
  /\ stage["boot"] = "check"
  /\ proven' = IF Healthy THEN proven \cup {running} ELSE proven
  /\ IF MountedIsDefault
     THEN GoTo("boot", "settled") /\ UNCHANGED after
     ELSE GoTo("boot", "clean") /\ after' = [after EXCEPT !["boot"] = "count"]
  /\ UNCHANGED <<image, nv, mounted, running, fresh, wanted, number, file, lock, sent, cuts>>

CheckHealth ==
  /\ stage["boot"] = "check"
  /\ proven' = IF Healthy THEN proven \cup {running} ELSE proven
  /\ IF MountedIsDefault
     THEN GoTo("boot", "settled") /\ UNCHANGED after
     ELSE IF Healthy
     THEN GoTo("boot", "clean") /\ after' = [after EXCEPT !["boot"] = "count"]
     ELSE GoTo("boot", "failed") /\ UNCHANGED after
  /\ UNCHANGED <<image, nv, mounted, running, fresh, wanted, number, file, lock, sent, cuts>>

CommitKeeps == UNCHANGED <<image, mounted, running, after, wanted, number, file, lock,
                           sent, cuts, proven>>

(* Exactly one valid entry for each slot, or confirm dies.                 *)
CountEntries ==
  /\ stage["boot"] = "count"
  /\ IF \A s \in Slot : Cardinality(ValidNumbers(nv, s)) = 1
     THEN /\ fresh' = [NoFresh EXCEPT !.old = [s \in Slot |-> Min(ValidNumbers(nv, s))]]
          /\ GoTo("boot", "new_a")
     ELSE GoTo("boot", "failed") /\ UNCHANGED fresh
  /\ UNCHANGED nv
  /\ CommitKeeps

(* Create the fresh entry of slot s; a failure undoes the ones before it.  *)
FreshEntry(s, here, next) ==
  /\ stage["boot"] = here
  /\ LET undone == IF s = "b" THEN Deleted(nv, fresh.new["a"]) ELSE nv
     IN \/ /\ FreeNumbers(nv) # {}
           /\ nv' = Created(nv, s, s)
           /\ fresh' = [fresh EXCEPT !.new[s] =
                          Min(ValidNumbers(nv', s) \ ValidNumbers(nv, s))]
           /\ GoTo("boot", next)
        \/ /\ FreeNumbers(nv) = {} \/ "create" \in Faults
           /\ nv' = undone
           /\ GoTo("boot", "failed")
           /\ UNCHANGED fresh
  /\ CommitKeeps

(* Mutants: the pair in BootOrder is the old one; or the inactive slot     *)
(* leads it.                                                               *)
ReorderOld ==
  /\ stage["boot"] = "reorder"
  /\ nv' = [nv EXCEPT !.order = <<fresh.old[mounted], fresh.old[Inactive]>>]
  /\ GoTo("boot", "del_a")
  /\ UNCHANGED fresh
  /\ CommitKeeps

ReorderSwapped ==
  /\ stage["boot"] = "reorder"
  /\ nv' = [nv EXCEPT !.order = <<fresh.new[Inactive], fresh.new[mounted]>>]
  /\ GoTo("boot", "del_a")
  /\ UNCHANGED fresh
  /\ CommitKeeps

ReorderFresh ==
  /\ stage["boot"] = "reorder"
  /\ \/ /\ nv' = [nv EXCEPT !.order = <<fresh.new[mounted], fresh.new[Inactive]>>]
        /\ GoTo("boot", "del_a")
     \/ /\ "order" \in Faults
        /\ nv' = Deleted(Deleted(nv, fresh.new["a"]), fresh.new["b"])
        /\ GoTo("boot", "failed")
  /\ UNCHANGED fresh
  /\ CommitKeeps

DeleteOld(s, here, next) ==
  /\ stage["boot"] = here
  /\ \E ok \in Works("delete") : nv' = IF ok THEN Deleted(nv, fresh.old[s]) ELSE nv
  /\ GoTo("boot", next)
  /\ UNCHANGED fresh
  /\ CommitKeeps

VerifyCommit ==
  /\ stage["boot"] = "verify"
  /\ LET sound == /\ \A s \in Slot : ValidNumbers(nv, s) = {fresh.new[s]}
                  /\ Len(nv.order) > 1
                  /\ nv.order[1] = fresh.new[mounted]
                  /\ nv.order[2] = fresh.new[Inactive]
     IN GoTo("boot", IF sound THEN "settled" ELSE "failed")
  /\ UNCHANGED <<nv, fresh>>
  /\ CommitKeeps

Commit ==
  \/ CountEntries
  \/ FreshEntry("a", "new_a", "new_b") \/ FreshEntry("b", "new_b", "reorder")
  \/ ReorderFresh
  \/ DeleteOld("a", "del_a", "del_b") \/ DeleteOld("b", "del_b", "verify")
  \/ VerifyCommit
-----------------------------------------------------------------------------
(* update_firmware: download to one fixed path, then reefy-efi update.     *)
UpdateKeeps == UNCHANGED <<mounted, running, after, fresh, sent, cuts, proven>>

(* control starts after storage.                                           *)
StorageDone == /\ mounted # "off"
               /\ ~(stage["boot"] \in FixStages /\ after["boot"] = "check")
Confirmed   == stage["boot"] = "settled" /\ MountedIsDefault

(* An earlier download is removed before curl opens its own.               *)
Command(u) ==
  /\ stage[u] = "idle" /\ StorageDone
  /\ Confirmed \/ "trial_update" \in Faults
  /\ \E v \in Version \ sent :
       /\ wanted' = [wanted EXCEPT ![u] = v]
       /\ sent' = sent \cup {v}
       /\ file' = [version |-> v, owner |-> u, whole |-> FALSE, there |-> TRUE]
  /\ GoTo(u, "fetch")
  /\ UNCHANGED <<image, nv, mounted, running, after, fresh, number, lock, cuts, proven>>

(* curl writes to the file it opened, even when the path names another.    *)
Fetch(u) ==
  /\ stage[u] = "fetch"
  /\ file' = IF file.owner = u THEN [file EXCEPT !.whole = TRUE] ELSE file
  /\ GoTo(u, "fetched")
  /\ UNCHANGED <<image, nv, wanted, number, lock>>
  /\ UpdateKeeps

(* Every way out of the command removes what the path names.               *)
GiveUp(u) ==
  /\ GoTo(u, "idle")
  /\ file' = [file EXCEPT !.there = FALSE]

(* Mutant: curl's exit status is not looked at.                            *)
FetchUnchecked(u) ==
  /\ stage[u] = "fetch"
  /\ GoTo(u, "fetched")
  /\ UNCHANGED <<image, nv, wanted, number, file, lock>>
  /\ UpdateKeeps

(* curl failed or timed out, or the image does not fit the inactive slot.  *)
FetchFails(u) ==
  /\ stage[u] \in {"fetch", "fetched"}
  /\ GiveUp(u)
  /\ UNCHANGED <<image, nv, wanted, number, lock>>
  /\ UpdateKeeps

StartUpdate(u) ==
  /\ stage[u] = "fetched"
  /\ IF file.there /\ lock = Nobody
     THEN lock' = u /\ GoTo(u, "clean") /\ UNCHANGED file
     ELSE GiveUp(u) /\ UNCHANGED lock
  /\ UNCHANGED <<image, nv, wanted, number>>
  /\ UpdateKeeps

(* Mutants: slot B is taken to be the inactive one; or a missing entry is  *)
(* not noticed.                                                            *)
ReadNumberOfB(u) ==
  /\ stage[u] = "number"
  /\ number' = [number EXCEPT ![u] = BootNumber(nv, "b")]
  /\ IF BootNumber(nv, "b") = NoNum
     THEN GiveUp(u) /\ lock' = Nobody
     ELSE GoTo(u, "mkfs") /\ UNCHANGED <<file, lock>>
  /\ UNCHANGED <<image, nv, wanted>>
  /\ UpdateKeeps

ReadNumber(u) ==
  /\ stage[u] = "number"
  /\ number' = [number EXCEPT ![u] = BootNumber(nv, Inactive)]
  /\ IF BootNumber(nv, Inactive) = NoNum
     THEN GiveUp(u) /\ lock' = Nobody
     ELSE GoTo(u, "mkfs") /\ UNCHANGED <<file, lock>>
  /\ UNCHANGED <<image, nv, wanted>>
  /\ UpdateKeeps

Format(u) ==
  /\ stage[u] = "mkfs"
  /\ image' = [image EXCEPT ![Inactive] = Blank]
  /\ GoTo(u, "copy")
  /\ UNCHANGED <<nv, wanted, number, file, lock>>
  /\ UpdateKeeps

Copied == IF file.whole THEN file.version ELSE Blank

Copy(u) ==
  /\ stage[u] = "copy"
  /\ IF file.there
     THEN /\ image' = [image EXCEPT ![Inactive] = Copied]
          /\ GoTo(u, "arm") /\ UNCHANGED <<file, lock>>
     ELSE GiveUp(u) /\ lock' = Nobody /\ UNCHANGED image
  /\ UNCHANGED <<nv, wanted, number>>
  /\ UpdateKeeps

(* reefy-efi runs under set -e: it ends where a write fails, and the slot  *)
(* holds what was written so far.                                          *)
WriteFails(u) ==
  /\ \/ "write" \in Faults /\ stage[u] \in {"mkfs", "copy"}
     \/ "overwrite" \in Faults /\ stage[u] = "overcopy"
  /\ image' = IF stage[u] = "mkfs" THEN [image EXCEPT ![Inactive] = Blank] ELSE image
  /\ GiveUp(u) /\ lock' = Nobody
  /\ UNCHANGED <<nv, wanted, number>>
  /\ UpdateKeeps

(* Mutant: the new slot is put first in BootOrder instead.                 *)
ArmBootOrder(u) ==
  /\ stage[u] = "arm"
  /\ nv' = [nv EXCEPT !.order = <<number[u]>> \o nv.order]
  /\ GoTo(u, "armed") /\ lock' = Nobody
  /\ UNCHANGED <<image, wanted, number, file>>
  /\ UpdateKeeps

(* efibootmgr -n fails on a number that names no entry; a BootNext that    *)
(* does not read back was not kept.                                        *)
ArmBootNext(u) ==
  /\ stage[u] = "arm"
  /\ IF nv.entry[number[u]] = NoEntry
     THEN GiveUp(u) /\ lock' = Nobody /\ UNCHANGED nv
     ELSE \E kept \in Works("next") :
       IF kept
       THEN /\ nv' = [nv EXCEPT !.next = number[u]]
            /\ GoTo(u, "armed") /\ lock' = Nobody /\ UNCHANGED file
       ELSE GoTo(u, "over") /\ UNCHANGED <<nv, file, lock>>
  /\ UNCHANGED <<image, wanted, number>>
  /\ UpdateKeeps

(* Without BootNext the active slot is overwritten as well.                *)
Truncate(u) ==
  /\ stage[u] = "over"
  /\ nv' = [nv EXCEPT !.next = NoNum]
  /\ IF file.there
     THEN /\ image' = [image EXCEPT ![mounted] = Blank]
          /\ GoTo(u, "overcopy") /\ UNCHANGED <<file, lock>>
     ELSE GiveUp(u) /\ lock' = Nobody /\ UNCHANGED image
  /\ UNCHANGED <<wanted, number>>
  /\ UpdateKeeps

Overwrite(u) ==
  /\ stage[u] = "overcopy"
  /\ image' = [image EXCEPT ![mounted] = Copied]
  /\ GoTo(u, "armed") /\ lock' = Nobody
  /\ UNCHANGED <<nv, wanted, number, file>>
  /\ UpdateKeeps

(* Removing a file that is gone raises, and the reboot is skipped.         *)
UpdateReboots(u) ==
  /\ stage[u] = "armed" /\ file.there
  /\ Down /\ UNCHANGED cuts

UpdateStays(u) ==
  /\ stage[u] = "armed" /\ ~file.there
  /\ GoTo(u, "idle")
  /\ UNCHANGED <<image, nv, wanted, number, file, lock>>
  /\ UpdateKeeps

RunUpdate(u) ==
  \/ Fetch(u) \/ StartUpdate(u) \/ ReadNumber(u) \/ Format(u) \/ Copy(u)
  \/ ArmBootNext(u) \/ Truncate(u) \/ Overwrite(u)
  \/ UpdateReboots(u) \/ UpdateStays(u)

BootChain == FixEntries("boot") \/ CheckHealth \/ Commit

Next ==
  \/ PowerLoss \/ PowerOn \/ LoseEntries \/ WatchdogReboots
  \/ BootChain
  \/ \E u \in Updater : \/ Command(u) \/ FetchFails(u) \/ WriteFails(u)
                        \/ FixEntries(u) \/ RunUpdate(u)

Spec == Init /\ [][Next]_vars

(* Power comes back, the boot services and a started update run on, and    *)
(* the watchdog fires; commands, faults and power cuts owe nothing.        *)
Fairness ==
  /\ WF_vars(PowerOn)
  /\ WF_vars(WatchdogReboots)
  /\ WF_vars(BootChain)
  /\ \A u \in Updater : WF_vars(FixEntries(u) \/ RunUpdate(u))

FairSpec == Spec /\ Fairness
-----------------------------------------------------------------------------
(* Properties.                                                             *)

(* The slots the device may come up on when power is cut now, once the     *)
(* one-shot choice is spent.                                               *)
FallsBackTo == FirmwareChoice(nv, nv.order, Loadable)

(* Whatever an update or a commit is in the middle of, a power cut or a    *)
(* watchdog reset ends on a slot with a whole image whose critical         *)
(* services have come up before (docs/watchdog-architecture.md: "so the    *)
(* prior default slot can boot").                                          *)
FallsBackToProven ==
  FallsBackTo # {} /\ \A s \in FallsBackTo : image[s] \in proven

(* Whatever the update path, one slot always holds a whole image: the      *)
(* active slot is only overwritten once the inactive one is complete, and  *)
(* the next update starts from a whole active slot (true only while no     *)
(* "overwrite" fails: a retry would format the last whole slot).           *)
NeverBricked == Loadable # {}

(* From the first write of a commit until it ends, BootOrder alone reaches *)
(* a loadable slot (reefy-efi:270: "a deletion failure leaves a bootable   *)
(* order").                                                                *)
OrderBootable ==
  stage["boot"] \in CommitStages \ {"count"} =>
    \E i \in DOMAIN nv.order : nv.entry[nv.order[i]].slot \in Loadable

(* A BootNext that an update has armed starts what was written: where      *)
(* wrong entries can be deleted it names the inactive slot, however many   *)
(* updates run; where updates do not run at once it never names the slot   *)
(* in use, even if an entry of another disk carries the label, and the     *)
(* inactive slot holds the image the command was sent (cmd_update looks    *)
(* for the label alone and verifies only that the number stuck).           *)
Alone == \A u, v \in Updater : u = v

ArmedSlotIsWritten ==
  \A u \in Updater :
    stage[u] = "armed" /\ nv.next # NoNum =>
      /\ "clean" \notin Faults => nv.entry[nv.next].slot = Inactive
      /\ Alone => /\ nv.entry[nv.next].slot # mounted
                  /\ image[Inactive] = wanted[u]

(* The inactive slot of this disk is armed although a wrong entry with its *)
(* label cannot be deleted (docs/a-b-firmware-updates.md:38: "Reefy        *)
(* identifies a slot by label and partition UUID").  The code breaks it.   *)
ArmsOwnDisk ==
  \A u \in Updater :
    stage[u] = "armed" /\ nv.next # NoNum => nv.entry[nv.next].slot = Inactive

(* A slot whose image never becomes healthy is left again for one that     *)
(* did (reefy-boot-watchdog: "UEFI then falls back to old slot").          *)
BadTrialRollsBack ==
  (mounted # "off" /\ ~Healthy) ~> (mounted # "off" /\ image[mounted] \in proven)

(* While power was never cut, a healthy trial becomes the persistent       *)
(* default (docs/a-b-firmware-updates.md: "commits it only after the next  *)
(* boot reaches storage and control-plane health"). A cut inside a commit  *)
(* may leave duplicate entries, which no later commit accepts.             *)
GoodTrialKept ==
  \A s \in Slot, v \in Version \ Bad :
    (mounted = s /\ image[s] = v)
      ~> (cuts > 0 \/ (DefaultSlot(nv) = s /\ image[s] \in proven))

(* What the code and its documents say, and the code does not do.          *)

(* reefy-efi:167, of the loop over each label: "Iterates over ALL entries  *)
(* with the label so duplicates get cleaned up."                           *)
DuplicatesCleaned ==
  \A p \in Process : stage[p] = "create_a" =>
    \A s \in Slot : Cardinality(Labelled(nv, s)) <= 1

(* docs/a-b-firmware-updates.md:13: an update "commits it only after the   *)
(* next boot reaches storage and control-plane health": on a boot of a     *)
(* proven image the entry repair leaves no other image the default.        *)
RepairKeepsDefault ==
  /\ stage["boot"] = "check" /\ image[mounted] \in proven
  /\ DefaultSlot(nv) \in Slot
  => image[DefaultSlot(nv)] \in proven

(* docs/watchdog-architecture.md:10, of a trial that is not confirmed:     *)
(* "Immediate sysrq reboot so the prior default slot can boot": while a    *)
(* trial runs the default slot holds a whole image.                        *)
PriorDefaultCanBoot ==
  mounted # "off" /\ DefaultSlot(nv) \in Slot \ {mounted}
    => image[DefaultSlot(nv)] # Blank

(* docs/a-b-firmware-updates.md step 7: "Copy the new image to             *)
(* EFI/Boot/bootx64.efi, sync, and unmount": what the copy leaves is the   *)
(* image the command was sent.                                             *)
CopiesTheNewImage ==
  \A u \in Updater : stage[u] = "arm" => image[Inactive] = wanted[u]
=============================================================================
