---------------------------- MODULE BootStorage ----------------------------
(* The storage stage of a boot: boot-reefy-storage.sh --recover, with the  *)
(* discovery before it and the mount check after it, under the supervisor  *)
(* storage_boot.py and its deadline, composed with the provisioning and    *)
(* growth of StorageProvision.  Power may be cut between any two steps,    *)
(* and damage appears while it is off.                                     *)
EXTENDS StorageProvision

CONSTANTS
  MaxBoots,    \* boots
  MaxFaults,   \* damages
  UsbVgFault,  \* may the metadata of a group on partition 4 be damaged?
  Deadline     \* may the deadline of the supervisor pass?

ASSUME BootBounds ==
  MaxBoots \in Nat /\ MaxFaults \in Nat /\ UsbVgFault \in BOOLEAN /\ Deadline \in BOOLEAN

VARIABLES
  sup,     \* the supervisor: watch, guarded, durable, lost, done
  mark,    \* the time-out marker on the ESP
  budget   \* boots and damages so far

vars == <<storageVars, sup, mark, budget>>

(* While the script runs only the script and the supervisor act.           *)
Still == UNCHANGED <<boot, luks, job, wish, mark, budget>>
Running == pc \in {"discover", "internal", "activate", "mount", "data", "verify"}

Order == {f \in [Disk -> Name] : \A d, e \in Disk : f[d] = f[e] => d = e}

(* The values the variables take.                                          *)
TypeOK ==
  /\ boot \in [p3 : BOOLEAN, key : Keys, last : Keys] /\ luks \in [Dev -> Keys]
  /\ vg.member \cup vg.holds \cup ram.plugged \cup ram.open \subseteq Dev
  /\ vg.default \in {"none", "raw", "xfs"} /\ vg.state \in {"none", "raw", "xfs"}
  /\ vg.ident \in {"none", "state", "default"} /\ ram.name \in Order
  /\ ram.unit \in {"none", "ok", "failed"}
  /\ job.op \in {"none", "provision", "extend"} /\ job.todo \cup job.opened \subseteq Dev
  /\ wish.sel \subseteq Name /\ wish.meant \subseteq Disk
  /\ Running \/ pc \in {"off", "ended", "stuck", "up"}
  /\ sup \in {"watch", "guarded", "durable", "lost", "done"} /\ mark \in BOOLEAN
  /\ budget.boots \in 0..MaxBoots /\ budget.faults \in 0..MaxFaults

Init ==
  /\ boot = [p3 |-> FALSE, key |-> 0, last |-> 0]
  /\ luks = [d \in Dev |-> 0]
  /\ vg = NoVg
  /\ ram \in {Dark(n) : n \in Order}
  /\ pc = "off" /\ job = Idle
  /\ wish = NoWish
  /\ sup = "done" /\ mark = FALSE
  /\ budget = [boots |-> 0, faults |-> 0]

(* The script ends: under an expired deadline the supervisor has the word. *)
End(unit, r) ==
  IF sup = "watch"
  THEN ram' = [r EXCEPT !.unit = unit] /\ pc' = "up" /\ sup' = "done"
  ELSE ram' = r /\ pc' = "ended" /\ UNCHANGED sup
Refuse(r) == End("failed", [r EXCEPT !.guard = TRUE])
Step(next, r) == ram' = r /\ pc' = next /\ UNCHANGED sup

(* Power comes on with the disks that are there, under any names.  With a  *)
(* time-out marker of an earlier boot storage is left alone.               *)
PowerOn ==
  /\ pc = "off" /\ budget.boots < MaxBoots
  /\ budget' = [budget EXCEPT !.boots = @ + 1]
  /\ \E n \in Order, P \in SUBSET Disk :
       LET r == [Dark(n) EXCEPT !.plugged = P \cup {Usb}]
       IN  IF mark
           THEN /\ ram' = [r EXCEPT !.guard = TRUE, !.timedOut = TRUE, !.unit = "failed"]
                /\ pc' = "up" /\ UNCHANGED sup
           ELSE ram' = r /\ pc' = "discover" /\ sup' = "watch"
  /\ UNCHANGED <<boot, luks, vg, job, wish, mark>>

-----------------------------------------------------------------------------
(* storage_discovery.wait: every pass opens the disks that the key opens,  *)
(* those that came late too, before it looks at the group.                 *)
Arrive(d) ==
  /\ pc = "discover" /\ d \notin ram.plugged
  /\ ram' = [ram EXCEPT !.plugged = @ \cup {d}]
  /\ Still /\ UNCHANGED <<pc, vg, sup>>
DiscoverOpen(d) ==
  /\ pc = "discover" /\ boot.p3 /\ Opens(d) /\ d \notin ram.open
  /\ ram' = [ram EXCEPT !.open = @ \cup {d}]
  /\ Still /\ UNCHANGED <<pc, vg, sup>>

(* It ends when the group that can be read is complete; without a readable *)
(* group any opened disk will do, and the recovery has to see to it.       *)
Assembled == ram.open # {} /\ (Readable => Complete)
AllOpen == \A d \in Dev : Opens(d) => d \in ram.open
Discovered ==
  /\ pc = "discover" /\ (boot.p3 => AllOpen /\ Assembled)
  /\ Step("internal", ram)
  /\ Still /\ UNCHANGED vg
DiscoverExpires ==
  /\ pc = "discover" /\ boot.p3 /\ AllOpen /\ ~Assembled
  /\ Refuse(ram)
  /\ Still /\ UNCHANGED vg

(* setup_internal_storage: a group that cannot be read although a disk was *)
(* opened goes to the recovery, which accepts one disk only; with a        *)
(* readable group the guard is removed.                                    *)
Cleared == [ram EXCEPT !.guard = FALSE]
Internals ==
  /\ pc = "internal"
  /\ IF ram.open \cap Disk = {} THEN Step("data", ram) /\ UNCHANGED vg
     ELSE IF Readable THEN Step("activate", Cleared) /\ UNCHANGED vg
     ELSE \/ /\ vg.lost /\ Cardinality(vg.member) = 1 /\ ram.open \cap Disk = vg.member
             /\ vg' = [vg EXCEPT !.lost = FALSE]
             /\ Step("activate", Cleared)
          \/ Refuse(ram) /\ UNCHANGED vg
  /\ Still

(* vgchange, one thin repair, or the state volume alone.                   *)
ThinRepaired == [vg EXCEPT !.thinBad = FALSE]                \* repair_thin_pool
ActivateVg ==
  /\ pc = "activate"
  /\ IF Activates THEN Step("mount", ram) /\ UNCHANGED vg
     ELSE \/ /\ Complete /\ Step("mount", ram)
             /\ vg' = ThinRepaired
          \/ /\ Refuse([ram EXCEPT !.state = MountState(vg)])
             /\ vg' = Seeded(vg)
  /\ Still

(* mount_primary_xfs: checked, repaired if it is damaged, and mounted, or  *)
(* refused; then the state volume.                                         *)
MountWithCommit(r) == Step("verify", r) /\ UNCHANGED vg               \* mutant
MountDefault(r) ==
  \/ /\ Step("verify", [r EXCEPT !.mnt = TRUE, !.state = MountState(vg)])
     /\ vg' = [Seeded(vg) EXCEPT !.xfsBad = FALSE]
  \/ vg.xfsBad /\ Refuse(r) /\ UNCHANGED vg
MountInternal ==
  /\ pc = "mount"
  /\ IF vg.default = "xfs" THEN MountDefault(ram) ELSE Step("data", ram) /\ UNCHANGED vg
  /\ Still

(* setup_data_partition: partition 4; here a failing vgchange ends the     *)
(* script at once (set -e), with no guard.                                 *)
UsbData ==
  /\ pc = "data"
  /\ LET r == [ram EXCEPT !.open = @ \cup {Usb}]
     IN  IF ~(boot.p3 /\ Opens(Usb) /\ Usb \in vg.holds) THEN Step("verify", ram) /\ UNCHANGED vg
         ELSE IF vg.lost \/ vg.thinBad \/ ~(vg.member \subseteq vg.holds \cap r.open)
              THEN End("failed", r) /\ UNCHANGED vg
         ELSE IF vg.default = "xfs" THEN MountDefault(r) ELSE Step("verify", r) /\ UNCHANGED vg
  /\ Still

(* storage_discovery.verify_mount.                                         *)
Verify ==
  /\ pc = "verify"
  /\ IF boot.p3 /\ ~ram.mnt THEN Refuse(ram) ELSE End("ok", ram)
  /\ Still /\ UNCHANGED vg

-----------------------------------------------------------------------------
(* The supervisor: supervise of storage_boot.py.                           *)

(* The deadline: the guard first, then the marker on the ESP, if it can be *)
(* written, and only then the signals; the script goes on meanwhile.       *)
Expire ==
  /\ Deadline /\ Running /\ sup = "watch"
  /\ ram' = [ram EXCEPT !.guard = TRUE, !.timedOut = TRUE]
  /\ sup' = "guarded"
  /\ Still /\ UNCHANGED <<pc, vg>>
Preserve ==
  /\ sup = "guarded"
  /\ mark' \in BOOLEAN
  /\ sup' = IF mark' THEN "durable" ELSE "lost"
  /\ UNCHANGED <<boot, luks, vg, ram, pc, job, wish, budget>>

(* The script has stopped and its mounts are gone: diagnostics.            *)
Interrupted ==
  /\ sup \in {"durable", "lost"}
  /\ ram' = [ram EXCEPT !.mnt = FALSE, !.state = FALSE, !.unit = "failed"]
  /\ pc' = "up" /\ sup' = "done"
  /\ Still /\ UNCHANGED vg

(* It has not: reset with a durable marker, or stay activating for ever.   *)
Resists ==
  /\ sup \in {"durable", "lost"}
  /\ sup' = "done"
  /\ IF sup = "durable" THEN pc' = "off" /\ ram' = Dark(ram.name)
                        ELSE pc' = "stuck" /\ UNCHANGED ram
  /\ Still /\ UNCHANGED vg

-----------------------------------------------------------------------------
(* Power, damage and use.                                                  *)

PowerCut ==
  /\ pc # "off"
  /\ pc' = "off" /\ sup' = "done" /\ job' = Idle /\ ram' = Dark(ram.name)
  /\ UNCHANGED <<boot, luks, vg, wish, mark, budget>>

Damage ==
  /\ pc = "off" /\ vg.default = "xfs" /\ budget.faults < MaxFaults
  /\ budget' = [budget EXCEPT !.faults = @ + 1]
  /\ \/ vg' = [vg EXCEPT !.thinBad = TRUE]
     \/ vg' = [vg EXCEPT !.xfsBad = TRUE]
     \/ /\ UsbVgFault \/ Usb \notin vg.member
        /\ vg' = [vg EXCEPT !.lost = TRUE]
  /\ UNCHANGED <<boot, luks, ram, pc, job, wish, sup, mark>>

AppWrites ==
  /\ pc = "up" /\ job = Idle /\ Adopted /\ ram.mnt /\ ~vg.data
  /\ vg' = [vg EXCEPT !.data = TRUE]
  /\ UNCHANGED <<boot, luks, ram, pc, job, wish, sup, mark, budget>>

BootNext ==
  \/ PowerOn
  \/ \E d \in Dev : DiscoverOpen(d) \/ (d \in Disk /\ Arrive(d))
  \/ Discovered \/ DiscoverExpires \/ Internals \/ ActivateVg
  \/ MountInternal \/ UsbData \/ Verify
  \/ Expire \/ Preserve \/ Interrupted \/ Resists \/ PowerCut \/ Damage \/ AppWrites

Next == BootNext \/ (ProvisionNext /\ UNCHANGED <<mark, budget>> /\ sup' = "done")

Spec == Init /\ [][Next]_vars

-----------------------------------------------------------------------------
(* Data that was once stored is never formatted away and its volume group  *)
(* never replaced, by no order of boots with missing, late or renamed      *)
(* disks, damage, refused and repeated provisioning and growth; only a     *)
(* factory reset may do so (storage.py, "refusing destructive              *)
(* reprovisioning").                                                       *)
DataKept == [][vg.data => vg'.data \/ FactoryReset]_vars

(* A disk the user did not select is never taken while the disks that were *)
(* selected are members already, whatever names they have now              *)
(* (storage.py, _find_new_storage_disks).                                  *)
CompletePoolTakesNoDisk ==
  [][\A d \in Disk : wish.meant # {} /\ wish.meant \subseteq vg.member /\ vg.data
        /\ job'.op = "extend" => d \notin job'.todo \/ d \in wish.meant]_vars

(* One key opens every member of a group that holds data                   *)
(* (_provision_luks_stack, "single-key-unlocks-all-reefy-volumes").        *)
OneKey == \A d \in vg.member : luks[d] = boot.key
KeyOpensData == vg.data => OneKey

(* A device with data whose disks are all there, undamaged and under one   *)
(* key comes up with the data mounted, wherever power was cut before.      *)
HealthyBootMounts ==
  [][pc # "up" /\ pc' = "up" /\ vg.data /\ Disk \subseteq ram.plugged /\ ~mark
        /\ ~ram'.timedOut /\ ~vg.lost /\ ~vg.thinBad /\ ~vg.xfsBad /\ OneKey
     => ram'.mnt]_vars

(* Existing encrypted storage that does not mount leaves the guard that    *)
(* keeps provisioning away (docs/boot-storage-discovery.md).               *)
Guarded == [][pc # "up" /\ pc' = "up" /\ boot.p3 => ram'.mnt \/ ram'.guard]_vars
=============================================================================
