-------------------------- MODULE StorageProvision --------------------------
(* Encrypted storage of a Reefy device: the key partition of the boot      *)
(* disk, the LUKS headers, the volume group `reefy' with its default and   *)
(* state volumes, and the operations that create and extend them: the      *)
(* provisioning of control.py, the growth of dataplane.py and the factory  *)
(* reset.  Sizes, sector geometry and the layout inside the pool are left  *)
(* out; kernel names of disks change from boot to boot.                    *)
EXTENDS Integers, FiniteSets

CONSTANTS
  Disk,      \* internal disks; a kernel name is the place of a disk, 1..N
  Usb,       \* partition 4 of the boot disk
  MaxKeys    \* keys that may be generated

ASSUME DiskAssumption == IsFiniteSet(Disk) /\ Usb \notin Disk
ASSUME KeyAssumption  == MaxKeys \in Nat

Dev  == Disk \cup {Usb}
Name == 1..Cardinality(Disk)
Keys == 0..MaxKeys            \* 0: no LUKS header, or a scrambled key

VARIABLES
  boot,    \* the boot disk: is partition 3 there, its key, the last key made
  luks,    \* the key a device's LUKS header was made with
  vg,      \* the volume group on the disks
  ram,     \* what a boot knows: names, open mappers, mounts, the guard
  pc,      \* the boot script, see BootStorage; "up" once services run
  job,     \* the provisioning or growth that runs
  wish     \* the selection of the desired state and the disks it meant

storageVars == <<boot, luks, vg, ram, pc, job, wish>>

NoVg == [member |-> {}, holds |-> {}, lost |-> FALSE, thinBad |-> FALSE,
         xfsBad |-> FALSE, default |-> "none", state |-> "none", data |-> FALSE, ident |-> "none"]
Idle == [op |-> "none", step |-> "none", todo |-> {}, cur |-> Usb, opened |-> {}]

NoWish == [sel |-> {}, meant |-> {}]

(* A readable group has a member that is open and whose metadata is sound; *)
(* it activates when no member is missing and the pool passes its check.   *)
Readable  == ~vg.lost /\ vg.member \cap vg.holds \cap ram.open # {}
Complete  == vg.member \subseteq vg.holds \cap ram.open
Activates == Readable /\ Complete /\ ~vg.thinBad
Opens(d)  == d \in ram.plugged /\ luks[d] # 0 /\ luks[d] = boot.key
Named(S)  == {d \in Disk : ram.name[d] \in S}

(* The identity is read where state is mounted.                            *)
Adopted == /\ vg.ident # "none"
           /\ IF vg.ident = "state" THEN ram.state ELSE ram.mnt
At(op, step) == job.op \in op /\ job.step = step

(* The state volume, mounted wherever it has a file system;                *)
(* mount_state_lv: an empty state volume is seeded from the default one.   *)
MountState(v) == v.state = "xfs"
Seeded(v) == IF v.state = "xfs" /\ v.ident = "default"
             THEN [v EXCEPT !.ident = "state"] ELSE v

Goto(step) == job' = [job EXCEPT !.step = step]

-----------------------------------------------------------------------------
(* _do_provision and _ensure_persistent_storage.                           *)

(* Refused while the guard stands; storage that is mounted is kept;        *)
(* partition 3 is created when it is missing, its bytes are what the disk  *)
(* holds there.                                                            *)
ProvisionUnguarded(S) ==                                               \* mutant
  /\ pc = "up" /\ job = Idle /\ ~Adopted
  /\ wish' = [sel |-> S, meant |-> Named(S)]
  /\ job' = [Idle EXCEPT !.op = "provision", !.step = IF ram.mnt THEN "adopt" ELSE "scan"]
  /\ boot' = IF ram.mnt THEN boot ELSE [boot EXCEPT !.p3 = TRUE]
  /\ UNCHANGED <<luks, vg, ram, pc>>
Provision(S) ==
  /\ pc = "up" /\ job = Idle /\ ~Adopted /\ ~ram.guard
  /\ wish' = [sel |-> S, meant |-> Named(S)]
  /\ job' = [Idle EXCEPT !.op = "provision", !.step = IF ram.mnt THEN "adopt" ELSE "scan"]
  /\ boot' = IF ram.mnt THEN boot ELSE [boot EXCEPT !.p3 = TRUE]
  /\ UNCHANGED <<luks, vg, ram, pc>>

(* Existing LUKS disks that the key opens; a failed open is passed over.   *)
ScanExisting ==
  /\ At({"provision"}, "scan")
  /\ \E O \in SUBSET {d \in Disk : Opens(d)} : ram' = [ram EXCEPT !.open = @ \cup O]
  /\ Goto("existing")
  /\ UNCHANGED <<boot, luks, vg, pc, wish>>

(* A group that is found is used or the provisioning stops; one without    *)
(* a volume to mount falls through to a fresh provisioning.                *)
UseExisting ==
  /\ At({"provision"}, "existing")
  /\ IF ~Readable THEN Goto("choose") /\ UNCHANGED ram
     ELSE IF ~Activates THEN job' = Idle /\ UNCHANGED ram
     ELSE IF vg.default = "none" THEN Goto("choose") /\ UNCHANGED ram
     ELSE Goto("mount") /\ UNCHANGED ram
  /\ UNCHANGED <<boot, luks, vg, pc, wish>>

(* The selected disks, all of them present, or else partition 4.           *)
Choose ==
  /\ At({"provision"}, "choose")
  /\ LET targets == IF wish.sel = {} THEN {Usb} ELSE Named(wish.sel)
     IN  IF targets \subseteq ram.plugged
         THEN job' = [job EXCEPT !.step = "scramble", !.todo = targets]
         ELSE job' = Idle
  /\ UNCHANGED <<boot, luks, vg, ram, pc, wish>>

(* _write_fresh_keyfile: random bytes over the partition, then the key.    *)
Scramble ==
  /\ At({"provision"}, "scramble")
  /\ boot' = [boot EXCEPT !.key = 0]
  /\ Goto("key")
  /\ UNCHANGED <<luks, vg, ram, pc, wish>>
WriteKey ==
  /\ At({"provision"}, "key")
  /\ boot.last < MaxKeys
  /\ boot' = [boot EXCEPT !.key = boot.last + 1, !.last = @ + 1]
  /\ Goto("format")
  /\ UNCHANGED <<luks, vg, ram, pc, wish>>

(* _provision_luks_stack, one target at a time: the device is torn down    *)
(* and wiped, then formatted with the key that partition 3 holds.          *)
Wiped(t) == [vg EXCEPT !.holds = @ \ {t}, !.data = @ /\ t \notin vg.member]
Wipe(t) ==
  /\ At({"provision", "extend"}, "format") /\ t \in job.todo
  /\ luks' = [luks EXCEPT ![t] = 0]
  /\ vg' = Wiped(t)
  /\ ram' = [ram EXCEPT !.open = @ \ {t}]
  /\ job' = [job EXCEPT !.step = "luks", !.cur = t]
  /\ UNCHANGED <<boot, pc, wish>>
LuksFormat ==
  /\ At({"provision", "extend"}, "luks")
  /\ luks' = [luks EXCEPT ![job.cur] = boot.key]
  /\ ram' = [ram EXCEPT !.open = @ \cup {job.cur}]
  /\ LET rest == job.todo \ {job.cur}
     IN  job' = [job EXCEPT !.todo = rest, !.opened = @ \cup {job.cur},
                            !.step = IF rest = {} THEN "lvm" ELSE "format"]
  /\ UNCHANGED <<boot, vg, pc, wish>>

(* _ensure_lvm_stack and the vgextend of _extend_storage: the targets join *)
(* a group that is readable, otherwise they make a new one.                *)
Lvm ==
  /\ At({"provision", "extend"}, "lvm")
  /\ vg' = IF Readable
           THEN [vg EXCEPT !.member = @ \cup job.opened, !.holds = @ \cup job.opened]
           ELSE [NoVg EXCEPT !.member = job.opened, !.holds = job.opened]
  /\ job' = IF job.op = "extend" \/ (Readable /\ ~Activates) THEN Idle
            ELSE [job EXCEPT !.opened = {},
                             !.step = IF vg'.default # "none" THEN "mount" ELSE "state"]
  /\ UNCHANGED <<boot, luks, ram, pc, wish>>

(* _ensure_state_lv: volume, then file system; a failure is logged.        *)
StateLv ==
  /\ At({"provision"}, "state")
  /\ \E s \in {"raw", "xfs"} : vg' = [vg EXCEPT !.state = IF @ = "none" THEN s ELSE @]
  /\ Goto("default")
  /\ UNCHANGED <<boot, luks, ram, pc, wish>>

(* The default volume is created without a file system and formatted in a  *)
(* second command; nothing is removed when that fails.                     *)
DefaultLv ==
  /\ At({"provision"}, "default")
  /\ vg' = [vg EXCEPT !.default = "raw"]
  /\ Goto("mkfs")
  /\ UNCHANGED <<boot, luks, ram, pc, wish>>
Mkfs ==
  /\ At({"provision"}, "mkfs")
  /\ vg' = [vg EXCEPT !.default = "xfs"]
  /\ Goto("mount")
  /\ UNCHANGED <<boot, luks, ram, pc, wish>>

(* _finalize_data_mount: what does not mount is refused.                   *)
FinalizeMount ==
  /\ At({"provision"}, "mount")
  /\ IF vg.default = "xfs" /\ ~vg.xfsBad
     THEN /\ ram' = [ram EXCEPT !.mnt = TRUE, !.state = MountState(vg)]
          /\ vg' = Seeded(vg)
          /\ Goto("adopt")
     ELSE job' = Idle /\ UNCHANGED <<ram, vg>>
  /\ UNCHANGED <<boot, luks, pc, wish>>

(* The certificate and the UUID are saved; device mode.                    *)
Adopt ==
  /\ At({"provision"}, "adopt")
  /\ vg' = [vg EXCEPT !.ident = IF ram.state THEN "state" ELSE "default"]
  /\ job' = Idle
  /\ UNCHANGED <<boot, luks, ram, pc, wish>>

(* A command fails or runs into its time limit: the mappers opened by the  *)
(* formatting are closed, whatever else was done stays.                    *)
JobFails ==
  /\ job.op # "none" /\ job.step # "adopt"
  /\ job' = Idle
  /\ ram' = IF job.step \in {"format", "luks"}
            THEN [ram EXCEPT !.open = @ \ job.opened] ELSE ram
  /\ UNCHANGED <<boot, luks, vg, pc, wish>>

-----------------------------------------------------------------------------
(* Growth: _apply_storage of the data plane, which runs only when the      *)
(* storage unit succeeded.                                                 *)

(* The selection grows.                                                    *)
SetDesired(S) ==
  /\ pc = "up" /\ job = Idle /\ Adopted /\ S # wish.sel /\ wish.sel \subseteq S
  /\ wish' = [sel |-> S, meant |-> Named(S)]
  /\ UNCHANGED <<boot, luks, vg, ram, pc, job>>

(* _find_new_storage_disks compares numbers first, then names.             *)
Internal == vg.member \ {Usb}
Current  == {ram.name[d] : d \in Internal}
Satisfied == Cardinality(wish.sel) <= Cardinality(Internal)
NewByName == Named(wish.sel \ Current)                                  \* mutant
NewDisks == IF Satisfied \/ ~ Current \subseteq wish.sel THEN {}
            ELSE Named(wish.sel \ Current)

(* The new disks are formatted under the key the members already have.     *)
Extend ==
  /\ pc = "up" /\ job = Idle /\ Adopted /\ ram.unit = "ok" /\ ram.mnt
  /\ NewDisks # {} /\ NewDisks \subseteq ram.plugged /\ boot.p3
  /\ job' = [Idle EXCEPT !.op = "extend", !.step = "format", !.todo = NewDisks]
  /\ UNCHANGED <<boot, luks, vg, ram, pc, wish>>

-----------------------------------------------------------------------------
(* _reset_identity keeps the data and goes back to bootstrap.              *)
ResetIdentity ==
  /\ pc = "up" /\ job = Idle /\ Adopted
  /\ vg' = [vg EXCEPT !.ident = "none"]
  /\ wish' = NoWish
  /\ UNCHANGED <<boot, luks, ram, pc, job>>

(* What a boot knows before anything is open.                              *)
Dark(names) == [name |-> names, plugged |-> {}, open |-> {}, mnt |-> FALSE,
                state |-> FALSE, guard |-> FALSE, timedOut |-> FALSE, unit |-> "none"]

(* _reset_to_bootstrap: the key is overwritten, the partition table loses  *)
(* partitions 4 and 3, each if it can be, and the machine is reset.        *)
FactoryReset ==
  /\ pc = "up" /\ job = Idle
  /\ \E key \in {0, boot.key}, gone \in BOOLEAN :
       /\ boot' = [boot EXCEPT !.key = key, !.p3 = @ /\ ~gone]
       /\ luks' = IF gone THEN [luks EXCEPT ![Usb] = 0] ELSE luks
       /\ vg' = [vg EXCEPT !.data = @ /\ key # 0 /\ ~gone]
  /\ ram' = Dark(ram.name) /\ pc' = "off" /\ wish' = NoWish
  /\ UNCHANGED job

ProvisionNext ==
  \/ \E S \in SUBSET Name : Provision(S) \/ SetDesired(S)
  \/ ScanExisting \/ UseExisting \/ Choose \/ Scramble \/ WriteKey
  \/ \E t \in Dev : Wipe(t)
  \/ LuksFormat \/ Lvm \/ StateLv \/ DefaultLv \/ Mkfs
  \/ FinalizeMount \/ Adopt \/ JobFails \/ Extend \/ ResetIdentity \/ FactoryReset
=============================================================================
