----------------------------- MODULE AppVolumes -----------------------------
(* Dedicated thin volumes of apps: creation, mount, repair and reclaim in  *)
(* storage.py, called by the boot oneshot before docker starts and by the  *)
(* apply of the data plane.  An app has one volume here; its containers    *)
(* write to whatever was mounted at the path when they started.            *)
EXTENDS Naturals, FiniteSets

CONSTANTS
  Vol,            \* volume paths, each of an app of its own
  CrashInCreate   \* may power be cut between lvcreate and mkfs?

ASSUME VolAssumption == IsFiniteSet(Vol) /\ CrashInCreate \in BOOLEAN

VARIABLES
  desired,   \* the saved state: backup, capped, plain or absent
  lv,        \* the volume: state, tagged, damaged, holding data
  dir,       \* is there data in the directory below the mount?
  kept,      \* is there fallback data in the recovery area?
  mnt,       \* is the volume mounted?
  run,       \* the container: no, or where it writes: lv or dir
  tried,     \* volumes repaired in this boot
  pc,        \* off, boot (before docker) or up
  call       \* the pass of the oneshot or the apply

vars == <<desired, lv, dir, kept, mnt, run, tried, pc, call>>

NoLv == [st |-> "none", tagged |-> FALSE, bad |-> FALSE, data |-> FALSE]
Idle == [todo |-> {}, cur |-> {}, step |-> "idle", created |-> FALSE, old |-> {}]

Exists(v)  == lv[v].st # "none"
Managed(v) == desired[v] \in {"backup", "capped"}
Present    == {v \in Vol : desired[v] # "absent"}
V == CHOOSE v \in Vol : v \in call.cur       \* the volume at hand

(* The values the variables take.                                          *)
TypeOK ==
  /\ desired \in [Vol -> {"absent", "plain", "capped", "backup"}]
  /\ lv \in [Vol -> [st : {"none", "raw", "xfs"}, tagged : BOOLEAN, bad : BOOLEAN, data : BOOLEAN]]
  /\ dir \in [Vol -> BOOLEAN] /\ kept \in [Vol -> BOOLEAN] /\ mnt \in [Vol -> BOOLEAN]
  /\ run \in [Vol -> {"no", "lv", "dir"}] /\ tried \subseteq Vol
  /\ pc \in {"off", "boot", "up"}
  /\ call.todo \cup call.cur \cup call.old \subseteq Vol /\ call.created \in BOOLEAN
  /\ Cardinality(call.cur) <= 1

Init ==
  /\ desired = [v \in Vol |-> "absent"]
  /\ lv = [v \in Vol |-> NoLv]
  /\ dir = [v \in Vol |-> FALSE] /\ kept = [v \in Vol |-> FALSE]
  /\ mnt = [v \in Vol |-> FALSE] /\ run = [v \in Vol |-> "no"]
  /\ tried = {} /\ pc = "up" /\ call = Idle

-----------------------------------------------------------------------------
(* The pass over the volumes.                                              *)

(* boot_mount and _prepare_app_dirs handle managed paths and every path    *)
(* that has a volume.                                                      *)
ManagedOnly(S) == {v \in S : Managed(v)}                               \* mutant
Handled(S) == {v \in S : Managed(v) \/ Exists(v)}

Continue(rest) ==
  IF rest # {} THEN \E v \in rest : call' = [call EXCEPT !.todo = rest \ {v}, !.cur = {v},
                                                  !.step = "look", !.created = FALSE]
  ELSE call' = [call EXCEPT !.todo = {}, !.cur = {}, !.created = FALSE,
                       !.step = IF pc = "boot" THEN "docker" ELSE "compose"]

(* How preparing one volume ends: an unavailable volume fails the apply;   *)
(* so does a backup path without a volume; the boot goes on with the next. *)
Prepared == Continue(call.todo)
Raise    == IF pc = "boot" THEN Continue(call.todo) ELSE call' = Idle
Default  == IF desired[V] = "backup" /\ ~mnt[V] THEN Raise ELSE Continue(call.todo)

At(step) == call.step = step
Goto(step) == call' = [call EXCEPT !.step = step]

(* _apply_state saves the state, and the apply runs; a resync applies the  *)
(* same state again, without an old one.                                   *)
Start(S, old) ==
  call' = IF S = {} THEN [Idle EXCEPT !.step = "compose", !.old = old]
          ELSE [Idle EXCEPT !.step = "next", !.todo = S, !.old = old]
ApplyState(f) ==
  /\ pc = "up" /\ At("idle")
  /\ desired' = f
  /\ Start({v \in Vol : f[v] # "absent"}, IF f = desired THEN {} ELSE Present)
  /\ UNCHANGED <<lv, dir, kept, mnt, run, tried, pc>>

NextVolume ==
  /\ At("next") /\ Continue(Handled(call.todo))
  /\ UNCHANGED <<desired, lv, dir, kept, mnt, run, tried, pc>>

-----------------------------------------------------------------------------
(* _ensure_volume_lv.                                                      *)

(* An inspection that fails: an existing volume must not be passed over.   *)
LookFails ==
  /\ At("look")
  /\ IF Exists(V) THEN Raise ELSE Default
  /\ UNCHANGED <<desired, lv, dir, kept, mnt, run, tried, pc>>

(* It is mounted: tags of old volumes are added when that works.           *)
LookMounted ==
  /\ At("look") /\ mnt[V]
  /\ \E t \in {lv[V].tagged, TRUE} : lv' = [lv EXCEPT ![V].tagged = t]
  /\ Prepared
  /\ UNCHANGED <<desired, dir, kept, mnt, run, tried, pc>>

(* No volume yet: data at the path stays where it is; only a managed path  *)
(* gets one, and no boot without an inventory creates any.                 *)
LookNew ==
  /\ At("look") /\ ~mnt[V] /\ ~Exists(V)
  /\ \/ (dir[V] \/ pc = "boot") /\ Default
     \/ ~dir[V] /\ Goto("create")
  /\ UNCHANGED <<desired, lv, dir, kept, mnt, run, tried, pc>>

(* A volume and data below its mount point: only the boot may move the     *)
(* data aside, and only for a tagged volume.                               *)
LookOver ==                                                            \* mutant
  /\ At("look") /\ ~mnt[V] /\ Exists(V)
  /\ Goto("mount") /\ UNCHANGED <<dir, kept>>
  /\ UNCHANGED <<desired, lv, mnt, run, tried, pc>>
LookExisting ==
  /\ At("look") /\ ~mnt[V] /\ Exists(V)
  /\ IF ~dir[V] THEN Goto("mount") /\ UNCHANGED <<dir, kept>>
     ELSE \/ /\ pc = "boot" /\ lv[V].tagged
             /\ dir' = [dir EXCEPT ![V] = FALSE] /\ kept' = [kept EXCEPT ![V] = TRUE]
             /\ Goto("mount")
          \/ Raise /\ UNCHANGED <<dir, kept>>
  /\ UNCHANGED <<desired, lv, mnt, run, tried, pc>>

(* A volume this call created is removed again when a later command fails; *)
(* what cannot be removed is an error.                                     *)
CleanupOf(v, r) ==
  \/ lv' = [r EXCEPT ![v] = NoLv] /\ Default
  \/ lv' = r /\ Raise
Cleanup(v) == IF call.created THEN CleanupOf(v, lv) ELSE Raise /\ UNCHANGED lv

Create ==
  /\ At("create")
  /\ \/ /\ lv' = [lv EXCEPT ![V] = [NoLv EXCEPT !.st = "raw"]]
        /\ call' = [call EXCEPT !.step = "mkfs", !.created = TRUE]
     \/ CleanupOf(V, [lv EXCEPT ![V] = [NoLv EXCEPT !.st = "raw"]])
  /\ UNCHANGED <<desired, dir, kept, mnt, run, tried, pc>>
Mkfs ==
  /\ At("mkfs")
  /\ \/ lv' = [lv EXCEPT ![V].st = "xfs"] /\ Goto("mount")
     \/ Cleanup(V)
  /\ UNCHANGED <<desired, dir, kept, mnt, run, tried, pc>>

Mounts(v) == lv[v].st = "xfs" /\ ~lv[v].bad
Mount ==
  /\ At("mount") /\ Mounts(V)
  /\ mnt' = [mnt EXCEPT ![V] = TRUE]
  /\ Goto("tag")
  /\ UNCHANGED <<desired, lv, dir, kept, run, tried, pc>>
(* A mount that fails: one repair per volume and boot, only of an XFS that *)
(* was there before; then one more mount.                                  *)
Repairable(v) == ~call.created /\ lv[v].st = "xfs" /\ v \notin tried
MountFails ==
  /\ At("mount")
  /\ IF ~Repairable(V)
     THEN Cleanup(V) /\ UNCHANGED tried
     ELSE /\ tried' = tried \cup {V}
          /\ \/ lv' = [lv EXCEPT ![V].bad = FALSE] /\ Goto("mount")
             \/ Raise /\ UNCHANGED lv
  /\ UNCHANGED <<desired, dir, kept, mnt, run, pc>>
Tag ==
  /\ At("tag")
  /\ lv' = [lv EXCEPT ![V].tagged = TRUE] /\ Prepared
  /\ UNCHANGED <<desired, dir, kept, mnt, run, tried, pc>>
(* A new volume without tags is unmounted and removed, an old one is used. *)
TagFails ==
  /\ At("tag")
  /\ IF call.created
     THEN \/ mnt' = [mnt EXCEPT ![V] = FALSE] /\ lv' = [lv EXCEPT ![V] = NoLv]
             /\ IF desired[V] = "backup" THEN Raise ELSE Continue(call.todo)
          \/ \E m \in BOOLEAN : mnt' = [mnt EXCEPT ![V] = m] /\ Raise /\ UNCHANGED lv
     ELSE Prepared /\ UNCHANGED <<lv, mnt>>
  /\ UNCHANGED <<desired, dir, kept, run, tried, pc>>

-----------------------------------------------------------------------------
(* Containers and reclaim.                                                 *)

Bound(v) == IF mnt[v] THEN "lv" ELSE "dir"
(* The containers of the state run, those of other apps are removed; a     *)
(* project that fails keeps what it has.                                   *)
Compose ==
  /\ At("compose")
  /\ \E F \in SUBSET Vol :
       run' = [v \in Vol |-> IF v \in F THEN run[v]
                             ELSE IF v \notin Present THEN "no"
                             ELSE IF run[v] = "no" THEN Bound(v) ELSE run[v]]
  /\ call' = [call EXCEPT !.step = "reclaim", !.todo = {v \in Vol : Exists(v)}]
  /\ UNCHANGED <<desired, lv, dir, kept, mnt, tried, pc>>

(* _reclaim_deleted_instance_lvs: volumes that the old or the new state    *)
(* names get their tags; a tagged one whose app is gone is unmounted,      *)
(* unless a container uses it, and removed, or kept for the next pass.     *)
GoneFromBackup(v) == ~Managed(v)                                       \* mutant
AppGone(v) == v \notin Present
ReclaimVolume(v) ==
  /\ At("reclaim") /\ v \in call.todo
  /\ call' = [call EXCEPT !.todo = @ \ {v}]
  /\ \E t \in {lv[v].tagged} \cup (IF v \in call.old \cup Present THEN {TRUE} ELSE {}) :
       IF t /\ AppGone(v) /\ ~(mnt[v] /\ run[v] = "lv")
       THEN \/ lv' = [lv EXCEPT ![v] = NoLv] /\ mnt' = [mnt EXCEPT ![v] = FALSE]
            \/ /\ lv' = [lv EXCEPT ![v].tagged = t]
               /\ \E m \in {mnt[v], FALSE} : mnt' = [mnt EXCEPT ![v] = m]
       ELSE lv' = [lv EXCEPT ![v].tagged = t] /\ UNCHANGED mnt
  /\ UNCHANGED <<desired, dir, kept, run, tried, pc>>
ApplyEnds ==
  /\ At("reclaim") \/ (At("compose") /\ pc = "up")      \* compose up may fail
  /\ At("reclaim") => call.todo = {}
  /\ call' = Idle
  /\ UNCHANGED <<desired, lv, dir, kept, mnt, run, tried, pc>>

(* Docker starts after the oneshot, and with it the containers it knows.   *)
Docker ==
  /\ pc = "boot" /\ At("docker")
  /\ run' = [v \in Vol |-> IF run[v] = "no" THEN "no" ELSE Bound(v)]
  /\ pc' = "up" /\ call' = Idle
  /\ UNCHANGED <<desired, lv, dir, kept, mnt, tried>>

-----------------------------------------------------------------------------
Write(v) ==
  /\ pc = "up" /\ run[v] # "no"
  /\ IF run[v] = "lv" THEN lv' = [lv EXCEPT ![v].data = TRUE] /\ UNCHANGED dir
                      ELSE dir' = [dir EXCEPT ![v] = TRUE] /\ UNCHANGED lv
  /\ UNCHANGED <<desired, kept, mnt, run, tried, pc, call>>

PowerCut ==
  /\ pc # "off" /\ (At("mkfs") => CrashInCreate)
  /\ pc' = "off" /\ call' = Idle
  /\ mnt' = [v \in Vol |-> FALSE] /\ tried' = {}
  /\ \E B \in SUBSET {v \in Vol : lv[v].st = "xfs" /\ ~call.created} :
       lv' = [v \in Vol |-> IF v \in B THEN [lv[v] EXCEPT !.bad = TRUE] ELSE lv[v]]
  /\ UNCHANGED <<desired, dir, kept, run>>
PowerOn ==
  /\ pc = "off" /\ pc' = "boot"
  /\ call' = IF Handled(Present) = {} THEN [Idle EXCEPT !.step = "docker"]
             ELSE [Idle EXCEPT !.step = "next", !.todo = Handled(Present)]
  /\ UNCHANGED <<desired, lv, dir, kept, mnt, run, tried>>

Next ==
  \/ \E f \in [Vol -> {"backup", "capped", "plain", "absent"}] : ApplyState(f)
  \/ NextVolume \/ LookFails \/ LookMounted \/ LookNew \/ LookExisting
  \/ Create \/ Mkfs \/ Mount \/ MountFails \/ Tag \/ TagFails
  \/ Compose \/ ApplyEnds \/ Docker \/ PowerCut \/ PowerOn
  \/ \E v \in Vol : ReclaimVolume(v) \/ Write(v)

Spec == Init /\ [][Next]_vars

-----------------------------------------------------------------------------
(* The data of an app's volume goes away only after the app has left the   *)
(* desired state, whatever fails and however often power is cut            *)
(* (_reclaim_deleted_instance_lvs: a volume that is no longer backed up    *)
(* "keeps live data and must never be reclaimed").                         *)
VolumeDataKept == [][\A v \in Vol : lv[v].data => lv'[v].data \/ desired[v] = "absent"]_vars

(* Fallback data, written while the volume was not mounted, is kept and    *)
(* never covered by a mount, except below a container that still runs on   *)
(* it (_ensure_volume_lv, "Never hide divergent default-LV data").         *)
FallbackKept ==
  [][\A v \in Vol : dir[v] =>
       /\ dir'[v] \/ kept'[v]
       /\ ~mnt[v] /\ mnt'[v] => ~dir'[v] \/ run[v] = "dir"]_vars

(* An apply never starts a container on the bare directory while the       *)
(* app's data is in its volume (boot_mount, "the boot mount-race that      *)
(* shadowed Frigate's config").                                            *)
AppSeesItsData ==
  [][\A v \in Vol : pc = "up" /\ run[v] = "no" /\ run'[v] = "dir" => ~lv[v].data]_vars
=============================================================================
