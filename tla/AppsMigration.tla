--------------------------- MODULE AppsMigration ---------------------------
(* The one-time move of a device from the monolithic compose project of    *)
(* desired-state v1 to one system project and one project per app:         *)
(* _apply_v2_projects and its helpers in dataplane.py.  Images are pulled  *)
(* while the legacy project runs, then names are released and projects     *)
(* started, and the move is committed or rolled back as a whole.           *)
EXTENDS FiniteSets

CONSTANTS
  App,         \* instances
  StopFails,   \* may a stop or remove of a rollback fail?
  MayCrash     \* may power be cut during a handoff?

ASSUME MigrationAssumption ==
  IsFiniteSet(App) /\ StopFails \in BOOLEAN /\ MayCrash \in BOOLEAN

VARIABLES
  want,    \* desired status of an app, running or stopped
  file,    \* which of the files v2, v1, compose and the marker exist
  old,     \* containers of the legacy project: of the system and per app
  new,     \* containers of the v2 projects
  pass,    \* the apply: its step, apps still to do, has one failed?
  torn     \* history: power was cut, or a clean-up failed, in a handoff
           \* and no handoff or rollback was completed since

vars == <<want, file, old, new, pass, torn>>

System == "system"
Part   == App \cup {System}
Idle   == [step |-> "idle", todo |-> {}, app |-> System, failed |-> FALSE, clean |-> TRUE]
All(state) == [p \in Part |-> state]

(* _v2_migration_pending.                                                  *)
Pending == {"v1"} \subseteq file /\ "marker" \notin file

(* The values the variables take.                                          *)
Steps  == {"idle", "prepare", "clean", "release", "system", "apps", "app", "down",
           "marker", "files", "stop", "up", "reconcile"}
Passes == [step : Steps, todo : SUBSET App, app : Part, failed : BOOLEAN, clean : BOOLEAN]
TypeOK ==
  /\ want \in [App -> {"running", "stopped"}]
  /\ file \subseteq {"v1", "v2", "compose", "marker"}
  /\ old \in [Part -> {"up", "stopped", "gone"}] /\ new \in [Part -> {"none", "up", "stopped"}]
  /\ pass \in Passes /\ torn \in BOOLEAN

Init ==
  /\ want = [a \in App |-> "running"]
  /\ file = {"v1", "compose"}
  /\ old = All("up") /\ new = All("none")
  /\ pass = Idle /\ torn = FALSE

At(step) == pass.step = step
Goto(step) == pass' = [pass EXCEPT !.step = step]
Rollback == pass' = [pass EXCEPT !.step = "stop", !.todo = App, !.clean = TRUE]

-----------------------------------------------------------------------------
(* _apply_state saves a v2 state; once there is one a v1 state is refused. *)
(* A resync, a boot and a retry of one app apply what is saved.            *)
ApplyState(w) ==
  /\ At("idle")
  /\ want' = w /\ file' = file \cup {"v2"}
  /\ pass' = [Idle EXCEPT !.step = IF Pending THEN "prepare" ELSE "reconcile"]
  /\ UNCHANGED <<old, new, torn>>

(* Projects that have their images; nothing is touched when one fails.     *)
PrepareFails ==
  /\ At("prepare") /\ pass' = Idle
  /\ UNCHANGED <<want, file, old, new, torn>>
Prepare ==
  /\ At("prepare") /\ Goto("clean")
  /\ UNCHANGED <<want, file, old, new, torn>>

(* _prepare_v2_system_handoff: debris of an earlier attempt is removed,    *)
(* then the names of the legacy system are released.                       *)
CleanSystem ==
  /\ At("clean")
  /\ \/ new' = [new EXCEPT ![System] = "none"] /\ Goto("release")
     \/ Rollback /\ UNCHANGED new
  /\ UNCHANGED <<want, file, old, torn>>
ReleaseSystem ==
  /\ At("release")
  /\ \E s \in {old[System], "stopped", "gone"} :
       /\ old' = [old EXCEPT ![System] = s]
       /\ IF s = "gone" THEN Goto("system") ELSE Rollback
  /\ UNCHANGED <<want, file, new, torn>>
StartSystem ==
  /\ At("system")
  /\ \/ /\ new' = [new EXCEPT ![System] = "up"]
        /\ pass' = [pass EXCEPT !.step = "apps", !.todo = App]
     \/ /\ \E s \in {"none", "up"} : new' = [new EXCEPT ![System] = s]
        /\ Rollback
  /\ UNCHANGED <<want, file, old, torn>>

(* _reconcile_v2_app: the legacy containers of the app are stopped, then   *)
(* the v2 project is started, or stopped as well; an app that should run   *)
(* and does not start gets its legacy containers back, unless it is        *)
(* superseded; one that should be stopped never does.                      *)
Failed(a) == pass' = [pass EXCEPT !.step = "apps", !.todo = @ \ {a}, !.failed = TRUE]
HandOver(a) ==
  /\ At("apps") /\ a \in pass.todo
  /\ \/ /\ old' = [old EXCEPT ![a] = "stopped"]
        /\ pass' = [pass EXCEPT !.step = "app", !.app = a]
     \/ Failed(a) /\ UNCHANGED old
  /\ UNCHANGED <<want, file, new, torn>>
StartApp ==
  LET a == pass.app
  IN  /\ At("app")
      /\ \/ /\ new' = [new EXCEPT ![a] = IF want[a] = "running" THEN "up" ELSE "stopped"]
            /\ pass' = [pass EXCEPT !.step = "apps", !.todo = @ \ {a}]
            /\ UNCHANGED old
         \/ /\ \E S \in SUBSET (IF want[a] = "running" THEN {"old", "new"} ELSE {}) :
                 /\ old' = IF "old" \in S THEN [old EXCEPT ![a] = "up"] ELSE old
                 /\ new' = IF "new" \in S THEN [new EXCEPT ![a] = "up"] ELSE new
            /\ Failed(a)
      /\ UNCHANGED <<want, file, torn>>
AppsDone ==
  /\ At("apps") /\ pass.todo = {}
  /\ IF pass.failed THEN Rollback ELSE Goto("down")
  /\ UNCHANGED <<want, file, old, new, torn>>

(* _commit_v2_migration: the legacy project goes down, the marker is made  *)
(* durable, and only then the legacy files are removed.                    *)
MarkFirst ==                                                           \* mutant
  /\ At("down")
  /\ file' = file \cup {"marker"} /\ Goto("files")
  /\ UNCHANGED <<want, old, new, torn>>
Down ==
  /\ At("down")
  /\ \/ old' = All("gone") /\ Goto("marker")
     \/ \E S \in SUBSET Part :
          /\ old' = [p \in Part |-> IF p \in S THEN "gone" ELSE old[p]] /\ Rollback
  /\ UNCHANGED <<want, file, new, torn>>
Mark ==
  /\ At("marker")
  /\ \/ file' = file \cup {"marker"} /\ Goto("files") /\ torn' = FALSE
     \/ pass' = Idle /\ torn' = TRUE /\ UNCHANGED file   \* it cannot be written
  /\ UNCHANGED <<want, old, new>>
RemoveFile ==
  /\ At("files")
  /\ IF "v1" \in file THEN file' = file \ {"v1"} /\ UNCHANGED pass
     ELSE file' = file \ {"compose"} /\ pass' = Idle
  /\ UNCHANGED <<want, old, new, torn>>

-----------------------------------------------------------------------------
(* _rollback_v2_migration: the v2 apps are stopped, the v2 system removed, *)
(* and the legacy project is brought up, also when some of it failed.      *)
StopApp(a) ==
  /\ At("stop") /\ a \in pass.todo
  /\ \/ /\ new' = [new EXCEPT ![a] = IF @ = "up" THEN "stopped" ELSE @]
        /\ pass' = [pass EXCEPT !.todo = @ \ {a}]
     \/ StopFails /\ UNCHANGED new /\ pass' = [pass EXCEPT !.todo = @ \ {a}, !.clean = FALSE]
  /\ UNCHANGED <<want, file, old, torn>>
KeepSystem ==                                                          \* mutant
  /\ At("stop") /\ pass.todo = {} /\ Goto("up") /\ UNCHANGED new
  /\ UNCHANGED <<want, file, old, torn>>
RemoveSystem ==
  /\ At("stop") /\ pass.todo = {}
  /\ \/ new' = [new EXCEPT ![System] = "none"] /\ Goto("up")
     \/ StopFails /\ UNCHANGED new /\ pass' = [pass EXCEPT !.step = "up", !.clean = FALSE]
  /\ UNCHANGED <<want, file, old, torn>>
SystemUpOnly ==                                                        \* mutant
  /\ At("up") /\ old' = [old EXCEPT ![System] = "up"] /\ torn' = FALSE
  /\ pass' = Idle /\ UNCHANGED <<want, file, new>>
LegacyUp ==
  /\ At("up")
  /\ \/ old' = All("up") /\ torn' = ~pass.clean
     \/ /\ \E S \in SUBSET Part : old' = [p \in Part |-> IF p \in S THEN "up" ELSE old[p]]
        /\ torn' = TRUE
  /\ pass' = Idle
  /\ UNCHANGED <<want, file, new>>

-----------------------------------------------------------------------------
(* After the move: every app by itself (see AppProject).                   *)
Reconcile ==
  /\ At("reconcile") /\ pass' = Idle
  /\ \E F \in SUBSET Part :
       new' = [p \in Part |-> IF p \in F THEN new[p]
                              ELSE IF p = System \/ want[p] = "running" THEN "up" ELSE "stopped"]
  /\ UNCHANGED <<want, file, old, torn>>

(* Power is cut: what ran is started again by docker, what was stopped is  *)
(* not.                                                                    *)
Crash ==
  /\ MayCrash /\ ~At("idle")
  /\ pass' = Idle
  /\ torn' = (torn \/ ~(At("prepare") \/ At("reconcile") \/ At("files")))
  /\ UNCHANGED <<want, file, old, new>>

Next ==
  \/ \E w \in [App -> {"running", "stopped"}] : ApplyState(w)
  \/ PrepareFails \/ Prepare \/ CleanSystem \/ ReleaseSystem \/ StartSystem
  \/ \E a \in App : HandOver(a) \/ StopApp(a)
  \/ StartApp \/ AppsDone \/ Down \/ Mark \/ RemoveFile
  \/ RemoveSystem \/ LegacyUp \/ Reconcile \/ Crash

Spec == Init /\ [][Next]_vars

-----------------------------------------------------------------------------
Side(c) == {p \in Part : c[p] = "up"}

(* Between two applies the device is on one side as a whole, unless power  *)
(* was cut in a handoff or its rollback failed: apps and platform never    *)
(* run on two networks (_apply_v2_projects, "any app failure rolls the     *)
(* whole handoff back").                                                   *)
AllOrNothing == At("idle") /\ ~torn => Side(old) = {} \/ Side(new) = {}

(* Until the move is committed no failure of it leaves an app down that    *)
(* should run.                                                             *)
NoAppLost ==
  At("idle") /\ ~torn /\ "marker" \notin file =>
    \A a \in App : want[a] = "running" => a \in Side(old) \cup Side(new)

(* Once the marker is there the legacy project is gone for good, also when *)
(* power is cut before its files are removed.                              *)
CommittedIsFinal == "marker" \in file => \A p \in Part : old[p] = "gone"

(* The same for every state between two applies; the repository says so    *)
(* without the exceptions.                                                 *)
NeverSplit == At("idle") => Side(old) = {} \/ Side(new) = {}

(* An app that was stopped in the desired state is down after an apply     *)
(* that did not fail on it.                                                *)
StoppedIsDown ==
  At("idle") /\ ~torn /\ "v2" \in file =>
    \A a \in App : want[a] = "stopped" /\ "marker" \notin file => a \notin Side(old)
=============================================================================
