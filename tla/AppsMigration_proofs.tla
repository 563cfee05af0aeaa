------------------------ MODULE AppsMigration_proofs ------------------------
(***************************************************************************)
(* Proofs about the move to one project per app, for every set of apps,    *)
(* any number of applies, failed stops and power cuts.                     *)
(***************************************************************************)
EXTENDS AppsMigration, TLAPS

(* The marker is written in the last step of the handoff only, and once    *)
(* the legacy project is down; a state without files of v1 has the marker. *)
MarkerLast ==
  /\ "marker" \in file => At("idle") \/ At("reconcile") \/ At("files")
  /\ At("files") \/ At("reconcile") \/ "v1" \notin file => "marker" \in file

(* The legacy containers are gone from the end of `down` on.               *)
LegacyGone ==
  "marker" \in file \/ At("marker") => \A p \in Part : old[p] = "gone"

(* A rollback that is clean so far has stopped what it is done with.       *)
RollbackStops ==
  pass.clean =>
    /\ At("stop") => \A a \in App \ pass.todo : new[a] # "up"
    /\ At("up") => Side(new) = {}

(* Before the move, and after one that was rolled back without a fault,    *)
(* the legacy project runs whole and nothing of v2 does.                   *)
LegacyWhole ==
  (At("idle") \/ At("prepare")) /\ ~torn /\ "marker" \notin file =>
    old = All("up") /\ Side(new) = {}

Inv == TypeOK /\ MarkerLast /\ LegacyGone /\ RollbackStops /\ LegacyWhole

-----------------------------------------------------------------------------
(* What the moves of a pass do to its record.                              *)

LEMMA GotoMoves ==
  ASSUME pass \in Passes, NEW s \in Steps, Goto(s)
  PROVE  /\ pass' \in Passes /\ pass'.step = s
         /\ pass'.todo = pass.todo /\ pass'.clean = pass.clean
BY DEF Goto, Passes

LEMMA RollbackMoves ==
  ASSUME pass \in Passes, Rollback
  PROVE  /\ pass' \in Passes /\ pass'.step = "stop"
         /\ pass'.todo = App /\ pass'.clean = TRUE
BY DEF Rollback, Passes, Steps

LEMMA FailedMoves ==
  ASSUME pass \in Passes, NEW a \in App, Failed(a)
  PROVE  /\ pass' \in Passes /\ pass'.step = "apps" /\ pass'.clean = pass.clean
BY DEF Failed, Passes, Steps

LEMMA IdlePass ==
  /\ Idle \in Passes /\ Idle.step = "idle"
  /\ \A s \in Steps : LET x == [Idle EXCEPT !.step = s]
                        IN  x \in Passes /\ x.step = s
BY DEF Idle, Passes, Steps, Part

LEMMA InitInv == Init => Inv
<1>. SUFFICES ASSUME Init PROVE Inv
  OBVIOUS
<1>1. TypeOK
  BY IdlePass DEF Init, TypeOK, All
<1>2. MarkerLast /\ LegacyGone /\ RollbackStops
  BY DEF Init, MarkerLast, LegacyGone, RollbackStops, At, Idle
<1>3. LegacyWhole
  BY DEF Init, LegacyWhole, Side, All
<1>4. QED
  BY <1>1, <1>2, <1>3 DEF Inv

-----------------------------------------------------------------------------
(* Every step keeps the invariant.                                         *)

LEMMA ApplyStateKeeps ==
  ASSUME Inv, NEW w \in [App -> {"running", "stopped"}], ApplyState(w)
  PROVE  Inv'
<1>1. /\ pass' \in Passes /\ pass'.step = (IF Pending THEN "prepare" ELSE "reconcile")
      /\ At("idle") /\ want' = w /\ file' = file \cup {"v2"}
      /\ UNCHANGED <<old, new, torn>>
  BY IdlePass DEF ApplyState, Steps
<1>2. TypeOK'
  BY <1>1 DEF Inv, TypeOK
<1>3. MarkerLast' /\ LegacyGone'
  BY <1>1 DEF Inv, TypeOK, MarkerLast, LegacyGone, At, Pending
<1>4. RollbackStops' /\ LegacyWhole'
  BY <1>1 DEF Inv, RollbackStops, LegacyWhole, At, Side, All
<1>5. QED
  BY <1>2, <1>3, <1>4 DEF Inv

(* A step of the forward path that changes neither files nor history and   *)
(* ends on the forward path or in a rollback.                              *)
Forward == {"clean", "release", "system", "apps", "app", "down"}

LEMMA ForwardKeeps ==
  ASSUME Inv, TypeOK', UNCHANGED <<file, torn>>, "marker" \notin file,
         pass.step \in Forward \cup {"prepare"},
         \/ pass'.step \in Forward
         \/ pass'.step = "stop" /\ pass'.todo = App
  PROVE  Inv'
<1>1. MarkerLast'
  BY DEF Inv, MarkerLast, At, Forward
<1>2. LegacyGone'
  BY DEF LegacyGone, At, Forward
<1>3. RollbackStops'
  BY DEF RollbackStops, At, Forward
<1>4. LegacyWhole'
  BY DEF LegacyWhole, At, Forward
<1>5. QED
  BY <1>1, <1>2, <1>3, <1>4 DEF Inv

LEMMA NotMarked ==
  ASSUME Inv, pass.step \notin {"idle", "reconcile", "files"}
  PROVE  "marker" \notin file
BY DEF Inv, MarkerLast, At

LEMMA PrepareKeeps == ASSUME Inv, Prepare PROVE Inv'
<1>1. pass' \in Passes /\ pass'.step = "clean"
  BY GotoMoves DEF Inv, TypeOK, Prepare, Steps
<1>2. TypeOK'
  BY <1>1 DEF Inv, TypeOK, Prepare
<1>3. QED
  BY <1>1, <1>2, NotMarked, ForwardKeeps DEF Prepare, At, Forward

LEMMA CleanSystemKeeps == ASSUME Inv, CleanSystem PROVE Inv'
<1>1. /\ pass' \in Passes
      /\ \/ pass'.step = "release"
         \/ pass'.step = "stop" /\ pass'.todo = App
  BY GotoMoves, RollbackMoves DEF Inv, TypeOK, CleanSystem, Steps
<1>2. TypeOK'
  BY <1>1 DEF Inv, TypeOK, CleanSystem
<1>3. QED
  BY <1>1, <1>2, NotMarked, ForwardKeeps DEF CleanSystem, At, Forward

LEMMA ReleaseSystemKeeps == ASSUME Inv, ReleaseSystem PROVE Inv'
<1>1. /\ pass' \in Passes
      /\ \/ pass'.step = "system"
         \/ pass'.step = "stop" /\ pass'.todo = App
  BY GotoMoves, RollbackMoves DEF Inv, TypeOK, ReleaseSystem, Steps
<1>2. old' \in [Part -> {"up", "stopped", "gone"}]
  BY DEF Inv, TypeOK, ReleaseSystem, Part
<1>3. TypeOK'
  BY <1>1, <1>2 DEF Inv, TypeOK, ReleaseSystem
<1>4. QED
  BY <1>1, <1>3, NotMarked, ForwardKeeps DEF ReleaseSystem, At, Forward

LEMMA StartSystemKeeps == ASSUME Inv, StartSystem PROVE Inv'
<1>1. /\ pass' \in Passes
      /\ \/ pass'.step = "apps"
         \/ pass'.step = "stop" /\ pass'.todo = App
  BY RollbackMoves DEF Inv, TypeOK, StartSystem, Passes, Steps
<1>2. TypeOK'
  BY <1>1 DEF Inv, TypeOK, StartSystem
<1>3. QED
  BY <1>1, <1>2, NotMarked, ForwardKeeps DEF StartSystem, At, Forward

LEMMA HandOverKeeps == ASSUME Inv, NEW a \in App, HandOver(a) PROVE Inv'
<1>1. pass' \in Passes /\ pass'.step \in {"apps", "app"}
  <2>1. CASE Failed(a)
    BY <2>1, FailedMoves DEF Inv, TypeOK
  <2>2. CASE pass' = [pass EXCEPT !.step = "app", !.app = a]
    BY <2>2 DEF Inv, TypeOK, Passes, Steps, Part
  <2>3. QED
    BY <2>1, <2>2 DEF HandOver
<1>2. TypeOK'
  BY <1>1 DEF Inv, TypeOK, HandOver
<1>3. QED
  BY <1>1, <1>2, NotMarked, ForwardKeeps DEF HandOver, At, Forward

LEMMA StartAppKeeps == ASSUME Inv, StartApp PROVE Inv'
<1>1. pass' \in Passes /\ pass'.step = "apps"
  <2>1. CASE Failed(pass.app)
    BY <2>1 DEF Inv, TypeOK, Failed, Passes, Steps
  <2>2. CASE pass' = [pass EXCEPT !.step = "apps", !.todo = @ \ {pass.app}]
    BY <2>2 DEF Inv, TypeOK, Passes, Steps
  <2>3. QED
    BY <2>1, <2>2 DEF StartApp
<1>2. /\ old' \in [Part -> {"up", "stopped", "gone"}]
      /\ new' \in [Part -> {"none", "up", "stopped"}]
  BY DEF Inv, TypeOK, StartApp
<1>3. TypeOK'
  BY <1>1, <1>2 DEF Inv, TypeOK, StartApp
<1>4. QED
  BY <1>1, <1>3, NotMarked, ForwardKeeps DEF StartApp, At, Forward

LEMMA AppsDoneKeeps == ASSUME Inv, AppsDone PROVE Inv'
<1>1. /\ pass' \in Passes
      /\ \/ pass'.step = "down"
         \/ pass'.step = "stop" /\ pass'.todo = App
  BY GotoMoves, RollbackMoves DEF Inv, TypeOK, AppsDone, Steps
<1>2. TypeOK'
  BY <1>1 DEF Inv, TypeOK, AppsDone
<1>3. QED
  BY <1>1, <1>2, NotMarked, ForwardKeeps DEF AppsDone, At, Forward

(* The commit.                                                             *)

LEMMA DownKeeps == ASSUME Inv, Down PROVE Inv'
<1>1. old' \in [Part -> {"up", "stopped", "gone"}]
  BY DEF Inv, TypeOK, Down, All
<1>2. CASE Rollback
  <2>1. pass' \in Passes /\ pass'.step = "stop" /\ pass'.todo = App
    BY <1>2, RollbackMoves DEF Inv, TypeOK
  <2>2. TypeOK'
    BY <1>1, <2>1 DEF Inv, TypeOK, Down
  <2>3. QED
    BY <2>1, <2>2, NotMarked, ForwardKeeps DEF Down, At, Forward
<1>3. CASE old' = All("gone") /\ Goto("marker")
  <2>1. pass' \in Passes /\ pass'.step = "marker"
    BY <1>3, GotoMoves DEF Inv, TypeOK, Steps
  <2>2. TypeOK'
    BY <1>1, <2>1 DEF Inv, TypeOK, Down
  <2>3. MarkerLast' /\ RollbackStops' /\ LegacyWhole'
    BY <2>1 DEF Inv, MarkerLast, RollbackStops, LegacyWhole, Down, At
  <2>4. LegacyGone'
    BY <1>3 DEF LegacyGone, All
  <2>5. QED
    BY <2>2, <2>3, <2>4 DEF Inv
<1>4. QED
  BY <1>2, <1>3 DEF Down

LEMMA MarkKeeps == ASSUME Inv, Mark PROVE Inv'
<1>1. /\ pass' \in Passes
      /\ \/ pass'.step = "files" /\ file' = file \cup {"marker"}
         \/ pass'.step = "idle" /\ torn' = TRUE /\ UNCHANGED file
  BY GotoMoves, IdlePass DEF Inv, TypeOK, Mark, Steps
<1>2. TypeOK'
  BY <1>1 DEF Inv, TypeOK, Mark
<1>3. MarkerLast' /\ RollbackStops' /\ LegacyWhole'
  BY <1>1 DEF Inv, MarkerLast, RollbackStops, LegacyWhole, Mark, At
<1>4. LegacyGone'
  BY <1>1 DEF Inv, LegacyGone, Mark, At
<1>5. QED
  BY <1>2, <1>3, <1>4 DEF Inv

LEMMA RemoveFileKeeps == ASSUME Inv, RemoveFile PROVE Inv'
<1>1. pass' \in Passes /\ pass'.step \in {"files", "idle"}
  BY IdlePass DEF Inv, TypeOK, RemoveFile, At
<1>2. "marker" \in file /\ "marker" \in file'
  BY DEF Inv, MarkerLast, RemoveFile
<1>3. TypeOK'
  BY <1>1 DEF Inv, TypeOK, RemoveFile
<1>4. MarkerLast' /\ RollbackStops' /\ LegacyWhole'
  BY <1>1, <1>2 DEF MarkerLast, RollbackStops, LegacyWhole, At
<1>5. LegacyGone'
  BY <1>2 DEF Inv, LegacyGone, RemoveFile
<1>6. QED
  BY <1>3, <1>4, <1>5 DEF Inv

(* The rollback.                                                           *)

LEMMA StopAppKeeps == ASSUME Inv, NEW a \in App, StopApp(a) PROVE Inv'
<1>1. /\ pass' \in Passes /\ pass'.step = "stop"
      /\ pass'.todo = pass.todo \ {a}
      /\ pass'.clean => /\ pass.clean
                        /\ new' = [new EXCEPT ![a] = IF @ = "up" THEN "stopped" ELSE @]
  <2>1. CASE pass' = [pass EXCEPT !.todo = @ \ {a}]
    BY <2>1 DEF Inv, TypeOK, StopApp, Passes, At
  <2>2. CASE pass' = [pass EXCEPT !.todo = @ \ {a}, !.clean = FALSE]
    BY <2>2 DEF Inv, TypeOK, StopApp, Passes, At
  <2>3. QED
    BY <2>1, <2>2 DEF StopApp
<1>2. TypeOK'
  BY <1>1 DEF Inv, TypeOK, StopApp
<1>3. MarkerLast' /\ LegacyGone' /\ LegacyWhole'
  BY <1>1 DEF Inv, MarkerLast, LegacyGone, LegacyWhole, StopApp, At
<1>4. RollbackStops'
  <2>1. SUFFICES ASSUME pass'.clean, NEW b \in App \ pass'.todo PROVE new'[b] # "up"
    BY <1>1 DEF RollbackStops, At
  <2>2. CASE b = a
    BY <1>1, <2>1, <2>2 DEF Inv, TypeOK, Part
  <2>3. CASE b # a
    <3>1. b \notin pass.todo /\ pass.clean /\ new'[b] = new[b]
      BY <1>1, <2>1, <2>3 DEF Inv, TypeOK, StopApp, Part
    <3> QED
      BY <1>1, <2>1, <3>1 DEF Inv, RollbackStops, StopApp
  <2>4. QED
    BY <2>2, <2>3
<1>5. QED
  BY <1>2, <1>3, <1>4 DEF Inv

LEMMA RemoveSystemKeeps == ASSUME Inv, RemoveSystem PROVE Inv'
<1>1. /\ pass' \in Passes /\ pass'.step = "up"
      /\ pass'.clean => pass.clean /\ new' = [new EXCEPT ![System] = "none"]
  <2>1. CASE Goto("up") /\ new' = [new EXCEPT ![System] = "none"]
    BY <2>1, GotoMoves DEF Inv, TypeOK, Steps
  <2>2. CASE pass' = [pass EXCEPT !.step = "up", !.clean = FALSE]
    BY <2>2 DEF Inv, TypeOK, Passes, Steps
  <2> QED
    BY <2>1, <2>2 DEF RemoveSystem
<1>2. TypeOK'
  BY <1>1 DEF Inv, TypeOK, RemoveSystem
<1>3. MarkerLast' /\ LegacyGone' /\ LegacyWhole'
  BY <1>1 DEF Inv, MarkerLast, LegacyGone, LegacyWhole, RemoveSystem, At
<1>4. RollbackStops'
  BY <1>1 DEF Inv, TypeOK, RollbackStops, RemoveSystem, At, Side, Part
<1>5. QED
  BY <1>2, <1>3, <1>4 DEF Inv

LEMMA LegacyUpKeeps == ASSUME Inv, LegacyUp PROVE Inv'
<1>1. /\ pass' \in Passes /\ pass'.step = "idle"
      /\ ~torn' => old' = All("up") /\ pass.clean /\ UNCHANGED new
  BY IdlePass DEF Inv, TypeOK, LegacyUp, Passes
<1>2. TypeOK'
  <2>1. old' \in [Part -> {"up", "stopped", "gone"}]
    BY DEF Inv, TypeOK, LegacyUp, All
  <2>2. torn' \in BOOLEAN
    BY DEF Inv, TypeOK, LegacyUp, Passes
  <2>3. QED
    BY <1>1, <2>1, <2>2 DEF Inv, TypeOK, LegacyUp
<1>3. "marker" \notin file' /\ "v1" \in file'
  BY NotMarked DEF Inv, MarkerLast, LegacyUp, At
<1>4. MarkerLast' /\ LegacyGone' /\ RollbackStops'
  BY <1>1, <1>3 DEF MarkerLast, LegacyGone, RollbackStops, At
<1>5. LegacyWhole'
  BY <1>1 DEF Inv, RollbackStops, LegacyWhole, LegacyUp, Side, At
<1>6. QED
  BY <1>2, <1>4, <1>5 DEF Inv

(* An apply that ends early, an apply after the move, and a power cut.     *)

LEMMA PrepareFailsKeeps == ASSUME Inv, PrepareFails PROVE Inv'
<1>1. pass' \in Passes /\ pass'.step = "idle"
  BY IdlePass DEF PrepareFails
<1>2. TypeOK'
  BY <1>1 DEF Inv, TypeOK, PrepareFails
<1>3. MarkerLast' /\ LegacyGone' /\ RollbackStops'
  BY <1>1 DEF Inv, MarkerLast, LegacyGone, RollbackStops, PrepareFails, At
<1>4. LegacyWhole'
  BY DEF Inv, LegacyWhole, PrepareFails, Side, At
<1>5. QED
  BY <1>2, <1>3, <1>4 DEF Inv

LEMMA ReconcileKeeps == ASSUME Inv, Reconcile PROVE Inv'
<1>1. pass' \in Passes /\ pass'.step = "idle"
  BY IdlePass DEF Reconcile
<1>2. "marker" \in file
  BY DEF Inv, MarkerLast, Reconcile
<1>3. TypeOK'
  BY <1>1 DEF Inv, TypeOK, Reconcile
<1>4. MarkerLast' /\ LegacyGone' /\ RollbackStops' /\ LegacyWhole'
  BY <1>1, <1>2 DEF Inv, MarkerLast, LegacyGone, RollbackStops, LegacyWhole, Reconcile, At
<1>5. QED
  BY <1>3, <1>4 DEF Inv

LEMMA CrashKeeps == ASSUME Inv, Crash PROVE Inv'
<1>1. pass' \in Passes /\ pass'.step = "idle"
  BY IdlePass DEF Crash
<1>2. ~torn' => ~torn /\ (At("prepare") \/ At("reconcile") \/ At("files"))
  BY DEF Inv, TypeOK, Crash
<1>3. TypeOK'
  BY <1>1 DEF Inv, TypeOK, Crash
<1>4. MarkerLast' /\ LegacyGone' /\ RollbackStops'
  BY <1>1 DEF Inv, MarkerLast, LegacyGone, RollbackStops, Crash, At
<1>5. LegacyWhole'
  BY <1>2 DEF Inv, MarkerLast, LegacyWhole, Crash, Side, At
<1>6. QED
  BY <1>3, <1>4, <1>5 DEF Inv

-----------------------------------------------------------------------------
(* What holds of every history.                                            *)

LEMMA StepKeeps == Inv /\ [Next]_vars => Inv'
<1>. SUFFICES ASSUME Inv, [Next]_vars PROVE Inv'
  OBVIOUS
<1>1. CASE UNCHANGED vars
  BY <1>1 DEF Inv, vars, TypeOK, MarkerLast, LegacyGone, RollbackStops, LegacyWhole, At, Side
<1>2. CASE Next
  BY <1>2, ApplyStateKeeps, PrepareFailsKeeps, PrepareKeeps, CleanSystemKeeps,
     ReleaseSystemKeeps, StartSystemKeeps, HandOverKeeps, StartAppKeeps, AppsDoneKeeps,
     DownKeeps, MarkKeeps, RemoveFileKeeps, StopAppKeeps, RemoveSystemKeeps,
     LegacyUpKeeps, ReconcileKeeps, CrashKeeps DEF Next
<1>3. QED
  BY <1>1, <1>2

(* The inductive invariant of the migration: the marker comes last, and a  *)
(* handoff that left no trace of a fault left the legacy project whole.    *)
THEOREM MigrationInvariant == Spec => []Inv
<1>1. QED
  BY InitInv, StepKeeps, PTL DEF Spec

(* Files, containers and the pass keep their types (_apply_v2_projects).   *)
THEOREM MigrationTypeCorrect == Spec => []TypeOK
<1>1. Inv => TypeOK
  BY DEF Inv
<1>2. QED
  BY <1>1, MigrationInvariant, PTL

(* Between applies a device without a fault in its history is on one side, *)
(* whatever failed in the handoffs and was rolled back.                    *)
THEOREM OneSide == Spec => []AllOrNothing
<1>1. Inv => AllOrNothing
  BY DEF Inv, TypeOK, LegacyGone, LegacyWhole, AllOrNothing, Side, At
<1>2. QED
  BY <1>1, MigrationInvariant, PTL

(* No failed handoff leaves an app down (_rollback_v2_migration).          *)
THEOREM AppsSurvive == Spec => []NoAppLost
<1>1. Inv => NoAppLost
  BY DEF Inv, LegacyWhole, NoAppLost, Side, All, Part, At
<1>2. QED
  BY <1>1, MigrationInvariant, PTL

(* A committed move is never taken back (_commit_v2_migration).            *)
THEOREM CommitIsFinal == Spec => []CommittedIsFinal
<1>1. Inv => CommittedIsFinal
  BY DEF Inv, LegacyGone, CommittedIsFinal
<1>2. QED
  BY <1>1, MigrationInvariant, PTL
=============================================================================
