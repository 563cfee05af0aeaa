-------------------------- MODULE AppProject_proofs --------------------------
(***************************************************************************)
(* What AppProject promises, proved for any number of repair and restart   *)
(* threads, any documents, generations and crashes. The argument is about  *)
(* generations: the target is the newest one or, in a fresh process,       *)
(* unset, so a thread that works for an older app is superseded before it  *)
(* raises a container, and a thread of the newest generation works for the *)
(* saved app. The project lock keeps what a thread looked at true until it *)
(* is done.                                                                *)
(***************************************************************************)
EXTENDS AppProject, TLAPS

(* The stages in which an app is brought up.                               *)
Raising == {"artifact", "prepare", "pull", "start", "up", "started", "recheck", "recreate"}

Live(p) == stage[p] # "idle"

(* What a thread does fits the app it works on; only the worker stops and  *)
(* removes.                                                                *)
Roles ==
  \A p \in Thread :
    /\ stage[p] \in Raising => app[p].status = "running"
    /\ stage[p] \in {"barrier", "stopping"} => p = "worker" /\ app[p].status = "stopped"
    /\ stage[p] = "remove" => p = "worker" /\ app[p].status = "absent"
    /\ stage[p] \in {"recheck", "recreate"} => p \in Restarter
    /\ p \in Restarter /\ Live(p) => app[p].gen > 0

(* A generation names one app. No thread works for a newer one than the    *)
(* saved one, and in a process without a target all work for the saved     *)
(* app: what was in flight before a crash is gone.                         *)
Generations ==
  /\ saved.gen <= sent /\ target \in {sent, Unset}
  /\ pending.kind = "apply" => target = sent /\ pending.app.gen = sent /\ saved.gen < sent
  /\ \A p \in Thread : app[p].gen <= saved.gen /\ (app[p].gen = saved.gen => app[p] = saved)
  /\ target = Unset => \A p \in Thread : Live(p) => app[p] = saved
  /\ Live("worker") => app["worker"] = saved
  /\ carried # Never => carried = saved.gen /\ ~Live("worker")

(* What the holder of the lock relies on.                                  *)
Held ==
  \A p \in Thread :
    /\ stage[p] = "stopping" => box.policy = "no"
    /\ stage[p] = "up" => file # NoDoc
    /\ stage[p] = "started" =>
         box.state # "none" /\ box.doc = app[p].doc /\ box.policy = "on-failure"

CoreInv == TypeOK /\ Roles /\ Generations /\ Held /\ StoppedStaysDown /\ RunsCurrentCompose

-----------------------------------------------------------------------------
(* What the steps of a thread are made of.                                 *)

Status == {"none", "starting", "running", "failed", "stopped"}
Container ==
  [state : {"none", "up", "exited"}, doc : Doc \cup {NoDoc}, policy : {"no", "on-failure"}]

ThreadsTyped ==
  /\ stage \in [Thread -> Stage]
  /\ lock \in Thread \cup {Nobody}
  /\ \A p \in Thread :
       stage[p] \in {"pull", "up", "started", "stopping", "recreate"} => lock = p
  /\ carried \in Gen \cup {Never}

LEMMA FinishTyped ==
  ASSUME TypeOK, NEW p \in Thread, NEW ok \in BOOLEAN, Finish(p, ok)
  PROVE  ThreadsTyped'
BY AppAssumption DEF ThreadsTyped, TypeOK, Finish, GoTo, Thread, Stage, App, Gen

(* Going on with the lock, or without it to a stage that needs none.       *)
LEMMA ContinueTyped ==
  ASSUME TypeOK, NEW p \in Thread, NEW next \in Stage, CanLock(p),
         Continue(p, next, p)
  PROVE  ThreadsTyped'
BY AppAssumption DEF ThreadsTyped, TypeOK, Continue, CanLock, GoTo, Thread, Stage, App, Gen

LEMMA ContinueFree ==
  ASSUME TypeOK, NEW p \in Thread, NEW next \in Stage, NEW holder \in {lock, Nobody}, 
         next \notin {"pull", "up", "started", "stopping", "recreate"},
         holder = lock \/ lock = p,
         Continue(p, next, holder)
  PROVE  ThreadsTyped'
BY AppAssumption DEF ThreadsTyped, TypeOK, Continue, GoTo, Thread, Stage, App, Gen

LEMMA PublishTyped ==
  ASSUME TypeOK, NEW p \in Thread, NEW status \in Status, Publish(p, status)
  PROVE  health' \in Status
BY DEF TypeOK, Publish, Status

LEMMA MayDieTyped ==
  ASSUME TypeOK, MayDie
  PROVE  event' \in BOOLEAN
BY DEF TypeOK, MayDie

LEMMA AppTyped ==
  ASSUME TypeOK, NEW p \in Thread
  PROVE  app[p] \in App /\ app[p].doc \in Doc /\ app[p].gen \in Gen
BY DEF TypeOK, App

LEMMA DocIsDoc ==
  ASSUME TypeOK, NEW p \in Thread
  PROVE  app[p].doc # NoDoc
BY AppTyped, AppAssumption

(* The three ways StartProject ends: superseded, brought up, failed.       *)
LEMMA StartOutcomes ==
  ASSUME NEW p \in Thread, StartProject(p)
  PROVE  \/ Finish(p, TRUE) /\ UNCHANGED <<file, marker, health, box, event, missed>> /\ Same
         \/ /\ file' = app[p].doc /\ ~Superseded(p)
            /\ Publish(p, "starting") /\ Continue(p, "up", p)
            /\ UNCHANGED <<marker, box, event, missed>> /\ Same
         \/ /\ file' = app[p].doc /\ ~Superseded(p) /\ Fail(p)
            /\ UNCHANGED <<box, event, missed>> /\ Same
BY DEF StartProject

-----------------------------------------------------------------------------
(* Every step keeps the core of the invariant.                             *)
LEMMA SubmitKeeps ==
  ASSUME CoreInv, NEW a \in App, Submit(a)
  PROVE  CoreInv'
<1>u. TypeOK /\ Roles /\ Generations /\ Held /\ StoppedStaysDown /\ RunsCurrentCompose
  BY DEF CoreInv
<1>1. TypeOK'
  BY <1>u, AppAssumption DEF TypeOK, Roles, Submit, Thread, Gen, Unset, Never, App, Stage
<1>2. Roles'
  BY <1>u, <1>1, AppAssumption DEF Roles, TypeOK, Submit, Thread, Gen, App, Raising, Live
<1>3. Generations'
  BY <1>u, <1>1, AppAssumption DEF Generations, Roles, TypeOK, Submit, Thread, Gen, App,
     Unset, Never, Live
<1>4. Held'
  BY <1>u, <1>1, AppAssumption DEF Held, TypeOK, Roles, Submit, Thread, Raising, App
<1>5. StoppedStaysDown'
  BY <1>u, <1>1, <1>2, <1>3, AppAssumption DEF StoppedStaysDown, StopOutlastsRestart,
     NoStaleRestart, CarriedOut, Held, Generations, Roles, TypeOK, Raising, Live, Submit,
     Thread, Gen, App, Unset, Never
<1>6. RunsCurrentCompose'
  BY <1>u, <1>1, <1>2, <1>3, <1>4, AppAssumption DEF RunsCurrentCompose,
     RestartRunsCurrentCompose, NoRestart, CarriedOut, Held, Generations, Roles, TypeOK,
     Raising, Live, Submit, Thread, Gen, App, Unset, Never
<1> QED
  BY <1>1, <1>2, <1>3, <1>4, <1>5, <1>6 DEF CoreInv

LEMMA ReconcileKeeps ==
  ASSUME CoreInv, Reconcile
  PROVE  CoreInv'
<1>u. TypeOK /\ Roles /\ Generations /\ Held /\ StoppedStaysDown /\ RunsCurrentCompose
  BY DEF CoreInv
<1>1. TypeOK'
  BY <1>u, AppAssumption DEF TypeOK, Roles, Reconcile, Thread, Gen, Unset, Never, App, Stage
<1>2. Roles'
  BY <1>u, <1>1, AppAssumption DEF Roles, TypeOK, Reconcile, Thread, Gen, App, Raising, Live
<1>3. Generations'
  BY <1>u, <1>1, AppAssumption DEF Generations, Roles, TypeOK, Reconcile, Thread, Gen, App,
     Unset, Never, Live
<1>4. Held'
  BY <1>u, <1>1, AppAssumption DEF Held, TypeOK, Roles, Reconcile, Thread, Raising, App
<1>5. StoppedStaysDown'
  BY <1>u, <1>1, <1>2, <1>3, AppAssumption DEF StoppedStaysDown, StopOutlastsRestart,
     NoStaleRestart, CarriedOut, Held, Generations, Roles, TypeOK, Raising, Live, Reconcile,
     Thread, Gen, App, Unset, Never
<1>6. RunsCurrentCompose'
  BY <1>u, <1>1, <1>2, <1>3, <1>4, AppAssumption DEF RunsCurrentCompose,
     RestartRunsCurrentCompose, NoRestart, CarriedOut, Held, Generations, Roles, TypeOK,
     Raising, Live, Reconcile, Thread, Gen, App, Unset, Never
<1> QED
  BY <1>1, <1>2, <1>3, <1>4, <1>5, <1>6 DEF CoreInv

LEMMA TakeJobKeeps ==
  ASSUME CoreInv, TakeJob
  PROVE  CoreInv'
<1>u. TypeOK /\ Roles /\ Generations /\ Held /\ StoppedStaysDown /\ RunsCurrentCompose
  BY DEF CoreInv
<1>1. TypeOK'
  BY <1>u, AppAssumption DEF TypeOK, Roles, TakeJob, NoJob, FirstStage, GoTo, Thread, Gen,
     Unset, Never, App, Stage
<1>2. Roles'
  BY <1>u, <1>1, AppAssumption DEF Roles, TypeOK, TakeJob, NoJob, FirstStage, GoTo, Thread,
     Gen, App, Raising, Live
<1>3. Generations'
  BY <1>u, <1>1, AppAssumption DEF Generations, Roles, TypeOK, TakeJob, NoJob, FirstStage,
     GoTo, Thread, Gen, App, Unset, Never, Live
<1>4. Held'
  BY <1>u, <1>1, AppAssumption DEF Held, TypeOK, Roles, TakeJob, NoJob, FirstStage, GoTo,
     Thread, Raising, App
<1>5. StoppedStaysDown'
  BY <1>u, <1>1, <1>2, <1>3, AppAssumption DEF StoppedStaysDown, StopOutlastsRestart,
     NoStaleRestart, CarriedOut, Held, Generations, Roles, TypeOK, Raising, Live, TakeJob,
     NoJob, FirstStage, GoTo, Thread, Gen, App, Unset, Never
<1>6. RunsCurrentCompose'
  BY <1>u, <1>1, <1>2, <1>3, <1>4, AppAssumption DEF RunsCurrentCompose,
     RestartRunsCurrentCompose, NoRestart, CarriedOut, Held, Generations, Roles, TypeOK,
     Raising, Live, TakeJob, NoJob, FirstStage, GoTo, Thread, Gen, App, Unset, Never
<1> QED
  BY <1>1, <1>2, <1>3, <1>4, <1>5, <1>6 DEF CoreInv

LEMMA ExitsKeeps ==
  ASSUME CoreInv, Exits
  PROVE  CoreInv'
<1>u. TypeOK /\ Roles /\ Generations /\ Held /\ StoppedStaysDown /\ RunsCurrentCompose
  BY DEF CoreInv
<1>1. TypeOK'
  BY <1>u, AppAssumption DEF TypeOK, Roles, Exits, Works, Halted, Same, Thread, Gen,
     Unset, Never, App, Stage
<1>2. Roles'
  BY <1>u, <1>1, AppAssumption DEF Roles, TypeOK, Exits, Works, Halted, Same, Thread, Gen,
     App, Raising, Live
<1>3. Generations'
  BY <1>u, <1>1, AppAssumption DEF Generations, Roles, TypeOK, Exits, Works, Halted, Same,
     Thread, Gen, App, Unset, Never, Live
<1>4. Held'
  BY <1>u, <1>1, AppAssumption DEF Held, TypeOK, Roles, Exits, Works, Halted, Same,
     Thread, Raising, App
<1>5. StoppedStaysDown'
  BY <1>u, <1>1, <1>2, <1>3, AppAssumption DEF StoppedStaysDown, StopOutlastsRestart,
     NoStaleRestart, CarriedOut, Held, Generations, Roles, TypeOK, Raising, Live, Exits,
     Same, Thread, Gen, App, Unset, Never
<1>6. RunsCurrentCompose'
  BY <1>u, <1>1, <1>2, <1>3, <1>4, AppAssumption DEF RunsCurrentCompose,
     RestartRunsCurrentCompose, NoRestart, CarriedOut, Held, Generations, Roles, TypeOK,
     Raising, Live, Exits, Works, Halted, Same, Thread, Gen, App, Unset, Never
<1> QED
  BY <1>1, <1>2, <1>3, <1>4, <1>5, <1>6 DEF CoreInv

LEMMA DockerRestartsKeeps ==
  ASSUME CoreInv, DockerRestarts
  PROVE  CoreInv'
<1>u. TypeOK /\ Roles /\ Generations /\ Held /\ StoppedStaysDown /\ RunsCurrentCompose
  BY DEF CoreInv
<1>1. TypeOK'
  <2>1. box' \in Container /\ missed' \in BOOLEAN
    BY <1>u DEF DockerRestarts, TypeOK, Container
  <2>2. UNCHANGED <<sent, target, saved, pending, stage, app, lock, file, marker, event,
          health, carried, crashes>>
    BY DEF DockerRestarts, Same
  <2> QED
    BY <1>u, <2>1, <2>2 DEF TypeOK, Container
<1>2. Roles'
  BY <1>u, <1>1, AppAssumption DEF Roles, TypeOK, DockerRestarts, Same, Thread, Gen, App,
     Raising, Live
<1>3. Generations'
  BY <1>u, <1>1, AppAssumption DEF Generations, Roles, TypeOK, DockerRestarts, Same, Thread,
     Gen, App, Unset, Never, Live
<1>4. Held'
  BY <1>u, <1>1, AppAssumption DEF Held, TypeOK, Roles, DockerRestarts, Same, Thread,
     Raising, App
<1>5. StoppedStaysDown'
  BY <1>u, <1>1, <1>2, <1>3, AppAssumption DEF StoppedStaysDown, StopOutlastsRestart,
     NoStaleRestart, CarriedOut, Held, Generations, Roles, TypeOK, Raising, Live,
     DockerRestarts, Same, Thread, Gen, App, Unset, Never
<1>6. RunsCurrentCompose'
  BY <1>u, <1>1, <1>2, <1>3, <1>4, AppAssumption DEF RunsCurrentCompose,
     RestartRunsCurrentCompose, NoRestart, CarriedOut, Held, Generations, Roles, TypeOK,
     Raising, Live, DockerRestarts, Same, Thread, Gen, App, Unset, Never
<1> QED
  BY <1>1, <1>2, <1>3, <1>4, <1>5, <1>6 DEF CoreInv

LEMMA CrashKeeps ==
  ASSUME CoreInv, Crash
  PROVE  CoreInv'
<1>u. TypeOK /\ Roles /\ Generations /\ Held /\ StoppedStaysDown /\ RunsCurrentCompose
  BY DEF CoreInv
<1>1. TypeOK'
  <2>1. stage' \in [Thread -> Stage] /\ lock' \in Thread \cup {Nobody}
    BY <1>u DEF Crash, TypeOK, Stage
  <2>2. crashes' \in 0..MaxCrashes
    BY <1>u, AppAssumption DEF Crash, TypeOK
  <2> QED
    BY <1>u, <2>1, <2>2, AppAssumption DEF Crash, TypeOK, Unset, Never
<1>2. Roles'
  BY <1>u, <1>1, AppAssumption DEF Roles, TypeOK, Crash, Thread, Gen, App, Raising, Live
<1>3. Generations'
  BY <1>u, <1>1, AppAssumption DEF Generations, Roles, TypeOK, Crash, Thread, Gen, App,
     Unset, Never, Live
<1>4. Held'
  BY <1>u, <1>1, AppAssumption DEF Held, TypeOK, Roles, Crash, Thread, Raising, App
<1>5. StoppedStaysDown'
  BY <1>u, <1>1, <1>2, <1>3, AppAssumption DEF StoppedStaysDown, StopOutlastsRestart,
     NoStaleRestart, CarriedOut, Held, Generations, Roles, TypeOK, Raising, Live, Crash,
     Thread, Gen, App, Unset, Never
<1>6. RunsCurrentCompose'
  BY <1>u, <1>1, <1>2, <1>3, <1>4, AppAssumption DEF RunsCurrentCompose,
     RestartRunsCurrentCompose, NoRestart, CarriedOut, Held, Generations, Roles, TypeOK,
     Raising, Live, Crash, Thread, Gen, App, Unset, Never
<1> QED
  BY <1>1, <1>2, <1>3, <1>4, <1>5, <1>6 DEF CoreInv

LEMMA ArtifactsKeeps ==
  ASSUME CoreInv, NEW p \in Thread, Artifacts(p)
  PROVE  CoreInv'
<1>u. TypeOK /\ Roles /\ Generations /\ Held /\ StoppedStaysDown /\ RunsCurrentCompose
  BY DEF CoreInv
<1>t. p \in Thread
  BY DEF Thread
<1>1. TypeOK'
  <2>1. ThreadsTyped'
    BY <1>u, <1>t, FinishTyped, ContinueTyped, ContinueFree, AppAssumption DEF Artifacts,
       Works, Superseded, TypeOK, CanLock, Stage
  <2>2. health' \in Status
    BY <1>u, <1>t, PublishTyped DEF Artifacts, Works, Superseded, TypeOK, Status
  <2>3. box' \in Container
    BY <1>u, <1>t, AppTyped DEF Artifacts, Works, TypeOK, Container
  <2>4. event' \in BOOLEAN
    BY <1>u, MayDieTyped DEF Artifacts, Works, Superseded, TypeOK
  <2>5. file' \in Doc \cup {NoDoc} /\ marker' \in Doc \cup {NoDoc}
    BY <1>u, <1>t, AppTyped DEF Artifacts, Works, TypeOK
  <2> QED
    BY <1>u, <2>1, <2>2, <2>3, <2>4, <2>5 DEF TypeOK, ThreadsTyped, Status, Container,
       Artifacts, Same, Thread, Gen, Unset, Never
<1>2. Roles'
  BY <1>u, <1>1, AppAssumption DEF Roles, TypeOK, Artifacts, Works, Publish, Finish,
     Continue, Superseded, GoTo, Same, Thread, Gen, App, Raising, Live
<1>3. Generations'
  BY <1>u, <1>1, AppAssumption DEF Generations, Roles, TypeOK, Artifacts, Works, Publish,
     Finish, Continue, Superseded, GoTo, Same, Thread, Gen, App, Unset, Never, Live
<1>4. Held'
  BY <1>u, <1>1, AppAssumption DEF Held, TypeOK, Roles, Artifacts, Works, Publish, Finish,
     Continue, Superseded, GoTo, Same, Thread, Raising, App
<1>5. StoppedStaysDown'
  BY <1>u, <1>1, <1>2, <1>3, AppAssumption DEF StoppedStaysDown, StopOutlastsRestart,
     NoStaleRestart, CarriedOut, Held, Generations, Roles, TypeOK, Raising, Live, Artifacts,
     Works, Publish, Finish, Continue, Superseded, GoTo, Same, Thread, Gen, App, Unset,
     Never
<1>6. RunsCurrentCompose'
  BY <1>u, <1>1, <1>2, <1>3, <1>4, AppAssumption DEF RunsCurrentCompose,
     RestartRunsCurrentCompose, NoRestart, CarriedOut, Held, Generations, Roles, TypeOK,
     Raising, Live, Artifacts, Works, Publish, Finish, Continue, Superseded, GoTo, Same,
     Thread, Gen, App, Unset, Never
<1> QED
  BY <1>1, <1>2, <1>3, <1>4, <1>5, <1>6 DEF CoreInv

LEMMA PrepareComposeKeeps ==
  ASSUME CoreInv, NEW p \in Thread, PrepareCompose(p)
  PROVE  CoreInv'
<1>u. TypeOK /\ Roles /\ Generations /\ Held /\ StoppedStaysDown /\ RunsCurrentCompose
  BY DEF CoreInv
<1>t. p \in Thread
  BY DEF Thread
<1>1. TypeOK'
  <2>1. ThreadsTyped'
    BY <1>u, <1>t, FinishTyped, ContinueTyped, ContinueFree, AppAssumption
       DEF PrepareCompose, CanLock, TypeOK, Stage
  <2>2. health' \in Status
    BY <1>u, <1>t, PublishTyped DEF PrepareCompose, CanLock, TypeOK, Status
  <2>3. box' \in Container
    BY <1>u, <1>t, AppTyped DEF PrepareCompose, TypeOK, Container
  <2>4. event' \in BOOLEAN
    BY <1>u, MayDieTyped DEF PrepareCompose, TypeOK
  <2>5. file' \in Doc \cup {NoDoc} /\ marker' \in Doc \cup {NoDoc}
    BY <1>u, <1>t, AppTyped DEF PrepareCompose, TypeOK
  <2> QED
    BY <1>u, <2>1, <2>2, <2>3, <2>4, <2>5 DEF TypeOK, ThreadsTyped, Status, Container,
       PrepareCompose, Same, Thread, Gen, Unset, Never
<1>2. Roles'
  BY <1>u, <1>1, AppAssumption DEF Roles, TypeOK, PrepareCompose, CanLock, Publish, Finish,
     Continue, GoTo, Same, Thread, Gen, App, Raising, Live
<1>3. Generations'
  BY <1>u, <1>1, AppAssumption DEF Generations, Roles, TypeOK, PrepareCompose, CanLock,
     Publish, Finish, Continue, GoTo, Same, Thread, Gen, App, Unset, Never, Live
<1>4. Held'
  BY <1>u, <1>1, AppAssumption DEF Held, TypeOK, Roles, PrepareCompose, CanLock, Publish,
     Finish, Continue, GoTo, Same, Thread, Raising, App
<1>5. StoppedStaysDown'
  BY <1>u, <1>1, <1>2, <1>3, AppAssumption DEF StoppedStaysDown, StopOutlastsRestart,
     NoStaleRestart, CarriedOut, Held, Generations, Roles, TypeOK, Raising, Live,
     PrepareCompose, CanLock, Publish, Finish, Continue, GoTo, Same, Thread, Gen, App,
     Unset, Never
<1>6. RunsCurrentCompose'
  BY <1>u, <1>1, <1>2, <1>3, <1>4, AppAssumption DEF RunsCurrentCompose,
     RestartRunsCurrentCompose, NoRestart, CarriedOut, Held, Generations, Roles, TypeOK,
     Raising, Live, PrepareCompose, CanLock, Publish, Finish, Continue, GoTo, Same, Thread,
     Gen, App, Unset, Never
<1> QED
  BY <1>1, <1>2, <1>3, <1>4, <1>5, <1>6 DEF CoreInv

LEMMA PullKeeps ==
  ASSUME CoreInv, NEW p \in Thread, Pull(p)
  PROVE  CoreInv'
<1>u. TypeOK /\ Roles /\ Generations /\ Held /\ StoppedStaysDown /\ RunsCurrentCompose
  BY DEF CoreInv
<1>t. p \in Thread
  BY DEF Thread
<1>1. TypeOK'
  <2>1. ThreadsTyped'
    BY <1>u, <1>t, FinishTyped, ContinueTyped, ContinueFree, AppAssumption DEF Pull,
       Superseded, Fail, TypeOK, CanLock, Stage
  <2>2. health' \in Status
    BY <1>u, <1>t, PublishTyped DEF Pull, Superseded, Fail, TypeOK, Status
  <2>3. box' \in Container
    BY <1>u, <1>t, AppTyped DEF Pull, TypeOK, Container
  <2>4. event' \in BOOLEAN
    BY <1>u, MayDieTyped DEF Pull, Superseded, TypeOK
  <2>5. file' \in Doc \cup {NoDoc} /\ marker' \in Doc \cup {NoDoc}
    BY <1>u, <1>t, AppTyped DEF Pull, Fail, TypeOK
  <2> QED
    BY <1>u, <2>1, <2>2, <2>3, <2>4, <2>5 DEF TypeOK, ThreadsTyped, Status, Container, Pull,
       Same, Thread, Gen, Unset, Never
<1>2. Roles'
  BY <1>u, <1>1, AppAssumption DEF Roles, TypeOK, Pull, Superseded, Fail, Publish, Finish,
     Continue, GoTo, Same, Thread, Gen, App, Raising, Live
<1>3. Generations'
  BY <1>u, <1>1, AppAssumption DEF Generations, Roles, TypeOK, Pull, Superseded, Fail,
     Publish, Finish, Continue, GoTo, Same, Thread, Gen, App, Unset, Never, Live
<1>4. Held'
  BY <1>u, <1>1, AppAssumption DEF Held, TypeOK, Roles, Pull, Superseded, Fail, Publish,
     Finish, Continue, GoTo, Same, Thread, Raising, App
<1>5. StoppedStaysDown'
  BY <1>u, <1>1, <1>2, <1>3, AppAssumption DEF StoppedStaysDown, StopOutlastsRestart,
     NoStaleRestart, CarriedOut, Held, Generations, Roles, TypeOK, Raising, Live, Pull,
     Superseded, Fail, Publish, Finish, Continue, GoTo, Same, Thread, Gen, App, Unset, Never
<1>6. RunsCurrentCompose'
  BY <1>u, <1>1, <1>2, <1>3, <1>4, AppAssumption DEF RunsCurrentCompose,
     RestartRunsCurrentCompose, NoRestart, CarriedOut, Held, Generations, Roles, TypeOK,
     Raising, Live, Pull, Superseded, Fail, Publish, Finish, Continue, GoTo, Same, Thread,
     Gen, App, Unset, Never
<1> QED
  BY <1>1, <1>2, <1>3, <1>4, <1>5, <1>6 DEF CoreInv

LEMMA StartProjectKeeps ==
  ASSUME CoreInv, NEW p \in Thread, StartProject(p)
  PROVE  CoreInv'
<1>u. TypeOK /\ Roles /\ Generations /\ Held /\ StoppedStaysDown /\ RunsCurrentCompose
  BY DEF CoreInv
<1>t. p \in Thread
  BY DEF Thread
<1>1. TypeOK'
  <2>1. ThreadsTyped'
    BY <1>u, <1>t, FinishTyped, ContinueTyped, ContinueFree, AppAssumption DEF StartProject,
       CanLock, Works, Superseded, Fail, TypeOK, Stage
  <2>2. health' \in Status
    BY <1>u, <1>t, PublishTyped DEF StartProject, CanLock, Works, Superseded, Fail, TypeOK,
       Status
  <2>3. box' \in Container
    BY <1>u, <1>t, AppTyped DEF StartProject, Works, TypeOK, Container
  <2>4. event' \in BOOLEAN
    BY <1>u, MayDieTyped DEF StartProject, Works, Superseded, TypeOK
  <2>5. file' \in Doc \cup {NoDoc} /\ marker' \in Doc \cup {NoDoc}
    BY <1>u, <1>t, AppTyped DEF StartProject, Works, Fail, TypeOK
  <2> QED
    BY <1>u, <2>1, <2>2, <2>3, <2>4, <2>5 DEF TypeOK, ThreadsTyped, Status, Container,
       StartProject, Same, Thread, Gen, Unset, Never
<1>2. Roles'
  BY <1>u, StartOutcomes, AppAssumption DEF Roles, TypeOK, StartProject, Fail, Finish,
     Continue, GoTo, Same, Thread, Gen, App, Raising, Live
<1>3. Generations'
  BY <1>u, StartOutcomes, AppAssumption DEF Generations, Roles, TypeOK, StartProject, Fail,
     Finish, Continue, GoTo, Same, Thread, Gen, App, Unset, Never, Live
<1>4. Held'
  BY <1>u, StartOutcomes, AppAssumption DEF Held, TypeOK, Roles, StartProject, CanLock,
     Fail, Finish, Continue, GoTo, Same, Thread, Raising, App
<1>5. RunsCurrentCompose' /\ StoppedStaysDown'
  <2>1. CASE Superseded(p)
    <3>1. Finish(p, TRUE) /\ UNCHANGED <<file, marker, health, box, event>> /\ Same
      BY <2>1 DEF StartProject
    <3>2. CarriedOut' => CarriedOut
      BY <1>u, <2>1, <3>1, AppAssumption DEF Generations, TypeOK, CarriedOut, Superseded,
         Finish, GoTo, Same, Thread, Gen, Unset, Never
    <3> QED BY <1>u, <3>1, <3>2 DEF RunsCurrentCompose, RestartRunsCurrentCompose, NoRestart,
           StoppedStaysDown, StopOutlastsRestart, NoStaleRestart, Same
  <2>2. CASE ~Superseded(p)
    <3>1. UNCHANGED box /\ Same /\ (Continue(p, "up", p) \/ Finish(p, FALSE))
      BY <2>2 DEF StartProject, Fail
    <3>2. CarriedOut' => CarriedOut
      BY <1>u, <2>2, <3>1, AppAssumption DEF Generations, TypeOK, CarriedOut, Finish,
         Continue, GoTo, Same, Thread, Gen, Unset, Never
    <3> QED BY <1>u, <3>1, <3>2 DEF RunsCurrentCompose, RestartRunsCurrentCompose, NoRestart,
           StoppedStaysDown, StopOutlastsRestart, NoStaleRestart, Same
  <2> QED BY <2>1, <2>2
<1> QED
  BY <1>1, <1>2, <1>3, <1>4, <1>5 DEF CoreInv

LEMMA UpKeeps ==
  ASSUME CoreInv, NEW p \in Thread, Up(p)
  PROVE  CoreInv'
<1>u. TypeOK /\ Roles /\ Generations /\ Held /\ StoppedStaysDown /\ RunsCurrentCompose
  BY DEF CoreInv
<1>t. p \in Thread
  BY DEF Thread
<1>1. TypeOK'
  <2>1. ThreadsTyped'
    BY <1>u, <1>t, FinishTyped, ContinueTyped, ContinueFree, AppAssumption DEF Up,
       Superseded, Fail, TypeOK, CanLock, Stage
  <2>2. health' \in Status
    BY <1>u, <1>t, PublishTyped DEF Up, Superseded, Fail, TypeOK, Status
  <2>3. box' \in Container
    <3>1. CASE Superseded(p) BY <1>u, <3>1 DEF Up, TypeOK, Container
    <3>2. CASE box' = [state |-> "up", doc |-> app[p].doc, policy |-> "on-failure"]
      BY <1>u, <3>2, AppTyped DEF Container, TypeOK
    <3>3. CASE box' = [state |-> "up", doc |-> app[p].doc,
                               policy |-> IF box.doc = app[p].doc THEN box.policy
                                          ELSE "on-failure"]
      BY <1>u, <3>3, AppTyped DEF Container, TypeOK
    <3>4. CASE box' \in {box, Halted}
      BY <1>u, <3>4, AppTyped DEF Halted, Container, TypeOK
    <3> QED BY <1>u, <3>1, <3>2, <3>3, <3>4 DEF Up
  <2>4. event' \in BOOLEAN
    BY <1>u, MayDieTyped DEF Up, Superseded, TypeOK
  <2>5. file' \in Doc \cup {NoDoc} /\ marker' \in Doc \cup {NoDoc}
    BY <1>u, <1>t, AppTyped DEF Up, Fail, TypeOK
  <2> QED
    BY <1>u, <2>1, <2>2, <2>3, <2>4, <2>5 DEF TypeOK, ThreadsTyped, Status, Container, Up,
       Same, Thread, Gen, Unset, Never
<1>2. Roles'
  BY <1>u, <1>1, AppAssumption DEF Roles, TypeOK, Up, Superseded, Fail, Publish, Finish,
     Continue, MayDie, Halted, GoTo, Same, Thread, Gen, App, Raising, Live
<1>3. Generations'
  BY <1>u, <1>1, AppAssumption DEF Generations, Roles, TypeOK, Up, Superseded, Fail,
     Publish, Finish, Continue, MayDie, Halted, GoTo, Same, Thread, Gen, App, Unset,
     Never, Live
<1>4. Held'
  BY <1>u, <1>1, AppAssumption DEF Held, TypeOK, Roles, Up, Superseded, Fail, Publish,
     Finish, Continue, MayDie, Halted, GoTo, Same, Thread, Raising, App
<1>5. StoppedStaysDown'
  BY <1>u, <1>1, <1>2, <1>3, AppAssumption DEF StoppedStaysDown, StopOutlastsRestart,
     NoStaleRestart, CarriedOut, Held, Generations, Roles, TypeOK, Raising, Live, Up,
     Superseded, Fail, Publish, Finish, Continue, MayDie, Halted, GoTo, Same, Thread, Gen,
     App, Unset, Never
<1>6. RunsCurrentCompose'
  BY <1>u, <1>1, <1>2, <1>3, <1>4, AppAssumption DEF RunsCurrentCompose,
     RestartRunsCurrentCompose, NoRestart, CarriedOut, Held, Generations, Roles, TypeOK,
     Raising, Live, Up, Superseded, Fail, Publish, Finish, Continue, MayDie, Halted, GoTo,
     Same, Thread, Gen, App, Unset, Never
<1> QED
  BY <1>1, <1>2, <1>3, <1>4, <1>5, <1>6 DEF CoreInv

LEMMA StartedKeeps ==
  ASSUME CoreInv, NEW p \in Thread, Started(p)
  PROVE  CoreInv'
<1>u. TypeOK /\ Roles /\ Generations /\ Held /\ StoppedStaysDown /\ RunsCurrentCompose
  BY DEF CoreInv
<1>t. p \in Thread
  BY DEF Thread
<1>1. TypeOK'
  <2>1. ThreadsTyped'
    BY <1>u, <1>t, FinishTyped, ContinueTyped, ContinueFree, AppAssumption DEF Started,
       TypeOK, CanLock, Stage
  <2>2. health' \in Status
    BY <1>u, <1>t, PublishTyped DEF Started, TypeOK, Status
  <2>3. box' \in Container
    BY <1>u, <1>t, AppTyped DEF Started, TypeOK, Container
  <2>4. event' \in BOOLEAN
    BY <1>u, MayDieTyped DEF Started, TypeOK
  <2>5. file' \in Doc \cup {NoDoc} /\ marker' \in Doc \cup {NoDoc}
    BY <1>u, <1>t, AppTyped DEF Started, TypeOK
  <2> QED
    BY <1>u, <2>1, <2>2, <2>3, <2>4, <2>5 DEF TypeOK, ThreadsTyped, Status, Container,
       Started, Same, Thread, Gen, Unset, Never
<1>2. Roles'
  BY <1>u, <1>1, AppAssumption DEF Roles, TypeOK, Started, Publish, Finish, GoTo, Same,
     Thread, Gen, App, Raising, Live
<1>3. Generations'
  BY <1>u, <1>1, AppAssumption DEF Generations, Roles, TypeOK, Started, Publish, Finish,
     GoTo, Same, Thread, Gen, App, Unset, Never, Live
<1>4. Held'
  BY <1>u, <1>1, AppAssumption DEF Held, TypeOK, Roles, Started, Publish, Finish, GoTo,
     Same, Thread, Raising, App
<1>5. StoppedStaysDown'
  BY <1>u, <1>1, <1>2, <1>3, AppAssumption DEF StoppedStaysDown, StopOutlastsRestart,
     NoStaleRestart, CarriedOut, Held, Generations, Roles, TypeOK, Raising, Live, Started,
     Publish, Finish, GoTo, Same, Thread, Gen, App, Unset, Never
<1>6. RunsCurrentCompose'
  BY <1>u, <1>1, <1>2, <1>3, <1>4, AppAssumption DEF RunsCurrentCompose,
     RestartRunsCurrentCompose, NoRestart, CarriedOut, Held, Generations, Roles, TypeOK,
     Raising, Live, Started, Publish, Finish, GoTo, Same, Thread, Gen, App, Unset, Never
<1> QED
  BY <1>1, <1>2, <1>3, <1>4, <1>5, <1>6 DEF CoreInv

LEMMA StopBarrierKeeps ==
  ASSUME CoreInv, NEW p \in Thread, StopBarrier(p)
  PROVE  CoreInv'
<1>u. TypeOK /\ Roles /\ Generations /\ Held /\ StoppedStaysDown /\ RunsCurrentCompose
  BY DEF CoreInv
<1>t. p \in Thread
  BY DEF Thread
<1>1. TypeOK'
  <2>1. ThreadsTyped'
    BY <1>u, <1>t, FinishTyped, ContinueTyped, ContinueFree, AppAssumption DEF StopBarrier,
       CanLock, Works, TypeOK, Stage
  <2>2. health' \in Status
    BY <1>u, <1>t, PublishTyped DEF StopBarrier, CanLock, Works, TypeOK, Status
  <2>3. box' \in Container
    BY <1>u, <1>t, AppTyped DEF StopBarrier, Works, TypeOK, Container
  <2>4. event' \in BOOLEAN
    BY <1>u, MayDieTyped DEF StopBarrier, Works, TypeOK
  <2>5. file' \in Doc \cup {NoDoc} /\ marker' \in Doc \cup {NoDoc}
    BY <1>u, <1>t, AppTyped DEF StopBarrier, Works, TypeOK
  <2> QED
    BY <1>u, <2>1, <2>2, <2>3, <2>4, <2>5 DEF TypeOK, ThreadsTyped, Status, Container,
       StopBarrier, Same, Thread, Gen, Unset, Never
<1>2. Roles'
  BY <1>u, <1>1, AppAssumption DEF Roles, TypeOK, StopBarrier, CanLock, Works, Publish,
     Finish, Continue, GoTo, Same, Thread, Gen, App, Raising, Live
<1>3. Generations'
  BY <1>u, <1>1, AppAssumption DEF Generations, Roles, TypeOK, StopBarrier, CanLock, Works,
     Publish, Finish, Continue, GoTo, Same, Thread, Gen, App, Unset, Never, Live
<1>4. Held'
  BY <1>u, <1>1, AppAssumption DEF Held, TypeOK, Roles, StopBarrier, CanLock, Works,
     Publish, Finish, Continue, GoTo, Same, Thread, Raising, App
<1>5. StoppedStaysDown'
  BY <1>u, <1>1, <1>2, <1>3, AppAssumption DEF StoppedStaysDown, StopOutlastsRestart,
     NoStaleRestart, CarriedOut, Held, Generations, Roles, TypeOK, Raising, Live,
     StopBarrier, CanLock, Works, Publish, Finish, Continue, GoTo, Same, Thread, Gen, App,
     Unset, Never
<1>6. RunsCurrentCompose'
  BY <1>u, <1>1, <1>2, <1>3, <1>4, AppAssumption DEF RunsCurrentCompose,
     RestartRunsCurrentCompose, NoRestart, CarriedOut, Held, Generations, Roles, TypeOK,
     Raising, Live, StopBarrier, CanLock, Works, Publish, Finish, Continue, GoTo, Same,
     Thread, Gen, App, Unset, Never
<1> QED
  BY <1>1, <1>2, <1>3, <1>4, <1>5, <1>6 DEF CoreInv

LEMMA StopKeeps ==
  ASSUME CoreInv, NEW p \in Thread, Stop(p)
  PROVE  CoreInv'
<1>u. TypeOK /\ Roles /\ Generations /\ Held /\ StoppedStaysDown /\ RunsCurrentCompose
  BY DEF CoreInv
<1>t. p \in Thread
  BY DEF Thread
<1>1. TypeOK'
  <2>1. ThreadsTyped'
    BY <1>u, <1>t, FinishTyped, ContinueTyped, ContinueFree, AppAssumption DEF Stop, Works,
       TypeOK, CanLock, Stage
  <2>2. health' \in Status
    BY <1>u, <1>t, PublishTyped DEF Stop, Works, TypeOK, Status
  <2>3. box' \in Container
    BY <1>u, <1>t, AppTyped DEF Stop, Works, Halted, TypeOK, Container
  <2>4. event' \in BOOLEAN
    BY <1>u, MayDieTyped DEF Stop, Works, TypeOK
  <2>5. file' \in Doc \cup {NoDoc} /\ marker' \in Doc \cup {NoDoc}
    BY <1>u, <1>t, AppTyped DEF Stop, Works, TypeOK
  <2> QED
    BY <1>u, <2>1, <2>2, <2>3, <2>4, <2>5 DEF TypeOK, ThreadsTyped, Status, Container, Stop,
       Same, Thread, Gen, Unset, Never
<1>2. Roles'
  BY <1>u, <1>1, AppAssumption DEF Roles, TypeOK, Stop, Works, Publish, Finish, MayDie,
     Halted, GoTo, Same, Thread, Gen, App, Raising, Live
<1>3. Generations'
  BY <1>u, <1>1, AppAssumption DEF Generations, Roles, TypeOK, Stop, Works, Publish, Finish,
     MayDie, Halted, GoTo, Same, Thread, Gen, App, Unset, Never, Live
<1>4. Held'
  BY <1>u, <1>1, AppAssumption DEF Held, TypeOK, Roles, Stop, Works, Publish, Finish,
     MayDie, Halted, GoTo, Same, Thread, Raising, App
<1>5. StoppedStaysDown'
  BY <1>u, <1>1, <1>2, <1>3, AppAssumption DEF StoppedStaysDown, StopOutlastsRestart,
     NoStaleRestart, CarriedOut, Held, Generations, Roles, TypeOK, Raising, Live, Stop,
     Works, Publish, Finish, MayDie, Halted, GoTo, Same, Thread, Gen, App, Unset, Never
<1>6. RunsCurrentCompose'
  BY <1>u, <1>1, <1>2, <1>3, <1>4, AppAssumption DEF RunsCurrentCompose,
     RestartRunsCurrentCompose, NoRestart, CarriedOut, Held, Generations, Roles, TypeOK,
     Raising, Live, Stop, Works, Publish, Finish, MayDie, Halted, GoTo, Same, Thread, Gen,
     App, Unset, Never
<1> QED
  BY <1>1, <1>2, <1>3, <1>4, <1>5, <1>6 DEF CoreInv

LEMMA RemoveKeeps ==
  ASSUME CoreInv, NEW p \in Thread, Remove(p)
  PROVE  CoreInv'
<1>u. TypeOK /\ Roles /\ Generations /\ Held /\ StoppedStaysDown /\ RunsCurrentCompose
  BY DEF CoreInv
<1>t. p \in Thread
  BY DEF Thread
<1>1. TypeOK'
  <2>1. ThreadsTyped'
    BY <1>u, <1>t, FinishTyped, ContinueTyped, ContinueFree, AppAssumption DEF Remove,
       CanLock, Works, TypeOK, Stage
  <2>2. health' \in Status
    BY <1>u, <1>t, PublishTyped DEF Remove, CanLock, Works, TypeOK, Status
  <2>3. box' \in Container
    BY <1>u, <1>t, AppTyped DEF Remove, Works, TypeOK, Container, NoBox
  <2>4. event' \in BOOLEAN
    BY <1>u, MayDieTyped DEF Remove, Works, TypeOK
  <2>5. file' \in Doc \cup {NoDoc} /\ marker' \in Doc \cup {NoDoc}
    BY <1>u, <1>t, AppTyped DEF Remove, Works, TypeOK
  <2> QED
    BY <1>u, <2>1, <2>2, <2>3, <2>4, <2>5 DEF TypeOK, ThreadsTyped, Status, Container,
       Remove, Same, Thread, Gen, Unset, Never
<1>2. Roles'
  BY <1>u, <1>1, AppAssumption DEF Roles, TypeOK, Remove, CanLock, Works, Finish, MayDie,
     Halted, GoTo, Same, Thread, Gen, App, Raising, Live
<1>3. Generations'
  <2>1. Same /\ Finish(p, TRUE) /\ stage[p] = "remove"
    BY DEF Remove
  <2>2. p = "worker" /\ stage' = [stage EXCEPT ![p] = "idle"] /\ carried' = app[p].gen
    BY <1>u, <2>1 DEF Roles, Finish, GoTo
  <2>3. app["worker"] = saved
    BY <1>u, <2>1, <2>2 DEF Generations, Live
  <2> QED
    BY <1>u, <2>1, <2>2, <2>3 DEF Generations, Same, Live, TypeOK, Unset
<1>4. Held'
  BY <1>u, <1>1, AppAssumption DEF Held, TypeOK, Roles, Remove, CanLock, Works, Finish,
     MayDie, Halted, GoTo, Same, Thread, Raising, App
<1>5. StoppedStaysDown'
  BY <1>u, <1>1, <1>2, <1>3, AppAssumption DEF StoppedStaysDown, StopOutlastsRestart,
     NoStaleRestart, CarriedOut, Held, Generations, Roles, TypeOK, Raising, Live, Remove,
     CanLock, Works, Finish, MayDie, Halted, GoTo, Same, Thread, Gen, App, Unset, Never
<1>6. RunsCurrentCompose'
  BY <1>u, <1>1, <1>2, <1>3, <1>4, AppAssumption DEF RunsCurrentCompose,
     RestartRunsCurrentCompose, NoRestart, CarriedOut, Held, Generations, Roles, TypeOK,
     Raising, Live, Remove, CanLock, Works, Finish, MayDie, Halted, GoTo, Same, Thread,
     Gen, App, Unset, Never
<1> QED
  BY <1>1, <1>2, <1>3, <1>4, <1>5, <1>6 DEF CoreInv

LEMMA HandleDieKeeps ==
  ASSUME CoreInv, NEW r \in Repairer, HandleDie(r)
  PROVE  CoreInv'
<1>u. TypeOK /\ Roles /\ Generations /\ Held /\ StoppedStaysDown /\ RunsCurrentCompose
  BY DEF CoreInv
<1>1. TypeOK'
  <2>1. stage' \in [Thread -> Stage]
    BY <1>u DEF HandleDie, GoTo, TypeOK, Stage
  <2>2. app' \in [Thread -> App]
    BY <1>u DEF HandleDie, TypeOK
  <2>3. \A p \in Thread : stage'[p] # stage[p] => stage'[p] = "artifact"
    BY <1>u DEF HandleDie, GoTo, TypeOK
  <2>4. \A p \in Thread :
          stage'[p] \in {"pull", "up", "started", "stopping", "recreate"} => lock' = p
    BY <1>u, <2>3 DEF HandleDie, TypeOK
  <2>5. event' \in BOOLEAN
    BY DEF HandleDie
  <2>6. UNCHANGED <<sent, target, saved, pending, lock, file, marker, box, missed, health,
          carried, crashes>>
    BY DEF HandleDie
  <2> QED
    BY <1>u, <2>1, <2>2, <2>4, <2>5, <2>6 DEF TypeOK
<1>2. Roles'
  BY <1>u, <1>1, AppAssumption DEF Roles, TypeOK, HandleDie, GoTo, Thread, Gen, App,
     Raising, Live
<1>3. Generations'
  BY <1>u, <1>1, AppAssumption DEF Generations, Roles, TypeOK, HandleDie, GoTo, Thread, Gen,
     App, Unset, Never, Live
<1>4. Held'
  BY <1>u, <1>1, AppAssumption DEF Held, TypeOK, Roles, HandleDie, GoTo, Thread, Raising,
     App
<1>5. StoppedStaysDown'
  BY <1>u, <1>1, <1>2, <1>3, AppAssumption DEF StoppedStaysDown, StopOutlastsRestart,
     NoStaleRestart, CarriedOut, Held, Generations, Roles, TypeOK, Raising, Live, HandleDie,
     GoTo, Thread, Gen, App, Unset, Never
<1>6. RunsCurrentCompose'
  <2>1. CarriedOut' => CarriedOut
    BY <1>u, AppAssumption DEF TypeOK, CarriedOut, HandleDie, GoTo, Thread
  <2>2. NoRestart' => NoRestart
    BY <1>u, AppAssumption DEF TypeOK, NoRestart, HandleDie, Thread
  <2> QED
    BY <1>u, <2>1, <2>2 DEF RunsCurrentCompose, RestartRunsCurrentCompose, HandleDie
<1> QED
  BY <1>1, <1>2, <1>3, <1>4, <1>5, <1>6 DEF CoreInv

LEMMA RestartInstanceKeeps ==
  ASSUME CoreInv, NEW r \in Restarter, RestartInstance(r)
  PROVE  CoreInv'
<1>u. TypeOK /\ Roles /\ Generations /\ Held /\ StoppedStaysDown /\ RunsCurrentCompose
  BY DEF CoreInv
<1>1. TypeOK'
  BY <1>u, AppAssumption DEF TypeOK, Roles, RestartInstance, GoTo, Thread, Gen, Unset,
     Never, App, Stage
<1>2. Roles'
  BY <1>u, <1>1, AppAssumption DEF Roles, TypeOK, RestartInstance, GoTo, Thread, Gen, App,
     Raising, Live
<1>3. Generations'
  BY <1>u, <1>1, AppAssumption DEF Generations, Roles, TypeOK, RestartInstance, GoTo,
     Thread, Gen, App, Unset, Never, Live
<1>4. Held'
  BY <1>u, <1>1, AppAssumption DEF Held, TypeOK, Roles, RestartInstance, GoTo, Thread,
     Raising, App
<1>5. StoppedStaysDown'
  BY <1>u, <1>1, <1>2, <1>3, AppAssumption DEF StoppedStaysDown, StopOutlastsRestart,
     NoStaleRestart, CarriedOut, Held, Generations, Roles, TypeOK, Raising, Live,
     RestartInstance, GoTo, Thread, Gen, App, Unset, Never
<1>6. RunsCurrentCompose'
  BY <1>u, <1>1, <1>2, <1>3, <1>4, AppAssumption DEF RunsCurrentCompose,
     RestartRunsCurrentCompose, NoRestart, CarriedOut, Held, Generations, Roles, TypeOK,
     Raising, Live, RestartInstance, GoTo, Thread, Gen, App, Unset, Never
<1> QED
  BY <1>1, <1>2, <1>3, <1>4, <1>5, <1>6 DEF CoreInv

LEMMA RecheckKeeps ==
  ASSUME CoreInv, NEW r \in Restarter, Recheck(r)
  PROVE  CoreInv'
<1>u. TypeOK /\ Roles /\ Generations /\ Held /\ StoppedStaysDown /\ RunsCurrentCompose
  BY DEF CoreInv
<1>t. r \in Thread
  BY DEF Thread
<1>1. TypeOK'
  <2>1. ThreadsTyped'
    BY <1>u, <1>t, FinishTyped, ContinueTyped, ContinueFree, AppAssumption DEF Recheck,
       TypeOK, CanLock, Stage
  <2>2. health' \in Status
    BY <1>u, <1>t, PublishTyped DEF Recheck, TypeOK, Status
  <2>3. box' \in Container
    BY <1>u, <1>t, AppTyped DEF Recheck, TypeOK, Container
  <2>4. event' \in BOOLEAN
    BY <1>u, MayDieTyped DEF Recheck, TypeOK
  <2>5. file' \in Doc \cup {NoDoc} /\ marker' \in Doc \cup {NoDoc}
    BY <1>u, <1>t, AppTyped DEF Recheck, TypeOK
  <2> QED
    BY <1>u, <2>1, <2>2, <2>3, <2>4, <2>5 DEF TypeOK, ThreadsTyped, Status, Container,
       Recheck, Same, Thread, Gen, Unset, Never
<1>2. Roles'
  BY <1>u, <1>1, AppAssumption DEF Roles, TypeOK, Recheck, Continue, GoTo, Same, Thread,
     Gen, App, Raising, Live
<1>3. Generations'
  BY <1>u, <1>1, AppAssumption DEF Generations, Roles, TypeOK, Recheck, Continue, GoTo,
     Same, Thread, Gen, App, Unset, Never, Live
<1>4. Held'
  BY <1>u, <1>1, AppAssumption DEF Held, TypeOK, Roles, Recheck, Continue, GoTo, Same,
     Thread, Raising, App
<1>5. StoppedStaysDown'
  BY <1>u, <1>1, <1>2, <1>3, AppAssumption DEF StoppedStaysDown, StopOutlastsRestart,
     NoStaleRestart, CarriedOut, Held, Generations, Roles, TypeOK, Raising, Live, Recheck,
     Continue, GoTo, Same, Thread, Gen, App, Unset, Never
<1>6. RunsCurrentCompose'
  BY <1>u, <1>1, <1>2, <1>3, <1>4, AppAssumption DEF RunsCurrentCompose,
     RestartRunsCurrentCompose, NoRestart, CarriedOut, Held, Generations, Roles, TypeOK,
     Raising, Live, Recheck, Continue, GoTo, Same, Thread, Gen, App, Unset, Never
<1> QED
  BY <1>1, <1>2, <1>3, <1>4, <1>5, <1>6 DEF CoreInv

LEMMA RecreateKeeps ==
  ASSUME CoreInv, NEW r \in Restarter, Recreate(r)
  PROVE  CoreInv'
<1>u. TypeOK /\ Roles /\ Generations /\ Held /\ StoppedStaysDown /\ RunsCurrentCompose
  BY DEF CoreInv
<1>t. r \in Thread
  BY DEF Thread
<1>1. TypeOK'
  <2>1. ThreadsTyped'
    BY <1>u, <1>t, FinishTyped, ContinueTyped, ContinueFree, AppAssumption DEF Recreate,
       Works, TypeOK, CanLock, Stage
  <2>2. health' \in Status
    BY <1>u, <1>t, PublishTyped DEF Recreate, Works, TypeOK, Status
  <2>3. box' \in Container
    BY <1>u, <1>t, AppTyped DEF Recreate, Works, Halted, TypeOK, Container
  <2>4. event' \in BOOLEAN
    BY <1>u, MayDieTyped DEF Recreate, Works, TypeOK
  <2>5. file' \in Doc \cup {NoDoc} /\ marker' \in Doc \cup {NoDoc}
    BY <1>u, <1>t, AppTyped DEF Recreate, Works, TypeOK
  <2> QED
    BY <1>u, <2>1, <2>2, <2>3, <2>4, <2>5 DEF TypeOK, ThreadsTyped, Status, Container,
       Recreate, Same, Thread, Gen, Unset, Never
<1>2. Roles'
  BY <1>u, <1>1, AppAssumption DEF Roles, TypeOK, Recreate, Works, Publish, Finish,
     MayDie, Halted, GoTo, Same, Thread, Gen, App, Raising, Live
<1>3. Generations'
  BY <1>u, <1>1, AppAssumption DEF Generations, Roles, TypeOK, Recreate, Works, Publish,
     Finish, MayDie, Halted, GoTo, Same, Thread, Gen, App, Unset, Never, Live
<1>4. Held'
  BY <1>u, <1>1, AppAssumption DEF Held, TypeOK, Roles, Recreate, Works, Publish, Finish,
     MayDie, Halted, GoTo, Same, Thread, Raising, App
<1>5. StoppedStaysDown' /\ RunsCurrentCompose'
  <2>1. CarriedOut' => CarriedOut
    BY <1>u, AppAssumption DEF TypeOK, CarriedOut, Recreate, Finish, GoTo, Same, Thread
  <2>2. app[r].status = "running" /\ app[r].gen # 0
    BY <1>u, <1>t DEF Roles, TypeOK, Gen, App, Recreate, Live, Raising
  <2>3. ~NoRestart'
    BY <2>2 DEF NoRestart, Recreate, Same
  <2>4. CarriedOut /\ NoStaleRestart' => saved.status = "running"
    BY <1>u, <1>t, <2>2 DEF CarriedOut, NoStaleRestart, Recreate, Same, Generations
  <2> QED
    BY <1>u, <2>1, <2>3, <2>4 DEF RunsCurrentCompose, StoppedStaysDown, StopOutlastsRestart,
       RestartRunsCurrentCompose, Recreate, Same
<1> QED
  BY <1>1, <1>2, <1>3, <1>4, <1>5 DEF CoreInv

LEMMA CoreStep ==
  ASSUME CoreInv, [Next]_vars
  PROVE  CoreInv'
<1>1. ASSUME NEW a \in App, Submit(a) PROVE CoreInv'
  BY <1>1, SubmitKeeps
<1>2. CASE Reconcile
  BY <1>2, ReconcileKeeps
<1>3. CASE TakeJob
  BY <1>3, TakeJobKeeps
<1>4. CASE Exits
  BY <1>4, ExitsKeeps
<1>5. CASE DockerRestarts
  BY <1>5, DockerRestartsKeeps
<1>6. CASE Crash
  BY <1>6, CrashKeeps
<1>7. ASSUME NEW p \in Thread, Artifacts(p) PROVE CoreInv'
  BY <1>7, ArtifactsKeeps
<1>8. ASSUME NEW p \in Thread, PrepareCompose(p) PROVE CoreInv'
  BY <1>8, PrepareComposeKeeps
<1>9. ASSUME NEW p \in Thread, Pull(p) PROVE CoreInv'
  BY <1>9, PullKeeps
<1>10. ASSUME NEW p \in Thread, StartProject(p) PROVE CoreInv'
  BY <1>10, StartProjectKeeps
<1>11. ASSUME NEW p \in Thread, Up(p) PROVE CoreInv'
  BY <1>11, UpKeeps
<1>12. ASSUME NEW p \in Thread, Started(p) PROVE CoreInv'
  BY <1>12, StartedKeeps
<1>13. ASSUME NEW p \in Thread, StopBarrier(p) PROVE CoreInv'
  BY <1>13, StopBarrierKeeps
<1>14. ASSUME NEW p \in Thread, Stop(p) PROVE CoreInv'
  BY <1>14, StopKeeps
<1>15. ASSUME NEW p \in Thread, Remove(p) PROVE CoreInv'
  BY <1>15, RemoveKeeps
<1>16. ASSUME NEW r \in Repairer, HandleDie(r) PROVE CoreInv'
  BY <1>16, HandleDieKeeps
<1>17. ASSUME NEW r \in Restarter, RestartInstance(r) PROVE CoreInv'
  BY <1>17, RestartInstanceKeeps
<1>18. ASSUME NEW r \in Restarter, Recheck(r) PROVE CoreInv'
  BY <1>18, RecheckKeeps
<1>19. ASSUME NEW r \in Restarter, Recreate(r) PROVE CoreInv'
  BY <1>19, RecreateKeeps
<1>20. CASE UNCHANGED vars
  BY <1>20 DEF CoreInv, vars, TypeOK, Roles, Generations, Held, StoppedStaysDown,
     StopOutlastsRestart, NoStaleRestart, RunsCurrentCompose, RestartRunsCurrentCompose,
     NoRestart, CarriedOut, Live
<1> QED
  BY <1>1, <1>2, <1>3, <1>4, <1>5, <1>6, <1>7, <1>8, <1>9, <1>10, <1>11, <1>12, <1>13,
     <1>14, <1>15, <1>16, <1>17, <1>18, <1>19, <1>20 DEF Next, RunReconcile

LEMMA CoreInit == Init => CoreInv
<1> SUFFICES ASSUME Init PROVE CoreInv
  OBVIOUS
<1>1. saved \in App /\ saved = [gen |-> 0, status |-> "absent", doc |-> CHOOSE d \in Doc : TRUE]
  BY AppAssumption DEF Init, NoJob, App, Gen
<1>2. TypeOK
  <2>1. stage \in [Thread -> Stage] /\ app \in [Thread -> App]
    BY <1>1 DEF Init, Stage
  <2>2. pending \in [kind : {"none", "reconcile", "apply"}, app : App]
    BY <1>1 DEF Init, NoJob
  <2>3. box \in [state : {"none", "up", "exited"}, doc : Doc \cup {NoDoc},
                 policy : {"no", "on-failure"}]
    BY DEF Init, NoBox
  <2>4. sent \in Gen /\ crashes \in 0..MaxCrashes
    BY AppAssumption DEF Init, Gen
  <2>5. \A p \in Thread : stage[p] = "idle"
    BY DEF Init
  <2> QED
    BY <1>1, <2>1, <2>2, <2>3, <2>4, <2>5 DEF Init, TypeOK
<1>3. \A p \in Thread : stage[p] = "idle" /\ app[p] = saved
  BY DEF Init
<1>4. Roles /\ Held
  BY <1>3 DEF Roles, Held, Raising, Live
<1>5. Generations
  BY <1>1, <1>3, AppAssumption DEF Init, Generations, Live, NoJob, Unset, Never, Thread
<1>6. StoppedStaysDown /\ RunsCurrentCompose
  BY <1>1 DEF StoppedStaysDown, StopOutlastsRestart, RunsCurrentCompose,
     RestartRunsCurrentCompose
<1> QED
  BY <1>2, <1>4, <1>5, <1>6 DEF CoreInv

LEMMA CoreAlways == Spec => []CoreInv
<1>1. CoreInv /\ [Next]_vars => CoreInv'
  BY CoreStep
<1> QED
  BY <1>1, CoreInit, PTL DEF Spec

(* The variables hold what the code keeps in them, and a thread inside a   *)
(* Compose call holds the project lock.                                    *)
THEOREM AppTypeCorrect == Spec => []TypeOK
<1>1. CoreInv => TypeOK
  BY DEF CoreInv
<1> QED
  BY <1>1, CoreAlways, PTL

(* A Stop that was carried out lasts: neither an older repair thread, nor  *)
(* a die event, nor the Docker daemon brings the container back, whatever  *)
(* fails and wherever the data plane crashes.                              *)
THEOREM StopLasts == Spec => []StoppedStaysDown
<1>1. CoreInv => StoppedStaysDown
  BY DEF CoreInv
<1> QED
  BY <1>1, CoreAlways, PTL

(* A running app that was carried out runs the newest document under its   *)
(* restart policy, although older threads still write compose.json.        *)
THEOREM ComposeIsCurrent == Spec => []RunsCurrentCompose
<1>1. CoreInv => RunsCurrentCompose
  BY DEF CoreInv
<1> QED
  BY <1>1, CoreAlways, PTL

-----------------------------------------------------------------------------
(* Removal. A container has a compose.json as long as `down' does what it  *)
(* reports, so the removal finds it.                                       *)
FileOfBox == file = NoDoc => box.state = "none"
FileInv   == FileOfBox /\ RemovedIsGone

LEMMA SubmitFile ==
  ASSUME CoreInv, FileInv, "down" \notin Faults, CoreInv', NEW a \in App, Submit(a)
  PROVE  FileInv'
<1>u. TypeOK /\ Roles /\ Generations /\ Held
  BY DEF CoreInv
<1>1. FileOfBox'
  BY <1>u, AppTyped, AppAssumption DEF FileInv, FileOfBox, Held, Roles, TypeOK, Raising,
     App, Submit, Thread
<1>2. RemovedIsGone'
  BY <1>u, AppAssumption DEF FileInv, FileOfBox, RemovedIsGone, NoStaleRestart, CarriedOut,
     Roles, TypeOK, Generations, Raising, Live, Thread, Gen, App, Unset, Never, Submit
<1> QED
  BY <1>1, <1>2 DEF FileInv

LEMMA ReconcileFile ==
  ASSUME CoreInv, FileInv, "down" \notin Faults, CoreInv', Reconcile
  PROVE  FileInv'
<1>u. TypeOK /\ Roles /\ Generations /\ Held
  BY DEF CoreInv
<1>1. FileOfBox'
  BY <1>u, AppTyped, AppAssumption DEF FileInv, FileOfBox, Held, Roles, TypeOK, Raising,
     App, Reconcile, Thread
<1>2. RemovedIsGone'
  BY <1>u, AppAssumption DEF FileInv, FileOfBox, RemovedIsGone, NoStaleRestart, CarriedOut,
     Roles, TypeOK, Generations, Raising, Live, Thread, Gen, App, Unset, Never, Reconcile
<1> QED
  BY <1>1, <1>2 DEF FileInv

LEMMA TakeJobFile ==
  ASSUME CoreInv, FileInv, "down" \notin Faults, CoreInv', TakeJob
  PROVE  FileInv'
<1>u. TypeOK /\ Roles /\ Generations /\ Held
  BY DEF CoreInv
<1>1. FileOfBox'
  BY <1>u, AppTyped, AppAssumption DEF FileInv, FileOfBox, Held, Roles, TypeOK, Raising,
     App, TakeJob, NoJob, FirstStage, GoTo, Thread
<1>2. RemovedIsGone'
  BY <1>u, AppAssumption DEF FileInv, FileOfBox, RemovedIsGone, NoStaleRestart, CarriedOut,
     Roles, TypeOK, Generations, Raising, Live, Thread, Gen, App, Unset, Never, TakeJob,
     NoJob, FirstStage, GoTo
<1> QED
  BY <1>1, <1>2 DEF FileInv

LEMMA ExitsFile ==
  ASSUME CoreInv, FileInv, "down" \notin Faults, CoreInv', Exits
  PROVE  FileInv'
<1>u. TypeOK /\ Roles /\ Generations /\ Held
  BY DEF CoreInv
<1>1. FileOfBox'
  BY <1>u, AppTyped, AppAssumption DEF FileInv, FileOfBox, Held, Roles, TypeOK, Raising,
     App, Exits, Works, Halted, Same, Thread
<1>2. RemovedIsGone'
  BY <1>u, AppAssumption DEF FileInv, FileOfBox, RemovedIsGone, NoStaleRestart,
     CarriedOut, Roles, TypeOK, Generations, Raising, Live, Thread, Gen, App, Unset,
     Never, Exits, Works, Halted, Same
<1> QED
  BY <1>1, <1>2 DEF FileInv

LEMMA DockerRestartsFile ==
  ASSUME CoreInv, FileInv, "down" \notin Faults, CoreInv', DockerRestarts
  PROVE  FileInv'
<1>u. TypeOK /\ Roles /\ Generations /\ Held
  BY DEF CoreInv
<1>1. FileOfBox'
  BY <1>u, AppTyped, AppAssumption DEF FileInv, FileOfBox, Held, Roles, TypeOK, Raising,
     App, DockerRestarts, Same, Thread
<1>2. RemovedIsGone'
  BY <1>u, AppAssumption DEF FileInv, FileOfBox, RemovedIsGone, NoStaleRestart, CarriedOut,
     Roles, TypeOK, Generations, Raising, Live, Thread, Gen, App, Unset, Never,
     DockerRestarts, Same
<1> QED
  BY <1>1, <1>2 DEF FileInv

LEMMA CrashFile ==
  ASSUME CoreInv, FileInv, "down" \notin Faults, CoreInv', Crash
  PROVE  FileInv'
<1>u. TypeOK /\ Roles /\ Generations /\ Held
  BY DEF CoreInv
<1>1. FileOfBox'
  BY <1>u, AppTyped, AppAssumption DEF FileInv, FileOfBox, Held, Roles, TypeOK, Raising,
     App, Crash, Thread
<1>2. RemovedIsGone'
  BY <1>u, AppAssumption DEF FileInv, FileOfBox, RemovedIsGone, NoStaleRestart, CarriedOut,
     Roles, TypeOK, Generations, Raising, Live, Thread, Gen, App, Unset, Never, Crash
<1> QED
  BY <1>1, <1>2 DEF FileInv

LEMMA ArtifactsFile ==
  ASSUME CoreInv, FileInv, "down" \notin Faults, CoreInv', NEW p \in Thread, Artifacts(p)
  PROVE  FileInv'
<1>u. TypeOK /\ Roles /\ Generations /\ Held
  BY DEF CoreInv
<1>1. FileOfBox'
  BY <1>u, AppTyped, AppAssumption DEF FileInv, FileOfBox, Held, Roles, TypeOK, Raising,
     App, Artifacts, Works, Publish, Finish, Continue, Superseded, GoTo, Same, Thread
<1>2. RemovedIsGone'
  BY <1>u, AppAssumption DEF FileInv, FileOfBox, RemovedIsGone, NoStaleRestart, CarriedOut,
     Roles, TypeOK, Generations, Raising, Live, Thread, Gen, App, Unset, Never, Artifacts,
     Works, Publish, Finish, Continue, Superseded, GoTo, Same
<1> QED
  BY <1>1, <1>2 DEF FileInv

LEMMA PrepareComposeFile ==
  ASSUME CoreInv, FileInv, "down" \notin Faults, CoreInv', NEW p \in Thread, PrepareCompose(p)
  PROVE  FileInv'
<1>u. TypeOK /\ Roles /\ Generations /\ Held
  BY DEF CoreInv
<1>1. FileOfBox'
  BY <1>u, DocIsDoc DEF PrepareCompose, FileOfBox
<1>2. RemovedIsGone'
  BY <1>u, AppAssumption DEF FileInv, FileOfBox, RemovedIsGone, NoStaleRestart, CarriedOut,
     Roles, TypeOK, Generations, Raising, Live, Thread, Gen, App, Unset, Never,
     PrepareCompose, CanLock, Publish, Finish, Continue, GoTo, Same
<1> QED
  BY <1>1, <1>2 DEF FileInv

LEMMA PullFile ==
  ASSUME CoreInv, FileInv, "down" \notin Faults, CoreInv', NEW p \in Thread, Pull(p)
  PROVE  FileInv'
<1>u. TypeOK /\ Roles /\ Generations /\ Held
  BY DEF CoreInv
<1>1. FileOfBox'
  BY <1>u, AppTyped, AppAssumption DEF FileInv, FileOfBox, Held, Roles, TypeOK, Raising,
     App, Pull, Superseded, Fail, Publish, Finish, Continue, GoTo, Same, Thread
<1>2. RemovedIsGone'
  BY <1>u, AppAssumption DEF FileInv, FileOfBox, RemovedIsGone, NoStaleRestart, CarriedOut,
     Roles, TypeOK, Generations, Raising, Live, Thread, Gen, App, Unset, Never, Pull,
     Superseded, Fail, Publish, Finish, Continue, GoTo, Same
<1> QED
  BY <1>1, <1>2 DEF FileInv

LEMMA StartProjectFile ==
  ASSUME CoreInv, FileInv, "down" \notin Faults, CoreInv', NEW p \in Thread, StartProject(p)
  PROVE  FileInv'
<1>u. TypeOK /\ Roles /\ Generations /\ Held
  BY DEF CoreInv
<1>1. FileOfBox'
  BY <1>u, DocIsDoc, StartOutcomes DEF FileInv, FileOfBox
<1>2. RemovedIsGone'
  <2>1. CASE Superseded(p)
    <3>1. Finish(p, TRUE) /\ UNCHANGED <<file, marker, health, box, event>> /\ Same
      BY <2>1 DEF StartProject
    <3>2. CarriedOut' => CarriedOut
      BY <1>u, <2>1, <3>1, AppAssumption DEF Generations, TypeOK, CarriedOut, Superseded,
         Finish, GoTo, Same, Thread, Gen, Unset, Never
    <3> QED BY <3>1, <3>2 DEF FileInv, RemovedIsGone, NoStaleRestart, Same
  <2>2. CASE ~Superseded(p)
    <3>1. UNCHANGED box /\ Same /\ (Continue(p, "up", p) \/ Finish(p, FALSE))
      BY <2>2 DEF StartProject, Fail
    <3>2. CarriedOut' => CarriedOut
      BY <1>u, <2>2, <3>1, AppAssumption DEF Generations, TypeOK, CarriedOut, Finish,
         Continue, GoTo, Same, Thread, Gen, Unset, Never
    <3> QED BY <3>1, <3>2 DEF FileInv, RemovedIsGone, NoStaleRestart, Same
  <2> QED BY <2>1, <2>2
<1> QED
  BY <1>1, <1>2 DEF FileInv

LEMMA UpFile ==
  ASSUME CoreInv, FileInv, "down" \notin Faults, CoreInv', NEW p \in Thread, Up(p)
  PROVE  FileInv'
<1>u. TypeOK /\ Roles /\ Generations /\ Held
  BY DEF CoreInv
<1>1. FileOfBox'
  BY <1>u, AppTyped, AppAssumption DEF FileInv, FileOfBox, Held, Roles, TypeOK, Raising,
     App, Up, Superseded, Fail, Publish, Finish, Continue, MayDie, Halted, GoTo, Same,
     Thread
<1>2. RemovedIsGone'
  BY <1>u, AppAssumption DEF FileInv, FileOfBox, RemovedIsGone, NoStaleRestart, CarriedOut,
     Roles, TypeOK, Generations, Raising, Live, Thread, Gen, App, Unset, Never, Up,
     Superseded, Fail, Publish, Finish, Continue, MayDie, Halted, GoTo, Same
<1> QED
  BY <1>1, <1>2 DEF FileInv

LEMMA StartedFile ==
  ASSUME CoreInv, FileInv, "down" \notin Faults, CoreInv', NEW p \in Thread, Started(p)
  PROVE  FileInv'
<1>u. TypeOK /\ Roles /\ Generations /\ Held
  BY DEF CoreInv
<1>1. FileOfBox'
  BY <1>u, AppTyped, AppAssumption DEF FileInv, FileOfBox, Held, Roles, TypeOK, Raising,
     App, Started, Publish, Finish, GoTo, Same, Thread
<1>2. RemovedIsGone'
  BY <1>u, AppAssumption DEF FileInv, FileOfBox, RemovedIsGone, NoStaleRestart, CarriedOut,
     Roles, TypeOK, Generations, Raising, Live, Thread, Gen, App, Unset, Never, Started,
     Publish, Finish, GoTo, Same
<1> QED
  BY <1>1, <1>2 DEF FileInv

LEMMA StopBarrierFile ==
  ASSUME CoreInv, FileInv, "down" \notin Faults, CoreInv', NEW p \in Thread, StopBarrier(p)
  PROVE  FileInv'
<1>u. TypeOK /\ Roles /\ Generations /\ Held
  BY DEF CoreInv
<1>1. FileOfBox'
  BY <1>u, AppTyped, AppAssumption DEF FileInv, FileOfBox, Held, Roles, TypeOK, Raising,
     App, StopBarrier, CanLock, Works, Publish, Finish, Continue, GoTo, Same, Thread
<1>2. RemovedIsGone'
  BY <1>u, AppAssumption DEF FileInv, FileOfBox, RemovedIsGone, NoStaleRestart, CarriedOut,
     Roles, TypeOK, Generations, Raising, Live, Thread, Gen, App, Unset, Never, StopBarrier,
     CanLock, Works, Publish, Finish, Continue, GoTo, Same
<1> QED
  BY <1>1, <1>2 DEF FileInv

LEMMA StopFile ==
  ASSUME CoreInv, FileInv, "down" \notin Faults, CoreInv', NEW p \in Thread, Stop(p)
  PROVE  FileInv'
<1>u. TypeOK /\ Roles /\ Generations /\ Held
  BY DEF CoreInv
<1>1. FileOfBox'
  BY <1>u, DocIsDoc DEF Stop, FileOfBox
<1>2. RemovedIsGone'
  BY <1>u, AppAssumption DEF FileInv, FileOfBox, RemovedIsGone, NoStaleRestart, CarriedOut,
     Roles, TypeOK, Generations, Raising, Live, Thread, Gen, App, Unset, Never, Stop, Works,
     Publish, Finish, MayDie, Halted, GoTo, Same
<1> QED
  BY <1>1, <1>2 DEF FileInv

LEMMA RemoveFile ==
  ASSUME CoreInv, FileInv, "down" \notin Faults, CoreInv', NEW p \in Thread, Remove(p)
  PROVE  FileInv'
<1>u. TypeOK /\ Roles /\ Generations /\ Held
  BY DEF CoreInv
<1>1. FileOfBox'
  BY <1>u, AppTyped, AppAssumption DEF FileInv, FileOfBox, Held, Roles, TypeOK, Raising,
     App, Remove, CanLock, Works, Finish, MayDie, Halted, GoTo, Same, Thread, NoBox
<1>2. RemovedIsGone'
  BY <1>u, AppAssumption DEF FileInv, FileOfBox, RemovedIsGone, NoStaleRestart, CarriedOut,
     Roles, TypeOK, Generations, Raising, Live, Thread, Gen, App, Unset, Never, Remove,
     CanLock, Works, Finish, MayDie, Halted, GoTo, Same, NoBox
<1> QED
  BY <1>1, <1>2 DEF FileInv

LEMMA HandleDieFile ==
  ASSUME CoreInv, FileInv, "down" \notin Faults, CoreInv', NEW r \in Repairer, HandleDie(r)
  PROVE  FileInv'
<1>u. TypeOK /\ Roles /\ Generations /\ Held
  BY DEF CoreInv
<1>1. FileOfBox'
  BY <1>u, AppTyped, AppAssumption DEF FileInv, FileOfBox, Held, Roles, TypeOK, Raising,
     App, HandleDie, GoTo, Thread
<1>2. RemovedIsGone'
  BY <1>u, AppAssumption DEF FileInv, FileOfBox, RemovedIsGone, NoStaleRestart, CarriedOut,
     Roles, TypeOK, Generations, Raising, Live, Thread, Gen, App, Unset, Never, HandleDie,
     GoTo
<1> QED
  BY <1>1, <1>2 DEF FileInv

LEMMA RestartInstanceFile ==
  ASSUME CoreInv, FileInv, "down" \notin Faults, CoreInv', NEW r \in Restarter, RestartInstance(r)
  PROVE  FileInv'
<1>u. TypeOK /\ Roles /\ Generations /\ Held
  BY DEF CoreInv
<1>1. FileOfBox'
  BY <1>u, AppTyped, AppAssumption DEF FileInv, FileOfBox, Held, Roles, TypeOK, Raising,
     App, RestartInstance, GoTo, Thread
<1>2. RemovedIsGone'
  BY <1>u, AppAssumption DEF FileInv, FileOfBox, RemovedIsGone, NoStaleRestart, CarriedOut,
     Roles, TypeOK, Generations, Raising, Live, Thread, Gen, App, Unset, Never,
     RestartInstance, GoTo
<1> QED
  BY <1>1, <1>2 DEF FileInv

LEMMA RecheckFile ==
  ASSUME CoreInv, FileInv, "down" \notin Faults, CoreInv', NEW r \in Restarter, Recheck(r)
  PROVE  FileInv'
<1>u. TypeOK /\ Roles /\ Generations /\ Held
  BY DEF CoreInv
<1>1. FileOfBox'
  BY <1>u, AppTyped, AppAssumption DEF FileInv, FileOfBox, Held, Roles, TypeOK, Raising,
     App, Recheck, Continue, GoTo, Same, Thread
<1>2. RemovedIsGone'
  BY <1>u, AppAssumption DEF FileInv, FileOfBox, RemovedIsGone, NoStaleRestart, CarriedOut,
     Roles, TypeOK, Generations, Raising, Live, Thread, Gen, App, Unset, Never, Recheck,
     Continue, GoTo, Same
<1> QED
  BY <1>1, <1>2 DEF FileInv

LEMMA RecreateFile ==
  ASSUME CoreInv, FileInv, "down" \notin Faults, CoreInv', NEW r \in Restarter, Recreate(r)
  PROVE  FileInv'
<1>u. TypeOK /\ Roles /\ Generations /\ Held
  BY DEF CoreInv
<1>1. FileOfBox'
  BY <1>u, AppTyped, AppAssumption DEF FileInv, FileOfBox, Held, Roles, TypeOK, Raising,
     App, Recreate, Works, Publish, Finish, MayDie, Halted, GoTo, Same, Thread
<1>2. RemovedIsGone'
  <2>0. r \in Thread
    BY DEF Thread
  <2>1. CarriedOut' => CarriedOut
    BY <1>u, AppAssumption DEF TypeOK, CarriedOut, Recreate, Finish, GoTo, Same, Thread
  <2>2. app[r].status = "running" /\ app[r].gen # 0
    BY <1>u, <2>0 DEF Roles, TypeOK, Gen, App, Recreate, Live, Raising
  <2>3. CarriedOut /\ NoStaleRestart' => saved.status = "running"
    BY <1>u, <2>0, <2>2 DEF CarriedOut, NoStaleRestart, Recreate, Same, Generations
  <2> QED
    BY <2>1, <2>3 DEF FileInv, RemovedIsGone, Recreate, Same
<1> QED
  BY <1>1, <1>2 DEF FileInv

LEMMA FileStep ==
  ASSUME CoreInv, FileInv, "down" \notin Faults, CoreInv', [Next]_vars
  PROVE  FileInv'
<1>1. ASSUME NEW a \in App, Submit(a) PROVE FileInv'
  BY <1>1, SubmitFile
<1>2. CASE Reconcile
  BY <1>2, ReconcileFile
<1>3. CASE TakeJob
  BY <1>3, TakeJobFile
<1>4. CASE Exits
  BY <1>4, ExitsFile
<1>5. CASE DockerRestarts
  BY <1>5, DockerRestartsFile
<1>6. CASE Crash
  BY <1>6, CrashFile
<1>7. ASSUME NEW p \in Thread, Artifacts(p) PROVE FileInv'
  BY <1>7, ArtifactsFile
<1>8. ASSUME NEW p \in Thread, PrepareCompose(p) PROVE FileInv'
  BY <1>8, PrepareComposeFile
<1>9. ASSUME NEW p \in Thread, Pull(p) PROVE FileInv'
  BY <1>9, PullFile
<1>10. ASSUME NEW p \in Thread, StartProject(p) PROVE FileInv'
  BY <1>10, StartProjectFile
<1>11. ASSUME NEW p \in Thread, Up(p) PROVE FileInv'
  BY <1>11, UpFile
<1>12. ASSUME NEW p \in Thread, Started(p) PROVE FileInv'
  BY <1>12, StartedFile
<1>13. ASSUME NEW p \in Thread, StopBarrier(p) PROVE FileInv'
  BY <1>13, StopBarrierFile
<1>14. ASSUME NEW p \in Thread, Stop(p) PROVE FileInv'
  BY <1>14, StopFile
<1>15. ASSUME NEW p \in Thread, Remove(p) PROVE FileInv'
  BY <1>15, RemoveFile
<1>16. ASSUME NEW r \in Repairer, HandleDie(r) PROVE FileInv'
  BY <1>16, HandleDieFile
<1>17. ASSUME NEW r \in Restarter, RestartInstance(r) PROVE FileInv'
  BY <1>17, RestartInstanceFile
<1>18. ASSUME NEW r \in Restarter, Recheck(r) PROVE FileInv'
  BY <1>18, RecheckFile
<1>19. ASSUME NEW r \in Restarter, Recreate(r) PROVE FileInv'
  BY <1>19, RecreateFile
<1>20. CASE UNCHANGED vars
  BY <1>20 DEF FileInv, vars, FileOfBox, RemovedIsGone, NoStaleRestart, CarriedOut
<1> QED
  BY <1>1, <1>2, <1>3, <1>4, <1>5, <1>6, <1>7, <1>8, <1>9, <1>10, <1>11, <1>12, <1>13,
     <1>14, <1>15, <1>16, <1>17, <1>18, <1>19, <1>20 DEF Next, RunReconcile

(* If the `down' of a removal does what it reports, the container of an    *)
(* app is gone once its removal was carried out. _remove_absent_v2_        *)
(* projects does not look at the result, so nothing else is known of it.   *)
THEOREM RemovalIsComplete ==
  ASSUME "down" \notin Faults
  PROVE  Spec => []RemovedIsGone
<1>1. Init => FileInv
  BY DEF Init, FileInv, FileOfBox, RemovedIsGone, CarriedOut, NoBox
<1>2. CoreInv /\ CoreInv' /\ FileInv /\ [Next]_vars => FileInv'
  BY FileStep
<1>3. FileInv => RemovedIsGone
  BY DEF FileInv
<1> QED
  BY <1>1, <1>2, <1>3, CoreAlways, PTL DEF Spec

-----------------------------------------------------------------------------
(* Health. What was last published of the newest generation becomes true   *)
(* or somebody is at work who will publish again.                          *)
Newest(s) ==
  saved.gen = sent /\ saved.status = s /\ (s = "stopped" => NoStaleRestart)

Fixing(p) == stage[p] \in {"artifact", "prepare", "pull", "start", "up"} /\ app[p] = saved
Attended  == event \/ \E p \in Thread : Fixing(p)

HealthKind ==
  /\ saved.gen # sent => health = "none"
  /\ Newest("running") => health # "stopped"
  /\ Newest("stopped") => health \notin {"running", "starting"}

(* Until there is a final health somebody is at work on the saved app.     *)
HealthComes ==
  /\ Newest("running") /\ health \in {"none", "starting"} =>
       \/ pending.kind # "none" \/ \E p \in Thread : Live(p) /\ app[p] = saved
       \/ health = "starting" /\ ~NoRestart
  /\ Newest("stopped") /\ health = "none" => pending.kind # "none" \/ Live("worker")

(* A container published as running, or about to be, runs or is attended   *)
(* to.                                                                     *)
RunningRuns ==
  Newest("running") /\ health = "running" =>
    \/ pending.kind # "none" \/ Attended
    \/ (box.state = "up" \/ missed) /\ (NoRestart => box.doc = saved.doc)

StartedRuns ==
  Newest("running") =>
    \A p \in Thread : stage[p] = "started" /\ (app[p] = saved \/ p \in Restarter) =>
      Attended \/ box.state = "up" \/ missed

StoppedIsDown ==
  Newest("stopped") /\ health = "stopped" => box.state # "up" /\ box.policy = "no"

HealthInv == HealthKind /\ HealthComes /\ RunningRuns /\ StartedRuns /\ StoppedIsDown

LEMMA SubmitHealth ==
  ASSUME CoreInv, HealthInv, CoreInv', NEW a \in App, Submit(a)
  PROVE  HealthInv'
<1>u. TypeOK /\ Roles /\ Generations /\ Held /\ RunsCurrentCompose
  BY DEF CoreInv
<1>v. Roles' /\ Generations' /\ TypeOK' /\ Held'
  BY DEF CoreInv
<1>1. HealthKind'
  BY <1>u, <1>v, AppAssumption DEF HealthInv, HealthKind, Newest, NoRestart,
     NoStaleRestart, Roles, TypeOK, Generations, Raising, Live, Thread, Gen, App, Unset,
     Never, Submit
<1>2. HealthComes'
  BY <1>u, <1>v, AppAssumption DEF HealthInv, HealthComes, Newest, NoRestart,
     NoStaleRestart, Roles, TypeOK, Generations, Raising, Live, Thread, Gen, App, Unset,
     Never, Submit
<1>3. RunningRuns'
  BY <1>u, <1>v, AppAssumption DEF HealthInv, RunningRuns, Held, StartedRuns, Attended,
     Fixing, Newest, NoRestart, NoStaleRestart, Roles, TypeOK, Generations, Raising, Live,
     Thread, Gen, App, Unset, Never, Submit
<1>4. StartedRuns'
  BY <1>u, <1>v, AppAssumption DEF HealthInv, StartedRuns, Held, Attended, Fixing, Newest,
     NoRestart, NoStaleRestart, Roles, TypeOK, Generations, Raising, Live, Thread, Gen,
     App, Unset, Never, Submit
<1>5. StoppedIsDown'
  BY <1>u, <1>v, AppAssumption DEF HealthInv, StoppedIsDown, Held, HealthKind, Newest,
     NoRestart, NoStaleRestart, Roles, TypeOK, Generations, Raising, Live, Thread, Gen,
     App, Unset, Never, Submit
<1> QED
  BY <1>1, <1>2, <1>3, <1>4, <1>5 DEF HealthInv

LEMMA ReconcileHealth ==
  ASSUME CoreInv, HealthInv, CoreInv', Reconcile
  PROVE  HealthInv'
<1>u. TypeOK /\ Roles /\ Generations /\ Held /\ RunsCurrentCompose
  BY DEF CoreInv
<1>v. Roles' /\ Generations' /\ TypeOK' /\ Held'
  BY DEF CoreInv
<1>1. HealthKind'
  BY <1>u, <1>v, AppAssumption DEF HealthInv, HealthKind, Newest, NoRestart,
     NoStaleRestart, Roles, TypeOK, Generations, Raising, Live, Thread, Gen, App, Unset,
     Never, Reconcile
<1>2. HealthComes'
  BY <1>u, <1>v, AppAssumption DEF HealthInv, HealthComes, Newest, NoRestart,
     NoStaleRestart, Roles, TypeOK, Generations, Raising, Live, Thread, Gen, App, Unset,
     Never, Reconcile
<1>3. RunningRuns'
  BY <1>u, <1>v, AppAssumption DEF HealthInv, RunningRuns, Held, StartedRuns, Attended,
     Fixing, Newest, NoRestart, NoStaleRestart, Roles, TypeOK, Generations, Raising, Live,
     Thread, Gen, App, Unset, Never, Reconcile
<1>4. StartedRuns'
  BY <1>u, <1>v, AppAssumption DEF HealthInv, StartedRuns, Held, Attended, Fixing, Newest,
     NoRestart, NoStaleRestart, Roles, TypeOK, Generations, Raising, Live, Thread, Gen,
     App, Unset, Never, Reconcile
<1>5. StoppedIsDown'
  BY <1>u, <1>v, AppAssumption DEF HealthInv, StoppedIsDown, Held, HealthKind, Newest,
     NoRestart, NoStaleRestart, Roles, TypeOK, Generations, Raising, Live, Thread, Gen,
     App, Unset, Never, Reconcile
<1> QED
  BY <1>1, <1>2, <1>3, <1>4, <1>5 DEF HealthInv

LEMMA TakeJobHealth ==
  ASSUME CoreInv, HealthInv, CoreInv', TakeJob
  PROVE  HealthInv'
<1>u. TypeOK /\ Roles /\ Generations /\ Held /\ RunsCurrentCompose
  BY DEF CoreInv
<1>v. Roles' /\ Generations' /\ TypeOK' /\ Held'
  BY DEF CoreInv
<1>1. HealthKind'
  BY <1>u, <1>v, AppAssumption DEF HealthInv, HealthKind, Newest, NoRestart,
     NoStaleRestart, Roles, TypeOK, Generations, Raising, Live, Thread, Gen, App, Unset,
     Never, TakeJob, NoJob, FirstStage, GoTo
<1>2. HealthComes'
  BY <1>u, <1>v, AppAssumption DEF HealthInv, HealthComes, Newest, NoRestart,
     NoStaleRestart, Roles, TypeOK, Generations, Raising, Live, Thread, Gen, App, Unset,
     Never, TakeJob, NoJob, FirstStage, GoTo
<1>3. RunningRuns'
  BY <1>u, <1>v, AppAssumption DEF HealthInv, RunningRuns, Held, StartedRuns, Attended,
     Fixing, Newest, NoRestart, NoStaleRestart, Roles, TypeOK, Generations, Raising, Live,
     Thread, Gen, App, Unset, Never, TakeJob, NoJob, FirstStage, GoTo
<1>4. StartedRuns'
  BY <1>u, <1>v, AppAssumption DEF HealthInv, StartedRuns, Held, Attended, Fixing, Newest,
     NoRestart, NoStaleRestart, Roles, TypeOK, Generations, Raising, Live, Thread, Gen,
     App, Unset, Never, TakeJob, NoJob, FirstStage, GoTo
<1>5. StoppedIsDown'
  BY <1>u, <1>v, AppAssumption DEF HealthInv, StoppedIsDown, Held, HealthKind, Newest,
     NoRestart, NoStaleRestart, Roles, TypeOK, Generations, Raising, Live, Thread, Gen,
     App, Unset, Never, TakeJob, NoJob, FirstStage, GoTo
<1> QED
  BY <1>1, <1>2, <1>3, <1>4, <1>5 DEF HealthInv

LEMMA ExitsHealth ==
  ASSUME CoreInv, HealthInv, CoreInv', Exits
  PROVE  HealthInv'
<1>u. TypeOK /\ Roles /\ Generations /\ Held /\ RunsCurrentCompose
  BY DEF CoreInv
<1>v. Roles' /\ Generations' /\ TypeOK' /\ Held'
  BY DEF CoreInv
<1>1. HealthKind'
  BY <1>u, <1>v, AppAssumption DEF HealthInv, HealthKind, Newest, NoRestart,
     NoStaleRestart, Roles, TypeOK, Generations, Raising, Live, Thread, Gen, App, Unset,
     Never, Exits, Works, Halted, Same
<1>2. HealthComes'
  BY <1>u, <1>v, AppAssumption DEF HealthInv, HealthComes, Newest, NoRestart,
     NoStaleRestart, Roles, TypeOK, Generations, Raising, Live, Thread, Gen, App, Unset,
     Never, Exits, Works, Halted, Same
<1>3. RunningRuns'
  <2>1. PICK heard \in BOOLEAN : event' = (event \/ heard) /\ missed' = ~heard
    BY DEF Exits, Works
  <2>2. (event => event') /\ (event' \/ missed') /\ box'.doc = box.doc
    BY <1>u, <2>1 DEF Exits, Halted, TypeOK
  <2>3. UNCHANGED <<stage, app, saved, sent, pending, health>>
    BY DEF Exits, Same
  <2> QED
    BY <2>2, <2>3 DEF HealthInv, RunningRuns, Attended, Fixing, Newest, NoRestart
<1>4. StartedRuns'
  BY <1>u, <1>v, AppAssumption DEF HealthInv, StartedRuns, Held, Attended, Fixing, Newest,
     NoRestart, NoStaleRestart, Roles, TypeOK, Generations, Raising, Live, Thread, Gen,
     App, Unset, Never, Exits, Works, Halted, Same
<1>5. StoppedIsDown'
  BY <1>u, <1>v, AppAssumption DEF HealthInv, StoppedIsDown, Held, HealthKind, Newest,
     NoRestart, NoStaleRestart, Roles, TypeOK, Generations, Raising, Live, Thread, Gen,
     App, Unset, Never, Exits, Works, Halted, Same
<1> QED
  BY <1>1, <1>2, <1>3, <1>4, <1>5 DEF HealthInv

LEMMA DockerRestartsHealth ==
  ASSUME CoreInv, HealthInv, CoreInv', DockerRestarts
  PROVE  HealthInv'
<1>u. TypeOK /\ Roles /\ Generations /\ Held /\ RunsCurrentCompose
  BY DEF CoreInv
<1>v. Roles' /\ Generations' /\ TypeOK' /\ Held'
  BY DEF CoreInv
<1>1. HealthKind'
  BY <1>u, <1>v, AppAssumption DEF HealthInv, HealthKind, Newest, NoRestart,
     NoStaleRestart, Roles, TypeOK, Generations, Raising, Live, Thread, Gen, App, Unset,
     Never, DockerRestarts, Same
<1>2. HealthComes'
  BY <1>u, <1>v, AppAssumption DEF HealthInv, HealthComes, Newest, NoRestart,
     NoStaleRestart, Roles, TypeOK, Generations, Raising, Live, Thread, Gen, App, Unset,
     Never, DockerRestarts, Same
<1>3. RunningRuns'
  BY <1>u, <1>v, AppAssumption DEF HealthInv, RunningRuns, Held, StartedRuns, Attended,
     Fixing, Newest, NoRestart, NoStaleRestart, Roles, TypeOK, Generations, Raising, Live,
     Thread, Gen, App, Unset, Never, DockerRestarts, Same
<1>4. StartedRuns'
  BY <1>u, <1>v, AppAssumption DEF HealthInv, StartedRuns, Held, Attended, Fixing, Newest,
     NoRestart, NoStaleRestart, Roles, TypeOK, Generations, Raising, Live, Thread, Gen,
     App, Unset, Never, DockerRestarts, Same
<1>5. StoppedIsDown'
  BY <1>u, <1>v, AppAssumption DEF HealthInv, StoppedIsDown, Held, HealthKind, Newest,
     NoRestart, NoStaleRestart, Roles, TypeOK, Generations, Raising, Live, Thread, Gen,
     App, Unset, Never, DockerRestarts, Same
<1> QED
  BY <1>1, <1>2, <1>3, <1>4, <1>5 DEF HealthInv

LEMMA CrashHealth ==
  ASSUME CoreInv, HealthInv, CoreInv', Crash
  PROVE  HealthInv'
<1>u. TypeOK /\ Roles /\ Generations /\ Held /\ RunsCurrentCompose
  BY DEF CoreInv
<1>v. Roles' /\ Generations' /\ TypeOK' /\ Held'
  BY DEF CoreInv
<1>1. HealthKind'
  BY <1>u, <1>v, AppAssumption DEF HealthInv, HealthKind, Newest, NoRestart,
     NoStaleRestart, Roles, TypeOK, Generations, Raising, Live, Thread, Gen, App, Unset,
     Never, Crash
<1>2. HealthComes'
  BY <1>u, <1>v, AppAssumption DEF HealthInv, HealthComes, Newest, NoRestart,
     NoStaleRestart, Roles, TypeOK, Generations, Raising, Live, Thread, Gen, App, Unset,
     Never, Crash
<1>3. RunningRuns'
  BY <1>u, <1>v, AppAssumption DEF HealthInv, RunningRuns, Held, StartedRuns, Attended,
     Fixing, Newest, NoRestart, NoStaleRestart, Roles, TypeOK, Generations, Raising, Live,
     Thread, Gen, App, Unset, Never, Crash
<1>4. StartedRuns'
  BY <1>u, <1>v, AppAssumption DEF HealthInv, StartedRuns, Held, Attended, Fixing, Newest,
     NoRestart, NoStaleRestart, Roles, TypeOK, Generations, Raising, Live, Thread, Gen,
     App, Unset, Never, Crash
<1>5. StoppedIsDown'
  BY <1>u, <1>v, AppAssumption DEF HealthInv, StoppedIsDown, Held, HealthKind, Newest,
     NoRestart, NoStaleRestart, Roles, TypeOK, Generations, Raising, Live, Thread, Gen,
     App, Unset, Never, Crash
<1> QED
  BY <1>1, <1>2, <1>3, <1>4, <1>5 DEF HealthInv

LEMMA ArtifactsHealth ==
  ASSUME CoreInv, HealthInv, CoreInv', NEW p \in Thread, Artifacts(p)
  PROVE  HealthInv'
<1>u. TypeOK /\ Roles /\ Generations /\ Held /\ RunsCurrentCompose
  BY DEF CoreInv
<1>v. Roles' /\ Generations' /\ TypeOK' /\ Held'
  BY DEF CoreInv
<1>1. HealthKind'
  BY <1>u, <1>v, AppAssumption DEF HealthInv, HealthKind, Newest, NoRestart,
     NoStaleRestart, Roles, TypeOK, Generations, Raising, Live, Thread, Gen, App, Unset,
     Never, Artifacts, Works, Publish, Finish, Continue, Superseded, GoTo, Same
<1>2. HealthComes'
  BY <1>u, <1>v, AppAssumption DEF HealthInv, HealthComes, Newest, NoRestart,
     NoStaleRestart, Roles, TypeOK, Generations, Raising, Live, Thread, Gen, App, Unset,
     Never, Artifacts, Works, Publish, Finish, Continue, Superseded, GoTo, Same
<1>3. RunningRuns'
  BY <1>u, <1>v, AppAssumption DEF HealthInv, RunningRuns, Held, StartedRuns, Attended,
     Fixing, Newest, NoRestart, NoStaleRestart, Roles, TypeOK, Generations, Raising, Live,
     Thread, Gen, App, Unset, Never, Artifacts, Works, Publish, Finish, Continue,
     Superseded, GoTo, Same
<1>4. StartedRuns'
  BY <1>u, <1>v, AppAssumption DEF HealthInv, StartedRuns, Held, Attended, Fixing, Newest,
     NoRestart, NoStaleRestart, Roles, TypeOK, Generations, Raising, Live, Thread, Gen,
     App, Unset, Never, Artifacts, Works, Publish, Finish, Continue, Superseded, GoTo,
     Same
<1>5. StoppedIsDown'
  BY <1>u, <1>v, AppAssumption DEF HealthInv, StoppedIsDown, Held, HealthKind, Newest,
     NoRestart, NoStaleRestart, Roles, TypeOK, Generations, Raising, Live, Thread, Gen,
     App, Unset, Never, Artifacts, Works, Publish, Finish, Continue, Superseded, GoTo,
     Same
<1> QED
  BY <1>1, <1>2, <1>3, <1>4, <1>5 DEF HealthInv

LEMMA PrepareComposeHealth ==
  ASSUME CoreInv, HealthInv, CoreInv', NEW p \in Thread, PrepareCompose(p)
  PROVE  HealthInv'
<1>u. TypeOK /\ Roles /\ Generations /\ Held /\ RunsCurrentCompose
  BY DEF CoreInv
<1>v. Roles' /\ Generations' /\ TypeOK' /\ Held'
  BY DEF CoreInv
<1>1. HealthKind'
  BY <1>u, <1>v, AppAssumption DEF HealthInv, HealthKind, Newest, NoRestart,
     NoStaleRestart, Roles, TypeOK, Generations, Raising, Live, Thread, Gen, App, Unset,
     Never, PrepareCompose, CanLock, Publish, Finish, Continue, GoTo, Same
<1>2. HealthComes'
  BY <1>u, <1>v, AppAssumption DEF HealthInv, HealthComes, Newest, NoRestart,
     NoStaleRestart, Roles, TypeOK, Generations, Raising, Live, Thread, Gen, App, Unset,
     Never, PrepareCompose, CanLock, Publish, Finish, Continue, GoTo, Same
<1>3. RunningRuns'
  BY <1>u, <1>v, AppAssumption DEF HealthInv, RunningRuns, Held, StartedRuns, Attended,
     Fixing, Newest, NoRestart, NoStaleRestart, Roles, TypeOK, Generations, Raising, Live,
     Thread, Gen, App, Unset, Never, PrepareCompose, CanLock, Publish, Finish, Continue,
     GoTo, Same
<1>4. StartedRuns'
  BY <1>u, <1>v, AppAssumption DEF HealthInv, StartedRuns, Held, Attended, Fixing, Newest,
     NoRestart, NoStaleRestart, Roles, TypeOK, Generations, Raising, Live, Thread, Gen,
     App, Unset, Never, PrepareCompose, CanLock, Publish, Finish, Continue, GoTo, Same
<1>5. StoppedIsDown'
  BY <1>u, <1>v, AppAssumption DEF HealthInv, StoppedIsDown, Held, HealthKind, Newest,
     NoRestart, NoStaleRestart, Roles, TypeOK, Generations, Raising, Live, Thread, Gen,
     App, Unset, Never, PrepareCompose, CanLock, Publish, Finish, Continue, GoTo, Same
<1> QED
  BY <1>1, <1>2, <1>3, <1>4, <1>5 DEF HealthInv

LEMMA PullHealth ==
  ASSUME CoreInv, HealthInv, CoreInv', NEW p \in Thread, Pull(p)
  PROVE  HealthInv'
<1>u. TypeOK /\ Roles /\ Generations /\ Held /\ RunsCurrentCompose
  BY DEF CoreInv
<1>v. Roles' /\ Generations' /\ TypeOK' /\ Held'
  BY DEF CoreInv
<1>1. HealthKind'
  BY <1>u, <1>v, AppAssumption DEF HealthInv, HealthKind, Newest, NoRestart,
     NoStaleRestart, Roles, TypeOK, Generations, Raising, Live, Thread, Gen, App, Unset,
     Never, Pull, Superseded, Fail, Publish, Finish, Continue, GoTo, Same
<1>2. HealthComes'
  BY <1>u, <1>v, AppAssumption DEF HealthInv, HealthComes, Newest, NoRestart,
     NoStaleRestart, Roles, TypeOK, Generations, Raising, Live, Thread, Gen, App, Unset,
     Never, Pull, Superseded, Fail, Publish, Finish, Continue, GoTo, Same
<1>3. RunningRuns'
  BY <1>u, <1>v, AppAssumption DEF HealthInv, RunningRuns, Held, StartedRuns, Attended,
     Fixing, Newest, NoRestart, NoStaleRestart, Roles, TypeOK, Generations, Raising, Live,
     Thread, Gen, App, Unset, Never, Pull, Superseded, Fail, Publish, Finish, Continue,
     GoTo, Same
<1>4. StartedRuns'
  BY <1>u, <1>v, AppAssumption DEF HealthInv, StartedRuns, Held, Attended, Fixing, Newest,
     NoRestart, NoStaleRestart, Roles, TypeOK, Generations, Raising, Live, Thread, Gen,
     App, Unset, Never, Pull, Superseded, Fail, Publish, Finish, Continue, GoTo, Same
<1>5. StoppedIsDown'
  BY <1>u, <1>v, AppAssumption DEF HealthInv, StoppedIsDown, Held, HealthKind, Newest,
     NoRestart, NoStaleRestart, Roles, TypeOK, Generations, Raising, Live, Thread, Gen,
     App, Unset, Never, Pull, Superseded, Fail, Publish, Finish, Continue, GoTo, Same
<1> QED
  BY <1>1, <1>2, <1>3, <1>4, <1>5 DEF HealthInv

LEMMA StartProjectHealth ==
  ASSUME CoreInv, HealthInv, CoreInv', NEW p \in Thread, StartProject(p)
  PROVE  HealthInv'
<1>u. TypeOK /\ Roles /\ Generations
  BY DEF CoreInv
<1>1. CASE Superseded(p)
  <2>1. Finish(p, TRUE) /\ UNCHANGED <<file, marker, health, box, event, missed>>
        /\ Same /\ stage[p] = "start"
    BY <1>1 DEF StartProject
  <2>2. Newest("running") => app[p] # saved
    BY <1>1, <1>u DEF Superseded, Newest, Generations
  <2>3. HealthComes'
    BY <1>u, <2>1, <2>2 DEF HealthInv, HealthComes, Newest, NoRestart, NoStaleRestart,
       Live, Finish, GoTo, Same, TypeOK, Roles, Thread, Raising, Generations
  <2>4. RunningRuns' /\ StartedRuns'
    BY <1>u, <2>1, <2>2 DEF HealthInv, RunningRuns, StartedRuns, Attended, Fixing, Newest,
       NoRestart, NoStaleRestart, Finish, GoTo, Same, TypeOK
  <2>5. HealthKind' /\ StoppedIsDown'
    BY <2>1 DEF HealthInv, HealthKind, StoppedIsDown, Newest, NoRestart, NoStaleRestart,
       Same
  <2> QED BY <2>3, <2>4, <2>5 DEF HealthInv
<1>2. CASE ~Superseded(p) /\ Continue(p, "up", p) /\ Publish(p, "starting")
  <2>1. UNCHANGED <<box, event, missed>> /\ Same /\ stage[p] = "start"
    BY <1>2 DEF StartProject
  <2>3. HealthComes'
    BY <1>u, <1>2, <2>1, AppAssumption DEF HealthInv, HealthComes, Newest, NoRestart,
       NoStaleRestart, Live, Continue, Publish, GoTo, Same, TypeOK, Roles, Thread,
       Raising, Generations
  <2>4. RunningRuns' /\ StartedRuns'
    BY <1>u, <1>2, <2>1 DEF HealthInv, RunningRuns, StartedRuns, Attended, Fixing, Newest,
       NoRestart, NoStaleRestart, Continue, Publish, GoTo, Same, TypeOK
  <2>5. HealthKind' /\ StoppedIsDown'
    BY <1>u, <1>2, <2>1, AppAssumption DEF HealthInv, HealthKind, StoppedIsDown, Newest,
       NoRestart, NoStaleRestart, Same, TypeOK, Publish, Roles, Raising, Generations,
       Live, Thread, Gen, App
  <2> QED BY <2>3, <2>4, <2>5 DEF HealthInv
<1>3. CASE ~Superseded(p) /\ Fail(p)
  <2>1. UNCHANGED <<box, event, missed>> /\ Same /\ stage[p] = "start" /\ Finish(p, FALSE)
        /\ Publish(p, "failed") /\ CanLock(p)
    BY <1>3 DEF StartProject, Fail
  <2>2. Newest("running") /\ app[p] = saved => health' = "failed"
    BY <1>u, <2>1, AppAssumption DEF Publish, Newest, Generations, NoRestart,
       NoStaleRestart, Roles, Live, Thread
  <2>3. HealthComes'
    BY <1>u, <2>1, <2>2, AppAssumption DEF HealthInv, HealthComes, Newest, NoRestart,
       NoStaleRestart, Live, Finish, Publish, GoTo, Same, TypeOK, Roles, Thread, Raising,
       Generations
  <2>4. RunningRuns'
    BY <1>u, <2>1, <2>2 DEF HealthInv, RunningRuns, Attended, Fixing, Newest, NoRestart,
       NoStaleRestart, Finish, Publish, GoTo, Same, TypeOK
  <2>6. StartedRuns'
    BY <1>u, <2>1, <2>2, AppAssumption DEF HealthInv, StartedRuns, Attended, Fixing, Newest,
       NoRestart, NoStaleRestart, Finish, GoTo, Same, TypeOK, CanLock, Thread
  <2>5. HealthKind' /\ StoppedIsDown'
    BY <1>u, <2>1, AppAssumption DEF HealthInv, HealthKind, StoppedIsDown, Newest,
       NoRestart, NoStaleRestart, Same, TypeOK, Publish, Roles, Raising, Generations,
       Live, Thread, Gen, App
  <2> QED BY <2>3, <2>4, <2>5, <2>6 DEF HealthInv
<1> QED BY <1>1, <1>2, <1>3 DEF StartProject

LEMMA UpHealth ==
  ASSUME CoreInv, HealthInv, CoreInv', NEW p \in Thread, Up(p)
  PROVE  HealthInv'
<1>u. TypeOK /\ Roles /\ Generations /\ Held /\ RunsCurrentCompose
  BY DEF CoreInv
<1>v. Roles' /\ Generations' /\ TypeOK' /\ Held'
  BY DEF CoreInv
<1>1. HealthKind'
  BY <1>u, <1>v, AppAssumption DEF HealthInv, HealthKind, Newest, NoRestart,
     NoStaleRestart, Roles, TypeOK, Generations, Raising, Live, Thread, Gen, App, Unset,
     Never, Up, Superseded, Fail, Publish, Finish, Continue, MayDie, Halted, GoTo, Same
<1>2. HealthComes'
  BY <1>u, <1>v, AppAssumption DEF HealthInv, HealthComes, Newest, NoRestart,
     NoStaleRestart, Roles, TypeOK, Generations, Raising, Live, Thread, Gen, App, Unset,
     Never, Up, Superseded, Fail, Publish, Finish, Continue, MayDie, Halted, GoTo, Same
<1>3. RunningRuns'
  BY <1>u, <1>v, AppAssumption DEF HealthInv, RunningRuns, Held, StartedRuns, Attended,
     Fixing, Newest, NoRestart, NoStaleRestart, Roles, TypeOK, Generations, Raising, Live,
     Thread, Gen, App, Unset, Never, Up, Superseded, Fail, Publish, Finish, Continue,
     MayDie, Halted, GoTo, Same
<1>4. StartedRuns'
  BY <1>u, <1>v, AppAssumption DEF HealthInv, StartedRuns, Held, Attended, Fixing, Newest,
     NoRestart, NoStaleRestart, Roles, TypeOK, Generations, Raising, Live, Thread, Gen,
     App, Unset, Never, Up, Superseded, Fail, Publish, Finish, Continue, MayDie, Halted,
     GoTo, Same
<1>5. StoppedIsDown'
  BY <1>u, <1>v, AppAssumption DEF HealthInv, StoppedIsDown, Held, HealthKind, Newest,
     NoRestart, NoStaleRestart, Roles, TypeOK, Generations, Raising, Live, Thread, Gen,
     App, Unset, Never, Up, Superseded, Fail, Publish, Finish, Continue, MayDie, Halted,
     GoTo, Same
<1> QED
  BY <1>1, <1>2, <1>3, <1>4, <1>5 DEF HealthInv

LEMMA StartedHealth ==
  ASSUME CoreInv, HealthInv, CoreInv', NEW p \in Thread, Started(p)
  PROVE  HealthInv'
<1>u. TypeOK /\ Roles /\ Generations /\ Held /\ RunsCurrentCompose
  BY DEF CoreInv
<1>v. Roles' /\ Generations' /\ TypeOK' /\ Held'
  BY DEF CoreInv
<1>1. HealthKind'
  <2>1. \/ health' = health
        \/ saved.gen = sent /\ health' = "running" /\ (NoStaleRestart => app[p] = saved)
    BY <1>u DEF Started, Publish, Generations, Roles, Live, NoStaleRestart, TypeOK, Gen, App
  <2>2. NoStaleRestart' <=> NoStaleRestart
    BY DEF Started, Same, NoStaleRestart
  <2> QED
    BY <1>u, <2>1, <2>2 DEF HealthInv, HealthKind, Newest, Started, Same, Roles, Raising
<1>2. HealthComes'
  BY <1>u, <1>v, AppAssumption DEF HealthInv, HealthComes, Newest, NoRestart,
     NoStaleRestart, Roles, TypeOK, Generations, Raising, Live, Thread, Gen, App, Unset,
     Never, Started, Publish, Finish, GoTo, Same
<1>3. RunningRuns'
  BY <1>u, <1>v, AppAssumption DEF HealthInv, RunningRuns, Held, StartedRuns, Attended,
     Fixing, Newest, NoRestart, NoStaleRestart, Roles, TypeOK, Generations, Raising, Live,
     Thread, Gen, App, Unset, Never, Started, Publish, Finish, GoTo, Same
<1>4. StartedRuns'
  BY <1>u, <1>v, AppAssumption DEF HealthInv, StartedRuns, Held, Attended, Fixing, Newest,
     NoRestart, NoStaleRestart, Roles, TypeOK, Generations, Raising, Live, Thread, Gen,
     App, Unset, Never, Started, Publish, Finish, GoTo, Same
<1>5. StoppedIsDown'
  BY <1>u, <1>v, AppAssumption DEF HealthInv, StoppedIsDown, Held, HealthKind, Newest,
     NoRestart, NoStaleRestart, Roles, TypeOK, Generations, Raising, Live, Thread, Gen,
     App, Unset, Never, Started, Publish, Finish, GoTo, Same
<1> QED
  BY <1>1, <1>2, <1>3, <1>4, <1>5 DEF HealthInv

LEMMA StopBarrierHealth ==
  ASSUME CoreInv, HealthInv, CoreInv', NEW p \in Thread, StopBarrier(p)
  PROVE  HealthInv'
<1>u. TypeOK /\ Roles /\ Generations /\ Held /\ RunsCurrentCompose
  BY DEF CoreInv
<1>v. Roles' /\ Generations' /\ TypeOK' /\ Held'
  BY DEF CoreInv
<1>1. HealthKind'
  BY <1>u, <1>v, AppAssumption DEF HealthInv, HealthKind, Newest, NoRestart,
     NoStaleRestart, Roles, TypeOK, Generations, Raising, Live, Thread, Gen, App, Unset,
     Never, StopBarrier, CanLock, Works, Publish, Finish, Continue, GoTo, Same
<1>2. HealthComes'
  BY <1>u, <1>v, AppAssumption DEF HealthInv, HealthComes, Newest, NoRestart,
     NoStaleRestart, Roles, TypeOK, Generations, Raising, Live, Thread, Gen, App, Unset,
     Never, StopBarrier, CanLock, Works, Publish, Finish, Continue, GoTo, Same
<1>3. RunningRuns'
  BY <1>u, <1>v, AppAssumption DEF HealthInv, RunningRuns, Held, StartedRuns, Attended,
     Fixing, Newest, NoRestart, NoStaleRestart, Roles, TypeOK, Generations, Raising, Live,
     Thread, Gen, App, Unset, Never, StopBarrier, CanLock, Works, Publish, Finish,
     Continue, GoTo, Same
<1>4. StartedRuns'
  BY <1>u, <1>v, AppAssumption DEF HealthInv, StartedRuns, Held, Attended, Fixing, Newest,
     NoRestart, NoStaleRestart, Roles, TypeOK, Generations, Raising, Live, Thread, Gen,
     App, Unset, Never, StopBarrier, CanLock, Works, Publish, Finish, Continue, GoTo, Same
<1>5. StoppedIsDown'
  BY <1>u, <1>v, AppAssumption DEF HealthInv, StoppedIsDown, Held, HealthKind, Newest,
     NoRestart, NoStaleRestart, Roles, TypeOK, Generations, Raising, Live, Thread, Gen,
     App, Unset, Never, StopBarrier, CanLock, Works, Publish, Finish, Continue, GoTo, Same
<1> QED
  BY <1>1, <1>2, <1>3, <1>4, <1>5 DEF HealthInv

LEMMA StopHealth ==
  ASSUME CoreInv, HealthInv, CoreInv', NEW p \in Thread, Stop(p)
  PROVE  HealthInv'
<1>u. TypeOK /\ Roles /\ Generations /\ Held /\ RunsCurrentCompose
  BY DEF CoreInv
<1>v. Roles' /\ Generations' /\ TypeOK' /\ Held'
  BY DEF CoreInv
<1>1. HealthKind'
  BY <1>u, <1>v, AppAssumption DEF HealthInv, HealthKind, Newest, NoRestart,
     NoStaleRestart, Roles, TypeOK, Generations, Raising, Live, Thread, Gen, App, Unset,
     Never, Stop, Works, Publish, Finish, MayDie, Halted, GoTo, Same
<1>2. HealthComes'
  BY <1>u, <1>v, AppAssumption DEF HealthInv, HealthComes, Newest, NoRestart,
     NoStaleRestart, Roles, TypeOK, Generations, Raising, Live, Thread, Gen, App, Unset,
     Never, Stop, Works, Publish, Finish, MayDie, Halted, GoTo, Same
<1>3. RunningRuns'
  BY <1>u, <1>v, AppAssumption DEF HealthInv, RunningRuns, Held, StartedRuns, Attended,
     Fixing, Newest, NoRestart, NoStaleRestart, Roles, TypeOK, Generations, Raising, Live,
     Thread, Gen, App, Unset, Never, Stop, Works, Publish, Finish, MayDie, Halted, GoTo,
     Same
<1>4. StartedRuns'
  BY <1>u, <1>v, AppAssumption DEF HealthInv, StartedRuns, Held, Attended, Fixing, Newest,
     NoRestart, NoStaleRestart, Roles, TypeOK, Generations, Raising, Live, Thread, Gen,
     App, Unset, Never, Stop, Works, Publish, Finish, MayDie, Halted, GoTo, Same
<1>5. StoppedIsDown'
  BY <1>u, <1>v, AppAssumption DEF HealthInv, StoppedIsDown, Held, HealthKind, Newest,
     NoRestart, NoStaleRestart, Roles, TypeOK, Generations, Raising, Live, Thread, Gen,
     App, Unset, Never, Stop, Works, Publish, Finish, MayDie, Halted, GoTo, Same
<1> QED
  BY <1>1, <1>2, <1>3, <1>4, <1>5 DEF HealthInv

LEMMA RemoveHealth ==
  ASSUME CoreInv, HealthInv, CoreInv', NEW p \in Thread, Remove(p)
  PROVE  HealthInv'
<1>1. saved.status = "absent"
  BY DEF CoreInv, Roles, Generations, Remove, Live
<1> QED
  BY <1>1 DEF HealthInv, HealthKind, HealthComes, RunningRuns, StartedRuns, StoppedIsDown,
     Newest, Remove, Same

LEMMA HandleDieHealth ==
  ASSUME CoreInv, HealthInv, CoreInv', NEW r \in Repairer, HandleDie(r)
  PROVE  HealthInv'
<1>u. TypeOK /\ Roles /\ Generations /\ r \in Thread /\ r \notin Restarter
  BY AppAssumption DEF CoreInv, Thread
<1>1. (NoRestart' <=> NoRestart) /\ (NoStaleRestart' <=> NoStaleRestart)
  <2>1. \A q \in Restarter : app'[q] = app[q]
    BY <1>u DEF TypeOK, HandleDie, Thread
  <2>2. UNCHANGED <<sent, saved>>
    BY DEF HandleDie
  <2> QED
    BY <2>1, <2>2 DEF NoRestart, NoStaleRestart
<1>2. HealthKind' /\ StoppedIsDown'
    BY <1>1 DEF HealthInv, HealthKind, StoppedIsDown, Newest, HandleDie
<1>3. HealthComes'
    BY <1>1, <1>u, AppAssumption DEF HealthInv, HealthComes, Newest, HandleDie, Live, GoTo,
       TypeOK
<1>4. Newest("running") => Fixing(r)'
    BY <1>u DEF Newest, HandleDie, GoTo, Fixing, TypeOK
<1>5. RunningRuns' /\ StartedRuns'
    BY <1>1, <1>u, <1>4 DEF HealthInv, RunningRuns, StartedRuns, Attended, Newest, HandleDie
<1> QED BY <1>2, <1>3, <1>5 DEF HealthInv

LEMMA RestartInstanceHealth ==
  ASSUME CoreInv, HealthInv, CoreInv',
         NEW r \in Restarter, RestartInstance(r)
  PROVE  HealthInv'
<1>u. TypeOK /\ Roles /\ Generations /\ Held /\ RunsCurrentCompose
  BY DEF CoreInv
<1>v. Roles' /\ Generations' /\ TypeOK' /\ Held'
  BY DEF CoreInv
<1>1. HealthKind'
  BY <1>u, <1>v, AppAssumption DEF HealthInv, HealthKind, Newest, NoRestart,
     NoStaleRestart, Roles, TypeOK, Generations, Raising, Live, Thread, Gen, App, Unset,
     Never, RestartInstance, GoTo
<1>2. HealthComes'
  BY <1>u, <1>v, AppAssumption DEF HealthInv, HealthComes, Newest, NoRestart,
     NoStaleRestart, Roles, TypeOK, Generations, Raising, Live, Thread, Gen, App, Unset,
     Never, RestartInstance, GoTo
<1>3. RunningRuns'
  BY <1>u, <1>v, AppAssumption DEF HealthInv, RunningRuns, Held, StartedRuns, Attended,
     Fixing, Newest, NoRestart, NoStaleRestart, Roles, TypeOK, Generations, Raising, Live,
     Thread, Gen, App, Unset, Never, RestartInstance, GoTo
<1>4. StartedRuns'
  BY <1>u, <1>v, AppAssumption DEF HealthInv, StartedRuns, Held, Attended, Fixing, Newest,
     NoRestart, NoStaleRestart, Roles, TypeOK, Generations, Raising, Live, Thread, Gen,
     App, Unset, Never, RestartInstance, GoTo
<1>5. StoppedIsDown'
  BY <1>u, <1>v, AppAssumption DEF HealthInv, StoppedIsDown, Held, HealthKind, Newest,
     NoRestart, NoStaleRestart, Roles, TypeOK, Generations, Raising, Live, Thread, Gen,
     App, Unset, Never, RestartInstance, GoTo
<1> QED
  BY <1>1, <1>2, <1>3, <1>4, <1>5 DEF HealthInv

LEMMA RecheckHealth ==
  ASSUME CoreInv, HealthInv, CoreInv', NEW r \in Restarter, Recheck(r)
  PROVE  HealthInv'
<1>u. TypeOK /\ Roles /\ Generations /\ Held /\ RunsCurrentCompose
  BY DEF CoreInv
<1>v. Roles' /\ Generations' /\ TypeOK' /\ Held'
  BY DEF CoreInv
<1>1. HealthKind'
  BY <1>u, <1>v, AppAssumption DEF HealthInv, HealthKind, Newest, NoRestart,
     NoStaleRestart, Roles, TypeOK, Generations, Raising, Live, Thread, Gen, App, Unset,
     Never, Recheck, Continue, GoTo, Same
<1>2. HealthComes'
  BY <1>u, <1>v, AppAssumption DEF HealthInv, HealthComes, Newest, NoRestart,
     NoStaleRestart, Roles, TypeOK, Generations, Raising, Live, Thread, Gen, App, Unset,
     Never, Recheck, Continue, GoTo, Same
<1>3. RunningRuns'
  BY <1>u, <1>v, AppAssumption DEF HealthInv, RunningRuns, Held, StartedRuns, Attended,
     Fixing, Newest, NoRestart, NoStaleRestart, Roles, TypeOK, Generations, Raising, Live,
     Thread, Gen, App, Unset, Never, Recheck, Continue, GoTo, Same
<1>4. StartedRuns'
  BY <1>u, <1>v, AppAssumption DEF HealthInv, StartedRuns, Held, Attended, Fixing, Newest,
     NoRestart, NoStaleRestart, Roles, TypeOK, Generations, Raising, Live, Thread, Gen,
     App, Unset, Never, Recheck, Continue, GoTo, Same
<1>5. StoppedIsDown'
  BY <1>u, <1>v, AppAssumption DEF HealthInv, StoppedIsDown, Held, HealthKind, Newest,
     NoRestart, NoStaleRestart, Roles, TypeOK, Generations, Raising, Live, Thread, Gen,
     App, Unset, Never, Recheck, Continue, GoTo, Same
<1> QED
  BY <1>1, <1>2, <1>3, <1>4, <1>5 DEF HealthInv

LEMMA RecreateHealth ==
  ASSUME CoreInv, HealthInv, CoreInv', NEW r \in Restarter, Recreate(r)
  PROVE  HealthInv'
<1>u. TypeOK /\ Roles /\ Generations
  BY DEF CoreInv
<1>0. r \in Thread /\ app[r].gen > 0 /\ app[r].status = "running"
  BY <1>u DEF Roles, Recreate, Live, Thread, Raising
<1>1. ~NoRestart'
  BY <1>0 DEF Recreate, NoRestart, Same
<1>2. \/ saved.gen # sent /\ health' = health
      \/ saved.gen = sent /\ health' = "running" /\ box'.state = "up"
      \/ saved.gen = sent /\ health' = "starting"
  BY AppAssumption DEF Recreate, Publish
<1>3. ~Newest("stopped")
  BY <1>0, <1>u DEF Newest, NoStaleRestart, Generations, TypeOK, Gen, App
<1>4. \A q \in Thread : stage'[q] # "started"
  BY <1>u, <1>0 DEF TypeOK, Recreate, Finish, GoTo
<1>5. UNCHANGED <<sent, saved, app>>
  BY DEF Recreate, Same
<1> QED
  BY <1>1, <1>2, <1>3, <1>4, <1>5 DEF HealthInv, HealthKind, HealthComes, RunningRuns,
     StartedRuns, StoppedIsDown, Newest, NoStaleRestart

LEMMA HealthStep ==
  ASSUME CoreInv, HealthInv, CoreInv', [Next]_vars
  PROVE  HealthInv'
<1>1. ASSUME NEW a \in App, Submit(a) PROVE HealthInv'
  BY <1>1, SubmitHealth
<1>2. CASE Reconcile
  BY <1>2, ReconcileHealth
<1>3. CASE TakeJob
  BY <1>3, TakeJobHealth
<1>4. CASE Exits
  BY <1>4, ExitsHealth
<1>5. CASE DockerRestarts
  BY <1>5, DockerRestartsHealth
<1>6. CASE Crash
  BY <1>6, CrashHealth
<1>7. ASSUME NEW p \in Thread, Artifacts(p) PROVE HealthInv'
  BY <1>7, ArtifactsHealth
<1>8. ASSUME NEW p \in Thread, PrepareCompose(p) PROVE HealthInv'
  BY <1>8, PrepareComposeHealth
<1>9. ASSUME NEW p \in Thread, Pull(p) PROVE HealthInv'
  BY <1>9, PullHealth
<1>10. ASSUME NEW p \in Thread, StartProject(p) PROVE HealthInv'
  BY <1>10, StartProjectHealth
<1>11. ASSUME NEW p \in Thread, Up(p) PROVE HealthInv'
  BY <1>11, UpHealth
<1>12. ASSUME NEW p \in Thread, Started(p) PROVE HealthInv'
  BY <1>12, StartedHealth
<1>13. ASSUME NEW p \in Thread, StopBarrier(p) PROVE HealthInv'
  BY <1>13, StopBarrierHealth
<1>14. ASSUME NEW p \in Thread, Stop(p) PROVE HealthInv'
  BY <1>14, StopHealth
<1>15. ASSUME NEW p \in Thread, Remove(p) PROVE HealthInv'
  BY <1>15, RemoveHealth
<1>16. ASSUME NEW r \in Repairer, HandleDie(r) PROVE HealthInv'
  BY <1>16, HandleDieHealth
<1>17. ASSUME NEW r \in Restarter, RestartInstance(r) PROVE HealthInv'
  BY <1>17, RestartInstanceHealth
<1>18. ASSUME NEW r \in Restarter, Recheck(r) PROVE HealthInv'
  BY <1>18, RecheckHealth
<1>19. ASSUME NEW r \in Restarter, Recreate(r) PROVE HealthInv'
  BY <1>19, RecreateHealth
<1>20. CASE UNCHANGED vars
  BY <1>20 DEF HealthInv, vars, HealthKind, HealthComes, RunningRuns, StartedRuns,
     StoppedIsDown, Newest, NoRestart, NoStaleRestart, Attended, Fixing, Live
<1> QED
  BY <1>1, <1>2, <1>3, <1>4, <1>5, <1>6, <1>7, <1>8, <1>9, <1>10, <1>11, <1>12, <1>13,
     <1>14, <1>15, <1>16, <1>17, <1>18, <1>19, <1>20 DEF Next, RunReconcile

(* The last health published for the newest generation is final and as     *)
(* true as the code keeps it when nothing is left to do: whatever fails,   *)
(* artifacts and restarts included, and whatever events are lost, the      *)
(* threads that publish late do not leave a stale report behind.           *)
THEOREM HealthIsTrue == Spec => []HealthSettles
<1>1. Init => HealthInv
  BY AppAssumption DEF Init, HealthInv, HealthKind, HealthComes, RunningRuns, StartedRuns,
     StoppedIsDown, Newest, NoJob
<1>2. CoreInv /\ CoreInv' /\ HealthInv /\ [Next]_vars => HealthInv'
  BY HealthStep
<1>3. CoreInv /\ HealthInv => HealthSettles
  <2> SUFFICES ASSUME CoreInv, HealthInv, Quiet
               PROVE  HealthSettles
    BY DEF HealthSettles
  <2>1. ~Attended /\ (\A p \in Thread : ~Live(p)) /\ pending.kind = "none"
    BY DEF Quiet, Attended, Fixing, Live
  <2>2. health \in Status /\ saved.gen = sent
    BY DEF CoreInv, TypeOK, Status, Quiet
  <2>3. Newest("running") =>
          \/ /\ health = "running" /\ (box.state = "up" \/ missed)
             /\ NoRestart => box.doc = saved.doc
          \/ health = "starting" /\ ~NoRestart
          \/ health = "failed"
    BY <2>1, <2>2 DEF HealthInv, HealthKind, HealthComes, RunningRuns, Status
  <2>4. Newest("stopped") => health = "failed" \/ (health = "stopped" /\ box.state # "up")
    BY <2>1, <2>2 DEF HealthInv, HealthKind, HealthComes, StoppedIsDown, Status, Thread
  <2> QED
    BY <2>2, <2>3, <2>4 DEF HealthSettles, Newest
<1> QED
  BY <1>1, <1>2, <1>3, CoreAlways, PTL DEF Spec
=============================================================================
