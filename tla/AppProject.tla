----------------------------- MODULE AppProject -----------------------------
(***************************************************************************)
(* One Compose project of the data plane and the threads that touch it:    *)
(* the apply worker carrying out desired states, repair threads started by *)
(* Docker die events, and RestartInstance calls. They share the project's  *)
(* lock, its compose.json, its failure marker and its container. A newer   *)
(* desired state supersedes a running reconcile through the project's      *)
(* target, which is published before the state is saved.                   *)
(***************************************************************************)
EXTENDS Naturals, FiniteSets

CONSTANTS
  Repairer,    \* threads repairing after a die event
  Restarter,   \* threads serving RestartInstance
  Nobody,
  Doc,         \* Compose documents of the app
  BadDoc,      \* documents whose images cannot be pulled
  NoDoc,
  MaxGen,      \* bound on desired states sent
  MaxCrashes,  \* bound on data-plane crashes
  Faults       \* what may go wrong, see FaultKind

FaultKind == {"artifact", "pull", "init", "start", "stop", "policy", "down", "watch"}

ASSUME AppAssumption ==
  /\ Nobody \notin Repairer \cup Restarter \cup {"worker"}
  /\ Repairer \cap Restarter = {} /\ "worker" \notin Repairer \cup Restarter
  /\ Doc # {} /\ BadDoc \subseteq Doc /\ NoDoc \notin Doc
  /\ MaxGen \in Nat /\ MaxCrashes \in Nat
  /\ Faults \subseteq FaultKind

VARIABLES
  sent,      \* desired states sent so far: the newest generation
  target,    \* _project_targets of the project, Unset in a fresh process
  saved,     \* the app in the saved desired state
  pending,   \* the pending job of the worker
  stage,     \* where each thread is
  app,       \* the app each thread works on
  lock,      \* holder of the project lock
  file,      \* the document in compose.json
  marker,    \* the document of .failed-compose-sig
  box,       \* the container
  event,     \* a die event with exit code 0 waits to be handled
  missed,    \* history: the container is down and its repair was lost or failed
  health,    \* last health published for the newest generation
  carried,   \* history: generation of the last job when it succeeded
  crashes

vars == <<sent, target, saved, pending, stage, app, lock, file, marker, box,
          event, missed, health, carried, crashes>>

Thread == {"worker"} \cup Repairer \cup Restarter
Gen    == 0..MaxGen
Unset  == MaxGen + 1
Never  == MaxGen + 1

App == [gen : Gen, status : {"running", "stopped", "absent"}, doc : Doc]

Stage == {"idle", "artifact", "prepare", "pull", "start", "up", "started",
          "barrier", "stopping", "remove", "recheck", "recreate"}

NoBox == [state |-> "none", doc |-> NoDoc, policy |-> "no"]

TypeOK ==
  /\ sent \in Gen
  /\ target \in Gen \cup {Unset}
  /\ saved \in App
  /\ pending \in [kind : {"none", "reconcile", "apply"}, app : App]
  /\ stage \in [Thread -> Stage]
  /\ app \in [Thread -> App]
  /\ lock \in Thread \cup {Nobody}
  /\ \A p \in Thread :
       stage[p] \in {"pull", "up", "started", "stopping", "recreate"} => lock = p
  /\ file \in Doc \cup {NoDoc} /\ marker \in Doc \cup {NoDoc}
  /\ box \in [state : {"none", "up", "exited"}, doc : Doc \cup {NoDoc},
              policy : {"no", "on-failure"}]
  /\ event \in BOOLEAN /\ missed \in BOOLEAN
  /\ health \in {"none", "starting", "running", "failed", "stopped"}
  /\ carried \in Gen \cup {Never}
  /\ crashes \in 0..MaxCrashes

NoJob == [kind |-> "none", app |-> [gen |-> 0, status |-> "absent",
                                    doc |-> CHOOSE d \in Doc : TRUE]]

Init ==
  /\ sent = 0 /\ target = Unset
  /\ saved = NoJob.app
  /\ pending = NoJob
  /\ stage = [p \in Thread |-> "idle"]
  /\ app = [p \in Thread |-> saved]
  /\ lock = Nobody
  /\ file = NoDoc /\ marker = NoDoc /\ box = NoBox
  /\ event = FALSE /\ missed = FALSE /\ health = "none"
  /\ carried = Never /\ crashes = 0

(* Mutant: only the worker looks at the target.                            *)
SupersededWorker(p) ==
  p = "worker" /\ target \notin {Unset, app[p].gen}

(* _is_current_app_superseded: RestartInstance runs outside the reconcile  *)
(* context that tells which generation a thread works for.                 *)
Superseded(p) ==
  p \notin Restarter /\ target \notin {Unset, app[p].gen}

Works(call) == {TRUE} \cup (IF call \in Faults THEN {FALSE} ELSE {})

CanLock(p) == lock \in {Nobody, p}
GoTo(p, next) == stage' = [stage EXCEPT ![p] = next]

(* Mutant: every health event carries the saved generation.                *)
PublishSaved(p, status) ==
  health' = IF saved.gen = sent THEN status ELSE health

(* _lifecycle_health_fields: the generation a health event carries is the  *)
(* thread's own, or the saved one outside a reconcile. An event for an     *)
(* older generation than the newest says nothing of it.                    *)
Publish(p, status) ==
  LET generation == IF p \in Restarter THEN saved.gen ELSE app[p].gen
  IN health' = IF generation = sent THEN status ELSE health

(* The thread is done; a RestartInstance call held the lock all along.     *)
Finish(p, ok) ==
  /\ GoTo(p, "idle")
  /\ lock' = IF lock = p THEN Nobody ELSE lock
  /\ carried' = IF p = "worker" THEN IF ok THEN app[p].gen ELSE Never ELSE carried

Continue(p, next, holder) ==
  /\ GoTo(p, next)
  /\ lock' = holder
  /\ UNCHANGED carried

(* Stopping or replacing a running container makes it die, perhaps with    *)
(* exit code 0.                                                            *)
MayDie == event' \in {event, event \/ box.state = "up"}
Halted == [box EXCEPT !.state = IF @ = "up" THEN "exited" ELSE @]
-----------------------------------------------------------------------------
(* Desired states and the worker.                                          *)
Submit(a) ==
  /\ sent < MaxGen /\ a.gen = sent + 1
  /\ sent' = a.gen /\ target' = a.gen
  /\ pending' = [kind |-> "apply", app |-> a]
  /\ health' = "none"
  /\ UNCHANGED <<saved, stage, app, lock, file, marker, box, event, missed,
                 carried, crashes>>

(* Boot, reconnects and the artifact timer. That a reconcile displaces a   *)
(* pending apply is the subject of ApplyScheduler.                         *)
Reconcile ==
  /\ pending.kind = "none"
  /\ pending' = [kind |-> "reconcile", app |-> saved]
  /\ UNCHANGED <<sent, target, saved, stage, app, lock, file, marker, box,
                 event, missed, health, carried, crashes>>

FirstStage(a) ==
  CASE a.status = "running" -> "artifact"
    [] a.status = "stopped" -> "barrier"
    [] a.status = "absent"  -> "remove"

TakeJob ==
  /\ stage["worker"] = "idle" /\ pending.kind # "none"
  /\ saved' = IF pending.kind = "apply" THEN pending.app ELSE saved
  /\ app' = [app EXCEPT !["worker"] = saved']
  /\ GoTo("worker", FirstStage(saved'))
  /\ pending' = NoJob
  /\ carried' = Never
  /\ UNCHANGED <<sent, target, lock, file, marker, box, event, missed, health, crashes>>

Same == UNCHANGED <<sent, target, saved, pending, app, crashes>>

(* _prepare_app_artifacts. A repair that ends here leaves the container    *)
(* down.                                                                   *)
Artifacts(p) ==
  /\ stage[p] = "artifact"
  /\ \E ok \in Works("artifact") :
       IF ok THEN Publish(p, "starting") /\ Continue(p, "prepare", lock) /\ UNCHANGED missed
       ELSE /\ IF Superseded(p) THEN Publish(p, "starting") ELSE Publish(p, "failed")
            /\ missed' = (box.state # "up")
            /\ Finish(p, Superseded(p))
  /\ UNCHANGED <<file, marker, box, event>> /\ Same

(* _prepare_app_project_compose: the file is written before anything else  *)
(* is looked at. A known failure is not tried again, unless forced.        *)
PrepareCompose(p) ==
  /\ stage[p] = "prepare" /\ CanLock(p)
  /\ file' = app[p].doc
  /\ IF marker = app[p].doc /\ p \notin Restarter
     THEN Publish(p, "failed") /\ Finish(p, FALSE) /\ UNCHANGED marker
     ELSE /\ Publish(p, "starting") /\ Continue(p, "pull", p)
          /\ marker' = IF marker = app[p].doc THEN NoDoc ELSE marker
  /\ UNCHANGED <<box, event, missed>> /\ Same

(* A pull, an init service or a start that failed for good.                *)
Fail(p) ==
  /\ marker' = app[p].doc
  /\ Publish(p, "failed")
  /\ Finish(p, FALSE)

(* _pull_project_images                                                    *)
Pull(p) ==
  /\ stage[p] = "pull"
  /\ IF Superseded(p)
     THEN Finish(p, TRUE) /\ UNCHANGED <<marker, health>>
     ELSE \/ /\ app[p].doc \notin BadDoc
             /\ Continue(p, "start", IF p \in Restarter THEN p ELSE Nobody)
             /\ UNCHANGED <<marker, health>>
          \/ /\ app[p].doc \in BadDoc \/ "pull" \in Faults
             /\ Fail(p)
  /\ UNCHANGED <<file, box, event, missed>> /\ Same

(* _start_prepared_app_project up to the init services                     *)
StartProject(p) ==
  /\ stage[p] = "start" /\ CanLock(p)
  /\ IF Superseded(p)
     THEN Finish(p, TRUE) /\ UNCHANGED <<file, marker, health>>
     ELSE /\ file' = app[p].doc
          /\ \E ok \in Works("init") :
               IF ok
               THEN /\ Publish(p, "starting") /\ Continue(p, "up", p)
                    /\ UNCHANGED marker
               ELSE Fail(p)
  /\ UNCHANGED <<box, event, missed>> /\ Same

(* The rest of it: compose up, then the restart policies. An up that fails *)
(* may have stopped the old container; one that works replaces it if its   *)
(* document changed and reuses it otherwise.                               *)
Up(p) ==
  /\ stage[p] = "up"
  /\ IF Superseded(p)
     THEN Finish(p, TRUE) /\ UNCHANGED <<marker, health, box, event, missed>>
     ELSE /\ \/ /\ box' = [state |-> "up", doc |-> app[p].doc, policy |-> "on-failure"]
                /\ Continue(p, "started", p) /\ UNCHANGED <<marker, health>>
             \/ /\ "policy" \in Faults
                /\ box' = [state |-> "up", doc |-> app[p].doc,
                           policy |-> IF box.doc = app[p].doc THEN box.policy
                                      ELSE "on-failure"]
                /\ Fail(p)
             \/ /\ "start" \in Faults
                /\ box' \in {box, Halted}
                /\ Fail(p)
          /\ missed' = (missed /\ box'.state # "up")
          /\ MayDie
  /\ UNCHANGED file /\ Same

Started(p) ==
  /\ stage[p] = "started"
  /\ marker' = NoDoc
  /\ Publish(p, "running") /\ Finish(p, TRUE)
  /\ UNCHANGED <<file, box, event, missed>> /\ Same

(* Mutant: no policy barrier.                                              *)
StopBarrierSkipped(p) ==
  /\ stage[p] = "barrier" /\ CanLock(p)
  /\ Continue(p, "stopping", p)
  /\ UNCHANGED <<box, health, file, marker, event, missed>> /\ Same

(* The stopped branch of _reconcile_v2_app_inner: the restart policy is    *)
(* taken away before the stop.                                             *)
StopBarrier(p) ==
  /\ stage[p] = "barrier" /\ CanLock(p)
  /\ \E ok \in Works("policy") :
       IF ok THEN /\ box' = [box EXCEPT !.policy = "no"]
                  /\ Continue(p, "stopping", p) /\ UNCHANGED health
       ELSE /\ Publish(p, "failed") /\ Finish(p, FALSE) /\ UNCHANGED box
  /\ UNCHANGED <<file, marker, event, missed>> /\ Same

Stop(p) ==
  /\ stage[p] = "stopping"
  /\ file' = app[p].doc
  /\ \E ok \in Works("stop") :
       IF ok THEN /\ box' = Halted
                  /\ marker' = NoDoc /\ Publish(p, "stopped") /\ MayDie
       ELSE Publish(p, "failed") /\ UNCHANGED <<box, marker, event>>
  /\ Finish(p, health' # "failed")
  /\ UNCHANGED missed /\ Same

(* _remove_absent_v2_projects: the result of compose down is not looked    *)
(* at, and the project directory goes either way.                          *)
Remove(p) ==
  /\ stage[p] = "remove" /\ CanLock(p)
  /\ \E ok \in Works("down") :
       IF file # NoDoc /\ ok THEN box' = NoBox /\ MayDie ELSE UNCHANGED <<box, event>>
  /\ file' = NoDoc /\ marker' = NoDoc
  /\ Finish(p, TRUE)
  /\ UNCHANGED <<health, missed>> /\ Same

RunReconcile(p) ==
  \/ Artifacts(p) \/ PrepareCompose(p) \/ Pull(p) \/ StartProject(p) \/ Up(p)
  \/ Started(p) \/ StopBarrier(p) \/ Stop(p) \/ Remove(p)
-----------------------------------------------------------------------------
(* Docker: a service exits with code 0, or the daemon restarts a container *)
(* that had failed and whose policy says so. The event is lost while       *)
(* _docker_event_loop reconnects, for it asks for no past events and       *)
(* starts no reconcile.                                                    *)
Exits ==
  /\ box.state = "up"
  /\ box' = Halted
  /\ \E heard \in Works("watch") :
       event' = (event \/ heard) /\ missed' = ~heard
  /\ UNCHANGED <<stage, lock, file, marker, health, carried>> /\ Same

DockerRestarts ==
  /\ box.state = "exited" /\ box.policy = "on-failure"
  /\ box' = [box EXCEPT !.state = "up"]
  /\ missed' = FALSE
  /\ UNCHANGED <<stage, lock, file, marker, event, health, carried>> /\ Same

(* Mutant: an event that comes while the project is busy is dropped.       *)
HandleDieIdle(r) ==
  /\ event /\ stage[r] = "idle"
  /\ event' = FALSE
  /\ IF saved.status = "running" /\ lock = Nobody
     THEN app' = [app EXCEPT ![r] = saved] /\ GoTo(r, "artifact")
     ELSE UNCHANGED <<app, stage>>
  /\ UNCHANGED <<sent, target, saved, pending, lock, file, marker, box, missed, health,
                 carried, crashes>>

(* _handle_docker_event                                                    *)
HandleDie(r) ==
  /\ event /\ stage[r] = "idle"
  /\ event' = FALSE
  /\ IF saved.status = "running"
     THEN app' = [app EXCEPT ![r] = saved] /\ GoTo(r, "artifact")
     ELSE UNCHANGED <<app, stage>>
  /\ UNCHANGED <<sent, target, saved, pending, lock, file, marker, box, missed, health,
                 carried, crashes>>
-----------------------------------------------------------------------------
(* _restart_instance_inner: the state and the lock are looked at first,    *)
(* and only then is the lock taken.                                        *)
RestartInstance(r) ==
  /\ stage[r] = "idle"
  /\ app[r].gen < saved.gen                      \* bound: one per state
  /\ saved.status = "running" /\ lock = Nobody
  /\ app' = [app EXCEPT ![r] = saved]
  /\ GoTo(r, "recheck")
  /\ UNCHANGED <<sent, target, saved, pending, lock, file, marker, box, event,
                 missed, health, carried, crashes>>

Recheck(r) ==
  /\ stage[r] = "recheck" /\ lock = Nobody
  /\ Continue(r, IF marker = app[r].doc THEN "artifact" ELSE "recreate", r)
  /\ UNCHANGED <<file, marker, box, event, missed, health>> /\ Same

(* compose up --force-recreate of whatever compose.json says. One that     *)
(* fails may have stopped the old container.                               *)
Recreate(r) ==
  /\ stage[r] = "recreate"
  /\ \E ok \in Works("start") :
       IF file # NoDoc /\ ok
       THEN /\ box' = [state |-> "up", doc |-> file, policy |-> "on-failure"]
            /\ Publish(r, "running")
       ELSE box' \in {box, Halted} /\ Publish(r, "starting")
  /\ missed' = (box'.state # "up")
  /\ MayDie
  /\ Finish(r, TRUE)
  /\ UNCHANGED <<file, marker>> /\ Same
-----------------------------------------------------------------------------
(* The data plane dies and systemd starts it again: threads, locks and     *)
(* targets are gone, files and containers stay, and it reconciles at boot. *)
Crash ==
  /\ crashes < MaxCrashes /\ crashes' = crashes + 1
  /\ stage' = [p \in Thread |-> "idle"]
  /\ lock' = Nobody /\ target' = Unset /\ event' = FALSE
  /\ pending' = [kind |-> "reconcile", app |-> saved]
  /\ carried' = Never
  /\ UNCHANGED <<sent, saved, app, file, marker, box, missed, health>>

Next ==
  \/ \E a \in App : Submit(a)
  \/ Reconcile \/ TakeJob \/ Exits \/ DockerRestarts \/ Crash
  \/ \E p \in Thread : RunReconcile(p)
  \/ \E r \in Repairer : HandleDie(r)
  \/ \E r \in Restarter : RestartInstance(r) \/ Recheck(r) \/ Recreate(r)

Spec == Init /\ [][Next]_vars

(* Started work goes on: the worker and the threads run, and the thread    *)
(* reading Docker events reads on.                                         *)
Fairness ==
  /\ WF_vars(TakeJob)
  /\ \A p \in Thread : WF_vars(RunReconcile(p))
  /\ \A r \in Restarter : WF_vars(Recheck(r) \/ Recreate(r))
  /\ WF_vars(\E r \in Repairer : HandleDie(r))

FairSpec == Spec /\ Fairness
-----------------------------------------------------------------------------
(* Properties.                                                             *)

(* The newest state was saved and its job reported success.                *)
CarriedOut == stage["worker"] = "idle" /\ pending.kind = "none"
              /\ saved.gen = sent /\ carried = sent

(* Nothing is left to do.                                                  *)
Quiet == /\ \A p \in Thread : stage[p] = "idle"
         /\ pending.kind = "none" /\ ~event /\ saved.gen = sent

(* No restart was accepted under an older state, or none at all.           *)
NoStaleRestart == \A r \in Restarter : app[r].gen \in {0, sent}
NoRestart      == \A r \in Restarter : app[r].gen = 0

(* What the code says of a restart and does not keep: a Stop that was      *)
(* carried out is undone by a restart accepted before it (dataplane.py:849 *)
(* refuses one with "App is stopped").                                     *)
StopOutlastsRestart ==
  CarriedOut /\ saved.status = "stopped" => box.state # "up" /\ box.policy = "no"

(* Nor this: a restart runs an older document that a superseded thread has *)
(* put back (dataplane.py:829: "Recreate guarantees the running container  *)
(* reflects the current compose").                                         *)
RestartRunsCurrentCompose ==
  CarriedOut /\ saved.status = "running" =>
    box.state # "none" /\ box.doc = saved.doc /\ box.policy = "on-failure"

(* Once Stop is carried out the app stays down: no repair thread of an     *)
(* older generation, no die event, no restart of the Docker daemon and no  *)
(* RestartInstance of the same state brings it back (dataplane.py:1661:    *)
(* "Persist the no-restart barrier before sending a stop signal").         *)
StoppedStaysDown == NoStaleRestart => StopOutlastsRestart

(* Once a running app is carried out, its container is of the newest       *)
(* document, whatever older repair threads still do.                       *)
RunsCurrentCompose == NoRestart => RestartRunsCurrentCompose

(* Once the removal of an app is carried out its container is gone         *)
(* (docs/storage-architecture.md:180: "When an app instance is deleted,    *)
(* the data plane waits until Compose has removed its container").         *)
RemovedIsGone ==
  CarriedOut /\ NoStaleRestart /\ saved.status = "absent" => box.state = "none"

(* When nothing is left to do, the last health published for the newest    *)
(* generation is final and true (docs/desired-state.md:127: "Per-app       *)
(* health remains the authority for whether every workload is actually     *)
(* running"): "running" speaks of a container that is up and of the newest *)
(* document, "stopped" of one that is down. What the code does not keep is *)
(* said here and stated below without it: an exit whose repair was lost, a *)
(* restart that fails and leaves "starting" behind, or runs an older       *)
(* document, or was accepted before a Stop.                                *)
HealthSettles ==
  Quiet =>
    /\ saved.status = "running" =>
         \/ /\ health = "running" /\ (box.state = "up" \/ missed)
            /\ NoRestart => box.doc = saved.doc
         \/ health = "starting" /\ ~NoRestart
         \/ health = "failed"
    /\ saved.status = "stopped" /\ NoStaleRestart =>
         health = "failed" \/ (health = "stopped" /\ box.state # "up")

(* Health as the authority on whether a workload runs: lost to an exit     *)
(* while the events are being reconnected, and to a repair that finds no   *)
(* artifacts just before another thread reports "running".                 *)
HealthIsAuthority ==
  Quiet /\ saved.status = "running" /\ health = "running" => box.state = "up"

(* A container that exits with code 0 while its app should run comes up    *)
(* again or is reported failed, or the app is to be stopped or removed     *)
(* (dataplane.py:3273: "Reefy only fills the exit-code-0 gap"), unless the *)
(* event was lost.                                                         *)
ExitedComesBack ==
  (/\ box.state = "exited" /\ ~missed
   /\ saved.status = "running" /\ saved.gen = sent /\ NoStaleRestart)
    ~> (\/ box.state = "up" \/ missed \/ health = "failed"
        \/ sent # saved.gen \/ saved.status # "running")

(* The same of every exit (dataplane.py:3247: "Repair desired service      *)
(* containers immediately after a die event").                             *)
EveryExitIsRepaired ==
  (box.state = "exited" /\ saved.status = "running" /\ saved.gen = sent /\ NoStaleRestart)
    ~> (box.state = "up" \/ health = "failed" \/ sent # saved.gen \/ saved.status # "running")
=============================================================================
