--------------------------- MODULE ApplyScheduler ---------------------------
(***************************************************************************)
(* The apply scheduler of the data plane (dataplane.py, DataPlane).        *)
(*                                                                         *)
(* Clients of the Varlink interface, the boot thread and the artifact      *)
(* retry timer submit requests: "apply" carries a new desired state,       *)
(* "reconcile" applies the saved one again. One worker thread serves the   *)
(* running request; one more may be pending. Everything under              *)
(* _job_condition is one step here; the worker's file writes and result    *)
(* updates, which happen outside it, are steps of their own. The process   *)
(* may die at any point and is restarted by systemd.                       *)
(*                                                                         *)
(* Each desired state holds one app, of which only the generation matters: *)
(* an app whose published target generation is not the one being applied   *)
(* is skipped as superseded.                                               *)
(***************************************************************************)
EXTENDS ApplyResults

CONSTANTS
  State,         \* desired states a client may send
  Generation,    \* the app generation of each state, [State -> ...]
  Malformed,     \* states refused before they are saved
  Unreadable,    \* states whose app targets cannot be read when submitted
  Client,        \* threads of control, one Varlink call at a time
  NoRequest, NoState, NoTarget,
  Triggers,      \* who submits reconciles: "connect", "boot", "timer", "migration"
  Faults,        \* what may go wrong: "write", "unlink", "save", "start", "app", "device"
  MaxCrashes     \* bound on the crashes of the data plane

AppGeneration == {Generation[s] : s \in State}

ASSUME SchedulerAssumption ==
  /\ NoRequest \notin Request
  /\ NoState \notin State
  /\ NoTarget \notin AppGeneration
  /\ Malformed \subseteq State /\ Unreadable \subseteq State
  /\ Triggers \subseteq {"connect", "boot", "timer", "migration"}
  /\ Faults \subseteq {"write", "unlink", "save", "start", "app", "device"}
  /\ MaxCrashes \in Nat

VARIABLES
  mode,        \* "serving", "down", or "recovering" (fail_interrupted)
  store,       \* _apply_results
  job,         \* what each request was submitted for
  running,     \* _running_job
  pending,     \* _pending_job
  pc,          \* the worker thread
  outcome,     \* the status the worker is about to record
  persisted,   \* the saved desired state
  app,         \* generation of the app containers that are up
  target,      \* _project_targets: newest published app generation
  timer,       \* _artifact_retry_timer is alive
  fired,       \* a retry thread has left the timer and not yet submitted
  client,      \* what each client does
  asleep,      \* threads inside _job_condition.wait()
  bootDue,     \* the boot thread has not yet submitted
  crashes,
  newest,      \* history: the newest apply this process published a target for
  last         \* history: the last request finished since then

dpvars  == <<persisted, app, target, timer, fired>>
history == <<newest, last>>
vars == <<mode, store, job, running, pending, pc, outcome, persisted, app,
          target, timer, fired, client, asleep, bootDue, crashes, newest, last>>

NoJob == [kind |-> "none", state |-> NoState]
Job   == [kind : {"none", "apply", "reconcile"}, state : State \cup {NoState}]
Idle  == [at |-> "idle", req |-> NoRequest]

WorkerPC == {"none", "begin", "save", "apply", "finish", "drain"}

Succeeded(fault) == {TRUE} \cup (IF fault \in Faults THEN {FALSE} ELSE {})

(* The stores that recording s for request r may lead to: its file may not *)
(* be written, and files of pruned records may not be removed.             *)
Leftovers == IF "unlink" \in Faults THEN SUBSET Request ELSE {{}}

Updates(st, r, s) ==
  {Updated(st, r, s, ok, left) : ok \in Succeeded("write"), left \in Leftovers}

TypeOK ==
  /\ mode \in {"serving", "down", "recovering"}
  /\ store \in Store
  /\ job \in [Request -> Job]
  /\ running \in Request \cup {NoRequest}
  /\ pending \in Request \cup {NoRequest}
  /\ pc \in WorkerPC
  /\ outcome \in Terminal \ {"superseded"}
  /\ persisted \in State \cup {NoState}
  /\ app \in AppGeneration \cup {NoTarget}
  /\ target \in AppGeneration \cup {NoTarget}
  /\ timer \in BOOLEAN /\ fired \in BOOLEAN /\ bootDue \in BOOLEAN
  /\ client \in [Client -> [at : {"idle", "blocked", "waiting"},
                            req : Request \cup {NoRequest}]]
  /\ asleep \subseteq Client
  /\ crashes \in Nat
  /\ newest \in Request \cup {NoRequest}
  /\ last \in Request \cup {NoRequest}

Init ==
  /\ mode = "serving"
  /\ store = EmptyStore
  /\ job = [r \in Request |-> NoJob]
  /\ running = NoRequest /\ pending = NoRequest
  /\ pc = "none" /\ outcome = "failed"
  /\ persisted = NoState /\ app = NoTarget /\ target = NoTarget
  /\ timer = FALSE /\ fired = FALSE
  /\ client = [c \in Client |-> Idle] /\ asleep = {}
  /\ bootDue = ("boot" \in Triggers)
  /\ crashes = 0
  /\ newest = NoRequest /\ last = NoRequest
-----------------------------------------------------------------------------
(* _submit_apply_job: everything below happens under _job_condition.       *)
(* "reply" is the request the caller may wait for, NoRequest when the      *)
(* submission was not accepted.                                            *)
QueueTail == IF pending # NoRequest THEN pending ELSE running

Joins(kind, s) ==
  /\ kind = "apply" /\ QueueTail # NoRequest
  /\ job[QueueTail] = [kind |-> "apply", state |-> s]
  /\ store.mem[QueueTail] \notin Terminal

Join(reply) ==
  /\ reply = QueueTail
  /\ newest' = QueueTail
  /\ UNCHANGED <<store, job, running, pending, pc, asleep, target, last>>

Reject(reply) ==
  /\ "write" \in Faults
  /\ reply = NoRequest
  /\ UNCHANGED <<store, job, running, pending, pc, asleep, target, history>>

(* Bug: the targets are published only when there is running work to cancel. *)
EnqueueLateTarget(kind, s, r) ==
  /\ job[r] = NoJob /\ s \notin Unreadable
  /\ job' = [job EXCEPT ![r] = [kind |-> kind, state |-> s]]
  /\ asleep' = {}
  /\ IF kind = "apply"
     THEN newest' = r /\ last' = NoRequest
     ELSE UNCHANGED <<newest, last>>
  /\ target' = IF kind = "apply" /\ running # NoRequest THEN Generation[s] ELSE target

Enqueue(kind, s, r) ==
  /\ job[r] = NoJob /\ s \notin Unreadable
  /\ job' = [job EXCEPT ![r] = [kind |-> kind, state |-> s]]
  /\ asleep' = {}
  /\ IF kind = "apply"
     THEN target' = Generation[s] /\ newest' = r /\ last' = NoRequest
     ELSE UNCHANGED <<target, newest, last>>

StartWorker(kind, s, r, reply) ==
  /\ running = NoRequest
  /\ Enqueue(kind, s, r)
  /\ reply = r
  /\ store' = Created(store, r)
  /\ running' = r /\ pc' = "begin"
  /\ UNCHANGED pending

CannotStart(kind, s, r, reply) ==
  /\ running = NoRequest
  /\ "start" \in Faults
  /\ Enqueue(kind, s, r)
  /\ reply = NoRequest
  /\ store' \in Updates(Created(store, r), r, "failed")
  /\ UNCHANGED <<running, pending, pc>>

(* Bug: the replaced request is dropped without a result.                  *)
ReplaceSilently(kind, s, r, reply) ==
  /\ running # NoRequest
  /\ Enqueue(kind, s, r)
  /\ reply = r
  /\ pending' = r
  /\ store' = Created(store, r)
  /\ UNCHANGED <<running, pc>>

(* Bug: the new request supersedes the running one, not the pending one.   *)
ReplaceRunning(kind, s, r, reply) ==
  /\ running # NoRequest
  /\ Enqueue(kind, s, r)
  /\ reply = r
  /\ pending' = r
  /\ store' \in Updates(Created(store, r), running, "superseded")
  /\ UNCHANGED <<running, pc>>

ReplacePending(kind, s, r, reply) ==
  /\ running # NoRequest
  /\ Enqueue(kind, s, r)
  /\ reply = r
  /\ pending' = r
  /\ IF pending = NoRequest
     THEN store' = Created(store, r)
     ELSE store' \in Updates(Created(store, r), pending, "superseded")
  /\ UNCHANGED <<running, pc>>

(* _set_project_targets raises: the record that has just been created      *)
(* stays queued, nobody is notified and no job is placed, and the caller   *)
(* gets an error without the request (_dp_submit_apply).                   *)
Strand(kind, s, r, reply) ==
  /\ kind = "apply" /\ s \in Unreadable
  /\ job[r] = NoJob
  /\ job' = [job EXCEPT ![r] = [kind |-> kind, state |-> s]]
  /\ reply = NoRequest
  /\ store' = Created(store, r)
  /\ UNCHANGED <<running, pending, pc, asleep, target, history>>

Stranded(r) == job[r].kind = "apply" /\ job[r].state \in Unreadable

Submit(kind, s, reply) ==
  IF Joins(kind, s) THEN Join(reply)
  ELSE \/ Reject(reply)
       \/ \E r \in Request : \/ StartWorker(kind, s, r, reply)
                             \/ CannotStart(kind, s, r, reply)
                             \/ ReplacePending(kind, s, r, reply)
                             \/ Strand(kind, s, r, reply)

Waits(reply) ==
  IF reply = NoRequest THEN Idle ELSE [at |-> "waiting", req |-> reply]
-----------------------------------------------------------------------------
(* Callers.                                                                *)
SubmitApply(c) ==
  /\ mode = "serving" /\ client[c] = Idle
  /\ \E s \in State, reply \in Request \cup {NoRequest} :
       /\ Submit("apply", s, reply)
       /\ client' = [client EXCEPT ![c] = Waits(reply)]
  /\ UNCHANGED <<mode, outcome, persisted, app, timer, fired, bootDue, crashes>>

SubmitReconcile(c) ==
  /\ mode = "serving" /\ client[c] = Idle
  /\ "connect" \in Triggers
  /\ \E reply \in Request \cup {NoRequest} :
       /\ Submit("reconcile", NoState, reply)
       /\ client' = [client EXCEPT ![c] = Waits(reply)]
  /\ UNCHANGED <<mode, outcome, persisted, app, timer, fired, bootDue, crashes>>

(* _retry_pending_migration_app: wait_for_idle.                            *)
RetryMigration(c) ==
  /\ mode = "serving" /\ client[c] = Idle
  /\ "migration" \in Triggers
  /\ client' = [client EXCEPT ![c].at = "blocked"]
  /\ UNCHANGED <<mode, store, job, running, pending, pc, outcome, dpvars,
                 asleep, bootDue, crashes, history>>

SubmitWhenIdle(c) ==
  /\ mode = "serving" /\ client[c].at = "blocked" /\ c \notin asleep
  /\ IF running # NoRequest \/ pending # NoRequest
     THEN /\ asleep' = asleep \cup {c}
          /\ UNCHANGED <<store, job, running, pending, pc, target, client, history>>
     ELSE \E reply \in Request \cup {NoRequest} :
            /\ Submit("reconcile", NoState, reply)
            /\ client' = [client EXCEPT ![c] = Waits(reply)]
  /\ UNCHANGED <<mode, outcome, persisted, app, timer, fired, bootDue, crashes>>

BootSubmit ==
  /\ mode = "serving" /\ bootDue
  /\ bootDue' = FALSE
  /\ \E reply \in Request \cup {NoRequest} : Submit("reconcile", NoState, reply)
  /\ UNCHANGED <<mode, outcome, persisted, app, timer, fired, client, crashes>>

TimerFires ==
  /\ timer /\ ~fired
  /\ timer' = FALSE /\ fired' = TRUE
  /\ UNCHANGED <<mode, store, job, running, pending, pc, outcome, persisted,
                 app, target, client, asleep, bootDue, crashes, history>>

TimerSubmits ==
  /\ fired
  /\ fired' = FALSE
  /\ \E reply \in Request \cup {NoRequest} : Submit("reconcile", NoState, reply)
  /\ UNCHANGED <<mode, outcome, persisted, app, timer, client, bootDue, crashes>>

(* _wait_apply_result                                                      *)
WaitApply(c) ==
  /\ mode = "serving" /\ client[c].at = "waiting" /\ c \notin asleep
  /\ IF store.mem[client[c].req] \in Unfinished
     THEN asleep' = asleep \cup {c} /\ UNCHANGED client
     ELSE client' = [client EXCEPT ![c] = Idle] /\ UNCHANGED asleep
  /\ UNCHANGED <<mode, store, job, running, pending, pc, outcome, dpvars,
                 bootDue, crashes, history>>

(* Control stops waiting for a data plane that does not come back.         *)
GiveUp(c) ==
  /\ mode = "down" /\ client[c] # Idle
  /\ client' = [client EXCEPT ![c] = Idle]
  /\ UNCHANGED <<mode, store, job, running, pending, pc, outcome, dpvars,
                 asleep, bootDue, crashes, history>>
-----------------------------------------------------------------------------
(* _apply_job_worker                                                       *)
Begin ==
  /\ pc = "begin"
  /\ store' \in Updates(store, running, "running")
  /\ pc' = IF job[running].kind = "apply" THEN "save" ELSE "apply"
  /\ UNCHANGED <<mode, job, running, pending, outcome, dpvars, client, asleep,
                 bootDue, crashes, history>>

(* _apply_state: the state is refused, or cannot be saved, or replaces the *)
(* saved one and cancels the artifact retry.                               *)
RefuseState ==
  /\ pc = "save"
  /\ job[running].state \in Malformed \/ "save" \in Faults
  /\ outcome' = "failed" /\ pc' = "finish"
  /\ UNCHANGED <<mode, store, job, running, pending, dpvars, client, asleep,
                 bootDue, crashes, history>>

SaveState ==
  /\ pc = "save"
  /\ job[running].state \notin Malformed
  /\ persisted' = job[running].state
  /\ timer' = FALSE
  /\ pc' = "apply"
  /\ UNCHANGED <<mode, store, job, running, pending, outcome, app, target, fired,
                 client, asleep, bootDue, crashes, history>>

(* _apply_desired_state on the saved state. An app is skipped when a newer *)
(* generation of it has been published; skipping it is not a warning.      *)
AppSuperseded == target # NoTarget /\ target # Generation[persisted]

ApplyNothing ==
  /\ persisted = NoState
  /\ outcome' = "succeeded"
  /\ UNCHANGED <<app, timer>>

ApplyApp ==
  /\ persisted # NoState
  /\ outcome' = "succeeded"
  /\ app' = IF AppSuperseded THEN app ELSE Generation[persisted]
  /\ timer' = FALSE

AppFails ==
  /\ persisted # NoState /\ ~AppSuperseded
  /\ "app" \in Faults
  /\ outcome' = "succeeded_with_warnings"
  /\ timer' \in {FALSE, "timer" \in Triggers}
  /\ UNCHANGED app

DeviceFails ==
  /\ "device" \in Faults
  /\ outcome' = "failed"
  /\ UNCHANGED <<app, timer>>

ApplyState ==
  /\ pc = "apply"
  /\ ApplyNothing \/ ApplyApp \/ AppFails \/ DeviceFails
  /\ pc' = "finish"
  /\ UNCHANGED <<mode, store, job, running, pending, persisted, target, fired,
                 client, asleep, bootDue, crashes, history>>

Finish ==
  /\ pc = "finish"
  /\ store' \in Updates(store, running, outcome)
  /\ pc' = "drain" /\ last' = running /\ outcome' = "failed"
  /\ UNCHANGED <<mode, job, running, pending, dpvars, client, asleep,
                 bootDue, crashes, newest>>

(* Bug: the worker moves on without notify_all.                            *)
DrainSilently ==
  /\ pc = "drain"
  /\ running' = pending /\ pending' = NoRequest
  /\ pc' = IF pending = NoRequest THEN "none" ELSE "begin"
  /\ UNCHANGED <<mode, store, job, outcome, dpvars, client, asleep, bootDue,
                 crashes, history>>

Drain ==
  /\ pc = "drain"
  /\ asleep' = {}
  /\ running' = pending /\ pending' = NoRequest
  /\ pc' = IF pending = NoRequest THEN "none" ELSE "begin"
  /\ UNCHANGED <<mode, store, job, outcome, dpvars, client, bootDue, crashes, history>>

Worker == Begin \/ RefuseState \/ SaveState \/ ApplyState \/ Finish \/ Drain
-----------------------------------------------------------------------------
(* The process dies. What was in memory is lost: the next process loads    *)
(* the result files. Calls waiting inside it return an error; a client in  *)
(* WaitApply calls again, one whose submission was still blocked fails.    *)
Crash ==
  /\ mode # "down" /\ crashes < MaxCrashes
  /\ mode' = "down" /\ crashes' = crashes + 1
  /\ running' = NoRequest /\ pending' = NoRequest
  /\ pc' = "none" /\ outcome' = "failed"
  /\ target' = NoTarget /\ timer' = FALSE /\ fired' = FALSE
  /\ client' = [c \in Client |-> IF client[c].at = "blocked" THEN Idle ELSE client[c]]
  /\ asleep' = {}
  /\ bootDue' = FALSE
  /\ newest' = NoRequest /\ last' = NoRequest
  /\ store' = Loaded(store)
  /\ UNCHANGED <<job, persisted, app>>

Restart ==
  /\ mode = "down"
  /\ mode' = "recovering"
  /\ UNCHANGED <<store, job, running, pending, pc, outcome, dpvars, client, asleep,
                 bootDue, crashes, history>>

(* fail_interrupted, one record at a time.                                 *)
FailInterrupted(r) ==
  /\ mode = "recovering" /\ store.mem[r] \in Unfinished
  /\ store' \in Updates(store, r, "failed")
  /\ UNCHANGED <<mode, job, running, pending, pc, outcome, dpvars, client,
                 asleep, bootDue, crashes, history>>

Serve ==
  /\ mode = "recovering"
  /\ \A r \in Request : store.mem[r] \notin Unfinished
  /\ mode' = "serving"
  /\ bootDue' = ("boot" \in Triggers)
  /\ UNCHANGED <<store, job, running, pending, pc, outcome, dpvars, client,
                 asleep, crashes, history>>

(* Nobody waits and the bounded supply of requests is used up.             *)
Quiet ==
  /\ mode = "serving" /\ pc = "none" /\ asleep = {}
  /\ \A c \in Client : client[c].at # "waiting"
  /\ \A r \in Request : job[r] # NoJob
  /\ UNCHANGED vars

Next ==
  \/ \E c \in Client : \/ SubmitApply(c) \/ SubmitReconcile(c) \/ RetryMigration(c)
                       \/ SubmitWhenIdle(c) \/ WaitApply(c) \/ GiveUp(c)
  \/ BootSubmit \/ TimerFires \/ TimerSubmits
  \/ Worker
  \/ Crash \/ Restart \/ Serve
  \/ \E r \in Request : FailInterrupted(r)
  \/ Quiet

Spec == Init /\ [][Next]_vars

(* Threads run, subprocess timeouts bound an apply, and systemd restarts   *)
(* the data plane (Restart=always).                                        *)
Fairness ==
  /\ WF_vars(Worker) /\ WF_vars(Restart) /\ WF_vars(Serve)
  /\ \A r \in Request : WF_vars(FailInterrupted(r))
  /\ \A c \in Client : WF_vars(WaitApply(c))

FairSpec == Spec /\ Fairness
-----------------------------------------------------------------------------
(* A live request is never lost and a finished one is never run again: the *)
(* records still queued or running are those of the job that owns the      *)
(* worker and of the pending job, each in the status its place calls for   *)
(* (_submit_apply_job and _apply_job_worker keep the record, the two slots *)
(* and the thread in step although they change them at different times and *)
(* under different locks). The one exception is the record of an apply     *)
(* whose submission failed on a state that could not be read: it has no    *)
(* place and stays queued until the data plane restarts.                   *)
StatusAt(place) ==
  CASE place = "begin" -> {"queued"}
    [] place \in {"save", "apply", "finish"} -> {"running"}
    [] place = "drain" -> Terminal \cup {"absent"}
    [] OTHER -> {}

LiveRequestsScheduled ==
  /\ running = NoRequest <=> pc = "none"
  /\ running # NoRequest => store.mem[running] \in StatusAt(pc)
  /\ pending # NoRequest => /\ running # NoRequest /\ pending # running
                            /\ store.mem[pending] = "queued"
  /\ mode = "serving" =>
       \A r \in Request :
         store.mem[r] \in Unfinished => r \in {running, pending} \/ Stranded(r)

(* Every record that is created is enqueued: "Persist and enqueue one      *)
(* apply" (_submit_apply_job).                                             *)
EveryRecordScheduled ==
  mode = "serving" =>
    \A r \in Request : store.mem[r] \in Unfinished => r \in {running, pending}

(* No caller sleeps through the event it waits for: a thread inside        *)
(* _job_condition.wait() waits for a live request, or the worker has still *)
(* to notify it, and a worker exists to do so. No caller waits for a       *)
(* request that was recorded and never scheduled.                          *)
NoLostWakeup ==
  /\ \A c \in asleep :
       /\ running # NoRequest
       /\ client[c].at = "waiting" =>
            store.mem[client[c].req] \in Unfinished \/ pc = "drain"
  /\ \A c \in Client : client[c].at = "waiting" => ~Stranded(client[c].req)

(* Once the newest apply has been carried out, a request that ends as      *)
(* "succeeded" leaves the saved app generation running: supersession of    *)
(* app work (_is_current_app_superseded) never makes a success hollow for  *)
(* good.                                                                   *)
SuccessMeansDeployed ==
  (/\ pc = "none" /\ last # NoRequest /\ persisted # NoState
   /\ store.mem[last] = "succeeded"
   /\ newest # NoRequest => job[newest].state = persisted)
  => app = Generation[persisted]

(* The newest pending payload is queued and drained (docs/desired-state.md, *)
(* Concurrency and boot reconciliation): when the worker is idle, the      *)
(* newest accepted desired state has not been thrown away.                 *)
NewestPayloadDrained ==
  (mode = "serving" /\ pc = "none" /\ newest # NoRequest)
  => store.mem[newest] # "superseded"

(* SubmitReconcile re-applies the persisted desired state                  *)
(* (io.reefy.Reconciler.varlink): a reconcile that succeeded leaves the    *)
(* app generation of that state running.                                   *)
ReconcileReapplies ==
  (/\ pc = "none" /\ last # NoRequest /\ persisted # NoState
   /\ job[last].kind = "reconcile" /\ store.mem[last] = "succeeded")
  => app = Generation[persisted]

(* When result files can be written, a finished result is final: no crash, *)
(* restart or later request turns it into another one, it can only leave   *)
(* the bounded history.                                                    *)
FinishedIsFinal ==
  [][\A r \in Request : store.mem[r] \in Terminal =>
       store'.mem[r] \in {store.mem[r], "absent"}]_vars

(* The history keeps the newest results: a finished record leaves it only  *)
(* when TerminalLimit requests finished later are still in it, so the      *)
(* request that has just finished is always found by its waiter.           *)
HistoryKeepsNewest ==
  [][\A r \in Request :
       (store.mem[r] # "absent" /\ store'.mem[r] = "absent") =>
         /\ store.mem[r] \in Terminal
         /\ Cardinality({q \in Request : /\ store'.mem[q] \in Terminal
                                         /\ store'.time[q] > store.time[r]})
              = TerminalLimit]_vars

(* Every submitter that waits for its result is answered.                  *)
EveryWaitAnswered ==
  \A c \in Client : client[c].at = "waiting" ~> client[c].at = "idle"

(* Every accepted request ends.                                            *)
EveryRequestEnds ==
  \A r \in Request :
    (store.mem[r] \in Unfinished /\ ~Stranded(r)) ~> store.mem[r] \notin Unfinished

(* The scheduler keeps the contract of the Varlink interface.              *)
QStatus ==
  [r \in Request |-> IF store.mem[r] # "absent" THEN store.mem[r]
                     ELSE IF job[r] = NoJob THEN "new" ELSE "forgotten"]

Q == INSTANCE ApplyQueue WITH serving <- mode = "serving", status <- QStatus,
                              head <- running, next <- pending

ImplementsQueue == Q!QSpec
=============================================================================
