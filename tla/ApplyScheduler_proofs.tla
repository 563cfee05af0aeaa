----------------------- MODULE ApplyScheduler_proofs -----------------------
(***************************************************************************)
(* Proofs about the apply scheduler, for every set of requests, states and *)
(* clients, every bound on the history, every fault and any number of      *)
(* crashes.                                                                *)
(***************************************************************************)
EXTENDS ApplyScheduler, TLAPS

-----------------------------------------------------------------------------
(* The result store. All that matters of a prune is that it drops finished *)
(* records only.                                                           *)

LEMMA StatusFacts ==
  /\ Terminal \cap Unfinished = {}
  /\ "absent" \notin Terminal \cup Unfinished
  /\ Terminal \cup Unfinished \cup {"absent"} = RecordStatus
  /\ "queued" \in Unfinished /\ "running" \in Unfinished
  /\ "queued" \notin Terminal /\ "running" \notin Terminal /\ "absent" \notin Terminal
  /\ {"succeeded", "succeeded_with_warnings", "failed", "superseded"} = Terminal
BY DEF Terminal, Unfinished, RecordStatus

LEMMA CreatedStore ==
  ASSUME NEW st \in Store, NEW r \in Request
  PROVE  /\ Created(st, r) \in Store
         /\ Created(st, r).mem  = [st.mem EXCEPT ![r] = "queued"]
         /\ Created(st, r).disk = [st.disk EXCEPT ![r] = "queued"]
BY StatusFacts DEF Created, Store

LEMMA RecordedStore ==
  ASSUME NEW st \in Store, NEW r \in Request, NEW s \in RecordStatus,
         NEW ok \in BOOLEAN
  PROVE  /\ Recorded(st, r, s, ok) \in Store
         /\ Recorded(st, r, s, ok).mem = [st.mem EXCEPT ![r] = s]
         /\ Recorded(st, r, s, ok).disk =
              [st.disk EXCEPT ![r] = IF ok THEN s ELSE st.disk[r]]
BY DEF Recorded, Store

LEMMA PrunedStore ==
  ASSUME NEW st \in Store, NEW left
  PROVE  /\ Pruned(st, left) \in Store
         /\ \A q \in Request :
              /\ \/ Pruned(st, left).mem[q] = st.mem[q]
                 \/ st.mem[q] \in Terminal /\ Pruned(st, left).mem[q] = "absent"
              /\ \/ Pruned(st, left).disk[q] = st.disk[q]
                 \/ Pruned(st, left).disk[q] = "absent"
<1>1. PICK gone \in SUBSET {q \in Request : st.mem[q] \in Terminal} : gone = Excess(st)
  BY DEF Excess
<1>2. Pruned(st, left) =
        [st EXCEPT !.mem = Without(@, gone), !.disk = Without(@, gone \ left)]
  BY <1>1 DEF Pruned
<1>3. \A f \in [Request -> RecordStatus] :
        /\ Without(f, gone) \in [Request -> RecordStatus]
        /\ Without(f, gone \ left) \in [Request -> RecordStatus]
  BY StatusFacts DEF Without
<1>4. Pruned(st, left) \in Store
  BY <1>2, <1>3 DEF Store
<1>5. /\ Pruned(st, left).mem = Without(st.mem, gone)
      /\ Pruned(st, left).disk = Without(st.disk, gone \ left)
  BY <1>2 DEF Store
<1>6. QED
  BY <1>1, <1>4, <1>5 DEF Without

(* A finished record settles its own request and touches others only by    *)
(* pruning them.                                                           *)
LEMMA FinishedStore ==
  ASSUME NEW st \in Store, NEW r \in Request, NEW s \in Terminal,
         NEW ok \in BOOLEAN, NEW left
  PROVE  /\ Finished(st, r, s, ok, left) \in Store
         /\ Finished(st, r, s, ok, left).mem[r] \in {s, "absent"}
         /\ \A q \in Request \ {r} :
              \/ Finished(st, r, s, ok, left).mem[q] = st.mem[q]
              \/ st.mem[q] \in Terminal /\ Finished(st, r, s, ok, left).mem[q] = "absent"
         /\ \A q \in Request \ {r} :
              st.disk[q] = "absent" => Finished(st, r, s, ok, left).disk[q] = "absent"
<1> DEFINE rec == Recorded(st, r, s, ok)
           st2 == [rec EXCEPT !.time[r] = st.now + 1, !.now = @ + 1]
<1>1. s \in RecordStatus
  BY StatusFacts
<1>2. /\ rec \in Store
      /\ rec.mem = [st.mem EXCEPT ![r] = s]
      /\ rec.disk = [st.disk EXCEPT ![r] = IF ok THEN s ELSE st.disk[r]]
  BY <1>1, RecordedStore
<1> HIDE DEF rec
<1>3. st2 \in Store /\ st2.mem = rec.mem /\ st2.disk = rec.disk
  <2>1. st.now + 1 \in Nat /\ rec.now + 1 \in Nat
    BY <1>2 DEF Store
  <2>2. QED
    BY <1>2, <2>1 DEF Store
<1>4. Finished(st, r, s, ok, left) = Pruned(st2, left)
  BY DEF Finished, rec
<1> HIDE DEF st2
<1>5. QED
  BY <1>2, <1>3, <1>4, PrunedStore DEF Store

(* What an update leaves behind, whether or not its file was written.      *)
Ended(st, new, r, s) ==
  /\ new \in Store
  /\ new.mem[r] \in {s, "absent"}
  /\ \A q \in Request \ {r} : \/ new.mem[q] = st.mem[q]
                              \/ st.mem[q] \in Terminal /\ new.mem[q] = "absent"
  /\ \A q \in Request \ {r} : st.disk[q] = "absent" => new.disk[q] = "absent"

Begun(st, new, r, s) ==
  /\ new \in Store
  /\ new.mem = [st.mem EXCEPT ![r] = s]
  /\ \A q \in Request \ {r} : new.disk[q] = st.disk[q]

Update(st, new, r, s) ==
  \E ok \in BOOLEAN, left \in SUBSET Request : new = Updated(st, r, s, ok, left)

LEMMA UpdatesUpdate ==
  ASSUME NEW st, NEW r, NEW s, NEW new \in Updates(st, r, s)
  PROVE  Update(st, new, r, s)
<1>1. PICK ok \in Succeeded("write"), left \in Leftovers : new = Updated(st, r, s, ok, left)
  BY DEF Updates
<1>2. ok \in BOOLEAN /\ left \in SUBSET Request
  BY DEF Succeeded, Leftovers
<1>3. QED
  BY <1>1, <1>2 DEF Update

LEMMA UpdateEnds ==
  ASSUME NEW st \in Store, NEW new, NEW r \in Request, NEW s \in Terminal,
         st.mem[r] # "absent", Update(st, new, r, s)
  PROVE  Ended(st, new, r, s)
<1>1. PICK ok \in BOOLEAN, left \in SUBSET Request :
        new = Updated(st, r, s, ok, left)
  BY DEF Update
<1>2. new = Finished(st, r, s, ok, left)
  BY <1>1 DEF Updated
<1>3. /\ Finished(st, r, s, ok, left) \in Store
      /\ Finished(st, r, s, ok, left).mem[r] \in {s, "absent"}
      /\ \A q \in Request \ {r} :
           \/ Finished(st, r, s, ok, left).mem[q] = st.mem[q]
           \/ st.mem[q] \in Terminal /\ Finished(st, r, s, ok, left).mem[q] = "absent"
      /\ \A q \in Request \ {r} :
           st.disk[q] = "absent" => Finished(st, r, s, ok, left).disk[q] = "absent"
  BY FinishedStore
<1>4. QED
  BY <1>2, <1>3 DEF Ended

LEMMA UpdateBegins ==
  ASSUME NEW st \in Store, NEW new, NEW r \in Request, NEW s \in Unfinished,
         st.mem[r] # "absent", Update(st, new, r, s)
  PROVE  Begun(st, new, r, s)
<1>1. PICK ok \in BOOLEAN, left \in SUBSET Request :
        new = Updated(st, r, s, ok, left)
  BY DEF Update
<1>2. s \in RecordStatus /\ s \notin Terminal
  BY StatusFacts
<1>3. new = Recorded(st, r, s, ok)
  BY <1>1, <1>2 DEF Updated
<1>4. /\ Recorded(st, r, s, ok) \in Store
      /\ Recorded(st, r, s, ok).mem = [st.mem EXCEPT ![r] = s]
      /\ Recorded(st, r, s, ok).disk =
           [st.disk EXCEPT ![r] = IF ok THEN s ELSE st.disk[r]]
  BY <1>2, RecordedStore
<1>5. QED
  BY <1>3, <1>4 DEF Begun, Store

-----------------------------------------------------------------------------
(* The inductive invariant. LiveRequestsScheduled says where the live      *)
(* records are; to keep it one must know that an unused identifier has no  *)
(* record, that a process that is down holds no job, and what the two job  *)
(* slots may refer to. NoLostWakeup needs that only callers sleep.         *)

FreshUnused ==
  \A r \in Request : job[r] = NoJob =>
    store.mem[r] = "absent" /\ store.disk[r] = "absent"

JobsTyped ==
  /\ \A r \in Request : job[r].kind = "apply" => job[r].state \in State
  /\ pc = "save" => job[running].kind = "apply"
  /\ running # NoRequest => job[running] # NoJob /\ ~Stranded(running)
  /\ pending # NoRequest => job[pending] # NoJob /\ ~Stranded(pending)

HoldsNothingDown ==
  mode # "serving" =>
    running = NoRequest /\ asleep = {} /\ ~timer /\ ~fired /\ ~bootDue

OnlyCallersSleep ==
  /\ \A c \in asleep : client[c] # Idle
  /\ \A c \in Client : client[c].at = "waiting" =>
       client[c].req \in Request /\ job[client[c].req] # NoJob

Inv == /\ TypeOK /\ LiveRequestsScheduled /\ NoLostWakeup
       /\ FreshUnused /\ JobsTyped /\ HoldsNothingDown /\ OnlyCallersSleep

LEMMA InitInv == Init => Inv
<1> SUFFICES ASSUME Init PROVE Inv
  OBVIOUS
<1>1. EmptyStore \in Store /\ EmptyStore.mem = [r \in Request |-> "absent"]
      /\ EmptyStore.disk = [r \in Request |-> "absent"]
  BY StatusFacts DEF EmptyStore, Store
<1>2. TypeOK
  <2>1. bootDue \in BOOLEAN
    BY DEF Init
  <2>2. job \in [Request -> Job] /\ pc \in WorkerPC
    BY DEF Init, NoJob, Job, WorkerPC
  <2>3. /\ client \in [Client -> [at : {"idle", "blocked", "waiting"},
                                  req : Request \cup {NoRequest}]]
        /\ asleep \subseteq Client
    BY DEF Init, Idle
  <2>4. QED
    BY <1>1, <2>1, <2>2, <2>3, SchedulerAssumption, StatusFacts DEF Init, TypeOK
<1>3. QED
  BY <1>1, <1>2, SchedulerAssumption, StatusFacts
  DEF Init, Inv, LiveRequestsScheduled, NoLostWakeup, FreshUnused, JobsTyped,
      HoldsNothingDown, OnlyCallersSleep, NoJob, Idle

-----------------------------------------------------------------------------
(* What every submission keeps, whoever makes it.                          *)
ScheduleTyped ==
  /\ store \in Store
  /\ job \in [Request -> Job]
  /\ running \in Request \cup {NoRequest}
  /\ pending \in Request \cup {NoRequest}
  /\ pc \in WorkerPC
  /\ target \in AppGeneration \cup {NoTarget}
  /\ newest \in Request \cup {NoRequest}
  /\ last \in Request \cup {NoRequest}


LEMMA NewJob ==
  ASSUME TypeOK, JobsTyped, NEW r \in Request, job[r] = NoJob,
         NEW kind \in {"apply", "reconcile"}, NEW s \in State \cup {NoState},
         kind = "apply" => s \in State,
         job' = [job EXCEPT ![r] = [kind |-> kind, state |-> s]]
  PROVE  /\ job' \in [Request -> Job]
         /\ \A q \in Request : job'[q].kind = "apply" => job'[q].state \in State
         /\ \A q \in Request : job'[q] = NoJob => job[q] = NoJob /\ q # r
         /\ \A q \in Request : job[q].kind = "apply" => job'[q].kind = "apply"
         /\ \A q \in Request \ {r} : job'[q] = job[q]
         /\ job'[r] # NoJob /\ job'[r].kind = kind /\ job'[r].state = s
<1>1. [kind |-> kind, state |-> s] \in Job
  BY DEF Job
<1>2. job \in [Request -> Job] /\ \A q \in Request : job[q].kind = "apply" => job[q].state \in State
  BY DEF TypeOK, JobsTyped
<1>3. QED
  BY <1>1, <1>2 DEF NoJob

EndedStays ==
  \A r \in Request : store.mem[r] \in Terminal =>
    store'.mem[r] \in {store.mem[r], "absent"}

LEMMA SubmitKeeps ==
  ASSUME Inv, mode = "serving", mode' = mode,
         NEW kind \in {"apply", "reconcile"}, NEW s \in State \cup {NoState},
         kind = "apply" => s \in State,
         NEW reply \in Request \cup {NoRequest},
         Submit(kind, s, reply)
  PROVE  /\ ScheduleTyped' /\ LiveRequestsScheduled' /\ FreshUnused' /\ JobsTyped'
         /\ \/ asleep' = {}
            \/ /\ UNCHANGED <<asleep, running, pc>>
               /\ \A q \in Request : job[q] # NoJob => store'.mem[q] = store.mem[q]
         /\ EndedStays
         /\ \A q \in Request : job[q] # NoJob => job'[q] = job[q]
         /\ reply # NoRequest => job'[reply] # NoJob /\ ~Stranded(reply)'
<1> USE DEF Inv
<1>0. ScheduleTyped
  BY DEF TypeOK, ScheduleTyped
<1>1. CASE Join(reply) /\ QueueTail # NoRequest
  BY <1>0, <1>1 DEF Join, EndedStays, QueueTail, ScheduleTyped, LiveRequestsScheduled, FreshUnused,
     JobsTyped, StatusAt, Stranded
<1>2. CASE Reject(reply)
  BY <1>0, <1>2 DEF Reject, EndedStays, ScheduleTyped, LiveRequestsScheduled, FreshUnused,
     JobsTyped, StatusAt, history, Stranded
<1>3. ASSUME NEW r \in Request, Enqueue(kind, s, r)
      PROVE  /\ job[r] = NoJob /\ store.mem[r] = "absent" /\ store.disk[r] = "absent"
             /\ job' \in [Request -> Job]
             /\ \A q \in Request : job'[q].kind = "apply" => job'[q].state \in State
             /\ \A q \in Request : job'[q] = NoJob => job[q] = NoJob /\ q # r
             /\ \A q \in Request : job[q].kind = "apply" => job'[q].kind = "apply"
             /\ target' \in AppGeneration \cup {NoTarget}
             /\ newest' \in Request \cup {NoRequest}
             /\ last' \in Request \cup {NoRequest}
             /\ asleep' = {}
             /\ \A q \in Request \ {r} : job'[q] = job[q]
             /\ job'[r] # NoJob /\ ~Stranded(r)'
  <2>1. job[r] = NoJob /\ s \notin Unreadable /\ store.mem[r] = "absent" /\ store.disk[r] = "absent"
    BY <1>3 DEF Enqueue, FreshUnused
  <2>2. s \in State => Generation[s] \in AppGeneration
    BY DEF AppGeneration
  <2>3. target' \in AppGeneration \cup {NoTarget} /\ newest' \in Request \cup {NoRequest}
        /\ last' \in Request \cup {NoRequest} /\ asleep' = {}
        /\ job' = [job EXCEPT ![r] = [kind |-> kind, state |-> s]]
    BY <1>0, <1>3, <2>2 DEF Enqueue, ScheduleTyped
  <2>4. QED
    BY <2>1, <2>3, NewJob DEF Stranded
<1>4. ASSUME NEW r \in Request, StartWorker(kind, s, r, reply)
      PROVE  ScheduleTyped' /\ LiveRequestsScheduled' /\ FreshUnused' /\ JobsTyped'
             /\ asleep' = {} /\ EndedStays /\ reply \in {r, NoRequest}
             /\ Enqueue(kind, s, r)
  <2>1. Enqueue(kind, s, r)
    BY <1>4 DEF StartWorker
  <2>2. /\ store' \in Store
        /\ store'.mem = [store.mem EXCEPT ![r] = "queued"]
        /\ store'.disk = [store.disk EXCEPT ![r] = "queued"]
    BY <1>0, <1>4, CreatedStore DEF StartWorker, ScheduleTyped
  <2>3. running = NoRequest /\ running' = r /\ pc' = "begin" /\ pending' = pending
    BY <1>4 DEF StartWorker
  <2>4. ScheduleTyped'
    BY <1>0, <1>3, <2>1, <2>2, <2>3 DEF ScheduleTyped, WorkerPC
  <2>5. QED
    BY <1>0, <1>3, <1>4, <2>1, <2>2, <2>3, <2>4, SchedulerAssumption, StatusFacts
    DEF ScheduleTyped, LiveRequestsScheduled, FreshUnused, JobsTyped, StatusAt, Store, EndedStays,
        StartWorker, Stranded
<1>5. ASSUME NEW r \in Request, CannotStart(kind, s, r, reply)
      PROVE  ScheduleTyped' /\ LiveRequestsScheduled' /\ FreshUnused' /\ JobsTyped'
             /\ asleep' = {} /\ EndedStays /\ reply \in {r, NoRequest}
             /\ Enqueue(kind, s, r)
  <2>1. Enqueue(kind, s, r)
    BY <1>5 DEF CannotStart
  <2>2. Update(Created(store, r), store', r, "failed")
    BY <1>5, UpdatesUpdate DEF CannotStart
  <2>3. /\ Created(store, r) \in Store
        /\ Created(store, r).mem = [store.mem EXCEPT ![r] = "queued"]
        /\ Created(store, r).disk = [store.disk EXCEPT ![r] = "queued"]
    BY <1>0, CreatedStore DEF ScheduleTyped
  <2>4. "failed" \in Terminal /\ Created(store, r).mem[r] # "absent"
    BY <1>0, <2>3, StatusFacts DEF ScheduleTyped, Store
  <2>5. Ended(store, store', r, "failed")
    <3>1. Ended(Created(store, r), store', r, "failed")
      BY <2>2, <2>3, <2>4, UpdateEnds
    <3>2. QED
      BY <1>0, <2>3, <3>1 DEF Ended, ScheduleTyped, Store
  <2>6. UNCHANGED <<running, pending, pc>>
    BY <1>5 DEF CannotStart
  <2>7. ScheduleTyped'
    BY <1>0, <1>3, <2>1, <2>5, <2>6 DEF Ended, ScheduleTyped
  <2>8. QED
    BY <1>0, <1>3, <1>5, <2>1, <2>5, <2>6, <2>7, SchedulerAssumption, StatusFacts
    DEF CannotStart, Ended, ScheduleTyped, LiveRequestsScheduled, FreshUnused, JobsTyped, StatusAt,
        EndedStays, Stranded
<1>6. ASSUME NEW r \in Request, ReplacePending(kind, s, r, reply)
      PROVE  ScheduleTyped' /\ LiveRequestsScheduled' /\ FreshUnused' /\ JobsTyped'
             /\ asleep' = {} /\ EndedStays /\ reply \in {r, NoRequest}
             /\ Enqueue(kind, s, r)
  <2>1. Enqueue(kind, s, r) /\ running # NoRequest /\ pending' = r /\ reply = r
        /\ UNCHANGED <<running, pc>>
    BY <1>6 DEF ReplacePending
  <2>2. /\ Created(store, r) \in Store
        /\ Created(store, r).mem = [store.mem EXCEPT ![r] = "queued"]
        /\ Created(store, r).disk = [store.disk EXCEPT ![r] = "queued"]
    BY <1>0, CreatedStore DEF ScheduleTyped
  <2>3. r # running /\ r # pending /\ pending # running
    BY <1>0, <1>3, <2>1, SchedulerAssumption DEF JobsTyped, LiveRequestsScheduled, ScheduleTyped
  <2>4. /\ store' \in Store
        /\ store'.mem[r] = "queued"
        /\ \A q \in Request \ {r, pending} :
             \/ store'.mem[q] = store.mem[q]
             \/ store.mem[q] \in Terminal /\ store'.mem[q] = "absent"
        /\ pending # NoRequest => store'.mem[pending] \notin Unfinished
        /\ \A q \in Request \ {r, pending} :
             store.disk[q] = "absent" => store'.disk[q] = "absent"
    <3>1. CASE pending = NoRequest
      BY <1>0, <1>6, <2>2, <3>1, SchedulerAssumption DEF ReplacePending, ScheduleTyped, Store
    <3>2. CASE pending # NoRequest
      <4>1. pending \in Request /\ store.mem[pending] = "queued"
        BY <1>0, <3>2 DEF LiveRequestsScheduled, ScheduleTyped
      <4>2. Update(Created(store, r), store', pending, "superseded")
        BY <1>6, <3>2, UpdatesUpdate DEF ReplacePending
      <4>3. "superseded" \in Terminal /\ Created(store, r).mem[pending] # "absent"
        BY <1>0, <2>2, <2>3, <4>1, StatusFacts DEF ScheduleTyped, Store
      <4>4. Ended(Created(store, r), store', pending, "superseded")
        BY <2>2, <4>1, <4>2, <4>3, UpdateEnds
      <4>5. QED
        BY <1>0, <2>2, <2>3, <4>1, <4>4, StatusFacts DEF Ended, ScheduleTyped, Store
    <3>3. QED
      BY <3>1, <3>2
  <2>5. ScheduleTyped'
    BY <1>0, <1>3, <2>1, <2>4 DEF ScheduleTyped
  <2>6. running' \in Request /\ store'.mem[running] \in StatusAt(pc)
    BY <1>0, <2>1, <2>3, <2>4, StatusFacts DEF LiveRequestsScheduled, ScheduleTyped, StatusAt
  <2>7. LiveRequestsScheduled'
    <3>1. ASSUME NEW q \in Request, store'.mem[q] \in Unfinished
          PROVE  q \in {running, r} \/ Stranded(q)'
      <4>1. q # pending
        BY <2>4, <3>1, SchedulerAssumption
      <4>2. CASE q # r
        <5>1. store.mem[q] \in Unfinished
          BY <2>4, <3>1, <4>1, <4>2, StatusFacts
        <5>2. q = running \/ Stranded(q)
          BY <4>1, <5>1 DEF LiveRequestsScheduled
        <5>3. job'[q] = job[q]
          BY <1>3, <2>1, <4>2
        <5>4. QED
          BY <5>2, <5>3 DEF Stranded
      <4>3. QED
        BY <4>2
    <3>2. running = NoRequest <=> pc = "none"
      BY DEF LiveRequestsScheduled
    <3>3. \A q \in Request : store'.mem[q] \in Unfinished => q \in {running, r} \/ Stranded(q)'
      BY <3>1
    <3>4. QED
      BY <2>1, <2>3, <2>4, <2>6, <3>2, <3>3 DEF LiveRequestsScheduled, Stranded
  <2>8. FreshUnused' /\ JobsTyped'
    <3>1. FreshUnused'
      <4> SUFFICES ASSUME NEW q \in Request, job'[q] = NoJob
                   PROVE  store'.mem[q] = "absent" /\ store'.disk[q] = "absent"
        BY DEF FreshUnused
      <4>1. job[q] = NoJob /\ q # r
        BY <1>3, <2>1
      <4>2. q # pending /\ store.mem[q] = "absent" /\ store.disk[q] = "absent"
        BY <4>1, SchedulerAssumption DEF FreshUnused, JobsTyped
      <4>3. QED
        BY <2>4, <4>1, <4>2
    <3>2. job'[r] # NoJob /\ ~Stranded(r)' /\ job'[running] = job[running]
      BY <1>0, <1>3, <2>1, <2>3 DEF ScheduleTyped
    <3>3. JobsTyped'
      BY <1>0, <1>3, <2>1, <2>3, <3>2 DEF JobsTyped, Stranded
    <3>4. QED
      BY <3>1, <3>3
  <2>9. EndedStays
    BY <1>0, <1>3, <2>1, <2>3, <2>4, SchedulerAssumption, StatusFacts
    DEF EndedStays, LiveRequestsScheduled, ScheduleTyped
  <2>10. QED
    BY <1>3, <2>1, <2>5, <2>7, <2>8, <2>9
<1>7. ASSUME NEW r \in Request, Strand(kind, s, r, reply)
      PROVE  /\ ScheduleTyped' /\ LiveRequestsScheduled' /\ FreshUnused' /\ JobsTyped'
             /\ UNCHANGED <<asleep, running, pc>> /\ EndedStays
             /\ \A q \in Request : job[q] # NoJob =>
                  store'.mem[q] = store.mem[q] /\ job'[q] = job[q]
  <2>1. /\ job[r] = NoJob /\ s \in Unreadable /\ kind = "apply"
        /\ job' = [job EXCEPT ![r] = [kind |-> kind, state |-> s]]
        /\ UNCHANGED <<running, pending, pc, asleep, target, newest, last>>
        /\ store.mem[r] = "absent" /\ store.disk[r] = "absent"
    BY <1>7 DEF Strand, FreshUnused, history
  <2>2. /\ store' \in Store
        /\ store'.mem = [store.mem EXCEPT ![r] = "queued"]
        /\ store'.disk = [store.disk EXCEPT ![r] = "queued"]
    BY <1>0, <1>7, CreatedStore DEF Strand, ScheduleTyped
  <2>3. /\ job' \in [Request -> Job]
        /\ \A q \in Request : job'[q].kind = "apply" => job'[q].state \in State
        /\ \A q \in Request \ {r} : job'[q] = job[q]
        /\ job'[r] # NoJob /\ Stranded(r)'
    BY <2>1, NewJob DEF Stranded
  <2>4. /\ \A q \in Request \ {r} : store'.mem[q] = store.mem[q] /\ store'.disk[q] = store.disk[q]
        /\ running # r /\ pending # r
    BY <1>0, <2>1, <2>2, SchedulerAssumption DEF ScheduleTyped, Store, JobsTyped
  <2>5. ScheduleTyped'
    BY <1>0, <2>1, <2>2, <2>3 DEF ScheduleTyped
  <2>6. LiveRequestsScheduled'
    BY <1>0, <2>1, <2>3, <2>4, SchedulerAssumption
    DEF LiveRequestsScheduled, ScheduleTyped, StatusAt, Stranded
  <2>7. FreshUnused' /\ EndedStays
    BY <2>1, <2>3, <2>4, StatusFacts DEF FreshUnused, EndedStays
  <2>8. JobsTyped'
    BY <1>0, <2>1, <2>3, <2>4, SchedulerAssumption DEF JobsTyped, ScheduleTyped, Stranded
  <2>9. QED
    BY <2>1, <2>3, <2>4, <2>5, <2>6, <2>7, <2>8
<1>8. ASSUME NEW r \in Request, Enqueue(kind, s, r), reply \in {r, NoRequest}
      PROVE  /\ \A q \in Request : job[q] # NoJob => job'[q] = job[q]
             /\ reply # NoRequest => job'[reply] # NoJob /\ ~Stranded(reply)'
  BY <1>3, <1>8 DEF Enqueue
<1>9. CASE Joins(kind, s)
  <2>1. Join(reply) /\ QueueTail # NoRequest
    BY <1>9 DEF Submit, Joins
  <2>2. job' = job /\ reply = QueueTail
    BY <2>1 DEF Join
  <2>3. job[QueueTail] # NoJob /\ ~Stranded(QueueTail)
    BY <2>1 DEF QueueTail, JobsTyped
  <2>4. QED
    BY <1>1, <2>1, <2>2, <2>3 DEF Join, Stranded
<1>10. CASE Reject(reply)
  BY <1>2, <1>10, SchedulerAssumption DEF Reject
<1>11. CASE \E r \in Request : \/ StartWorker(kind, s, r, reply)
                               \/ CannotStart(kind, s, r, reply)
                               \/ ReplacePending(kind, s, r, reply)
  BY <1>4, <1>5, <1>6, <1>8, <1>11
<1>12. CASE \E r \in Request : Strand(kind, s, r, reply)
  BY <1>7, <1>12 DEF Strand
<1>13. QED
  BY <1>9, <1>10, <1>11, <1>12 DEF Submit

(* A submission keeps the whole invariant when the only client that moves  *)
(* is the awake one that made it.                                          *)
ClientState == [at : {"idle", "blocked", "waiting"}, req : Request \cup {NoRequest}]

LEMMA SubmitStep ==
  ASSUME Inv, mode = "serving", mode' = mode,
         NEW kind \in {"apply", "reconcile"}, NEW s \in State \cup {NoState},
         kind = "apply" => s \in State,
         NEW reply \in Request \cup {NoRequest},
         Submit(kind, s, reply),
         client' \in [Client -> ClientState],
         \A d \in Client : \/ client'[d] = client[d]
                           \/ d \notin asleep /\ client'[d] = Waits(reply),
         UNCHANGED <<outcome, persisted, app, timer, crashes>>,
         fired' \in BOOLEAN, bootDue' \in BOOLEAN
  PROVE  Inv'
<1>1. ScheduleTyped' /\ LiveRequestsScheduled' /\ FreshUnused' /\ JobsTyped'
  BY SubmitKeeps
<1>2. \/ asleep' = {}
      \/ /\ UNCHANGED <<asleep, running, pc>>
         /\ \A q \in Request : job[q] # NoJob => store'.mem[q] = store.mem[q]
  BY SubmitKeeps
<1>k. /\ \A q \in Request : job[q] # NoJob => job'[q] = job[q]
      /\ reply # NoRequest => job'[reply] # NoJob /\ ~Stranded(reply)'
  BY SubmitKeeps
<1>3. TypeOK'
  BY <1>1, <1>2 DEF Inv, TypeOK, ScheduleTyped, ClientState
<1>4. NoLostWakeup'
  <2>1. \A c \in asleep' :
          /\ running' # NoRequest
          /\ client'[c].at = "waiting" =>
               store'.mem[client'[c].req] \in Unfinished \/ pc' = "drain"
    <3>1. CASE asleep' = {}
      BY <3>1
    <3>2. CASE /\ UNCHANGED <<asleep, running, pc>>
               /\ \A q \in Request : job[q] # NoJob => store'.mem[q] = store.mem[q]
      <4> SUFFICES ASSUME NEW c \in asleep
                   PROVE  /\ running # NoRequest
                          /\ client[c].at = "waiting" =>
                               store'.mem[client[c].req] \in Unfinished \/ pc = "drain"
                          /\ client'[c] = client[c]
        BY <3>2
      <4>1. c \in Client
        BY DEF Inv, TypeOK
      <4>2. QED
        BY <3>2, <4>1 DEF Inv, NoLostWakeup, OnlyCallersSleep
    <3>3. QED
      BY <1>2, <3>1, <3>2
  <2>2. \A c \in Client : client'[c].at = "waiting" =>
          ~(job'[client'[c].req].kind = "apply" /\ job'[client'[c].req].state \in Unreadable)
    BY <1>k DEF Inv, NoLostWakeup, OnlyCallersSleep, Stranded, Waits, Idle
  <2>3. QED
    BY <2>1, <2>2 DEF NoLostWakeup, Stranded
<1>5. OnlyCallersSleep'
  <2>1. \A c \in asleep' : c \in asleep /\ c \in Client
    BY <1>2 DEF Inv, TypeOK
  <2>2. \A c \in Client : client'[c].at = "waiting" =>
          client'[c].req \in Request /\ job'[client'[c].req] # NoJob
    BY <1>k, SchedulerAssumption DEF Inv, OnlyCallersSleep, Waits, Idle
  <2>3. QED
    BY <2>1, <2>2 DEF Inv, OnlyCallersSleep
<1>6. HoldsNothingDown'
  BY DEF HoldsNothingDown
<1>7. QED
  BY <1>1, <1>3, <1>4, <1>5, <1>6 DEF Inv

LEMMA ReplyTyped ==
  ASSUME TypeOK, NEW c \in Client, NEW reply \in Request \cup {NoRequest},
         client' = [client EXCEPT ![c] = Waits(reply)]
  PROVE  /\ client' \in [Client -> ClientState]
         /\ client'[c] = Waits(reply)
         /\ \A d \in Client \ {c} : client'[d] = client[d]
<1>1. Waits(reply) \in ClientState
  BY DEF Waits, Idle, ClientState
<1>2. client \in [Client -> ClientState]
  BY DEF TypeOK, ClientState
<1>3. QED
  BY <1>1, <1>2

LEMMA Awake == ASSUME Inv, NEW c \in Client, client[c] = Idle PROVE c \notin asleep
BY DEF Inv, OnlyCallersSleep

LEMMA NoStateIsTyped == NoState \in State \cup {NoState}
OBVIOUS

LEMMA CallersSubmit ==
  ASSUME Inv, NEW c,
         \/ c \in Client /\ (SubmitApply(c) \/ SubmitReconcile(c) \/ SubmitWhenIdle(c))
         \/ BootSubmit \/ TimerSubmits
  PROVE  Inv'
<1> USE DEF dpvars
<1>t. TypeOK /\ fired \in BOOLEAN /\ bootDue \in BOOLEAN /\ client \in [Client -> ClientState]
  BY DEF Inv, TypeOK, ClientState
<1>1. CASE c \in Client /\ SubmitApply(c)
  <2>1. PICK s \in State, reply \in Request \cup {NoRequest} :
          Submit("apply", s, reply) /\ client' = [client EXCEPT ![c] = Waits(reply)]
    BY <1>1 DEF SubmitApply
  <2>2. c \notin asleep /\ s \in State \cup {NoState} /\ mode = "serving" /\ mode' = mode
        /\ UNCHANGED <<outcome, persisted, app, timer, crashes, fired, bootDue>>
    BY <1>1, Awake DEF SubmitApply
  <2>3. QED
    BY <1>t, <2>1, <2>2, ReplyTyped, SubmitStep
<1>2. CASE c \in Client /\ SubmitReconcile(c)
  <2>1. PICK reply \in Request \cup {NoRequest} :
          Submit("reconcile", NoState, reply) /\ client' = [client EXCEPT ![c] = Waits(reply)]
    BY <1>2 DEF SubmitReconcile
  <2>2. c \notin asleep /\ mode = "serving" /\ mode' = mode
        /\ UNCHANGED <<outcome, persisted, app, timer, crashes, fired, bootDue>>
    BY <1>2, Awake DEF SubmitReconcile
  <2>3. QED
    BY <1>t, <2>1, <2>2, ReplyTyped, NoStateIsTyped, SubmitStep
<1>3. CASE c \in Client /\ SubmitWhenIdle(c)
  <2>1. CASE running # NoRequest \/ pending # NoRequest
    <3>1. asleep' = asleep \cup {c} /\ client[c].at = "blocked" /\ mode = "serving"
          /\ UNCHANGED <<mode, store, job, running, pending, pc, outcome, persisted, app,
                         target, timer, fired, client, bootDue, crashes, newest, last>>
      BY <1>3, <2>1 DEF SubmitWhenIdle, history
    <3>2. running # NoRequest
      BY <2>1 DEF Inv, LiveRequestsScheduled
    <3>3. TypeOK'
      BY <1>3, <1>t, <3>1 DEF TypeOK
    <3>4. QED
      BY <3>1, <3>2, <3>3 DEF Inv, LiveRequestsScheduled, NoLostWakeup, FreshUnused,
         JobsTyped, HoldsNothingDown, OnlyCallersSleep, Idle, StatusAt, Stranded
  <2>2. CASE ~(running # NoRequest \/ pending # NoRequest)
    <3>1. PICK reply \in Request \cup {NoRequest} :
            Submit("reconcile", NoState, reply) /\ client' = [client EXCEPT ![c] = Waits(reply)]
      BY <1>3, <2>2 DEF SubmitWhenIdle
    <3>2. c \notin asleep /\ mode = "serving" /\ mode' = mode
          /\ UNCHANGED <<outcome, persisted, app, timer, crashes, fired, bootDue>>
      BY <1>3 DEF SubmitWhenIdle
    <3>3. QED
      BY <1>t, <3>1, <3>2, ReplyTyped, NoStateIsTyped, SubmitStep
  <2>3. QED
    BY <2>1, <2>2
<1>4. CASE BootSubmit
  <2>1. PICK reply \in Request \cup {NoRequest} : Submit("reconcile", NoState, reply)
    BY <1>4 DEF BootSubmit
  <2>2. mode = "serving" /\ mode' = mode /\ bootDue' = FALSE
        /\ UNCHANGED <<outcome, persisted, app, timer, crashes, fired, client>>
    BY <1>4 DEF BootSubmit
  <2>3. QED
    BY <1>t, <2>1, <2>2, NoStateIsTyped, SubmitStep
<1>5. CASE TimerSubmits
  <2>1. PICK reply \in Request \cup {NoRequest} : Submit("reconcile", NoState, reply)
    BY <1>5 DEF TimerSubmits
  <2>2. mode = "serving" /\ mode' = mode /\ fired' = FALSE
        /\ UNCHANGED <<outcome, persisted, app, timer, crashes, bootDue, client>>
    BY <1>5 DEF TimerSubmits, Inv, HoldsNothingDown
  <2>3. QED
    BY <1>t, <2>1, <2>2, NoStateIsTyped, SubmitStep
<1>6. QED
  BY <1>1, <1>2, <1>3, <1>4, <1>5

-----------------------------------------------------------------------------
(* Steps that leave the result store alone.                                *)
LEMMA QuietSteps ==
  ASSUME Inv, NEW c,
         \/ c \in Client /\ (RetryMigration(c) \/ WaitApply(c) \/ GiveUp(c))
         \/ TimerFires \/ RefuseState \/ SaveState \/ ApplyState \/ Drain \/ Restart \/ Serve
  PROVE  Inv'
<1> USE DEF dpvars, history
<1>t. TypeOK /\ client \in [Client -> ClientState]
  BY DEF Inv, TypeOK, ClientState
<1>1. CASE c \in Client /\ RetryMigration(c)
  <2>1. client' \in [Client -> ClientState]
    BY <1>t, <1>1 DEF RetryMigration, ClientState
  <2>2. TypeOK'
    BY <1>t, <1>1, <2>1 DEF RetryMigration, TypeOK, ClientState
  <2>3. c \notin asleep
    BY <1>1, Awake DEF RetryMigration
  <2>4. \A d \in Client : client'[d].at = "waiting" => client'[d] = client[d]
    BY <1>t, <1>1 DEF RetryMigration, ClientState
  <2>5. \A d \in asleep : d \in Client /\ client'[d] = client[d]
    BY <1>t, <1>1, <2>3 DEF RetryMigration, TypeOK
  <2>6. QED
    BY <1>1, <2>2, <2>4, <2>5 DEF RetryMigration, Inv, LiveRequestsScheduled, NoLostWakeup,
       FreshUnused, JobsTyped, HoldsNothingDown, OnlyCallersSleep, StatusAt, Stranded
<1>2. CASE c \in Client /\ WaitApply(c)
  <2>1. CASE store.mem[client[c].req] \in Unfinished
    <3>1. asleep' = asleep \cup {c} /\ client[c].at = "waiting" /\ mode = "serving"
          /\ UNCHANGED <<mode, store, job, running, pending, pc, outcome, persisted, app,
                         target, timer, fired, client, bootDue, crashes, newest, last>>
      BY <1>2, <2>1 DEF WaitApply
    <3>2. TypeOK'
      BY <1>2, <1>t, <3>1 DEF TypeOK
    <3>3. client[c].req \in Request /\ client[c] # Idle
      BY <1>2, <3>1 DEF Inv, OnlyCallersSleep, Idle
    <3>4. running # NoRequest
      BY <1>2, <1>t, <2>1, <3>1, <3>3, SchedulerAssumption
      DEF Inv, LiveRequestsScheduled, NoLostWakeup, TypeOK
    <3>5. QED
      BY <2>1, <3>1, <3>2, <3>3, <3>4 DEF Inv, LiveRequestsScheduled, NoLostWakeup,
         FreshUnused, JobsTyped, HoldsNothingDown, OnlyCallersSleep, StatusAt, Stranded
  <2>2. CASE store.mem[client[c].req] \notin Unfinished
    <3>1. client' = [client EXCEPT ![c] = Idle] /\ c \notin asleep
          /\ UNCHANGED <<mode, store, job, running, pending, pc, outcome, persisted, app,
                         target, timer, fired, asleep, bootDue, crashes, newest, last>>
      BY <1>2, <2>2 DEF WaitApply
    <3>2. client' \in [Client -> ClientState]
      BY <1>t, <3>1 DEF ClientState, Idle
    <3>3. TypeOK'
      BY <1>t, <3>1, <3>2 DEF TypeOK, ClientState
    <3>4. \A d \in Client : client'[d].at = "waiting" => client'[d] = client[d]
      BY <1>t, <3>1 DEF Idle
    <3>5. \A d \in asleep : d \in Client /\ client'[d] = client[d]
      BY <1>t, <3>1 DEF TypeOK
    <3>6. QED
      BY <3>1, <3>3, <3>4, <3>5 DEF Inv, LiveRequestsScheduled, NoLostWakeup,
         FreshUnused, JobsTyped, HoldsNothingDown, OnlyCallersSleep, StatusAt, Stranded
  <2>3. QED
    BY <2>1, <2>2
<1>3. CASE c \in Client /\ GiveUp(c)
  <2>1. asleep = {} /\ client' = [client EXCEPT ![c] = Idle]
        /\ UNCHANGED <<mode, store, job, running, pending, pc, outcome, persisted, app,
                       target, timer, fired, asleep, bootDue, crashes, newest, last>>
    BY <1>3 DEF GiveUp, Inv, HoldsNothingDown
  <2>2. client' \in [Client -> ClientState]
    BY <1>t, <2>1 DEF ClientState, Idle
  <2>3. TypeOK'
    BY <1>t, <2>1, <2>2 DEF TypeOK, ClientState
  <2>4. \A d \in Client : client'[d].at = "waiting" => client'[d] = client[d]
    BY <1>t, <2>1 DEF Idle
  <2>5. QED
    BY <2>1, <2>3, <2>4 DEF Inv, LiveRequestsScheduled, NoLostWakeup,
       FreshUnused, JobsTyped, HoldsNothingDown, OnlyCallersSleep, StatusAt, Stranded
<1>4. CASE TimerFires
  <2>1. TypeOK' /\ mode = "serving"
    BY <1>t, <1>4 DEF TimerFires, TypeOK, Inv, HoldsNothingDown
  <2>2. QED
    BY <1>4, <2>1 DEF TimerFires, Inv, LiveRequestsScheduled, NoLostWakeup,
       FreshUnused, JobsTyped, HoldsNothingDown, OnlyCallersSleep, StatusAt, Stranded
<1>5. CASE RefuseState
  <2>1. TypeOK'
    BY <1>t, <1>5, StatusFacts DEF RefuseState, TypeOK, WorkerPC
  <2>2. QED
    BY <1>5, <2>1 DEF RefuseState, Inv, LiveRequestsScheduled, NoLostWakeup,
       FreshUnused, JobsTyped, HoldsNothingDown, OnlyCallersSleep, StatusAt, Stranded
<1>6. CASE SaveState
  <2>1. running \in Request /\ job[running].state \in State
    BY <1>t, <1>6 DEF SaveState, Inv, TypeOK, JobsTyped, LiveRequestsScheduled
  <2>2. TypeOK'
    BY <1>t, <1>6, <2>1 DEF SaveState, TypeOK, WorkerPC
  <2>3. QED
    BY <1>6, <2>2 DEF SaveState, Inv, LiveRequestsScheduled, NoLostWakeup,
       FreshUnused, JobsTyped, HoldsNothingDown, OnlyCallersSleep, StatusAt, Stranded
<1>7. CASE ApplyState
  <2>1. outcome' \in Terminal \ {"superseded"} /\ app' \in AppGeneration \cup {NoTarget}
        /\ timer' \in BOOLEAN
        /\ (mode # "serving" => ~timer')
    <3>1. persisted # NoState => Generation[persisted] \in AppGeneration
      BY <1>t DEF TypeOK, AppGeneration
    <3>2. ("timer" \in Triggers) \in BOOLEAN
      OBVIOUS
    <3>3. mode = "serving"
      BY <1>7 DEF ApplyState, Inv, HoldsNothingDown, LiveRequestsScheduled
    <3>4. QED
      BY <1>t, <1>7, <3>1, <3>2, <3>3, StatusFacts
      DEF ApplyState, ApplyNothing, ApplyApp, AppFails, DeviceFails, TypeOK
  <2>2. pc = "apply" /\ pc' = "finish"
        /\ UNCHANGED <<mode, store, job, running, pending, persisted, target, fired,
                       client, asleep, bootDue, crashes, newest, last>>
    BY <1>7 DEF ApplyState
  <2>3. TypeOK'
    BY <1>t, <2>1, <2>2 DEF TypeOK, WorkerPC
  <2>4. QED
    BY <2>1, <2>2, <2>3 DEF Inv, LiveRequestsScheduled, NoLostWakeup,
       FreshUnused, JobsTyped, HoldsNothingDown, OnlyCallersSleep, StatusAt, Stranded
<1>8. CASE Drain
  <2>1. TypeOK'
    BY <1>t, <1>8 DEF Drain, TypeOK, WorkerPC
  <2>2. LiveRequestsScheduled'
    BY <1>t, <1>8, StatusFacts, SchedulerAssumption
    DEF Drain, Inv, TypeOK, LiveRequestsScheduled, StatusAt, Stranded
  <2>3. QED
    BY <1>8, <2>1, <2>2, SchedulerAssumption DEF Drain, Inv, LiveRequestsScheduled, NoLostWakeup,
       FreshUnused, JobsTyped, HoldsNothingDown, OnlyCallersSleep, Stranded
<1>9. CASE Restart
  <2>1. TypeOK'
    BY <1>t, <1>9 DEF Restart, TypeOK
  <2>2. QED
    BY <1>9, <2>1 DEF Restart, Inv, LiveRequestsScheduled, NoLostWakeup,
       FreshUnused, JobsTyped, HoldsNothingDown, OnlyCallersSleep, StatusAt, Stranded
<1>10. CASE Serve
  <2>1. bootDue' \in BOOLEAN
    BY <1>10 DEF Serve
  <2>2. TypeOK'
    BY <1>t, <1>10, <2>1 DEF Serve, TypeOK
  <2>3. QED
    BY <1>10, <2>2 DEF Serve, Inv, LiveRequestsScheduled, NoLostWakeup,
       FreshUnused, JobsTyped, HoldsNothingDown, OnlyCallersSleep, StatusAt, Stranded
<1>11. QED
  BY <1>1, <1>2, <1>3, <1>4, <1>5, <1>6, <1>7, <1>8, <1>9, <1>10

(* Steps of the worker and of recovery that record a result.               *)
LEMMA RecordingSteps ==
  ASSUME Inv, NEW r,
         Begin \/ Finish \/ (r \in Request /\ FailInterrupted(r)) \/ Crash
  PROVE  Inv'
<1> USE DEF dpvars, history
<1>t. TypeOK
  BY DEF Inv
<1>1. CASE Begin
  <2>1. running \in Request /\ store.mem[running] = "queued" /\ pending # running
        /\ (pending # NoRequest => pending \in Request)
    BY <1>t, <1>1 DEF Begin, Inv, LiveRequestsScheduled, TypeOK, StatusAt
  <2>2. Begun(store, store', running, "running")
    <3>1. Update(store, store', running, "running")
      BY <1>1, UpdatesUpdate DEF Begin
    <3>2. QED
      BY <1>t, <2>1, <3>1, UpdateBegins, StatusFacts DEF TypeOK
  <2>3. /\ store' \in Store
        /\ store'.mem = [store.mem EXCEPT ![running] = "running"]
        /\ \A q \in Request \ {running} : store'.disk[q] = store.disk[q]
    BY <2>2 DEF Begun
  <2>4. TypeOK'
    BY <1>t, <1>1, <2>3 DEF Begin, TypeOK, WorkerPC
  <2>5. LiveRequestsScheduled'
    BY <1>t, <1>1, <2>1, <2>3, StatusFacts
    DEF Begin, Inv, TypeOK, Store, LiveRequestsScheduled, StatusAt, Stranded
  <2>6. NoLostWakeup'
    BY <1>t, <1>1, <2>1, <2>3, StatusFacts
    DEF Begin, Inv, TypeOK, Store, NoLostWakeup, OnlyCallersSleep, Stranded
  <2>7. FreshUnused'
    BY <1>t, <1>1, <2>1, <2>3 DEF Begin, Inv, TypeOK, Store, FreshUnused, JobsTyped
  <2>8. JobsTyped' /\ HoldsNothingDown' /\ OnlyCallersSleep'
    BY <1>1 DEF Begin, Inv, JobsTyped, HoldsNothingDown, OnlyCallersSleep, Stranded
  <2>9. QED
    BY <2>4, <2>5, <2>6, <2>7, <2>8 DEF Inv
<1>2. CASE Finish
  <2>1. running \in Request /\ store.mem[running] = "running" /\ pending # running
        /\ (pending # NoRequest => pending \in Request)
    BY <1>t, <1>2 DEF Finish, Inv, LiveRequestsScheduled, TypeOK, StatusAt
  <2>2. Ended(store, store', running, outcome)
    <3>1. Update(store, store', running, outcome)
      BY <1>2, UpdatesUpdate DEF Finish
    <3>2. QED
      BY <1>t, <2>1, <3>1, UpdateEnds DEF TypeOK
  <2>3. TypeOK'
    BY <1>t, <1>2, <2>1, <2>2, StatusFacts DEF Finish, TypeOK, WorkerPC, Ended
  <2>4. LiveRequestsScheduled'
    BY <1>t, <1>2, <2>1, <2>2, StatusFacts
    DEF Finish, Inv, TypeOK, Ended, LiveRequestsScheduled, StatusAt, Stranded
  <2>5. NoLostWakeup'
    BY <1>2 DEF Finish, Inv, NoLostWakeup, Stranded
  <2>6. FreshUnused'
    BY <1>t, <1>2, <2>1, <2>2, StatusFacts DEF Finish, Inv, TypeOK, Ended, FreshUnused, JobsTyped
  <2>7. JobsTyped' /\ HoldsNothingDown' /\ OnlyCallersSleep'
    BY <1>2 DEF Finish, Inv, JobsTyped, HoldsNothingDown, OnlyCallersSleep, Stranded
  <2>8. QED
    BY <2>3, <2>4, <2>5, <2>6, <2>7 DEF Inv
<1>3. CASE r \in Request /\ FailInterrupted(r)
  <2>1. mode = "recovering" /\ running = NoRequest /\ pending = NoRequest /\ asleep = {}
        /\ store.mem[r] \in Unfinished
    BY <1>3 DEF FailInterrupted, Inv, HoldsNothingDown, LiveRequestsScheduled
  <2>2. Ended(store, store', r, "failed")
    <3>1. Update(store, store', r, "failed")
      BY <1>3, UpdatesUpdate DEF FailInterrupted
    <3>2. QED
      BY <1>3, <1>t, <2>1, <3>1, UpdateEnds, StatusFacts DEF TypeOK
  <2>3. TypeOK'
    BY <1>t, <1>3, <2>2 DEF FailInterrupted, TypeOK, Ended
  <2>4. FreshUnused'
    BY <1>t, <1>3, <2>1, <2>2, StatusFacts DEF FailInterrupted, Inv, Ended, FreshUnused
  <2>5. QED
    BY <1>3, <2>1, <2>3, <2>4 DEF FailInterrupted, Inv, LiveRequestsScheduled, NoLostWakeup,
       JobsTyped, HoldsNothingDown, OnlyCallersSleep, Stranded
<1>4. CASE Crash
  <2>1. store' \in Store /\ store'.mem = store.disk /\ store'.disk = store.disk
    BY <1>t, <1>4 DEF Crash, Loaded, TypeOK, Store
  <2>2. client' \in [Client -> ClientState]
        /\ \A c \in Client : client'[c].at = "waiting" => client'[c] = client[c]
    BY <1>t, <1>4 DEF Crash, TypeOK, ClientState, Idle
  <2>3. TypeOK'
    <3>1. client' \in [Client -> [at : {"idle", "blocked", "waiting"},
                                  req : Request \cup {NoRequest}]]
      BY <2>2 DEF ClientState
    <3>2. asleep' \subseteq Client /\ crashes' \in Nat
      BY <1>t, <1>4 DEF Crash, TypeOK
    <3>3. pc' \in WorkerPC /\ outcome' \in Terminal
      BY <1>4, StatusFacts DEF Crash, WorkerPC
    <3>4. QED
      BY <1>t, <1>4, <2>1, <3>1, <3>2, <3>3 DEF Crash, TypeOK
  <2>4. FreshUnused'
    BY <1>4, <2>1 DEF Crash, Inv, FreshUnused
  <2>5. QED
    BY <1>4, <2>2, <2>3, <2>4, SchedulerAssumption DEF Crash, Inv, LiveRequestsScheduled,
       NoLostWakeup, JobsTyped, HoldsNothingDown, OnlyCallersSleep, Stranded
<1>5. QED
  BY <1>1, <1>2, <1>3, <1>4

(* The invariant is inductive.                                             *)
THEOREM SchedulerInvariant == Spec => []Inv
<1>1. Inv /\ [Next]_vars => Inv'
  <2> SUFFICES ASSUME Inv, [Next]_vars PROVE Inv'
    OBVIOUS
  <2>1. CASE UNCHANGED vars
    BY <2>1 DEF vars, Inv, TypeOK, LiveRequestsScheduled, NoLostWakeup, FreshUnused,
       JobsTyped, HoldsNothingDown, OnlyCallersSleep, StatusAt, Stranded
  <2>2. CASE Quiet
    BY <2>1, <2>2 DEF Quiet
  <2>3. ASSUME NEW c \in Client,
               SubmitApply(c) \/ SubmitReconcile(c) \/ RetryMigration(c)
               \/ SubmitWhenIdle(c) \/ WaitApply(c) \/ GiveUp(c)
        PROVE  Inv'
    BY <2>3, CallersSubmit, QuietSteps
  <2>4. CASE BootSubmit \/ TimerSubmits
    BY <2>4, CallersSubmit
  <2>5. CASE TimerFires \/ RefuseState \/ SaveState \/ ApplyState \/ Drain
             \/ Restart \/ Serve
    BY <2>5, QuietSteps
  <2>6. CASE Begin \/ Finish \/ Crash
    BY <2>6, RecordingSteps
  <2>7. ASSUME NEW r \in Request, FailInterrupted(r)
        PROVE  Inv'
    BY <2>7, RecordingSteps
  <2>8. QED
    BY <2>1, <2>2, <2>3, <2>4, <2>5, <2>6, <2>7 DEF Next, Worker
<1>2. QED
  BY InitInv, <1>1, PTL DEF Spec

(* Every record, job slot and client of the scheduler keeps its type.      *)
THEOREM TypeCorrect == Spec => []TypeOK
BY SchedulerInvariant, PTL DEF Inv

(* No live request is ever lost: while the data plane serves, the records  *)
(* that are queued or running are those of the running and pending jobs.   *)
THEOREM NoRequestLost == Spec => []LiveRequestsScheduled
BY SchedulerInvariant, PTL DEF Inv

(* No thread sleeps in the condition without a worker that will notify it. *)
THEOREM NoWakeupLost == Spec => []NoLostWakeup
BY SchedulerInvariant, PTL DEF Inv

-----------------------------------------------------------------------------
(* Durability. A result file may lag behind memory only when a write has   *)
(* failed, and then it still says that the request is live, or when the    *)
(* file of a pruned record could not be removed.                           *)
Lag(st) ==
  \A q \in Request :
    \/ st.disk[q] = st.mem[q]
    \/ /\ "write" \in Faults
       /\ st.disk[q] \in Unfinished
       /\ st.mem[q] \in Terminal \cup {"running"}
    \/ "unlink" \in Faults /\ st.mem[q] = "absent"

LEMMA CreatedLag ==
  ASSUME NEW st \in Store, NEW r \in Request, Lag(st)
  PROVE  Lag(Created(st, r))
<1>1. /\ Created(st, r).mem  = [st.mem EXCEPT ![r] = "queued"]
      /\ Created(st, r).disk = [st.disk EXCEPT ![r] = "queued"]
  BY CreatedStore
<1>2. st.mem \in [Request -> RecordStatus] /\ st.disk \in [Request -> RecordStatus]
  BY DEF Store
<1>3. QED
  BY <1>1, <1>2 DEF Lag

LEMMA PrunedLag ==
  ASSUME NEW st \in Store, NEW left \in Leftovers, Lag(st)
  PROVE  Lag(Pruned(st, left))
<1>1. PICK gone \in SUBSET {q \in Request : st.mem[q] \in Terminal} : gone = Excess(st)
  BY DEF Excess
<1>2. Pruned(st, left) =
        [st EXCEPT !.mem = Without(@, gone), !.disk = Without(@, gone \ left)]
  BY <1>1 DEF Pruned
<1>3. /\ Pruned(st, left).mem = Without(st.mem, gone)
      /\ Pruned(st, left).disk = Without(st.disk, gone \ left)
  BY <1>2 DEF Store
<1>4. left = {} \/ "unlink" \in Faults
  BY DEF Leftovers
<1>5. QED
  BY <1>3, <1>4 DEF Lag, Without

LEMMA UpdatedLag ==
  ASSUME NEW st \in Store, NEW r \in Request, Lag(st), st.mem[r] \in Unfinished,
         NEW s \in Terminal \cup {"running"}, NEW new \in Updates(st, r, s)
  PROVE  Lag(new)
<1>0. PICK ok \in Succeeded("write"), left \in Leftovers : new = Updated(st, r, s, ok, left)
  BY DEF Updates
<1>1. ok \in BOOLEAN /\ s \in RecordStatus /\ st.disk[r] \in Unfinished
      /\ (~ok => "write" \in Faults)
  BY StatusFacts DEF Succeeded, Lag
<1> DEFINE rec == Recorded(st, r, s, ok)
<1>2. /\ rec \in Store
      /\ rec.mem = [st.mem EXCEPT ![r] = s]
      /\ rec.disk = [st.disk EXCEPT ![r] = IF ok THEN s ELSE st.disk[r]]
  BY <1>1, RecordedStore
<1> HIDE DEF rec
<1>3. Lag(rec)
  BY <1>1, <1>2, StatusFacts DEF Lag, Store
<1>4. CASE s \notin Terminal
  <2>1. new = rec
    BY <1>0, <1>4, StatusFacts DEF Updated, rec
  <2>2. QED
    BY <1>3, <2>1
<1>5. CASE s \in Terminal
  <2> DEFINE st2 == [rec EXCEPT !.time[r] = st.now + 1, !.now = @ + 1]
  <2>1. st.now + 1 \in Nat /\ rec.now + 1 \in Nat
    BY <1>2 DEF Store
  <2>2. st2 \in Store /\ st2.mem = rec.mem /\ st2.disk = rec.disk
    BY <1>2, <2>1 DEF Store
  <2>3. new = Pruned(st2, left)
    BY <1>0, <1>5, StatusFacts DEF Updated, Finished, rec
  <2> HIDE DEF st2
  <2>4. Lag(st2)
    BY <1>3, <2>2 DEF Lag
  <2>5. QED
    BY <2>2, <2>3, <2>4, PrunedLag
<1>6. QED
  BY <1>4, <1>5

LEMMA SubmitLag ==
  ASSUME Inv, Lag(store), NEW kind, NEW s, NEW reply \in Request \cup {NoRequest},
         Submit(kind, s, reply)
  PROVE  Lag(store')
<1>1. CASE Join(reply) \/ Reject(reply)
  BY <1>1 DEF Join, Reject
<1>2. ASSUME NEW r \in Request, Enqueue(kind, s, r)
      PROVE  /\ Created(store, r) \in Store /\ Lag(Created(store, r))
             /\ Created(store, r).mem = [store.mem EXCEPT ![r] = "queued"]
             /\ r # pending
  <2>1. store \in Store /\ (pending # NoRequest => job[pending] # NoJob)
    BY DEF Inv, TypeOK, JobsTyped
  <2>2. r # pending
    BY <1>2, <2>1, SchedulerAssumption DEF Enqueue
  <2>3. QED
    BY <2>1, <2>2, CreatedStore, CreatedLag
<1>3. ASSUME NEW r \in Request, StartWorker(kind, s, r, reply)
      PROVE  Lag(store')
  BY <1>2, <1>3 DEF StartWorker
<1>4. ASSUME NEW r \in Request, CannotStart(kind, s, r, reply)
      PROVE  Lag(store')
  <2>1. store' \in Updates(Created(store, r), r, "failed")
    BY <1>4 DEF CannotStart
  <2>2. Enqueue(kind, s, r)
    BY <1>4 DEF CannotStart
  <2>3. Created(store, r).mem[r] \in Unfinished
    <3>1. store.mem \in [Request -> RecordStatus]
      BY DEF Inv, TypeOK, Store
    <3>2. QED
      BY <1>2, <2>2, <3>1, StatusFacts
  <2>4. QED
    BY <1>2, <2>1, <2>2, <2>3, UpdatedLag, StatusFacts
<1>5. ASSUME NEW r \in Request, ReplacePending(kind, s, r, reply)
      PROVE  Lag(store')
  <2>1. Enqueue(kind, s, r)
    BY <1>5 DEF ReplacePending
  <2>2. CASE pending = NoRequest
    BY <1>2, <1>5, <2>1, <2>2 DEF ReplacePending
  <2>3. CASE pending # NoRequest
    <3>1. store' \in Updates(Created(store, r), pending, "superseded")
      BY <1>5, <2>3 DEF ReplacePending
    <3>2. pending \in Request /\ Created(store, r).mem[pending] \in Unfinished
      <4>1. store.mem \in [Request -> RecordStatus]
        BY DEF Inv, TypeOK, Store
      <4>2. pending \in Request /\ store.mem[pending] = "queued"
        BY <2>3 DEF Inv, TypeOK, LiveRequestsScheduled
      <4>3. QED
        BY <1>2, <2>1, <4>1, <4>2, StatusFacts
    <3>3. QED
      BY <1>2, <2>1, <3>1, <3>2, UpdatedLag, StatusFacts
  <2>4. QED
    BY <2>2, <2>3
<1>6. ASSUME NEW r \in Request, Strand(kind, s, r, reply)
      PROVE  Lag(store')
  BY <1>6, CreatedLag DEF Strand, Inv, TypeOK
<1>7. QED
  BY <1>1, <1>3, <1>4, <1>5, <1>6 DEF Submit

(* Every step keeps the files in step with memory, and no step but a crash *)
(* touches a finished result.                                              *)
LEMMA LagStep ==
  ASSUME Inv, Lag(store), [Next]_vars
  PROVE  /\ Lag(store')
         /\ EndedStays \/ Crash
<1> USE DEF EndedStays
<1>t. store \in Store /\ (running # NoRequest => running \in Request)
      /\ outcome \in Terminal /\ outcome # "superseded"
  BY DEF Inv, TypeOK
<1>1. CASE UNCHANGED store
  BY <1>1
<1>2. ASSUME NEW c \in Client, SubmitApply(c) \/ SubmitReconcile(c)
             \/ (SubmitWhenIdle(c) /\ ~UNCHANGED store)
      PROVE  Lag(store') /\ EndedStays
  <2>1. PICK kind \in {"apply", "reconcile"}, s \in State \cup {NoState},
             reply \in Request \cup {NoRequest} :
          Submit(kind, s, reply) /\ (kind = "apply" => s \in State)
          /\ mode = "serving" /\ mode' = mode
    BY <1>2 DEF SubmitApply, SubmitReconcile, SubmitWhenIdle
  <2>2. QED
    BY <2>1, SubmitKeeps, SubmitLag
<1>3. CASE Begin
  <2>1. running \in Request /\ store.mem[running] = "queued"
    BY <1>3, <1>t DEF Begin, Inv, LiveRequestsScheduled, StatusAt
  <2>2. store' \in Updates(store, running, "running")
    BY <1>3 DEF Begin
  <2>3. Begun(store, store', running, "running")
    <3>1. Update(store, store', running, "running")
      BY <2>2, UpdatesUpdate
    <3>2. QED
      BY <1>t, <2>1, <3>1, UpdateBegins, StatusFacts
  <2>4. QED
    BY <1>t, <2>1, <2>2, <2>3, UpdatedLag, StatusFacts DEF Begun, Store
<1>4. CASE Finish
  <2>1. running \in Request /\ store.mem[running] = "running"
    BY <1>4, <1>t DEF Finish, Inv, LiveRequestsScheduled, StatusAt
  <2>2. store' \in Updates(store, running, outcome)
    BY <1>4 DEF Finish
  <2>3. Ended(store, store', running, outcome)
    <3>1. Update(store, store', running, outcome)
      BY <2>2, UpdatesUpdate
    <3>2. QED
      BY <1>t, <2>1, <3>1, UpdateEnds
  <2>4. Lag(store')
    BY <1>t, <2>1, <2>2, UpdatedLag, StatusFacts
  <2>5. QED
    BY <2>1, <2>3, <2>4, StatusFacts DEF Ended
<1>5. ASSUME NEW r \in Request, FailInterrupted(r)
      PROVE  Lag(store') /\ EndedStays
  <2>1. store.mem[r] \in Unfinished
    BY <1>5 DEF FailInterrupted
  <2>2. store' \in Updates(store, r, "failed")
    BY <1>5 DEF FailInterrupted
  <2>3. Ended(store, store', r, "failed")
    <3>1. Update(store, store', r, "failed")
      BY <2>2, UpdatesUpdate
    <3>2. QED
      BY <1>t, <2>1, <3>1, UpdateEnds, StatusFacts
  <2>4. Lag(store')
    BY <1>t, <2>1, <2>2, UpdatedLag, StatusFacts
  <2>5. QED
    BY <2>1, <2>3, <2>4, StatusFacts DEF Ended
<1>6. CASE Crash
  <2>1. store'.mem = store.disk /\ store'.disk = store.disk
    BY <1>t, <1>6 DEF Crash, Loaded, Store
  <2>2. QED
    BY <1>6, <2>1 DEF Lag
<1>7. ASSUME NEW c \in Client, RetryMigration(c) \/ WaitApply(c) \/ GiveUp(c)
      PROVE  UNCHANGED store
  BY <1>7 DEF RetryMigration, WaitApply, GiveUp
<1>8. CASE TimerFires \/ RefuseState \/ SaveState \/ ApplyState \/ Drain \/ Restart \/ Serve
           \/ Quiet \/ UNCHANGED vars
  BY <1>1, <1>8 DEF TimerFires, RefuseState, SaveState, ApplyState, Drain, Restart, Serve,
     Quiet, vars
<1>9. CASE BootSubmit \/ TimerSubmits
  <2>1. PICK kind \in {"apply", "reconcile"}, s \in State \cup {NoState},
             reply \in Request \cup {NoRequest} :
          Submit(kind, s, reply) /\ (kind = "apply" => s \in State)
          /\ mode = "serving" /\ mode' = mode
    BY <1>9 DEF BootSubmit, TimerSubmits, Inv, HoldsNothingDown
  <2>2. QED
    BY <2>1, SubmitKeeps, SubmitLag
<1>10. QED
  BY <1>1, <1>2, <1>3, <1>4, <1>5, <1>6, <1>7, <1>8, <1>9 DEF Next, Worker

LEMMA FilesLag == Spec => []Lag(store)
<1>1. Init => Lag(store)
  BY DEF Init, EmptyStore, Lag
<1>2. Inv /\ Lag(store) /\ [Next]_vars => Lag(store)'
  BY LagStep DEF Lag
<1>3. QED
  BY <1>1, <1>2, SchedulerInvariant, PTL DEF Spec

(* When result files can be written, a finished result is final across     *)
(* crashes and restarts: it can only leave the bounded history.            *)
THEOREM ResultsDurable ==
  ASSUME "write" \notin Faults
  PROVE  Spec => FinishedIsFinal
<1>1. Inv /\ Lag(store) /\ [Next]_vars =>
        [\A r \in Request : store.mem[r] \in Terminal =>
           store'.mem[r] \in {store.mem[r], "absent"}]_vars
  <2> SUFFICES ASSUME Inv, Lag(store), [Next]_vars PROVE EndedStays
    BY DEF EndedStays
  <2>1. CASE Crash
    <3>1. store'.mem = store.disk /\ store.disk \in [Request -> RecordStatus]
      BY <2>1 DEF Crash, Loaded, Inv, TypeOK, Store
    <3>2. QED
      BY <3>1, StatusFacts DEF Lag, EndedStays
  <2>2. QED
    BY <2>1, LagStep
<1>2. QED
  BY <1>1, SchedulerInvariant, FilesLag, PTL DEF Spec, FinishedIsFinal

-----------------------------------------------------------------------------
(* Refinement. The status a client sees is QStatus; each step of the       *)
(* scheduler is a step of ApplyQueue or changes nothing a client can see.  *)
QVars == <<mode = "serving", QStatus, running, pending>>

LEMMA QFacts ==
  /\ Q!Ended = Terminal
  /\ Q!Done = Terminal \ {"superseded"}
  /\ Q!Live = Unfinished
  /\ \A s \in RecordStatus : s # "new" /\ s # "forgotten"
BY DEF Q!Ended, Q!Done, Q!Live, Terminal, Unfinished, RecordStatus

(* Dropping finished requests from the history is what Settle allows.      *)
LEMMA Settles ==
  ASSUME NEW base,
         \A q \in Request : \/ QStatus'[q] = base[q]
                            \/ base[q] \in Terminal /\ QStatus'[q] = "forgotten"
  PROVE  Q!Settle(base)
<1> DEFINE gone == {q \in Request : QStatus'[q] # base[q]}
<1>1. gone \in SUBSET {r \in Request : base[r] \in Q!Ended}
  BY QFacts
<1>2. QStatus' = [r \in Request |-> IF r \in gone THEN "forgotten" ELSE base[r]]
  BY DEF QStatus
<1>3. QED
  BY <1>1, <1>2 DEF Q!Settle

LEMMA StatusOf ==
  \A r \in Request :
    QStatus[r] = IF store.mem[r] # "absent" THEN store.mem[r]
                 ELSE IF job[r] = NoJob THEN "new" ELSE "forgotten"
BY DEF QStatus

(* A request known to the scheduler moves to s in memory: that is what a   *)
(* client sees of it, and no other request changes.                        *)
LEMMA StatusMoves ==
  ASSUME NEW r \in Request, NEW s, s # "absent",
         store.mem \in [Request -> RecordStatus], store'.mem = [store.mem EXCEPT ![r] = s],
         \A q \in Request \ {r} : job'[q] = job[q]
  PROVE  QStatus' = [QStatus EXCEPT ![r] = s]
<1>1. store'.mem[r] = s /\ \A q \in Request \ {r} : store'.mem[q] = store.mem[q]
  OBVIOUS
<1>2. \A q \in Request :
        (IF store'.mem[q] # "absent" THEN store'.mem[q]
         ELSE IF job'[q] = NoJob THEN "new" ELSE "forgotten")
        = IF q = r THEN s
          ELSE IF store.mem[q] # "absent" THEN store.mem[q]
          ELSE IF job[q] = NoJob THEN "new" ELSE "forgotten"
  <2> TAKE q \in Request
  <2>1. CASE q = r
    BY <1>1, <2>1
  <2>2. CASE q # r
    BY <1>1, <2>2
  <2> QED
    BY <2>1, <2>2
<1> QED
  BY <1>2 DEF QStatus

(* An update that ends request r, with no new request, settles its status. *)
LEMMA EndedSettles ==
  ASSUME Inv, NEW r \in Request, NEW s \in Terminal,
         Ended(store, store', r, s), job[r] # NoJob, UNCHANGED job
  PROVE  Q!Settle([QStatus EXCEPT ![r] = s])
<1> DEFINE base == [QStatus EXCEPT ![r] = s]
<1>1. \A q \in Request : base[q] = IF q = r THEN s ELSE QStatus[q]
  BY DEF QStatus
<1>2. \A q \in Request :
        QStatus'[q] = IF store'.mem[q] # "absent" THEN store'.mem[q]
                      ELSE IF job[q] = NoJob THEN "new" ELSE "forgotten"
  BY DEF QStatus
<1>3. \A q \in Request : store.mem[q] \in Terminal => job[q] # NoJob
  BY StatusFacts DEF Inv, FreshUnused
<1>4. ASSUME NEW q \in Request
      PROVE  \/ QStatus'[q] = base[q]
             \/ base[q] \in Terminal /\ QStatus'[q] = "forgotten"
  <2>1. CASE q = r
    BY <1>1, <1>2, <2>1 DEF Ended
  <2>2. CASE q # r
    BY <1>1, <1>2, <1>3, <2>2, StatusOf, StatusFacts DEF Ended
  <2>3. QED
    BY <2>1, <2>2
<1> HIDE DEF base
<1>5. Q!Settle(base)
  BY <1>4, Settles
<1>6. QED
  BY <1>5 DEF base

(* What a client sees of a submitted request.                              *)
LEMMA SubmitMaps ==
  ASSUME Inv, mode = "serving", mode' = mode,
         NEW kind \in {"apply", "reconcile"}, NEW s \in State \cup {NoState},
         NEW reply \in Request \cup {NoRequest}, Submit(kind, s, reply)
  PROVE  Q!QNext \/ UNCHANGED QVars
<1>t. /\ store \in Store /\ store.mem \in [Request -> RecordStatus]
      /\ job \in [Request -> Job]
  BY DEF Inv, TypeOK, Store
<1>1. CASE Join(reply) \/ Reject(reply)
  BY <1>1 DEF Join, Reject, QVars, QStatus
<1>2. ASSUME NEW r \in Request, Enqueue(kind, s, r)
      PROVE  /\ QStatus[r] = "new" /\ job'[r] # NoJob
             /\ \A q \in Request \ {r} : job'[q] = job[q]
             /\ r # pending
             /\ Created(store, r) \in Store
             /\ Created(store, r).mem = [store.mem EXCEPT ![r] = "queued"]
  <2>1. job[r] = NoJob /\ store.mem[r] = "absent"
        /\ job' = [job EXCEPT ![r] = [kind |-> kind, state |-> s]]
    BY <1>2 DEF Enqueue, Inv, FreshUnused
  <2>2. r # pending
    BY <2>1, SchedulerAssumption DEF Inv, JobsTyped
  <2>3. QED
    BY <1>t, <2>1, <2>2, CreatedStore, StatusOf DEF NoJob
<1>3. \A q \in Request : store.mem[q] \in Terminal => job[q] # NoJob
  BY StatusFacts DEF Inv, FreshUnused
<1>4. ASSUME NEW r \in Request, StartWorker(kind, s, r, reply)
      PROVE  Q!QNext
  <2>1. Enqueue(kind, s, r)
    BY <1>4 DEF StartWorker
  <2>2. store'.mem = [store.mem EXCEPT ![r] = "queued"]
    BY <1>2, <1>4, <2>1 DEF StartWorker
  <2>3. QStatus' = [QStatus EXCEPT ![r] = "queued"]
    BY <1>t, <1>2, <2>1, <2>2, StatusMoves
  <2>4. Q!Enter(r)
    BY <1>2, <1>4, <2>1, <2>3 DEF StartWorker, Q!Enter
  <2>5. QED
    BY <2>4 DEF Q!QNext
<1>5. ASSUME NEW r \in Request, CannotStart(kind, s, r, reply)
      PROVE  Q!QNext
  <2>1. Enqueue(kind, s, r)
    BY <1>5 DEF CannotStart
  <2>2. Ended(Created(store, r), store', r, "failed")
    <3>1. Update(Created(store, r), store', r, "failed")
      BY <1>5, UpdatesUpdate DEF CannotStart
    <3>2. Created(store, r).mem[r] # "absent"
      BY <1>t, <1>2, <2>1
    <3>3. QED
      BY <1>2, <2>1, <3>1, <3>2, UpdateEnds, StatusFacts
  <2> DEFINE base == [QStatus EXCEPT ![r] = "failed"]
  <2>3. \A q \in Request : base[q] = IF q = r THEN "failed" ELSE QStatus[q]
    BY DEF QStatus
  <2>4. \A q \in Request :
          QStatus'[q] = IF store'.mem[q] # "absent" THEN store'.mem[q]
                        ELSE IF job'[q] = NoJob THEN "new" ELSE "forgotten"
    BY DEF QStatus
  <2> HIDE DEF base
  <2>5. ASSUME NEW q \in Request
        PROVE  \/ QStatus'[q] = base[q]
               \/ base[q] \in Terminal /\ QStatus'[q] = "forgotten"
    <3>1. CASE q = r
      BY <1>2, <2>1, <2>2, <2>3, <2>4, <3>1, StatusFacts DEF Ended
    <3>2. CASE q # r
      <4>1. \/ store'.mem[q] = store.mem[q]
            \/ store.mem[q] \in Terminal /\ store'.mem[q] = "absent"
        BY <1>t, <1>2, <2>1, <2>2, <3>2 DEF Ended
      <4>2. job'[q] = job[q] /\ base[q] = QStatus[q]
        BY <1>2, <2>1, <2>3, <3>2
      <4>3. CASE store'.mem[q] = store.mem[q]
        BY <2>4, <4>2, <4>3, StatusOf
      <4>4. CASE store.mem[q] \in Terminal /\ store'.mem[q] = "absent"
        BY <1>3, <2>4, <4>2, <4>4, StatusOf, StatusFacts
      <4>5. QED
        BY <4>1, <4>3, <4>4
    <3>3. QED
      BY <3>1, <3>2
  <2>6. Q!Settle(base)
    BY <2>5, Settles
  <2>7. Q!Enter(r)
    BY <1>2, <1>5, <2>1, <2>6 DEF CannotStart, Q!Enter, base
  <2>8. QED
    BY <2>7 DEF Q!QNext
<1>6. ASSUME NEW r \in Request, ReplacePending(kind, s, r, reply)
      PROVE  Q!QNext
  <2>1. Enqueue(kind, s, r) /\ running # NoRequest /\ pending' = r /\ running' = running
    BY <1>6 DEF ReplacePending
  <2>2. CASE pending = NoRequest
    <3>1. store'.mem = [store.mem EXCEPT ![r] = "queued"]
      BY <1>2, <1>6, <2>1, <2>2 DEF ReplacePending
    <3>2. QStatus' = [QStatus EXCEPT ![r] = "queued"]
      BY <1>t, <1>2, <2>1, <3>1, StatusMoves
    <3>3. Q!Replace(r)
      BY <1>2, <2>1, <2>2, <3>2 DEF Q!Replace
    <3>4. QED
      BY <3>3 DEF Q!QNext
  <2>3. CASE pending # NoRequest
    <3>1. pending \in Request /\ store.mem[pending] = "queued"
      BY <2>3 DEF Inv, TypeOK, LiveRequestsScheduled
    <3>2. Ended(Created(store, r), store', pending, "superseded")
      <4>1. Update(Created(store, r), store', pending, "superseded")
        BY <1>6, <2>3, UpdatesUpdate DEF ReplacePending
      <4>2. Created(store, r).mem[pending] # "absent"
        BY <1>t, <1>2, <2>1, <3>1
      <4>3. QED
        BY <1>2, <2>1, <3>1, <4>1, <4>2, UpdateEnds, StatusFacts
    <3> DEFINE base == [QStatus EXCEPT ![r] = "queued", ![pending] = "superseded"]
    <3>3. \A q \in Request :
            base[q] = IF q = pending THEN "superseded" ELSE IF q = r THEN "queued" ELSE QStatus[q]
      BY <1>2, <2>1 DEF QStatus
    <3>4. \A q \in Request :
            QStatus'[q] = IF store'.mem[q] # "absent" THEN store'.mem[q]
                          ELSE IF job'[q] = NoJob THEN "new" ELSE "forgotten"
      BY DEF QStatus
    <3> HIDE DEF base
    <3>5. ASSUME NEW q \in Request
          PROVE  \/ QStatus'[q] = base[q]
                 \/ base[q] \in Terminal /\ QStatus'[q] = "forgotten"
      <4>1. CASE q = pending
        <5>1. job'[q] # NoJob
          BY <1>2, <2>1, <2>3, <4>1 DEF Inv, JobsTyped
        <5>2. QED
          BY <3>2, <3>3, <3>4, <4>1, <5>1, StatusFacts DEF Ended
      <4>2. CASE q = r
        <5>1. store'.mem[r] = "queued"
          <6>1. Created(store, r).mem[r] = "queued" /\ r \in Request \ {pending}
            BY <1>t, <1>2, <2>1
          <6>2. QED
            BY <3>2, <6>1, StatusFacts DEF Ended
        <5>2. QED
          BY <1>2, <2>1, <3>3, <3>4, <4>2, <5>1
      <4>3. CASE q # r /\ q # pending
        <5>1. \/ store'.mem[q] = store.mem[q]
              \/ store.mem[q] \in Terminal /\ store'.mem[q] = "absent"
          BY <1>t, <1>2, <2>1, <3>2, <4>3 DEF Ended
        <5>2. job'[q] = job[q] /\ base[q] = QStatus[q]
          BY <1>2, <2>1, <3>3, <4>3
        <5>3. CASE store'.mem[q] = store.mem[q]
          BY <3>4, <5>2, <5>3, StatusOf
        <5>4. CASE store.mem[q] \in Terminal /\ store'.mem[q] = "absent"
          BY <1>3, <3>4, <5>2, <5>4, StatusOf, StatusFacts
        <5>5. QED
          BY <5>1, <5>3, <5>4
      <4>4. QED
        BY <4>1, <4>2, <4>3
    <3>6. Q!Settle(base)
      BY <3>5, Settles
    <3>7. Q!Replace(r)
      BY <1>2, <2>1, <2>3, <3>6 DEF Q!Replace, base
    <3>8. QED
      BY <3>7 DEF Q!QNext
  <2>4. QED
    BY <2>2, <2>3
<1>7. ASSUME NEW r \in Request, Strand(kind, s, r, reply)
      PROVE  Q!QNext
  <2>1. /\ job[r] = NoJob /\ store.mem[r] = "absent"
        /\ job' = [job EXCEPT ![r] = [kind |-> kind, state |-> s]]
        /\ UNCHANGED <<running, pending>>
    BY <1>7 DEF Strand, Inv, FreshUnused
  <2>2. store'.mem = [store.mem EXCEPT ![r] = "queued"]
    BY <1>t, <1>7, CreatedStore DEF Strand
  <2>3. QStatus[r] = "new" /\ QStatus' = [QStatus EXCEPT ![r] = "queued"]
    BY <1>t, <2>1, <2>2, StatusMoves, StatusOf
  <2>4. Q!Strand(r)
    BY <2>1, <2>3 DEF Q!Strand
  <2>5. QED
    BY <2>4 DEF Q!QNext
<1>8. QED
  BY <1>1, <1>4, <1>5, <1>6, <1>7 DEF Submit

(* The worker, a crash and recovery.                                       *)
LEMMA WorkMaps ==
  ASSUME Inv, Lag(store), NEW r,
         Begin \/ Finish \/ Drain \/ Crash \/ Serve \/ (r \in Request /\ FailInterrupted(r))
  PROVE  Q!QNext
<1>t. /\ store \in Store /\ store.mem \in [Request -> RecordStatus]
      /\ store.disk \in [Request -> RecordStatus]
      /\ (running # NoRequest => running \in Request /\ job[running] # NoJob)
      /\ outcome \in Terminal \ {"superseded"}
  BY DEF Inv, TypeOK, Store, JobsTyped
<1>s. pc # "none" => mode = "serving" /\ running # NoRequest /\ running \in Request
  BY <1>t DEF Inv, LiveRequestsScheduled, HoldsNothingDown
<1>1. CASE Begin
  <2>1. store.mem[running] = "queued" /\ running \in Request /\ mode = "serving"
        /\ mode' = mode
    BY <1>s, <1>1 DEF Begin, Inv, LiveRequestsScheduled, StatusAt
  <2>2. Begun(store, store', running, "running")
    <3>1. Update(store, store', running, "running")
      BY <1>1, UpdatesUpdate DEF Begin
    <3>2. QED
      BY <1>t, <2>1, <3>1, UpdateBegins, StatusFacts
  <2>3. QStatus' = [QStatus EXCEPT ![running] = "running"] /\ QStatus[running] = "queued"
    <3>1. store'.mem = [store.mem EXCEPT ![running] = "running"] /\ UNCHANGED job
      BY <1>1, <2>2 DEF Begin, Begun
    <3>2. QStatus' = [QStatus EXCEPT ![running] = "running"]
      BY <1>t, <2>1, <3>1, StatusMoves
    <3> QED
      BY <2>1, <3>2, StatusOf
  <2>4. Q!Begin
    BY <1>s, <1>1, <2>1, <2>3 DEF Begin, Q!Begin
  <2>5. QED
    BY <2>4 DEF Q!QNext
<1>2. CASE Finish
  <2>1. store.mem[running] = "running" /\ running \in Request /\ mode = "serving"
        /\ mode' = mode /\ job[running] # NoJob
    BY <1>s, <1>t, <1>2 DEF Finish, Inv, LiveRequestsScheduled, StatusAt
  <2>2. Ended(store, store', running, outcome)
    <3>1. Update(store, store', running, outcome)
      BY <1>2, UpdatesUpdate DEF Finish
    <3>2. QED
      BY <1>t, <2>1, <3>1, UpdateEnds
  <2>3. Q!Settle([QStatus EXCEPT ![running] = outcome])
    BY <1>t, <1>2, <2>1, <2>2, EndedSettles DEF Finish
  <2>4. QStatus[running] = "running"
    BY <2>1, StatusOf
  <2>5. Q!Finish
    BY <1>s, <1>t, <1>2, <2>1, <2>3, <2>4, QFacts DEF Finish, Q!Finish
  <2>6. QED
    BY <2>5 DEF Q!QNext
<1>3. CASE Drain
  <2>1. store.mem[running] \in Terminal \cup {"absent"} /\ mode = "serving"
    BY <1>s, <1>3 DEF Drain, Inv, LiveRequestsScheduled, StatusAt
  <2>2. QStatus[running] \notin Q!Live
    BY <1>s, <1>3, <2>1, StatusOf, StatusFacts, QFacts DEF Drain, Unfinished
  <2>3. UNCHANGED QStatus
    BY <1>3 DEF Drain, QStatus
  <2>4. Q!Advance
    BY <1>s, <1>3, <2>1, <2>2, <2>3 DEF Drain, Q!Advance
  <2>5. QED
    BY <2>4 DEF Q!QNext
<1>4. CASE Serve
  <2>1. running = NoRequest /\ mode # "serving" /\ mode' = "serving"
    BY <1>4 DEF Serve, Inv, HoldsNothingDown
  <2>2. \A q \in Request : QStatus[q] \notin Q!Live
    BY <1>4, StatusOf, QFacts DEF Serve, Unfinished
  <2>3. UNCHANGED <<QStatus, running, pending>>
    BY <1>4 DEF Serve, QStatus
  <2>4. Q!Serve
    BY <2>1, <2>2, <2>3 DEF Q!Serve
  <2>5. QED
    BY <2>4 DEF Q!QNext
<1>5. CASE r \in Request /\ FailInterrupted(r)
  <2>1. store.mem[r] \in Unfinished /\ job[r] # NoJob
    BY <1>5, StatusFacts DEF FailInterrupted, Inv, FreshUnused
  <2>2. Ended(store, store', r, "failed")
    <3>1. Update(store, store', r, "failed")
      BY <1>5, UpdatesUpdate DEF FailInterrupted
    <3>2. QED
      BY <1>t, <1>5, <2>1, <3>1, UpdateEnds, StatusFacts
  <2>3. Q!Settle([QStatus EXCEPT ![r] = "failed"])
    BY <1>5, <2>1, <2>2, EndedSettles, StatusFacts DEF FailInterrupted
  <2>4. QStatus[r] \in Q!Live
    BY <1>5, <2>1, StatusOf, StatusFacts, QFacts
  <2>5. Q!Interrupt(r)
    BY <1>5, <2>3, <2>4 DEF FailInterrupted, Q!Interrupt
  <2>6. QED
    BY <1>5, <2>5 DEF Q!QNext
<1>6. CASE Crash
  <2>1. store'.mem = store.disk /\ job' = job
    BY <1>t, <1>6 DEF Crash, Loaded, Store
  <2>2. \A q \in Request :
          QStatus'[q] = IF store.disk[q] # "absent" THEN store.disk[q]
                        ELSE IF job[q] = NoJob THEN "new" ELSE "forgotten"
    BY <2>1 DEF QStatus
  <2>3. ASSUME NEW q \in Request
        PROVE  /\ QStatus'[q] \in Q!Recovered(QStatus[q])
               /\ QStatus'[q] \in {"new", "forgotten"} \cup Q!Ended \cup Q!Live
    <3>1. store.disk[q] \in RecordStatus /\ store.mem[q] \in RecordStatus
      BY <1>t DEF Store
    <3>2. CASE store.disk[q] = store.mem[q]
      <4>1. QStatus'[q] = QStatus[q]
        BY <2>2, <3>2, StatusOf
      <4>2. QED
        <5>1. \A x : x \in Q!Recovered(x)
          BY DEF Q!Recovered
        <5>2. QStatus[q] \in RecordStatus \cup {"new", "forgotten"} /\ QStatus[q] # "absent"
          BY <3>1, StatusOf
        <5>3. QED
          BY <4>1, <5>1, <5>2, QFacts, StatusFacts
    <3>3. CASE store.disk[q] \in Unfinished /\ store.mem[q] \in Terminal \cup {"running"}
      <4>1. QStatus'[q] = store.disk[q] /\ QStatus[q] = store.mem[q]
        BY <2>2, <3>3, StatusOf, StatusFacts
      <4>2. QStatus[q] \in Q!Ended \cup {"running"} /\ QStatus[q] # "forgotten"
        BY <3>3, <4>1, QFacts DEF Terminal
      <4>3. Q!Recovered(QStatus[q]) = {QStatus[q]} \cup Q!Live
        BY <4>2 DEF Q!Recovered
      <4>4. QED
        BY <3>3, <4>1, <4>3, QFacts
    <3>4. CASE store.mem[q] = "absent" /\ store.disk[q] # "absent"
      <4>1. QStatus'[q] = store.disk[q] /\ QStatus[q] = "forgotten"
        BY <2>2, <3>4, StatusOf DEF Inv, FreshUnused
      <4>2. "forgotten" \notin Q!Ended \cup {"running"}
        BY DEF Q!Ended, Q!Done
      <4>3. Q!Recovered("forgotten") = {"forgotten"} \cup Q!Ended \cup Q!Live
        BY <4>2 DEF Q!Recovered
      <4>4. QED
        BY <3>1, <3>4, <4>1, <4>3, QFacts, StatusFacts
    <3>5. QED
      BY <3>2, <3>3, <3>4 DEF Lag
  <2>4. QStatus' \in [Request -> {"new", "forgotten"} \cup Q!Ended \cup Q!Live]
    BY <2>3 DEF QStatus
  <2>7. Q!Crash
    BY <1>6, <2>3, <2>4 DEF Crash, Q!Crash
  <2>8. QED
    BY <2>7 DEF Q!QNext
<1>7. QED
  BY <1>1, <1>2, <1>3, <1>4, <1>5, <1>6

(* The scheduler, with all its threads, faults and crashes, implements the *)
(* contract its Varlink interface documents.                               *)
THEOREM SchedulerImplementsQueue == Spec => ImplementsQueue
<1>1. Init => Q!QInit
  BY DEF Init, EmptyStore, Q!QInit, QStatus
<1>2. Inv /\ Lag(store) /\ [Next]_vars => [Q!QNext]_QVars
  <2> SUFFICES ASSUME Inv, Lag(store), [Next]_vars
               PROVE  Q!QNext \/ UNCHANGED QVars
    OBVIOUS
  <2>1. ASSUME NEW c \in Client, SubmitApply(c)
        PROVE  Q!QNext \/ UNCHANGED QVars
    BY <2>1, SubmitMaps DEF SubmitApply
  <2>2. CASE \/ \E c \in Client : SubmitReconcile(c)
             \/ BootSubmit \/ TimerSubmits
    <3>1. PICK reply \in Request \cup {NoRequest} : Submit("reconcile", NoState, reply)
      BY <2>2 DEF SubmitReconcile, BootSubmit, TimerSubmits
    <3>2. mode = "serving" /\ mode' = mode
      BY <2>2 DEF SubmitReconcile, BootSubmit, TimerSubmits, Inv, HoldsNothingDown
    <3>3. QED
      BY <3>1, <3>2, SubmitMaps
  <2>3. ASSUME NEW c \in Client, SubmitWhenIdle(c)
        PROVE  Q!QNext \/ UNCHANGED QVars
    <3>1. CASE running # NoRequest \/ pending # NoRequest
      BY <2>3, <3>1 DEF SubmitWhenIdle, QVars, QStatus
    <3>2. CASE ~(running # NoRequest \/ pending # NoRequest)
      BY <2>3, <3>2, SubmitMaps DEF SubmitWhenIdle
    <3>3. QED
      BY <3>1, <3>2
  <2>4. CASE Begin \/ Finish \/ Drain \/ Crash \/ Serve
             \/ \E r \in Request : FailInterrupted(r)
    BY <2>4, WorkMaps
  <2>5. CASE \/ \E c \in Client : RetryMigration(c) \/ WaitApply(c) \/ GiveUp(c)
             \/ TimerFires \/ RefuseState \/ SaveState \/ ApplyState
    BY <2>5 DEF RetryMigration, WaitApply, GiveUp, TimerFires, RefuseState, SaveState,
       ApplyState, QVars, QStatus
  <2>6. CASE Restart \/ Quiet \/ UNCHANGED vars
    BY <2>6 DEF Restart, Quiet, vars, QVars, QStatus
  <2>7. QED
    BY <2>1, <2>2, <2>3, <2>4, <2>5, <2>6 DEF Next, Worker
<1>3. QED
  BY <1>1, <1>2, SchedulerInvariant, FilesLag, PTL
  DEF Spec, ImplementsQueue, Q!QSpec, QVars, Q!qvars


-----------------------------------------------------------------------------
(* A success is not hollow. An app is skipped when its published target is *)
(* not the state being carried out, so one must know whose target is       *)
(* published, and that no newer apply is still in the queue.               *)

(* The newest published target is that of the newest apply, and an apply   *)
(* at the end of the queue is the newest one.                              *)
Target ==
  IF newest = NoRequest THEN target = NoTarget
  ELSE job[newest].kind = "apply" /\ target = Generation[job[newest].state]

TailIsNewest ==
  QueueTail # NoRequest /\ job[QueueTail].kind = "apply" => newest = QueueTail

(* The last attempt has used the newest state.                             *)
Current == newest # NoRequest => job[newest].state = persisted

Succeeding ==
  \/ pc = "finish" /\ outcome = "succeeded"
  \/ pc \in {"drain", "none"} /\ last # NoRequest /\ store.mem[last] = "succeeded"

Deployed ==
  pending = NoRequest /\ persisted # NoState /\ Current /\ Succeeding
    => app = Generation[persisted]

DeployInv ==
  /\ Target /\ TailIsNewest /\ Deployed
  /\ last # NoRequest => job[last] # NoJob

(* A submission publishes a target only with a new newest apply, and then *)
(* no result counts until the next one.                                    *)
LEMMA SubmitDeploys ==
  ASSUME Inv, DeployInv, NEW kind \in {"apply", "reconcile"}, NEW s \in State \cup {NoState},
         NEW reply \in Request \cup {NoRequest},
         Submit(kind, s, reply), UNCHANGED <<persisted, app, outcome>>
  PROVE  DeployInv'
<1>t. /\ store \in Store /\ store.mem \in [Request -> RecordStatus]
      /\ job \in [Request -> Job] /\ NoRequest \notin Request
      /\ newest \in Request \cup {NoRequest} /\ last \in Request \cup {NoRequest}
      /\ running = NoRequest => pending = NoRequest /\ pc = "none"
  BY SchedulerAssumption DEF Inv, TypeOK, Store, LiveRequestsScheduled
<1>1. CASE Joins(kind, s) /\ Join(reply)
  <2>1. newest' = newest
    BY <1>1 DEF Joins, Join, DeployInv, TailIsNewest
  <2>2. QED
    BY <1>1, <2>1 DEF Join, DeployInv, Target, TailIsNewest, Deployed, QueueTail, Current,
       Succeeding
<1>2. CASE Reject(reply)
  BY <1>2 DEF Reject, history, DeployInv, Target, TailIsNewest, Deployed, QueueTail,
     Current, Succeeding
<1>3. ASSUME NEW r \in Request, Enqueue(kind, s, r)
      PROVE  /\ job'[r].kind = kind /\ job'[r] # NoJob /\ r # newest /\ r # last
             /\ \A q \in Request \ {r} : job'[q] = job[q]
             /\ kind = "apply" => newest' = r /\ last' = NoRequest
             /\ kind # "apply" => newest' = newest /\ last' = last
             /\ Target' /\ (last' # NoRequest => job'[last'] # NoJob)
  <2>1. /\ job'[r] = [kind |-> kind, state |-> s] /\ job'[r] # NoJob
        /\ \A q \in Request \ {r} : job'[q] = job[q]
    BY <1>t, <1>3 DEF Enqueue, NoJob
  <2>2. r # newest /\ r # last
    BY <1>t, <1>3 DEF Enqueue, DeployInv, Target, NoJob
  <2>3. /\ kind = "apply" => newest' = r /\ last' = NoRequest /\ target' = Generation[s]
        /\ kind # "apply" => UNCHANGED <<newest, last, target>>
    BY <1>3 DEF Enqueue
  <2>4. QED
    BY <1>t, <2>1, <2>2, <2>3 DEF DeployInv, Target
<1>4. ASSUME NEW r \in Request, StartWorker(kind, s, r, reply)
      PROVE  DeployInv'
  BY <1>t, <1>3, <1>4 DEF StartWorker, DeployInv, TailIsNewest, Deployed, Succeeding, QueueTail
<1>5. ASSUME NEW r \in Request, CannotStart(kind, s, r, reply)
      PROVE  DeployInv'
  <2>1. /\ Enqueue(kind, s, r) /\ UNCHANGED <<running, pending, pc>>
        /\ running = NoRequest
    BY <1>5 DEF CannotStart
  <2>2. \A q \in Request \ {r} : store'.mem[q] = store.mem[q] \/ store'.mem[q] = "absent"
    <3>1. Update(Created(store, r), store', r, "failed")
      BY <1>5, UpdatesUpdate DEF CannotStart
    <3>2. /\ Created(store, r) \in Store
          /\ Created(store, r).mem = [store.mem EXCEPT ![r] = "queued"]
      BY <1>t, CreatedStore
    <3>3. Ended(Created(store, r), store', r, "failed")
      BY <1>t, <3>1, <3>2, UpdateEnds, StatusFacts
    <3>4. QED
      BY <1>t, <3>2, <3>3 DEF Ended
  <2>3. Deployed'
    BY <1>t, <1>3, <2>1, <2>2 DEF DeployInv, Deployed, Current, Succeeding, Target
  <2>4. QED
    BY <1>t, <1>3, <2>1, <2>3 DEF DeployInv, TailIsNewest, QueueTail
<1>6. ASSUME NEW r \in Request, ReplacePending(kind, s, r, reply)
      PROVE  DeployInv'
  BY <1>t, <1>3, <1>6 DEF ReplacePending, DeployInv, TailIsNewest, Deployed, QueueTail
<1>7. ASSUME NEW r \in Request, Strand(kind, s, r, reply)
      PROVE  DeployInv'
  <2>1. /\ job[r] = NoJob /\ job' = [job EXCEPT ![r] = [kind |-> kind, state |-> s]]
        /\ UNCHANGED <<running, pending, pc, target, newest, last>>
    BY <1>7 DEF Strand, history
  <2>2. r # newest /\ r # last /\ r # QueueTail
    BY <1>t, <2>1 DEF DeployInv, Target, NoJob, QueueTail, Inv, JobsTyped
  <2>3. store'.mem = [store.mem EXCEPT ![r] = "queued"]
    BY <1>t, <1>7, CreatedStore DEF Strand
  <2>4. \A q \in Request \ {r} : job'[q] = job[q] /\ store'.mem[q] = store.mem[q]
    BY <1>t, <2>1, <2>3
  <2>5. QueueTail' = QueueTail /\ (QueueTail # NoRequest => QueueTail \in Request \ {r})
    BY <2>1, <2>2 DEF QueueTail, Inv, TypeOK
  <2>6. Target' /\ TailIsNewest' /\ (last' # NoRequest => job'[last'] # NoJob)
    BY <1>t, <2>1, <2>2, <2>4, <2>5 DEF DeployInv, Target, TailIsNewest
  <2>7. Deployed'
    BY <1>t, <2>1, <2>2, <2>4 DEF DeployInv, Deployed, Current, Succeeding
  <2>8. QED
    BY <2>6, <2>7 DEF DeployInv
<1>8. QED
  BY <1>1, <1>2, <1>4, <1>5, <1>6, <1>7 DEF Submit

LEMMA DeployStep ==
  ASSUME Inv, DeployInv, [Next]_vars PROVE DeployInv'
<1>t. /\ store \in Store /\ store.mem \in [Request -> RecordStatus]
      /\ running \in Request \cup {NoRequest} /\ NoRequest \notin Request
      /\ newest \in Request \cup {NoRequest} /\ last \in Request \cup {NoRequest}
      /\ outcome \in Terminal
  BY SchedulerAssumption DEF Inv, TypeOK, Store
<1>1. ASSUME NEW kind \in {"apply", "reconcile"}, NEW s \in State \cup {NoState},
             NEW reply \in Request \cup {NoRequest},
             Submit(kind, s, reply), UNCHANGED <<persisted, app, outcome>>
      PROVE  DeployInv'
  BY <1>1, SubmitDeploys
<1>2. CASE \E c \in Client : SubmitApply(c) \/ SubmitReconcile(c)
  BY <1>1, <1>2 DEF SubmitApply, SubmitReconcile
<1>3. CASE BootSubmit \/ TimerSubmits
  BY <1>1, <1>3 DEF BootSubmit, TimerSubmits
<1>4. CASE UNCHANGED <<store, job, running, pending, pc, outcome, persisted, app, target,
                       newest, last>>
  BY <1>4 DEF DeployInv, Target, TailIsNewest, Deployed, QueueTail, Current, Succeeding
<1>5. CASE \E c \in Client : SubmitWhenIdle(c)
  BY <1>1, <1>4, <1>5 DEF SubmitWhenIdle, history
<1>6. CASE \/ \E c \in Client : RetryMigration(c) \/ WaitApply(c) \/ GiveUp(c)
           \/ TimerFires \/ Restart \/ Serve \/ Quiet \/ UNCHANGED vars
  BY <1>4, <1>6 DEF RetryMigration, WaitApply, GiveUp, TimerFires, Restart, Serve, Quiet,
     vars, dpvars, history
<1>7. CASE Begin \/ RefuseState \/ SaveState
  BY <1>7 DEF Begin, RefuseState, SaveState, dpvars, history, DeployInv, Target,
     TailIsNewest, Deployed, QueueTail, Current, Succeeding
<1>8. CASE ApplyState
  <2>1. Deployed'
    <3>1. SUFFICES ASSUME persisted # NoState, Current, outcome' = "succeeded"
                   PROVE  app' = Generation[persisted]
      BY <1>8 DEF ApplyState, Deployed, Current, Succeeding, history
    <3>2. ~AppSuperseded
      BY <3>1 DEF AppSuperseded, DeployInv, Target, Current
    <3>3. ApplyApp
      BY <1>8, <3>1 DEF ApplyState, ApplyNothing, AppFails, DeviceFails
    <3>4. QED
      BY <3>2, <3>3 DEF ApplyApp
  <2>2. QED
    BY <1>8, <2>1 DEF ApplyState, history, DeployInv, Target, TailIsNewest, QueueTail
<1>9. CASE Finish
  <2>1. /\ running \in Request /\ store.mem[running] = "running" /\ job[running] # NoJob
        /\ pc = "finish" /\ pc' = "drain" /\ last' = running
        /\ UNCHANGED <<job, running, pending, persisted, app, target, newest>>
    BY <1>9, <1>t DEF Finish, Inv, LiveRequestsScheduled, StatusAt, JobsTyped, dpvars
  <2>2. store'.mem[running] = "succeeded" => outcome = "succeeded"
    <3>1. Update(store, store', running, outcome)
      BY <1>9, UpdatesUpdate DEF Finish
    <3>2. Ended(store, store', running, outcome)
      BY <1>t, <2>1, <3>1, UpdateEnds
    <3>3. QED
      BY <3>2 DEF Ended
  <2>3. Deployed'
    BY <2>1, <2>2 DEF DeployInv, Deployed, Current, Succeeding
  <2>4. QED
    BY <2>1, <2>3 DEF DeployInv, Target, TailIsNewest, QueueTail
<1>10. CASE Drain
  <2>1. running # NoRequest /\ pending' = NoRequest
    BY <1>10 DEF Drain, Inv, LiveRequestsScheduled
  <2>2. Deployed'
    BY <1>10 DEF Drain, dpvars, history, DeployInv, Deployed, Current, Succeeding
  <2>3. QED
    BY <1>10, <2>1, <2>2 DEF Drain, dpvars, history, DeployInv, Target, TailIsNewest, QueueTail
<1>11. CASE Crash
  BY <1>11 DEF Crash, DeployInv, Target, TailIsNewest, Deployed, QueueTail, Succeeding
<1>12. CASE \E r \in Request : FailInterrupted(r)
  <2>1. PICK r \in Request : FailInterrupted(r)
    BY <1>12
  <2>2. \A q \in Request : store'.mem[q] = "succeeded" => store.mem[q] = "succeeded"
    <3>1. Update(store, store', r, "failed") /\ store.mem[r] # "absent"
      BY <2>1, StatusFacts, UpdatesUpdate DEF FailInterrupted
    <3>2. Ended(store, store', r, "failed")
      BY <1>t, <3>1, UpdateEnds, StatusFacts
    <3>3. QED
      BY <3>2 DEF Ended
  <2>3. UNCHANGED <<job, running, pending, pc, outcome, persisted, app, target, newest, last>>
    BY <2>1 DEF FailInterrupted, dpvars, history
  <2>4. QED
    BY <1>t, <2>2, <2>3 DEF DeployInv, Target, TailIsNewest, Deployed, QueueTail, Current,
       Succeeding
<1>13. QED
  BY <1>2, <1>3, <1>5, <1>6, <1>7, <1>8, <1>9, <1>10, <1>11, <1>12 DEF Next, Worker

(* A success is never hollow: once the newest apply has been carried out,  *)
(* the app generation of the saved state runs, however requests were       *)
(* joined, replaced and superseded before (_is_current_app_superseded).    *)
THEOREM SuccessDeploys == Spec => []SuccessMeansDeployed
<1>1. Init => DeployInv
  BY DEF Init, DeployInv, Target, TailIsNewest, Deployed, QueueTail, Succeeding
<1>2. Inv /\ DeployInv /\ [Next]_vars => DeployInv'
  BY DeployStep
<1>3. Inv /\ DeployInv => SuccessMeansDeployed
  BY DEF Inv, LiveRequestsScheduled, DeployInv, Deployed, Current, Succeeding,
     SuccessMeansDeployed
<1>4. QED
  BY <1>1, <1>2, <1>3, SchedulerInvariant, PTL DEF Spec
=============================================================================
