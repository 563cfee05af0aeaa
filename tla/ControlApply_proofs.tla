------------------------- MODULE ControlApply_proofs -------------------------
(* Proofs about ControlApply, for every set of commands, of reconnect       *)
(* threads and of requests, and every number of lost answers and crashes:   *)
(*   - SuccessIsTrue: "State applied" is said of what was carried out. A    *)
(*     thread's request carries the thread's own job, and a request that    *)
(*     has succeeded carries a state that was applied (Requests, Carried).  *)
(*   - AnsweredOnce: what a command was told is what control remembers of   *)
(*     it, and nothing is remembered of a command that runs (Answered).     *)
(*   - PublishesInOrder: no thread waits for a request that was accepted    *)
(*     after the latest one, for the lock is held from the submission to    *)
(*     the marker (Order, Marked).                                          *)
EXTENDS ControlApply, FiniteSetTheorems, TLAPS

(* The values of the variables.                                             *)
Statuses  == {"new", "forgotten"} \cup Ended \cup Live
Succeeded == {"succeeded", "succeeded_with_warnings"}
Where     == {"idle", "announce", "lock", "call", "mark", "wait", "check", "hash",
              "publish", "tunnel", "report", "reply"}
Local     == [at : Where, req : Request \cup {NoRequest}, outcome : Outcome,
              seen : State \cup {NoState}]
JobType   == [kind : {"none", "apply", "reconcile"}, state : State \cup {NoState}]
Answer    == [id : Command, outcome : Outcome]

Typed ==
  /\ status \in [Request -> Statuses]
  /\ head \in Request \cup {NoRequest} /\ next \in Request \cup {NoRequest}
  /\ head = NoRequest => next = NoRequest
  /\ payload \in [Request -> JobType]
  /\ doc \in State \cup {NoState} /\ born \in [Request -> Nat]
  /\ local \in [Thread -> Local]
  /\ results \in Seq(Answer)
  /\ replies \in [Command -> SUBSET Outcome]

(* A request that a thread has submitted is the thread's own.               *)
Submitted(t) == At(t) \in {"mark", "wait", "check"}
Waiting(t)   == At(t) \in {"wait", "check"}

Requests ==
  /\ latest \in Request => status[latest] # "new"
  /\ \A t \in Thread : Submitted(t) =>
       /\ local[t].req \in Request /\ status[local[t].req] # "new"
       /\ t \in Command => payload[local[t].req] = Job(t)

(* What is called applied was carried out, at every stage of a command.     *)
Carried ==
  /\ \A r \in Request : status[r] \in Succeeded => payload[r].state \in applied
  /\ \A t \in Thread :
       /\ At(t) = "check" => local[t].outcome \in {"applied", "error"}
       /\ At(t) \in {"hash", "publish", "tunnel"} => local[t].outcome = "applied"
  /\ \A c \in Command : local[c].outcome = "applied" => StateOf[c] \in applied \cup {NoState}
  /\ \A i \in DOMAIN results : results[i].outcome = "applied" =>
       StateOf[results[i].id] \in applied \cup {NoState}

(* Control remembers one answer of a command, and the answer that was given. *)
Answered ==
  /\ \A i, j \in DOMAIN results : results[i].id = results[j].id => i = j
  /\ \A c \in Command : At(c) # "idle" => Cached(c) = {}
  /\ MaxResults >= Cardinality(Command) =>
       \A c \in Command : replies[c] # {} =>
         \E i \in DOMAIN results : results[i].id = c /\ replies[c] = {results[i].outcome}

(* Requests are numbered as they are accepted: none is newer than the last  *)
(* of the queue.                                                            *)
Accepted == {q \in Request : born[q] > 0}

Order ==
  /\ \A q \in Request : status[q] = "new" => born[q] = 0
  /\ IsFiniteSet(Accepted) /\ \A q \in Request : born[q] <= Cardinality(Accepted)
  /\ Newest # NoRequest => \A q \in Request : born[q] <= born[Newest]

(* The lock covers the submission and the marker: no waiting thread has a   *)
(* request accepted after the one that is marked next, or after the latest. *)
Marked ==
  /\ \A t \in Thread : At(t) \in {"call", "mark"} <=> holder = t
  /\ \A t, u \in Thread : At(t) = "mark"
       /\ Waiting(u) => born[local[u].req] <= born[local[t].req]
  /\ \A u \in Thread : Waiting(u) => latest \in Request
       /\ born[local[u].req] <= born[latest]

Inv == Typed /\ Requests /\ Carried /\ Answered /\ Order /\ Marked /\ SuccessWasApplied

-----------------------------------------------------------------------------
(* The data plane alone.                                                   *)
LEMMA Settled ==
  ASSUME NEW new \in [Request -> Statuses], Settle(new)
  PROVE  /\ status' \in [Request -> Statuses]
         /\ \A r \in Request : status'[r] \in {new[r], "forgotten"}
BY DEF Settle, Statuses

LEMMA PlaneKeeps ==
  ASSUME Inv, UNCHANGED <<local, holder, latest, results, replies, born>>, Typed',
         \A r \in Request : status'[r] = "new" => status[r] = "new",
         \A r \in Request : status[r] # "new" /\ status'[r] # "new"
           /\ payload[r].kind # "reconcile" => payload'[r] = payload[r],
         \A r \in Request : status'[r] \in Succeeded => payload'[r].state \in applied',
         applied \subseteq applied', Newest' \in {Newest, NoRequest}
  PROVE  Inv'
<1>1. Requests'
  BY DEF Inv, Requests, Submitted, At, Job
<1>2. Carried'
  BY DEF Inv, Carried, At
<1>3. Answered'
  BY DEF Inv, Answered, At, Cached
<1>4. Order'
  BY DEF Inv, Order, Accepted
<1>5. Marked'
  BY DEF Inv, Marked, At, Waiting
<1>6. SuccessWasApplied'
  BY DEF Inv, SuccessWasApplied
<1> QED
  BY <1>1, <1>2, <1>3, <1>4, <1>5, <1>6 DEF Inv

LEMMA PlaneBeginKeeps ==
  ASSUME Inv, PlaneBegin
  PROVE  Inv'
<1>1. head \in Request /\ status[head] = "queued"
        /\ status' = [status EXCEPT ![head] = "running"]
      /\ UNCHANGED <<serving, head, next, doc, born, applied, local, holder, latest,
           results, told>>
  BY DEF PlaneBegin, Begin, PlaneOnly, Inv, Typed
<1>2. payload' = IF payload[head].kind = "reconcile" THEN [payload EXCEPT ![head].state = doc]
               ELSE payload
  BY DEF PlaneBegin
<1>3. payload' \in [Request -> JobType]
        /\ \A r \in Request : r # head \/ payload[r].kind # "reconcile" =>
             payload'[r] = payload[r]
  <2>1. CASE payload[head].kind = "reconcile"
    <3>1. [payload[head] EXCEPT !.state = doc] \in JobType
      BY <1>1 DEF Inv, Typed, JobType
    <3>2. payload' = [payload EXCEPT ![head] = [payload[head] EXCEPT !.state = doc]]
      BY <1>2, <2>1
    <3> QED
      BY <1>1, <2>1, <3>1, <3>2 DEF Inv, Typed
  <2>2. CASE payload[head].kind # "reconcile"
    BY <1>2, <2>2 DEF Inv, Typed
  <2> QED
    BY <2>1, <2>2
<1>4. Typed'
  BY <1>1, <1>3 DEF Inv, Typed, Statuses, Live, told
<1>5. \A r \in Request : status'[r] \in Succeeded => payload'[r].state \in applied
  BY <1>1, <1>3 DEF Inv, Typed, Carried, Succeeded
<1>6. \A r \in Request : status'[r] = "new" => status[r] = "new"
  BY <1>1 DEF Inv, Typed
<1>7. Newest' = Newest
  BY <1>1 DEF Newest
<1> QED
  BY <1>1, <1>3, <1>4, <1>5, <1>6, <1>7, PlaneKeeps DEF told

LEMMA PlaneSaveKeeps ==
  ASSUME Inv, PlaneSave
  PROVE  Inv'
<1>1. UNCHANGED <<serving, status, head, next, payload, born, applied, local, holder,
        latest, results, told>>
      /\ doc' = payload[head].state /\ head \in Request
  BY DEF PlaneSave, PlaneOnly, Inv, Typed
<1>2. Typed'
  BY <1>1 DEF Inv, Typed, told, JobType
<1>3. Newest' = Newest
  BY <1>1 DEF Newest
<1> QED
  BY <1>1, <1>2, <1>3, PlaneKeeps DEF Inv, Carried, told

LEMMA PlaneFinishKeeps ==
  ASSUME Inv, PlaneFinish
  PROVE  Inv'
<1>1. UNCHANGED <<serving, head, next, payload, doc, born, local, holder, latest,
        results, told>>
      /\ head \in Request /\ status[head] = "running"
  BY DEF PlaneFinish, PlaneOnly, Inv, Typed
<1>2. PICK s \in {"succeeded", "failed"} :
        /\ Settle([status EXCEPT ![head] = s])
        /\ s # "failed" => payload[head].state = doc
        /\ applied' = IF s = "failed" THEN applied ELSE applied \cup {doc}
  BY DEF PlaneFinish
<1>3. [status EXCEPT ![head] = s] \in [Request -> Statuses]
  BY <1>1 DEF Inv, Typed, Statuses, Ended, Done
<1>4. status' \in [Request -> Statuses]
      /\ \A r \in Request : status'[r] \in {[status EXCEPT ![head] = s][r], "forgotten"}
  BY <1>2, <1>3, Settled
<1>5. Typed'
  BY <1>1, <1>4 DEF Inv, Typed, told
<1>6. \A r \in Request : status'[r] \in Succeeded => payload'[r].state \in applied'
  BY <1>1, <1>2, <1>4 DEF Inv, Typed, Carried, Succeeded
<1>7. \A r \in Request : status'[r] = "new" => status[r] = "new"
  BY <1>1, <1>4 DEF Inv, Typed
<1>8. Newest' = Newest /\ applied \subseteq applied'
  BY <1>1, <1>2 DEF Newest
<1> QED
  BY <1>1, <1>5, <1>6, <1>7, <1>8, PlaneKeeps DEF told

LEMMA PlaneGoesOnKeeps ==
  ASSUME Inv, PlaneGoesOn
  PROVE  Inv'
<1>1. UNCHANGED <<payload, doc, born, applied, local, holder, latest, results, told>>
  BY DEF PlaneGoesOn, PlaneOnly
<1>2. /\ status' \in [Request -> Statuses] /\ head' \in Request \cup {NoRequest}
           /\ next' \in Request \cup {NoRequest}
                /\ (head' = NoRequest => next' = NoRequest)
      /\ \A r \in Request : /\ status'[r] = "new" => status[r] = "new"
                            /\ status'[r] \in Succeeded => status[r] \in Succeeded
      /\ Newest' \in {Newest, NoRequest}
  <2>1. CASE Advance
    BY <2>1 DEF Advance, Inv, Typed, Newest
  <2>2. CASE Serve
    BY <2>2 DEF Serve, Inv, Typed, Newest
  <2>3. ASSUME NEW q \in Request, Interrupt(q)
        PROVE  /\ status' \in [Request -> Statuses] /\ UNCHANGED <<head, next>>
               /\ \A r \in Request : /\ status'[r] = "new" => status[r] = "new"
                                     /\ status'[r] \in Succeeded =>
                                          status[r] \in Succeeded
    <3>1. [status EXCEPT ![q] = "failed"] \in [Request -> Statuses]
      BY DEF Inv, Typed, Statuses, Ended, Done
    <3>2. status' \in [Request -> Statuses]
          /\ \A r \in Request : status'[r] \in {[status EXCEPT ![q] = "failed"][r],
               "forgotten"}
      BY <2>3, <3>1, Settled DEF Interrupt
    <3> QED
      BY <2>3, <3>2 DEF Interrupt, Inv, Typed, Succeeded
  <2>4. CASE \E q \in Request : Interrupt(q)
    BY <2>3, <2>4 DEF Inv, Typed, Newest
  <2> QED
    BY <2>1, <2>2, <2>4 DEF PlaneGoesOn
<1>3. Typed'
  BY <1>1, <1>2 DEF Inv, Typed, told
<1> QED
  BY <1>1, <1>2, <1>3, PlaneKeeps DEF Inv, Carried, told

LEMMA PlaneCrashKeeps ==
  ASSUME Inv, PlaneCrash
  PROVE  Inv'
<1>1. UNCHANGED <<payload, doc, born, applied, local, holder, latest, results, told>>
      /\ head' = NoRequest /\ next' = NoRequest
  BY DEF PlaneCrash, Crash
<1>2. /\ status' \in [Request -> Statuses]
      /\ \A r \in Request : status[r] \in Statuses /\ status'[r] \in Recovered(status[r])
  BY DEF PlaneCrash, Crash, Inv, Typed, Statuses
<1>3. \A r \in Request : status'[r] = "new" => status[r] = "new"
  BY <1>2 DEF Recovered, Statuses, Ended, Done, Live
<1>4. \A r \in Request : status'[r] \in Succeeded => payload[r].state \in applied
  <2> SUFFICES ASSUME NEW r \in Request, status'[r] \in Succeeded
               PROVE  payload[r].state \in applied
    OBVIOUS
  <2>1. CASE status[r] = "forgotten"
    BY <2>1 DEF PlaneCrash, Succeeded, Done
  <2>2. CASE status[r] # "forgotten"
    <3>1. status[r] \in Succeeded
      BY <1>2, <2>2 DEF Recovered, Statuses, Ended, Done, Live, Succeeded
    <3> QED
      BY <3>1 DEF Inv, Carried
  <2> QED
    BY <2>1, <2>2
<1>5. Typed'
  BY <1>1, <1>2 DEF Inv, Typed, told
<1>6. Newest' = NoRequest
  BY <1>1 DEF Newest
<1> QED
  BY <1>1, <1>3, <1>4, <1>5, <1>6, PlaneKeeps DEF told

-----------------------------------------------------------------------------
(* A submission gets the newest request, with the job it asked for, and    *)
(* leaves the requests that are there alone.                               *)
LEMMA Arrives ==
  ASSUME Inv, NEW job \in JobType, Arrive(job)
  PROVE  /\ Given(job) \in Request /\ status'[Given(job)] # "new"
              /\ payload'[Given(job)] = job
         /\ \A q \in Request : born'[q] <= born'[Given(job)]
         /\ \A q \in Request : status[q] # "new" =>
              status'[q] # "new" /\ payload'[q] = payload[q] /\ born'[q] = born[q]
         /\ \A q \in Request : status'[q] \in Succeeded => status[q] \in Succeeded
         /\ status' \in [Request -> Statuses] /\ payload' \in [Request -> JobType]
         /\ born' \in [Request -> Nat] /\ head' \in Request \cup {NoRequest}
         /\ next' \in Request \cup {NoRequest}
              /\ (head' = NoRequest => next' = NoRequest) /\ UNCHANGED <<doc, applied>>
         /\ Order'
<1> DEFINE r == Given(job)
           n == Cardinality(Accepted)
<1>1. CASE Joins(job)
  <2>1. r = Newest /\ UNCHANGED plane
    BY <1>1 DEF Arrive, Given
  <2>2. r \in Request /\ payload[r] = job /\ status[r] # "new"
    BY <1>1, <2>1 DEF Joins, Newest, Inv, Typed, Live
  <2>3. \A q \in Request : born[q] <= born[r]
    BY <1>1, <2>1 DEF Joins, Inv, Order
  <2> HIDE DEF r
  <2>4. Order'
    BY <2>1 DEF plane, Inv, Order, Accepted, Newest
  <2> QED
    BY <2>1, <2>2, <2>3, <2>4 DEF plane, Inv, Typed, r
<1>2. CASE ~Joins(job)
  <2>1. r \in Request /\ status[r] = "new" /\ r # NoRequest
    BY <1>2, ControlAssumption DEF Arrive, Given, Unused
  <2>2. /\ Enter(r) \/ Replace(r)
        /\ payload' = [payload EXCEPT ![r] = job]
        /\ born' = [born EXCEPT ![r] = n + 1]
        /\ UNCHANGED <<doc, applied>>
    BY <1>2 DEF Arrive, Accepted
  <2> HIDE DEF r
  <2>3. n \in Nat /\ born[r] = 0 /\ \A q \in Request : born[q] \in Nat /\ born[q] <= n
    BY <2>1, FS_CardinalityType DEF Inv, Order, Typed
  <2> HIDE DEF n
  <2>4. born' \in [Request -> Nat] /\ born'[r] = n + 1
          /\ (\A q \in Request : q # r => born'[q] = born[q])
        /\ (\A q \in Request : born'[q] <= n + 1)
    BY <2>1, <2>2, <2>3 DEF Inv, Typed
  <2>5. Accepted' = Accepted \cup {r} /\ r \notin Accepted
    BY <2>1, <2>3, <2>4 DEF Accepted
  <2>6. IsFiniteSet(Accepted') /\ Cardinality(Accepted') = n + 1
    BY <2>5, FS_AddElement DEF Inv, Order, n
  <2>7. payload' \in [Request -> JobType] /\ payload'[r] = job
          /\ (\A q \in Request : q # r => payload'[q] = payload[q])
    BY <2>1, <2>2 DEF Inv, Typed
  <2>8. /\ status' \in [Request -> Statuses] /\ status'[r] # "new"
        /\ head' \in Request \cup {NoRequest} /\ next' \in Request \cup {NoRequest}
        /\ (head' = NoRequest => next' = NoRequest)
        /\ \A q \in Request : /\ status'[q] = "new" => status[q] = "new"
                              /\ status'[q] \in Succeeded => status[q] \in Succeeded
        /\ Newest' \in {r, NoRequest}
    <3>1. CASE Enter(r) /\ status' = [status EXCEPT ![r] = "queued"] /\ head' = r
      BY <2>1, <3>1 DEF Enter, Inv, Typed, Statuses, Live, Succeeded, Newest
    <3>2. CASE Enter(r) /\ Settle([status EXCEPT ![r] = "failed"]) /\ head' = head
      <4>1. [status EXCEPT ![r] = "failed"] \in [Request -> Statuses]
        BY DEF Inv, Typed, Statuses, Ended, Done
      <4>2. status' \in [Request -> Statuses]
            /\ \A q \in Request : status'[q] \in {[status EXCEPT ![r] = "failed"][q],
                 "forgotten"}
        BY <3>2, <4>1, Settled
      <4> QED
        BY <2>1, <3>2, <4>2 DEF Enter, Newest, Inv, Typed, Succeeded
    <3>3. CASE Replace(r)
      <4> DEFINE new == [status EXCEPT ![r] = "queued", ![next] = "superseded"]
      <4>1. CASE next = NoRequest
        BY <2>1, <3>3, <4>1 DEF Replace, Inv, Typed, Statuses, Live, Succeeded, Newest
      <4>2. CASE next # NoRequest
        <5>1. new \in [Request -> Statuses] /\ Settle(new)
          BY <3>3, <4>2 DEF Replace, Inv, Typed, Statuses, Ended, Live
        <5>2. status' \in [Request -> Statuses]
              /\ \A q \in Request : status'[q] \in {new[q], "forgotten"}
          <6> HIDE DEF new
          <6> QED
            BY <5>1, Settled
        <5>3. new[r] # "new"
                /\ \A q \in Request : new[q] = status[q] \/ new[q] \in {"queued",
                     "superseded"}
          BY <2>1 DEF Inv, Typed
        <5> HIDE DEF new
        <5> QED
          BY <2>1, <3>3, <5>2, <5>3 DEF Replace, Newest, Inv, Typed, Succeeded
      <4> QED
        BY <4>1, <4>2
    <3> QED
      BY <2>2, <3>1, <3>2, <3>3 DEF Enter
  <2>9. Order'
    BY <2>3, <2>4, <2>6, <2>8 DEF Order, Inv
  <2> QED
    BY <2>1, <2>2, <2>4, <2>7, <2>8, <2>9 DEF r
<1> QED
  BY <1>1, <1>2

LEMMA ArriveKeeps ==
  ASSUME Inv, NEW job \in JobType, Arrive(job), UNCHANGED <<local, holder, latest,
           results, told>>
  PROVE  Inv'
<1>1. Typed'
  BY Arrives DEF Inv, Typed, told
<1>2. Requests'
  BY Arrives DEF Inv, Requests, Submitted, At, Job
<1>3. Carried'
  <2>1. \A r \in Request : status'[r] \in Succeeded => payload'[r].state \in applied'
    BY Arrives DEF Inv, Carried, Succeeded
  <2> QED
    BY <2>1, Arrives DEF Inv, Carried, At
<1>4. Answered'
  BY DEF Inv, Answered, At, Cached, told
<1>5. Order'
  BY Arrives
<1>6. Marked'
  <2>1. \A u \in Thread : Submitted(u) => local[u].req \in Request
          /\ born'[local[u].req] = born[local[u].req]
    BY Arrives DEF Inv, Requests
  <2>2. \A t, u \in Thread : At(t)' = "mark"
          /\ Waiting(u)' => born'[local[u].req] <= born'[local[t].req]
    BY <2>1 DEF Inv, Marked, At, Waiting, Submitted
  <2>0. latest \in Request => born'[latest] = born[latest]
    BY Arrives DEF Inv, Requests
  <2>3. \A u \in Thread : Waiting(u)' => latest \in Request
          /\ born'[local[u].req] <= born'[latest]
    BY <2>0, <2>1 DEF Inv, Marked, At, Waiting, Submitted
  <2> QED
    BY <2>2, <2>3 DEF Inv, Marked, At
<1>7. SuccessWasApplied'
  BY Arrives DEF Inv, SuccessWasApplied, told
<1> QED
  BY <1>1, <1>2, <1>3, <1>4, <1>5, <1>6, <1>7 DEF Inv

LEMMA PlaneReconcilesKeeps ==
  ASSUME Inv, PlaneReconciles
  PROVE  Inv'
<1>1. [kind |-> "reconcile", state |-> NoState] \in JobType
  BY DEF JobType
<1> QED
  BY <1>1, ArriveKeeps DEF PlaneReconciles

LEMMA JobTyped ==
  ASSUME NEW t \in Thread
  PROVE  Job(t) \in JobType
BY ControlAssumption DEF Job, JobType, Thread

LEMMA NoJobTyped == NoJob \in JobType
BY DEF NoJob, JobType

(* A request that is mislaid changes nothing of those that are there.       *)
Harmless ==
  /\ status' \in [Request -> Statuses] /\ payload' \in [Request -> JobType]
  /\ UNCHANGED <<head, next, doc, born, applied>>
  /\ \A q \in Request :
       /\ status'[q] = "new" => status[q] = "new"
       /\ status[q] # "new" => status'[q] = status[q] /\ payload'[q] = payload[q]
       /\ status'[q] \in Succeeded => status[q] # "new"

LEMMA MislayHarmless ==
  ASSUME Inv, NEW job \in JobType, UNCHANGED plane \/ Mislay(job)
  PROVE  Harmless
<1>1. CASE UNCHANGED plane
  BY <1>1 DEF plane, Harmless, Inv, Typed, Succeeded
<1>2. CASE Mislay(job)
  <2>1. Unused \in Request /\ status[Unused] = "new"
    BY <1>2 DEF Mislay, Unused
  <2>2. /\ status' = [status EXCEPT ![Unused] = "queued"]
        /\ payload' = [payload EXCEPT ![Unused] = job]
        /\ UNCHANGED <<head, next, doc, born, applied>>
    BY <1>2 DEF Mislay, Strand
  <2> HIDE DEF Mislay
  <2> DEFINE q == Unused
  <2>3. q \in Request /\ status[q] = "new" /\ status' = [status EXCEPT ![q] = "queued"]
          /\ payload' = [payload EXCEPT ![q] = job]
    BY <2>1, <2>2
  <2> HIDE DEF q
  <2> QED
    BY <2>2, <2>3 DEF Harmless, Inv, Typed, Statuses, Live, Succeeded
<1> QED
  BY <1>1, <1>2

LEMMA LoseAnswerKeeps ==
  ASSUME Inv, NEW t \in Thread, LoseAnswer(t)
  PROVE  Inv'
<1>1. UNCHANGED <<local, holder, latest, results, told>> /\ Job(t) \in JobType
  BY JobTyped DEF LoseAnswer, CallKeeps
<1>2. CASE Arrive(Job(t))
  BY <1>1, <1>2, ArriveKeeps
<1>3. CASE Mislay(Job(t))
  <2>1. Harmless
    BY <1>1, <1>3, MislayHarmless
  <2>2. Typed'
    BY <1>1, <2>1 DEF Harmless, Inv, Typed, told
  <2>3. Newest' = Newest
    BY <2>1 DEF Harmless, Newest
  <2>4. \A r \in Request : status'[r] \in Succeeded => payload'[r].state \in applied'
    BY <2>1 DEF Harmless, Inv, Carried
  <2> QED
    BY <1>1, <2>1, <2>2, <2>3, <2>4, PlaneKeeps DEF Harmless, told
<1> QED
  BY <1>2, <1>3 DEF LoseAnswer

-----------------------------------------------------------------------------
(* A thread goes from one place to another.                                *)
LEMMA Moves ==
  ASSUME Inv, NEW t \in Thread, NEW n \in Local, local' = [local EXCEPT ![t] = n],
         Harmless, UNCHANGED <<results, replies>>,
           latest' = latest \/ (latest' = local[t].req /\ At(t) = "mark"),
         n.at \in {"mark", "wait", "check"} => Submitted(t) /\ n.req = local[t].req,
         n.at = "check" => n.outcome \in {"applied", "error"},
         n.at \in {"hash", "publish", "tunnel"} => n.outcome = "applied",
         t \in Command /\ n.outcome = "applied" => StateOf[t] \in applied \cup {NoState},
         t \in Command /\ n.at # "idle" => Cached(t) = {}
  PROVE  /\ Typed' /\ Requests' /\ Carried' /\ Answered' /\ Order' /\ SuccessWasApplied'
         /\ local'[t] = n /\ \A u \in Thread : u # t => local'[u] = local[u]
<1>1. local' \in [Thread -> Local] /\ local'[t] = n
        /\ \A u \in Thread : u # t => local'[u] = local[u]
  BY DEF Inv, Typed
<1>2. Typed'
  BY <1>1 DEF Inv, Typed, Harmless
<1>3. Requests'
  <2>1. ASSUME NEW q \in Request, status[q] # "new"
        PROVE  status'[q] # "new" /\ payload'[q] = payload[q]
    BY <2>1 DEF Harmless
  <2>2. latest' \in Request => status'[latest'] # "new"
    BY <2>1 DEF Inv, Requests, Submitted
  <2>3. ASSUME NEW u \in Thread, Submitted(u)'
        PROVE  Submitted(u) /\ local'[u].req = local[u].req
    BY <1>1, <2>3 DEF Submitted, At
  <2> QED
    BY <2>1, <2>2, <2>3 DEF Inv, Requests, Job
<1>4. Carried'
  <2>1. \A c \in Command : c \in Thread
    BY DEF Thread
  <2>2. \A r \in Request : status'[r] \in Succeeded => payload'[r].state \in applied'
    BY DEF Inv, Carried, Harmless
  <2> QED
    BY <1>1, <2>1, <2>2 DEF Inv, Carried, At, Harmless
<1>5. Answered'
  <2>1. \A c \in Command : c \in Thread
    BY DEF Thread
  <2> QED
    BY <1>1, <2>1 DEF Inv, Answered, At, Cached
<1>6. Order'
  BY DEF Inv, Order, Accepted, Newest, Harmless
<1>7. SuccessWasApplied'
  BY DEF Inv, SuccessWasApplied, Harmless
<1> QED
  BY <1>1, <1>2, <1>3, <1>4, <1>5, <1>6, <1>7

LEMMA Unmoved ==
  ASSUME Inv, UNCHANGED plane
  PROVE  Harmless
BY MislayHarmless, NoJobTyped

(* Away from the lock it keeps who is marked.                              *)
LEMMA MovesOn ==
  ASSUME Inv, NEW t \in Thread, NEW n \in Local, local' = [local EXCEPT ![t] = n],
         UNCHANGED <<plane, results, replies, holder, latest>>,
         At(t) \notin {"call", "mark"}, n.at \notin {"call", "mark"},
         n.at \in {"wait", "check"} => Waiting(t) /\ n.req = local[t].req,
         n.at = "check" => n.outcome \in {"applied", "error"},
         n.at \in {"hash", "publish", "tunnel"} => n.outcome = "applied",
         t \in Command /\ n.outcome = "applied" => StateOf[t] \in applied \cup {NoState},
         t \in Command /\ n.at # "idle" => Cached(t) = {}
  PROVE  Inv'
<1>1. /\ Typed' /\ Requests' /\ Carried' /\ Answered' /\ Order' /\ SuccessWasApplied'
      /\ local'[t] = n /\ \A u \in Thread : u # t => local'[u] = local[u]
  <2>1. n.at \in {"mark", "wait", "check"} => Submitted(t) /\ n.req = local[t].req
    BY DEF Submitted, Waiting
  <2>2. Harmless /\ UNCHANGED <<results, replies>> /\ latest' = latest
    BY Unmoved
  <2> QED
    BY <2>1, <2>2, Moves
<1>2. Marked'
  BY <1>1 DEF Inv, Marked, At, Waiting, plane
<1> QED
  BY <1>1, <1>2 DEF Inv

(* What is known of a thread.                                              *)
LEMMA ThreadFacts ==
  ASSUME Inv, NEW t \in Thread
  PROVE  /\ local[t] \in Local
         /\ t \in Command => (At(t) # "idle" => Cached(t) = {})
         /\ t \in Command => (local[t].outcome = "applied" => StateOf[t] \in applied \cup {NoState})
         /\ t \notin Connector => t \in Command
BY DEF Inv, Typed, Answered, Carried, Thread

LEMMA IdleTyped ==
  /\ Idle \in Local /\ Idle.at = "idle" /\ Idle.outcome = "none"
  /\ \A a \in Outcome, w \in Where : [Idle EXCEPT !.at = w, !.outcome = a] \in Local
BY DEF Idle, Local, Where, Outcome

LEMMA LeaveKeeps ==
  ASSUME Inv, NEW t \in Thread, NEW a \in Outcome, Leave(t, a), At(t) \notin {"idle",
           "call", "mark"},
         UNCHANGED <<plane, results, replies, holder, latest>>,
         t \in Command /\ a = "applied" => StateOf[t] \in applied \cup {NoState}
  PROVE  Inv'
<1> DEFINE n == [Idle EXCEPT !.at = "reply", !.outcome = a]
<1>1. n \in Local /\ n.at = "reply" /\ n.outcome = a
  BY IdleTyped DEF Where, Idle
<1> HIDE DEF n
<1>2. CASE t \in Connector
  <2>1. local' = [local EXCEPT ![t] = Idle]
    BY <1>2 DEF Leave
  <2> QED
    BY <2>1, IdleTyped, MovesOn
<1>3. CASE t \notin Connector
  <2>1. local' = [local EXCEPT ![t] = n]
    BY <1>3 DEF Leave, n
  <2> QED
    BY <1>1, <2>1, MovesOn, ThreadFacts
<1> QED
  BY <1>2, <1>3

(* The step that ends a call or a wait with an error.                      *)
LEMMA Raised ==
  ASSUME Inv, NEW t \in Thread, Raise(t), At(t) \in {"call", "wait"},
         Harmless, UNCHANGED <<results, replies>>, latest' = latest,
         IF At(t) = "call" THEN holder' = Nobody ELSE holder' = holder
  PROVE  Inv'
<1> DEFINE n == [Idle EXCEPT !.at = IF t \in Command THEN "reply" ELSE "report",
      !.outcome = "error"]
<1>1. n \in Local /\ n.at \in {"reply", "report"} /\ n.outcome = "error"
        /\ local' = [local EXCEPT ![t] = n]
  BY IdleTyped DEF Where, Outcome, Idle, Raise
<1> HIDE DEF n
<1>2. /\ Typed' /\ Requests' /\ Carried' /\ Answered' /\ Order' /\ SuccessWasApplied'
      /\ local'[t] = n /\ \A u \in Thread : u # t => local'[u] = local[u]
  <2>1. /\ n.at \notin {"mark", "wait", "check"}
             /\ n.at \notin {"hash", "publish", "tunnel"}
        /\ n.outcome # "applied" /\ (t \in Command => Cached(t) = {})
    BY <1>1, ThreadFacts
  <2> QED
    BY <1>1, <2>1, Moves
<1>3. Marked'
  BY <1>1, <1>2, ControlAssumption DEF Inv, Marked, At, Waiting, Harmless
<1> QED
  BY <1>2, <1>3 DEF Inv

LEMMA DeliverKeeps ==
  ASSUME Inv, NEW c \in Command, Deliver(c)
  PROVE  Inv'
<1>1. /\ UNCHANGED <<plane, holder, latest, results>> /\ c \in Thread
      /\ replies' = [replies EXCEPT ![c] = @ \cup {results[i].outcome : i \in Cached(c)}]
      /\ replies \in [Command -> SUBSET Outcome] /\ results \in Seq(Answer)
  BY DEF Deliver, Claim, Inv, Typed, Thread
<1>2. CASE Cached(c) = {}
  <2>1. replies' = replies
    BY <1>1, <1>2
  <2>2. CASE local' = local
    <3>1. UNCHANGED <<plane, local, holder, latest, results, replies>>
      BY <1>1, <2>1, <2>2
    <3> QED
      BY <3>1 DEF Inv, Typed, Requests, Carried, Answered, Order, Accepted, Newest,
        Marked,
         Submitted, Waiting, At, Job, Cached, SuccessWasApplied, plane
  <2>3. CASE At(c) = "idle" /\ GoTo(c, "announce")
    <3> DEFINE n == [local[c] EXCEPT !.at = "announce"]
    <3>1. n \in Local /\ n.at = "announce" /\ n.outcome = local[c].outcome
            /\ local' = [local EXCEPT ![c] = n]
      BY <1>1, <2>3, ThreadFacts DEF GoTo, Local, Where
    <3> HIDE DEF n
    <3> QED
      BY <1>1, <1>2, <2>1, <2>3, <3>1, MovesOn, ThreadFacts
  <2> QED
    BY <1>2, <2>2, <2>3 DEF Deliver, Claim
<1>3. CASE Cached(c) # {}
  <2>1. local' = local
    BY <1>3 DEF Deliver, Claim
  <2>2. PICK i \in DOMAIN results : results[i].id = c
    BY <1>3 DEF Cached
  <2>3. Cached(c) = {i}
    BY <2>2 DEF Cached, Inv, Answered
  <2>4. replies' = [replies EXCEPT ![c] = @ \cup {results[i].outcome}]
          /\ results[i].outcome \in Outcome
    <3>1. results[i] \in Answer
      BY <1>1, <2>2
    <3>2. {results[j].outcome : j \in Cached(c)} = {results[i].outcome}
      BY <2>3
    <3> QED
      BY <1>1, <3>1, <3>2 DEF Answer
  <2>5. replies' \in [Command -> SUBSET Outcome]
          /\ replies'[c] = replies[c] \cup {results[i].outcome}
        /\ \A d \in Command : d # c => replies'[d] = replies[d]
    BY <1>1, <2>4
  <2>6. Typed'
    BY <1>1, <2>1, <2>5 DEF Inv, Typed, plane
  <2>7. Answered'
    <3>1. replies[c] # {}
            /\ MaxResults >= Cardinality(Command) => replies[c] = {results[i].outcome}
      BY <2>2 DEF Inv, Answered
    <3> QED
      BY <1>1, <2>1, <2>2, <2>5, <3>1 DEF Inv, Answered, Cached, At
  <2>8. SuccessWasApplied'
    BY <1>1, <2>2, <2>5 DEF Inv, SuccessWasApplied, Carried, plane
  <2>9. Requests' /\ Carried' /\ Order' /\ Marked'
    BY <1>1, <2>1 DEF Inv, Requests, Carried, Order, Accepted, Newest, Marked, Submitted,
       Waiting, At, Job, plane
  <2> QED
    BY <2>6, <2>7, <2>8, <2>9 DEF Inv
<1> QED
  BY <1>2, <1>3

(* Steps that only change where the thread is, or what it has read.        *)
LEMMA GoesOn ==
  ASSUME Inv, NEW t \in Thread, NEW w \in Where, NEW o \in Outcome,
         \/ GoTo(t, w) /\ o = local[t].outcome
         \/ local' = [local EXCEPT ![t].at = w, ![t].outcome = o]
         \/ local' = [local EXCEPT ![t].at = w, ![t].seen = doc] /\ o = local[t].outcome,
         UNCHANGED <<plane, results, replies, holder, latest>>,
         At(t) \notin {"call", "mark"}, w \notin {"idle", "call", "mark"}, t \in Command =>
           At(t) # "idle",
         w \in {"wait", "check"} => Waiting(t),
         w = "check" => o \in {"applied", "error"},
         w \in {"hash", "publish", "tunnel"} => o = "applied",
         t \in Command /\ o = "applied" => StateOf[t] \in applied \cup {NoState}
  PROVE  Inv'
<1>1. PICK n \in Local : n.at = w /\ n.outcome = o /\ n.req = local[t].req
             /\ local' = [local EXCEPT ![t] = n]
  <2>1. local[t] \in Local /\ doc \in State \cup {NoState}
    BY ThreadFacts DEF Inv, Typed
  <2>2. CASE GoTo(t, w) /\ o = local[t].outcome
    <3>1. [local[t] EXCEPT !.at = w] \in Local
      BY <2>1 DEF Local
    <3> QED
      BY <2>1, <2>2, <3>1 DEF GoTo, Local
  <2>3. CASE local' = [local EXCEPT ![t].at = w, ![t].outcome = o]
    <3>1. [[local[t] EXCEPT !.at = w] EXCEPT !.outcome = o] \in Local
      BY <2>1 DEF Local
    <3>2. local' = [local EXCEPT ![t] = [[local[t] EXCEPT !.at = w] EXCEPT !.outcome = o]]
      BY <2>1, <2>3 DEF Inv, Typed
    <3> QED
      BY <2>1, <3>1, <3>2 DEF Local
  <2>4. CASE local' = [local EXCEPT ![t].at = w, ![t].seen = doc] /\ o = local[t].outcome
    <3>1. [[local[t] EXCEPT !.at = w] EXCEPT !.seen = doc] \in Local
      BY <2>1 DEF Local
    <3>2. local' = [local EXCEPT ![t] = [[local[t] EXCEPT !.at = w] EXCEPT !.seen = doc]]
      BY <2>1, <2>4 DEF Inv, Typed
    <3> QED
      BY <2>1, <2>4, <3>1, <3>2 DEF Local
  <2> QED
    BY <2>2, <2>3, <2>4
<1> QED
  BY <1>1, MovesOn, ThreadFacts

-----------------------------------------------------------------------------
(* The steps of a thread, in the order they come.                           *)
LEMMA ReconnectKeeps ==
  ASSUME Inv, NEW k \in Connector, Reconnect(k)
  PROVE  Inv'
<1>1. k \in Thread /\ k \notin Command /\ local[k] \in Local
  BY ControlAssumption DEF Thread, Inv, Typed
<1> QED
  BY <1>1, GoesOn DEF Reconnect, told, Where, Local

LEMMA LockKeeps ==
  ASSUME Inv, NEW t \in Thread, Lock(t)
  PROVE  Inv'
<1> DEFINE n == [local[t] EXCEPT !.at = "call"]
<1>1. n \in Local /\ n.at = "call" /\ n.outcome = local[t].outcome
        /\ local' = [local EXCEPT ![t] = n]
  BY ThreadFacts DEF Lock, GoTo, Local, Where
<1> HIDE DEF n
<1>2. UNCHANGED <<plane, latest, results, replies>> /\ holder = Nobody /\ holder' = t
        /\ At(t) = "lock"
  BY DEF Lock, CallKeeps, told
<1>3. /\ n.at \notin {"mark", "wait", "check"}
           /\ n.at \notin {"hash", "publish", "tunnel"}
      /\ (t \in Command => Cached(t) = {}) /\ (t \in Command
           /\ n.outcome = "applied" => StateOf[t] \in applied \cup {NoState})
  BY <1>1, <1>2, ThreadFacts
<1>4. /\ Typed' /\ Requests' /\ Carried' /\ Answered' /\ Order' /\ SuccessWasApplied'
      /\ local'[t] = n /\ \A u \in Thread : u # t => local'[u] = local[u]
  BY <1>1, <1>2, <1>3, Moves, Unmoved
<1>5. Marked'
  BY <1>1, <1>2, <1>4, ControlAssumption DEF Inv, Marked, At, Waiting, plane
<1> QED
  BY <1>4, <1>5 DEF Inv

LEMMA CallSteps ==
  ASSUME Inv, NEW t \in Thread, Call(t)
  PROVE  Inv'
<1> DEFINE r == Given(Job(t))
<1>1. Arrive(Job(t)) /\ UNCHANGED <<latest, results, told>> /\ At(t) = "call"
        /\ local[t] \in Local
      /\ Job(t) \in JobType
  BY JobTyped, ThreadFacts DEF Call, CallKeeps
<1>2. /\ r \in Request /\ status'[r] # "new" /\ payload'[r] = Job(t)
      /\ \A q \in Request : born'[q] <= born'[r]
      /\ \A q \in Request : status[q] # "new" =>
           status'[q] # "new" /\ payload'[q] = payload[q] /\ born'[q] = born[q]
      /\ \A q \in Request : status'[q] \in Succeeded => status[q] \in Succeeded
      /\ status' \in [Request -> Statuses] /\ payload' \in [Request -> JobType]
      /\ born' \in [Request -> Nat] /\ head' \in Request \cup {NoRequest}
      /\ next' \in Request \cup {NoRequest} /\ (head' = NoRequest => next' = NoRequest)
      /\ UNCHANGED <<doc, applied>> /\ Order'
  BY <1>1, Arrives
<1>3. \/ local' = [local EXCEPT ![t].at = "mark", ![t].req = r] /\ UNCHANGED holder
      \/ Raise(t) /\ holder' = Nobody
  BY DEF Call
<1> HIDE DEF r
<1>4. PICK n \in Local :
        /\ local' = [local EXCEPT ![t] = n]
        /\ \/ n.at = "mark" /\ n.req = r /\ n.outcome = local[t].outcome
                /\ UNCHANGED holder
           \/ n.at \in {"reply", "report"} /\ n.outcome = "error" /\ holder' = Nobody
  <2>1. CASE local' = [local EXCEPT ![t].at = "mark", ![t].req = r] /\ UNCHANGED holder
    <3>1. [[local[t] EXCEPT !.at = "mark"] EXCEPT !.req = r] \in Local
      BY <1>1, <1>2 DEF Local, Where
    <3>2. local' = [local EXCEPT ![t] = [[local[t] EXCEPT !.at = "mark"] EXCEPT !.req = r]]
      BY <1>1, <2>1 DEF Inv, Typed
    <3> QED
      BY <1>1, <2>1, <3>1, <3>2 DEF Local
  <2>2. CASE Raise(t) /\ holder' = Nobody
    <3> DEFINE m == [Idle EXCEPT !.at = IF t \in Command THEN "reply" ELSE "report",
          !.outcome = "error"]
    <3>1. m \in Local /\ m.at \in {"reply", "report"} /\ m.outcome = "error"
            /\ local' = [local EXCEPT ![t] = m]
      BY <2>2, IdleTyped DEF Where, Outcome, Idle, Raise
    <3> HIDE DEF m
    <3> QED
      BY <2>2, <3>1
  <2> QED
    BY <1>3, <2>1, <2>2
<1>5. local' \in [Thread -> Local] /\ local'[t] = n
        /\ \A u \in Thread : u # t => local'[u] = local[u]
  BY <1>4 DEF Inv, Typed
<1>6. Typed'
  BY <1>1, <1>2, <1>5 DEF Inv, Typed, told
<1>7. Requests'
  <2>1. latest' \in Request => status'[latest'] # "new"
    BY <1>1, <1>2 DEF Inv, Requests
  <2>2. ASSUME NEW u \in Thread, Submitted(u)'
        PROVE  /\ local'[u].req \in Request /\ status'[local'[u].req] # "new"
               /\ u \in Command => payload'[local'[u].req] = Job(u)
    <3>1. CASE u = t
      BY <1>2, <1>4, <1>5, <2>2, <3>1 DEF Submitted, At
    <3>2. CASE u # t
      BY <1>2, <1>5, <2>2, <3>2 DEF Submitted, At, Inv, Requests
    <3> QED
      BY <3>1, <3>2
  <2> QED
    BY <2>1, <2>2 DEF Requests, Job
<1>8. Carried'
  <2>1. \A q \in Request : status'[q] \in Succeeded => payload'[q].state \in applied'
    BY <1>2 DEF Inv, Carried, Succeeded
  <2>2. \A u \in Thread :
          /\ At(u)' = "check" => local'[u].outcome \in {"applied", "error"}
          /\ At(u)' \in {"hash", "publish", "tunnel"} => local'[u].outcome = "applied"
    BY <1>4, <1>5 DEF Inv, Carried, At
  <2>3. \A c \in Command : local'[c].outcome = "applied" => StateOf[c] \in applied' \cup {NoState}
    <3>1. \A c \in Command : c \in Thread
      BY DEF Thread
    <3> QED
      BY <1>2, <1>4, <1>5, <3>1 DEF Inv, Carried
  <2>4. \A i \in DOMAIN results' : results'[i].outcome = "applied" =>
          StateOf[results'[i].id] \in applied' \cup {NoState}
    BY <1>1, <1>2 DEF Inv, Carried
  <2> QED
    BY <2>1, <2>2, <2>3, <2>4 DEF Carried
<1>9. Answered'
  <2>1. \A c \in Command : c \in Thread
    BY DEF Thread
  <2>2. \A c \in Command : At(c)' # "idle" => At(c) # "idle"
    BY <1>1, <1>5, <2>1 DEF At
  <2> QED
    BY <1>1, <2>2 DEF Inv, Answered, Cached, told
<1>10. Marked'
  <2>1. holder = t /\ t # Nobody
          /\ \A u \in Thread : u # t => At(u) \notin {"call", "mark"}
    BY <1>1, ControlAssumption DEF Inv, Marked
  <2>2. \A u \in Thread : Waiting(u)' =>
          /\ u # t /\ Waiting(u) /\ local[u].req \in Request
               /\ local'[u].req = local[u].req
          /\ born'[local[u].req] = born[local[u].req]
    BY <1>2, <1>4, <1>5 DEF Waiting, At, Inv, Requests, Submitted
  <2>3. latest \in Request => born'[latest] = born[latest]
    BY <1>2 DEF Inv, Requests
  <2>4. \A u \in Thread : At(u)' \in {"call", "mark"} <=> holder' = u
    BY <1>4, <1>5, <2>1, ControlAssumption DEF At
  <2>5. \A v, u \in Thread : At(v)' = "mark"
          /\ Waiting(u)' => born'[local'[u].req] <= born'[local'[v].req]
    <3> SUFFICES ASSUME NEW v \in Thread, NEW u \in Thread, At(v)' = "mark", Waiting(u)'
                 PROVE  born'[local'[u].req] <= born'[local'[v].req]
      OBVIOUS
    <3>1. v = t /\ local'[v].req = r
      BY <1>4, <1>5, <2>1 DEF At
    <3> QED
      BY <1>2, <2>2, <3>1
  <2>6. \A u \in Thread : Waiting(u)' => latest' \in Request
          /\ born'[local'[u].req] <= born'[latest']
    BY <1>1, <2>2, <2>3 DEF Inv, Marked
  <2> QED
    BY <2>4, <2>5, <2>6 DEF Marked
<1>11. SuccessWasApplied'
  BY <1>1, <1>2 DEF Inv, SuccessWasApplied, told
<1> QED
  BY <1>2, <1>6, <1>7, <1>8, <1>9, <1>10, <1>11 DEF Inv

LEMMA MarkKeeps ==
  ASSUME Inv, NEW t \in Thread, Mark(t)
  PROVE  Inv'
<1> DEFINE n == [local[t] EXCEPT !.at = "wait"]
<1>1. /\ n \in Local /\ n.at = "wait" /\ n.outcome = local[t].outcome
           /\ n.req = local[t].req
      /\ local' = [local EXCEPT ![t] = n]
  BY ThreadFacts DEF Mark, GoTo, Local, Where
<1> HIDE DEF n
<1>2. UNCHANGED <<plane, results, replies>> /\ latest' = local[t].req
        /\ holder' = Nobody /\ At(t) = "mark"
  BY DEF Mark, told
<1>3. Submitted(t) /\ (t \in Command => Cached(t) = {}) /\ (t \in Command
        /\ n.outcome = "applied" => StateOf[t] \in applied \cup {NoState})
  BY <1>1, <1>2, ThreadFacts DEF Submitted
<1>4. /\ Typed' /\ Requests' /\ Carried' /\ Answered' /\ Order' /\ SuccessWasApplied'
      /\ local'[t] = n /\ \A u \in Thread : u # t => local'[u] = local[u]
  BY <1>1, <1>2, <1>3, Moves, Unmoved
<1>5. Marked'
  <2>1. \A u \in Thread : u # t => At(u) \notin {"call", "mark"}
    BY <1>2 DEF Inv, Marked
  <2>2. local[t].req \in Request /\ born[local[t].req] \in Nat
    BY <1>3 DEF Inv, Requests, Typed
  <2> QED
    BY <1>1, <1>2, <1>4, <2>1, <2>2, ControlAssumption DEF Inv, Marked, At, Waiting, plane
<1> QED
  BY <1>4, <1>5 DEF Inv

LEMMA WaitedKeeps ==
  ASSUME Inv, NEW t \in Thread, Waited(t)
  PROVE  Inv'
<1> DEFINE a == status[local[t].req]
           o == IF a = "failed" THEN "error" ELSE "applied"
<1>1. UNCHANGED <<plane, results, replies, holder, latest>> /\ At(t) = "wait"
        /\ Waiting(t)
  BY DEF Waited, CallKeeps, told, Waiting
<1>2. CASE Raise(t)
  BY <1>1, <1>2, Raised, Unmoved
<1>3. CASE Leave(t, "superseded")
  BY <1>1, <1>3, LeaveKeeps DEF Outcome
<1>4. CASE a \in Done /\ local' = [local EXCEPT ![t].at = "check", ![t].outcome = o]
  <2>1. local[t].req \in Request /\ (t \in Command => payload[local[t].req] = Job(t))
    BY <1>1 DEF Inv, Requests, Submitted
  <2>2. t \in Command /\ o = "applied" => StateOf[t] \in applied \cup {NoState}
    BY <1>4, <2>1 DEF Inv, Carried, Succeeded, Done, Job
  <2>3. o \in Outcome /\ o \in {"applied", "error"}
    BY DEF Outcome
  <2> HIDE DEF o, a
  <2> QED
    BY <1>1, <1>4, <2>2, <2>3, GoesOn DEF Where
<1> QED
  BY <1>2, <1>3, <1>4 DEF Waited

LEMMA WaitFailsKeeps ==
  ASSUME Inv, NEW t \in Thread, WaitFails(t)
  PROVE  Inv'
BY Raised, Unmoved DEF WaitFails, CallKeeps, told

LEMMA RefusedKeeps ==
  ASSUME Inv, NEW t \in Thread, Refused(t)
  PROVE  Inv'
BY Raised, MislayHarmless, JobTyped DEF Refused, CallKeeps, told

LEMMA CheckKeeps ==
  ASSUME Inv, NEW t \in Thread, Check(t)
  PROVE  Inv'
<1>1. UNCHANGED <<plane, results, replies, holder, latest>> /\ At(t) = "check"
        /\ local[t].outcome \in {"applied", "error"}
      /\ local[t].outcome \in Outcome
  BY DEF Check, CallKeeps, told, Inv, Carried, Outcome
<1>2. CASE Leave(t, local[t].outcome)
  BY <1>1, <1>2, LeaveKeeps, ThreadFacts
<1>3. CASE GoTo(t, "report")
  BY <1>1, <1>3, GoesOn, ThreadFacts DEF Where
<1>4. CASE GoTo(t, "hash") /\ local[t].outcome # "error"
  BY <1>1, <1>4, GoesOn, ThreadFacts DEF Where
<1> QED
  BY <1>2, <1>3, <1>4 DEF Check

LEMMA ReadHashKeeps ==
  ASSUME Inv, NEW t \in Thread, ReadHash(t)
  PROVE  Inv'
<1>1. UNCHANGED <<plane, results, replies, holder, latest>> /\ At(t) = "hash"
        /\ local[t].outcome = "applied"
      /\ local' = [local EXCEPT ![t].at = "publish", ![t].seen = doc]
  BY DEF ReadHash, SayKeeps, told, Inv, Carried
<1> QED
  BY <1>1, GoesOn, ThreadFacts DEF Where, Outcome

LEMMA PublishHashKeeps ==
  ASSUME Inv, NEW t \in Thread, PublishHash(t)
  PROVE  Inv'
<1>1. UNCHANGED <<plane, results, replies, holder, latest>> /\ At(t) = "publish"
        /\ local[t].outcome = "applied"
      /\ GoTo(t, "tunnel")
  BY DEF PublishHash, SayKeeps, Inv, Carried
<1> QED
  BY <1>1, GoesOn, ThreadFacts DEF Where, Outcome

LEMMA ReadyKeeps ==
  ASSUME Inv, NEW t \in Thread, Ready(t)
  PROVE  Inv'
<1>1. UNCHANGED <<plane, results, replies, holder, latest>> /\ At(t) = "tunnel"
        /\ local[t].outcome = "applied"
  BY DEF Ready, SayKeeps, Inv, Carried
<1> QED
  BY <1>1, LeaveKeeps, ThreadFacts DEF Ready, Outcome

LEMMA ReportKeeps ==
  ASSUME Inv, NEW t \in Thread, Report(t)
  PROVE  Inv'
BY LeaveKeeps DEF Report, SayKeeps, Outcome

LEMMA AnnounceKeeps ==
  ASSUME Inv, NEW c \in Command, Announce(c)
  PROVE  Inv'
<1>1. c \in Thread /\ local[c].outcome \in Outcome /\ At(c) = "announce"
      /\ UNCHANGED <<plane, results, replies, holder, latest>>
  BY DEF Thread, Inv, Typed, Local, Announce
<1>2. CASE StateOf[c] = NoState /\ Leave(c, "applied")
  BY <1>1, <1>2, LeaveKeeps DEF Outcome
<1>3. CASE GoTo(c, "lock")
  BY <1>1, <1>3, GoesOn, ThreadFacts DEF Where
<1> QED
  BY <1>2, <1>3 DEF Announce

(* The answer is remembered as the newest; when control remembers at least  *)
(* as many answers as there are commands, the oldest is not forgotten,      *)
(* because all of them are of different commands.                           *)
LEMMA RespondKeeps ==
  ASSUME Inv, NEW c \in Command, Respond(c)
  PROVE  Inv'
<1> DEFINE e == [id |-> c, outcome |-> local[c].outcome]
           all == Append(results, e)
<1>1. /\ c \in Thread /\ At(c) = "reply" /\ Cached(c) = {} /\ e \in Answer
           /\ results \in Seq(Answer)
      /\ UNCHANGED <<plane, holder, latest>> /\ local' = [local EXCEPT ![c] = Idle]
      /\ local[c].outcome \in Outcome
  BY ThreadFacts DEF Respond, SayKeeps, Thread, Answer, Local, Inv, Typed
<1>2. results' = IF Len(all) > MaxResults THEN Tail(all) ELSE all
  BY <1>1 DEF Respond
<1>3. replies' \in [Command -> SUBSET Outcome]
        /\ replies'[c] = replies[c] \cup {local[c].outcome}
      /\ \A d \in Command : d # c => replies'[d] = replies[d]
  BY <1>1 DEF Respond, Inv, Typed
<1>4. local' \in [Thread -> Local] /\ local'[c] = Idle
        /\ \A u \in Thread : u # c => local'[u] = local[u]
  BY <1>1, IdleTyped DEF Inv, Typed
<1>5. /\ all \in Seq(Answer) /\ Len(all) = Len(results) + 1 /\ all[Len(results) + 1] = e
      /\ DOMAIN results = 1..Len(results) /\ DOMAIN all = 1..Len(all)
           /\ Len(results) \in Nat
      /\ \A i \in 1..Len(results) : all[i] = results[i]
  BY <1>1
<1> HIDE DEF all, e
<1>6. PICK k \in {0, 1} : /\ results' \in Seq(Answer) /\ Len(results') = Len(all) - k
                          /\ DOMAIN results' = 1..(Len(all) - k)
                          /\ \A i \in 1..(Len(all) - k) : results'[i] = all[i + k]
                          /\ k = 1 => Len(all) > MaxResults
  <2>1. CASE Len(all) > MaxResults
    <3>1. all # <<>> /\ results' = Tail(all)
      BY <1>2, <1>5, <2>1
    <3>2. results' \in Seq(Answer) /\ Len(results') = Len(all) - 1
          /\ \A i \in 1..(Len(all) - 1) : results'[i] = all[i + 1]
      BY <1>5, <3>1
    <3> QED
      BY <2>1, <3>2
  <2>2. CASE ~(Len(all) > MaxResults)
    <3>1. results' = all
      BY <1>2, <2>2
    <3>2. results' \in Seq(Answer) /\ Len(all) - 0 = Len(all) /\ Len(results') = Len(all)
          /\ DOMAIN results' = 1..Len(all)
      BY <1>5, <3>1
    <3>3. \A i \in 1..Len(all) : results'[i] = all[i + 0]
      BY <3>1
    <3> WITNESS 0 \in {0, 1}
    <3> QED
      BY <3>2, <3>3
  <2> QED
    BY <2>1, <2>2
<1>7. \A i \in DOMAIN results' : \/ results'[i] = e
                                 \/ \E j \in DOMAIN results : results'[i] = results[j]
  <2> SUFFICES ASSUME NEW i \in 1..(Len(all) - k)
               PROVE  all[i + k] = e \/ \E j \in DOMAIN results : all[i + k] = results[j]
    BY <1>6
  <2>1. i + k \in 1..Len(results) \/ i + k = Len(results) + 1
    BY <1>5
  <2> QED
    BY <1>5, <2>1
<1>8. e.id = c /\ e.outcome = local[c].outcome
  BY DEF e
<1>9. Typed'
  BY <1>1, <1>3, <1>4, <1>6 DEF Inv, Typed, plane
<1>10. Requests' /\ Order' /\ Marked'
  BY <1>1, <1>4, IdleTyped DEF Inv, Requests, Order, Accepted, Newest, Marked, Submitted,
     Waiting, At, Job, plane
<1>11. Carried'
  <2>1. \A d \in Command : d \in Thread
    BY DEF Thread
  <2>2. \A i \in DOMAIN results' : results'[i].outcome = "applied" =>
          StateOf[results'[i].id] \in applied \cup {NoState}
    BY <1>7, <1>8 DEF Inv, Carried
  <2> QED
    BY <1>1, <1>4, <2>1, <2>2, IdleTyped DEF Inv, Carried, At, plane
<1>12. SuccessWasApplied'
  BY <1>1, <1>3 DEF Inv, Carried, SuccessWasApplied, plane
<1>13. \A i, j \in DOMAIN all : all[i].id = all[j].id => i = j
  <2>1. \A i \in DOMAIN results : results[i].id # c
    BY <1>1 DEF Cached
  <2> QED
    BY <1>5, <1>8, <2>1 DEF Inv, Answered
<1>14. MaxResults >= Cardinality(Command) => k = 0
  <2> DEFINE f == [i \in 1..Len(all) |-> all[i].id]
  <2>1. f \in [1..Len(all) -> Command]
    <3>1. \A i \in 1..Len(all) : all[i] \in Answer
      BY <1>5
    <3>2. \A i \in 1..Len(all) : all[i].id \in Command
      BY <3>1 DEF Answer
    <3> QED
      BY <3>2
  <2>2. \A i, j \in 1..Len(all) : f[i] = f[j] => i = j
    BY <1>5, <1>13
  <2>3. f \in Injection(1..Len(all), Command)
    BY <2>1, <2>2 DEF Injection, IsInjective
  <2>4. Cardinality(1..Len(all)) <= Cardinality(Command)
    <3> HIDE DEF f
    <3> QED
      BY <2>3, ControlAssumption, FS_Injection
  <2>5. Cardinality(1..Len(all)) = Len(all)
    BY <1>5, FS_Interval
  <2>6. Cardinality(Command) \in Nat /\ MaxResults \in Nat /\ Len(all) \in Nat
    BY <1>5, ControlAssumption, FS_CardinalityType
  <2> QED
    BY <1>6, <2>4, <2>5, <2>6
<1>15. Answered'
  <2>1. \A i, j \in DOMAIN results' : results'[i].id = results'[j].id => i = j
    <3> SUFFICES ASSUME NEW i \in 1..(Len(all) - k), NEW j \in 1..(Len(all) - k),
                        all[i + k].id = all[j + k].id
                 PROVE  i = j
      BY <1>6
    <3>1. i + k \in DOMAIN all /\ j + k \in DOMAIN all /\ i \in Int /\ j \in Int
      BY <1>5
    <3>2. i + k = j + k
      BY <1>13, <3>1
    <3> QED
      BY <3>1, <3>2
  <2>2. \A d \in Command : At(d)' # "idle" => Cached(d)' = {}
    <3> SUFFICES ASSUME NEW d \in Command, At(d)' # "idle", NEW i \in DOMAIN results',
                          results'[i].id = d
                 PROVE  FALSE
      BY DEF Cached
    <3>1. d # c /\ At(d) # "idle" /\ d \in Thread
      BY <1>4, IdleTyped DEF At, Thread
    <3> QED
      BY <1>7, <1>8, <3>1 DEF Inv, Answered, Cached
  <2>3. MaxResults >= Cardinality(Command) =>
          \A d \in Command : replies'[d] # {} =>
            \E i \in DOMAIN results' : results'[i].id = d
              /\ replies'[d] = {results'[i].outcome}
    <3> SUFFICES ASSUME MaxResults >= Cardinality(Command), NEW d \in Command,
                          replies'[d] # {}
                 PROVE  \E i \in DOMAIN results' : results'[i].id = d
                          /\ replies'[d] = {results'[i].outcome}
      OBVIOUS
    <3>1. k = 0
      BY <1>14
    <3>2. DOMAIN results' = 1..(Len(results) + 1) /\ results'[Len(results) + 1] = e
          /\ \A i \in DOMAIN results : i \in DOMAIN results' /\ results'[i] = results[i]
      BY <1>5, <1>6, <3>1
    <3>3. CASE d = c
      <4>1. replies[c] = {}
        BY <1>1 DEF Cached, Inv, Answered
      <4>2. replies'[c] = {e.outcome} /\ Len(results) + 1 \in DOMAIN results'
        BY <1>3, <1>5, <1>8, <3>2, <4>1
      <4> QED
        BY <1>8, <3>2, <3>3, <4>2
    <3>4. CASE d # c
      BY <1>3, <3>2, <3>4 DEF Inv, Answered
    <3> QED
      BY <3>3, <3>4
  <2> QED
    BY <2>1, <2>2, <2>3 DEF Answered
<1> QED
  BY <1>9, <1>10, <1>11, <1>12, <1>15 DEF Inv

LEMMA ControlCrashKeeps ==
  ASSUME Inv, ControlCrash
  PROVE  Inv'
<1>1. /\ local' = [t \in Thread |-> Idle] /\ holder' = Nobody /\ latest' = NoRequest
      /\ results' = <<>> /\ replies' = [c \in Command |-> {}] /\ UNCHANGED plane
  BY DEF ControlCrash
<1>2. /\ \A t \in Thread : local'[t].at = "idle" /\ local'[t].outcome = "none"
      /\ \A c \in Command : c \in Thread
  BY <1>1, IdleTyped DEF Thread
<1>3. Typed'
  <2>1. /\ status' \in [Request -> Statuses] /\ payload' \in [Request -> JobType]
        /\ head' \in Request \cup {NoRequest} /\ next' \in Request \cup {NoRequest}
        /\ (head' = NoRequest => next' = NoRequest)
        /\ doc' \in State \cup {NoState} /\ born' \in [Request -> Nat]
    BY <1>1 DEF Inv, Typed, plane
  <2>2. local' \in [Thread -> Local]
    BY <1>1, IdleTyped
  <2>3. results' \in Seq(Answer)
    BY <1>1
  <2>4. replies' \in [Command -> SUBSET Outcome]
    BY <1>1
  <2> QED
    BY <2>1, <2>2, <2>3, <2>4 DEF Typed
<1>4. Requests' /\ Order' /\ Marked'
  BY <1>1, <1>2, ControlAssumption DEF Inv, Requests, Order, Accepted, Newest, Marked,
     Submitted, Waiting, At, plane
<1>5. Carried' /\ Answered' /\ SuccessWasApplied'
  BY <1>1, <1>2 DEF Inv, Carried, Answered, SuccessWasApplied, At, plane
<1> QED
  BY <1>3, <1>4, <1>5 DEF Inv

-----------------------------------------------------------------------------
(* The invariant holds at first and is kept by every step.                  *)
LEMMA Starts ==
  ASSUME Init
  PROVE  Inv
<1>1. /\ local = [t \in Thread |-> Idle] /\ holder = Nobody /\ latest = NoRequest
      /\ results = <<>> /\ replies = [c \in Command |-> {}]
           /\ payload = [r \in Request |-> NoJob]
      /\ doc = NoState /\ born = [r \in Request |-> 0] /\ applied = {}
      /\ status = [r \in Request |-> "new"] /\ head = NoRequest /\ next = NoRequest
  BY DEF Init, QInit
<1>2. /\ \A t \in Thread : local[t].at = "idle" /\ local[t].outcome = "none"
      /\ \A c \in Command : c \in Thread
  BY <1>1, IdleTyped DEF Thread
<1>3. Typed
  <2>1. status \in [Request -> Statuses] /\ born \in [Request -> Nat]
    BY <1>1 DEF Statuses
  <2>2. payload \in [Request -> JobType]
    BY <1>1 DEF NoJob, JobType
  <2>3. local \in [Thread -> Local]
    BY <1>1, IdleTyped
  <2>4. results \in Seq(Answer)
    BY <1>1
  <2>5. replies \in [Command -> SUBSET Outcome]
    BY <1>1
  <2> QED
    BY <1>1, <2>1, <2>2, <2>3, <2>4, <2>5 DEF Typed
<1>4. Order
  <2>1. Accepted = {}
    BY <1>1 DEF Accepted
  <2> QED
    BY <1>1, <2>1, FS_EmptySet DEF Order, Newest
<1>5. Requests /\ Marked
  BY <1>1, <1>2, ControlAssumption DEF Requests, Marked, Submitted, Waiting, At
<1>6. Carried /\ Answered /\ SuccessWasApplied
  BY <1>1, <1>2 DEF Carried, Answered, SuccessWasApplied, At, Succeeded
<1> QED
  BY <1>3, <1>4, <1>5, <1>6 DEF Inv

LEMMA Steps ==
  ASSUME Inv, [Next]_vars
  PROVE  Inv'
<1>1. CASE Next
  <2>1. ASSUME NEW t \in Thread, Step(t)
        PROVE  Inv'
    BY <2>1, LockKeeps, CallSteps, RefusedKeeps, MarkKeeps, WaitedKeeps, WaitFailsKeeps,
       CheckKeeps, ReadHashKeeps, PublishHashKeeps, ReadyKeeps, ReportKeeps DEF Step
  <2> QED
    BY <1>1, <2>1, PlaneCrashKeeps, ControlCrashKeeps, PlaneBeginKeeps, PlaneSaveKeeps,
       PlaneFinishKeeps, PlaneGoesOnKeeps, PlaneReconcilesKeeps, DeliverKeeps,
       ReconnectKeeps, LoseAnswerKeeps, AnnounceKeeps, RespondKeeps DEF Next, PlaneMoves,
       CommandStep
<1>2. CASE UNCHANGED vars
  BY <1>2 DEF vars, plane, told, Inv, Typed, Requests, Carried, Answered, Order, Accepted,
     Newest, Marked, Submitted, Waiting, At, Job, Cached, SuccessWasApplied
<1> QED
  BY <1>1, <1>2

LEMMA Always == Spec => []Inv
<1>1. Inv /\ [Next]_vars => Inv'
  BY Steps
<1> QED
  BY <1>1, Starts, PTL DEF Spec

-----------------------------------------------------------------------------
(* "State applied" is answered only to a command whose own state the data   *)
(* plane has carried out, or that carries none: joined requests, repeated   *)
(* deliveries, lost answers, mislaid requests and crashes of either process *)
(* included (control.py:999).                                               *)
THEOREM SuccessIsTrue == Spec => []SuccessWasApplied
<1>1. Inv => SuccessWasApplied
  BY DEF Inv
<1> QED
  BY <1>1, Always, PTL

(* While control lives and remembers, one command has one final answer      *)
(* (_claim_command, _send_command_response).                                *)
THEOREM AnsweredOnce == Spec => []OneAnswer
<1>1. Inv => OneAnswer
  <2> SUFFICES ASSUME Inv, MaxResults >= Cardinality(Command), NEW c \in Command
               PROVE  Cardinality(replies[c]) <= 1
    BY DEF OneAnswer
  <2>1. CASE replies[c] = {}
    BY <2>1, FS_EmptySet
  <2>2. CASE replies[c] # {}
    <3>1. PICK i \in DOMAIN results : replies[c] = {results[i].outcome}
      BY <2>2 DEF Inv, Answered
    <3>2. Cardinality({results[i].outcome}) = 1
      BY FS_Singleton
    <3> QED
      BY <3>1, <3>2
  <2> QED
    BY <2>1, <2>2
<1> QED
  BY <1>1, Always, PTL

(* Only Check gives the right to publish, and it asks for the latest.      *)
LEMMA OnlyLatestPublishes ==
  ASSUME Inv, [Next]_vars, NEW t \in Thread, At(t) = "check", local'[t].at = "hash"
  PROVE  local[t].req = latest
<1>1. local[t] \in Local /\ local[t].at = "check" /\ local'[t] # local[t]
      /\ DOMAIN local = Thread
  BY DEF Inv, Typed, At
<1>2. ~(UNCHANGED local)
  BY <1>1
<1>3. ASSUME NEW u \in Thread, u # t, NEW m, local' = [local EXCEPT ![u] = m]
      PROVE  FALSE
  BY <1>1, <1>3
<1>4. \A m : local' = [local EXCEPT ![t] = m] => m.at = "hash"
  BY <1>1
<1>5. ASSUME NEW u \in Thread, NEW stop, GoTo(u, stop), u # t \/ stop # "hash"
      PROVE  FALSE
  <2>1. local' = [local EXCEPT ![u] = [local[u] EXCEPT !.at = stop]]
    BY <1>5, <1>1 DEF GoTo
  <2>2. [local[t] EXCEPT !.at = stop].at = stop
    BY <1>1 DEF Local
  <2> QED
    BY <1>3, <1>4, <1>5, <2>1, <2>2
<1>6. ASSUME NEW u \in Thread, NEW answer, Leave(u, answer)
      PROVE  FALSE
  <2>1. Idle.at = "idle" /\ [Idle EXCEPT !.at = "reply", !.outcome = answer].at = "reply"
    BY DEF Idle
  <2> DEFINE m == IF u \in Connector THEN Idle ELSE [Idle EXCEPT !.at = "reply",
        !.outcome = answer]
  <2>2. local' = [local EXCEPT ![u] = m] /\ m.at # "hash"
    BY <1>6, <2>1 DEF Leave
  <2> HIDE DEF m
  <2> QED
    BY <1>3, <1>4, <2>2
<1>7. ASSUME NEW u \in Thread, Raise(u)
      PROVE  FALSE
  <2> DEFINE m == [Idle EXCEPT !.at = IF u \in Command THEN "reply" ELSE "report",
        !.outcome = "error"]
  <2>1. local' = [local EXCEPT ![u] = m] /\ m.at # "hash"
    BY <1>7 DEF Raise, Idle
  <2> HIDE DEF m
  <2> QED
    BY <1>3, <1>4, <2>1
<1>8. ASSUME NEW u \in Thread, Step(u)
      PROVE  u = t /\ Check(u)
  <2>1. \A v \in Thread : ~Raise(v)
    BY <1>7
  <2>2. \A v \in Thread, answer \in Outcome : ~Leave(v, answer)
    BY <1>6
  <2>3. ~(Lock(u) \/ Mark(u) \/ PublishHash(u))
    BY <1>5 DEF Lock, Mark, PublishHash
  <2>4. ~(Refused(u) \/ WaitFails(u) \/ Ready(u) \/ Report(u))
    BY <2>1, <2>2 DEF Refused, WaitFails, Ready, Report, Outcome
  <2>5. u # t => ~(Call(u) \/ Waited(u) \/ ReadHash(u) \/ Check(u))
    <3> SUFFICES ASSUME u # t, Call(u) \/ Waited(u) \/ ReadHash(u) \/ Check(u)
                 PROVE  FALSE
      OBVIOUS
    <3>1. \E m : local' = [local EXCEPT ![u] = m]
      BY <1>8 DEF Call, Waited, ReadHash, Check, Raise, Leave, GoTo
    <3> QED
      BY <1>3, <3>1
  <2>6. ~(Call(t) \/ Waited(t) \/ ReadHash(t))
    BY <1>1 DEF Call, Waited, ReadHash, At
  <2> QED
    BY <1>8, <2>3, <2>4, <2>5, <2>6 DEF Step
<1>9. CASE \E u \in Thread : Step(u)
  <2>1. Check(t)
    BY <1>8, <1>9
  <2>2. ~Leave(t, local[t].outcome)
    BY <1>6
  <2> QED
    BY <2>1, <2>2 DEF Check
<1>10. ~\E k \in Connector : Reconnect(k)
  BY <1>5 DEF Reconnect, Thread
<1>11. ~\E c \in Command : Deliver(c)
  BY <1>2, <1>5 DEF Deliver, Claim, Thread
<1>12. ~\E c \in Command : CommandStep(c)
  <2>1. \A c \in Command : ~Announce(c)
    BY <1>5, <1>6 DEF Announce, Thread
  <2>2. \A c \in Command : ~Respond(c)
    BY <1>3, <1>4 DEF Respond, Thread, Idle
  <2> QED
    BY <2>1, <2>2 DEF CommandStep
<1>13. ~ControlCrash
  BY <1>1 DEF ControlCrash, Idle
<1>14. ~(PlaneCrash \/ PlaneMoves \/ PlaneReconciles \/ \E u \in Thread : LoseAnswer(u))
  BY <1>2 DEF PlaneCrash, PlaneMoves, PlaneBegin, PlaneSave, PlaneFinish, PlaneGoesOn,
     PlaneOnly, PlaneReconciles, LoseAnswer
<1> QED
  BY <1>2, <1>9, <1>10, <1>11, <1>12, <1>13, <1>14 DEF Next, vars

(* The right to publish goes only to a thread whose request was accepted    *)
(* after all others that still wait (_is_latest_apply, control.py:1667).    *)
THEOREM PublishesInOrder == Spec => NewestPublishes
<1> DEFINE A == \A t \in Thread : At(t) = "check" /\ local'[t].at = "hash" =>
                  \A u \in Thread : At(u) \in {"wait", "check"} =>
                    born[local[u].req] <= born[local[t].req]
<1>1. Inv /\ [Next]_vars => A
  BY OnlyLatestPublishes DEF Inv, Marked, Waiting
<1>2. Inv /\ [Next]_vars => [A]_vars
  BY <1>1
<1> QED
  BY <1>2, Always, PTL DEF Spec, NewestPublishes
=============================================================================
