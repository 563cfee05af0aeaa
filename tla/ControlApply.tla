---------------------------- MODULE ControlApply ----------------------------
(***************************************************************************)
(* How control turns apply_state commands and reconnects into requests of  *)
(* the data plane and tells the server what became of them. A command runs *)
(* in a thread of its own, a reconnect in a background thread; all of them *)
(* submit under one lock, remember the latest request, and wait without    *)
(* it. MQTT delivers a command at least once; a Varlink answer may be      *)
(* lost, and then the call is made again.                                  *)
(*                                                                         *)
(* The data plane is its contract, module ApplyQueue, with the desired     *)
(* state each request carries and the one that is saved.                   *)
(***************************************************************************)
EXTENDS ApplyQueue, Naturals, FiniteSets, SequencesExt

CONSTANTS
  Command,      \* ids of apply_state commands
  Connector,    \* threads of on_connect
  Nobody,
  State,        \* desired states
  StateOf,      \* the state each command carries, NoState for an empty one
  Unreadable,   \* states the data plane records and cannot read
  Leftover,     \* requests whose result file cannot be removed
  NoState,
  MaxResults,   \* answers control remembers
  History,      \* finished results the data plane keeps, at least
  MaxArrivals,  \* bound on deliveries, reconnects and reconciles of the data plane
  MaxLost,      \* bound on lost answers
  MaxCrashes    \* bound on crashes of either process

Thread == Command \cup Connector

(* A third lost answer would end the call (retries=3).                     *)
ASSUME ControlAssumption ==
  /\ Command \cap Connector = {} /\ Nobody \notin Thread
  /\ IsFiniteSet(Command) /\ NoRequest \notin Request
  /\ NoState \notin State /\ StateOf \in [Command -> State \cup {NoState}]
  /\ Unreadable \subseteq State /\ Leftover \subseteq Request
  /\ MaxResults \in Nat \ {0} /\ History \in Nat /\ MaxArrivals \in Nat
  /\ MaxLost \in 0..2 /\ MaxCrashes \in Nat

VARIABLES
  payload,   \* kind and state of each request
  doc,       \* the saved desired state
  local,     \* of each thread: where it is, the request it waits for, what it
             \* will answer and the hash it has read
  holder,    \* holder of _latest_apply_lock
  latest,    \* _latest_apply_request_id
  hash,      \* the retained state_hash message
  phase,     \* the last stage message
  results,   \* _command_results, oldest first
  arrivals, losses, crashes,
  born,      \* history: when each request was accepted
  applied,   \* history: states that were carried out
  replies    \* history: final answers of this control process

plane == <<serving, status, head, next, payload, doc, born, applied>>
told  == <<hash, phase, replies>>
vars  == <<plane, local, holder, latest, results, told, arrivals, losses, crashes>>

Outcome == {"none", "applied", "superseded", "error"}
NoJob   == [kind |-> "none", state |-> NoState]
Idle    == [at |-> "idle", req |-> NoRequest, outcome |-> "none", seen |-> NoState]
At(t)   == local[t].at

TypeOK ==
  /\ payload \in [Request -> [kind : {"none", "apply", "reconcile"},
                              state : State \cup {NoState}]]
  /\ doc \in State \cup {NoState}
  /\ local \in [Thread -> [at : {"idle", "announce", "lock", "call", "mark", "wait",
                                 "check", "hash", "publish", "tunnel", "report", "reply"},
                            req : Request \cup {NoRequest}, outcome : Outcome,
                            seen : State \cup {NoState}]]
  /\ \A t \in Thread : At(t) \in {"mark", "wait", "check"} => local[t].req \in Request
  /\ \A t \in Thread : At(t) \in {"call", "mark"} <=> holder = t
  /\ holder \in Thread \cup {Nobody}
  /\ latest \in Request \cup {NoRequest}
  /\ hash \in State \cup {NoState}
  /\ phase \in {"none", "applying", "ready", "error"}
  /\ results \in Seq([id : Command, outcome : Outcome \ {"none"}])
  /\ Len(results) <= MaxResults

Init ==
  /\ QInit
  /\ payload = [r \in Request |-> NoJob] /\ doc = NoState
  /\ local = [t \in Thread |-> Idle]
  /\ holder = Nobody /\ latest = NoRequest
  /\ hash = NoState /\ phase = "none"
  /\ results = <<>> /\ replies = [c \in Command |-> {}]
  /\ arrivals = 0 /\ losses = 0 /\ crashes = 0
  /\ born = [r \in Request |-> 0] /\ applied = {}

GoTo(t, stop) == local' = [local EXCEPT ![t].at = stop]

(* A command thread goes on to its answer, a reconnect thread ends.        *)
Leave(t, answer) ==
  local' = [local EXCEPT ![t] = IF t \in Connector THEN Idle
                                ELSE [Idle EXCEPT !.at = "reply", !.outcome = answer]]
-----------------------------------------------------------------------------
(* The data plane.                                                         *)
PlaneOnly == UNCHANGED <<local, holder, latest, results, told, arrivals, losses, crashes>>

Newest == IF next = NoRequest THEN head ELSE next

(* Mutant: the states are not compared.                                    *)
JoinsAny(job) ==
  /\ job.kind = "apply" /\ Newest # NoRequest
  /\ payload[Newest].kind = "apply" /\ status[Newest] \in Live

(* A submission of the state that is asked for already is that request.    *)
Joins(job) ==
  /\ job.kind = "apply" /\ Newest # NoRequest
  /\ payload[Newest] = job /\ status[Newest] \in Live

(* A result leaves the history for newer ones (ApplyResults).              *)
HistoryKept ==
  (\E r \in Request : status[r] # "forgotten" /\ status'[r] = "forgotten")
    => Cardinality({r \in Request : status'[r] \in Ended}) >= History

(* The request a submission of this job gets.                              *)
Unused == CHOOSE r \in Request : status[r] = "new"
Given(job) == IF Joins(job) THEN Newest ELSE Unused

Arrive(job) ==
  LET r == Given(job)
  IN IF Joins(job)
     THEN UNCHANGED plane
     ELSE /\ job.state \notin Unreadable
          /\ \E q \in Request : status[q] = "new"
          /\ Enter(r) \/ Replace(r)
          /\ HistoryKept
          /\ payload' = [payload EXCEPT ![r] = job]
          /\ born' = [born EXCEPT ![r] = Cardinality({q \in Request : born[q] > 0}) + 1]
          /\ UNCHANGED <<doc, applied>>

(* An apply that cannot be read leaves a record and is never accepted.     *)
Mislay(job) ==
  /\ job.state \in Unreadable
  /\ \E q \in Request : status[q] = "new"
  /\ Strand(Unused)
  /\ payload' = [payload EXCEPT ![Unused] = job]
  /\ UNCHANGED <<doc, born, applied>>

(* A reconcile takes the saved state when it begins.                       *)
PlaneBegin ==
  /\ Begin
  /\ payload' = IF payload[head].kind = "reconcile"
                THEN [payload EXCEPT ![head].state = doc] ELSE payload
  /\ UNCHANGED <<doc, born, applied>> /\ PlaneOnly

PlaneSave ==
  /\ head # NoRequest /\ status[head] = "running"
  /\ payload[head].kind = "apply" /\ doc # payload[head].state
  /\ doc' = payload[head].state
  /\ UNCHANGED <<serving, status, head, next, payload, born, applied>> /\ PlaneOnly

(* Warnings change the wording of what the server is told only.            *)
PlaneFinish ==
  /\ serving /\ head # NoRequest /\ status[head] = "running"
  /\ \E s \in {"succeeded", "failed"} :
       /\ Settle([status EXCEPT ![head] = s])
       /\ HistoryKept
       /\ s # "failed" => payload[head].state = doc
       /\ applied' = IF s = "failed" THEN applied ELSE applied \cup {doc}
  /\ UNCHANGED <<serving, head, next, payload, doc, born>> /\ PlaneOnly

PlaneGoesOn ==
  /\ Advance \/ Serve \/ \E r \in Request : Interrupt(r) /\ HistoryKept
  /\ UNCHANGED <<payload, doc, born, applied>> /\ PlaneOnly

(* The boot thread, the artifact timer and the migration submit as well.   *)
PlaneReconciles ==
  /\ arrivals < MaxArrivals /\ arrivals' = arrivals + 1
  /\ Arrive([kind |-> "reconcile", state |-> NoState])
  /\ UNCHANGED <<local, holder, latest, results, told, losses, crashes>>

(* A result that comes back from its file is the one that was recorded.    *)
PlaneCrash ==
  /\ crashes < MaxCrashes /\ crashes' = crashes + 1
  /\ Crash
  /\ \A r \in Request : status[r] = "forgotten" /\ status'[r] # "forgotten" =>
       /\ r \in Leftover
       /\ status'[r] \in Done \ {"failed"} => payload[r].state \in applied
  /\ UNCHANGED <<payload, doc, born, applied, local, holder, latest, results, told,
                 arrivals, losses>>

PlaneMoves == PlaneBegin \/ PlaneSave \/ PlaneFinish \/ PlaneGoesOn
-----------------------------------------------------------------------------
(* Commands and reconnects arrive.                                         *)
Cached(c) == {i \in DOMAIN results : results[i].id = c}

(* Mutant: only running commands are recognised.                           *)
ClaimRunning(c) ==
  /\ IF At(c) = "idle" THEN GoTo(c, "announce") ELSE UNCHANGED local
  /\ UNCHANGED replies

(* _claim_command: a known answer is sent again, a running command goes on.*)
Claim(c) ==
  /\ replies' = [replies EXCEPT ![c] = @ \cup {results[i].outcome : i \in Cached(c)}]
  /\ IF Cached(c) = {} /\ At(c) = "idle" THEN GoTo(c, "announce") ELSE UNCHANGED local

Deliver(c) ==
  /\ arrivals < MaxArrivals /\ arrivals' = arrivals + 1
  /\ Claim(c)
  /\ UNCHANGED <<plane, holder, latest, results, hash, phase, losses, crashes>>

Reconnect(k) ==
  /\ arrivals < MaxArrivals /\ arrivals' = arrivals + 1
  /\ At(k) = "idle" /\ GoTo(k, "lock")
  /\ UNCHANGED <<plane, holder, latest, results, told, losses, crashes>>

(* _apply_and_publish says that it begins. A command without a state never *)
(* gets there, and nothing distinguishes its answer (_apply_state).        *)
Announce(c) ==
  /\ At(c) = "announce"
  /\ IF StateOf[c] = NoState
     THEN Leave(c, "applied") /\ UNCHANGED phase
     ELSE GoTo(c, "lock") /\ phase' = "applying"
  /\ UNCHANGED <<plane, holder, latest, results, hash, replies, arrivals, losses, crashes>>
-----------------------------------------------------------------------------
(* _submit_and_wait_apply                                                  *)
Job(t) == IF t \in Command THEN [kind |-> "apply", state |-> StateOf[t]]
          ELSE [kind |-> "reconcile", state |-> NoState]

(* The call has raised: a command answers with the error, a reconnect      *)
(* reports it.                                                             *)
Raise(t) ==
  local' = [local EXCEPT ![t] = [Idle EXCEPT !.at = IF t \in Command THEN "reply"
                                                    ELSE "report",
                                             !.outcome = "error"]]

CallKeeps == UNCHANGED <<latest, results, told, arrivals, crashes>>

Lock(t) ==
  /\ At(t) = "lock" /\ holder = Nobody
  /\ holder' = t /\ GoTo(t, "call")
  /\ UNCHANGED <<plane, losses>> /\ CallKeeps

Call(t) ==
  /\ At(t) = "call"
  /\ Arrive(Job(t))
  /\ LET r == Given(Job(t))
     IN IF status'[r] \in Live
        THEN local' = [local EXCEPT ![t].at = "mark", ![t].req = r] /\ UNCHANGED holder
        ELSE Raise(t) /\ holder' = Nobody
  /\ UNCHANGED losses /\ CallKeeps

(* The data plane heard the call, control does not hear the answer.        *)
LoseAnswer(t) ==
  /\ At(t) = "call"
  /\ losses < MaxLost /\ losses' = losses + 1
  /\ Arrive(Job(t)) \/ Mislay(Job(t))
  /\ UNCHANGED <<local, holder>> /\ CallKeeps

(* Mutant: the lock is kept when the submission fails.                     *)
RefusedHolding(t) ==
  /\ At(t) = "call"
  /\ Raise(t) /\ UNCHANGED holder
  /\ UNCHANGED <<plane, losses>> /\ CallKeeps

(* The data plane cannot persist the request, cannot read it, or cannot be *)
(* reached.                                                                *)
Refused(t) ==
  /\ At(t) = "call"
  /\ UNCHANGED plane \/ Mislay(Job(t))
  /\ Raise(t) /\ holder' = Nobody
  /\ UNCHANGED losses /\ CallKeeps

(* Mutant: the lock is given back between the submission and the marker.   *)
MarkLate(t) ==
  /\ At(t) = "mark"
  /\ IF holder = t
     THEN holder' = Nobody /\ UNCHANGED <<latest, local>>
     ELSE latest' = local[t].req /\ GoTo(t, "wait") /\ UNCHANGED holder
  /\ UNCHANGED <<plane, results, told, arrivals, losses, crashes>>

Mark(t) ==
  /\ At(t) = "mark"
  /\ latest' = local[t].req /\ holder' = Nobody
  /\ GoTo(t, "wait")
  /\ UNCHANGED <<plane, results, told, arrivals, losses, crashes>>

(* WaitApply answers; the request may have left the history.               *)
Waited(t) ==
  /\ At(t) = "wait" /\ serving
  /\ LET answer == status[local[t].req]
     IN \/ answer = "forgotten" /\ Raise(t)
        \/ answer = "superseded" /\ Leave(t, "superseded")
        \/ /\ answer \in Done
           /\ local' = [local EXCEPT ![t].at = "check",
                          ![t].outcome = IF answer = "failed" THEN "error" ELSE "applied"]
  /\ UNCHANGED <<plane, holder, losses>> /\ CallKeeps

WaitFails(t) ==
  /\ At(t) = "wait" /\ ~serving
  /\ Raise(t)
  /\ UNCHANGED <<plane, holder, losses>> /\ CallKeeps

(* _is_latest_apply, and what follows it. A request that is not the latest *)
(* is answered, but nothing is published for it.                           *)
Check(t) ==
  /\ At(t) = "check" /\ holder = Nobody
  /\ LET saved == payload[local[t].req].state # NoState
     IN IF local[t].req # latest \/ (local[t].outcome = "applied" /\ ~saved)
        THEN Leave(t, local[t].outcome)
        ELSE GoTo(t, IF local[t].outcome = "error" THEN "report" ELSE "hash")
  /\ UNCHANGED <<plane, holder, losses>> /\ CallKeeps
-----------------------------------------------------------------------------
(* What the server is told.                                                *)
SayKeeps == UNCHANGED <<plane, holder, latest, arrivals, losses, crashes>>

(* _publish_state_hash: read the saved state, then publish.                *)
ReadHash(t) ==
  /\ At(t) = "hash"
  /\ local' = [local EXCEPT ![t].at = "publish", ![t].seen = doc]
  /\ UNCHANGED <<results, told>> /\ SayKeeps

PublishHash(t) ==
  /\ At(t) = "publish" /\ GoTo(t, "tunnel")
  /\ hash' = local[t].seen
  /\ UNCHANGED <<results, phase, replies>> /\ SayKeeps

(* The tunnel answers, or a minute has passed.                             *)
Ready(t) ==
  /\ At(t) = "tunnel" /\ Leave(t, "applied")
  /\ phase' = "ready"
  /\ UNCHANGED <<results, hash, replies>> /\ SayKeeps

Report(t) ==
  /\ At(t) = "report" /\ Leave(t, "error")
  /\ phase' = "error"
  /\ UNCHANGED <<results, hash, replies>> /\ SayKeeps

(* _send_command_response: remember the answer as the newest, forget the   *)
(* oldest.                                                                 *)
Respond(c) ==
  /\ At(c) = "reply" /\ local' = [local EXCEPT ![c] = Idle]
  /\ LET rest == IF Cached(c) = {} THEN results
                 ELSE RemoveAt(results, CHOOSE i \in Cached(c) : TRUE)
         all  == Append(rest, [id |-> c, outcome |-> local[c].outcome])
     IN results' = IF Len(all) > MaxResults THEN Tail(all) ELSE all
  /\ replies' = [replies EXCEPT ![c] = @ \cup {local[c].outcome}]
  /\ UNCHANGED <<hash, phase>> /\ SayKeeps

(* control dies and is started again: it remembers nothing, what it        *)
(* retained stays with the server.                                         *)
ControlCrash ==
  /\ crashes < MaxCrashes /\ crashes' = crashes + 1
  /\ local' = [t \in Thread |-> Idle]
  /\ holder' = Nobody /\ latest' = NoRequest
  /\ results' = <<>> /\ replies' = [c \in Command |-> {}]
  /\ UNCHANGED <<plane, hash, phase, arrivals, losses>>

Step(t) ==
  \/ Lock(t) \/ Call(t) \/ Refused(t) \/ Mark(t) \/ Waited(t) \/ WaitFails(t)
  \/ Check(t) \/ ReadHash(t) \/ PublishHash(t) \/ Ready(t) \/ Report(t)

CommandStep(c) == Announce(c) \/ Respond(c)

Next ==
  \/ PlaneCrash \/ ControlCrash
  \/ PlaneMoves \/ PlaneReconciles
  \/ \E c \in Command : Deliver(c)
  \/ \E k \in Connector : Reconnect(k)
  \/ \E t \in Thread : Step(t) \/ LoseAnswer(t)
  \/ \E c \in Command : CommandStep(c)

Spec == Init /\ [][Next]_vars

(* Threads run, calls return, and the data plane works and is restarted.   *)
Fairness ==
  /\ WF_vars(PlaneMoves)
  /\ \A k \in Connector : WF_vars(Step(k))
  /\ \A c \in Command : WF_vars(Step(c) \/ CommandStep(c))

FairSpec == Spec /\ Fairness
-----------------------------------------------------------------------------
(* Properties.                                                             *)

(* "State applied" is answered only to a command whose own state the data  *)
(* plane has carried out, whichever request it joined, however often it    *)
(* was delivered and whatever answers were lost (control.py:999); or to a  *)
(* command that carries no state, for which nothing is done (control.py:   *)
(* 1601).                                                                  *)
SuccessWasApplied ==
  \A c \in Command : "applied" \in replies[c] => StateOf[c] \in applied \cup {NoState}

(* "State applied" always speaks of a state that was applied.              *)
SuccessNamesAState ==
  \A c \in Command : "applied" \in replies[c] => StateOf[c] \in applied

(* While control lives and remembers, one command has one final answer,    *)
(* also when MQTT delivers it again (_claim_command).                      *)
OneAnswer ==
  MaxResults >= Cardinality(Command) =>
    \A c \in Command : Cardinality(replies[c]) <= 1

(* The right to publish goes only to a thread whose request was accepted   *)
(* after all others that still wait: submission order and the marker agree *)
(* (control.py:1667: "Keep submit order and the local "latest" marker      *)
(* atomic").                                                               *)
NewestPublishes ==
  [][\A t \in Thread : At(t) = "check" /\ local'[t].at = "hash" =>
       \A u \in Thread : At(u) \in {"wait", "check"} => born[local[u].req] <= born[local[t].req]]_vars

(* Every command that is taken up is answered, unless control dies: no     *)
(* thread keeps the lock, no wait lasts forever.                           *)
EveryCommandEnds ==
  \A c \in Command : []<>(At(c) = "idle")

(* docs/desired-state.md:132: "An apply failure reports `error` and does   *)
(* not claim convergence": when everything is done and the latest request  *)
(* has failed, the last stage is not "ready" and the hash the server holds *)
(* is not of a state that was never carried out.                           *)
FailureClaimsNothing ==
  (/\ \A t \in Thread : At(t) = "idle"
   /\ head = NoRequest /\ latest # NoRequest /\ status[latest] = "failed")
  => phase # "ready" /\ hash \in applied \cup {NoState}
=============================================================================
