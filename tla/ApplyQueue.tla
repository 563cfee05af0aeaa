----------------------------- MODULE ApplyQueue -----------------------------
(***************************************************************************)
(* What the data plane promises the clients of io.reefy.Reconciler about   *)
(* the requests they submit, written over nothing but the status of each   *)
(* request and the two places a live request can be in.                    *)
(*                                                                         *)
(*   "Persist a queued request before returning. The running request       *)
(*    always finishes; only the single pending request may be superseded." *)
(*                                                                         *)
(* (usr/share/varlink/io.reefy.Reconciler.varlink). Module ApplyScheduler  *)
(* implements this module.                                                 *)
(***************************************************************************)
CONSTANTS
  Request,     \* request identifiers (uuid4), each used at most once
  NoRequest    \* the empty place

VARIABLES
  serving,     \* the data plane answers its clients
  status,      \* what GetApply would answer for each request
  head,        \* the request that owns the worker, or NoRequest
  next         \* the single request waiting behind it, or NoRequest

qvars == <<serving, status, head, next>>

Done  == {"succeeded", "succeeded_with_warnings", "failed"}
Ended == Done \cup {"superseded"}
Live  == {"queued", "running"}

QInit ==
  /\ serving = TRUE
  /\ status = [r \in Request |-> "new"]
  /\ head = NoRequest
  /\ next = NoRequest

(* The bounded history may drop finished requests whenever one finishes.   *)
Settle(new) ==
  \E gone \in SUBSET {r \in Request : new[r] \in Ended} :
    status' = [r \in Request |-> IF r \in gone THEN "forgotten" ELSE new[r]]

(* A request arrives at an idle queue: it takes the worker, or fails at    *)
(* once because no worker could be started.                                *)
Enter(r) ==
  /\ serving /\ head = NoRequest
  /\ status[r] = "new"
  /\ \/ /\ status' = [status EXCEPT ![r] = "queued"]
        /\ head' = r
     \/ /\ Settle([status EXCEPT ![r] = "failed"])
        /\ head' = head
  /\ UNCHANGED <<serving, next>>

(* A request arrives at a busy queue: it takes the pending place, and the  *)
(* request it finds there, if any, is superseded.                          *)
Replace(r) ==
  /\ serving /\ head # NoRequest
  /\ status[r] = "new"
  /\ next' = r
  /\ IF next = NoRequest
     THEN status' = [status EXCEPT ![r] = "queued"]
     ELSE Settle([status EXCEPT ![r] = "queued", ![next] = "superseded"])
  /\ UNCHANGED <<serving, head>>

(* An apply that cannot be read leaves a record that is queued in name     *)
(* only: it takes no place, its caller gets an error and never learns of   *)
(* it, and the next restart fails it.                                      *)
Strand(r) ==
  /\ serving
  /\ status[r] = "new"
  /\ status' = [status EXCEPT ![r] = "queued"]
  /\ UNCHANGED <<serving, head, next>>

Begin ==
  /\ serving /\ head # NoRequest
  /\ status[head] = "queued"
  /\ status' = [status EXCEPT ![head] = "running"]
  /\ UNCHANGED <<serving, head, next>>

Finish ==
  /\ serving /\ head # NoRequest
  /\ status[head] = "running"
  /\ \E s \in Done : Settle([status EXCEPT ![head] = s])
  /\ UNCHANGED <<serving, head, next>>

(* The worker moves on to the pending request or goes idle.                *)
Advance ==
  /\ serving /\ head # NoRequest
  /\ status[head] \notin Live
  /\ head' = next
  /\ next' = NoRequest
  /\ UNCHANGED <<serving, status>>

(* The process dies, serving or not. A request that was begun or finished  *)
(* may come back unfinished, when a write of its result never reached the  *)
(* disk, and one that left the history may come back, when its file could  *)
(* not be removed.                                                         *)
Recovered(s) ==
  CASE s \in Ended \cup {"running"} -> {s} \cup Live
    [] s = "forgotten" -> {s} \cup Ended \cup Live
    [] OTHER -> {s}

Crash ==
  /\ serving' = FALSE
  /\ head' = NoRequest /\ next' = NoRequest
  /\ status' \in [Request -> {"new", "forgotten"} \cup Ended \cup Live]
  /\ \A r \in Request : status'[r] \in Recovered(status[r])

(* The restarted process fails what was not finished, then serves again.   *)
Interrupt(r) ==
  /\ ~serving
  /\ status[r] \in Live
  /\ Settle([status EXCEPT ![r] = "failed"])
  /\ UNCHANGED <<serving, head, next>>

Serve ==
  /\ ~serving
  /\ \A r \in Request : status[r] \notin Live
  /\ serving' = TRUE
  /\ UNCHANGED <<status, head, next>>

QNext ==
  \/ \E r \in Request : Enter(r) \/ Replace(r) \/ Strand(r) \/ Interrupt(r)
  \/ Begin \/ Finish \/ Advance
  \/ Crash \/ Serve

QSpec == QInit /\ [][QNext]_qvars
=============================================================================
