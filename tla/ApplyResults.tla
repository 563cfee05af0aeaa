---------------------------- MODULE ApplyResults ----------------------------
(***************************************************************************)
(* The apply-result store of the data plane (apply_results.py): one record *)
(* per request, kept in memory and written through to one file each, with  *)
(* a bounded history of finished records.                                  *)
(*                                                                         *)
(* A store is a record: mem and disk give the status of each request in    *)
(* memory and in its file, time when it finished (updated_at), and now is  *)
(* the clock. Error text, warnings and the kind are left out: no decision  *)
(* of the store depends on them. The clock only moves forward, and it      *)
(* moves with each finished record, so that no two finish at one time.     *)
(***************************************************************************)
EXTENDS Naturals, FiniteSets

CONSTANTS
  Request,        \* request identifiers (uuid4), each used at most once
  TerminalLimit   \* finished records kept (32 in the code)

ASSUME TerminalLimitAssumption == TerminalLimit \in Nat \ {0}

Terminal     == {"succeeded", "succeeded_with_warnings", "failed", "superseded"}
Unfinished   == {"queued", "running"}
RecordStatus == Terminal \cup Unfinished \cup {"absent"}

Store == [mem  : [Request -> RecordStatus],
          disk : [Request -> RecordStatus],
          time : [Request -> Nat],
          now  : Nat]

EmptyStore == [mem  |-> [r \in Request |-> "absent"],
               disk |-> [r \in Request |-> "absent"],
               time |-> [r \in Request |-> 0],
               now  |-> 0]

(* create: a record that cannot be written is not kept in memory either,   *)
(* so a created record is in both.                                         *)
Created(st, r) == [st EXCEPT !.mem[r] = "queued", !.disk[r] = "queued"]

(* _prune: a finished record goes once TerminalLimit others finished after *)
(* it. Its file goes too, unless it is one of those that cannot be removed *)
(* (left): the error is ignored and the next process finds the file.       *)
FinishedAfter(st, r) ==
  {q \in Request : st.mem[q] \in Terminal /\ st.time[q] > st.time[r]}

Excess(st) ==
  {r \in Request : /\ st.mem[r] \in Terminal
                   /\ Cardinality(FinishedAfter(st, r)) >= TerminalLimit}

Without(f, gone) == [r \in Request |-> IF r \in gone THEN "absent" ELSE f[r]]

Pruned(st, left) == [st EXCEPT !.mem  = Without(@, Excess(st)),
                               !.disk = Without(@, Excess(st) \ left)]

(* update: memory always changes; the file keeps its old status when the   *)
(* write fails (written = FALSE). A finished record triggers a prune.      *)
(* Bug: finished records are only written when the process exits.          *)
RecordedLazily(st, r, s, written) ==
  [st EXCEPT !.mem[r] = s,
             !.disk[r] = IF written /\ s \notin Terminal THEN s ELSE @]

Recorded(st, r, s, written) ==
  [st EXCEPT !.mem[r] = s, !.disk[r] = IF written THEN s ELSE @]

Finished(st, r, s, written, left) ==
  Pruned([Recorded(st, r, s, written) EXCEPT !.time[r] = st.now + 1,
                                             !.now     = @ + 1], left)

Updated(st, r, s, written, left) ==
  IF st.mem[r] = "absent" THEN st
  ELSE IF s \in Terminal THEN Finished(st, r, s, written, left)
                         ELSE Recorded(st, r, s, written)

(* _load: a new process sees what the files say.                           *)
Loaded(st) == [st EXCEPT !.mem = st.disk]
=============================================================================
