---------------------------- MODULE MCAppProject ----------------------------
(* AppProject with two documents, of which the second may be impossible to *)
(* pull.                                                                   *)
EXTENDS AppProject

CONSTANTS d1, d2, r1, r2

TwoDocs == {d1, d2}
OneBad  == {d2}
None    == {}
=============================================================================
