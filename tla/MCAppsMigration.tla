--------------------------- MODULE MCAppsMigration ---------------------------
(* Instances of AppsMigration for TLC.                                     *)
EXTENDS AppsMigration, TLC

CONSTANTS a1, a2

TwoApps == {a1, a2}
Symmetry == Permutations(TwoApps)
=============================================================================
