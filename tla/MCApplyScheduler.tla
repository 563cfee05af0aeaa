-------------------------- MODULE MCApplyScheduler --------------------------
(* Instances of ApplyScheduler for TLC.                                    *)
EXTENDS ApplyScheduler, TLC

CONSTANTS r1, r2, r3, c1, c2, a, b, bad, odd

\* Two valid states whose app differs, one that is refused, and one whose
\* apps cannot be read.
Generations == a :> "genA" @@ b :> "genB" @@ bad :> "genX" @@ odd :> "genY"

Symmetry == Permutations(Request) \cup Permutations(Client)
=============================================================================
