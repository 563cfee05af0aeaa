--------------------------- MODULE MCControlApply ---------------------------
(* ControlApply with two commands of a state of their own, a command that  *)
(* carries no state, one whose state cannot be read, and a reconnect       *)
(* thread.                                                                 *)
EXTENDS ControlApply

CONSTANTS c1, c2, none, odd, k1, q1, q2, q3, s1, s2, s3

TwoCommands == {c1, c2}
TwoStates   == c1 :> s1 @@ c2 :> s2

AllCommands == {c1, c2, none, odd}
AllStates   == TwoStates @@ none :> NoState @@ odd :> s3

(* The commands change places together with their states.                  *)
Symmetry ==
  {p \in Permutations({c1, c2, s1, s2}) :
     \A c \in TwoCommands : p[c] \in TwoCommands /\ p[TwoStates[c]] = TwoStates[p[c]]}
=============================================================================
