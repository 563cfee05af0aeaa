--------------------------- MODULE MCBootStorage ---------------------------
(* Instances of BootStorage for TLC.                                       *)
EXTENDS BootStorage, TLC

CONSTANTS d1, d2, usb

TwoDisks == {d1, d2}
Symmetry == Permutations(TwoDisks)
=============================================================================
