---------------------------- MODULE MCAppVolumes ----------------------------
(* Instances of AppVolumes for TLC.                                        *)
EXTENDS AppVolumes, TLC

CONSTANTS v1, v2

TwoVolumes == {v1, v2}
OneVolume == {v1}
Symmetry == Permutations(TwoVolumes)
=============================================================================
