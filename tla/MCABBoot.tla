------------------------------ MODULE MCABBoot ------------------------------
(* ABBoot with three or four firmware images, one of which never becomes   *)
(* healthy.                                                                *)
EXTENDS ABBoot

CONSTANTS v0, v1, v2, v3

ThreeImages == {v0, v1, v2}
FourImages  == {v0, v1, v2, v3}
OneBad      == {v1}
=============================================================================
