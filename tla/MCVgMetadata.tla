---------------------------- MODULE MCVgMetadata ----------------------------
(* Instances of VgMetadata for TLC.                                        *)
EXTENDS VgMetadata
=============================================================================
