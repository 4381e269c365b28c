-------------------------- MODULE MCContentDeletion --------------------------
(***************************************************************************)
(* Instances of ContentDeletion for TLC.                                   *)
(***************************************************************************)
EXTENDS ContentDeletion

CONSTANTS i1, i2, r1, d1
=============================================================================
