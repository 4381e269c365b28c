---------------------------- MODULE MCRecallPool ----------------------------
(***************************************************************************)
(* Instances of RecallPool for TLC.                                        *)
(***************************************************************************)
EXTENDS RecallPool, TLC

CONSTANTS c1, c2, c3, ta, tb

TwoTenants == c1 :> ta @@ c2 :> ta @@ c3 :> tb
=============================================================================
