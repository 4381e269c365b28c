---------------------------- MODULE MCWriterPool ----------------------------
(***************************************************************************)
(* Instances of WriterPool for TLC.                                        *)
(***************************************************************************)
EXTENDS WriterPool

CONSTANTS w1, w2, w3, w4, w5, c1, c2, r1

TwoFirst == <<w1, w2>>
=============================================================================
