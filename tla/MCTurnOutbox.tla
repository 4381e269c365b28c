---------------------------- MODULE MCTurnOutbox ----------------------------
(***************************************************************************)
(* Instances of TurnOutbox for TLC.                                        *)
(***************************************************************************)
EXTENDS TurnOutbox, TLC

CONSTANTS t1, t2, p1, p2, a, s1, s2

OneProcess == [t \in Turns |-> p1]
OneProject == [t \in Turns |-> a]

TwoSessions == t1 :> s1 @@ t2 :> s2
=============================================================================
