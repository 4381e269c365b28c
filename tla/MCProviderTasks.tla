-------------------------- MODULE MCProviderTasks --------------------------
(***************************************************************************)
(* Instances of ProviderTasks for TLC.                                     *)
(***************************************************************************)
EXTENDS ProviderTasks

CONSTANTS t1, e1, e2

ServeAll == [e \in Executors |-> Tasks]
=============================================================================
