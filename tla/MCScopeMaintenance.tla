------------------------- MODULE MCScopeMaintenance -------------------------
(***************************************************************************)
(* Instances of ScopeMaintenance for TLC.                                  *)
(***************************************************************************)
EXTENDS ScopeMaintenance

CONSTANTS p1, p2

(* Bounds of the safety run: jobs there are, jobs that fail or are cancelled *)
FewJobs ==
    /\ Cardinality({k \in Keys : rows[k].state # "absent"}) <= 4
    /\ Cardinality({k \in Keys : rows[k].state \in {"failed", "cancelled"}}) <= 1
=============================================================================
