----------------------------- MODULE MCJobStore -----------------------------
(***************************************************************************)
(* Instances of JobStore for TLC.  Every constant that is a function is    *)
(* given by an operator here; the .cfg files choose among them.            *)
(***************************************************************************)
EXTENDS JobStore, TLC

CONSTANTS a, b, s1, w1, w2, plan, write, index, call

(* One scope *)
OneScope == [j \in Jobs |-> s1]

(* Mutations only *)
AllIngests == [j \in Jobs |-> "ingest"]

(* An ingest whose derived consolidation waits for it *)
Derived == (a :> "ingest" @@ b :> "consolidate")

(* An ingest with a stage, a scope deletion with a stage, a recall stage *)
IngestAndDelete == (a :> "ingest" @@ b :> "delete_scope")
StageOwner == (write :> a @@ index :> b @@ plan :> NoJob)
StageOrder == (write :> 0 @@ index :> 1 @@ plan :> 0)
AllInOneScope == [s \in Stages |-> s1]

NoStages == [s \in {} |-> NoJob]
NoStageScope == [s \in {} |-> s1]
NoStageSeq == [s \in {} |-> 0]
NoCalls == [s \in {} |-> a]
CallOfIngest == [k \in Calls |-> a]

WorkerSymmetry == Permutations({w1, w2})
=============================================================================
