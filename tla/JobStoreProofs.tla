--------------------------- MODULE JobStoreProofs ---------------------------
(***************************************************************************)
(* Proofs about the job store, for every set of jobs, scopes, workers and  *)
(* stages, every lease and every wait for the write lock.                  *)
(***************************************************************************)
EXTENDS JobStore, FiniteSetTheorems, TLAPS

-----------------------------------------------------------------------------
(* Rows *)

(* A row is running exactly as long as it carries a lease. *)
Shaped(row) == row.state = "running" <=> row.lease # NoLease

(* Starting a job leaves a well-formed row. *)
LEMMA JobBegun ==
    ASSUME NEW row \in JobRow, NEW w \in Workers, NEW m \in Nat
    PROVE  Begun(row, w, m) \in JobRow /\ Shaped(Begun(row, w, m))
<1> USE JobStoreAssumption
<1>1. PICK v \in Nat : v = row.version + 1
  BY DEF JobRow
<1>2. PICK l \in Nat : l = m + Lease
  OBVIOUS
<1>3. Begun(row, w, m) =
        [row EXCEPT !.state = "running", !.worker = w, !.lease = l, !.version = v]
  BY <1>1, <1>2, Zenon DEF Begun
<1>4. Begun(row, w, m) \in JobRow
  BY <1>3 DEF JobRow, JobStates
<1>5. Shaped(Begun(row, w, m))
  BY DEF JobRow, Begun, Shaped, NoLease
<1> QED
  BY <1>4, <1>5

(* So does ending a job, with or without giving it back to the queue. *)
LEMMA JobEnded ==
    ASSUME NEW row \in JobRow, NEW st \in JobStates \ {"running"}
    PROVE  /\ Ended(row, st) \in JobRow /\ Shaped(Ended(row, st))
           /\ Requeued(row, st) \in JobRow /\ Shaped(Requeued(row, st))
<1>1. PICK v \in Nat : v = row.version + 1
  BY DEF JobRow
<1>2. Ended(row, st) = [row EXCEPT !.state = st, !.lease = NoLease, !.version = v]
  BY <1>1, Zenon DEF Ended
<1>3. Ended(row, st) \in JobRow
  BY <1>2 DEF JobRow, JobStates
<1>4. Requeued(row, st) \in JobRow
  BY <1>3 DEF Requeued, JobRow
<1>5. Shaped(Ended(row, st)) /\ Shaped(Requeued(row, st))
  BY DEF JobRow, JobStates, Ended, Requeued, Shaped, NoLease
<1> QED
  BY <1>3, <1>4, <1>5

(* The same for the rows of operation_stages. *)
LEMMA StageBegun ==
    ASSUME NEW row \in StageRow, NEW w \in Workers, NEW m \in Nat
    PROVE  Begun(row, w, m) \in StageRow /\ Shaped(Begun(row, w, m))
<1> USE JobStoreAssumption
<1>1. PICK v \in Nat : v = row.version + 1
  BY DEF StageRow
<1>2. PICK l \in Nat : l = m + Lease
  OBVIOUS
<1>3. Begun(row, w, m) =
        [row EXCEPT !.state = "running", !.worker = w, !.lease = l, !.version = v]
  BY <1>1, <1>2, Zenon DEF Begun
<1>4. Begun(row, w, m) \in StageRow
  BY <1>3 DEF StageRow, StageStates
<1>5. Shaped(Begun(row, w, m))
  BY DEF StageRow, Begun, Shaped, NoLease
<1> QED
  BY <1>4, <1>5

(* And for stages that end. *)
LEMMA StageEnded ==
    ASSUME NEW row \in StageRow, NEW st \in StageStates \ {"running"}
    PROVE  /\ Ended(row, st) \in StageRow /\ Shaped(Ended(row, st))
           /\ Requeued(row, st) \in StageRow /\ Shaped(Requeued(row, st))
<1>1. PICK v \in Nat : v = row.version + 1
  BY DEF StageRow
<1>2. Ended(row, st) = [row EXCEPT !.state = st, !.lease = NoLease, !.version = v]
  BY <1>1, Zenon DEF Ended
<1>3. Ended(row, st) \in StageRow
  BY <1>2 DEF StageRow, StageStates
<1>4. Requeued(row, st) \in StageRow
  BY <1>3 DEF Requeued, StageRow
<1>5. Shaped(Ended(row, st)) /\ Shaped(Requeued(row, st))
  BY DEF StageRow, StageStates, Ended, Requeued, Shaped, NoLease
<1> QED
  BY <1>3, <1>4, <1>5

(* Extending the lease of a running row keeps it well formed. *)
LEMMA Extended ==
    ASSUME NEW m \in Nat, NEW row, row.state = "running"
    PROVE  /\ row \in JobRow => LET r == [row EXCEPT !.lease = m + Lease]
                                IN  r \in JobRow /\ Shaped(r)
           /\ row \in StageRow => LET r == [row EXCEPT !.lease = m + Lease]
                                  IN  r \in StageRow /\ Shaped(r)
<1>1. PICK l \in Nat : l = m + Lease
  BY JobStoreAssumption
<1> QED
  BY <1>1 DEF JobRow, StageRow, Shaped, NoLease

(* Ending a set of stages keeps the table well formed. *)
LEMMA FailedStages ==
    ASSUME TypeOK, NEW S
    PROVE  /\ FailStages(S) \in [Stages -> StageRow]
           /\ \A s \in Stages : Shaped(FailStages(S)[s])
<1>1. \A s \in Stages : stages[s] \in StageRow /\ Shaped(stages[s])
  BY DEF TypeOK, Shaped
<1>2. "failed" \in StageStates \ {"running"}
  BY DEF StageStates
<1>3. \A s \in Stages : Ended(stages[s], "failed") \in StageRow /\ Shaped(Ended(stages[s], "failed"))
  BY <1>1, <1>2, StageEnded
<1> QED
  BY <1>1, <1>3 DEF FailStages

(* Releasing the claims of a terminal job keeps the claims well typed. *)
LEMMA ReleasedClaims ==
    ASSUME TypeOK, NEW j \in Jobs
    PROVE  ReleasedBy(j) \in [Scopes -> [Kinds -> Claims]]
BY JobStoreAssumption DEF TypeOK, ReleasedBy, Claims, NoClaim

-----------------------------------------------------------------------------
(* Type correctness *)

(* The initial tables are well typed. *)
LEMMA TypeInit == Init => TypeOK
BY JobStoreAssumption
DEF Init, TypeOK, JobRow, StageRow, Claims, NoClaim, NoLease, NoResult, JobStates,
    StageStates, CallStates

(* A step that replaces one row of jobs and leaves every other table as    *)
(* well typed as it was keeps the types.                                   *)
LEMMA TypeOneJob ==
    ASSUME TypeOK, NEW j \in Jobs, NEW row \in JobRow, Shaped(row),
           jobs' = [jobs EXCEPT ![j] = row],
           stages' \in [Stages -> StageRow], \A s \in Stages : Shaped(stages'[s]),
           scopeClaims' \in [Scopes -> [Kinds -> Claims]],
           tickets' \subseteq Tickets, seenPending' \subseteq Jobs, proofs' \subseteq Proofs,
           UNCHANGED <<scopeHead, calls, reconciled, committed, closed, handles, now>>
    PROVE  TypeOK'
<1>1. jobs' \in [Jobs -> JobRow]
  BY DEF TypeOK
<1>2. \A i \in Jobs : jobs'[i].state = "running" <=> jobs'[i].lease # NoLease
  BY DEF TypeOK, Shaped
<1> QED
  BY <1>1, <1>2 DEF TypeOK, Shaped

(* The operations on the table jobs keep every table well typed. *)
LEMMA TypeJobStep == TypeOK /\ JobStep => TypeOK'
<1> SUFFICES ASSUME TypeOK, JobStep PROVE TypeOK'
  OBVIOUS
<1> USE JobStoreAssumption DEF DataVersionChanged
<1>m. \A m \in Moments : m \in Nat
  BY DEF Moments, TypeOK
<1>t. \A t \in tickets : t \in Tickets /\ t.job \in Jobs /\ t.version \in Nat
  BY DEF TypeOK, Tickets
<1>j. \A j \in Jobs : jobs[j] \in JobRow /\ Shaped(jobs[j])
  BY DEF TypeOK, Shaped
<1>s. stages \in [Stages -> StageRow] /\ \A s \in Stages : Shaped(stages[s])
  BY DEF TypeOK, Shaped
<1>p. {} \subseteq Proofs /\ tickets \subseteq Tickets /\ seenPending \subseteq Jobs
      /\ scopeClaims \in [Scopes -> [Kinds -> Claims]] /\ proofs \subseteq Proofs
  BY DEF TypeOK
<1>st. {"pending", "succeeded", "failed", "cancelled"} \subseteq JobStates \ {"running"}
  BY DEF JobStates
<1>1. ASSUME NEW s \in Scopes, NEW batch \in SUBSET Jobs, SubmitBatch(s, batch)
      PROVE  TypeOK'
  <2>1. PICK order \in [batch -> scopeHead[s] .. scopeHead[s] + Cardinality(batch) - 1] :
           jobs' = [j \in Jobs |->
                      IF j \in batch
                      THEN [jobs[j] EXCEPT !.state = "pending", !.seq = order[j]]
                      ELSE jobs[j]]
    BY <1>1 DEF SubmitBatch
  <2>c. scopeHead[s] \in Nat \ {0} /\ Cardinality(batch) \in Nat
    BY <1>1, FS_CardinalityType DEF SubmitBatch, TypeOK
  <2>2. \A j \in batch : order[j] \in Nat
    BY <2>c
  <2>3. \A j \in batch : jobs[j].state = "absent"
    BY <1>1 DEF SubmitBatch, Submitted
  <2>4. ASSUME NEW j \in Jobs
        PROVE  jobs'[j] \in JobRow /\ Shaped(jobs'[j])
    <3>1. CASE j \in batch
      <4>1. jobs'[j] = [jobs[j] EXCEPT !.state = "pending", !.seq = order[j]]
        BY <2>1, <3>1
      <4>2. PICK n \in Nat : n = order[j]
        BY <2>2, <3>1
      <4>3. jobs'[j] \in JobRow
        BY <1>j, <4>1, <4>2 DEF JobRow, JobStates
      <4>4. Shaped(jobs'[j])
        BY <1>j, <2>3, <3>1, <4>1 DEF JobRow, Shaped
      <4> QED
        BY <4>3, <4>4
    <3>2. CASE j \notin batch
      BY <1>j, <2>1, <3>2
    <3> QED
      BY <3>1, <3>2
  <2>5. jobs' \in [Jobs -> JobRow]
    BY <2>1, <2>4
  <2>6. scopeHead' \in [Scopes -> Nat \ {0}]
    <3>1. PICK n \in Nat \ {0} : n = scopeHead[s] + Cardinality(batch)
      BY <2>c
    <3>2. scopeHead' = [scopeHead EXCEPT ![s] = n]
      BY <1>1, <3>1, Zenon DEF SubmitBatch
    <3> QED
      BY <3>2 DEF TypeOK
  <2> QED
    BY <1>1, <2>4, <2>5, <2>6 DEF SubmitBatch, TypeOK, Shaped
<1>2. ASSUME NEW j \in Jobs, NEW w \in Workers, NEW m \in Moments, Claim(j, w, m)
      PROVE  TypeOK'
  <2>1. Begun(jobs[j], w, m) \in JobRow /\ Shaped(Begun(jobs[j], w, m))
    BY <1>j, <1>m, JobBegun
  <2>2. tickets' \subseteq Tickets
    BY <1>2, <1>j, <1>p DEF Claim, Tickets, JobRow
  <2> QED
    BY <1>2, <1>s, <1>p, <2>1, <2>2, TypeOneJob DEF Claim
<1>3. ASSUME NEW t \in tickets, NEW m \in Moments, Heartbeat(t, m)
      PROVE  TypeOK'
  <2> DEFINE row == [jobs[t.job] EXCEPT !.lease = m + Lease]
  <2>1. row \in JobRow /\ Shaped(row)
    BY <1>3, <1>m, <1>t, <1>j, Extended DEF Heartbeat, Owns
  <2> QED
    BY <1>3, <1>t, <1>s, <1>p, <2>1, TypeOneJob DEF Heartbeat
<1>4. ASSUME NEW t \in tickets, NEW m \in Moments, NEW st \in {"succeeded", "failed"},
             Finish(t, m, st)
      PROVE  TypeOK'
  <2> DEFINE row == [Ended(jobs[t.job], st) EXCEPT !.outcome = t.version]
  <2>1. Ended(jobs[t.job], st) \in JobRow /\ Shaped(Ended(jobs[t.job], st))
    BY <1>t, <1>j, <1>st, JobEnded
  <2>2. row \in JobRow /\ Shaped(row)
    BY <2>1, <1>t DEF JobRow, Shaped
  <2> QED
    BY <1>4, <1>t, <1>s, <1>p, <2>2, ReleasedClaims, TypeOneJob DEF Finish
<1>5. ASSUME NEW t \in tickets, NEW m \in Moments, FailExpired(t, m)
      PROVE  TypeOK'
  <2>1. Ended(jobs[t.job], "failed") \in JobRow /\ Shaped(Ended(jobs[t.job], "failed"))
    BY <1>t, <1>j, <1>st, JobEnded
  <2> QED
    BY <1>5, <1>t, <1>s, <1>p, <2>1, ReleasedClaims, TypeOneJob DEF FailExpired
<1>6. ASSUME NEW j \in Jobs, SeePending(j)
      PROVE  TypeOK'
  BY <1>6 DEF SeePending, TypeOK
<1>7. ASSUME NEW j \in Jobs, Cancel(j)
      PROVE  TypeOK'
  <2>1. CASE Active(j)
    <3>1. Ended(jobs[j], "cancelled") \in JobRow /\ Shaped(Ended(jobs[j], "cancelled"))
      BY <1>j, <1>st, JobEnded
    <3>2. CancelledStages(j) \in [Stages -> StageRow]
          /\ \A s \in Stages : Shaped(CancelledStages(j)[s])
      <4>1. "cancelled" \in StageStates \ {"running"}
        BY DEF StageStates
      <4> QED
        BY <1>s, <4>1, StageEnded DEF CancelledStages
    <3> QED
      BY <1>7, <1>p, <2>1, <3>1, <3>2, ReleasedClaims, TypeOneJob DEF Cancel
  <2>2. CASE ~Active(j)
    BY <1>7, <2>2 DEF Cancel, TypeOK
  <2> QED
    BY <2>1, <2>2
<1>8. ASSUME NEW j \in Jobs, ResumeFailed(j)
      PROVE  TypeOK'
  <2> DEFINE row == [Requeued(jobs[j], "pending") EXCEPT !.outcome = NoResult]
  <2>1. Requeued(jobs[j], "pending") \in JobRow /\ Shaped(Requeued(jobs[j], "pending"))
    BY <1>j, <1>st, JobEnded
  <2>2. row \in JobRow /\ Shaped(row)
    BY <2>1 DEF JobRow, Shaped
  <2> QED
    BY <1>8, <1>s, <1>p, <2>2, ReleasedClaims, TypeOneJob DEF ResumeFailed
<1> QED
  BY <1>1, <1>2, <1>3, <1>4, <1>5, <1>6, <1>7, <1>8 DEF JobStep

(* A step that writes only operation_stages, keeps its rows well formed    *)
(* and hands out well-typed handles keeps the types.                       *)
LEMMA TypeStages ==
    ASSUME TypeOK,
           stages' \in [Stages -> StageRow], \A s \in Stages : Shaped(stages'[s]),
           handles' \subseteq Handles, proofs' \subseteq Proofs,
           UNCHANGED <<jobs, scopeHead, calls, reconciled, committed, scopeClaims,
                       closed, tickets, seenPending, now>>
    PROVE  TypeOK'
BY DEF TypeOK, Shaped

(* The operations on operation_stages keep every table well typed. *)
LEMMA TypeStageStep == TypeOK /\ StageStep => TypeOK'
<1> SUFFICES ASSUME TypeOK, StageStep PROVE TypeOK'
  OBVIOUS
<1> USE JobStoreAssumption DEF DataVersionChanged
<1>m. \A m \in Moments : m \in Nat
  BY DEF Moments, TypeOK
<1>h. \A h \in handles : h \in Handles /\ h.stage \in Stages
  BY DEF TypeOK, Handles
<1>s. stages \in [Stages -> StageRow] /\ \A s \in Stages : stages[s] \in StageRow /\ Shaped(stages[s])
  BY DEF TypeOK, Shaped
<1>p. {} \subseteq Proofs /\ handles \subseteq Handles
  BY DEF TypeOK
<1>st. {"ready", "succeeded", "failed"} \subseteq StageStates \ {"running"}
  BY DEF StageStates
<1>1. ASSUME NEW s \in Stages, CreateStage(s)
      PROVE  TypeOK'
  <2> DEFINE row == [stages[s] EXCEPT !.state = "ready"]
  <2>1. row \in StageRow /\ Shaped(row)
    BY <1>1, <1>s DEF CreateStage, StageRow, StageStates, Shaped
  <2>2. stages' \in [Stages -> StageRow] /\ \A r \in Stages : Shaped(stages'[r])
    BY <1>1, <1>s, <2>1 DEF CreateStage
  <2> QED
    BY <1>1, <1>p, <2>2, TypeStages DEF CreateStage
<1>2. ASSUME NEW m \in Moments, FailAbandonedStages(m)
      PROVE  TypeOK'
  BY <1>2, <1>p, FailedStages, TypeStages DEF FailAbandonedStages
<1>3. ASSUME NEW s \in Stages, NEW w \in Workers, NEW v \in 0..MaxVersion, NEW m \in Moments,
             ClaimStage(s, w, v, m)
      PROVE  TypeOK'
  <2> DEFINE swept == FailStages({a \in Abandoned(m) : StageScope[a] = StageScope[s]} \ {s})
  <2>1. swept \in [Stages -> StageRow] /\ \A r \in Stages : Shaped(swept[r])
    BY FailedStages
  <2>2. stages' = [swept EXCEPT ![s] = Begun(swept[s], w, m)]
    BY <1>3 DEF ClaimStage
  <2> HIDE DEF swept
  <2>3. Begun(swept[s], w, m) \in StageRow /\ Shaped(Begun(swept[s], w, m))
    BY <1>m, <2>1, StageBegun
  <2>4. stages' \in [Stages -> StageRow] /\ \A r \in Stages : Shaped(stages'[r])
    BY <2>1, <2>2, <2>3
  <2>5. handles' \subseteq Handles
    <3>1. PICK n \in Nat : n = stages[s].version + 1
      BY <1>s DEF StageRow
    <3>2. handles' = handles \cup {[stage |-> s, worker |-> w, version |-> n]}
      BY <1>3, <3>1 DEF ClaimStage
    <3> QED
      BY <1>p, <3>2 DEF Handles
  <2> QED
    BY <1>3, <1>p, <2>4, <2>5, TypeStages DEF ClaimStage
<1>4. ASSUME NEW h \in handles, NEW m \in Moments, StageHeartbeat(h, m)
      PROVE  TypeOK'
  <2> DEFINE row == [stages[h.stage] EXCEPT !.lease = m + Lease]
  <2>1. row \in StageRow /\ Shaped(row)
    BY <1>4, <1>m, <1>h, <1>s, Extended DEF StageHeartbeat, OwnsStage
  <2>2. stages' = [stages EXCEPT ![h.stage] = row]
    BY <1>4 DEF StageHeartbeat
  <2> HIDE DEF row
  <2>3. stages' \in [Stages -> StageRow] /\ \A r \in Stages : Shaped(stages'[r])
    BY <1>h, <1>s, <2>1, <2>2
  <2> QED
    BY <1>4, <1>p, <2>3, TypeStages DEF StageHeartbeat
<1>5. ASSUME NEW h \in handles, NEW m \in Moments, NEW st \in {"succeeded", "failed"},
             FinishStage(h, m, st)
      PROVE  TypeOK'
  <2>1. stages' = [stages EXCEPT ![h.stage] = Ended(stages[h.stage], st)]
    BY <1>5 DEF FinishStage
  <2>2. Ended(stages[h.stage], st) \in StageRow /\ Shaped(Ended(stages[h.stage], st))
    BY <1>h, <1>s, <1>st, StageEnded
  <2>3. stages' \in [Stages -> StageRow] /\ \A r \in Stages : Shaped(stages'[r])
    BY <1>h, <1>s, <2>1, <2>2
  <2> QED
    BY <1>5, <1>p, <2>3, TypeStages DEF FinishStage
<1>6. ASSUME NEW h \in handles, NEW m \in Moments, FailExpiredStage(h, m)
      PROVE  TypeOK'
  BY <1>6, <1>p, FailedStages, TypeStages DEF FailExpiredStage
<1>7. ASSUME NEW s \in Stages, RetryStage(s)
      PROVE  TypeOK'
  <2>1. stages' = [stages EXCEPT ![s] = Requeued(stages[s], "ready")]
    BY <1>7 DEF RetryStage
  <2>2. Requeued(stages[s], "ready") \in StageRow /\ Shaped(Requeued(stages[s], "ready"))
    BY <1>s, <1>st, StageEnded
  <2>3. stages' \in [Stages -> StageRow] /\ \A r \in Stages : Shaped(stages'[r])
    BY <1>s, <2>1, <2>2
  <2> QED
    BY <1>7, <1>p, <2>3, TypeStages DEF RetryStage
<1> QED
  BY <1>1, <1>2, <1>3, <1>4, <1>5, <1>6, <1>7 DEF StageStep

(* Provider calls and ingest journals leave every table well typed. *)
LEMMA TypeLedgerStep == TypeOK /\ LedgerStep => TypeOK'
<1> SUFFICES ASSUME TypeOK, LedgerStep PROVE TypeOK'
  OBVIOUS
<1>1. ASSUME NEW c \in Calls, NEW st \in CallStates, RecordCall(c, st)
      PROVE  TypeOK'
  BY <1>1 DEF RecordCall, DataVersionChanged, TypeOK
<1>2. ASSUME NEW j \in Jobs, RecordCommitted(j)
      PROVE  TypeOK'
  BY <1>2 DEF RecordCommitted, DataVersionChanged, TypeOK
<1>3. ASSUME NEW s \in Scopes, ReconcileCalls(s)
      PROVE  TypeOK'
  BY <1>3 DEF ReconcileCalls, DataVersionChanged, TypeOK
<1> QED
  BY <1>1, <1>2, <1>3 DEF LedgerStep

(* Scope claims leave every table well typed. *)
LEMMA TypeScopeStep == TypeOK /\ ScopeStep => TypeOK'
<1> SUFFICES ASSUME TypeOK, ScopeStep PROVE TypeOK'
  OBVIOUS
<1> USE JobStoreAssumption DEF DataVersionChanged
<1>1. ASSUME NEW s \in Scopes, NEW k \in Kinds, NEW j \in Jobs, ProveClaim(s, k, j)
      PROVE  TypeOK'
  <2>1. proofs' \subseteq Proofs
    BY <1>1 DEF ProveClaim, TypeOK, Proofs, JobRow
  <2> QED
    BY <1>1, <2>1 DEF ProveClaim, TypeOK
<1>2. ASSUME NEW p \in proofs, CommitClaim(p)
      PROVE  TypeOK'
  <2>1. p \in Proofs
    BY DEF TypeOK
  <2>2. [job |-> p.job, version |-> p.version] \in Claims /\ p.scope \in Scopes /\ p.kind \in Kinds
    BY <2>1 DEF Proofs, Claims
  <2>3. scopeClaims' \in [Scopes -> [Kinds -> Claims]]
    BY <1>2, <2>2 DEF CommitClaim, TypeOK
  <2> QED
    BY <1>2, <2>3 DEF CommitClaim, TypeOK
<1>3. ASSUME NEW s \in Scopes, NEW k \in Kinds, NEW t \in tickets, NEW v \in 0..MaxVersion,
             ReleaseClaim(s, k, t, v)
      PROVE  TypeOK'
  <2>1. NoClaim \in Claims
    BY DEF Claims, NoClaim
  <2>2. scopeClaims' \in [Scopes -> [Kinds -> Claims]]
    BY <1>3, <2>1 DEF ReleaseClaim, TypeOK
  <2> QED
    BY <1>3, <2>2 DEF ReleaseClaim, TypeOK
<1>4. ASSUME NEW s \in Closable, ToggleScope(s)
      PROVE  TypeOK'
  BY <1>4 DEF ToggleScope, TypeOK
<1> QED
  BY <1>1, <1>2, <1>3, <1>4 DEF ScopeStep

(* Every table of the job store stays well typed, and a row carries a      *)
(* lease exactly while it is running: the claim of jobs.py that clearing   *)
(* and setting lease_expires_at goes with every change of state.           *)
THEOREM TypeCorrect == Spec => []TypeOK
<1>1. TypeOK /\ [Next]_vars => TypeOK'
  <2> SUFFICES ASSUME TypeOK, [Next]_vars PROVE TypeOK'
    OBVIOUS
  <2>1. CASE Tick
    BY <2>1, JobStoreAssumption DEF Tick, TypeOK
  <2>2. CASE UNCHANGED vars
    BY <2>2 DEF vars, TypeOK
  <2> QED
    BY <2>1, <2>2, TypeJobStep, TypeStageStep, TypeLedgerStep, TypeScopeStep DEF Next
<1> QED
  BY <1>1, TypeInit, PTL DEF Spec

-----------------------------------------------------------------------------
(* Lane exclusion *)

(* Contention is mutual. *)
LEMMA ContendSymmetric == \A i, j \in Jobs : Contend(i, j) => Contend(j, i)
BY DEF Contend, LanesConflict

(* A job is made running by a claim of that job and by nothing else, and   *)
(* a claim touches no other job.                                           *)
LEMMA RunningByClaim ==
    ASSUME TypeOK, [Next]_vars, NEW j \in Jobs, jobs'[j].state = "running"
    PROVE  \/ jobs[j].state = "running"
           \/ ~Blocked(j) /\ \A i \in Jobs : i # j => jobs'[i] = jobs[i]
<1> USE DEF TypeOK
<1>t. \A t \in tickets : t.job \in Jobs
  BY DEF Tickets
<1>r. ASSUME NEW row \in JobRow, NEW st
      PROVE  Ended(row, st).state = st /\ Requeued(row, st).state = st
  BY DEF JobRow, Ended, Requeued
<1>1. CASE UNCHANGED jobs
  BY <1>1
<1>2. ASSUME NEW s \in Scopes, NEW batch \in SUBSET Jobs, SubmitBatch(s, batch)
      PROVE  jobs[j].state = "running"
  <2>1. PICK order :
           jobs' = [i \in Jobs |->
                      IF i \in batch
                      THEN [jobs[i] EXCEPT !.state = "pending", !.seq = order[i]]
                      ELSE jobs[i]]
    BY <1>2 DEF SubmitBatch
  <2> QED
    BY <2>1 DEF JobRow
<1>3. ASSUME NEW i \in Jobs, NEW w \in Workers, NEW m \in Moments, Claim(i, w, m)
      PROVE  \/ jobs[j].state = "running"
             \/ ~Blocked(j) /\ \A k \in Jobs : k # j => jobs'[k] = jobs[k]
  BY <1>3 DEF Claim
<1>4. ASSUME NEW t \in tickets, NEW m \in Moments, Heartbeat(t, m)
      PROVE  jobs[j].state = "running"
  BY <1>4, <1>t DEF Heartbeat, Owns
<1>5. ASSUME NEW t \in tickets, NEW m \in Moments, NEW st \in {"succeeded", "failed"},
             Finish(t, m, st)
      PROVE  jobs[j].state = "running"
  BY <1>5, <1>t DEF Finish, RunningAttempt, Owns
<1>6. ASSUME NEW t \in tickets, NEW m \in Moments, FailExpired(t, m)
      PROVE  jobs[j].state = "running"
  BY <1>6, <1>t DEF FailExpired, Owns
<1>7. ASSUME NEW i \in Jobs, Cancel(i)
      PROVE  jobs[j].state = "running"
  <2>1. CASE Active(i)
    BY <1>7, <1>r, <2>1 DEF Cancel
  <2>2. CASE ~Active(i)
    BY <1>7, <2>2 DEF Cancel
  <2> QED
    BY <2>1, <2>2
<1>8. ASSUME NEW i \in Jobs, ResumeFailed(i)
      PROVE  jobs[j].state = "running"
  <2>1. [Requeued(jobs[i], "pending") EXCEPT !.outcome = NoResult].state = "pending"
    BY DEF Requeued, Ended, JobRow
  <2> QED
    BY <1>8, <2>1 DEF ResumeFailed
<1> QED
  BY <1>1, <1>2, <1>3, <1>4, <1>5, <1>6, <1>7, <1>8
  DEF Next, JobStep, StageStep, LedgerStep, ScopeStep, SeePending, CreateStage,
      FailAbandonedStages, ClaimStage, StageHeartbeat, FinishStage, FailExpiredStage,
      RetryStage, RecordCall, RecordCommitted, ReconcileCalls, ProveClaim, CommitClaim,
      ReleaseClaim, ToggleScope, Tick, vars

(* Two jobs of one scope whose lanes conflict never run at the same time,  *)
(* for any number of jobs and workers and any clock skew between the       *)
(* moment an operation reads and the moment it commits.                    *)
THEOREM LanesExclusive == Spec => []LaneExclusion
<1>1. Init => LaneExclusion
  BY DEF Init, LaneExclusion
<1>2. TypeOK /\ LaneExclusion /\ [Next]_vars => LaneExclusion'
  <2> SUFFICES ASSUME TypeOK, LaneExclusion, [Next]_vars,
                      NEW i \in Jobs, NEW j \in Jobs, Contend(i, j),
                      jobs'[i].state = "running", jobs'[j].state = "running"
               PROVE  FALSE
    BY DEF LaneExclusion, Contend, JobLane
  <2>1. i # j /\ Contend(j, i)
    BY ContendSymmetric DEF Contend
  <2>2. CASE jobs[i].state = "running" /\ jobs[j].state = "running"
    BY <2>2 DEF LaneExclusion
  <2>3. CASE jobs[i].state # "running"
    BY <2>1, <2>3, RunningByClaim DEF Blocked
  <2>4. CASE jobs[j].state # "running"
    BY <2>1, <2>4, RunningByClaim DEF Blocked
  <2> QED
    BY <2>2, <2>3, <2>4
<1> QED
  BY <1>1, <1>2, TypeCorrect, PTL DEF Spec
-----------------------------------------------------------------------------
(* The life of a row *)

(* What a step may make of the row of a job *)
Admitted(old, new) ==
    old.state = "absent" /\ \E n \in Nat : new = [old EXCEPT !.state = "pending", !.seq = n]
Started(old, new) ==
    old.state = "pending" /\ \E w \in Workers, m \in Nat : new = Begun(old, w, m)
Extends(old, new) ==
    old.state = "running" /\ \E m \in Nat : new = [old EXCEPT !.lease = m + Lease]
Reported(old, new) ==
    /\ old.state = "running"
    /\ \E st \in {"succeeded", "failed"} :
          new = [Ended(old, st) EXCEPT !.outcome = old.version]
Dropped(old, new) ==
    \/ old.state = "running" /\ new = Ended(old, "failed")
    \/ old.state \in {"pending", "running"} /\ new = Ended(old, "cancelled")
Resumed(old, new) ==
    /\ old.state = "failed"
    /\ new = [Requeued(old, "pending") EXCEPT !.outcome = NoResult]

(* There are no other changes, whoever acts and however late. *)
LEMMA RowsChange ==
    ASSUME TypeOK, [Next]_vars, NEW j \in Jobs
    PROVE  \/ jobs'[j] = jobs[j]
           \/ Admitted(jobs[j], jobs'[j]) \/ Started(jobs[j], jobs'[j])
           \/ Extends(jobs[j], jobs'[j]) \/ Reported(jobs[j], jobs'[j])
           \/ Dropped(jobs[j], jobs'[j]) \/ Resumed(jobs[j], jobs'[j])
<1> USE DEF TypeOK
<1>t. \A t \in tickets : t.job \in Jobs
  BY DEF Tickets
<1>m. Moments \subseteq Nat
  BY DEF Moments
<1>1. CASE UNCHANGED jobs
  BY <1>1
<1>2. ASSUME NEW s \in Scopes, NEW batch \in SUBSET Jobs, SubmitBatch(s, batch)
      PROVE  jobs'[j] = jobs[j] \/ Admitted(jobs[j], jobs'[j])
  <2> DEFINE last == scopeHead[s] + Cardinality(batch) - 1
  <2>1. PICK order \in [batch -> scopeHead[s] .. last] :
           jobs' = [i \in Jobs |->
                      IF i \in batch
                      THEN [jobs[i] EXCEPT !.state = "pending", !.seq = order[i]]
                      ELSE jobs[i]]
    BY <1>2 DEF SubmitBatch
  <2>2. Cardinality(batch) \in Nat
    BY <1>2, FS_CardinalityType DEF SubmitBatch
  <2>3. scopeHead[s] \in Nat
    OBVIOUS
  <2>4. scopeHead[s] .. last \subseteq Nat
    BY <2>2, <2>3
  <2>5. \A i \in batch : order[i] \in Nat /\ jobs[i].state = "absent"
    BY <1>2, <2>4 DEF SubmitBatch, Submitted
  <2> QED
    BY <2>1, <2>5 DEF Admitted
<1>3. ASSUME NEW i \in Jobs, NEW w \in Workers, NEW m \in Moments, Claim(i, w, m)
      PROVE  jobs'[j] = jobs[j] \/ Started(jobs[j], jobs'[j])
  BY <1>3, <1>m DEF Claim, Started
<1>4. ASSUME NEW t \in tickets, NEW m \in Moments, Heartbeat(t, m)
      PROVE  jobs'[j] = jobs[j] \/ Extends(jobs[j], jobs'[j])
  BY <1>4, <1>t, <1>m DEF Heartbeat, Owns, Extends
<1>5. ASSUME NEW t \in tickets, NEW m \in Moments, NEW st \in {"succeeded", "failed"},
             Finish(t, m, st)
      PROVE  jobs'[j] = jobs[j] \/ Reported(jobs[j], jobs'[j])
  BY <1>5, <1>t DEF Finish, RunningAttempt, Owns, Reported
<1>6. ASSUME NEW t \in tickets, NEW m \in Moments, FailExpired(t, m)
      PROVE  jobs'[j] = jobs[j] \/ Dropped(jobs[j], jobs'[j])
  BY <1>6, <1>t DEF FailExpired, Owns, Dropped
<1>7. ASSUME NEW i \in Jobs, Cancel(i)
      PROVE  jobs'[j] = jobs[j] \/ Dropped(jobs[j], jobs'[j])
  <2>1. CASE Active(i)
    BY <1>7, <2>1 DEF Cancel, Active, Dropped
  <2>2. CASE ~Active(i)
    BY <1>7, <2>2 DEF Cancel
  <2> QED
    BY <2>1, <2>2
<1>8. ASSUME NEW i \in Jobs, ResumeFailed(i)
      PROVE  jobs'[j] = jobs[j] \/ Resumed(jobs[j], jobs'[j])
  BY <1>8 DEF ResumeFailed, Resumed
<1> QED
  BY <1>1, <1>2, <1>3, <1>4, <1>5, <1>6, <1>7, <1>8
  DEF Next, JobStep, StageStep, LedgerStep, ScopeStep, SeePending, CreateStage,
      FailAbandonedStages, ClaimStage, StageHeartbeat, FinishStage, FailExpiredStage,
      RetryStage, RecordCall, RecordCommitted, ReconcileCalls, ProveClaim, CommitClaim,
      ReleaseClaim, ToggleScope, Tick, vars

(* A row that succeeded or was cancelled never changes, and a failed one   *)
(* changes only by an audited resume, for any number of workers that come  *)
(* back late.                                                              *)
THEOREM EndsAreFinal == Spec => TerminalIsFinal
<1> DEFINE Final(j) ==
       /\ jobs[j].state \in {"succeeded", "cancelled"} => jobs'[j] = jobs[j]
       /\ jobs[j].state = "failed" /\ jobs'[j] # jobs[j] => jobs'[j].state = "pending"
<1>1. TypeOK /\ [Next]_vars => \A j \in Jobs : Final(j)
  <2> SUFFICES ASSUME TypeOK, [Next]_vars, NEW j \in Jobs
               PROVE  Final(j)
    OBVIOUS
  <2>1. jobs[j] \in JobRow
    BY DEF TypeOK
  <2>2. Resumed(jobs[j], jobs'[j]) => jobs'[j].state = "pending"
    BY <2>1 DEF Resumed, Requeued, Ended, JobRow
  <2>3. \/ jobs'[j] = jobs[j]
        \/ jobs[j].state \in {"absent", "pending", "running"}
        \/ jobs[j].state = "failed" /\ Resumed(jobs[j], jobs'[j])
    BY RowsChange DEF Admitted, Started, Extends, Reported, Dropped, Resumed
  <2> QED
    BY <2>2, <2>3
<1>2. TypeOK /\ [Next]_vars => [\A j \in Jobs : Final(j)]_vars
  BY <1>1
<1> QED
  BY <1>2, TypeCorrect, PTL DEF Spec, TerminalIsFinal

-----------------------------------------------------------------------------
(* Outcomes *)

(* Only an attempt that ended has left an outcome, and it was the last one.*)
Decided(row) ==
    /\ row.state \notin {"succeeded", "failed"} => row.outcome = NoResult
    /\ row.state = "succeeded" \/ row.outcome # NoResult => row.outcome + 1 = row.version

AllDecided == \A j \in Jobs : Decided(jobs[j])

(* Every change of a row keeps its outcome in step with its attempts. *)
LEMMA DecidedKept ==
    ASSUME NEW old \in JobRow, NEW new, Decided(old),
           \/ Admitted(old, new) \/ Started(old, new) \/ Extends(old, new)
           \/ Reported(old, new) \/ Dropped(old, new) \/ Resumed(old, new)
    PROVE  Decided(new)
<1> USE DEF Decided, JobRow, NoResult
<1>1. CASE Admitted(old, new)
  BY <1>1 DEF Admitted
<1>2. CASE Started(old, new)
  BY <1>2 DEF Started, Begun
<1>3. CASE Extends(old, new)
  BY <1>3 DEF Extends
<1>4. CASE Reported(old, new)
  BY <1>4 DEF Reported, Ended
<1>5. CASE Dropped(old, new)
  BY <1>5 DEF Dropped, Ended
<1>6. CASE Resumed(old, new)
  BY <1>6 DEF Resumed, Requeued, Ended
<1> QED
  BY <1>1, <1>2, <1>3, <1>4, <1>5, <1>6

(* The outcome of a job is that of its last attempt: no report of an       *)
(* attempt that expired, was cancelled or was replaced is ever taken.      *)
THEOREM LastAttemptDecides == Spec => []OutcomeOfLastAttempt
<1>1. Init => AllDecided
  BY DEF Init, AllDecided, Decided
<1>2. TypeOK /\ AllDecided /\ [Next]_vars => AllDecided'
  <2> SUFFICES ASSUME TypeOK, AllDecided, [Next]_vars, NEW j \in Jobs
               PROVE  Decided(jobs'[j])
    BY DEF AllDecided
  <2>1. jobs[j] \in JobRow /\ Decided(jobs[j])
    BY DEF TypeOK, AllDecided
  <2> QED
    BY <2>1, RowsChange, DecidedKept
<1>3. AllDecided => OutcomeOfLastAttempt
  BY DEF AllDecided, Decided, OutcomeOfLastAttempt
<1> QED
  BY <1>1, <1>2, <1>3, TypeCorrect, PTL DEF Spec
-----------------------------------------------------------------------------
(* Scope claims *)

(* A proof that is still good is true: its job is active, of that scope,   *)
(* and the gate is open.                                                   *)
Proven(p) ==
    /\ JobScope[p.job] = p.scope /\ p.state \in {"pending", "running"}
    /\ GateReady(p.scope, p.job)

ProofsTrue == \A p \in proofs : Proven(p)

(* The fence: whatever the gate looks at changes only in transactions that *)
(* void every proof.                                                       *)
LEMMA CommitsVoidProofs ==
    ASSUME [Next]_vars
    PROVE  proofs' = {} \/ UNCHANGED <<jobs, stages, calls, reconciled, committed, closed>>
<1>1. ASSUME NEW j \in Jobs, Cancel(j)
      PROVE  proofs' = {} \/ UNCHANGED <<jobs, stages, calls, reconciled, committed, closed>>
  BY <1>1 DEF Cancel, DataVersionChanged
<1> QED
  BY <1>1
  DEF Next, JobStep, StageStep, LedgerStep, ScopeStep, SubmitBatch, Claim, Heartbeat, Finish,
      FailExpired, SeePending, ResumeFailed, CreateStage, FailAbandonedStages, ClaimStage,
      StageHeartbeat, FinishStage, FailExpiredStage, RetryStage, RecordCall, RecordCommitted,
      ReconcileCalls, ProveClaim, CommitClaim, ReleaseClaim, ToggleScope, Tick,
      DataVersionChanged, vars

(* A proof enters the table only while it is true. *)
LEMMA ProofsGrow ==
    ASSUME [Next]_vars, NEW p \in proofs', p \notin proofs
    PROVE  \E s \in Scopes, k \in Kinds, j \in Jobs :
              ProveClaim(s, k, j) /\ p = [scope |-> s, kind |-> k, job |-> j,
                                          version |-> jobs[j].version, state |-> jobs[j].state]
<1>1. ASSUME NEW j \in Jobs, Cancel(j)
      PROVE  FALSE
  BY <1>1 DEF Cancel, DataVersionChanged
<1>2. ASSUME NEW s \in Scopes, NEW k \in Kinds, NEW j \in Jobs, ProveClaim(s, k, j)
      PROVE  p = [scope |-> s, kind |-> k, job |-> j,
                  version |-> jobs[j].version, state |-> jobs[j].state]
  BY <1>2 DEF ProveClaim
<1> QED
  BY <1>1, <1>2
  DEF Next, JobStep, StageStep, LedgerStep, ScopeStep, SubmitBatch, Claim, Heartbeat, Finish,
      FailExpired, SeePending, ResumeFailed, CreateStage, FailAbandonedStages, ClaimStage,
      StageHeartbeat, FinishStage, FailExpiredStage, RetryStage, RecordCall, RecordCommitted,
      ReconcileCalls, CommitClaim, ReleaseClaim, ToggleScope, Tick, DataVersionChanged, vars

(* No proof becomes false while it is good. *)
LEMMA ProofsStayTrue == ProofsTrue /\ [Next]_vars => ProofsTrue'
<1> SUFFICES ASSUME ProofsTrue, [Next]_vars, NEW p \in proofs'
             PROVE  Proven(p)'
  BY DEF ProofsTrue
<1>1. UNCHANGED <<jobs, stages, calls, reconciled, committed, closed>>
  BY CommitsVoidProofs
<1>2. Proven(p) => Proven(p)'
  BY <1>1 DEF Proven, GateReady, IngestBars, OwesOutcome, Unresolved, Active, Submitted
<1>3. CASE p \in proofs
  BY <1>2, <1>3 DEF ProofsTrue
<1>4. CASE p \notin proofs
  <2>1. PICK s \in Scopes, k \in Kinds, j \in Jobs :
           ProveClaim(s, k, j) /\ p = [scope |-> s, kind |-> k, job |-> j,
                                       version |-> jobs[j].version, state |-> jobs[j].state]
    BY <1>4, ProofsGrow
  <2>2. p.scope = s /\ p.job = j /\ p.state = jobs[j].state
    BY <2>1
  <2> QED
    BY <1>2, <2>1, <2>2 DEF Proven, ProveClaim, Active
<1> QED
  BY <1>3, <1>4

(* A claim changes in three ways: it is committed from a proof, given up,  *)
(* or freed together with the end of a job.  Otherwise claims stay, and no *)
(* active job ends.                                                        *)
LEMMA ClaimsChange ==
    ASSUME TypeOK, [Next]_vars
    PROVE  \/ \E p \in proofs : CommitClaim(p)
           \/ \E s \in Scopes, k \in Kinds : /\ UNCHANGED jobs
                                             /\ scopeClaims' = [scopeClaims EXCEPT ![s][k] = NoClaim]
           \/ \E i \in Jobs : /\ scopeClaims' = ReleasedBy(i)
                              /\ \A j \in Jobs : j # i => jobs'[j] = jobs[j]
           \/ /\ UNCHANGED scopeClaims
              /\ \A j \in Jobs : Active(j) => Active(j)'
<1> USE DEF TypeOK
<1>t. \A t \in tickets : t.job \in Jobs
  BY DEF Tickets
<1>0. UNCHANGED jobs => \A j \in Jobs : Active(j) => Active(j)'
  BY DEF Active
<1>1. ASSUME NEW s \in Scopes, NEW batch \in SUBSET Jobs, SubmitBatch(s, batch)
      PROVE  UNCHANGED scopeClaims /\ \A j \in Jobs : Active(j) => Active(j)'
  <2>1. PICK order :
           jobs' = [i \in Jobs |->
                      IF i \in batch
                      THEN [jobs[i] EXCEPT !.state = "pending", !.seq = order[i]]
                      ELSE jobs[i]]
    BY <1>1 DEF SubmitBatch
  <2>2. \A j \in batch : ~Active(j)
    BY <1>1 DEF SubmitBatch, Submitted, Active
  <2>3. \A j \in Jobs : Active(j) => jobs'[j] = jobs[j]
    BY <2>1, <2>2, Zenon
  <2> QED
    BY <1>1, <2>3 DEF SubmitBatch, Active
<1>2. ASSUME NEW i \in Jobs, NEW w \in Workers, NEW m \in Moments, Claim(i, w, m)
      PROVE  UNCHANGED scopeClaims /\ \A j \in Jobs : Active(j) => Active(j)'
  <2>1. Begun(jobs[i], w, m).state = "running"
    BY DEF Begun, JobRow
  <2> QED
    BY <1>2, <2>1 DEF Claim, Active
<1>3. ASSUME NEW t \in tickets, NEW m \in Moments, Heartbeat(t, m)
      PROVE  UNCHANGED scopeClaims /\ \A j \in Jobs : Active(j) => Active(j)'
  <2>1. [jobs[t.job] EXCEPT !.lease = m + Lease].state = jobs[t.job].state
    BY <1>t DEF JobRow
  <2> QED
    BY <1>3, <1>t, <2>1 DEF Heartbeat, Active
<1>4. ASSUME NEW t \in tickets, NEW m \in Moments, NEW st \in {"succeeded", "failed"},
             Finish(t, m, st)
      PROVE  \E i \in Jobs : /\ scopeClaims' = ReleasedBy(i)
                             /\ \A j \in Jobs : j # i => jobs'[j] = jobs[j]
  BY <1>4, <1>t DEF Finish
<1>5. ASSUME NEW t \in tickets, NEW m \in Moments, FailExpired(t, m)
      PROVE  \E i \in Jobs : /\ scopeClaims' = ReleasedBy(i)
                             /\ \A j \in Jobs : j # i => jobs'[j] = jobs[j]
  BY <1>5, <1>t DEF FailExpired
<1>6. ASSUME NEW i \in Jobs, Cancel(i)
      PROVE  \/ /\ scopeClaims' = ReleasedBy(i)
                /\ \A j \in Jobs : j # i => jobs'[j] = jobs[j]
             \/ UNCHANGED <<scopeClaims, jobs>>
  BY <1>6 DEF Cancel
<1>7. ASSUME NEW i \in Jobs, ResumeFailed(i)
      PROVE  /\ scopeClaims' = ReleasedBy(i)
             /\ \A j \in Jobs : j # i => jobs'[j] = jobs[j]
  BY <1>7 DEF ResumeFailed
<1>8. ASSUME NEW s \in Scopes, NEW k \in Kinds, NEW t \in tickets, NEW v \in 0..MaxVersion,
             ReleaseClaim(s, k, t, v)
      PROVE  /\ UNCHANGED jobs
             /\ scopeClaims' = [scopeClaims EXCEPT ![s][k] = NoClaim]
  BY <1>8 DEF ReleaseClaim
<1>9. JobStep => \/ \E i \in Jobs : /\ scopeClaims' = ReleasedBy(i)
                                    /\ \A j \in Jobs : j # i => jobs'[j] = jobs[j]
                 \/ UNCHANGED <<scopeClaims, jobs>>
                 \/ UNCHANGED scopeClaims /\ \A j \in Jobs : Active(j) => Active(j)'
  BY <1>1, <1>2, <1>3, <1>4, <1>5, <1>6, <1>7, Zenon DEF JobStep, SeePending
<1>10. StageStep \/ LedgerStep \/ Tick \/ UNCHANGED vars => UNCHANGED <<scopeClaims, jobs>>
  BY DEF StageStep, LedgerStep, CreateStage, FailAbandonedStages, ClaimStage, StageHeartbeat,
         FinishStage, FailExpiredStage, RetryStage, RecordCall, RecordCommitted,
         ReconcileCalls, Tick, vars
<1>11. ScopeStep => \/ \E p \in proofs : CommitClaim(p)
                    \/ \E s \in Scopes, k \in Kinds :
                          /\ UNCHANGED jobs
                          /\ scopeClaims' = [scopeClaims EXCEPT ![s][k] = NoClaim]
                    \/ UNCHANGED <<scopeClaims, jobs>>
  BY <1>8, Zenon DEF ScopeStep, ProveClaim, ToggleScope
<1> QED
  BY <1>0, <1>9, <1>10, <1>11, Zenon DEF Next

(* Who holds a scope claim can still run: every way in which a job ends    *)
(* frees its claims in the same transaction.                               *)
THEOREM ClaimantsActive == Spec => []ClaimHeldByActiveJob
<1>1. Init => ClaimHeldByActiveJob /\ ProofsTrue
  BY DEF Init, ClaimHeldByActiveJob, NoClaim, ProofsTrue
<1>2. TypeOK /\ ClaimHeldByActiveJob /\ ProofsTrue /\ [Next]_vars => ClaimHeldByActiveJob'
  <2> SUFFICES ASSUME TypeOK, ClaimHeldByActiveJob, ProofsTrue, [Next]_vars,
                      NEW s \in Scopes, NEW k \in Kinds, scopeClaims'[s][k].job # NoJob
               PROVE  /\ JobScope[scopeClaims'[s][k].job] = s
                      /\ jobs'[scopeClaims'[s][k].job].state \in {"pending", "running"}
    BY Zenon DEF ClaimHeldByActiveJob, Active
  <2> DEFINE j == scopeClaims[s][k].job
  <2>t. scopeClaims \in [Scopes -> [Kinds -> Claims]] /\ j \in Jobs \cup {NoJob}
    BY DEF TypeOK, Claims
  <2>h. j # NoJob => j \in Jobs /\ JobScope[j] = s /\ Active(j)
    BY <2>t DEF ClaimHeldByActiveJob
  <2>1. ASSUME NEW p \in proofs, CommitClaim(p)
        PROVE  /\ JobScope[scopeClaims'[s][k].job] = s
               /\ jobs'[scopeClaims'[s][k].job].state \in {"pending", "running"}
    <3>1. scopeClaims' = [scopeClaims EXCEPT ![p.scope][p.kind] = [job |-> p.job, version |-> p.version]]
      BY <2>1 DEF CommitClaim
    <3>2. UNCHANGED jobs /\ jobs[p.job].state = p.state
      BY <2>1 DEF CommitClaim
    <3>3. JobScope[p.job] = p.scope /\ p.state \in {"pending", "running"}
      BY DEF ProofsTrue, Proven
    <3>4. p.scope \in Scopes /\ p.kind \in Kinds
      BY DEF TypeOK, Proofs
    <3>5. CASE s = p.scope /\ k = p.kind
      BY <2>t, <3>1, <3>2, <3>3, <3>4, <3>5 DEF Active
    <3>6. CASE ~ (s = p.scope /\ k = p.kind)
      <4>1. scopeClaims'[s][k] = scopeClaims[s][k]
        BY <2>t, <3>1, <3>4, <3>6
      <4> QED
        BY <2>h, <3>2, <4>1 DEF Active
    <3> QED
      BY <3>5, <3>6
  <2>2. ASSUME NEW z \in Scopes, NEW c \in Kinds, UNCHANGED jobs,
               scopeClaims' = [scopeClaims EXCEPT ![z][c] = NoClaim]
        PROVE  /\ JobScope[scopeClaims'[s][k].job] = s
               /\ jobs'[scopeClaims'[s][k].job].state \in {"pending", "running"}
    <3>1. scopeClaims'[s][k] \in {NoClaim, scopeClaims[s][k]}
      BY <2>2, <2>t
    <3>2. scopeClaims'[s][k] = scopeClaims[s][k]
      BY <3>1 DEF NoClaim
    <3> QED
      BY <2>2, <2>h, <3>2 DEF Active
  <2>3. ASSUME NEW i \in Jobs, scopeClaims' = ReleasedBy(i),
               \A n \in Jobs : n # i => jobs'[n] = jobs[n]
        PROVE  /\ JobScope[scopeClaims'[s][k].job] = s
               /\ jobs'[scopeClaims'[s][k].job].state \in {"pending", "running"}
    <3>1. scopeClaims'[s][k] \in {NoClaim, scopeClaims[s][k]}
      BY <2>3, <2>t DEF ReleasedBy
    <3>2. scopeClaims'[s][k] = scopeClaims[s][k]
      BY <3>1 DEF NoClaim
    <3>3. j # i
      BY <2>3, <2>t, <2>h, <3>2 DEF ReleasedBy, NoClaim
    <3> QED
      BY <2>3, <2>h, <3>2, <3>3 DEF Active
  <2>4. ASSUME UNCHANGED scopeClaims, \A n \in Jobs : Active(n) => Active(n)'
        PROVE  /\ JobScope[scopeClaims'[s][k].job] = s
               /\ jobs'[scopeClaims'[s][k].job].state \in {"pending", "running"}
    BY <2>4, <2>h DEF Active
  <2> QED
    BY <2>1, <2>2, <2>3, <2>4, ClaimsChange
<1>3. ProofsTrue /\ [Next]_vars => ProofsTrue'
  BY ProofsStayTrue
<1> QED
  BY <1>1, <1>2, <1>3, TypeCorrect, PTL DEF Spec

(* A scope claim is granted only while the gate is open, although the gate *)
(* was looked at in an earlier transaction: the fence on other commits is  *)
(* enough.                                                                 *)
THEOREM GrantsAreGated == Spec => ClaimGranted
<1> DEFINE Gated(s, k) ==
       scopeClaims'[s][k].job # NoJob /\ scopeClaims'[s][k].job # scopeClaims[s][k].job
         => GateReady(s, scopeClaims'[s][k].job)
<1>1. TypeOK /\ ProofsTrue /\ [Next]_vars => \A s \in Scopes, k \in Kinds : Gated(s, k)
  <2> SUFFICES ASSUME TypeOK, ProofsTrue, [Next]_vars, NEW s \in Scopes, NEW k \in Kinds
               PROVE  Gated(s, k)
    OBVIOUS
  <2>t. scopeClaims \in [Scopes -> [Kinds -> Claims]]
    BY DEF TypeOK
  <2>1. ASSUME NEW p \in proofs, CommitClaim(p)
        PROVE  Gated(s, k)
    <3>1. scopeClaims' = [scopeClaims EXCEPT ![p.scope][p.kind] = [job |-> p.job, version |-> p.version]]
      BY <2>1 DEF CommitClaim
    <3>2. GateReady(p.scope, p.job) /\ p.scope \in Scopes /\ p.kind \in Kinds
      BY DEF ProofsTrue, Proven, TypeOK, Proofs
    <3>3. \/ s = p.scope /\ scopeClaims'[s][k].job = p.job
          \/ scopeClaims'[s][k] = scopeClaims[s][k]
      BY <2>t, <3>1, <3>2
    <3> QED
      BY <3>2, <3>3
  <2>2. ASSUME NEW z \in Scopes, NEW c \in Kinds,
               scopeClaims' = [scopeClaims EXCEPT ![z][c] = NoClaim]
        PROVE  Gated(s, k)
    <3>1. scopeClaims'[s][k] \in {NoClaim, scopeClaims[s][k]}
      BY <2>2, <2>t
    <3> QED
      BY <3>1 DEF NoClaim
  <2>3. ASSUME NEW i \in Jobs, scopeClaims' = ReleasedBy(i)
        PROVE  Gated(s, k)
    <3>1. scopeClaims'[s][k] \in {NoClaim, scopeClaims[s][k]}
      BY <2>3, <2>t DEF ReleasedBy
    <3> QED
      BY <3>1 DEF NoClaim
  <2>4. ASSUME UNCHANGED scopeClaims
        PROVE  Gated(s, k)
    BY <2>4
  <2> QED
    BY <2>1, <2>2, <2>3, <2>4, ClaimsChange
<1>2. Init => ProofsTrue
  BY DEF Init, ProofsTrue
<1>3. TypeOK /\ ProofsTrue /\ [Next]_vars => [\A s \in Scopes, k \in Kinds : Gated(s, k)]_vars
  BY <1>1
<1> QED
  BY <1>2, <1>3, ProofsStayTrue, TypeCorrect, PTL DEF Spec, ClaimGranted

-----------------------------------------------------------------------------
(* The order of starts *)

(* Numbers of a scope are given out below its head, and a row that does    *)
(* not exist has begun nothing.                                            *)
NumberedBelowHead ==
    \A j \in Jobs :
        /\ Submitted(j) => jobs[j].seq < scopeHead[JobScope[j]]
        /\ ~Submitted(j) => jobs[j].version = 0

(* Heads only grow, and a row that comes into being gets a number between  *)
(* the old head of its scope and the new one.                              *)
LEMMA NumbersAreNew ==
    ASSUME TypeOK, [Next]_vars
    PROVE  /\ \A s \in Scopes : scopeHead'[s] >= scopeHead[s]
           /\ \A j \in Jobs : ~Submitted(j) /\ jobs'[j] # jobs[j] =>
                 /\ jobs'[j].seq >= scopeHead[JobScope[j]]
                 /\ jobs'[j].seq < scopeHead'[JobScope[j]]
<1> USE JobStoreAssumption DEF TypeOK
<1>t. \A t \in tickets : t.job \in Jobs
  BY DEF Tickets
<1>1. ASSUME NEW s \in Scopes, NEW batch \in SUBSET Jobs, SubmitBatch(s, batch)
      PROVE  /\ \A r \in Scopes : scopeHead'[r] >= scopeHead[r]
             /\ \A j \in Jobs : jobs'[j] # jobs[j] =>
                   /\ jobs'[j].seq >= scopeHead[JobScope[j]]
                   /\ jobs'[j].seq < scopeHead'[JobScope[j]]
  <2> DEFINE head == scopeHead[s]
             next == head + Cardinality(batch)
             last == scopeHead[s] + Cardinality(batch) - 1
  <2>1. head \in Nat /\ Cardinality(batch) \in Nat
    BY <1>1, FS_CardinalityType DEF SubmitBatch
  <2>2. next \in Nat /\ next >= head
    BY <2>1
  <2>3. scopeHead' = [scopeHead EXCEPT ![s] = next]
    BY <1>1, Zenon DEF SubmitBatch
  <2>4. PICK order \in [batch -> scopeHead[s] .. last] :
           jobs' = [j \in Jobs |->
                      IF j \in batch
                      THEN [jobs[j] EXCEPT !.state = "pending", !.seq = order[j]]
                      ELSE jobs[j]]
    BY <1>1, Zenon DEF SubmitBatch
  <2>5. \A j \in batch : JobScope[j] = s
    BY <1>1 DEF SubmitBatch
  <2>6. \A j \in batch : order[j] \in Nat /\ order[j] >= head /\ order[j] < next
    <3>1. \A j \in batch : order[j] \in scopeHead[s] .. last
      BY <2>4
    <3> QED
      BY <2>1, <3>1
  <2> HIDE DEF next, head
  <2>7. ASSUME NEW j \in batch
        PROVE  jobs'[j].seq = order[j]
    <3>1. jobs'[j] = [jobs[j] EXCEPT !.state = "pending", !.seq = order[j]]
      BY <2>4
    <3>2. PICK n \in Nat : n = order[j]
      BY <2>6
    <3> QED
      BY <3>1, <3>2 DEF JobRow
  <2>8. \A j \in Jobs : jobs'[j] # jobs[j] => j \in batch
    BY <2>4
  <2>9. scopeHead'[s] = next
    BY <2>3
  <2>10. \A r \in Scopes : scopeHead'[r] >= scopeHead[r]
    BY <2>2, <2>3 DEF head
  <2>11. \A j \in Jobs : jobs'[j] # jobs[j] =>
            /\ jobs'[j].seq >= scopeHead[JobScope[j]]
            /\ jobs'[j].seq < scopeHead'[JobScope[j]]
    BY <2>5, <2>6, <2>7, <2>8, <2>9 DEF head
  <2> QED
    BY <2>10, <2>11
<1> DEFINE Settled == UNCHANGED scopeHead /\ \A j \in Jobs : Submitted(j) \/ jobs'[j] = jobs[j]
<1>2. CASE Settled
  BY <1>2
<1>3. ASSUME NEW j \in Jobs, NEW w \in Workers, NEW m \in Moments, Claim(j, w, m)
      PROVE  Settled
  BY <1>3 DEF Claim, Submitted
<1>4. ASSUME NEW t \in tickets, NEW m \in Moments, Heartbeat(t, m)
      PROVE  Settled
  BY <1>4, <1>t DEF Heartbeat, Owns, Submitted
<1>5. ASSUME NEW t \in tickets, NEW m \in Moments, NEW st \in {"succeeded", "failed"},
             Finish(t, m, st)
      PROVE  Settled
  BY <1>5, <1>t DEF Finish, RunningAttempt, Owns, Submitted
<1>6. ASSUME NEW t \in tickets, NEW m \in Moments, FailExpired(t, m)
      PROVE  Settled
  BY <1>6, <1>t DEF FailExpired, Owns, Submitted
<1>7. ASSUME NEW j \in Jobs, Cancel(j)
      PROVE  Settled
  BY <1>7 DEF Cancel, Active, Submitted
<1>8. ASSUME NEW j \in Jobs, ResumeFailed(j)
      PROVE  Settled
  BY <1>8 DEF ResumeFailed, Submitted
<1>9. UNCHANGED <<scopeHead, jobs>> => Settled
  OBVIOUS
<1>10. \/ UNCHANGED <<scopeHead, jobs>>
       \/ \E s \in Scopes, batch \in SUBSET Jobs : SubmitBatch(s, batch)
       \/ \E j \in Jobs, w \in Workers, m \in Moments : Claim(j, w, m)
       \/ \E t \in tickets, m \in Moments : Heartbeat(t, m)
       \/ \E t \in tickets, m \in Moments, st \in {"succeeded", "failed"} : Finish(t, m, st)
       \/ \E t \in tickets, m \in Moments : FailExpired(t, m)
       \/ \E j \in Jobs : Cancel(j)
       \/ \E j \in Jobs : ResumeFailed(j)
  <2> USE DEF SeePending, CreateStage, FailAbandonedStages, ClaimStage, StageHeartbeat,
              FinishStage, FailExpiredStage, RetryStage, RecordCall, RecordCommitted,
              ReconcileCalls, ProveClaim, CommitClaim, ReleaseClaim, ToggleScope, Tick
  <2>1. CASE JobStep
    BY <2>1, Zenon DEF JobStep
  <2>2. CASE StageStep
    BY <2>2, Zenon DEF StageStep
  <2>3. CASE LedgerStep
    BY <2>3, Zenon DEF LedgerStep
  <2>4. CASE ScopeStep
    BY <2>4, Zenon DEF ScopeStep
  <2>5. CASE Tick \/ UNCHANGED vars
    BY <2>5, Zenon DEF vars
  <2> QED
    BY <2>1, <2>2, <2>3, <2>4, <2>5, Zenon DEF Next
<1> HIDE JobStoreAssumption DEF Settled, TypeOK
<1>11. Settled \/ \E s \in Scopes, batch \in SUBSET Jobs : SubmitBatch(s, batch)
  BY <1>3, <1>4, <1>5, <1>6, <1>7, <1>8, <1>9, <1>10, Zenon
<1> QED
  BY <1>1, <1>2, <1>11

(* What a change of an existing row does to what the order depends on: the *)
(* number stays, versions grow, and only an audited resume, which begins a *)
(* later version, makes a row wait again.                                  *)
LEMMA NumberStays ==
    ASSUME NEW old \in JobRow, NEW new,
           \/ Started(old, new) \/ Extends(old, new) \/ Reported(old, new)
           \/ Dropped(old, new) \/ Resumed(old, new)
    PROVE  /\ new.seq = old.seq /\ new.version >= old.version
           /\ new.state # "absent"
           /\ new.state = "pending" => new.version > 0
           /\ old.state = "pending" /\ old.version = 0 /\ ~Started(old, new)
              => new.state = "cancelled" /\ new.version = 1
<1> USE DEF JobRow
<1>v. PICK v \in Nat : v = old.version + 1
  OBVIOUS
<1>1. CASE Started(old, new)
  <2>1. PICK w \in Workers, m \in Nat : new = Begun(old, w, m)
    BY <1>1 DEF Started
  <2>2. PICK l : l = m + Lease
    OBVIOUS
  <2>3. new = [old EXCEPT !.state = "running", !.worker = w, !.lease = l, !.version = v]
    BY <1>v, <2>1, <2>2, Zenon DEF Begun
  <2>4. new.seq = old.seq /\ new.version = v /\ new.state = "running"
    BY <2>3
  <2> QED
    BY <1>1, <1>v, <2>4
<1>2. CASE Extends(old, new)
  BY <1>2 DEF Extends
<1>3. CASE Reported(old, new)
  BY <1>3 DEF Reported, Ended
<1>4. CASE Dropped(old, new)
  <2>1. PICK st \in {"failed", "cancelled"} :
           /\ new = Ended(old, st)
           /\ old.state = "running" \/ (old.state = "pending" /\ st = "cancelled")
    BY <1>4 DEF Dropped
  <2>2. new = [old EXCEPT !.state = st, !.lease = NoLease, !.version = v]
    BY <1>v, <2>1, Zenon DEF Ended
  <2>3. new.seq = old.seq /\ new.version = v /\ new.state = st
    BY <2>2
  <2> QED
    BY <1>v, <2>1, <2>3
<1>5. CASE Resumed(old, new)
  BY <1>5 DEF Resumed, Requeued, Ended
<1> QED
  BY <1>1, <1>2, <1>3, <1>4, <1>5

(* Every step keeps the numbering. *)
LEMMA NumberingKept == TypeOK /\ NumberedBelowHead /\ [Next]_vars => NumberedBelowHead'
<1> SUFFICES ASSUME TypeOK, NumberedBelowHead, [Next]_vars, NEW j \in Jobs
             PROVE  /\ jobs'[j].state # "absent" => jobs'[j].seq < scopeHead'[JobScope[j]]
                    /\ jobs'[j].state = "absent" => jobs'[j].version = 0
  BY DEF NumberedBelowHead, Submitted
<1>1. jobs[j] \in JobRow /\ JobScope[j] \in Scopes /\ jobs[j].seq \in Nat
      /\ scopeHead[JobScope[j]] \in Nat
  BY JobStoreAssumption DEF TypeOK, JobRow
<1>1a. TypeOK'
  <2>1. CASE Tick
    BY <2>1, JobStoreAssumption DEF Tick, TypeOK
  <2>2. CASE UNCHANGED vars
    BY <2>2 DEF vars, TypeOK
  <2> QED
    BY <2>1, <2>2, TypeJobStep, TypeStageStep, TypeLedgerStep, TypeScopeStep DEF Next
<1>1b. scopeHead'[JobScope[j]] \in Nat
  BY <1>1, <1>1a DEF TypeOK
<1>2. scopeHead'[JobScope[j]] >= scopeHead[JobScope[j]]
  BY <1>1, NumbersAreNew
<1>3. CASE jobs'[j] = jobs[j]
  BY <1>1, <1>1b, <1>2, <1>3 DEF NumberedBelowHead, Submitted
<1>4. CASE jobs'[j] # jobs[j] /\ ~Submitted(j)
  <2>1. jobs'[j].seq < scopeHead'[JobScope[j]]
    BY <1>4, NumbersAreNew
  <2>2. Admitted(jobs[j], jobs'[j])
    BY <1>4, RowsChange DEF Submitted, Started, Extends, Reported, Dropped, Resumed
  <2>3. jobs'[j].state = "pending"
    BY <1>1, <2>2 DEF Admitted, JobRow
  <2> QED
    BY <2>1, <2>3
<1>5. CASE jobs'[j] # jobs[j] /\ Submitted(j)
  <2>1. ~Admitted(jobs[j], jobs'[j])
    BY <1>5 DEF Admitted, Submitted
  <2>2. jobs'[j].seq = jobs[j].seq /\ jobs'[j].state # "absent"
    BY <1>1, <1>5, <2>1, RowsChange, NumberStays
  <2>3. jobs[j].seq < scopeHead[JobScope[j]]
    BY <1>5 DEF NumberedBelowHead
  <2> QED
    BY <1>1, <1>1b, <1>2, <2>2, <2>3
<1> QED
  BY <1>3, <1>4, <1>5

(* A claim is the only step that starts a job, and it overtakes no one.    *)
LEMMA StartsUnblocked ==
    ASSUME TypeOK, [Next]_vars, NEW j \in Jobs, Started(jobs[j], jobs'[j])
    PROVE  ~Blocked(j) /\ \A i \in Jobs : i # j => jobs'[i] = jobs[i]
<1>1. jobs[j] \in JobRow /\ jobs[j].state = "pending"
  BY DEF TypeOK, Started
<1>2. jobs'[j].state = "running"
  BY <1>1 DEF Started, Begun, JobRow
<1> QED
  BY <1>1, <1>2, RunningByClaim

(* Conflicting jobs of a scope start in the order of their admission, for  *)
(* any number of jobs admitted in batches of any size.                     *)
THEOREM StartsInOrder == Spec => []StartOrder
<1>1. Init => NumberedBelowHead /\ StartOrder
  BY DEF Init, NumberedBelowHead, StartOrder, Submitted
<1>2. TypeOK /\ NumberedBelowHead /\ StartOrder /\ [Next]_vars => StartOrder'
  <2> SUFFICES ASSUME TypeOK, NumberedBelowHead, StartOrder, [Next]_vars,
                      NEW i \in Jobs, NEW j \in Jobs, Contend(i, j),
                      jobs'[i].seq < jobs'[j].seq,
                      jobs'[i].state = "pending", jobs'[i].version = 0
               PROVE  NeverStarted(j)'
    BY DEF StartOrder, Contend, JobLane
  <2>t. jobs[i] \in JobRow /\ jobs[j] \in JobRow
        /\ jobs[i].seq \in Nat /\ jobs[j].seq \in Nat
        /\ scopeHead[JobScope[i]] \in Nat /\ JobScope[j] = JobScope[i] /\ i # j
    BY JobStoreAssumption DEF TypeOK, JobRow, Contend
  <2>1. CASE jobs'[i] = jobs[i]
    <3>1. CASE jobs'[j] = jobs[j]
      BY <2>1, <3>1 DEF StartOrder, NeverStarted
    <3>2. CASE Admitted(jobs[j], jobs'[j])
      <4>1. jobs[j].version = 0
        BY <3>2 DEF Admitted, NumberedBelowHead, Submitted
      <4>2. jobs'[j].state = "pending" /\ jobs'[j].version = jobs[j].version
        BY <2>t, <3>2 DEF Admitted, JobRow
      <4> QED
        BY <4>1, <4>2 DEF NeverStarted
    <3>3. CASE jobs'[j] # jobs[j] /\ ~Admitted(jobs[j], jobs'[j])
      <4>1. jobs'[j].seq = jobs[j].seq
        BY <2>t, <3>3, RowsChange, NumberStays
      <4>2. NeverStarted(j)
        BY <2>1, <4>1 DEF StartOrder
      <4>3. jobs[j].state \in {"pending"} /\ jobs[j].version = 0
        BY <3>3, <4>2, RowsChange
        DEF NeverStarted, Started, Extends, Reported, Dropped, Resumed
      <4>4. ~Started(jobs[j], jobs'[j])
        BY <2>1, <2>t, <4>1, StartsUnblocked DEF Blocked
      <4> QED
        BY <2>t, <3>3, <4>3, <4>4, RowsChange, NumberStays DEF NeverStarted
    <3> QED
      BY <3>1, <3>2, <3>3
  <2>2. CASE jobs'[i] # jobs[i]
    <3>1. Admitted(jobs[i], jobs'[i])
      BY <2>2, <2>t, RowsChange, NumberStays
    <3>2. jobs'[i].seq >= scopeHead[JobScope[i]] /\ jobs'[i].seq \in Nat
      <4>1. ~Submitted(i)
        BY <3>1 DEF Admitted, Submitted
      <4>2. jobs'[i].seq \in Nat
        BY <2>t, <3>1 DEF Admitted, JobRow
      <4> QED
        BY <2>2, <4>1, <4>2, NumbersAreNew
    <3>3. ~Submitted(j)
      <4> SUFFICES ASSUME Submitted(j) PROVE FALSE
        OBVIOUS
      <4>1. jobs[j].seq < scopeHead[JobScope[i]]
        BY <2>t DEF NumberedBelowHead
      <4>2. jobs'[j].seq = jobs[j].seq
        <5>1. ~Admitted(jobs[j], jobs'[j])
          BY DEF Admitted, Submitted
        <5> QED
          BY <2>t, <5>1, RowsChange, NumberStays
      <4> QED
        BY <2>t, <3>2, <4>1, <4>2
    <3>4. jobs[j].version = 0
      BY <3>3 DEF NumberedBelowHead
    <3>5. jobs'[j] = jobs[j] \/ Admitted(jobs[j], jobs'[j])
      BY <3>3, RowsChange DEF Submitted, Started, Extends, Reported, Dropped, Resumed
    <3>6. jobs'[j].version = 0 /\ jobs'[j].state \in {"absent", "pending"}
      BY <2>t, <3>3, <3>4, <3>5 DEF Admitted, JobRow, Submitted
    <3> QED
      BY <3>6 DEF NeverStarted
  <2> QED
    BY <2>1, <2>2
<1> QED
  BY <1>1, <1>2, NumberingKept, TypeCorrect, PTL DEF Spec

-----------------------------------------------------------------------------
(* Stages *)

(* A stage is made running by claim_stage and by nothing else. *)
LEMMA StageRunsByClaim ==
    ASSUME TypeOK, [Next]_vars, NEW s \in Stages, stages'[s].state = "running"
    PROVE  \/ stages[s].state = "running"
           \/ \E w \in Workers, v \in 0..MaxVersion, m \in Moments : ClaimStage(s, w, v, m)
<1> USE DEF TypeOK
<1>h. \A h \in handles : h.stage \in Stages
  BY DEF Handles
<1>r. ASSUME NEW row \in StageRow, NEW st
      PROVE  Ended(row, st).state = st /\ Requeued(row, st).state = st
  BY DEF StageRow, Ended, Requeued
<1>f. \A S : FailStages(S)[s].state = "running" => stages[s].state = "running"
  BY <1>r DEF FailStages
<1>1. CASE UNCHANGED stages
  BY <1>1
<1>2. ASSUME NEW j \in Jobs, Cancel(j)
      PROVE  stages[s].state = "running"
  <2>1. CASE Active(j)
    BY <1>2, <1>r, <2>1 DEF Cancel, CancelledStages
  <2>2. CASE ~Active(j)
    BY <1>2, <2>2 DEF Cancel
  <2> QED
    BY <2>1, <2>2
<1>3. ASSUME NEW r \in Stages, CreateStage(r)
      PROVE  stages[s].state = "running"
  BY <1>3 DEF CreateStage, StageRow
<1>4. ASSUME NEW m \in Moments, FailAbandonedStages(m)
      PROVE  stages[s].state = "running"
  BY <1>4, <1>f DEF FailAbandonedStages
<1>5. ASSUME NEW r \in Stages, NEW w \in Workers, NEW v \in 0..MaxVersion, NEW m \in Moments,
             ClaimStage(r, w, v, m)
      PROVE  \/ stages[s].state = "running"
             \/ \E x \in Workers, y \in 0..MaxVersion, n \in Moments : ClaimStage(s, x, y, n)
  <2> DEFINE swept == FailStages({a \in Abandoned(m) : StageScope[a] = StageScope[r]} \ {r})
  <2>1. stages' = [swept EXCEPT ![r] = Begun(swept[r], w, m)]
    BY <1>5 DEF ClaimStage
  <2>2. swept[s].state = "running" => stages[s].state = "running"
    BY <1>f
  <2> HIDE DEF swept
  <2>3. r # s => stages'[s] = swept[s]
    BY <2>1
  <2> QED
    BY <1>5, <2>2, <2>3
<1>6. ASSUME NEW h \in handles, NEW m \in Moments, StageHeartbeat(h, m)
      PROVE  stages[s].state = "running"
  BY <1>6, <1>h DEF StageHeartbeat, OwnsStage
<1>7. ASSUME NEW h \in handles, NEW m \in Moments, NEW st \in {"succeeded", "failed"},
             FinishStage(h, m, st)
      PROVE  stages[s].state = "running"
  BY <1>7, <1>h, <1>r DEF FinishStage
<1>8. ASSUME NEW h \in handles, NEW m \in Moments, FailExpiredStage(h, m)
      PROVE  stages[s].state = "running"
  BY <1>8, <1>f DEF FailExpiredStage
<1>9. ASSUME NEW r \in Stages, RetryStage(r)
      PROVE  stages[s].state = "running"
  BY <1>9, <1>r DEF RetryStage
<1> QED
  BY <1>1, <1>2, <1>3, <1>4, <1>5, <1>6, <1>7, <1>8, <1>9
  DEF Next, JobStep, StageStep, LedgerStep, ScopeStep, SubmitBatch, Claim, Heartbeat, Finish,
      FailExpired, SeePending, ResumeFailed, RecordCall, RecordCommitted, ReconcileCalls,
      ProveClaim, CommitClaim, ReleaseClaim, ToggleScope, Tick, vars

(* A job is cancelled together with its stages, and by nothing but cancel. *)
LEMMA CancelTakesStages ==
    ASSUME TypeOK, [Next]_vars, NEW j \in Jobs,
           jobs'[j].state = "cancelled", jobs[j].state # "cancelled"
    PROVE  stages' = CancelledStages(j)
<1> USE DEF TypeOK
<1>t. \A t \in tickets : t.job \in Jobs
  BY DEF Tickets
<1>r. ASSUME NEW row \in JobRow, NEW st
      PROVE  Ended(row, st).state = st /\ Requeued(row, st).state = st
             /\ [Ended(row, st) EXCEPT !.outcome = row.version].state = st
             /\ [Requeued(row, st) EXCEPT !.outcome = NoResult].state = st
  BY DEF JobRow, Ended, Requeued
<1>1. CASE UNCHANGED jobs
  BY <1>1
<1>2. ASSUME NEW i \in Jobs, Cancel(i)
      PROVE  stages' = CancelledStages(j)
  <2>1. CASE Active(i)
    BY <1>2, <2>1 DEF Cancel
  <2>2. CASE ~Active(i)
    BY <1>2, <2>2 DEF Cancel
  <2> QED
    BY <2>1, <2>2
<1>4. ASSUME NEW s \in Scopes, NEW batch \in SUBSET Jobs, SubmitBatch(s, batch)
      PROVE  FALSE
  <2>1. PICK order :
           jobs' = [i \in Jobs |->
                      IF i \in batch
                      THEN [jobs[i] EXCEPT !.state = "pending", !.seq = order[i]]
                      ELSE jobs[i]]
    BY <1>4 DEF SubmitBatch
  <2> QED
    BY <2>1 DEF JobRow
<1>5. ASSUME NEW i \in Jobs, NEW w \in Workers, NEW m \in Moments, Claim(i, w, m)
      PROVE  FALSE
  <2>1. Begun(jobs[i], w, m).state = "running"
    BY DEF Begun, JobRow
  <2> QED
    BY <1>5, <2>1 DEF Claim
<1>6. ASSUME NEW t \in tickets, NEW m \in Moments, Heartbeat(t, m)
      PROVE  FALSE
  BY <1>6, <1>t DEF Heartbeat
<1>7. ASSUME NEW t \in tickets, NEW m \in Moments, NEW st \in {"succeeded", "failed"},
             Finish(t, m, st)
      PROVE  FALSE
  <2>1. jobs[t.job].version = t.version
    BY <1>7 DEF Finish, RunningAttempt, Owns
  <2>2. [Ended(jobs[t.job], st) EXCEPT !.outcome = t.version].state = st
    BY <1>t, <1>r, <2>1
  <2> QED
    BY <1>7, <1>t, <2>2 DEF Finish
<1>8. ASSUME NEW t \in tickets, NEW m \in Moments, FailExpired(t, m)
      PROVE  FALSE
  BY <1>8, <1>t, <1>r DEF FailExpired
<1>9. ASSUME NEW i \in Jobs, ResumeFailed(i)
      PROVE  FALSE
  BY <1>9, <1>r DEF ResumeFailed
<1> QED
  BY <1>1, <1>2, <1>4, <1>5, <1>6, <1>7, <1>8, <1>9
  DEF Next, JobStep, StageStep, LedgerStep, ScopeStep, SeePending, CreateStage,
      FailAbandonedStages, ClaimStage, StageHeartbeat, FinishStage, FailExpiredStage,
      RetryStage, RecordCall, RecordCommitted, ReconcileCalls, ProveClaim, CommitClaim,
      ReleaseClaim, ToggleScope, Tick, vars

(* No stage runs under a cancelled job, whatever attempts of it are still  *)
(* under way: a stage needs a running attempt to begin, and the job takes  *)
(* its stages along when it is cancelled.                                  *)
THEOREM CancelledStagesStop == Spec => []CancelledRunsNothing
<1>1. Init => CancelledRunsNothing
  BY DEF Init, CancelledRunsNothing
<1>2. TypeOK /\ CancelledRunsNothing /\ [Next]_vars => CancelledRunsNothing'
  <2> SUFFICES ASSUME TypeOK, CancelledRunsNothing, [Next]_vars,
                      NEW s \in Stages, StageJob[s] # NoJob, stages'[s].state = "running",
                      jobs'[StageJob[s]].state = "cancelled"
               PROVE  FALSE
    BY DEF CancelledRunsNothing
  <2> DEFINE j == StageJob[s]
  <2>1. j \in Jobs
    BY JobStoreAssumption
  <2>2. CASE jobs[j].state = "cancelled"
    <3>1. jobs'[j] = jobs[j]
      BY <2>1, <2>2, RowsChange
      DEF Admitted, Started, Extends, Reported, Dropped, Resumed
    <3>2. stages[s].state # "running"
      BY <2>2 DEF CancelledRunsNothing
    <3>3. PICK w \in Workers, v \in 0..MaxVersion, m \in Moments : ClaimStage(s, w, v, m)
      BY <3>2, StageRunsByClaim
    <3>4. jobs[j].state = "running"
      BY <3>3 DEF ClaimStage, RunningAttempt, Owns
    <3> QED
      BY <2>2, <3>4
  <2>3. CASE jobs[j].state # "cancelled"
    <3>1. stages' = CancelledStages(j)
      BY <2>1, <2>3, CancelTakesStages
    <3>2. Ended(stages[s], "cancelled").state = "cancelled"
      BY DEF TypeOK, StageRow, Ended
    <3>3. stages'[s] = IF stages[s].state \in {"ready", "running"}
                       THEN Ended(stages[s], "cancelled") ELSE stages[s]
      BY <3>1 DEF CancelledStages
    <3> QED
      BY <3>2, <3>3
  <2> QED
    BY <2>2, <2>3
<1> QED
  BY <1>1, <1>2, TypeCorrect, PTL DEF Spec

(* Stages of different owners run together only where their lanes allow    *)
(* it, for any number of stages, jobs and recalls of a scope, also when    *)
(* claim_stage sweeps abandoned ones in the same transaction.              *)
THEOREM StagesExclusive == Spec => []StageExclusion
<1>1. Init => StageExclusion
  BY DEF Init, StageExclusion
<1>2. TypeOK /\ StageExclusion /\ [Next]_vars => StageExclusion'
  <2>1. ASSUME TypeOK, [Next]_vars, NEW r \in Stages, NEW s \in Stages, StagesContend(r, s),
               stages'[r].state = "running", stages'[s].state = "running"
        PROVE  stages[s].state = "running"
    <3> SUFFICES ASSUME stages[s].state # "running" PROVE FALSE
      OBVIOUS
    <3>1. PICK w \in Workers, v \in 0..MaxVersion, m \in Moments : ClaimStage(s, w, v, m)
      BY <2>1, StageRunsByClaim
    <3> DEFINE swept == FailStages({a \in Abandoned(m) : StageScope[a] = StageScope[s]} \ {s})
    <3>2. stages' = [swept EXCEPT ![s] = Begun(swept[s], w, m)]
      BY <3>1 DEF ClaimStage
    <3>3. swept[r].state # "running"
      BY <2>1, <3>1 DEF ClaimStage
    <3> HIDE DEF swept
    <3>4. stages'[r] = swept[r]
      BY <2>1, <3>2 DEF StagesContend
    <3> QED
      BY <2>1, <3>3, <3>4
  <2>2. SUFFICES ASSUME TypeOK, StageExclusion, [Next]_vars, NEW r \in Stages, NEW s \in Stages,
                        r # s, StageScope[r] = StageScope[s],
                        StageJob[r] # StageJob[s] \/ StageJob[s] = NoJob,
                        stages'[r].state = "running", stages'[s].state = "running",
                        LanesConflict(StageLane(r), StageLane(s))
                 PROVE  FALSE
    BY DEF StageExclusion, StageLane, JobLane
  <2>3. StagesContend(r, s) /\ StagesContend(s, r)
    BY <2>2 DEF StagesContend, LanesConflict
  <2>4. stages[s].state = "running" /\ stages[r].state = "running"
    BY <2>1, <2>2, <2>3
  <2> QED
    BY <2>2, <2>4 DEF StageExclusion
<1> QED
  BY <1>1, <1>2, TypeCorrect, PTL DEF Spec

=============================================================================
