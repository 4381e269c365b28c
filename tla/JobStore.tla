------------------------------ MODULE JobStore ------------------------------
(***************************************************************************)
(* The durable job store of the memory service (tmcra_service/jobs.py on   *)
(* the SQLite control database).  Every operation of the class JobStore is *)
(* one database transaction, hence one action here.  The callers are       *)
(* service workers, the HTTP API and the scheduler; each of them acts on a *)
(* row it has read in an EARLIER transaction.  What such a reader knows is *)
(* kept in the variables tickets (a claimed job attempt), handles (a       *)
(* claimed stage attempt), seenPending (a canceller that has read a        *)
(* pending row) and proofs (the scheduler's proof that a scope is ready).  *)
(*                                                                         *)
(* time.time() is evaluated before the transaction obtains SQLite's write  *)
(* lock, so the moment an operation uses may lie up to LockWait behind the *)
(* clock at which the operation commits.                                   *)
(***************************************************************************)
EXTENDS Integers, FiniteSets

CONSTANTS
    Jobs,        \* (tenant, idempotency key) pairs; each names one row
    Scopes,      \* (tenant, scope name) pairs
    Workers,     \* worker_id of the service workers and of API threads
    Stages,      \* stage ids
    Calls,       \* provider call ids
    JobScope,    \* [Jobs -> Scopes], the scope_name of the payload
    JobType,     \* [Jobs -> STRING], the job_type of the payload
    StageJob,    \* the job of a stage, NoJob for the stages of a recall
    StageScope,  \* [Stages -> Scopes], used when the stage has no job
    StageSeq,    \* [Stages -> Nat]
    CallJob,     \* [Calls -> Jobs]
    Kinds,       \* claim kinds, a subset of {"evolution", "index"}
    Closable,    \* scopes that may be quarantined or deleted
    NoJob, NoWorker,
    Lease,       \* lease_seconds
    LockWait,    \* longest wait for the write lock
    QueueLimit,  \* global_queue_limit
    MaxTime, MaxVersion   \* bounds of the model: clock and row versions

ASSUME JobStoreAssumption ==
    /\ JobScope \in [Jobs -> Scopes]
    /\ JobType \in [Jobs -> STRING]
    /\ NoJob \notin Jobs /\ NoWorker \notin Workers
    /\ StageJob \in [Stages -> Jobs \cup {NoJob}]
    /\ StageScope \in [Stages -> Scopes]
    /\ \A s \in Stages : StageJob[s] # NoJob => StageScope[s] = JobScope[StageJob[s]]
    /\ StageSeq \in [Stages -> Nat]
    /\ CallJob \in [Calls -> Jobs]
    /\ Kinds \subseteq {"evolution", "index"}
    /\ Closable \subseteq Scopes
    /\ Lease \in Nat \ {0} /\ LockWait \in Nat
    /\ QueueLimit \in Nat /\ MaxTime \in Nat /\ MaxVersion \in Nat

VARIABLES
    jobs,         \* the table jobs
    scopeHead,    \* scope_heads.next_seq
    stages,       \* the table operation_stages
    calls,        \* provider_calls.status
    reconciled,   \* provider_call_reconciliations
    committed,    \* jobs with a row in scope_ingest_watermark_commits
    scopeClaims,  \* scope_evolution_state.active_{evolution,index}_job_{id,version}
    closed,       \* scopes quarantined, deleting or deleted
    tickets,      \* job attempts handed out by claim
    handles,      \* stage attempts handed out by claim_stage
    seenPending,  \* jobs a canceller has read in state pending
    proofs,       \* proof snapshots of _claim_scope_job not yet committed
    now           \* the clock

vars == <<jobs, scopeHead, stages, calls, reconciled, committed, scopeClaims,
          closed, tickets, handles, seenPending, proofs, now>>

-----------------------------------------------------------------------------
(* Types *)

JobStates == {"absent", "pending", "running", "succeeded", "failed", "cancelled"}
JobTerminal == {"succeeded", "failed", "cancelled"}
StageStates == {"absent", "ready", "running", "succeeded", "failed", "cancelled"}
StageTerminal == {"succeeded", "failed", "cancelled"}
CallStates == {"absent", "started", "completed", "failed", "unknown"}
CallTerminal == {"completed", "failed", "unknown"}
NoLease == -1    \* lease_expires_at IS NULL
NoResult == -1   \* result_json and error IS NULL

(* outcome stands for result_json or error: the version of the attempt     *)
(* that produced it.                                                       *)
JobRow == [state: JobStates, seq: Nat, worker: Workers \cup {NoWorker},
           version: Nat, lease: Nat \cup {NoLease}, outcome: Nat \cup {NoResult}]
StageRow == [state: StageStates, worker: Workers \cup {NoWorker},
             version: Nat, lease: Nat \cup {NoLease}]
Claims == [job: Jobs \cup {NoJob}, version: Nat]
Tickets == [job: Jobs, worker: Workers, version: Nat]
Handles == [stage: Stages, worker: Workers, version: Nat]
Proofs == [scope: Scopes, kind: Kinds, job: Jobs, version: Nat, state: JobStates]

NoClaim == [job |-> NoJob, version |-> 0]

TypeOK ==
    /\ jobs \in [Jobs -> JobRow]
    /\ scopeHead \in [Scopes -> Nat \ {0}]
    /\ stages \in [Stages -> StageRow]
    /\ calls \in [Calls -> CallStates]
    /\ reconciled \subseteq Calls
    /\ committed \subseteq Jobs
    /\ scopeClaims \in [Scopes -> [Kinds -> Claims]]
    /\ closed \subseteq Scopes
    /\ tickets \subseteq Tickets
    /\ handles \subseteq Handles
    /\ seenPending \subseteq Jobs
    /\ proofs \subseteq Proofs
    /\ now \in Nat
    /\ \A j \in Jobs : jobs[j].state = "running" <=> jobs[j].lease # NoLease
    /\ \A s \in Stages : stages[s].state = "running" <=> stages[s].lease # NoLease

Init ==
    /\ jobs = [j \in Jobs |->
                 [state |-> "absent", seq |-> 0, worker |-> NoWorker,
                  version |-> 0, lease |-> NoLease, outcome |-> NoResult]]
    /\ scopeHead = [s \in Scopes |-> 1]
    /\ stages = [s \in Stages |->
                   [state |-> "absent", worker |-> NoWorker,
                    version |-> 0, lease |-> NoLease]]
    /\ calls = [c \in Calls |-> "absent"]
    /\ reconciled = {} /\ committed = {} /\ closed = {}
    /\ scopeClaims = [s \in Scopes |-> [k \in Kinds |-> NoClaim]]
    /\ tickets = {} /\ handles = {} /\ seenPending = {} /\ proofs = {}
    /\ now = 0

-----------------------------------------------------------------------------
(* Execution lanes *)

MutationTypes == {"ingest", "reindex", "consolidate", "delete_memories", "delete_session"}

ExecutionLane(type) ==
    IF type = "recall" THEN "read"
    ELSE IF type \in MutationTypes THEN "mutation" ELSE "exclusive"

LanesConflict(left, right) ==
    \/ "exclusive" \in {left, right}
    \/ left = right /\ left # "read"

JobLane(j) == ExecutionLane(JobType[j])

(* Every stage without a job is written by the recall API, whose payload   *)
(* is {"job_type": "recall"}.                                              *)
StageLane(s) == IF StageJob[s] = NoJob THEN "read" ELSE JobLane(StageJob[s])

(* Two jobs of one scope that must not run together. *)
Contend(i, j) == i # j /\ JobScope[i] = JobScope[j] /\ LanesConflict(JobLane(i), JobLane(j))

-----------------------------------------------------------------------------
(* State formulae *)

Moments == {m \in 0..now : now - m <= LockWait}

Submitted(j) == jobs[j].state # "absent"
Active(j) == jobs[j].state \in {"pending", "running"}
ActiveJobs == {j \in Jobs : Active(j)}

OwnsUnversioned(t) ==   \* faulty: any attempt of the worker will do
    jobs[t.job].state = "running" /\ jobs[t.job].worker = t.worker

(* The attempt t is the one the row says is running. *)
Owns(t) ==
    /\ jobs[t.job].state = "running"
    /\ jobs[t.job].worker = t.worker
    /\ jobs[t.job].version = t.version

(* assert_running_attempt: the fence in front of every side effect *)
RunningAttempt(t, m) == Owns(t) /\ jobs[t.job].lease > m

OwnsStage(h) ==
    /\ stages[h.stage].state = "running"
    /\ stages[h.stage].worker = h.worker
    /\ stages[h.stage].version = h.version

Unresolved(c) == calls[c] \in {"started", "unknown"}

BlockedByEarlier(j) ==   \* faulty: a later job that already runs is overlooked
    \E i \in Jobs :
        /\ Contend(i, j) /\ jobs[i].seq < jobs[j].seq
        /\ jobs[i].state \in {"running", "pending"}

BlockedByRunning(j) ==   \* faulty: an earlier job that waits is overtaken
    \E i \in Jobs : Contend(i, j) /\ jobs[i].state = "running"

(* A conflicting job runs, or an earlier conflicting job is waiting. *)
Blocked(j) ==
    \E i \in Jobs :
        /\ Contend(i, j)
        /\ \/ jobs[i].state = "running"
           \/ jobs[i].state = "pending" /\ jobs[i].seq < jobs[j].seq

-----------------------------------------------------------------------------
NoFence == UNCHANGED proofs   \* faulty: proofs outlive other commits

(* What the updates write into a row of jobs or operation_stages *)

Begun(row, w, m) ==
    [row EXCEPT !.state = "running", !.worker = w, !.lease = m + Lease, !.version = @ + 1]

Ended(row, state) ==
    [row EXCEPT !.state = state, !.lease = NoLease, !.version = @ + 1]

Requeued(row, state) == [Ended(row, state) EXCEPT !.worker = NoWorker]

(* Every transaction that writes invalidates the proof snapshots of other  *)
(* connections: PRAGMA data_version differs when they try to commit.       *)
DataVersionChanged == proofs' = {}

ReleasedIndexOnly(j) ==   \* faulty: the evolution claim is forgotten
    [scopeClaims EXCEPT ![JobScope[j]] =
        [k \in Kinds |-> IF k = "index" /\ @[k].job = j THEN NoClaim ELSE @[k]]]

(* _release_terminal_claims *)
ReleasedBy(j) ==
    [scopeClaims EXCEPT ![JobScope[j]] =
        [k \in Kinds |-> IF @[k].job = j THEN NoClaim ELSE @[k]]]

QueueHasRoom(n) == Cardinality(ActiveJobs) + n <= QueueLimit

(* submit_batch with a batch of size one is submit.  A batch is admitted   *)
(* whole or not at all; its keys are new rows of one scope, numbered in    *)
(* the order of the request.  A replayed key changes nothing.              *)
SubmitBatch(s, batch) ==
    /\ batch # {} /\ IsFiniteSet(batch)
    /\ \A j \in batch : ~Submitted(j) /\ JobScope[j] = s
    /\ QueueHasRoom(Cardinality(batch))
    /\ \E order \in [batch -> scopeHead[s] .. scopeHead[s] + Cardinality(batch) - 1] :
          /\ \A i, j \in batch : i # j => order[i] # order[j]
          /\ jobs' = [j \in Jobs |->
                        IF j \in batch
                        THEN [jobs[j] EXCEPT !.state = "pending", !.seq = order[j]]
                        ELSE jobs[j]]
    /\ scopeHead' = [scopeHead EXCEPT ![s] = @ + Cardinality(batch)]
    /\ DataVersionChanged
    /\ UNCHANGED <<stages, calls, reconciled, committed, scopeClaims, closed,
                   tickets, handles, seenPending, now>>

Claim(j, w, m) ==
    /\ jobs[j].state = "pending" /\ ~Blocked(j)
    /\ jobs[j].version < MaxVersion
    /\ jobs' = [jobs EXCEPT ![j] = Begun(@, w, m)]
    /\ tickets' = tickets \cup {[job |-> j, worker |-> w, version |-> jobs[j].version + 1]}
    /\ DataVersionChanged
    /\ UNCHANGED <<scopeHead, stages, calls, reconciled, committed, scopeClaims,
                   closed, handles, seenPending, now>>

Heartbeat(t, m) ==
    /\ Owns(t)
    /\ jobs' = [jobs EXCEPT ![t.job] = [@ EXCEPT !.lease = m + Lease]]
    /\ DataVersionChanged
    /\ UNCHANGED <<scopeHead, stages, calls, reconciled, committed, scopeClaims,
                   closed, tickets, handles, seenPending, now>>

(* transition(SUCCEEDED) and transition(FAILED) by the attempt itself *)
Finish(t, m, state) ==
    /\ RunningAttempt(t, m)
    /\ jobs' = [jobs EXCEPT ![t.job] = [Ended(@, state) EXCEPT !.outcome = t.version]]
    /\ scopeClaims' = ReleasedBy(t.job)
    /\ DataVersionChanged
    /\ UNCHANGED <<scopeHead, stages, calls, reconciled, committed, closed,
                   tickets, handles, seenPending, now>>

LeaseExpired(lease, m) == lease # NoLease /\ lease < m

(* expired_running was read earlier; the update repeats its condition. *)
FailExpired(t, m) ==
    /\ Owns(t)
    /\ LeaseExpired(jobs[t.job].lease, m)
    /\ jobs' = [jobs EXCEPT ![t.job] = Ended(@, "failed")]
    /\ scopeClaims' = ReleasedBy(t.job)
    /\ DataVersionChanged
    /\ UNCHANGED <<scopeHead, stages, calls, reconciled, committed, closed,
                   tickets, handles, seenPending, now>>

(* All callers of cancel (the HTTP route, the quarantine sweep and the     *)
(* scheduler that lost its scope claim) read the row as pending first, in  *)
(* a transaction of their own, and call cancel without a job version.      *)
SeePending(j) ==
    /\ jobs[j].state = "pending" /\ j \notin seenPending
    /\ seenPending' = seenPending \cup {j}
    /\ UNCHANGED <<jobs, scopeHead, stages, calls, reconciled, committed,
                   scopeClaims, closed, tickets, handles, proofs, now>>

CancelledReadyStages(j) ==   \* faulty: running stages are spared
    [s \in Stages |->
        IF StageJob[s] = j /\ stages[s].state = "ready"
        THEN Ended(stages[s], "cancelled")
        ELSE stages[s]]

CancelledStages(j) ==
    [s \in Stages |->
        IF StageJob[s] = j /\ stages[s].state \in {"ready", "running"}
        THEN Ended(stages[s], "cancelled")
        ELSE stages[s]]

Cancel(j) ==
    /\ j \in seenPending
    /\ seenPending' = seenPending \ {j}
    /\ IF Active(j)
       THEN /\ jobs' = [jobs EXCEPT ![j] = Ended(@, "cancelled")]
            /\ stages' = CancelledStages(j)
            /\ scopeClaims' = ReleasedBy(j)
            /\ DataVersionChanged
       ELSE UNCHANGED <<jobs, stages, scopeClaims, proofs>>
    /\ UNCHANGED <<scopeHead, calls, reconciled, committed, closed, tickets,
                   handles, now>>

(* Whether the audit evidence of an ingest suffices is the caller's        *)
(* affair; the store itself insists on settled provider calls.             *)
ResumeFailed(j) ==
    /\ jobs[j].state = "failed"
    /\ \A c \in Calls : CallJob[c] = j => ~Unresolved(c)
    /\ jobs[j].version < MaxVersion
    /\ jobs' = [jobs EXCEPT ![j] = [Requeued(@, "pending") EXCEPT !.outcome = NoResult]]
    /\ scopeClaims' = ReleasedBy(j)
    /\ DataVersionChanged
    /\ UNCHANGED <<scopeHead, stages, calls, reconciled, committed, closed,
                   tickets, handles, seenPending, now>>

-----------------------------------------------------------------------------
(* Operation stages *)

CreateStage(s) ==
    /\ stages[s].state = "absent"
    /\ StageJob[s] # NoJob => Submitted(StageJob[s])
    /\ stages' = [stages EXCEPT ![s] = [@ EXCEPT !.state = "ready"]]
    /\ DataVersionChanged
    /\ UNCHANGED <<jobs, scopeHead, calls, reconciled, committed, scopeClaims,
                   closed, tickets, handles, seenPending, now>>

(* Stages whose lease has run out and whose job has no live attempt *)
Abandoned(m) ==
    {s \in Stages :
        /\ stages[s].state = "running"
        /\ stages[s].lease # NoLease /\ stages[s].lease <= m
        /\ StageJob[s] # NoJob =>
              ~ (jobs[StageJob[s]].state = "running" /\ jobs[StageJob[s]].lease > m)}

FailStagesKeepLease(S) ==   \* faulty: lease_expires_at is not cleared
    [s \in Stages |->
        IF s \in S
        THEN [stages[s] EXCEPT !.state = "failed", !.version = @ + 1]
        ELSE stages[s]]

FailStages(S) ==
    [s \in Stages |->
        IF s \in S
        THEN Ended(stages[s], "failed")
        ELSE stages[s]]

FailAbandonedStages(m) ==
    /\ Abandoned(m) # {}
    /\ stages' = FailStages(Abandoned(m))
    /\ DataVersionChanged
    /\ UNCHANGED <<jobs, scopeHead, calls, reconciled, committed, scopeClaims,
                   closed, tickets, handles, seenPending, now>>

(* An earlier stage of the same job, or of the same scope when neither has *)
(* a job                                                                   *)
Precedes(p, s) ==
    /\ StageJob[p] = StageJob[s]
    /\ StageJob[s] = NoJob => StageScope[p] = StageScope[s]
    /\ StageSeq[p] < StageSeq[s]

(* Another job of the scope that a claim of stage s must wait for *)
JobBars(j, s) ==
    /\ JobScope[j] = StageScope[s] /\ j # StageJob[s]
    /\ \/ jobs[j].state = "running"
       \/ /\ StageJob[s] # NoJob
          /\ jobs[j].state = "pending" /\ jobs[j].seq < jobs[StageJob[s]].seq
    /\ LanesConflict(StageLane(s), JobLane(j))

JobStagesContend(r, s) ==   \* faulty: stages without a job are overlooked
    /\ r # s /\ StageScope[r] = StageScope[s]
    /\ StageJob[s] # NoJob /\ StageJob[r] # NoJob /\ StageJob[r] # StageJob[s]
    /\ LanesConflict(StageLane(s), StageLane(r))

(* Stages that may not run together: of one scope, not of one job *)
StagesContend(r, s) ==
    /\ r # s /\ StageScope[r] = StageScope[s]
    /\ StageJob[s] = NoJob \/ StageJob[r] # StageJob[s]
    /\ LanesConflict(StageLane(s), StageLane(r))

(* claim_stage.  A job's stage is claimed by the attempt that runs the     *)
(* job; v is the version of that attempt.                                  *)
ClaimStage(s, w, v, m) ==
    LET swept == FailStages({a \in Abandoned(m) : StageScope[a] = StageScope[s]} \ {s})
    IN  /\ stages[s].state = "ready" /\ stages[s].version < MaxVersion
        /\ StageJob[s] # NoJob =>
              RunningAttempt([job |-> StageJob[s], worker |-> w, version |-> v], m)
        /\ \A p \in Stages :
              Precedes(p, s) /\ swept[p].state # "absent" => swept[p].state \in StageTerminal
        /\ \A j \in Jobs : ~JobBars(j, s)
        /\ \A r \in Stages : StagesContend(r, s) => swept[r].state # "running"
        /\ stages' = [swept EXCEPT ![s] = Begun(@, w, m)]
        /\ handles' = handles \cup
              {[stage |-> s, worker |-> w, version |-> stages[s].version + 1]}
        /\ DataVersionChanged
        /\ UNCHANGED <<jobs, scopeHead, calls, reconciled, committed, scopeClaims,
                       closed, tickets, seenPending, now>>

StageHeartbeat(h, m) ==
    /\ OwnsStage(h)
    /\ stages' = [stages EXCEPT ![h.stage] = [@ EXCEPT !.lease = m + Lease]]
    /\ DataVersionChanged
    /\ UNCHANGED <<jobs, scopeHead, calls, reconciled, committed, scopeClaims,
                   closed, tickets, handles, seenPending, now>>

(* complete_stage and fail_stage.  Workers pass the stage version, which   *)
(* also brings the lease check; the recall API passes its worker id only.  *)
FinishStage(h, m, state) ==
    /\ stages[h.stage].state = "running"
    /\ stages[h.stage].worker = h.worker
    /\ StageJob[h.stage] # NoJob => OwnsStage(h) /\ stages[h.stage].lease > m
    /\ stages' = [stages EXCEPT ![h.stage] = Ended(@, state)]
    /\ DataVersionChanged
    /\ UNCHANGED <<jobs, scopeHead, calls, reconciled, committed, scopeClaims,
                   closed, tickets, handles, seenPending, now>>

FailExpiredStage(h, m) ==
    /\ OwnsStage(h)
    /\ LeaseExpired(stages[h.stage].lease, m)
    /\ stages' = FailStages({h.stage})
    /\ DataVersionChanged
    /\ UNCHANGED <<jobs, scopeHead, calls, reconciled, committed, scopeClaims,
                   closed, tickets, handles, seenPending, now>>

(* No attempt of the job is asked for: _run_stage asserts it afterwards. *)
RetryStage(s) ==
    /\ stages[s].state = "failed" /\ stages[s].version < MaxVersion
    /\ stages' = [stages EXCEPT ![s] = Requeued(@, "ready")]
    /\ DataVersionChanged
    /\ UNCHANGED <<jobs, scopeHead, calls, reconciled, committed, scopeClaims,
                   closed, tickets, handles, seenPending, now>>

-----------------------------------------------------------------------------
(* Provider calls and the ingest journal.  Neither write is fenced by the  *)
(* job attempt that makes it.                                              *)

CallMayBecome(c, status) ==
    \/ calls[c] = "absent" /\ status # "absent"
    \/ calls[c] = "started" /\ status \in CallTerminal

(* record_provider_call: insert as started, then move to the given status *)
RecordCall(c, status) ==
    /\ Submitted(CallJob[c]) /\ CallMayBecome(c, status)
    /\ calls' = [calls EXCEPT ![c] = status]
    /\ DataVersionChanged
    /\ UNCHANGED <<jobs, scopeHead, stages, reconciled, committed, scopeClaims,
                   closed, tickets, handles, seenPending, now>>

(* record_committed_source_events of an ingest that some worker has begun *)
RecordCommitted(j) ==
    /\ JobType[j] = "ingest" /\ j \notin committed
    /\ \E t \in tickets : t.job = j
    /\ committed' = committed \cup {j}
    /\ DataVersionChanged
    /\ UNCHANGED <<jobs, scopeHead, stages, calls, reconciled, scopeClaims,
                   closed, tickets, handles, seenPending, now>>

(* reconcile_committed_ingest_uncertain_calls, after a passing Source audit *)
ReconcileCalls(s) ==
    LET provable == {c \in Calls \ reconciled :
                        /\ Unresolved(c) /\ JobScope[CallJob[c]] = s
                        /\ jobs[CallJob[c]].state = "succeeded"
                        /\ JobType[CallJob[c]] = "ingest" /\ CallJob[c] \in committed}
    IN  /\ provable # {}
        /\ reconciled' = reconciled \cup provable
        /\ DataVersionChanged
        /\ UNCHANGED <<jobs, scopeHead, stages, calls, committed, scopeClaims,
                       closed, tickets, handles, seenPending, now>>

-----------------------------------------------------------------------------
(* Scope claims: at most one consolidation and one index rebuild a scope *)

OwesOutcome(i) == \E c \in Calls \ reconciled : CallJob[c] = i /\ Unresolved(c)

(* What an ingest still owes before derived work of its scope may start *)
IngestBars(i) ==
    \/ OwesOutcome(i)
    \/ Active(i)
    \/ jobs[i].state = "succeeded" /\ i \notin committed
    \/ \E s \in Stages : StageJob[s] = i /\ stages[s].state = "running"

(* _scope_scheduler_gate: every earlier ingest of the scope is closed; an  *)
(* ingest that asks for itself must have its own journal committed         *)
GateReady(s, j) ==
    /\ s \notin closed
    /\ \A i \in Jobs :
          JobScope[i] = s /\ Submitted(i) /\ JobType[i] = "ingest" /\ jobs[i].seq < jobs[j].seq
             => ~IngestBars(i)
    /\ JobType[j] = "ingest" => j \in committed /\ ~OwesOutcome(j)

(* _claim_scope_job, first half: the proof, in a read transaction *)
ProveClaim(s, k, j) ==
    /\ JobScope[j] = s /\ Active(j)
    /\ GateReady(s, j)
    /\ proofs' = proofs \cup {[scope |-> s, kind |-> k, job |-> j,
                               version |-> jobs[j].version, state |-> jobs[j].state]}
    /\ UNCHANGED <<jobs, scopeHead, stages, calls, reconciled, committed,
                   scopeClaims, closed, tickets, handles, seenPending, now>>

(* _reconcile_stale_scope_claim *)
StaleClaim(s, k) ==
    LET j == scopeClaims[s][k].job
    IN  j # NoJob /\ (JobScope[j] # s \/ jobs[j].state \in JobTerminal \cup {"absent"})

(* _claim_scope_job, second half: under the write lock, with data_version  *)
(* unchanged (the proof is still in proofs) and the row as it was proven   *)
CommitClaim(p) ==
    LET s == p.scope
    IN  /\ jobs[p.job].state = p.state /\ jobs[p.job].version = p.version
        /\ \/ scopeClaims[s][p.kind].job \in {NoJob, p.job}
           \/ StaleClaim(s, p.kind)
        /\ scopeClaims' = [scopeClaims EXCEPT ![s][p.kind] =
                              [job |-> p.job, version |-> p.version]]
        /\ DataVersionChanged
        /\ UNCHANGED <<jobs, scopeHead, stages, calls, reconciled, committed,
                       closed, tickets, handles, seenPending, now>>

(* release_evolution_job, release_index_job; a version of 0 stands for none *)
ReleaseClaim(s, k, t, v) ==
    /\ scopeClaims[s][k].job = t.job
    /\ v \in {0, scopeClaims[s][k].version}
    /\ scopeClaims' = [scopeClaims EXCEPT ![s][k] = NoClaim]
    /\ DataVersionChanged
    /\ UNCHANGED <<jobs, scopeHead, stages, calls, reconciled, committed, closed,
                   tickets, handles, seenPending, now>>

(* commercial.py opens and closes scopes (quarantine, deletion). *)
ToggleScope(s) ==
    /\ closed' = IF s \in closed THEN closed \ {s} ELSE closed \cup {s}
    /\ DataVersionChanged
    /\ UNCHANGED <<jobs, scopeHead, stages, calls, reconciled, committed,
                   scopeClaims, tickets, handles, seenPending, now>>

Tick ==
    /\ now < MaxTime /\ now' = now + 1
    /\ UNCHANGED <<jobs, scopeHead, stages, calls, reconciled, committed,
                   scopeClaims, closed, tickets, handles, seenPending, proofs>>

-----------------------------------------------------------------------------
JobStep ==
    \/ \E s \in Scopes, batch \in SUBSET Jobs : SubmitBatch(s, batch)
    \/ \E j \in Jobs, w \in Workers, m \in Moments : Claim(j, w, m)
    \/ \E t \in tickets, m \in Moments : Heartbeat(t, m)
    \/ \E t \in tickets, m \in Moments, st \in {"succeeded", "failed"} : Finish(t, m, st)
    \/ \E t \in tickets, m \in Moments : FailExpired(t, m)
    \/ \E j \in Jobs : SeePending(j)
    \/ \E j \in Jobs : Cancel(j)
    \/ \E j \in Jobs : ResumeFailed(j)

StageStep ==
    \/ \E s \in Stages : CreateStage(s)
    \/ \E m \in Moments : FailAbandonedStages(m)
    \/ \E s \in Stages, w \in Workers, v \in 0..MaxVersion, m \in Moments :
          ClaimStage(s, w, v, m)
    \/ \E h \in handles, m \in Moments : StageHeartbeat(h, m)
    \/ \E h \in handles, m \in Moments, st \in {"succeeded", "failed"} : FinishStage(h, m, st)
    \/ \E h \in handles, m \in Moments : FailExpiredStage(h, m)
    \/ \E s \in Stages : RetryStage(s)

LedgerStep ==
    \/ \E c \in Calls, st \in CallStates : RecordCall(c, st)
    \/ \E j \in Jobs : RecordCommitted(j)
    \/ \E s \in Scopes : ReconcileCalls(s)

ScopeStep ==
    \/ \E s \in Scopes, k \in Kinds, j \in Jobs : ProveClaim(s, k, j)
    \/ \E p \in proofs : CommitClaim(p)
    \/ \E s \in Scopes, k \in Kinds, t \in tickets, v \in 0..MaxVersion : ReleaseClaim(s, k, t, v)
    \/ \E s \in Closable : ToggleScope(s)

Next == JobStep \/ StageStep \/ LedgerStep \/ ScopeStep \/ Tick

Spec == Init /\ [][Next]_vars

-----------------------------------------------------------------------------
(* Safety *)

(* Two jobs of one scope whose lanes conflict never run at the same time,  *)
(* whatever mixture of claims, lease expiry, cancellation and resumption   *)
(* led there ("the per-scope Writer ordering contract").                   *)
LaneExclusion ==
    \A i, j \in Jobs :
        Contend(i, j) => ~(jobs[i].state = "running" /\ jobs[j].state = "running")

NeverStarted(j) ==
    \/ jobs[j].state \in {"absent", "pending"} /\ jobs[j].version = 0
    \/ jobs[j].state = "cancelled" /\ jobs[j].version = 1

(* Conflicting jobs of a scope start in the order they were admitted: as   *)
(* long as a job waits for its first attempt, no later one has begun.      *)
StartOrder ==
    \A i, j \in Jobs :
        /\ Contend(i, j) /\ jobs[i].seq < jobs[j].seq
        /\ jobs[i].state = "pending" /\ jobs[i].version = 0
        => NeverStarted(j)

(* A job's result was written by its last attempt; an attempt that was     *)
(* taken away never answers for the job.                                   *)
OutcomeOfLastAttempt ==
    \A j \in Jobs :
        jobs[j].state = "succeeded" \/ jobs[j].outcome # NoResult
        => jobs[j].outcome + 1 = jobs[j].version

(* Cancelling a job leaves none of its stages running, also not one that a *)
(* worker creates or claims later on behalf of the cancelled attempt.      *)
CancelledRunsNothing ==
    \A s \in Stages :
        StageJob[s] # NoJob /\ stages[s].state = "running" => jobs[StageJob[s]].state # "cancelled"

(* Stages of different owners in one scope run together only if their      *)
(* lanes allow it; the stages of a recall count as owners of their own.    *)
StageExclusion ==
    \A r, s \in Stages :
        /\ r # s /\ StageScope[r] = StageScope[s]
        /\ StageJob[r] # StageJob[s] \/ StageJob[s] = NoJob
        /\ stages[r].state = "running" /\ stages[s].state = "running"
        => ~LanesConflict(StageLane(r), StageLane(s))

(* The holder of a scope claim is a job of that scope that can still run:  *)
(* no terminal transition, by whomever, leaves a claim behind.             *)
ClaimHeldByActiveJob ==
    \A s \in Scopes, k \in Kinds :
        LET j == scopeClaims[s][k].job
        IN  j # NoJob => JobScope[j] = s /\ Active(j)

(* Rows that reached succeeded or cancelled never change again, and a      *)
(* failed row changes only back to pending.                                *)
TerminalIsFinal ==
    [][\A j \in Jobs :
          /\ jobs[j].state \in {"succeeded", "cancelled"} => jobs'[j] = jobs[j]
          /\ jobs[j].state = "failed" /\ jobs'[j] # jobs[j] => jobs'[j].state = "pending"]_vars

(* At the instant a scope claim is taken the scheduler gate is open, even  *)
(* though it was evaluated in an earlier transaction.                      *)
ClaimGranted ==
    [][\A s \in Scopes, k \in Kinds :
          LET j == scopeClaims'[s][k].job
          IN  j # NoJob /\ j # scopeClaims[s][k].job => GateReady(s, j)]_vars

=============================================================================
