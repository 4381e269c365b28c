-------------------------- MODULE ScopeMaintenance --------------------------
(***************************************************************************)
(* The derived work of one memory scope: the delta index of an ingest, the *)
(* coalesced index rebuild and the slow-graph consolidation, as scheduled  *)
(* and executed by the service workers (tmcra_service/runtime.py) over the *)
(* watermarks and claims of scope_evolution_state (control_db.py).         *)
(*                                                                         *)
(* A scope claim is taken in two transactions: a proof under a read        *)
(* transaction, then a short write that is abandoned if any other          *)
(* connection has committed since (PRAGMA data_version).  Other scopes,    *)
(* heartbeats and API requests commit to the same database all the time:   *)
(* that is the action OtherCommit.                                         *)
(***************************************************************************)
EXTENDS Integers, FiniteSets

CONSTANTS
    Schedulers,  \* worker loops that call _schedule_due_jobs
    Worker,      \* whoever holds the execution lock of the scope
    NoKey,
    MaxSource,   \* bound of the model: ingests, each of one source event
    MaxFaults    \* bound of the model: crashes of the service, retries by clients

ASSUME ScopeMaintenanceAssumption ==
    MaxSource \in Nat /\ MaxFaults \in Nat /\ Worker \notin Schedulers

Derived == {"consolidate", "reindex"}
Kinds == {"evolution", "index"}   \* the two scope claims
ClaimKind(type) == IF type = "consolidate" THEN "evolution" ELSE "index"

(* Idempotency keys.  Those of derived jobs name the source watermark the  *)
(* scheduler has seen: auto:reindex:{scope}:{source_seq}                   *)
Keys == [type: {"ingest"} \cup Derived, at: 1..MaxSource]

ASSUME NoKeyAssumption == NoKey \notin Keys

VARIABLES
    rows,       \* the jobs of the scope
    head,       \* scope_heads.next_seq
    marks,      \* the watermarks of scope_evolution_state
    committed,  \* ingests in scope_ingest_watermark_commits
    claims,     \* active_evolution_job_id, active_index_job_id
    done,       \* the operation stages of a job that have succeeded
    waiting,    \* claimed jobs whose thread waits for the execution lock
    runner,     \* the holder of the execution lock
    plans,      \* the schedulers
    proofs,     \* claimants whose proof is still good
    faults

vars == <<rows, head, marks, committed, claims, done, waiting, runner, plans, proofs, faults>>

-----------------------------------------------------------------------------
States == {"absent", "pending", "running", "succeeded", "failed", "cancelled"}

Marks == [source: Nat, delta: Nat, indexed: Nat, promoted: Nat]

(* target is the source watermark an index build works for, late that the  *)
(* wait for the index claim has lasted index_claim_wait_seconds.           *)
Runner == [job: Keys \cup {NoKey},
           pc: {"idle", "record", "claim", "proven", "refused", "slow", "build",
                "advance", "activated", "promote", "promoted", "end", "resume"},
           want: Kinds, target: Nat, late: BOOLEAN]

Plan == [pc: {"idle", "index", "plan", "prove", "proven", "refused"},
         due: [Derived -> 0..MaxSource], key: Keys \cup {NoKey}, seen: States]

Resting == [job |-> NoKey, pc |-> "idle", want |-> "index", target |-> 0, late |-> FALSE]
NoPlan == [pc |-> "idle", due |-> [d \in Derived |-> 0], key |-> NoKey, seen |-> "absent"]

TypeOK ==
    /\ rows \in [Keys -> [state: States, seq: Nat]]
    /\ head \in Nat \ {0}
    /\ marks \in Marks
    /\ committed \subseteq Keys
    /\ claims \in [Kinds -> Keys \cup {NoKey}]
    /\ done \in [Keys -> SUBSET {"slow", "index", "promote"}]
    /\ waiting \subseteq Keys
    /\ runner \in Runner
    /\ plans \in [Schedulers -> Plan]
    /\ proofs \subseteq Schedulers \cup {Worker}
    /\ faults \in 0..MaxFaults
    /\ runner.job = NoKey <=> runner.pc = "idle"

Init ==
    /\ rows = [k \in Keys |-> [state |-> "absent", seq |-> 0]]
    /\ head = 1
    /\ marks = [source |-> 0, delta |-> 0, indexed |-> 0, promoted |-> 0]
    /\ committed = {} /\ waiting = {} /\ proofs = {} /\ faults = 0
    /\ claims = [c \in Kinds |-> NoKey]
    /\ done = [k \in Keys |-> {}]
    /\ runner = Resting
    /\ plans = [p \in Schedulers |-> NoPlan]

-----------------------------------------------------------------------------
(* State formulae *)

Active(k) == rows[k].state \in {"pending", "running"}
Terminal(k) == rows[k].state \in {"succeeded", "failed", "cancelled"}

(* The job that holds the lock is still the running attempt of its row. *)
Attempt == rows[runner.job].state = "running"

Larger(a, b) == IF a > b THEN a ELSE b

Commits == proofs' = {}

WithState(k, state) == [rows EXCEPT ![k].state = state]

Released(k) == [c \in Kinds |-> IF claims[c] = k THEN NoKey ELSE claims[c]]

NothingAwaited(k) == k.type = "ingest" => k \in committed   \* faulty: other ingests are not asked

(* _scope_scheduler_gate: every earlier ingest is over and journalled, and *)
(* so is the source the job aims at; an ingest that asks must have its own *)
(* journal committed                                                       *)
GateReady(k) ==
    /\ \A i \in Keys :
          i.type = "ingest" /\ rows[i].state # "absent" /\ rows[i].seq < rows[k].seq
             => ~Active(i) /\ (rows[i].state = "succeeded" => i \in committed)
    /\ IF k.type = "ingest" THEN k \in committed ELSE k.at <= marks.source

Provable(k) == Active(k) /\ GateReady(k)

(* The write of _claim_scope_job finds the claim free, stale or its own. *)
Takes(who, kind, k) ==
    /\ who \in proofs
    /\ claims[kind] \in {NoKey, k} \/ ~Active(claims[kind])

PendingBlocks(k) ==   \* faulty: the order of the jobs is not asked
    \E i \in Keys \ {k} : Active(i)

(* All types of jobs here are mutations, so any two of them conflict. *)
Blocked(k) ==
    \E i \in Keys \ {k} :
        \/ rows[i].state = "running"
        \/ rows[i].state = "pending" /\ rows[i].seq < rows[k].seq

-----------------------------------------------------------------------------
(* The scheduler: _schedule_due_jobs and _schedule_auto_job *)

Replan(p, fields) == plans' = [plans EXCEPT ![p] = fields]

(* list_due_scopes; the thresholds and the cooldown decide whether a       *)
(* backlog is due                                                          *)
ReadEvolutionDue(p, due) ==
    /\ plans[p].pc = "idle"
    /\ due => marks.source > marks.promoted /\ claims["evolution"] = NoKey
    /\ Replan(p, [plans[p] EXCEPT !.pc = "index",
                                 !.due["consolidate"] = IF due THEN marks.source ELSE 0])
    /\ UNCHANGED <<rows, head, marks, committed, claims, done, waiting, runner, proofs, faults>>

(* list_due_index_scopes; any backlog becomes due with its age *)
ReadIndexDue(p) ==
    LET due == marks.source > marks.indexed /\ claims["index"] = NoKey
    IN  /\ plans[p].pc = "index"
        /\ Replan(p, [plans[p] EXCEPT !.pc = "plan",
                                     !.due["reindex"] = IF due THEN marks.source ELSE 0])
        /\ UNCHANGED <<rows, head, marks, committed, claims, done, waiting, runner,
                       proofs, faults>>

Planned(p) ==
    IF plans[p].due["consolidate"] # 0 THEN "consolidate" ELSE "reindex"

Forgotten(p) == [plans[p] EXCEPT !.pc = "plan", !.due[Planned(p)] = 0,
                                 !.key = NoKey, !.seen = "absent"]

(* A key whose job is over is left alone; otherwise the job is claimed. *)
SubmitAuto(p) ==
    LET k == [type |-> Planned(p), at |-> plans[p].due[Planned(p)]]
    IN  /\ plans[p].pc = "plan" /\ plans[p].due[Planned(p)] # 0
        /\ IF rows[k].state = "absent"
           THEN /\ rows' = [rows EXCEPT ![k] = [state |-> "pending", seq |-> head]]
                /\ head' = head + 1
                /\ Commits
           ELSE UNCHANGED <<rows, head, proofs>>
        /\ Replan(p, IF Terminal(k) THEN Forgotten(p)
                    ELSE [plans[p] EXCEPT !.pc = "prove", !.key = k,
                                          !.seen = rows'[k].state])
        /\ UNCHANGED <<marks, committed, claims, done, waiting, runner, faults>>

PlanDone(p) ==
    /\ plans[p].pc = "plan" /\ plans[p].due[Planned(p)] = 0
    /\ Replan(p, NoPlan)
    /\ UNCHANGED <<rows, head, marks, committed, claims, done, waiting, runner, proofs, faults>>

ProveAuto(p) ==
    LET good == Provable(plans[p].key)
    IN  /\ plans[p].pc = "prove"
        /\ Replan(p, [plans[p] EXCEPT !.pc = IF good THEN "proven" ELSE "refused"])
        /\ proofs' = IF good THEN proofs \cup {p} ELSE proofs
        /\ UNCHANGED <<rows, head, marks, committed, claims, done, waiting, runner, faults>>

TakeAuto(p) ==
    LET k == plans[p].key
        kind == ClaimKind(k.type)
    IN  /\ plans[p].pc = "proven"
        /\ IF Takes(p, kind, k)
           THEN /\ claims' = [claims EXCEPT ![kind] = k]
                /\ Commits
                /\ Replan(p, Forgotten(p))
           ELSE /\ Replan(p, [plans[p] EXCEPT !.pc = "refused"])
                /\ proofs' = proofs \ {p}
                /\ UNCHANGED claims
        /\ UNCHANGED <<rows, head, marks, committed, done, waiting, runner, faults>>

(* The job was pending when submit returned it; a worker may have begun    *)
(* it since.                                                               *)
CancelRefused(p) ==
    LET k == plans[p].key
    IN  /\ plans[p].pc = "refused"
        /\ IF plans[p].seen = "pending" /\ Active(k)
           THEN /\ rows' = WithState(k, "cancelled")
                /\ claims' = Released(k)
                /\ Commits
           ELSE UNCHANGED <<rows, claims, proofs>>
        /\ Replan(p, Forgotten(p))
        /\ UNCHANGED <<head, marks, committed, done, waiting, runner, faults>>

-----------------------------------------------------------------------------
(* Jobs *)

SubmitIngest(i) ==
    LET k == [type |-> "ingest", at |-> i]
    IN  /\ rows[k].state = "absent"
        /\ \A j \in 1..(i - 1) : rows[[type |-> "ingest", at |-> j]].state # "absent"
        /\ rows' = [rows EXCEPT ![k] = [state |-> "pending", seq |-> head]]
        /\ head' = head + 1
        /\ Commits
        /\ UNCHANGED <<marks, committed, claims, done, waiting, runner, plans, faults>>

(* _claim_next: the job is running, its thread asks for the lock *)
ClaimJob(k) ==
    /\ rows[k].state = "pending" /\ ~Blocked(k)
    /\ rows' = WithState(k, "running")
    /\ waiting' = waiting \cup {k}
    /\ Commits
    /\ UNCHANGED <<head, marks, committed, claims, done, runner, plans, faults>>

FirstStep(k) ==
    CASE k.type = "ingest" -> "record"
      [] k.type = "consolidate" -> "claim"
      [] k.type = "reindex" -> IF "index" \in done[k] THEN "end" ELSE "claim"

(* The thread has the lock and assert_running_attempt decides.  A rebuild  *)
(* aims at the source watermark it reads now, a consolidation at the one   *)
(* in its payload.                                                         *)
StartJob(k) ==
    /\ runner.pc = "idle" /\ k \in waiting
    /\ waiting' = waiting \ {k}
    /\ runner' = IF rows[k].state # "running" THEN Resting
                 ELSE [job |-> k, pc |-> FirstStep(k), want |-> ClaimKind(k.type),
                       target |-> IF k.type = "consolidate" THEN k.at ELSE marks.source,
                       late |-> FALSE]
    /\ UNCHANGED <<rows, head, marks, committed, claims, done, plans, proofs, faults>>

Goes(pc) == runner' = [runner EXCEPT !.pc = pc]

(* The writer of an ingest is done; its event is journalled exactly once.  *)
RecordIngest ==
    LET k == runner.job
        source == IF k \in committed THEN marks.source ELSE marks.source + 1
    IN  /\ runner.pc = "record"
        /\ marks' = [marks EXCEPT !.source = source]
        /\ committed' = committed \cup {k}
        /\ runner' = [runner EXCEPT !.pc = IF "index" \in done[k] THEN "end" ELSE "claim",
                                    !.target = source]
        /\ IF k \in committed THEN UNCHANGED proofs ELSE Commits
        /\ UNCHANGED <<rows, head, claims, done, waiting, plans, faults>>

ProveClaim ==
    LET good == Provable(runner.job)
    IN  /\ runner.pc = "claim"
        /\ Goes(IF good THEN "proven" ELSE "refused")
        /\ proofs' = IF good THEN proofs \cup {Worker} ELSE proofs
        /\ UNCHANGED <<rows, head, marks, committed, claims, done, waiting, plans, faults>>

(* What follows a claim: stages that have succeeded are not run again. *)
AfterClaim ==
    LET k == runner.job
    IN  IF runner.want = "evolution" /\ "slow" \notin done[k] THEN "slow"
        ELSE IF runner.want = "evolution" THEN "claim"
        ELSE IF "index" \notin done[k] THEN "build"
        ELSE IF k.type = "consolidate" /\ "promote" \notin done[k] THEN "promote"
        ELSE "end"

TakeClaim ==
    LET k == runner.job
    IN  /\ runner.pc = "proven"
        /\ IF Takes(Worker, runner.want, k)
           THEN /\ claims' = [claims EXCEPT ![runner.want] = k]
                /\ Commits
                /\ runner' = [runner EXCEPT !.pc = AfterClaim, !.want = "index"]
           ELSE /\ Goes("refused")
                /\ proofs' = proofs \ {Worker}
                /\ UNCHANGED claims
        /\ UNCHANGED <<rows, head, marks, committed, done, waiting, plans, faults>>

Patient == runner.job.type = "consolidate" /\ runner.want = "index"

(* _claim_index_after_slow asks again until its deadline; every other      *)
(* claimant of the worker asks once                                        *)
AskAgain ==
    /\ runner.pc = "refused" /\ Patient /\ ~runner.late
    /\ Goes("claim")
    /\ UNCHANGED <<rows, head, marks, committed, claims, done, waiting, plans, proofs, faults>>

DeadlinePasses ==
    /\ runner.pc \in {"claim", "proven", "refused"} /\ Patient /\ ~runner.late
    /\ runner' = [runner EXCEPT !.late = TRUE]
    /\ UNCHANGED <<rows, head, marks, committed, claims, done, waiting, plans, proofs, faults>>

(* A stage ends with assert_running_attempt. *)
Succeeds(stage, pc) ==
    /\ Attempt
    /\ done' = [done EXCEPT ![runner.job] = @ \cup {stage}]
    /\ Goes(pc)
    /\ Commits
    /\ UNCHANGED <<rows, head, marks, committed, claims, waiting, plans, faults>>

RunSlow == runner.pc = "slow" /\ Succeeds("slow", "claim")

(* build_index; a consolidation ends its stage here, the other jobs        *)
(* advance the watermark within the stage                                  *)
Build ==
    /\ runner.pc = "build"
    /\ IF runner.job.type = "consolidate" THEN Succeeds("index", "promote")
       ELSE /\ Goes("advance")
            /\ UNCHANGED <<rows, head, marks, committed, claims, done, waiting, plans,
                           proofs, faults>>

AnyoneOwns(kind) == TRUE   \* faulty: the owner of the claim is not checked

OwnsClaim(kind) == claims[kind] = runner.job

(* advance_delta_index_watermark, advance_index_watermark: an ingest adds  *)
(* a delta to the active base, everything else activates a new base        *)
AdvanceMark ==
    LET delta == runner.job.type = "ingest" /\ marks.indexed > 0
    IN  /\ runner.pc = "advance"
        /\ OwnsClaim("index")
        /\ delta => runner.target >= marks.indexed
        /\ marks' = [marks EXCEPT
                       !.delta = Larger(@, runner.target),
                       !.indexed = IF delta THEN @ ELSE Larger(@, runner.target)]
        /\ claims' = [claims EXCEPT !["index"] = NoKey]
        /\ Goes("activated")
        /\ Commits
        /\ UNCHANGED <<rows, head, committed, done, waiting, plans, faults>>

CompleteIndex == runner.pc = "activated" /\ Succeeds("index", "end")

PromotedIndexOnly(target) ==   \* faulty: the searchable watermark lags behind
    [marks EXCEPT !.promoted = Larger(@, target), !.indexed = Larger(@, target)]

(* advance_promoted_watermarks *)
Promoted(target) ==
    [marks EXCEPT !.promoted = Larger(@, target), !.indexed = Larger(@, target),
                  !.delta = Larger(@, target)]

Promote ==
    /\ runner.pc = "promote"
    /\ OwnsClaim("evolution") /\ runner.target <= marks.source
    /\ marks' = Promoted(runner.target)
    /\ claims' = [claims EXCEPT !["evolution"] = NoKey]
    /\ Goes("promoted")
    /\ Commits
    /\ UNCHANGED <<rows, head, committed, done, waiting, plans, faults>>

CompletePromote == runner.pc = "promoted" /\ Succeeds("promote", "end")

EndsUnderLock(state) ==   \* faulty: the lock keeps the name of its last holder
    /\ rows' = IF Attempt THEN WithState(runner.job, state) ELSE rows
    /\ claims' = Released(runner.job)
    /\ runner' = [runner EXCEPT !.pc = "idle"]
    /\ Commits
    /\ UNCHANGED <<head, marks, committed, done, waiting, plans, faults>>

Ends(state) ==
    /\ rows' = IF Attempt THEN WithState(runner.job, state) ELSE rows
    /\ claims' = Released(runner.job)
    /\ runner' = Resting
    /\ Commits
    /\ UNCHANGED <<head, marks, committed, done, waiting, plans, faults>>

(* The end of _run_job; also releases the index claim of a consolidation. *)
FinishJob == runner.pc = "end" /\ Ends("succeeded")

(* Anything the worker does may fail, a refused claim always does. *)
FailJob ==
    /\ runner.pc \notin {"idle", "resume"}
    /\ runner.pc = "refused" => ~Patient \/ runner.late
    /\ Ends("failed")

-----------------------------------------------------------------------------
(* Crashes, recovery and retries *)

Crash ==
    /\ faults < MaxFaults
    /\ faults' = faults + 1
    /\ runner' = Resting /\ waiting' = {} /\ proofs' = {}
    /\ plans' = [p \in Schedulers |-> NoPlan]
    /\ UNCHANGED <<rows, head, marks, committed, claims, done>>

(* recover_abandoned_jobs, under the execution lock: the expired attempt   *)
(* fails in one transaction and is requeued in the next.                   *)
FailExpired(k) ==
    /\ runner.pc = "idle" /\ rows[k].state = "running" /\ k \notin waiting
    /\ rows' = WithState(k, "failed")
    /\ claims' = Released(k)
    /\ runner' = [Resting EXCEPT !.job = k, !.pc = "resume"]
    /\ Commits
    /\ UNCHANGED <<head, marks, committed, done, waiting, plans, faults>>

(* resume_failed refuses a row that is not failed any more, and keeps the  *)
(* number of the one it requeues.                                          *)
Requeues(k) == rows[k].state = "failed" /\ rows' = WithState(k, "pending") /\ Commits

(* Derived jobs are always safe to resume, an ingest only if its artifacts *)
(* pass the audit.                                                         *)
Resume(safe) ==
    /\ runner.pc = "resume"
    /\ runner.job.type \in Derived => safe
    /\ IF safe /\ rows[runner.job].state = "failed" THEN Requeues(runner.job)
       ELSE UNCHANGED <<rows, proofs>>
    /\ runner' = Resting
    /\ UNCHANGED <<head, marks, committed, claims, done, waiting, plans, faults>>

(* POST /v1/jobs/{job_id}/retry, at any time and without the execution     *)
(* lock: a failed rebuild, or a failed ingest whose artifacts pass the     *)
(* audit.  A consolidation cannot be retried.                              *)
Retry(k) ==
    /\ k.type \in {"ingest", "reindex"}
    /\ faults < MaxFaults /\ faults' = faults + 1
    /\ Requeues(k)
    /\ UNCHANGED <<head, marks, committed, claims, done, waiting, runner, plans>>

OtherCommit ==
    /\ proofs # {}
    /\ Commits
    /\ UNCHANGED <<rows, head, marks, committed, claims, done, waiting, runner, plans, faults>>

-----------------------------------------------------------------------------
SchedulerStep(p) ==
    \/ \E due \in BOOLEAN : ReadEvolutionDue(p, due)
    \/ ReadIndexDue(p) \/ SubmitAuto(p) \/ PlanDone(p)
    \/ ProveAuto(p) \/ TakeAuto(p) \/ CancelRefused(p)

RunnerStep ==
    \/ RecordIngest \/ ProveClaim \/ TakeClaim \/ AskAgain
    \/ RunSlow \/ Build \/ AdvanceMark \/ CompleteIndex \/ Promote \/ CompletePromote
    \/ FinishJob \/ FailJob
    \/ \E safe \in BOOLEAN : Resume(safe)

JobStep ==
    \/ \E k \in Keys : ClaimJob(k) \/ StartJob(k) \/ FailExpired(k)
    \/ RunnerStep

Next ==
    \/ \E p \in Schedulers : SchedulerStep(p)
    \/ \E i \in 1..MaxSource : SubmitIngest(i)
    \/ JobStep
    \/ \E k \in Keys : Retry(k)
    \/ DeadlinePasses \/ Crash \/ OtherCommit

Spec == Init /\ [][Next]_vars

(* The worker loop schedules, claims, executes and recovers for ever, and  *)
(* time passes; nobody has to submit an ingest, retry a job, crash or      *)
(* commit.  MaxFaults bounds the retries too: an ingest that is retried    *)
(* for ever keeps its old number and with it every later job out of the    *)
(* lane.                                                                   *)
FairSpec ==
    /\ Spec
    /\ \A p \in Schedulers : WF_vars(SchedulerStep(p))
    /\ WF_vars(RunnerStep) /\ WF_vars(DeadlinePasses)
    /\ \A k \in Keys : WF_vars(ClaimJob(k)) /\ WF_vars(StartJob(k)) /\ WF_vars(FailExpired(k))

-----------------------------------------------------------------------------
(* Properties *)

(* What is promoted is indexed, what is in the base is searchable, what is *)
(* searchable is committed, although each watermark is written by another  *)
(* kind of job.                                                            *)
WatermarkOrder ==
    /\ marks.promoted <= marks.indexed
    /\ marks.indexed <= marks.delta
    /\ marks.delta <= marks.source

(* Derived watermarks are moved only by a job whose row says it is         *)
(* running: a job cancelled or failed in the middle of a build moves       *)
(* nothing any more.                                                       *)
MovedByRunningJob ==
    [][\A m \in DOMAIN marks \ {"source"} :
          marks'[m] # marks[m] => runner.job # NoKey /\ Attempt]_vars

Deriving == runner.pc \in {"slow", "build", "promote"} /\ runner.job.type \in Derived

(* Ingests before the job at work that are queued or running *)
Unsettled ==
    {i \in Keys : i.type = "ingest" /\ Active(i) /\ rows[i].seq < rows[runner.job].seq}

(* "Prove that every ingest visible to a derived job is durably closed":   *)
(* graph and index are begun only while no earlier ingest is queued or     *)
(* running, also when recovery requeues an ingest that a crash left behind *)
(* after a worker has already taken the derived job.  While they are being *)
(* derived an earlier ingest comes back in one way only: the gate lets a   *)
(* failed one pass, and a client retries it.                               *)
DerivedAfterIngests ==
    [][Deriving' => \A i \in Unsettled' : (Deriving /\ i \in Unsettled) \/ Retry(i)]_vars

(* Every job that is queued ends, also a consolidation that waits for an   *)
(* index claim held by a rebuild which in turn waits for the consolidation *)
(* to leave the lane.                                                      *)
JobsEnd == \A k \in Keys : Active(k) ~> Terminal(k)

=============================================================================
