--------------------------- MODULE ContentDeletion ---------------------------
(***************************************************************************)
(* The deletion of memories from one scope, together with what it has to   *)
(* undo: the native database, the immutable index generations derived from *)
(* it (tmcra_service/adapters/v4.py), the watermarks of the scope and the  *)
(* queue of its jobs (runtime.py, jobs.py), and the content_deletions row  *)
(* that closes the scope to readers meanwhile (commercial.py, app.py).     *)
(*                                                                         *)
(* An ingest commits one source event, named after the ingest.  The jobs   *)
(* of a scope run one at a time under its execution lock, so the hazards   *)
(* are in what one attempt leaves for another: a database copied but not   *)
(* indexed, a commit written but not activated, a pointer moved but not    *)
(* recorded.                                                               *)
(***************************************************************************)
EXTENDS Integers, FiniteSets

CONSTANTS
    Ingests, Rebuilds, Purges,  \* jobs: ingest, reindex, delete_memories
    NoJob,
    Retryable,   \* jobs whose failure somebody retries over HTTP
    Retention,   \* index_generation_retention
    MaxFaults, MaxRequests   \* bounds: crashes and failures, cancels and retries

Jobs == Ingests \cup Rebuilds \cup Purges

ASSUME ContentDeletionAssumption ==
    /\ NoJob \notin Jobs /\ IsFiniteSet(Jobs)
    /\ Ingests \cap Rebuilds = {} /\ Purges \cap (Ingests \cup Rebuilds) = {}
    /\ Retryable \subseteq Jobs
    /\ Retention \in Nat \ {0} /\ MaxFaults \in Nat /\ MaxRequests \in Nat

VARIABLES
    rows,      \* the jobs of the scope
    head,      \* scope_heads.next_seq
    done,      \* operation stages that have succeeded
    live,      \* the native database: events it holds
    journal,   \* the native database: purges it has committed
    gens,      \* the generation a job has built as base, as delta
    base,      \* active_index.json
    delta,     \* active_delta_index.json
    stale,     \* history: since a base was last built from the native database,
               \* a generation was resumed over another one and activated
    marks,     \* scope_evolution_state
    deletion,  \* content_deletions.state
    targets,   \* the events a purge is to delete
    sweep,     \* jobs found pending when a deletion was registered
    runner,    \* the holder of the execution lock
    up,        \* the service runs
    faults,    \* crashes and failures so far
    requests   \* cancels and retries so far

queue == <<rows, head, done>>
store == <<live, journal, gens, base, delta, stale>>
control == <<marks, deletion, targets, sweep>>
bounds == <<faults, requests>>
vars == <<queue, store, control, runner, up, bounds>>

-----------------------------------------------------------------------------
Kinds == {"base", "delta"}

(* has: the events in the copied database and so in the index; covers: the *)
(* watermark in the manifest; over: the base a delta extends; at: the time *)
(* the directory was last written; kept: it has not been pruned            *)
Gen == [stage: {"none", "copied", "built", "committed", "empty"},
        has: SUBSET Ingests, covers: Nat, over: Jobs \cup {NoJob},
        at: Nat, kept: BOOLEAN]

NoGen == [stage |-> "none", has |-> {}, covers |-> 0, over |-> NoJob,
          at |-> 0, kept |-> FALSE]

Underway == {"requested", "purging", "reindexing"}

(* old: history, the index is made of a copy that an earlier attempt left  *)
(* and that is not what the native database holds                          *)
Runner == [job: Jobs \cup {NoJob},
           pc: {"idle", "gate", "write", "purge", "unlink", "clean", "index", "build",
                "seal", "activate", "advance", "close", "complete", "end", "report",
                "resume"},
           kind: Kinds, target: Nat, old: BOOLEAN]

Resting == [job |-> NoJob, pc |-> "idle", kind |-> "base", target |-> 0, old |-> FALSE]

TypeOK ==
    /\ rows \in [Jobs -> [state: {"absent", "pending", "running", "succeeded",
                                  "failed", "cancelled"}, seq: Nat]]
    /\ head \in Nat \ {0}
    /\ done \in [Jobs -> SUBSET (Kinds \cup {"writer"})]
    /\ live \subseteq Ingests /\ journal \subseteq Purges
    /\ gens \in [Jobs -> [Kinds -> Gen]]
    /\ base \in Jobs \cup {NoJob} /\ delta \in Jobs \cup {NoJob} /\ stale \in BOOLEAN
    /\ marks \in [source: Nat, indexed: Nat, delta: Nat]
    /\ deletion \in [Purges -> Underway \cup {"absent", "completed", "failed"}]
    /\ targets \in [Purges -> SUBSET Ingests]
    /\ sweep \subseteq Jobs
    /\ runner \in Runner /\ (runner.job = NoJob <=> runner.pc = "idle")
    /\ up \in BOOLEAN
    /\ faults \in 0..MaxFaults /\ requests \in 0..MaxRequests

Init ==
    /\ rows = [j \in Jobs |-> [state |-> "absent", seq |-> 0]]
    /\ head = 1
    /\ done = [j \in Jobs |-> {}]
    /\ live = {} /\ journal = {}
    /\ gens = [j \in Jobs |-> [k \in Kinds |-> NoGen]]
    /\ base = NoJob /\ delta = NoJob /\ stale = FALSE
    /\ marks = [source |-> 0, indexed |-> 0, delta |-> 0]
    /\ deletion = [p \in Purges |-> "absent"]
    /\ targets = [p \in Purges |-> {}]
    /\ sweep = {} /\ runner = Resting /\ up = TRUE
    /\ faults = 0 /\ requests = 0

-----------------------------------------------------------------------------
(* State formulae *)

Larger(a, b) == IF a > b THEN a ELSE b
Smaller(a, b) == IF a < b THEN a ELSE b

WithState(j, state) == [rows EXCEPT ![j].state = state]

Attempt == rows[runner.job].state = "running"

OpenOnceOver == \A p \in Purges : deletion[p] \notin Underway   \* faulty: also after a failure

(* require_scope_active, require_scope_readable *)
Open == \A p \in Purges : deletion[p] \notin Underway \cup {"failed"}

AdmittedOpen(j) == Open   \* faulty: the deletion waits for itself

(* The suspension of the scope exempts the deletion it is for. *)
Admitted(j) == j \notin Purges => Open

(* JobStore.claim: one lane, in the order of submission *)
Blocked(j) ==
    \E i \in Jobs \ {j} :
        \/ rows[i].state = "running"
        \/ rows[i].state = "pending" /\ rows[i].seq < rows[j].seq

(* _validated_active_delta ignores a delta of another base. *)
DeltaApplies == delta # NoJob /\ gens[delta]["delta"].over = base

(* What active_snapshot lets a recall see, and searchable_event_seq *)
Served ==
    IF base = NoJob THEN {}
    ELSE gens[base]["base"].has \cup (IF DeltaApplies THEN gens[delta]["delta"].has ELSE {})

Searchable ==
    Larger(gens[base]["base"].covers,
           IF DeltaApplies THEN gens[delta]["delta"].covers ELSE 0)

(* audit_searchable_watermarks of a scope that is listed: it does not raise *)
Audited ==
    Open =>
        /\ marks.indexed <= marks.delta /\ marks.delta <= marks.source
        /\ marks.source > 0 =>
            IF base = NoJob THEN marks.delta = 0
            ELSE /\ Searchable <= marks.source
                 /\ marks.indexed <= gens[base]["base"].covers
                 /\ marks.delta <= Searchable

-----------------------------------------------------------------------------
(* Requests: submit, cancel, retry *)

Enqueued(j) == [rows EXCEPT ![j] = [state |-> "pending", seq |-> head]]

(* The route has found the scope open some time before. *)
Submit(j) ==
    /\ up /\ rows[j].state = "absent"
    /\ rows' = Enqueued(j) /\ head' = head + 1
    /\ UNCHANGED <<done, store, control, runner, up, bounds>>

(* submit_content_deletion: job and row in one transaction; the targets    *)
(* were found in the native database.  Then the pending jobs are cancelled *)
(* one by one.                                                             *)
SubmitPurge(p, events) ==
    /\ up /\ rows[p].state = "absent" /\ Open
    /\ events \subseteq live /\ events # {}
    /\ rows' = Enqueued(p) /\ head' = head + 1
    /\ deletion' = [deletion EXCEPT ![p] = "requested"]
    /\ targets' = [targets EXCEPT ![p] = events]
    /\ sweep' = {j \in Ingests \cup Rebuilds : rows[j].state = "pending"}
    /\ UNCHANGED <<done, store, marks, runner, up, bounds>>

(* cancel asks for no version: a worker may have claimed the job since it  *)
(* was listed, or just before the list was read.                           *)
Sweep(j) ==
    /\ j \in sweep
    /\ sweep' = sweep \ {j}
    /\ \/ rows[j].state \in {"pending", "running"} /\ rows' = WithState(j, "cancelled")
       \/ rows[j].state # "pending" /\ UNCHANGED rows
    /\ UNCHANGED <<head, done, store, marks, deletion, targets, runner, up, bounds>>

Cancel(j) ==
    /\ up /\ rows[j].state = "pending" /\ requests < MaxRequests
    /\ rows' = WithState(j, "cancelled")
    /\ requests' = requests + 1
    /\ UNCHANGED <<head, done, store, control, runner, up, faults>>

(* resume_failed, then resume_content_deletion, which refuses a deletion   *)
(* that is not failed after the job is already pending again               *)
Retry(j) ==
    /\ up /\ j \in Retryable /\ rows[j].state = "failed" /\ requests < MaxRequests
    /\ rows' = WithState(j, "pending")
    /\ deletion' = IF j \in Purges /\ deletion[j] = "failed"
                   THEN [deletion EXCEPT ![j] = "requested"] ELSE deletion
    /\ requests' = requests + 1
    /\ UNCHANGED <<head, done, store, marks, targets, sweep, runner, up, faults>>

-----------------------------------------------------------------------------
(* The worker: _claim_next, _run_job, _execute *)

Claim(j) ==
    /\ up /\ runner.pc = "idle"
    /\ rows[j].state = "pending" /\ ~Blocked(j)
    /\ Admitted(j)
    /\ rows' = WithState(j, "running")
    /\ runner' = [Resting EXCEPT !.job = j, !.pc = "gate"]
    /\ UNCHANGED <<head, done, store, control, up, bounds>>

Goes(pc) == runner' = [runner EXCEPT !.pc = pc]

(* The index stage begins: its kind and the watermark it aims at *)
Indexes(kind, target) ==
    runner' = [runner EXCEPT !.pc = "index", !.kind = kind, !.target = target]

Gate ==
    LET j == runner.job
    IN  /\ runner.pc = "gate" /\ Attempt
        /\ IF j \in Purges
           THEN /\ deletion' = [deletion EXCEPT ![j] = "purging"]
                /\ Goes(IF j \in journal THEN "clean" ELSE "purge")
           ELSE /\ Admitted(j)
                /\ IF j \in Ingests THEN Goes("write") ELSE Indexes("base", marks.source)
                /\ UNCHANGED deletion
        /\ UNCHANGED <<queue, store, marks, targets, sweep, up, bounds>>

(* The writer stage and _record_ingest_source, which counts an event once; *)
(* the first index of a scope is a base, then deltas follow                *)
Write ==
    LET j == runner.job
        new == "writer" \notin done[j]
        source == IF new THEN marks.source + 1 ELSE marks.source
    IN  /\ runner.pc = "write" /\ Attempt
        /\ live' = IF new THEN live \cup {j} ELSE live
        /\ done' = [done EXCEPT ![j] = @ \cup {"writer"}]
        /\ marks' = [marks EXCEPT !.source = source]
        /\ Indexes(IF base = NoJob THEN "base" ELSE "delta", source)
        /\ UNCHANGED <<rows, head, journal, gens, base, delta, stale, deletion, targets, sweep,
                       up, bounds>>

-----------------------------------------------------------------------------
(* The purge: delete_memories and apply_content_deletion_control_cleanup *)

PurgeRows ==
    LET p == runner.job
    IN  /\ runner.pc = "purge" /\ targets[p] \subseteq live
        /\ live' = live \ targets[p]
        /\ journal' = journal \cup {p}
        /\ Goes("unlink")
        /\ UNCHANGED <<queue, gens, base, delta, stale, control, up, bounds>>

UnlinkDelta ==
    /\ runner.pc = "unlink"
    /\ delta' = NoJob
    /\ Goes("clean")
    /\ UNCHANGED <<queue, live, journal, gens, base, stale, control, up, bounds>>

LoweredBelowZero(n) ==   \* faulty: a resumed purge counts twice
    LET source == marks.source - n
    IN  [source |-> source, indexed |-> Smaller(marks.indexed, source),
         delta |-> Smaller(marks.delta, source)]

LoweredSource(n) == [marks EXCEPT !.source = Larger(0, @ - n)]   \* faulty: the source only

Lowered(n) ==
    LET source == Larger(0, marks.source - n)
    IN  [source |-> source, indexed |-> Smaller(marks.indexed, source),
         delta |-> Smaller(marks.delta, source)]

(* The count comes from the journal, also when the purge is resumed. *)
CleanUp ==
    /\ runner.pc = "clean"
    /\ marks' = Lowered(Cardinality(targets[runner.job]))
    /\ deletion' = [deletion EXCEPT ![runner.job] = "reindexing"]
    /\ Indexes("base", marks'.source)
    /\ UNCHANGED <<queue, store, targets, sweep, up, bounds>>

CompleteDeletion ==
    /\ runner.pc = "complete"
    /\ deletion' = [deletion EXCEPT ![runner.job] = "completed"]
    /\ Goes("end")
    /\ UNCHANGED <<queue, store, marks, targets, sweep, up, bounds>>

-----------------------------------------------------------------------------
(* Generations: build_index, build_delta_index, prune_index_generations *)

Mine == gens[runner.job][runner.kind]

Sealed(kind, files) == {j \in Jobs : files[j][kind].stage = "committed" /\ files[j][kind].kept}

(* faulty: the newest are kept, whatever is active *)
StaysNewest(j, kind, files, active) ==
    Cardinality({i \in Sealed(kind, files) : files[i][kind].at > files[j][kind].at}) < Retention

(* The active generation and the newest others, Retention in all *)
Stays(j, kind, files, active) ==
    \/ j = active
    \/ Cardinality({i \in Sealed(kind, files) \ {j} :
                       i = active \/ files[i][kind].at > files[j][kind].at}) < Retention

Pruned(files, newBase, newDelta) ==
    [j \in Jobs |-> [k \in Kinds |->
        [files[j][k] EXCEPT !.kept =
            @ /\ (j \in Sealed(k, files)
                    => Stays(j, k, files, IF k = "base" THEN newBase ELSE newDelta))]]]

(* The pointer is the last thing written; pruning follows. *)
Activates(newBase, newDelta, old) ==
    /\ base' = newBase /\ delta' = newDelta
    /\ stale' = (old \/ (runner.kind = "delta" /\ stale))
    /\ gens' = Pruned(gens, newBase, newDelta)
    /\ Goes("advance")

(* A stage that has succeeded is not run again. *)
SkipIndex ==
    /\ runner.pc = "index" /\ runner.kind \in done[runner.job]
    /\ Goes(IF runner.job \in Purges THEN "complete" ELSE "end")
    /\ UNCHANGED <<queue, store, control, up, bounds>>

RunsStage == runner.pc = "index" /\ runner.kind \notin done[runner.job] /\ Attempt

(* The commit is not of what is there now, or brings an old delta back.    *)
Outdated ==
    \/ Mine.has # live \/ Mine.covers # runner.target
    \/ runner.kind = "base" /\ delta # NoJob /\ gens[delta]["delta"].over = runner.job

(* The commit of an earlier attempt is activated again, a delta only over  *)
(* the base it extends.                                                    *)
Replay ==
    /\ RunsStage /\ Mine.stage = "committed" /\ Mine.kept
    /\ IF runner.kind = "base" THEN Activates(runner.job, delta, Outdated)
       ELSE Mine.over = base /\ Activates(base, runner.job, Outdated)
    /\ UNCHANGED <<queue, live, journal, control, up, bounds>>

(* No records: the commit says so, then both pointers go. *)
CommitEmpty ==
    /\ RunsStage /\ runner.kind = "base" /\ Mine.stage \notin {"committed", "empty"}
    /\ live = {} /\ runner.target = 0
    /\ gens' = [gens EXCEPT ![runner.job]["base"].stage = "empty"]
    /\ UNCHANGED <<queue, live, journal, base, delta, stale, control, runner, up, bounds>>

ActivateEmpty ==
    /\ RunsStage /\ Mine.stage = "empty"
    /\ Activates(NoJob, NoJob, live # {} \/ runner.target # 0)
    /\ UNCHANGED <<queue, live, journal, control, up, bounds>>

(* faulty: copied from the active generation and extended *)
FreshFromActive ==
    [NoGen EXCEPT !.stage = "copied", !.has = live \cup Served, !.over = base, !.kept = TRUE]

Fresh == [NoGen EXCEPT !.stage = "copied", !.has = live, !.over = base, !.kept = TRUE]

(* A base resumes with the database an earlier attempt has copied; a delta *)
(* always begins a directory of its own.                                   *)
CopyDatabase ==
    LET resumed == runner.kind = "base" /\ Mine.stage # "none"
    IN  /\ RunsStage /\ Mine.stage \notin {"committed", "empty"}
        /\ runner.kind = "base" => live # {}
        /\ runner.kind = "delta" => base # NoJob
        /\ IF resumed THEN UNCHANGED gens
           ELSE gens' = [gens EXCEPT ![runner.job][runner.kind] = Fresh]
        /\ runner' = [runner EXCEPT !.pc = IF resumed /\ Mine.stage = "built" THEN "seal"
                                           ELSE "build",
                                    !.old = resumed /\ Mine.has # live]
        /\ UNCHANGED <<queue, live, journal, base, delta, stale, control, up, bounds>>

Now(kind) == 1 + Cardinality({j \in Jobs : gens[j][kind].at > 0})

BuildIndex ==
    /\ runner.pc = "build"
    /\ gens' = [gens EXCEPT ![runner.job][runner.kind] =
                    [@ EXCEPT !.stage = "built", !.at = Now(runner.kind)]]
    /\ Goes("seal")
    /\ UNCHANGED <<queue, live, journal, base, delta, stale, control, up, bounds>>

Seal ==
    /\ runner.pc = "seal"
    /\ gens' = [gens EXCEPT ![runner.job][runner.kind] =
                    [@ EXCEPT !.stage = "committed", !.covers = runner.target]]
    /\ Goes("activate")
    /\ UNCHANGED <<queue, live, journal, base, delta, stale, control, up, bounds>>

Activate ==
    /\ runner.pc = "activate"
    /\ IF runner.kind = "base" THEN Activates(runner.job, delta, runner.old)
       ELSE Activates(base, runner.job, runner.old)
    /\ UNCHANGED <<queue, live, journal, control, up, bounds>>

(* advance_index_watermark, advance_delta_index_watermark *)
Advance ==
    /\ runner.pc = "advance" /\ runner.target <= marks.source
    /\ runner.kind = "delta" => runner.target >= marks.indexed
    /\ marks' = [marks EXCEPT !.delta = Larger(@, runner.target),
                              !.indexed = IF runner.kind = "delta" THEN @
                                          ELSE Larger(@, runner.target)]
    /\ Goes("close")
    /\ UNCHANGED <<queue, store, deletion, targets, sweep, up, bounds>>

CloseStage ==
    /\ runner.pc = "close" /\ Attempt
    /\ done' = [done EXCEPT ![runner.job] = @ \cup {runner.kind}]
    /\ Goes(IF runner.job \in Purges THEN "complete" ELSE "end")
    /\ UNCHANGED <<rows, head, store, control, up, bounds>>

-----------------------------------------------------------------------------
(* The end of a job *)

Succeed ==
    /\ runner.pc = "end"
    /\ rows' = IF Attempt THEN WithState(runner.job, "succeeded") ELSE rows
    /\ runner' = Resting
    /\ UNCHANGED <<head, done, store, control, up, bounds>>

(* The step the runner is at raises: the attempt is over, the scope is      *)
(* closed, or what the index stage finds does not fit what it asks for.    *)
Refused ==
    LET j == runner.job
    IN  \/ runner.pc \in {"gate", "write", "close"} /\ ~Attempt
        \/ runner.pc = "gate" /\ ~Admitted(j)
        \/ runner.pc = "purge" /\ ~(targets[j] \subseteq live)
        \/ /\ runner.pc = "index" /\ runner.kind \notin done[j]
           /\ \/ ~Attempt
              \/ Mine.stage = "committed" /\ ~Mine.kept
              \/ Mine.stage = "committed" /\ runner.kind = "delta" /\ Mine.over # base
              \/ /\ runner.kind = "base" /\ Mine.stage \notin {"committed", "empty"}
                 /\ live = {} /\ runner.target # 0
              \/ runner.kind = "delta" /\ base = NoJob
        \/ /\ runner.pc = "advance"
           /\ \/ runner.target > marks.source
              \/ runner.kind = "delta" /\ runner.target < marks.indexed

(* Any other step may fail as well.  A purge that fails says so in a       *)
(* transaction of its own.                                                 *)
Fail ==
    /\ runner.pc \notin {"idle", "end", "report", "resume"}
    /\ \/ Refused /\ UNCHANGED faults
       \/ ~Refused /\ faults < MaxFaults /\ faults' = faults + 1
    /\ rows' = IF Attempt THEN WithState(runner.job, "failed") ELSE rows
    /\ runner' = IF Attempt /\ runner.job \in Purges
                 THEN [runner EXCEPT !.pc = "report"] ELSE Resting
    /\ UNCHANGED <<head, done, store, control, up, requests>>

Report ==
    /\ runner.pc = "report"
    /\ deletion' = [deletion EXCEPT ![runner.job] = "failed"]
    /\ runner' = Resting
    /\ UNCHANGED <<queue, store, marks, targets, sweep, up, bounds>>

-----------------------------------------------------------------------------
(* Crashes and recovery *)

Crash ==
    /\ up /\ faults < MaxFaults
    /\ up' = FALSE /\ faults' = faults + 1
    /\ runner' = Resting /\ sweep' = {}
    /\ UNCHANGED <<queue, store, marks, deletion, targets, requests>>

(* The startup preflight audits every scope that is listed. *)
Start ==
    /\ ~up /\ Audited
    /\ up' = TRUE
    /\ UNCHANGED <<queue, store, control, runner, bounds>>

(* recover_abandoned_jobs, once the lease has expired and under the        *)
(* execution lock: the attempt fails in one transaction and is requeued in *)
(* the next.                                                               *)
Recover(j) ==
    /\ up /\ runner.pc = "idle" /\ rows[j].state = "running"
    /\ rows' = WithState(j, "failed")
    /\ runner' = [Resting EXCEPT !.job = j, !.pc = "resume"]
    /\ UNCHANGED <<head, done, store, control, up, bounds>>

(* resume_failed keeps the sequence number and refuses a row that somebody *)
(* has requeued already.                                                   *)
Requeued(j) == IF rows[j].state = "failed" THEN rows' = WithState(j, "pending") ELSE UNCHANGED rows

(* An ingest is requeued only if its artifacts pass an audit. *)
Resume(safe) ==
    /\ runner.pc = "resume"
    /\ runner.job \notin Ingests => safe
    /\ IF safe THEN Requeued(runner.job) ELSE UNCHANGED rows
    /\ runner' = Resting
    /\ UNCHANGED <<head, done, store, control, up, bounds>>

-----------------------------------------------------------------------------
IndexStep ==
    \/ SkipIndex \/ Replay \/ CommitEmpty \/ ActivateEmpty \/ CopyDatabase
    \/ BuildIndex \/ Seal \/ Activate \/ Advance \/ CloseStage

RunnerStep ==
    \/ Gate \/ Write \/ PurgeRows \/ UnlinkDelta \/ CleanUp \/ CompleteDeletion
    \/ IndexStep
    \/ Succeed \/ Fail \/ Report
    \/ \E safe \in BOOLEAN : Resume(safe)

(* What the one worker does, job after job *)
Work ==
    \/ \E j \in Jobs : Claim(j) \/ Recover(j)
    \/ RunnerStep

Next ==
    \/ \E j \in Ingests \cup Rebuilds : Submit(j)
    \/ \E p \in Purges, events \in SUBSET Ingests : SubmitPurge(p, events)
    \/ \E j \in Jobs : Sweep(j) \/ Cancel(j) \/ Retry(j)
    \/ Work
    \/ Crash \/ Start

Spec == Init /\ [][Next]_vars

(* The service is restarted, its worker runs and recovers for ever; nobody *)
(* has to submit, cancel or retry anything.                                *)
FairSpec ==
    /\ Spec
    /\ WF_vars(Start) /\ WF_vars(Work)
    /\ WF_vars(\E j \in Jobs : Sweep(j))

-----------------------------------------------------------------------------
(* Properties *)

(* Once the deletion is reported as completed and the scope is open again, *)
(* no recall finds a deleted event, whatever indexes were half built when  *)
(* it ran.                                                                 *)
DeletedStaysGone ==
    Open => \A p \in Purges : deletion[p] = "completed" => Served \cap targets[p] = {}

(* It holds as long as no attempt activates what an earlier attempt of its *)
(* job had copied or committed before the native database changed, and it  *)
(* holds again with the next base that is built.                           *)
DeletedUnlessStale == ~stale => DeletedStaysGone

(* The ledger still counts the events of the scope.  It does not once a    *)
(* deletion was resumed after its clean-up, which subtracts them again.    *)
Counted == marks.source = Cardinality(live)

(* "Recall cannot satisfy the advertised watermark" otherwise: no more     *)
(* events are missing from the served indexes than the ledger says are     *)
(* still to be indexed, provided the ledger counts the events and nothing  *)
(* outdated was activated.                                                 *)
LagIsHonest ==
    Open /\ Counted /\ ~stale => Cardinality(live \ Served) <= marks.source - marks.delta

(* Neither a crash between the commit of a generation, its activation and  *)
(* the ledger, nor a deletion, leaves a scope the startup preflight        *)
(* refuses, under the same provisos.                                       *)
AuditPasses == Counted /\ ~stale => Audited

(* An active pointer names a sealed generation that exists, through        *)
(* retention, replayed commits and emptied scopes.                         *)
PointersNameSealed ==
    /\ base # NoJob => base \in Sealed("base", gens)
    /\ delta # NoJob => delta \in Sealed("delta", gens)

(* A job that waits before the purge while the deletion keeps it from      *)
(* being claimed                                                           *)
Overtaken(p) ==
    \E j \in Ingests \cup Rebuilds : rows[j].state = "pending" /\ rows[j].seq < rows[p].seq

(* A deletion comes to an end, also across crashes: it is completed or has *)
(* failed, unless its job is over without it or an earlier job of the      *)
(* scope was requeued before it, which is not claimed while it lasts.      *)
DeletionEnds ==
    \A p \in Purges :
        deletion[p] \in Underway
        ~> \/ deletion[p] \notin Underway
           \/ rows[p].state \in {"failed", "cancelled"}
           \/ Overtaken(p)

=============================================================================
