------------------------ MODULE ContentDeletionProofs ------------------------
(***************************************************************************)
(* Proofs about the deletion of memories and the index generations of a    *)
(* scope, for every number of jobs and every retention.                    *)
(***************************************************************************)
EXTENDS ContentDeletion, FiniteSetTheorems, TLAPS

(* What lies on disk where the runner is: an index under way has not been  *)
(* pruned, and a sealed one is what is activated.                          *)
OnDisk ==
    /\ \A j \in Jobs, k \in Kinds :
          gens[j][k].stage \in {"copied", "built"} => gens[j][k].kept
    /\ runner.pc = "build" => Mine.stage \in {"copied", "built"}
    /\ runner.pc = "seal" => Mine.stage = "built"
    /\ runner.pc = "activate" => Mine.stage = "committed" /\ Mine.kept

(* An ingest writes, a deletion purges. *)
AtWork ==
    /\ runner.pc = "write" => runner.job \in Ingests
    /\ runner.pc \in {"purge", "unlink", "clean", "complete", "report"} => runner.job \in Purges

Typed == TypeOK /\ AtWork

DiskInv == Typed /\ OnDisk /\ PointersNameSealed

-----------------------------------------------------------------------------
(* Types *)

LEMMA Counts ==
    /\ \A S \in SUBSET Ingests : Cardinality(S) \in Nat
    /\ \A S \in SUBSET Jobs : Cardinality(S) \in Nat
<1>1. ASSUME NEW S \in SUBSET Jobs PROVE Cardinality(S) \in Nat
  BY FS_Subset, FS_CardinalityType, ContentDeletionAssumption
<1> QED
  BY <1>1 DEF Jobs

LEMMA TypeQueue ==
    ASSUME Typed, NEW j \in Jobs,
           \/ Submit(j) \/ Sweep(j) \/ Cancel(j) \/ Retry(j) \/ Claim(j)
           \/ \E events \in SUBSET Ingests : j \in Purges /\ SubmitPurge(j, events)
           \/ Recover(j)
    PROVE  Typed'
<1> USE DEF Typed, AtWork, TypeOK, WithState, Enqueued, queue, store, control, bounds
<1>w. ASSUME NEW s \in {"absent", "pending", "running", "succeeded", "failed", "cancelled"}
      PROVE  WithState(j, s) \in [Jobs -> [state: {"absent", "pending", "running", "succeeded",
                                                   "failed", "cancelled"}, seq: Nat]]
  OBVIOUS
<1>1. CASE Submit(j)
  BY <1>1 DEF Submit
<1>2. CASE Sweep(j)
  <2>1. rows' = rows \/ rows' = WithState(j, "cancelled")
    BY <1>2, Zenon DEF Sweep
  <2>2. sweep' \subseteq Jobs
    BY <1>2 DEF Sweep
  <2>3. UNCHANGED <<head, done, store, marks, deletion, targets, runner, up, bounds>>
    BY <1>2 DEF Sweep
  <2> HIDE DEF WithState
  <2> QED
    BY <2>1, <2>2, <2>3, <1>w
<1>3. CASE Cancel(j)
  BY <1>3, ContentDeletionAssumption DEF Cancel
<1>4. CASE Retry(j)
  <2>1. rows' = WithState(j, "pending")
    BY <1>4 DEF Retry
  <2>2. UNCHANGED <<head, done, store, marks, targets, sweep, runner, up, faults>>
    BY <1>4 DEF Retry
  <2>3. deletion' \in [Purges -> Underway \cup {"absent", "completed", "failed"}]
    BY <1>4 DEF Retry, Underway
  <2>4. requests' \in 0..MaxRequests
    BY <1>4, ContentDeletionAssumption DEF Retry
  <2> HIDE DEF WithState
  <2> QED
    BY <2>1, <2>2, <2>3, <2>4, <1>w
<1>5. CASE Claim(j)
  <2>1. /\ runner' = [job |-> j, pc |-> "gate", kind |-> "base", target |-> 0, old |-> FALSE]
        /\ j # NoJob
    BY <1>5, ContentDeletionAssumption DEF Claim, Resting
  <2>2. runner' \in Runner
    BY <2>1 DEF Runner, Kinds
  <2>3. rows' = WithState(j, "running")
        /\ UNCHANGED <<head, done, store, control, up, bounds>>
    BY <1>5 DEF Claim
  <2> QED
    BY <2>1, <2>2, <2>3
<1>6. ASSUME NEW events \in SUBSET Ingests, j \in Purges, SubmitPurge(j, events) PROVE Typed'
  BY <1>6 DEF SubmitPurge, Underway, Jobs
<1>7. CASE Recover(j)
  <2>1. /\ runner' = [job |-> j, pc |-> "resume", kind |-> "base", target |-> 0, old |-> FALSE]
        /\ j # NoJob
    BY <1>7, ContentDeletionAssumption DEF Recover, Resting
  <2>2. runner' \in Runner
    BY <2>1 DEF Runner, Kinds
  <2>3. rows' = WithState(j, "failed") /\ UNCHANGED <<head, done, store, control, up, bounds>>
    BY <1>7 DEF Recover
  <2> QED
    BY <2>1, <2>2, <2>3
<1> QED
  BY <1>1, <1>2, <1>3, <1>4, <1>5, <1>6, <1>7

(* The runner goes on. *)
Steps(new) ==
    /\ runner' = new /\ new \in Runner /\ new.job # NoJob /\ new.pc # "idle"
    /\ new.pc = "write" => new.job \in Ingests
    /\ new.pc \in {"purge", "unlink", "clean", "complete", "report"} => new.job \in Purges

LEMMA RunnerSteps ==
    ASSUME Typed, runner.pc # "idle"
    PROVE  /\ runner.job \in Jobs /\ runner.job # NoJob
           /\ \A pc \in {"gate", "index", "build", "seal", "activate", "advance", "close", "end"} :
                 Goes(pc) => Steps([runner EXCEPT !.pc = pc])
           /\ \A pc \in {"unlink", "clean", "complete", "report", "purge"} :
                 Goes(pc) /\ runner.job \in Purges => Steps([runner EXCEPT !.pc = pc])
           /\ Goes("write") /\ runner.job \in Ingests => Steps([runner EXCEPT !.pc = "write"])
           /\ \A kind \in Kinds, n \in Nat :
                 Indexes(kind, n) => Steps([runner EXCEPT !.pc = "index", !.kind = kind,
                                                          !.target = n])
<1> USE DEF Typed, TypeOK, Goes, Indexes, Steps, Runner
<1>1. runner.job \in Jobs /\ runner.job # NoJob
  OBVIOUS
<1>2. ASSUME NEW pc \in {"gate", "index", "build", "seal", "activate", "advance", "close", "end"},
             Goes(pc)
      PROVE  Steps([runner EXCEPT !.pc = pc])
  BY <1>1, <1>2
<1>3. ASSUME NEW pc \in {"unlink", "clean", "complete", "report", "purge"},
             Goes(pc), runner.job \in Purges
      PROVE  Steps([runner EXCEPT !.pc = pc])
  BY <1>1, <1>3
<1>4. ASSUME Goes("write"), runner.job \in Ingests
      PROVE  Steps([runner EXCEPT !.pc = "write"])
  BY <1>1, <1>4
<1>5. ASSUME NEW kind \in Kinds, NEW n \in Nat, Indexes(kind, n)
      PROVE  Steps([runner EXCEPT !.pc = "index", !.kind = kind, !.target = n])
  BY <1>1, <1>5
<1> HIDE DEF Typed, TypeOK, Goes, Indexes, Steps, Runner
<1> QED
  BY <1>1, <1>2, <1>3, <1>4, <1>5

(* Pruning takes generations away and does nothing else. *)
LEMMA PrunedTypes ==
    ASSUME TypeOK, NEW b, NEW d
    PROVE  /\ Pruned(gens, b, d) \in [Jobs -> [Kinds -> Gen]]
           /\ \A j \in Jobs, k \in Kinds :
                 LET new == Pruned(gens, b, d)[j][k]
                     old == gens[j][k]
                 IN  /\ new.stage = old.stage /\ new.has = old.has /\ new.covers = old.covers
                     /\ new.over = old.over /\ new.at = old.at
                     /\ new.kept = (old.kept /\ (j \in Sealed(k, gens) =>
                                       Stays(j, k, gens, IF k = "base" THEN b ELSE d)))
<1> DEFINE keep(j, k) == gens[j][k].kept /\ (j \in Sealed(k, gens) =>
                            Stays(j, k, gens, IF k = "base" THEN b ELSE d))
<1>1. Pruned(gens, b, d) = [j \in Jobs |-> [k \in Kinds |-> [gens[j][k] EXCEPT !.kept = keep(j, k)]]]
  BY DEF Pruned
<1>2. ASSUME NEW j \in Jobs, NEW k \in Kinds PROVE keep(j, k) \in BOOLEAN
  <2>1. CASE keep(j, k)
    <3> HIDE DEF keep
    <3>1. keep(j, k) = TRUE
      BY <2>1, Zenon
    <3> QED
      BY <3>1
  <2>2. CASE ~keep(j, k)
    <3>1. keep(j, k) = FALSE
      BY <2>2, Zenon
    <3> HIDE DEF keep
    <3> QED
      BY <3>1
  <2> QED
    BY <2>1, <2>2, Zenon
<1> HIDE DEF keep
<1>3. \A j \in Jobs, k \in Kinds :
         /\ [gens[j][k] EXCEPT !.kept = keep(j, k)] \in Gen
         /\ [gens[j][k] EXCEPT !.kept = keep(j, k)].kept = keep(j, k)
  <2>1. \A g \in Gen, v \in BOOLEAN :
           [g EXCEPT !.kept = v] \in Gen /\ [g EXCEPT !.kept = v].kept = v
    BY DEF Gen
  <2>2. \A j \in Jobs, k \in Kinds : gens[j][k] \in Gen
    BY DEF TypeOK
  <2>3. ASSUME NEW j \in Jobs, NEW k \in Kinds
        PROVE  [gens[j][k] EXCEPT !.kept = keep(j, k)] \in Gen
               /\ [gens[j][k] EXCEPT !.kept = keep(j, k)].kept = keep(j, k)
    <3>1. gens[j][k] \in Gen /\ keep(j, k) \in BOOLEAN
      BY <1>2, <2>2
    <3> QED
      BY <2>1, <3>1, Zenon
  <2> QED
    BY <2>3, Zenon
<1>4. \A j \in Jobs, k \in Kinds :
         Pruned(gens, b, d)[j][k] = [gens[j][k] EXCEPT !.kept = keep(j, k)]
  <2> DEFINE new(j, k) == [gens[j][k] EXCEPT !.kept = keep(j, k)]
  <2>1. Pruned(gens, b, d) = [j \in Jobs |-> [k \in Kinds |-> new(j, k)]]
    BY <1>1, Zenon
  <2> HIDE DEF new
  <2>2. \A j \in Jobs, k \in Kinds : Pruned(gens, b, d)[j][k] = new(j, k)
    BY <2>1
  <2> QED
    BY <2>2, Zenon DEF new
<1>5. Pruned(gens, b, d) \in [Jobs -> [Kinds -> Gen]]
  BY <1>1, <1>3
<1>6. \A j \in Jobs, k \in Kinds :
         LET new == [gens[j][k] EXCEPT !.kept = keep(j, k)]
             old == gens[j][k]
         IN  /\ new.stage = old.stage /\ new.has = old.has /\ new.covers = old.covers
             /\ new.over = old.over /\ new.at = old.at
  BY DEF TypeOK, Gen
<1>7. ASSUME NEW j \in Jobs, NEW k \in Kinds
      PROVE  LET new == Pruned(gens, b, d)[j][k]
                 old == gens[j][k]
             IN  /\ new.stage = old.stage /\ new.has = old.has /\ new.covers = old.covers
                 /\ new.over = old.over /\ new.at = old.at
                 /\ new.kept = keep(j, k)
  <2>1. Pruned(gens, b, d)[j][k] = [gens[j][k] EXCEPT !.kept = keep(j, k)]
    BY <1>4
  <2> QED
    BY <1>3, <1>6, <2>1
<1> QED
  BY <1>5, <1>7, Zenon DEF keep

LEMMA TypeRunner == ASSUME Typed, RunnerStep PROVE Typed'
<1> DEFINE r == runner.job
<1> USE DEF queue, store, control, bounds
<1>p. runner.pc # "idle"
  BY DEF RunnerStep, Gate, Write, PurgeRows, UnlinkDelta, CleanUp, CompleteDeletion, IndexStep,
         SkipIndex, Replay, CommitEmpty, ActivateEmpty, CopyDatabase, BuildIndex, Seal, Activate,
         Advance, CloseStage, Succeed, Fail, Report, RunsStage, Resume
<1>r. r \in Jobs /\ r # NoJob
  BY <1>p, RunnerSteps
<1>t. ASSUME \/ \E new : Steps(new)
             \/ runner' = Resting
             \/ UNCHANGED runner
      PROVE  runner' \in Runner /\ (runner'.job = NoJob <=> runner'.pc = "idle") /\ AtWork'
  <2>1. CASE \E new : Steps(new)
    BY <2>1 DEF Steps, AtWork
  <2>2. CASE runner' = Resting
    BY <2>2 DEF Resting, Runner, Kinds, AtWork
  <2>3. CASE UNCHANGED runner
    BY <2>3 DEF AtWork, Typed, TypeOK
  <2> QED
    BY <1>t, <2>1, <2>2, <2>3
<1>s. ASSUME NEW s \in {"succeeded", "failed"}, rows' = IF Attempt THEN WithState(r, s) ELSE rows
      PROVE  rows' \in [Jobs -> [state: {"absent", "pending", "running", "succeeded",
                                         "failed", "cancelled"}, seq: Nat]]
  <2> DEFINE Row == [state: {"absent", "pending", "running", "succeeded", "failed",
                             "cancelled"}, seq: Nat]
             row == [rows[r] EXCEPT !.state = s]
  <2>1. rows' = rows \/ rows' = WithState(r, s)
    BY <1>s, Zenon
  <2>2. WithState(r, s) = [rows EXCEPT ![r] = row]
    BY DEF WithState
  <2>3. rows \in [Jobs -> Row]
    BY DEF Typed, TypeOK
  <2>4. row \in Row
    BY <1>r, <2>3
  <2> HIDE DEF row, Row
  <2>5. [rows EXCEPT ![r] = row] \in [Jobs -> Row]
    BY <1>r, <2>3, <2>4
  <2>6. rows' \in [Jobs -> Row]
    BY <2>1, <2>2, <2>3, <2>5
  <2> QED
    BY <2>6 DEF Row
<1>m. marks.source \in Nat /\ marks.indexed \in Nat /\ marks.delta \in Nat
  BY DEF Typed, TypeOK
<1>10. ASSUME NEW safe \in BOOLEAN, Resume(safe) PROVE Typed'
  <2>1. rows' = rows \/ rows' = WithState(r, "pending")
    BY <1>10, Zenon DEF Resume, Requeued
  <2>2. WithState(r, "pending") \in [Jobs -> [state: {"absent", "pending", "running",
                                       "succeeded", "failed", "cancelled"}, seq: Nat]]
    BY <1>r DEF WithState, Typed, TypeOK
  <2>3. runner' = Resting /\ UNCHANGED <<head, done, store, control, up, bounds>>
    BY <1>10 DEF Resume
  <2> QED
    BY <2>1, <2>2, <2>3, <1>t DEF Typed, TypeOK
<1>1. CASE Gate
  <2>1. \E new : Steps(new)
    <3>1. CASE r \in Purges
      BY <1>1, <3>1, <1>p, RunnerSteps DEF Gate
    <3>2. CASE r \in Ingests /\ r \notin Purges
      BY <1>1, <3>2, <1>p, RunnerSteps DEF Gate
    <3>3. CASE r \notin Ingests /\ r \notin Purges
      BY <1>1, <3>3, <1>p, <1>m, RunnerSteps DEF Gate, Kinds
    <3> QED
      BY <3>1, <3>2, <3>3
  <2>2. deletion' \in [Purges -> Underway \cup {"absent", "completed", "failed"}]
    BY <1>1 DEF Gate, Underway, Typed, TypeOK
  <2> QED
    BY <1>1, <1>t, <2>1, <2>2 DEF Gate, Typed, TypeOK
<1>2. CASE Write
  <2> DEFINE n == IF "writer" \notin done[r] THEN marks.source + 1 ELSE marks.source
             k == IF base = NoJob THEN "base" ELSE "delta"
  <2>1. n \in Nat /\ k \in Kinds
    BY <1>m DEF Kinds
  <2>2. marks' = [marks EXCEPT !.source = n] /\ Indexes(k, n)
    BY <1>2 DEF Write
  <2> HIDE DEF n, k
  <2>3. marks' \in [source: Nat, indexed: Nat, delta: Nat]
    BY <2>1, <2>2 DEF Typed, TypeOK
  <2>4. \E new : Steps(new)
    BY <2>1, <2>2, <1>p, RunnerSteps
  <2>5. done' \in [Jobs -> SUBSET (Kinds \cup {"writer"})]
    BY <1>2 DEF Write, Typed, TypeOK
  <2>6. live' \subseteq Ingests
    BY <1>2 DEF Write, Typed, TypeOK, AtWork
  <2> QED
    BY <1>2, <1>t, <2>3, <2>4, <2>5, <2>6 DEF Write, Typed, TypeOK
<1>3. CASE PurgeRows \/ UnlinkDelta
  <2>1. r \in Purges
    BY <1>3 DEF PurgeRows, UnlinkDelta, Typed, AtWork
  <2>2. \E new : Steps(new)
    BY <1>3, <2>1, <1>p, RunnerSteps DEF PurgeRows, UnlinkDelta
  <2> QED
    BY <1>3, <2>1, <2>2, <1>t DEF PurgeRows, UnlinkDelta, Typed, TypeOK
<1>4. CASE CleanUp
  <2>1. r \in Purges /\ Cardinality(targets[r]) \in Nat
    BY <1>4, Counts DEF CleanUp, Typed, AtWork, TypeOK
  <2>2. marks' \in [source: Nat, indexed: Nat, delta: Nat]
    BY <1>4, <1>m, <2>1 DEF CleanUp, Lowered, Larger, Smaller
  <2>3. \E new : Steps(new)
    <3>1. marks'.source \in Nat
      BY <2>2
    <3> QED
      BY <1>4, <3>1, <1>p, RunnerSteps DEF CleanUp, Kinds
  <2>4. deletion' \in [Purges -> Underway \cup {"absent", "completed", "failed"}]
    BY <1>4 DEF CleanUp, Underway, Typed, TypeOK
  <2> QED
    BY <1>4, <2>2, <2>3, <2>4, <1>t DEF CleanUp, Typed, TypeOK
<1>5. CASE CompleteDeletion
  <2>1. \E new : Steps(new)
    BY <1>5, <1>p, RunnerSteps DEF CompleteDeletion
  <2>2. deletion' \in [Purges -> Underway \cup {"absent", "completed", "failed"}]
    BY <1>5 DEF CompleteDeletion, Underway, Typed, TypeOK
  <2> QED
    BY <1>5, <2>1, <2>2, <1>t DEF CompleteDeletion, Typed, TypeOK
<1>6. CASE IndexStep
  <2> DEFINE Rest == UNCHANGED <<rows, head, live, journal, deletion, targets, sweep, up,
                                 faults, requests>>
  <2>a. ASSUME NEW b \in Jobs \cup {NoJob}, NEW d \in Jobs \cup {NoJob}, NEW e \in BOOLEAN,
               Activates(b, d, e), Rest, UNCHANGED <<done, marks>>
        PROVE  Typed'
    <3>1. \E new : Steps(new)
      BY <2>a, <1>p, RunnerSteps DEF Activates
    <3>2. gens' \in [Jobs -> [Kinds -> Gen]]
      BY <2>a, PrunedTypes DEF Activates, Typed
    <3>3. base' = b /\ delta' = d /\ stale' \in BOOLEAN
      BY <2>a DEF Activates
    <3> HIDE DEF Rest
    <3>4. Rest
      BY <2>a
    <3> USE DEF Rest
    <3> QED
      BY <2>a, <3>1, <3>2, <3>3, <3>4, <1>t DEF Typed, TypeOK
  <2>k. runner.kind \in Kinds /\ runner.target \in Nat
    BY DEF Typed, TypeOK, Runner
  <2>g. ASSUME NEW gen \in Gen, gens' = [gens EXCEPT ![r][runner.kind] = gen],
               Rest, UNCHANGED <<done, marks, base, delta, stale>>,
               (\E new : Steps(new)) \/ UNCHANGED runner
        PROVE  Typed'
    <3>1. gens' \in [Jobs -> [Kinds -> Gen]]
      BY <2>g, <1>r, <2>k DEF Typed, TypeOK
    <3> QED
      BY <2>g, <3>1, <1>t DEF Typed, TypeOK
  <2>o. Mine \in Gen
    BY <1>r, <2>k DEF Typed, TypeOK, Mine
  <2>1. CASE SkipIndex \/ CloseStage
    <3>1. \E new : Steps(new)
      <4>1. CASE r \in Purges
        BY <2>1, <4>1, <1>p, RunnerSteps DEF SkipIndex, CloseStage
      <4>2. CASE r \notin Purges
        BY <2>1, <4>2, <1>p, RunnerSteps DEF SkipIndex, CloseStage
      <4> QED
        BY <4>1, <4>2
    <3>2. done' \in [Jobs -> SUBSET (Kinds \cup {"writer"})]
      <4>1. done \in [Jobs -> SUBSET (Kinds \cup {"writer"})]
        BY DEF Typed, TypeOK
      <4>2. CASE SkipIndex
        BY <4>1, <4>2 DEF SkipIndex
      <4>3. CASE CloseStage
        BY <4>1, <4>3, <2>k DEF CloseStage
      <4> QED
        BY <2>1, <4>2, <4>3
    <3>3. UNCHANGED <<rows, head, store, control, up, bounds>>
      BY <2>1 DEF SkipIndex, CloseStage
    <3> QED
      BY <3>1, <3>2, <3>3, <1>t DEF Typed, TypeOK
  <2>2. CASE Replay \/ ActivateEmpty \/ Activate
    <3>1. Rest /\ UNCHANGED <<done, marks>>
      BY <2>2 DEF Replay, ActivateEmpty, Activate
    <3>2. \E b \in {base, r, NoJob}, d \in {delta, r, NoJob}, e \in BOOLEAN : Activates(b, d, e)
      <4>1. Outdated \in BOOLEAN /\ (live # {} \/ runner.target # 0) \in BOOLEAN
            /\ runner.old \in BOOLEAN
        BY DEF Outdated, Typed, TypeOK, Runner
      <4>2. CASE Replay
        BY <4>1, <4>2 DEF Replay
      <4>3. CASE ActivateEmpty
        BY <4>1, <4>3 DEF ActivateEmpty
      <4>4. CASE Activate
        BY <4>1, <4>4 DEF Activate
      <4> QED
        BY <2>2, <4>2, <4>3, <4>4
    <3> HIDE DEF Rest
    <3>3. PICK b \in {base, r, NoJob}, d \in {delta, r, NoJob}, e \in BOOLEAN :
             Activates(b, d, e)
      BY <3>2
    <3>4. b \in Jobs \cup {NoJob} /\ d \in Jobs \cup {NoJob}
      BY <1>r DEF Typed, TypeOK
    <3> QED
      BY <3>1, <3>3, <3>4, <2>a
  <2>3. CASE CommitEmpty
    <3>1. [Mine EXCEPT !.stage = "empty"] \in Gen
      BY <2>o DEF Gen
    <3>2. gens' = [gens EXCEPT ![r][runner.kind] = [Mine EXCEPT !.stage = "empty"]]
      BY <2>3, <1>r, <2>k DEF CommitEmpty, Mine, Typed, TypeOK
    <3>3. Rest /\ UNCHANGED <<done, marks, base, delta, stale, runner>>
      BY <2>3 DEF CommitEmpty
    <3> HIDE DEF Rest
    <3> QED
      BY <2>g, <3>1, <3>2, <3>3
  <2>4. CASE CopyDatabase
    <3>1. \E new : Steps(new)
      <4>1. PICK pc \in {"seal", "build"}, old \in BOOLEAN :
               runner' = [runner EXCEPT !.pc = pc, !.old = old]
        <5>1. (runner.kind = "base" /\ Mine.stage # "none" /\ Mine.has # live) \in BOOLEAN
          OBVIOUS
        <5> QED
          BY <2>4, <5>1 DEF CopyDatabase
      <4>2. Steps([runner EXCEPT !.pc = pc, !.old = old])
        BY <4>1, <1>r DEF Steps, Runner, Typed, TypeOK
      <4> QED
        BY <4>2
    <3>2. Fresh \in Gen
      BY DEF Fresh, NoGen, Gen, Typed, TypeOK
    <3>3. gens' = gens \/ gens' = [gens EXCEPT ![r][runner.kind] = Fresh]
      BY <2>4 DEF CopyDatabase
    <3>4. Rest /\ UNCHANGED <<done, marks, base, delta, stale>>
      BY <2>4 DEF CopyDatabase
    <3>5. CASE gens' = gens
      BY <3>1, <3>4, <3>5, <1>t DEF Typed, TypeOK
    <3> HIDE DEF Rest
    <3> QED
      BY <2>g, <3>1, <3>2, <3>3, <3>4, <3>5
  <2>5. CASE BuildIndex \/ Seal
    <3>1. \E new : Steps(new)
      BY <2>5, <1>p, RunnerSteps DEF BuildIndex, Seal
    <3>2. Rest /\ UNCHANGED <<done, marks, base, delta, stale>>
      BY <2>5 DEF BuildIndex, Seal
    <3>3. Now(runner.kind) \in Nat
      BY Counts DEF Now
    <3>4. \E gen \in Gen : gens' = [gens EXCEPT ![r][runner.kind] = gen]
      <4>1. [Mine EXCEPT !.stage = "built", !.at = Now(runner.kind)] \in Gen
            /\ [Mine EXCEPT !.stage = "committed", !.covers = runner.target] \in Gen
        BY <2>o, <2>k, <3>3 DEF Gen
      <4> QED
        BY <2>5, <4>1 DEF BuildIndex, Seal, Mine
    <3> HIDE DEF Rest
    <3> QED
      BY <2>g, <3>1, <3>2, <3>4
  <2>6. CASE Advance
    <3>1. \E new : Steps(new)
      BY <2>6, <1>p, RunnerSteps DEF Advance
    <3>2. marks' \in [source: Nat, indexed: Nat, delta: Nat]
      BY <2>6, <1>m, <2>k DEF Advance, Larger, Typed, TypeOK
    <3> QED
      BY <2>6, <3>1, <3>2, <1>t DEF Advance, Typed, TypeOK
  <2> QED
    BY <1>6, <2>1, <2>2, <2>3, <2>4, <2>5, <2>6 DEF IndexStep
<1>7. CASE Succeed
  BY <1>7, <1>s, <1>t DEF Succeed, Typed, TypeOK
<1>8. CASE Fail
  <2>1. (\E new : Steps(new)) \/ runner' = Resting
    BY <1>8, <1>p, RunnerSteps DEF Fail, Goes
  <2>2. faults' \in 0..MaxFaults
    BY <1>8, ContentDeletionAssumption DEF Fail, Typed, TypeOK
  <2> QED
    BY <1>8, <2>1, <2>2, <1>s, <1>t DEF Fail, Typed, TypeOK
<1>9. CASE Report
  <2>1. deletion' \in [Purges -> Underway \cup {"absent", "completed", "failed"}]
    BY <1>9 DEF Report, Underway, Typed, TypeOK
  <2> QED
    BY <1>9, <2>1, <1>t DEF Report, Typed, TypeOK
<1> QED
  BY <1>1, <1>2, <1>3, <1>4, <1>5, <1>6, <1>7, <1>8, <1>9, <1>10 DEF RunnerStep

LEMMA InitTypes == Init => Typed
<1> SUFFICES ASSUME Init PROVE Typed
  OBVIOUS
<1>1. gens \in [Jobs -> [Kinds -> Gen]]
  BY DEF Init, Gen, NoGen, Kinds
<1>2. runner \in Runner /\ (runner.job = NoJob <=> runner.pc = "idle") /\ AtWork
  BY DEF Init, Resting, Runner, Kinds, AtWork
<1>3. /\ rows \in [Jobs -> [state: {"absent", "pending", "running", "succeeded",
                                    "failed", "cancelled"}, seq: Nat]]
      /\ head \in Nat \ {0} /\ done \in [Jobs -> SUBSET (Kinds \cup {"writer"})]
      /\ marks \in [source: Nat, indexed: Nat, delta: Nat]
  BY DEF Init
<1>4. /\ live \subseteq Ingests /\ journal \subseteq Purges /\ sweep \subseteq Jobs
      /\ base \in Jobs \cup {NoJob} /\ delta \in Jobs \cup {NoJob}
      /\ stale \in BOOLEAN /\ up \in BOOLEAN
      /\ deletion \in [Purges -> Underway \cup {"absent", "completed", "failed"}]
      /\ targets \in [Purges -> SUBSET Ingests]
  BY DEF Init
<1>5. faults \in 0..MaxFaults /\ requests \in 0..MaxRequests
  BY ContentDeletionAssumption DEF Init
<1> QED
  BY <1>1, <1>2, <1>3, <1>4, <1>5 DEF Typed, TypeOK

LEMMA TypeKept == Typed /\ [Next]_vars => Typed'
<1> SUFFICES ASSUME Typed, [Next]_vars PROVE Typed'
  OBVIOUS
<1> USE DEF queue, store, control, bounds
<1>1. CASE Crash
  <2>1. runner' \in Runner /\ (runner'.job = NoJob <=> runner'.pc = "idle") /\ AtWork'
    BY <1>1 DEF Crash, Resting, Runner, Kinds, AtWork
  <2>2. faults' \in 0..MaxFaults
    BY <1>1, ContentDeletionAssumption DEF Crash, Typed, TypeOK
  <2> QED
    BY <1>1, <2>1, <2>2 DEF Crash, Typed, TypeOK
<1>2. CASE Start
  BY <1>2 DEF Start, Typed, TypeOK, AtWork
<1>3. CASE UNCHANGED vars
  BY <1>3 DEF vars, Typed, TypeOK, AtWork
<1>4. CASE RunnerStep
  BY <1>4, TypeRunner
<1>5. ASSUME NEW p \in Purges, NEW events \in SUBSET Ingests, SubmitPurge(p, events) PROVE Typed'
  BY <1>5, TypeQueue DEF Jobs
<1>6. ASSUME NEW j \in Ingests \cup Rebuilds, Submit(j) PROVE Typed'
  BY <1>6, TypeQueue DEF Jobs
<1> QED
  BY <1>1, <1>2, <1>3, <1>4, <1>5, <1>6, TypeQueue DEF Next, Work

(* The rows, pointers, watermarks and stages have their types in every     *)
(* state, with the runner a step of a job of its kind.                     *)
THEOREM DeletionTypes == Spec => []TypeOK
<1>1. Typed => TypeOK
  BY DEF Typed
<1> QED
  BY InitTypes, TypeKept, <1>1, PTL DEF Spec

-----------------------------------------------------------------------------
(* Pointers *)

(* A runner that is not about to build, seal or activate has no claim on   *)
(* the files.                                                              *)
LEMMA FilesAlone ==
    ASSUME DiskInv, UNCHANGED <<gens, base, delta>>,
           runner' = runner \/ runner'.pc \notin {"build", "seal", "activate"}
    PROVE  OnDisk' /\ PointersNameSealed'
  BY DEF DiskInv, OnDisk, PointersNameSealed, Sealed, Mine

(* Activation prunes, and keeps what it activates and what stays active.   *)
LEMMA ActivationKeeps ==
    ASSUME DiskInv, NEW b \in Jobs \cup {NoJob}, NEW d \in Jobs \cup {NoJob}, NEW e,
           Activates(b, d, e),
           b # NoJob => b \in Sealed("base", gens),
           d # NoJob => d \in Sealed("delta", gens)
    PROVE  OnDisk' /\ PointersNameSealed'
<1> DEFINE was(j, k) == gens[j][k]
           is(j, k) == gens'[j][k]
<1>1. ASSUME NEW j \in Jobs, NEW k \in Kinds
      PROVE  /\ is(j, k).stage = was(j, k).stage
             /\ j \notin Sealed(k, gens) => is(j, k).kept = was(j, k).kept
             /\ j = (IF k = "base" THEN b ELSE d) => is(j, k).kept = was(j, k).kept
  <2>1. gens' = Pruned(gens, b, d)
    BY DEF Activates
  <2>2. /\ is(j, k).stage = was(j, k).stage
        /\ is(j, k).kept = (was(j, k).kept /\ (j \in Sealed(k, gens) =>
              Stays(j, k, gens, IF k = "base" THEN b ELSE d)))
    BY <2>1, PrunedTypes DEF DiskInv, Typed
  <2>3. was(j, k).kept \in BOOLEAN
    BY DEF DiskInv, Typed, TypeOK, Gen
  <2>4. CASE j \notin Sealed(k, gens)
    BY <2>2, <2>3, <2>4, Zenon
  <2>5. ASSUME j = (IF k = "base" THEN b ELSE d) PROVE is(j, k).kept = was(j, k).kept
    <3>1. Stays(j, k, gens, IF k = "base" THEN b ELSE d)
      BY <2>5 DEF Stays
    <3> QED
      BY <2>2, <2>3, <3>1, Zenon
  <2> QED
    BY <2>2, <2>4, <2>5, Zenon
<1>2. runner'.pc = "advance" /\ base' = b /\ delta' = d
  BY DEF Activates, Goes, DiskInv, Typed, TypeOK, Runner
<1>3. \A j \in Jobs, k \in Kinds :
         gens'[j][k].stage \in {"copied", "built"} => gens'[j][k].kept
  BY <1>1 DEF DiskInv, OnDisk, Sealed
<1>4. PointersNameSealed'
  BY <1>1, <1>2 DEF PointersNameSealed, Sealed, Kinds
<1> QED
  BY <1>2, <1>3, <1>4 DEF OnDisk

(* A generation is written only while it is not sealed, so no pointer      *)
(* names it.                                                               *)
LEMMA WritingKeeps ==
    ASSUME DiskInv, NEW gen \in Gen, runner.pc # "idle",
           gens' = [gens EXCEPT ![runner.job][runner.kind] = gen],
           UNCHANGED <<base, delta>>,
           Mine.stage # "committed",
           gen.stage \in {"copied", "built", "committed"} => gen.kept,
           runner'.job = runner.job /\ runner'.kind = runner.kind,
           runner'.pc = "build" => gen.stage \in {"copied", "built"},
           runner'.pc = "seal" => gen.stage = "built",
           runner'.pc = "activate" => gen.stage = "committed"
    PROVE  OnDisk' /\ PointersNameSealed'
<1>1. runner.job \in Jobs /\ runner.kind \in Kinds
  BY DEF DiskInv, Typed, TypeOK, Runner
<1>2. \A j \in Jobs, k \in Kinds :
         gens'[j][k] = IF j = runner.job /\ k = runner.kind THEN gen ELSE gens[j][k]
  BY <1>1 DEF DiskInv, Typed, TypeOK
<1>3. Mine' = gen
  BY <1>1, <1>2 DEF Mine
<1>4. OnDisk'
  BY <1>2, <1>3 DEF DiskInv, OnDisk
<1>5. ASSUME NEW j \in Jobs, NEW k \in Kinds, j \in Sealed(k, gens) PROVE j \in Sealed(k, gens)'
  BY <1>2, <1>5 DEF Sealed, Mine
<1> QED
  BY <1>4, <1>5 DEF DiskInv, PointersNameSealed, Sealed, Kinds

LEMMA IndexKeeps ==
    ASSUME DiskInv, IndexStep PROVE OnDisk' /\ PointersNameSealed'
<1> DEFINE r == runner.job
<1>r. r \in Jobs /\ runner.kind \in Kinds /\ runner \in Runner /\ Mine \in Gen
      /\ base \in Jobs \cup {NoJob} /\ delta \in Jobs \cup {NoJob} /\ runner.pc # "idle"
  BY DEF DiskInv, Typed, TypeOK, Runner, Mine, IndexStep, SkipIndex, Replay, CommitEmpty,
         ActivateEmpty, CopyDatabase, BuildIndex, Seal, Activate, Advance, CloseStage, RunsStage
<1>g. gens \in [Jobs -> [Kinds -> Gen]]
  BY DEF DiskInv, Typed, TypeOK
<1>p. /\ base # NoJob => base \in Sealed("base", gens)
      /\ delta # NoJob => delta \in Sealed("delta", gens)
  BY DEF DiskInv, PointersNameSealed
<1>1. CASE SkipIndex \/ Advance \/ CloseStage
  <2>1. UNCHANGED <<gens, base, delta>>
        /\ (\/ Goes("complete") \/ Goes("end") \/ Goes("close"))
    BY <1>1 DEF SkipIndex, Advance, CloseStage, store
  <2>2. runner'.pc \notin {"build", "seal", "activate"}
    BY <2>1, <1>r DEF Goes, Runner
  <2> QED
    BY <2>1, <2>2, FilesAlone
<1>2. CASE Replay \/ Activate
  <2>1. r \in Sealed(runner.kind, gens)
    <3>1. Mine.stage = "committed" /\ Mine.kept
      BY <1>2 DEF Replay, Activate, DiskInv, OnDisk
    <3> QED
      BY <3>1, <1>r DEF Sealed, Mine
  <2>2. \E e : \/ runner.kind = "base" /\ Activates(r, delta, e)
               \/ runner.kind = "delta" /\ Activates(base, r, e)
    BY <1>2, <1>r DEF Replay, Activate, Kinds
  <2> QED
    BY <2>1, <2>2, <1>r, <1>p, ActivationKeeps
<1>3. CASE ActivateEmpty
  <2>1. \E e : Activates(NoJob, NoJob, e)
    BY <1>3 DEF ActivateEmpty
  <2> QED
    BY <2>1, ActivationKeeps
<1>4. CASE CommitEmpty
  <2> DEFINE gen == [Mine EXCEPT !.stage = "empty"]
  <2>1. gen \in Gen /\ gen.stage = "empty"
    BY <1>r DEF Gen
  <2>2. gens' = [gens EXCEPT ![r][runner.kind] = gen]
    BY <1>4, <1>r, <1>g DEF CommitEmpty, Mine
  <2>3. UNCHANGED <<base, delta, runner>> /\ Mine.stage # "committed" /\ runner.pc = "index"
    BY <1>4 DEF CommitEmpty, RunsStage
  <2> HIDE DEF gen
  <2> QED
    BY <2>1, <2>2, <2>3, WritingKeeps
<1>5. CASE CopyDatabase
  <2>1. /\ UNCHANGED <<base, delta>> /\ Mine.stage \notin {"committed", "empty"}
        /\ \E old : runner' = [runner EXCEPT !.old = old,
                          !.pc = IF runner.kind = "base" /\ Mine.stage = "built" THEN "seal"
                                                                                 ELSE "build"]
    <3>1. (runner.kind = "base" /\ Mine.stage # "none" /\ Mine.stage = "built")
             <=> (runner.kind = "base" /\ Mine.stage = "built")
      OBVIOUS
    <3> QED
      BY <1>5, <3>1 DEF CopyDatabase
  <2>2. runner'.job = r /\ runner'.kind = runner.kind
        /\ runner'.pc = (IF runner.kind = "base" /\ Mine.stage = "built" THEN "seal" ELSE "build")
    BY <2>1, <1>r DEF Runner
  <2>3. CASE runner.kind = "base" /\ Mine.stage # "none"
    <3>1. UNCHANGED gens
      BY <1>5, <2>3 DEF CopyDatabase
    <3>2. Mine' = Mine /\ Mine.stage \in {"copied", "built"}
      BY <2>1, <2>2, <2>3, <3>1, <1>r DEF Mine, Gen
    <3> QED
      BY <2>1, <2>2, <2>3, <3>1, <3>2 DEF DiskInv, OnDisk, PointersNameSealed, Sealed
  <2>4. CASE ~(runner.kind = "base" /\ Mine.stage # "none")
    <3>1. gens' = [gens EXCEPT ![r][runner.kind] = Fresh]
      BY <1>5, <2>4 DEF CopyDatabase
    <3>2. Fresh \in Gen /\ Fresh.stage = "copied" /\ Fresh.kept
      BY DEF Fresh, NoGen, Gen, DiskInv, Typed, TypeOK
    <3>3. runner'.pc = "build"
      BY <2>2, <2>4
    <3> QED
      BY <2>1, <2>2, <3>1, <3>2, <3>3, <1>r, WritingKeeps
  <2> QED
    BY <2>3, <2>4
<1>6. CASE BuildIndex
  <2> DEFINE gen == [Mine EXCEPT !.stage = "built", !.at = Now(runner.kind)]
  <2>1. gens' = [gens EXCEPT ![r][runner.kind] = gen]
    BY <1>6 DEF BuildIndex, Mine
  <2>2. Mine.stage \in {"copied", "built"} /\ Mine.kept
    BY <1>6, <1>r DEF BuildIndex, DiskInv, OnDisk, Mine
  <2>3. gen \in Gen /\ gen.stage = "built" /\ gen.kept
    <3>1. Now(runner.kind) \in Nat
      BY Counts DEF Now
    <3> QED
      BY <2>2, <3>1, <1>r DEF Gen
  <2>4. UNCHANGED <<base, delta>> /\ runner'.job = r /\ runner'.kind = runner.kind
        /\ runner'.pc = "seal"
    BY <1>6, <1>r DEF BuildIndex, Goes, Runner
  <2> HIDE DEF gen
  <2> QED
    BY <2>1, <2>2, <2>3, <2>4, <1>r, WritingKeeps
<1>7. CASE Seal
  <2> DEFINE gen == [Mine EXCEPT !.stage = "committed", !.covers = runner.target]
  <2>1. gens' = [gens EXCEPT ![r][runner.kind] = gen]
    BY <1>7 DEF Seal, Mine
  <2>2. Mine.stage = "built" /\ Mine.kept
    BY <1>7, <1>r DEF Seal, DiskInv, OnDisk, Mine
  <2>3. gen \in Gen /\ gen.stage = "committed" /\ gen.kept
    BY <2>2, <1>r DEF Gen, Runner
  <2>4. UNCHANGED <<base, delta>> /\ runner'.job = r /\ runner'.kind = runner.kind
        /\ runner'.pc = "activate"
    BY <1>7, <1>r DEF Seal, Goes, Runner
  <2> HIDE DEF gen
  <2> QED
    BY <2>1, <2>2, <2>3, <2>4, <1>r, WritingKeeps
<1> QED
  BY <1>1, <1>2, <1>3, <1>4, <1>5, <1>6, <1>7 DEF IndexStep

LEMMA DiskKept == DiskInv /\ [Next]_vars => DiskInv'
<1> SUFFICES ASSUME DiskInv, [Next]_vars PROVE DiskInv'
  OBVIOUS
<1>1. Typed'
  BY TypeKept DEF DiskInv
<1>2. CASE IndexStep
  BY <1>1, <1>2, IndexKeeps DEF DiskInv
<1>3. CASE ~IndexStep
  <2>1. UNCHANGED <<gens, base>> /\ (UNCHANGED delta \/ delta' = NoJob)
    BY <1>3 DEF Next, vars, Submit, SubmitPurge, Sweep, Cancel, Retry, Claim, Recover, RunnerStep,
                Gate, Write, PurgeRows, UnlinkDelta, CleanUp, CompleteDeletion, Succeed, Fail,
                Report, Crash, Start, Resume, Work, store, queue
  <2>2. runner' = runner \/ runner'.pc \notin {"build", "seal", "activate"}
    <3>1. \/ UNCHANGED runner \/ runner' = Resting
          \/ \E j \in Jobs, pc \in {"gate", "resume"} :
                runner' = [Resting EXCEPT !.job = j, !.pc = pc]
          \/ \E pc \in {"clean", "purge", "write", "unlink", "end", "report"} : Goes(pc)
          \/ \E kind, n : Indexes(kind, n)
      BY <1>3 DEF Next, vars, Submit, SubmitPurge, Sweep, Cancel, Retry, Claim, Recover, RunnerStep,
                  Gate, Write, PurgeRows, UnlinkDelta, CleanUp, CompleteDeletion, Succeed, Fail,
                  Report, Crash, Start, Resume, Work, Goes
    <3>2. runner \in Runner
      BY DEF DiskInv, Typed, TypeOK
    <3>3. ASSUME NEW pc \in {"clean", "purge", "write", "unlink", "end", "report"}, Goes(pc)
          PROVE  runner'.pc = pc
      BY <3>2, <3>3 DEF Goes, Runner
    <3>4. ASSUME NEW kind, NEW n, Indexes(kind, n) PROVE runner'.pc = "index"
      BY <3>2, <3>4 DEF Indexes, Runner
    <3>5. runner' = Resting => runner'.pc = "idle"
      BY DEF Resting
    <3>6. ASSUME NEW j \in Jobs, NEW pc \in {"gate", "resume"},
                 runner' = [Resting EXCEPT !.job = j, !.pc = pc]
          PROVE  runner'.pc = pc
      BY <3>6 DEF Resting
    <3> QED
      BY <3>1, <3>3, <3>4, <3>5, <3>6
  <2>3. CASE UNCHANGED delta
    BY <1>1, <2>1, <2>2, <2>3, FilesAlone DEF DiskInv
  <2>4. CASE delta' = NoJob
    BY <1>1, <2>1, <2>2, <2>4 DEF DiskInv, OnDisk, PointersNameSealed, Sealed, Mine
  <2> QED
    BY <2>1, <2>3, <2>4
<1> QED
  BY <1>2, <1>3

(* An active pointer names a generation that is sealed and still on disk,  *)
(* whatever the retention, however many jobs build, crash, replay their    *)
(* commits, empty the scope and prune after each other.                    *)
THEOREM PointersSealed == Spec => []PointersNameSealed
<1>1. Init => DiskInv
  <2> SUFFICES ASSUME Init PROVE OnDisk /\ PointersNameSealed
    BY InitTypes DEF DiskInv
  <2> QED
    BY DEF Init, OnDisk, PointersNameSealed, NoGen, Resting
<1>2. DiskInv => PointersNameSealed
  BY DEF DiskInv
<1> QED
  BY <1>1, <1>2, DiskKept, PTL DEF Spec

-----------------------------------------------------------------------------
(* What a deletion leaves behind *)

(* No deletion is between its purge and the index it rebuilds. *)
Calm == \A p \in journal : "base" \in done[p]

(* The index of the purge stands: its stage is over, or the pointer is set. *)
Rebuilt(p) ==
    "base" \in done[p] \/ (runner.job = p /\ runner.pc \in {"advance", "close"})

Building == {"build", "seal", "activate"}

Indexing == {"index", "advance", "close"} \cup Building

(* How far a deletion has come *)
Progress ==
    \A p \in Purges :
        /\ rows[p].state = "absent" <=> deletion[p] = "absent"
        /\ deletion[p] # "absent" => targets[p] # {}
        /\ p \in journal => deletion[p] # "absent"
        /\ "base" \in done[p] => p \in journal
        /\ deletion[p] = "completed" => "base" \in done[p]

(* A deletion is registered when those before it are through. *)
OneDeletion ==
    \A p, q \in Purges :
        /\ deletion[p] # "absent" /\ "base" \notin done[p]
        /\ deletion[q] # "absent" /\ "base" \notin done[q]
        => p = q

(* Where the attempt under way is: a deletion indexes what it has purged,  *)
(* and every other job has passed a gate that a deletion closes.           *)
Busy ==
    /\ runner.job # NoJob => rows[runner.job].state # "absent"
    /\ runner.job \in Purges =>
          /\ runner.kind = "base"
          /\ runner.pc = "purge" => runner.job \notin journal
          /\ runner.pc \in {"unlink", "clean", "complete"} \cup Indexing
                => runner.job \in journal
          /\ runner.pc = "unlink" => "base" \notin done[runner.job]
          /\ runner.pc = "complete" => "base" \in done[runner.job]
    /\ runner.pc \in {"advance", "close"} \cup Building => runner.kind \notin done[runner.job]
    /\ runner.pc \notin {"idle", "gate", "resume"} /\ runner.job \notin Purges => Calm

(* An event is written once, and deleted events are not in the database.   *)
Written ==
    /\ \A e \in live : "writer" \in done[e]
    /\ \A p \in Purges : \A e \in targets[p] : "writer" \in done[e]
    /\ \A p \in journal : live \cap targets[p] = {}

(* What the runner builds is what the database holds, unless it is old.    *)
Copied ==
    /\ \A j \in Jobs :
          /\ gens[j]["delta"].over \in Jobs =>
                gens[gens[j]["delta"].over]["base"].stage = "committed"
          /\ gens[j]["delta"].stage # "none" => gens[j]["delta"].over # NoJob
          /\ gens[j]["delta"].stage # "empty"
    /\ runner.pc \in Building =>
          /\ ~runner.old => Mine.has = live
          /\ runner.kind = "base" => \A j \in Jobs : gens[j]["delta"].over # runner.job
          /\ runner.kind = "delta" => base # NoJob /\ Mine.over = base
    /\ runner.pc = "activate" => Mine.covers = runner.target

Clean == ~stale => \A p \in Purges : Rebuilt(p) => Served \cap targets[p] = {}

(* The watermarks keep their order. *)
InOrder == marks.indexed <= marks.delta /\ marks.delta <= marks.source

(* The ledger never counts more events than there are, and those a purge   *)
(* has just deleted.                                                       *)
Balanced ==
    /\ Calm => marks.source <= Cardinality(live)
    /\ \A p \in journal :
          "base" \notin done[p] => marks.source <= Cardinality(live) + Cardinality(targets[p])
    /\ runner.pc \in Indexing /\ runner.kind \notin done[runner.job] =>
          runner.target = marks.source /\ marks.source <= Cardinality(live)

(* An index that has been activated serves all there is. *)
Settled ==
    runner.pc \in {"advance", "close"} /\ ~stale =>
        /\ live \subseteq Served
        /\ base # NoJob => Searchable >= marks.source
        /\ runner.kind = "base" /\ base # NoJob =>
              Searchable = marks.source /\ gens[base]["base"].covers = marks.source
        /\ runner.kind = "delta" => base # NoJob

(* The ledger claims no more than is served. *)
Honest ==
    Calm /\ Counted /\ ~stale =>
        /\ Cardinality(live \ Served) + marks.delta <= marks.source
        /\ base # NoJob => /\ marks.indexed <= gens[base]["base"].covers
                           /\ Searchable <= marks.source /\ marks.delta <= Searchable

ScopeInv ==
    /\ DiskInv /\ Progress /\ OneDeletion /\ Busy /\ Written /\ Copied /\ Clean
    /\ InOrder /\ Balanced /\ Settled /\ Honest

-----------------------------------------------------------------------------
(* Steps that touch neither a file nor the ledger *)

RowsStay == \A j \in Jobs : rows'[j].state = "absent" <=> rows[j].state = "absent"

DeletionsStay ==
    \A p \in Purges : /\ deletion'[p] = "absent" <=> deletion[p] = "absent"
                      /\ deletion'[p] = "completed" => "base" \in done[p]

LEMMA QuietStep ==
    ASSUME ScopeInv, DiskInv', RowsStay, DeletionsStay, Busy',
           UNCHANGED <<done, live, journal, gens, base, delta, stale, marks, targets>>,
           \/ runner' = runner
           \/ /\ runner'.pc \notin Building \cup {"advance", "close"}
              /\ runner'.pc = "index" => /\ runner'.target = marks.source
                                         /\ marks.source <= Cardinality(live)
    PROVE  ScopeInv'
<1> USE DEF ScopeInv
<1>p. Purges \subseteq Jobs
  BY DEF Jobs
<1>1. Progress'
  <2> SUFFICES ASSUME NEW p \in Purges
               PROVE  /\ rows'[p].state = "absent" <=> deletion'[p] = "absent"
                      /\ deletion'[p] # "absent" => targets[p] # {}
                      /\ p \in journal => deletion'[p] # "absent"
                      /\ "base" \in done[p] => p \in journal
                      /\ deletion'[p] = "completed" => "base" \in done[p]
    BY DEF Progress
  <2> QED
    BY <1>p DEF Progress, RowsStay, DeletionsStay
<1>2. OneDeletion'
  BY DEF OneDeletion, DeletionsStay
<1>3. Written'
  BY DEF Written
<1>4. Served' = Served /\ Searchable' = Searchable
  BY DEF Served, Searchable, DeltaApplies
<1>5. Copied'
  <2>1. CASE runner' = runner
    BY <2>1 DEF Copied, Mine
  <2>2. CASE runner'.pc \notin Building
    BY <2>2 DEF Copied, Building
  <2> QED
    BY <2>1, <2>2
<1>6. Clean'
  <2>1. \A p \in Purges : Rebuilt(p)' => Rebuilt(p)
    BY DEF Rebuilt
  <2> QED
    BY <1>4, <2>1 DEF Clean
<1>7. InOrder'
  BY DEF InOrder
<1>8. Balanced'
  BY DEF Balanced, Calm, Indexing
<1>9. Settled'
  BY <1>4 DEF Settled
<1>10. Honest'
  BY <1>4 DEF Honest, Calm, Counted
<1> QED
  BY <1>1, <1>2, <1>3, <1>5, <1>6, <1>7, <1>8, <1>9, <1>10

(* A row that is in the queue stays there, in some state. *)
LEMMA RowStays ==
    ASSUME Typed,
           \/ UNCHANGED rows
           \/ \E j \in Jobs, state \in {"pending", "running", "succeeded", "failed", "cancelled"} :
                 rows' = WithState(j, state) /\ rows[j].state # "absent"
    PROVE  RowsStay
<1>1. rows \in [Jobs -> [state: {"absent", "pending", "running", "succeeded", "failed",
                                 "cancelled"}, seq: Nat]]
  BY DEF Typed, TypeOK
<1>2. ASSUME NEW i \in Jobs, NEW state \in {"pending", "running", "succeeded", "failed", "cancelled"},
             rows' = WithState(i, state), rows[i].state # "absent"
      PROVE  RowsStay
  <2>1. rows'[i].state = state /\ \A j \in Jobs \ {i} : rows'[j] = rows[j]
    BY <1>1, <1>2 DEF WithState
  <2> QED
    BY <1>2, <2>1 DEF RowsStay
<1> QED
  BY <1>2 DEF RowsStay

LEMMA DeletionStays ==
    ASSUME ScopeInv,
           \/ UNCHANGED deletion
           \/ \E p \in Purges, state \in Underway \cup {"failed", "completed"} :
                 /\ deletion' = [deletion EXCEPT ![p] = state] /\ deletion[p] # "absent"
                 /\ state = "completed" => "base" \in done[p]
    PROVE  DeletionsStay
<1>1. deletion \in [Purges -> Underway \cup {"absent", "completed", "failed"}]
  BY DEF ScopeInv, DiskInv, Typed, TypeOK
<1>2. CASE UNCHANGED deletion
  BY <1>2 DEF DeletionsStay, ScopeInv, Progress
<1>3. ASSUME NEW p \in Purges, NEW state \in Underway \cup {"failed", "completed"},
             deletion' = [deletion EXCEPT ![p] = state], deletion[p] # "absent",
             state = "completed" => "base" \in done[p]
      PROVE  DeletionsStay
  <2>1. deletion'[p] = state /\ state # "absent"
    BY <1>1, <1>3 DEF Underway
  <2>2. \A q \in Purges \ {p} : deletion'[q] = deletion[q]
    BY <1>1, <1>3
  <2> QED
    BY <1>3, <2>1, <2>2 DEF DeletionsStay, ScopeInv, Progress
<1> QED
  BY <1>2, <1>3

(* What holds where the runner is *)
LEMMA RunnerFacts ==
    ASSUME ScopeInv, runner.pc # "idle"
    PROVE  /\ runner \in Runner /\ runner.job \in Jobs /\ runner.job # NoJob
           /\ rows[runner.job].state # "absent"
           /\ runner.job \in Purges => runner.kind = "base" /\ deletion[runner.job] # "absent"
<1>1. runner \in Runner /\ runner.job \in Jobs /\ runner.job # NoJob
  BY RunnerSteps DEF ScopeInv, DiskInv, Typed, TypeOK
<1> QED
  BY <1>1 DEF ScopeInv, Busy, Progress

(* A scope that is open has no deletion between its purge and its index. *)
LEMMA OpenCalm == ASSUME ScopeInv, Open PROVE Calm
<1> SUFFICES ASSUME NEW p \in journal PROVE "base" \in done[p]
  BY DEF Calm
<1>1. p \in Purges /\ deletion[p] \in Underway \cup {"absent", "completed", "failed"}
  BY DEF ScopeInv, DiskInv, Typed, TypeOK
<1> QED
  BY <1>1 DEF Open, ScopeInv, Progress

LEMMA RestingBusy == ASSUME runner' = Resting PROVE Busy' /\ runner'.pc = "idle"
<1>1. runner'.job = NoJob /\ runner'.pc = "idle" /\ NoJob \notin Purges
  BY ContentDeletionAssumption DEF Resting, Jobs
<1> QED
  BY <1>1 DEF Busy, Calm, Building

LEMMA QueueKeeps ==
    ASSUME ScopeInv, DiskInv', NEW j,
           \/ j \in Jobs /\ (Sweep(j) \/ Cancel(j) \/ Retry(j) \/ Claim(j) \/ Recover(j))
           \/ Crash \/ Start \/ UNCHANGED vars
    PROVE  ScopeInv'
<1> USE DEF store, queue, control, bounds, vars
<1>t. Typed
  BY DEF ScopeInv, DiskInv
<1>1. UNCHANGED <<done, live, journal, gens, base, delta, stale, marks, targets>>
  BY DEF Sweep, Cancel, Retry, Crash, Start, Claim, Recover
<1>2. RowsStay
  <2>1. \/ UNCHANGED rows
        \/ \E state \in {"pending", "running", "succeeded", "failed", "cancelled"} :
              rows' = WithState(j, state) /\ rows[j].state # "absent" /\ j \in Jobs
    <3>1. CASE j \in Jobs /\ Sweep(j)
      BY <3>1 DEF Sweep
    <3>2. CASE j \in Jobs /\ (Cancel(j) \/ Retry(j))
      BY <3>2 DEF Cancel, Retry
    <3>3. CASE j \in Jobs /\ (Claim(j) \/ Recover(j))
      BY <3>3 DEF Claim, Recover
    <3>4. CASE Crash \/ Start \/ UNCHANGED vars
      BY <3>4 DEF Crash, Start
    <3> QED
      BY <3>1, <3>2, <3>3, <3>4
  <2> QED
    BY <1>t, <2>1, RowStays
<1>3. DeletionsStay
  <2>1. CASE UNCHANGED deletion
    BY <2>1, DeletionStays
  <2>2. CASE ~UNCHANGED deletion
    <3>1. j \in Purges /\ deletion[j] = "failed" /\ deletion' = [deletion EXCEPT ![j] = "requested"]
      BY <2>2 DEF Sweep, Cancel, Retry, Crash, Start, Claim, Recover
    <3>2. deletion[j] # "absent" /\ "requested" \in Underway /\ "requested" # "completed"
      BY <3>1 DEF Underway
    <3> QED
      BY <3>1, <3>2, DeletionStays
  <2> QED
    BY <2>1, <2>2
<1>4. CASE UNCHANGED runner
  <2>1. Busy'
    <3>1. runner.job # NoJob => runner.job \in Jobs
      BY <1>t DEF Typed, TypeOK, Runner
    <3> QED
      BY <1>1, <1>2, <1>4, <3>1 DEF ScopeInv, Busy, Calm, RowsStay
  <2> QED
    BY <1>1, <1>2, <1>3, <1>4, <2>1, QuietStep
<1>5. CASE Crash
  <2>1. Busy' /\ runner'.pc = "idle"
    BY <1>5, RestingBusy DEF Crash
  <2> QED
    BY <1>1, <1>2, <1>3, <2>1, QuietStep DEF Building
<1>6. CASE j \in Jobs /\ (Claim(j) \/ Recover(j))
  <2>1. /\ runner'.job = j /\ runner'.pc \in {"gate", "resume"} /\ runner'.kind = "base"
        /\ rows[j].state # "absent"
    BY <1>6 DEF Claim, Recover, Resting
  <2>2. Busy'
    BY <1>2, <1>6, <2>1 DEF Busy, RowsStay, Indexing, Building
  <2> QED
    BY <1>1, <1>2, <1>3, <2>1, <2>2, QuietStep DEF Building
<1> QED
  BY <1>4, <1>5, <1>6 DEF Sweep, Cancel, Retry, Start

LEMMA RunnerKeeps ==
    ASSUME ScopeInv, DiskInv',
           \/ Gate \/ CompleteDeletion \/ Succeed \/ Fail \/ Report \/ SkipIndex
           \/ \E safe \in BOOLEAN : Resume(safe)
    PROVE  ScopeInv'
<1> DEFINE r == runner.job
<1> USE DEF store, queue, control, bounds
<1>p. runner.pc # "idle"
  BY DEF Gate, CompleteDeletion, Succeed, Fail, Report, SkipIndex, Resume
<1>r. /\ runner \in Runner /\ r \in Jobs /\ r # NoJob /\ rows[r].state # "absent"
      /\ r \in Purges => runner.kind = "base" /\ deletion[r] # "absent"
  BY <1>p, RunnerFacts
<1>b. Busy /\ Typed
  BY DEF ScopeInv, DiskInv
<1>1. UNCHANGED <<done, live, journal, gens, base, delta, stale, marks, targets>>
  BY DEF Gate, CompleteDeletion, Succeed, Fail, Report, SkipIndex, Resume
<1>2. RowsStay
  <2>1. \/ UNCHANGED rows
        \/ rows' = WithState(r, "succeeded")
        \/ rows' = WithState(r, "failed")
        \/ rows' = WithState(r, "pending")
    BY DEF Gate, CompleteDeletion, Succeed, Fail, Report, SkipIndex, Resume, Requeued
  <2> QED
    BY <2>1, <1>r, <1>b, RowStays
<1>3. DeletionsStay
  <2>1. \/ UNCHANGED deletion
        \/ \E state \in {"purging", "completed", "failed"} :
              /\ r \in Purges /\ deletion' = [deletion EXCEPT ![r] = state]
              /\ state = "completed" => runner.pc = "complete"
    <3>1. CASE Gate
      BY <3>1 DEF Gate
    <3>2. CASE CompleteDeletion \/ Report
      <4>1. r \in Purges
        BY <3>2, <1>b DEF CompleteDeletion, Report, Typed, AtWork
      <4> QED
        BY <3>2, <4>1 DEF CompleteDeletion, Report
    <3>3. CASE Succeed \/ Fail \/ SkipIndex \/ \E safe \in BOOLEAN : Resume(safe)
      BY <3>3 DEF Succeed, Fail, SkipIndex, Resume
    <3> QED
      BY <3>1, <3>2, <3>3
  <2>2. r \in Purges /\ runner.pc = "complete" => "base" \in done[r]
    BY <1>b DEF Busy
  <2> QED
    BY <2>1, <2>2, <1>r, DeletionStays DEF Underway
<1>4. CASE runner' = Resting
  <2>1. Busy' /\ runner'.pc = "idle"
    BY <1>4, RestingBusy
  <2> QED
    BY <1>1, <1>2, <1>3, <2>1, QuietStep DEF Building
<1>g. ASSUME runner'.job = r, r \in Purges => runner'.kind = "base",
             runner'.pc \in {"purge", "clean", "write", "index", "end", "complete", "report"},
             r \in Purges => /\ runner'.pc = "purge" => r \notin journal
                             /\ runner'.pc \in {"clean", "index"} => r \in journal
                             /\ runner'.pc = "complete" => r \in journal /\ "base" \in done[r],
             r \notin Purges => Calm,
             runner'.pc = "index" => /\ runner'.target = marks.source
                                     /\ marks.source <= Cardinality(live)
      PROVE  ScopeInv'
  <2>1. rows'[r].state # "absent"
    BY <1>2, <1>r DEF RowsStay
  <2>2. Calm' <=> Calm
    BY <1>1 DEF Calm
  <2>3. Busy'
    BY <1>1, <1>g, <2>1, <2>2 DEF Busy, Indexing, Building
  <2> QED
    BY <1>1, <1>2, <1>3, <1>g, <2>3, QuietStep DEF Building
<1>5. CASE Gate
  <2>1. CASE r \in Purges
    <3>1. runner' = [runner EXCEPT !.pc = IF r \in journal THEN "clean" ELSE "purge"]
      BY <1>5, <2>1 DEF Gate, Goes
    <3>2. runner'.job = r /\ runner'.kind = "base"
          /\ runner'.pc = (IF r \in journal THEN "clean" ELSE "purge")
      BY <3>1, <1>r, <2>1 DEF Runner
    <3> QED
      BY <2>1, <3>2, <1>g
  <2>2. CASE r \notin Purges
    <3>1. Calm
      BY <1>5, <2>2, OpenCalm DEF Gate, Admitted
    <3>2. \/ runner' = [runner EXCEPT !.pc = "write"]
          \/ runner' = [runner EXCEPT !.pc = "index", !.kind = "base", !.target = marks.source]
      BY <1>5, <2>2 DEF Gate, Goes, Indexes
    <3>3. /\ runner'.job = r /\ runner'.pc \in {"write", "index"}
          /\ runner'.pc = "index" => runner'.target = marks.source
      BY <3>2, <1>r DEF Runner
    <3>4. marks.source <= Cardinality(live)
      BY <3>1 DEF ScopeInv, Balanced
    <3> QED
      BY <2>2, <3>1, <3>3, <3>4, <1>g
  <2> QED
    BY <2>1, <2>2
<1>6. CASE SkipIndex
  <2>1. /\ runner.pc = "index" /\ runner.kind \in done[r]
        /\ runner' = [runner EXCEPT !.pc = IF r \in Purges THEN "complete" ELSE "end"]
    BY <1>6 DEF SkipIndex, Goes
  <2>2. /\ runner'.job = r /\ runner'.kind = runner.kind
        /\ runner'.pc = (IF r \in Purges THEN "complete" ELSE "end")
    BY <2>1, <1>r DEF Runner
  <2>3. (r \in Purges => r \in journal) /\ (r \notin Purges => Calm)
    BY <2>1, <1>b DEF Busy, Indexing
  <2> QED
    BY <2>1, <2>2, <2>3, <1>r, <1>g
<1>7. CASE CompleteDeletion
  <2>1. runner' = [runner EXCEPT !.pc = "end"] /\ runner.pc = "complete" /\ r \in Purges
    BY <1>7, <1>b DEF CompleteDeletion, Goes, Typed, AtWork
  <2>2. runner'.job = r /\ runner'.kind = runner.kind /\ runner'.pc = "end"
    BY <2>1, <1>r DEF Runner
  <2> QED
    BY <2>1, <2>2, <1>r, <1>g
<1>8. CASE Fail /\ runner' # Resting
  <2>1. runner' = [runner EXCEPT !.pc = "report"] /\ r \in Purges
    BY <1>8 DEF Fail
  <2>2. runner'.job = r /\ runner'.kind = runner.kind /\ runner'.pc = "report"
    BY <2>1, <1>r DEF Runner
  <2> QED
    BY <2>1, <2>2, <1>r, <1>g
<1> QED
  BY <1>4, <1>5, <1>6, <1>7, <1>8 DEF Succeed, Report, Resume

-----------------------------------------------------------------------------
(* Steps that write *)

LEMMA Sizes ==
    ASSUME TypeOK
    PROVE  /\ IsFiniteSet(live) /\ Cardinality(live) \in Nat
           /\ \A S \in SUBSET live : IsFiniteSet(S) /\ Cardinality(S) \in Nat
                                     /\ Cardinality(S) <= Cardinality(live)
           /\ \A p \in Purges : /\ IsFiniteSet(targets[p]) /\ Cardinality(targets[p]) \in Nat
                                /\ targets[p] # {} => Cardinality(targets[p]) >= 1
           /\ marks.source \in Nat /\ marks.indexed \in Nat /\ marks.delta \in Nat
           /\ \A j \in Jobs, k \in Kinds : gens[j][k] \in Gen /\ gens[j][k].covers \in Nat
<1>1. IsFiniteSet(Ingests)
  BY FS_Subset, ContentDeletionAssumption DEF Jobs
<1>2. \A S \in SUBSET Ingests : IsFiniteSet(S) /\ Cardinality(S) \in Nat
  BY <1>1, FS_Subset, FS_CardinalityType
<1>3. live \in SUBSET Ingests /\ \A p \in Purges : targets[p] \in SUBSET Ingests
  BY DEF TypeOK
<1>4. \A S \in SUBSET live : Cardinality(S) <= Cardinality(live)
  BY <1>2, <1>3, FS_Subset
<1>5. marks.source \in Nat /\ marks.indexed \in Nat /\ marks.delta \in Nat
  BY DEF TypeOK
<1>6. \A j \in Jobs, k \in Kinds : gens[j][k] \in Gen
  BY DEF TypeOK
<1>7. \A j \in Jobs, k \in Kinds : gens[j][k].covers \in Nat
  BY <1>6 DEF Gen
<1>8. \A S \in SUBSET Ingests : S # {} => Cardinality(S) >= 1
  BY <1>2, FS_EmptySet
<1> QED
  BY <1>2, <1>3, <1>4, <1>5, <1>6, <1>7, <1>8

(* The kinds of a job, and that a deletion is not another job *)
LEMMA JobKinds ==
    /\ \A p \in Purges : p \in Jobs /\ p \notin Ingests /\ p \notin Rebuilds
    /\ \A j \in Ingests \cup Rebuilds : j \in Jobs /\ j \notin Purges
    /\ NoJob \notin Jobs
  BY ContentDeletionAssumption DEF Jobs

LEMMA SubmitKeeps ==
    ASSUME ScopeInv, DiskInv',
           NEW j \in Jobs, rows[j].state = "absent", rows' = Enqueued(j),
           UNCHANGED <<done, store, marks, runner>>,
           \/ j \notin Purges /\ UNCHANGED <<deletion, targets>>
           \/ \E events \in SUBSET live :
                 /\ j \in Purges /\ Open /\ events # {}
                 /\ deletion' = [deletion EXCEPT ![j] = "requested"]
                 /\ targets' = [targets EXCEPT ![j] = events]
    PROVE  ScopeInv'
<1> USE DEF ScopeInv, store
<1>t. Typed
  BY DEF DiskInv
<1>1. /\ rows'[j].state = "pending"
      /\ \A i \in Jobs \ {j} : rows'[i] = rows[i]
  BY <1>t DEF Enqueued, Typed, TypeOK
<1>2. /\ \A p \in Purges \ {j} : deletion'[p] = deletion[p] /\ targets'[p] = targets[p]
      /\ j \in Purges => /\ deletion[j] = "absent" /\ deletion'[j] = "requested"
                         /\ targets'[j] \subseteq live /\ targets'[j] # {} /\ Open
      /\ j \notin Purges => UNCHANGED <<deletion, targets>>
  <2>1. j \in Purges => deletion[j] = "absent"
    BY DEF Progress
  <2> QED
    BY <1>t, <2>1 DEF Typed, TypeOK
<1>3. j \in Purges => j \notin journal /\ "base" \notin done[j]
  BY <1>2 DEF Progress
<1>j. journal \subseteq Purges
  BY <1>t DEF Typed, TypeOK
<1>4. Progress'
  <2> SUFFICES ASSUME NEW p \in Purges
               PROVE  /\ rows'[p].state = "absent" <=> deletion'[p] = "absent"
                      /\ deletion'[p] # "absent" => targets'[p] # {}
                      /\ p \in journal => deletion'[p] # "absent"
                      /\ "base" \in done[p] => p \in journal
                      /\ deletion'[p] = "completed" => "base" \in done[p]
    BY DEF Progress
  <2>1. CASE p = j
    BY <1>1, <1>2, <1>3, <2>1
  <2>2. CASE p # j
    BY <1>1, <1>2, <2>2, JobKinds DEF Progress
  <2> QED
    BY <2>1, <2>2
<1>5. OneDeletion'
  <2>1. CASE j \in Purges
    <3>1. \A p \in Purges : deletion[p] # "absent" => "base" \in done[p]
      BY <1>2, <1>t, <2>1 DEF Open, Progress, Typed, TypeOK
    <3> QED
      BY <1>2, <3>1 DEF OneDeletion
  <2>2. CASE j \notin Purges
    BY <1>2, <2>2 DEF OneDeletion
  <2> QED
    BY <2>1, <2>2
<1>6. Busy'
  <2>1. runner.job # NoJob => runner.job \in Jobs
    BY <1>t DEF Typed, TypeOK, Runner
  <2>2. runner.job # NoJob => rows'[runner.job].state # "absent"
    BY <1>1, <2>1 DEF Busy
  <2> QED
    BY <2>2 DEF Busy, Calm
<1>7. Written'
  BY <1>2, <1>3, <1>j DEF Written
<1>8. Served' = Served /\ Searchable' = Searchable
  BY DEF Served, Searchable, DeltaApplies
<1>9. Copied' /\ InOrder' /\ Settled' /\ Honest'
  BY <1>8 DEF Copied, Mine, InOrder, Settled, Honest, Calm, Counted
<1>10. Balanced'
  BY <1>2, <1>3, <1>j DEF Balanced, Calm
<1>11. Clean'
  <2> SUFFICES ASSUME ~stale, NEW p \in Purges, Rebuilt(p)' PROVE Served \cap targets'[p] = {}
    BY <1>8 DEF Clean
  <2>1. Rebuilt(p)
    BY DEF Rebuilt
  <2>2. p # j
    <3>1. p = runner.job /\ runner.pc \in {"advance", "close"} => p \in journal
      BY DEF Busy, Indexing
    <3> QED
      BY <1>3, <2>1, <3>1 DEF Rebuilt
  <2> QED
    BY <1>2, <2>1, <2>2 DEF Clean
<1> QED
  BY <1>4, <1>5, <1>6, <1>7, <1>9, <1>10, <1>11

LEMMA WriteKeeps == ASSUME ScopeInv, DiskInv', Write PROVE ScopeInv'
<1> DEFINE r == runner.job
           new == "writer" \notin done[r]
<1> USE DEF ScopeInv
<1>t. Typed /\ TypeOK
  BY DEF DiskInv, Typed
<1>1. /\ runner.pc = "write" /\ r \in Ingests /\ r \in Jobs /\ r \notin Purges
      /\ runner \in Runner /\ r # NoJob /\ rows[r].state # "absent" /\ Calm
      /\ done \in [Jobs -> SUBSET (Kinds \cup {"writer"})]
  <2>1. runner.pc = "write" /\ r \in Ingests
    BY <1>t DEF Write, Typed, AtWork
  <2>2. Calm
    BY <2>1, JobKinds DEF Busy
  <2> QED
    BY <1>t, <2>1, <2>2, JobKinds, RunnerFacts DEF TypeOK
<1>2. /\ UNCHANGED <<rows, head, journal, gens, base, delta, stale, deletion, targets>>
      /\ done' = [done EXCEPT ![r] = @ \cup {"writer"}]
      /\ live' = IF new THEN live \cup {r} ELSE live
      /\ marks'.source = (IF new THEN marks.source + 1 ELSE marks.source)
      /\ marks'.indexed = marks.indexed /\ marks'.delta = marks.delta
  BY <1>t DEF Write, TypeOK
<1>3. runner'.job = r /\ runner'.pc = "index" /\ runner'.target = marks'.source
  BY <1>1, <1>2 DEF Write, Indexes, Runner
<1>4. /\ done'[r] = done[r] \cup {"writer"}
      /\ \A j \in Jobs \ {r} : done'[j] = done[j]
  BY <1>1, <1>2
<1>5. /\ \A j \in Jobs : "base" \in done'[j] <=> "base" \in done[j]
      /\ \A j \in Jobs : "writer" \in done[j] => "writer" \in done'[j]
      /\ \A p \in Purges : Rebuilt(p)' => Rebuilt(p)
      /\ journal \subseteq Purges
  <2>1. \A j \in Jobs : "base" \in done'[j] <=> "base" \in done[j]
    BY <1>4
  <2> QED
    BY <1>3, <1>4, <1>t, <2>1, JobKinds DEF Rebuilt, TypeOK
<1>6. Calm'
  BY <1>1, <1>2, <1>5, JobKinds DEF Calm
<1>7. Progress' /\ OneDeletion'
  BY <1>2, <1>5, JobKinds DEF Progress, OneDeletion
<1>8. Busy'
  BY <1>1, <1>2, <1>3, <1>6 DEF Busy, Building
<1>9. Written'
  <2>1. \A e \in live' : "writer" \in done'[e]
    BY <1>1, <1>2, <1>4, <1>5, <1>t DEF Written, TypeOK, Jobs
  <2>2. \A p \in Purges : \A e \in targets'[p] : "writer" \in done'[e]
    BY <1>2, <1>5, <1>t DEF Written, TypeOK, Jobs
  <2>3. ASSUME NEW p \in journal PROVE live' \cap targets'[p] = {}
    <3>1. live \cap targets[p] = {} /\ (r \in targets[p] => "writer" \in done[r])
      BY <1>5 DEF Written
    <3> QED
      BY <1>2, <3>1
  <2> QED
    BY <1>2, <2>1, <2>2, <2>3 DEF Written
<1>10. Served' = Served /\ Searchable' = Searchable
  BY <1>2 DEF Served, Searchable, DeltaApplies
<1>11. Copied' /\ Settled'
  BY <1>2, <1>3 DEF Copied, Settled, Building
<1>12. Clean'
  BY <1>2, <1>5, <1>10 DEF Clean
<1>s. /\ Cardinality(live) \in Nat /\ IsFiniteSet(live) /\ live \ Served \in SUBSET live
      /\ Cardinality(live \ Served) \in Nat /\ IsFiniteSet(live \ Served)
      /\ marks.source \in Nat /\ marks.indexed \in Nat /\ marks.delta \in Nat
  BY <1>t, Sizes
<1>13. InOrder'
  BY <1>2, <1>s DEF InOrder
<1>c. new => r \notin live /\ Cardinality(live') = Cardinality(live) + 1
  <2>1. new => r \notin live
    BY DEF Written
  <2> QED
    BY <1>2, <1>s, <2>1, FS_AddElement
<1>14. Balanced'
  <2>1. marks.source <= Cardinality(live)
    BY <1>1 DEF Balanced
  <2>2. marks'.source <= Cardinality(live')
    BY <1>2, <1>s, <1>c, <2>1
  <2> QED
    BY <1>3, <1>6, <2>2 DEF Balanced, Calm
<1>15. Honest'
  <2> SUFFICES ASSUME Counted', ~stale
               PROVE  /\ Cardinality(live' \ Served) + marks.delta <= marks'.source
                      /\ base # NoJob => /\ marks.indexed <= gens[base]["base"].covers
                                         /\ Searchable <= marks'.source
                                         /\ marks.delta <= Searchable
    BY <1>2, <1>10 DEF Honest
  <2>1. Counted
    BY <1>2, <1>s, <1>c DEF Counted
  <2>2. /\ Cardinality(live \ Served) + marks.delta <= marks.source
        /\ base # NoJob => /\ marks.indexed <= gens[base]["base"].covers
                           /\ Searchable <= marks.source /\ marks.delta <= Searchable
    BY <1>1, <2>1 DEF Honest
  <2>3. Cardinality(live' \ Served) <=
           (IF new THEN Cardinality(live \ Served) + 1 ELSE Cardinality(live \ Served))
    <3>1. CASE new /\ r \notin Served
      <4>1. live' \ Served = (live \ Served) \cup {r} /\ r \notin live \ Served
        BY <1>2, <1>c, <3>1
      <4>2. Cardinality((live \ Served) \cup {r}) = Cardinality(live \ Served) + 1
        BY <1>s, <4>1, FS_AddElement
      <4>3. Cardinality(live' \ Served) = Cardinality(live \ Served) + 1
        BY <4>1, <4>2
      <4> QED
        BY <1>s, <3>1, <4>3
    <3>2. CASE new /\ r \in Served
      <4>1. live' \ Served = live \ Served
        BY <1>2, <3>2
      <4>2. Cardinality(live' \ Served) = Cardinality(live \ Served)
        BY <4>1
      <4> QED
        BY <1>s, <3>2, <4>2
    <3>3. CASE ~new
      BY <1>2, <1>s, <3>3
    <3> QED
      BY <3>1, <3>2, <3>3
  <2>4. /\ Cardinality(live' \ Served) \in Nat
        /\ base # NoJob => Searchable \in Nat
    <3>1. Cardinality(live' \ Served) \in Nat
      <4>1. live' \ Served \in SUBSET Ingests
        BY DEF DiskInv, Typed, TypeOK
      <4> QED
        BY <4>1, Counts
    <3>2. base # NoJob => Searchable \in Nat
      BY <1>t, Sizes DEF Searchable, Larger, DeltaApplies, TypeOK, Kinds
    <3> QED
      BY <3>1, <3>2
  <2> QED
    BY <1>2, <1>s, <2>2, <2>3, <2>4
<1> QED
  BY <1>7, <1>8, <1>9, <1>11, <1>12, <1>13, <1>14, <1>15

LEMMA PurgeKeeps == ASSUME ScopeInv, DiskInv', PurgeRows PROVE ScopeInv'
<1> DEFINE r == runner.job
<1> USE DEF ScopeInv, queue, control, bounds
<1>t. Typed /\ TypeOK
  BY DEF DiskInv, Typed
<1>1. /\ runner.pc = "purge" /\ r \in Purges /\ r \in Jobs /\ runner \in Runner /\ r # NoJob
      /\ rows[r].state # "absent" /\ deletion[r] # "absent" /\ runner.kind = "base"
      /\ r \notin journal /\ "base" \notin done[r] /\ journal \subseteq Purges
  <2>1. runner.pc = "purge" /\ r \in Purges
    BY <1>t DEF PurgeRows, Typed, AtWork
  <2>2. r \notin journal /\ "base" \notin done[r]
    BY <2>1 DEF Busy, Progress
  <2> QED
    BY <1>t, <2>1, <2>2, RunnerFacts DEF TypeOK
<1>2. /\ UNCHANGED <<rows, done, gens, base, delta, stale, marks, deletion, targets>>
      /\ live' = live \ targets[r] /\ journal' = journal \cup {r} /\ targets[r] \subseteq live
  BY DEF PurgeRows
<1>3. runner'.job = r /\ runner'.kind = "base" /\ runner'.pc = "unlink"
  BY <1>1 DEF PurgeRows, Goes, Runner
<1>4. Calm
  <2> SUFFICES ASSUME NEW q \in journal, "base" \notin done[q] PROVE FALSE
    BY DEF Calm
  <2>1. q \in Purges /\ deletion[q] # "absent"
    BY <1>1 DEF Progress
  <2> QED
    BY <1>1, <2>1 DEF OneDeletion
<1>5. ~Calm'
  BY <1>1, <1>2 DEF Calm
<1>6. Progress' /\ OneDeletion'
  BY <1>1, <1>2 DEF Progress, OneDeletion
<1>7. Busy'
  BY <1>1, <1>2, <1>3 DEF Busy, Indexing, Building
<1>8. Written'
  BY <1>1, <1>2 DEF Written
<1>9. Served' = Served /\ \A p \in Purges : Rebuilt(p)' => Rebuilt(p)
  BY <1>2, <1>3 DEF Served, DeltaApplies, Rebuilt
<1>10. Copied' /\ Clean' /\ InOrder' /\ Settled' /\ Honest'
  BY <1>2, <1>3, <1>5, <1>9 DEF Copied, Clean, InOrder, Settled, Honest, Building
<1>11. Balanced'
  <2>1. Cardinality(live) = Cardinality(live') + Cardinality(targets[r])
    <3>1. /\ IsFiniteSet(live) /\ IsFiniteSet(targets[r]) /\ live \cap targets[r] = targets[r]
          /\ Cardinality(live) \in Nat /\ Cardinality(targets[r]) \in Nat
      BY <1>1, <1>2, <1>t, Sizes
    <3>2. Cardinality(live \ targets[r]) = Cardinality(live) - Cardinality(live \cap targets[r])
      BY <3>1, FS_Difference
    <3>3. Cardinality(live') = Cardinality(live) - Cardinality(targets[r])
      BY <1>2, <3>1, <3>2
    <3> QED
      BY <3>1, <3>3
  <2>2. marks.source <= Cardinality(live)
    BY <1>4 DEF Balanced
  <2>3. \A p \in journal' : "base" \notin done[p] => p = r
    BY <1>2, <1>4 DEF Calm
  <2> QED
    BY <1>2, <1>3, <1>5, <2>1, <2>2, <2>3 DEF Balanced, Indexing, Building
<1> QED
  BY <1>6, <1>7, <1>8, <1>10, <1>11

LEMMA UnlinkKeeps == ASSUME ScopeInv, DiskInv', UnlinkDelta PROVE ScopeInv'
<1> DEFINE r == runner.job
<1> USE DEF ScopeInv, queue, control, bounds
<1>t. Typed /\ TypeOK
  BY DEF DiskInv, Typed
<1>1. /\ runner.pc = "unlink" /\ r \in Purges /\ runner \in Runner /\ r # NoJob
      /\ rows[r].state # "absent" /\ runner.kind = "base"
      /\ r \in journal /\ "base" \notin done[r]
  <2>1. runner.pc = "unlink" /\ r \in Purges
    BY <1>t DEF UnlinkDelta, Typed, AtWork
  <2> QED
    BY <1>t, <2>1, RunnerFacts DEF TypeOK, Busy
<1>2. /\ UNCHANGED <<rows, done, live, journal, gens, base, stale, marks, deletion, targets>>
      /\ delta' = NoJob
  BY DEF UnlinkDelta
<1>3. runner'.job = r /\ runner'.kind = "base" /\ runner'.pc = "clean"
  BY <1>1 DEF UnlinkDelta, Goes, Runner
<1>4. ~Calm'
  BY <1>1, <1>2 DEF Calm
<1>5. Progress' /\ OneDeletion' /\ Written' /\ InOrder'
  BY <1>2 DEF Progress, OneDeletion, Written, InOrder
<1>6. Busy'
  BY <1>1, <1>2, <1>3 DEF Busy, Indexing, Building
<1>7. Served' \subseteq Served /\ \A p \in Purges : Rebuilt(p)' => Rebuilt(p)
  BY <1>2, <1>3 DEF Served, DeltaApplies, Rebuilt
<1>8. Copied' /\ Clean' /\ Settled' /\ Honest'
  BY <1>2, <1>3, <1>4, <1>7 DEF Copied, Clean, Settled, Honest, Building
<1>9. Balanced'
  BY <1>2, <1>3, <1>4 DEF Balanced, Indexing, Building
<1> QED
  BY <1>5, <1>6, <1>8, <1>9

LEMMA CleanKeeps == ASSUME ScopeInv, DiskInv', CleanUp PROVE ScopeInv'
<1> DEFINE r == runner.job
           n == Cardinality(targets[r])
<1> USE DEF ScopeInv, queue, store, control, bounds
<1>t. Typed /\ TypeOK
  BY DEF DiskInv, Typed
<1>1. /\ runner.pc = "clean" /\ r \in Purges /\ r \in Jobs /\ runner \in Runner /\ r # NoJob
      /\ rows[r].state # "absent" /\ deletion[r] # "absent" /\ r \in journal
      /\ journal \subseteq Purges
  <2>1. runner.pc = "clean" /\ r \in Purges
    BY <1>t DEF CleanUp, Typed, AtWork
  <2> QED
    BY <1>t, <2>1, RunnerFacts DEF TypeOK, Busy
<1>2. UNCHANGED <<rows, done, live, journal, gens, base, delta, stale, targets>>
  BY DEF CleanUp
<1>3. runner'.job = r /\ runner'.kind = "base" /\ runner'.pc = "index" /\ runner'.target = marks'.source
  BY <1>1 DEF CleanUp, Indexes, Runner
<1>s. /\ Cardinality(live) \in Nat /\ n \in Nat /\ n >= 1
      /\ marks.source \in Nat /\ marks.indexed \in Nat /\ marks.delta \in Nat
  <2>1. targets[r] # {}
    BY <1>1 DEF Progress
  <2> QED
    BY <1>1, <1>t, <2>1, Sizes
<1>4. /\ marks'.source = (IF marks.source - n > 0 THEN marks.source - n ELSE 0)
      /\ marks'.indexed = Smaller(marks.indexed, marks'.source)
      /\ marks'.delta = Smaller(marks.delta, marks'.source)
  <2>1. marks' = Lowered(n)
    BY DEF CleanUp
  <2>2. Larger(0, marks.source - n) = (IF marks.source - n > 0 THEN marks.source - n ELSE 0)
    BY <1>s DEF Larger
  <2> QED
    BY <2>1, <2>2 DEF Lowered
<1>5. DeletionsStay
  <2>1. deletion' = [deletion EXCEPT ![r] = "reindexing"]
    BY DEF CleanUp
  <2>2. \E p \in Purges, state \in Underway \cup {"failed", "completed"} :
           /\ deletion' = [deletion EXCEPT ![p] = state] /\ deletion[p] # "absent"
           /\ state = "completed" => "base" \in done[p]
    <3>1. "reindexing" \in Underway \cup {"failed", "completed"} /\ "reindexing" # "completed"
      BY DEF Underway
    <3> QED
      BY <1>1, <2>1, <3>1, Zenon
  <2> QED
    BY <2>2, DeletionStays
<1>6. Progress' /\ OneDeletion' /\ Written'
  BY <1>2, <1>5 DEF Progress, OneDeletion, Written, DeletionsStay
<1>7. Busy'
  BY <1>1, <1>2, <1>3 DEF Busy, Indexing, Building
<1>8. /\ Served' = Served /\ Searchable' = Searchable /\ (Calm' <=> Calm)
      /\ \A p \in Purges : Rebuilt(p)' => Rebuilt(p)
  BY <1>2, <1>3 DEF Served, Searchable, DeltaApplies, Rebuilt, Calm
<1>9. Copied' /\ Clean' /\ Settled'
  BY <1>2, <1>3, <1>8 DEF Copied, Clean, Settled, Building
<1>10. InOrder'
  BY <1>s, <1>4 DEF InOrder, Smaller
<1>11. Balanced'
  <2>1. marks'.source <= marks.source
    BY <1>s, <1>4
  <2>2. \A p \in journal : Cardinality(targets[p]) \in Nat
    BY <1>1, <1>t, Sizes
  <2>3. Calm => marks'.source <= Cardinality(live)
    BY <1>s, <1>4, <2>1 DEF Balanced
  <2>4. \A p \in journal :
           "base" \notin done[p] => marks'.source <= Cardinality(live) + Cardinality(targets[p])
    BY <1>s, <1>4, <2>1, <2>2 DEF Balanced
  <2>5. "base" \notin done[r] => marks'.source <= Cardinality(live)
    BY <1>1, <1>s, <1>4 DEF Balanced
  <2> QED
    BY <1>2, <1>3, <1>8, <2>3, <2>4, <2>5 DEF Balanced
<1>12. Honest'
  <2>1. CASE Calm /\ Counted'
    <3>1. marks'.source = Cardinality(live) /\ marks.source <= Cardinality(live)
      BY <1>2, <2>1 DEF Counted, Balanced
    <3>2. marks'.source = 0 /\ marks.source = 0
      BY <1>s, <1>4, <3>1
    <3>3. marks.indexed = 0 /\ marks.delta = 0
      BY <1>s, <3>2 DEF InOrder
    <3>4. marks'.indexed = 0 /\ marks'.delta = 0
      BY <1>4, <3>2, <3>3 DEF Smaller
    <3>5. Counted
      BY <3>1, <3>2 DEF Counted
    <3> QED
      BY <1>2, <1>8, <2>1, <3>2, <3>3, <3>4, <3>5 DEF Honest
  <2>2. CASE ~(Calm /\ Counted')
    BY <1>8, <2>2 DEF Honest
  <2> QED
    BY <2>1, <2>2
<1> QED
  BY <1>6, <1>7, <1>9, <1>10, <1>11, <1>12

(* What holds in the index stage *)
LEMMA IndexFacts ==
    ASSUME ScopeInv, runner.pc \in Indexing
    PROVE  /\ Typed /\ TypeOK /\ runner \in Runner /\ runner.job \in Jobs /\ runner.job # NoJob
           /\ rows[runner.job].state # "absent" /\ runner.kind \in Kinds /\ Mine \in Gen
           /\ Mine = gens[runner.job][runner.kind] /\ gens \in [Jobs -> [Kinds -> Gen]]
           /\ base \in Jobs \cup {NoJob} /\ delta \in Jobs \cup {NoJob}
           /\ journal \subseteq Purges /\ \A p \in Purges : p \in Jobs
           /\ runner.job \in Purges => runner.kind = "base" /\ runner.job \in journal
           /\ runner.job \in Purges /\ "base" \notin done[runner.job] => ~Calm
           /\ runner.job \notin Purges => Calm
<1>1. Typed /\ TypeOK /\ runner.pc # "idle"
  BY DEF ScopeInv, DiskInv, Typed, Indexing, Building
<1>2. /\ runner \in Runner /\ runner.job \in Jobs /\ runner.job # NoJob
      /\ rows[runner.job].state # "absent"
      /\ runner.job \in Purges => runner.kind = "base"
  BY <1>1, RunnerFacts
<1>3. runner.kind \in Kinds /\ Mine \in Gen
  BY <1>1, <1>2 DEF Runner, TypeOK, Mine
<1>4. /\ runner.job \in Purges => runner.job \in journal
      /\ runner.job \notin Purges => Calm
  BY <1>1 DEF ScopeInv, Busy, Indexing, Building
<1>5. journal \subseteq Purges /\ \A p \in Purges : p \in Jobs
  BY <1>1, JobKinds DEF TypeOK
<1> QED
  BY <1>1, <1>2, <1>3, <1>4, <1>5 DEF TypeOK, Calm, Mine

(* What a recall sees is counted. *)
LEMMA SearchableType ==
    ASSUME TypeOK, base # NoJob
    PROVE  Searchable \in Nat /\ gens[base]["base"].covers \in Nat
  BY Sizes DEF Searchable, Larger, DeltaApplies, TypeOK, Kinds

LEMMA AdvanceKeeps == ASSUME ScopeInv, DiskInv', Advance PROVE ScopeInv'
<1> DEFINE r == runner.job
           k == runner.kind
<1> USE DEF ScopeInv, queue, store, control, bounds
<1>1. /\ runner.pc = "advance" /\ runner.pc \in Indexing /\ k \notin done[r]
      /\ runner.target = marks.source /\ marks.source <= Cardinality(live)
  BY DEF Advance, Indexing, Busy, Balanced
<1>f. /\ Typed /\ TypeOK /\ runner \in Runner /\ k \in Kinds /\ r # NoJob
      /\ rows[r].state # "absent"
  BY <1>1, IndexFacts
<1>2. UNCHANGED <<rows, done, live, journal, gens, base, delta, stale, deletion, targets>>
  BY DEF Advance
<1>3. /\ runner'.job = r /\ runner'.kind = k /\ runner'.pc = "close"
      /\ runner'.target = runner.target
  BY <1>f DEF Advance, Goes, Runner
<1>s. /\ Cardinality(live) \in Nat /\ marks.source \in Nat /\ marks.indexed \in Nat
      /\ marks.delta \in Nat /\ marks.indexed <= marks.delta /\ marks.delta <= marks.source
      /\ live \ Served \in SUBSET live /\ Cardinality(live \ Served) \in Nat
      /\ base # NoJob => Searchable \in Nat /\ gens[base]["base"].covers \in Nat
  BY <1>f, Sizes, SearchableType DEF InOrder
<1>4. /\ marks'.source = marks.source /\ marks'.delta = marks.source
      /\ marks'.indexed = (IF k = "delta" THEN marks.indexed ELSE marks.source)
  <2>1. /\ marks'.source = marks.source /\ marks'.delta = Larger(marks.delta, marks.source)
        /\ marks'.indexed = (IF k = "delta" THEN marks.indexed
                             ELSE Larger(marks.indexed, marks.source))
    BY <1>f, <1>1 DEF Advance, TypeOK
  <2> QED
    BY <1>s, <2>1 DEF Larger
<1>5. Progress' /\ OneDeletion' /\ Written'
  BY <1>2 DEF Progress, OneDeletion, Written
<1>6. /\ Served' = Served /\ Searchable' = Searchable /\ (Calm' <=> Calm)
      /\ \A p \in Purges : Rebuilt(p)' => Rebuilt(p)
  BY <1>1, <1>2, <1>3 DEF Served, Searchable, DeltaApplies, Rebuilt, Calm
<1>7. Busy'
  BY <1>1, <1>2, <1>3, <1>6 DEF Busy, Indexing, Building
<1>8. Copied' /\ Clean' /\ InOrder'
  BY <1>2, <1>3, <1>4, <1>6, <1>s DEF Copied, Clean, InOrder, Building
<1>9. Balanced'
  BY <1>1, <1>2, <1>3, <1>4, <1>6 DEF Balanced
<1>10. Settled'
  BY <1>1, <1>2, <1>3, <1>4, <1>6 DEF Settled
<1>11. Honest'
  <2> SUFFICES ASSUME Calm, Counted', ~stale
               PROVE  /\ Cardinality(live \ Served) + marks'.delta <= marks'.source
                      /\ base # NoJob => /\ marks'.indexed <= gens[base]["base"].covers
                                         /\ Searchable <= marks'.source
                                         /\ marks'.delta <= Searchable
    BY <1>2, <1>6 DEF Honest
  <2>1. Counted
    BY <1>2, <1>4 DEF Counted
  <2>2. Cardinality(live \ Served) = 0
    <3>1. live \ Served = {}
      BY <1>1, <1>2 DEF Settled
    <3> QED
      BY <3>1, FS_EmptySet
  <2>3. base # NoJob => /\ marks.indexed <= gens[base]["base"].covers
                        /\ Searchable <= marks.source
    BY <2>1 DEF Honest
  <2>4. /\ base # NoJob => Searchable >= marks.source
        /\ k = "base" /\ base # NoJob => gens[base]["base"].covers = marks.source
    BY <1>1 DEF Settled
  <2> QED
    BY <1>f, <1>s, <1>4, <2>2, <2>3, <2>4 DEF Kinds
<1> QED
  BY <1>5, <1>7, <1>8, <1>9, <1>10, <1>11

LEMMA CloseKeeps == ASSUME ScopeInv, DiskInv', CloseStage PROVE ScopeInv'
<1> DEFINE r == runner.job
           k == runner.kind
<1> USE DEF ScopeInv, queue, store, control, bounds
<1>1. /\ runner.pc = "close" /\ runner.pc \in Indexing /\ k \notin done[r]
      /\ runner.target = marks.source /\ marks.source <= Cardinality(live)
  BY DEF CloseStage, Indexing, Busy, Balanced
<1>f. /\ Typed /\ TypeOK /\ runner \in Runner /\ k \in Kinds /\ r # NoJob /\ r \in Jobs
      /\ rows[r].state # "absent" /\ journal \subseteq Purges /\ \A p \in Purges : p \in Jobs
      /\ r \in Purges => k = "base" /\ r \in journal
      /\ r \notin Purges => Calm
      /\ done \in [Jobs -> SUBSET (Kinds \cup {"writer"})]
  BY <1>1, IndexFacts DEF TypeOK
<1>2. /\ UNCHANGED <<rows, live, journal, gens, base, delta, stale, marks, deletion, targets>>
      /\ done' = [done EXCEPT ![r] = @ \cup {k}]
  BY DEF CloseStage
<1>3. /\ runner'.job = r /\ runner'.kind = k
      /\ runner'.pc = (IF r \in Purges THEN "complete" ELSE "end")
  BY <1>f DEF CloseStage, Goes, Runner
<1>4. /\ done'[r] = done[r] \cup {k}
      /\ \A j \in Jobs \ {r} : done'[j] = done[j]
      /\ \A j \in Jobs : done[j] \subseteq done'[j]
  BY <1>f, <1>2
<1>s. /\ Cardinality(live) \in Nat /\ marks.source \in Nat /\ marks.indexed \in Nat
      /\ marks.delta \in Nat /\ marks.indexed <= marks.delta /\ marks.delta <= marks.source
      /\ base # NoJob => Searchable \in Nat /\ gens[base]["base"].covers \in Nat
  BY <1>f, Sizes, SearchableType DEF InOrder
<1>5. /\ Served' = Served /\ Searchable' = Searchable
      /\ \A p \in Purges : Rebuilt(p)' => Rebuilt(p)
      /\ \A p \in Purges : "base" \in done[p] => "base" \in done'[p]
  <2>1. \A p \in Purges : Rebuilt(p)' => Rebuilt(p)
    <3> SUFFICES ASSUME NEW p \in Purges, "base" \in done'[p] PROVE Rebuilt(p)
      BY <1>3 DEF Rebuilt
    <3> QED
      BY <1>1, <1>4, <1>f DEF Rebuilt
  <2> QED
    BY <1>2, <1>4, <1>f, <2>1 DEF Served, Searchable, DeltaApplies
<1>6. Progress'
  <2> SUFFICES ASSUME NEW p \in Purges
               PROVE  /\ "base" \in done'[p] => p \in journal
                      /\ deletion[p] = "completed" => "base" \in done'[p]
    BY <1>2 DEF Progress
  <2> QED
    BY <1>4, <1>5, <1>f DEF Progress
<1>7. OneDeletion'
  BY <1>2, <1>5 DEF OneDeletion
<1>c. Calm => Calm'
  BY <1>2, <1>5, <1>f DEF Calm
<1>8. Busy'
  BY <1>2, <1>3, <1>4, <1>f, <1>c DEF Busy, Indexing, Building
<1>9. Written'
  BY <1>2, <1>4, <1>f DEF Written, TypeOK, Jobs
<1>10. Copied' /\ Clean' /\ InOrder' /\ Settled'
  BY <1>2, <1>3, <1>5 DEF Copied, Clean, InOrder, Settled, Building
<1>11. Balanced'
  BY <1>1, <1>2, <1>3, <1>5, <1>f DEF Balanced, Indexing, Building
<1>12. Honest'
  <2> SUFFICES ASSUME Calm', Counted, ~stale
               PROVE  /\ Cardinality(live \ Served) + marks.delta <= marks.source
                      /\ base # NoJob => /\ marks.indexed <= gens[base]["base"].covers
                                         /\ Searchable <= marks.source
                                         /\ marks.delta <= Searchable
    BY <1>2, <1>5 DEF Honest, Counted
  <2>1. CASE Calm
    BY <2>1 DEF Honest
  <2>2. CASE ~Calm
    <3>1. k = "base"
      BY <1>f, <2>2
    <3>2. Cardinality(live \ Served) = 0
      <4>1. live \ Served = {}
        BY <1>1 DEF Settled
      <4> QED
        BY <4>1, FS_EmptySet
    <3>3. base # NoJob => Searchable = marks.source /\ gens[base]["base"].covers = marks.source
      BY <1>1, <3>1 DEF Settled
    <3> QED
      BY <1>s, <3>2, <3>3
  <2> QED
    BY <2>1, <2>2
<1> QED
  BY <1>6, <1>7, <1>8, <1>9, <1>10, <1>11, <1>12

(* A generation is written that is not sealed: what a recall sees is not    *)
(* touched, and nothing lies over it yet.                                  *)
LEMMA FillKeeps ==
    ASSUME ScopeInv, DiskInv', NEW gen \in Gen,
           runner.pc \in {"index", "build", "seal"}, runner.kind \notin done[runner.job],
           gens' = [gens EXCEPT ![runner.job][runner.kind] = gen],
           Mine.stage # "committed",
           runner.kind = "delta" => gen.stage # "empty" /\ gen.over = base /\ base # NoJob,
           UNCHANGED <<rows, done, live, journal, base, delta, stale, marks, deletion, targets>>,
           runner'.job = runner.job, runner'.kind = runner.kind, runner'.target = runner.target,
           runner'.pc = "index" \/ runner'.pc \in Building,
           runner'.pc \in Building => (~runner'.old => gen.has = live),
           runner'.pc = "activate" => gen.covers = runner.target
    PROVE  ScopeInv'
<1> DEFINE r == runner.job
           k == runner.kind
<1> USE DEF ScopeInv
<1>1. runner.pc \in Indexing /\ runner'.pc \in Indexing
  BY DEF Indexing, Building
<1>f. /\ Typed /\ TypeOK /\ runner \in Runner /\ k \in Kinds /\ r # NoJob /\ r \in Jobs
      /\ rows[r].state # "absent" /\ Mine = gens[r][k] /\ gens \in [Jobs -> [Kinds -> Gen]]
      /\ base \in Jobs \cup {NoJob} /\ delta \in Jobs \cup {NoJob}
      /\ r \in Purges => k = "base" /\ r \in journal
      /\ r \notin Purges => Calm
  BY <1>1, IndexFacts
<1>g. \A j \in Jobs, m \in Kinds : gens'[j][m] = IF j = r /\ m = k THEN gen ELSE gens[j][m]
  BY <1>f
<1>k. "base" \in Kinds /\ "delta" \in Kinds
  BY DEF Kinds
<1>m. Mine' = gen
  BY <1>f, <1>g DEF Mine
<1>p. /\ base # NoJob => gens[base]["base"].stage = "committed"
      /\ delta # NoJob => gens[delta]["delta"].stage = "committed"
  BY DEF DiskInv, PointersNameSealed, Sealed
<1>2. /\ base # NoJob => gens'[base]["base"] = gens[base]["base"]
      /\ delta # NoJob => gens'[delta]["delta"] = gens[delta]["delta"]
  <2>1. base # NoJob => ~(base = r /\ "base" = k)
    BY <1>f, <1>p
  <2>2. delta # NoJob => ~(delta = r /\ "delta" = k)
    BY <1>f, <1>p
  <2> QED
    BY <1>f, <1>g, <1>k, <2>1, <2>2
<1>3. Served' = Served /\ (base # NoJob => Searchable' = Searchable) /\ (Calm' <=> Calm)
      /\ \A p \in Purges : Rebuilt(p)' => Rebuilt(p)
  <2>1. DeltaApplies' <=> DeltaApplies
    BY <1>2 DEF DeltaApplies
  <2>2. Served' = Served
    BY <1>2, <2>1 DEF Served, DeltaApplies
  <2>3. base # NoJob => Searchable' = Searchable
    BY <1>2, <2>1 DEF Searchable, DeltaApplies
  <2> QED
    BY <1>1, <2>2, <2>3 DEF Rebuilt, Calm, Building
<1>4. Progress' /\ OneDeletion' /\ Written' /\ InOrder'
  BY DEF Progress, OneDeletion, Written, InOrder
<1>5. Busy'
  <2>1. runner'.pc \in {"index"} \cup Building
    OBVIOUS
  <2> QED
    BY <1>f, <1>3, <2>1 DEF Busy, Indexing, Building
<1>6. Copied'
  <2>1. ASSUME NEW j \in Jobs
        PROVE  /\ gens'[j]["delta"].over \in Jobs =>
                     gens'[gens'[j]["delta"].over]["base"].stage = "committed"
               /\ gens'[j]["delta"].stage # "none" => gens'[j]["delta"].over # NoJob
               /\ gens'[j]["delta"].stage # "empty"
    <3>1. \/ gens'[j]["delta"] = gens[j]["delta"]
          \/ gens'[j]["delta"].over = base /\ base # NoJob
      BY <1>f, <1>g, <1>k
    <3>2. ASSUME NEW b \in Jobs, gens[b]["base"].stage = "committed"
          PROVE  gens'[b]["base"].stage = "committed"
      BY <1>f, <1>g, <1>k, <3>2
    <3>3. gens'[j]["delta"].over \in Jobs =>
             gens[gens'[j]["delta"].over]["base"].stage = "committed"
      BY <1>p, <3>1, JobKinds DEF Copied
    <3>4. /\ gens'[j]["delta"].stage # "none" => gens'[j]["delta"].over # NoJob
          /\ gens'[j]["delta"].stage # "empty"
      BY <1>f, <1>g, <1>k, <3>1 DEF Copied
    <3> QED
      BY <3>2, <3>3, <3>4
  <2>2. ASSUME k = "base", NEW j \in Jobs PROVE gens'[j]["delta"].over # r
    <3>1. gens'[j]["delta"] = gens[j]["delta"]
      BY <1>g, <1>k, <2>2
    <3> QED
      BY <1>f, <2>2, <3>1 DEF Copied
  <2> QED
    BY <1>m, <2>1, <2>2 DEF Copied
<1>7. Clean'
  BY <1>3 DEF Clean
<1>8. Balanced'
  BY <1>1, <1>3 DEF Balanced
<1>9. Settled'
  BY DEF Settled, Building
<1>10. Honest'
  BY <1>2, <1>3 DEF Honest, Counted
<1> QED
  BY <1>4, <1>5, <1>6, <1>7, <1>8, <1>9, <1>10

(* A generation that holds the database, or is known to be old, is made    *)
(* the active one.                                                         *)
LEMMA ActivationCounts ==
    ASSUME ScopeInv, DiskInv', NEW b \in Jobs \cup {NoJob}, NEW d \in Jobs \cup {NoJob},
           NEW old \in BOOLEAN, Activates(b, d, old),
           runner.pc \in {"index", "activate"}, runner.kind \notin done[runner.job],
           UNCHANGED <<rows, done, live, journal, marks, deletion, targets>>,
           \/ /\ runner.kind = "base" /\ b = runner.job /\ d = delta
              /\ ~old => /\ Mine.has = live /\ Mine.covers = runner.target
                         /\ delta # NoJob => gens[delta]["delta"].over # runner.job
           \/ /\ runner.kind = "delta" /\ b = base /\ base # NoJob /\ d = runner.job
              /\ Mine.over = base
              /\ ~old => Mine.has = live /\ Mine.covers = runner.target
           \/ /\ runner.kind = "base" /\ b = NoJob
              /\ ~old => live = {} /\ runner.target = 0
    PROVE  ScopeInv'
<1> DEFINE r == runner.job
           k == runner.kind
<1> USE DEF ScopeInv
<1>1. /\ runner.pc \in Indexing /\ runner.target = marks.source
      /\ marks.source <= Cardinality(live)
  BY DEF Indexing, Building, Balanced
<1>f. /\ Typed /\ TypeOK /\ runner \in Runner /\ k \in Kinds /\ r # NoJob /\ r \in Jobs
      /\ rows[r].state # "absent" /\ Mine = gens[r][k] /\ Mine \in Gen
      /\ gens \in [Jobs -> [Kinds -> Gen]]
      /\ base \in Jobs \cup {NoJob} /\ delta \in Jobs \cup {NoJob}
      /\ journal \subseteq Purges
      /\ r \in Purges => k = "base" /\ r \in journal
      /\ r \in Purges /\ "base" \notin done[r] => ~Calm
      /\ r \notin Purges => Calm
  BY <1>1, IndexFacts
<1>2. /\ runner'.job = r /\ runner'.kind = k /\ runner'.pc = "advance"
      /\ runner'.target = runner.target
      /\ base' = b /\ delta' = d /\ gens' = Pruned(gens, b, d)
      /\ stale' = (old \/ (k = "delta" /\ stale))
  BY <1>f DEF Activates, Goes, Runner
<1>g. \A j \in Jobs, m \in Kinds :
         /\ gens'[j][m].stage = gens[j][m].stage
         /\ gens'[j][m].has = gens[j][m].has
         /\ gens'[j][m].covers = gens[j][m].covers
         /\ gens'[j][m].over = gens[j][m].over
  BY <1>f, <1>2, PrunedTypes
<1>k. "base" \in Kinds /\ "delta" \in Kinds
  BY DEF Kinds
<1>s. /\ Cardinality(live) \in Nat /\ marks.source \in Nat /\ marks.indexed \in Nat
      /\ marks.delta \in Nat /\ marks.indexed <= marks.delta /\ marks.delta <= marks.source
      /\ base # NoJob => Searchable \in Nat /\ gens[base]["base"].covers \in Nat
  BY <1>f, Sizes, SearchableType DEF InOrder
<1>c. Calm' <=> Calm
  BY DEF Calm
<1>3. Progress' /\ OneDeletion' /\ Written' /\ InOrder'
  BY DEF Progress, OneDeletion, Written, InOrder
<1>4. Busy'
  BY <1>2, <1>f, <1>c DEF Busy, Indexing, Building
<1>5. Copied'
  <2>1. ASSUME NEW j \in Jobs
        PROVE  /\ gens'[j]["delta"].over \in Jobs =>
                     gens'[gens'[j]["delta"].over]["base"].stage = "committed"
               /\ gens'[j]["delta"].stage # "none" => gens'[j]["delta"].over # NoJob
               /\ gens'[j]["delta"].stage # "empty"
    BY <1>g, <1>k DEF Copied
  <2> QED
    BY <1>2, <2>1 DEF Copied, Building
<1>6. Balanced'
  BY <1>1, <1>2, <1>c DEF Balanced
<1>7. CASE k = "base" /\ b = r /\ d = delta
  <2>1. ASSUME ~stale'
        PROVE  /\ ~DeltaApplies' /\ Served' = live /\ Searchable' = marks.source
               /\ gens'[r]["base"].covers = marks.source
    <3>1. Mine.has = live /\ Mine.covers = marks.source
          /\ (delta # NoJob => gens[delta]["delta"].over # r)
      BY <1>1, <1>2, <1>7, <1>f, <2>1
    <3>2. gens'[r]["base"].has = live /\ gens'[r]["base"].covers = marks.source
      BY <1>f, <1>g, <1>7, <3>1
    <3>3. ~DeltaApplies'
      BY <1>2, <1>7, <1>f, <1>g, <1>k, <3>1 DEF DeltaApplies
    <3>4. Served' = live
      BY <1>2, <1>7, <1>f, <3>2, <3>3 DEF Served
    <3>5. Searchable' = Larger(marks.source, 0)
      BY <1>2, <1>7, <1>f, <3>2, <3>3 DEF Searchable
    <3> QED
      BY <1>s, <3>2, <3>3, <3>4, <3>5 DEF Larger
  <2>2. Clean'
    <3> SUFFICES ASSUME ~stale', NEW p \in Purges, Rebuilt(p)' PROVE live \cap targets[p] = {}
      BY <2>1 DEF Clean
    <3>1. p \in journal
      BY <1>2, <1>f DEF Rebuilt, Progress
    <3> QED
      BY <3>1 DEF Written
  <2>3. Settled'
    BY <1>2, <1>7, <1>f, <1>s, <2>1 DEF Settled
  <2>4. Honest'
    <3> SUFFICES ASSUME ~stale'
                 PROVE  /\ Cardinality(live \ Served') + marks.delta <= marks.source
                        /\ marks.indexed <= gens'[r]["base"].covers
                        /\ Searchable' <= marks.source /\ marks.delta <= Searchable'
      BY <1>2, <1>7, <1>c DEF Honest, Counted
    <3>1. live \ Served' = {}
      BY <2>1
    <3>2. Cardinality(live \ Served') = 0
      BY <3>1, FS_EmptySet
    <3> QED
      BY <1>s, <2>1, <3>2
  <2> QED
    BY <1>3, <1>4, <1>5, <1>6, <2>2, <2>3, <2>4
<1>8. CASE k = "base" /\ b = NoJob
  <2>0. Served' = {}
    BY <1>2, <1>8 DEF Served
  <2>1. ~stale' => live = {} /\ marks.source = 0
    BY <1>1, <1>2, <1>8, <1>f, JobKinds
  <2>2. Clean'
    BY <2>0 DEF Clean
  <2>3. Settled'
    BY <1>2, <1>8, <2>0, <2>1 DEF Settled
  <2>4. Honest'
    <3> SUFFICES ASSUME ~stale' PROVE Cardinality(live \ Served') + marks.delta <= marks.source
      BY <1>2, <1>8 DEF Honest
    <3>1. live \ Served' = {}
      BY <2>1
    <3>2. Cardinality(live \ Served') = 0
      BY <3>1, FS_EmptySet
    <3> QED
      BY <1>s, <3>2
  <2> QED
    BY <1>3, <1>4, <1>5, <1>6, <2>2, <2>3, <2>4
<1>9. CASE k = "delta" /\ b = base /\ base # NoJob /\ d = r /\ Mine.over = base
  <2>1. r \notin Purges /\ Calm
    BY <1>9, <1>f
  <2>2. /\ DeltaApplies'
        /\ Served' = gens[base]["base"].has \cup Mine.has
        /\ Searchable' = Larger(gens[base]["base"].covers, Mine.covers)
        /\ gens'[base]["base"].covers = gens[base]["base"].covers
    <3>1. DeltaApplies'
      BY <1>2, <1>9, <1>f, <1>g DEF DeltaApplies
    <3>2. /\ gens'[base]["base"].has = gens[base]["base"].has
          /\ gens'[base]["base"].covers = gens[base]["base"].covers
          /\ gens'[r]["delta"].has = Mine.has /\ gens'[r]["delta"].covers = Mine.covers
      BY <1>9, <1>f, <1>g, <1>k
    <3>3. Served' = gens[base]["base"].has \cup Mine.has
      BY <1>2, <1>9, <3>1, <3>2 DEF Served
    <3>4. Searchable' = Larger(gens[base]["base"].covers, Mine.covers)
      BY <1>2, <1>9, <3>1, <3>2 DEF Searchable
    <3> QED
      BY <3>1, <3>2, <3>3, <3>4
  <2>3. ~stale' => ~stale /\ Mine.has = live /\ Mine.covers = marks.source
    BY <1>1, <1>2, <1>9
  <2>c. Mine.covers \in Nat
    BY <1>f DEF Gen
  <2>4. Clean'
    <3> SUFFICES ASSUME ~stale', NEW p \in Purges, Rebuilt(p)' PROVE Served' \cap targets[p] = {}
      BY DEF Clean
    <3>1. "base" \in done[p] /\ p \in journal
      BY <1>2, <2>1 DEF Rebuilt, Progress
    <3>2. Served \cap targets[p] = {} /\ live \cap targets[p] = {}
      BY <2>3, <3>1 DEF Clean, Rebuilt, Written
    <3>3. gens[base]["base"].has \subseteq Served
      BY <1>9 DEF Served
    <3> QED
      BY <2>2, <2>3, <3>2, <3>3
  <2>5. ~stale' => Searchable' >= marks.source
    BY <1>9, <1>s, <2>2, <2>3, <2>c DEF Larger
  <2>6. Settled'
    BY <1>2, <1>9, <2>2, <2>3, <2>5 DEF Settled
  <2>7. Honest'
    <3> SUFFICES ASSUME ~stale', Counted
                 PROVE  /\ Cardinality(live \ Served') + marks.delta <= marks.source
                        /\ marks.indexed <= gens'[base]["base"].covers
                        /\ Searchable' <= marks.source /\ marks.delta <= Searchable'
      BY <1>2, <1>9, <1>c DEF Honest, Counted
    <3>1. live \ Served' = {}
      BY <2>2, <2>3
    <3>2. Cardinality(live \ Served') = 0
      BY <3>1, FS_EmptySet
    <3>3. marks.indexed <= gens[base]["base"].covers /\ Searchable <= marks.source
      BY <1>9, <2>1, <2>3 DEF Honest
    <3>4. gens[base]["base"].covers <= Searchable
      <4>1. DeltaApplies => gens[delta]["delta"].covers \in Nat
        BY <1>f, Sizes DEF DeltaApplies, Kinds
      <4> QED
        BY <1>9, <1>s, <4>1 DEF Searchable, Larger
    <3>5. Searchable' = marks.source
      BY <1>9, <1>s, <2>2, <2>3, <2>c, <3>3, <3>4 DEF Larger
    <3> QED
      BY <1>s, <2>2, <3>2, <3>3, <3>5
  <2> QED
    BY <1>3, <1>4, <1>5, <1>6, <2>4, <2>6, <2>7
<1> QED
  BY <1>7, <1>8, <1>9

LEMMA IndexCounts == ASSUME ScopeInv, DiskInv', IndexStep PROVE ScopeInv'
<1> DEFINE r == runner.job
           k == runner.kind
<1> USE DEF queue, store, control, bounds
<1>1. CASE SkipIndex
  BY <1>1, RunnerKeeps
<1>2. CASE Advance
  BY <1>2, AdvanceKeeps
<1>3. CASE CloseStage
  BY <1>3, CloseKeeps
<1>4. CASE /\ ~SkipIndex /\ ~Advance /\ ~CloseStage
           /\ runner.pc \in Indexing /\ k \notin done[r]
  <2>f. /\ Typed /\ TypeOK /\ runner \in Runner /\ r \in Jobs /\ k \in Kinds /\ Mine \in Gen
        /\ gens \in [Jobs -> [Kinds -> Gen]] /\ Mine = gens[r][k]
        /\ base \in Jobs \cup {NoJob} /\ delta \in Jobs \cup {NoJob}
    BY <1>4, IndexFacts
  <2>n. live \in SUBSET Ingests /\ marks.source \in Nat /\ runner.target \in Nat
    BY <2>f DEF TypeOK, Runner
  <2>o. Outdated \in BOOLEAN /\ runner.old \in BOOLEAN
    BY <2>f DEF Outdated, Runner
  <2>1. CASE Replay
    <3>1. /\ runner.pc = "index" /\ UNCHANGED <<rows, done, live, journal, marks, deletion, targets>>
          /\ \/ k = "base" /\ Activates(r, delta, Outdated)
             \/ k = "delta" /\ Mine.over = base /\ Activates(base, r, Outdated)
      BY <2>1, <2>f DEF Replay, RunsStage, Kinds
    <3>2. CASE k = "base"
      <4>1. Activates(r, delta, Outdated)
        BY <3>1, <3>2
      <4>2. ~Outdated => /\ Mine.has = live /\ Mine.covers = runner.target
                         /\ delta # NoJob => gens[delta]["delta"].over # r
        BY <3>2 DEF Outdated
      <4> QED
        BY <1>4, <2>f, <2>o, <3>1, <3>2, <4>1, <4>2, ActivationCounts
    <3>3. CASE k = "delta"
      <4>1. Activates(base, r, Outdated) /\ Mine.over = base
        BY <3>1, <3>3
      <4>2. ~Outdated => Mine.has = live /\ Mine.covers = runner.target
        BY DEF Outdated
      <4>3. base # NoJob
        BY <2>1, <3>3, <4>1, <2>f DEF ScopeInv, Copied, Replay, RunsStage
      <4> QED
        BY <1>4, <2>f, <2>o, <3>1, <3>3, <4>1, <4>2, <4>3, ActivationCounts
    <3> QED
      BY <2>f, <3>2, <3>3 DEF Kinds
  <2>2. CASE ActivateEmpty
    <3> DEFINE wrong == live # {} \/ runner.target # 0
    <3>1. /\ runner.pc = "index" /\ UNCHANGED <<rows, done, live, journal, marks, deletion, targets>>
          /\ Activates(NoJob, NoJob, wrong) /\ Mine.stage = "empty"
      BY <2>2 DEF ActivateEmpty, RunsStage
    <3>2. k = "base"
      BY <2>f, <3>1 DEF ScopeInv, Copied, Kinds
    <3>3. wrong \in BOOLEAN /\ (~wrong => live = {} /\ runner.target = 0)
      OBVIOUS
    <3> HIDE DEF wrong
    <3> QED
      BY <1>4, <3>1, <3>2, <3>3, ActivationCounts
  <2>3. CASE Activate
    <3>1. /\ runner.pc = "activate" /\ UNCHANGED <<rows, done, live, journal, marks, deletion, targets>>
          /\ \/ k = "base" /\ Activates(r, delta, runner.old)
             \/ k = "delta" /\ Activates(base, r, runner.old)
      BY <2>3, <2>f DEF Activate, Kinds
    <3>2. /\ ~runner.old => Mine.has = live
          /\ k = "base" => \A j \in Jobs : gens[j]["delta"].over # r
          /\ k = "delta" => base # NoJob /\ Mine.over = base
          /\ Mine.covers = runner.target
      BY <3>1 DEF ScopeInv, Copied, Building
    <3>3. CASE k = "base"
      <4>1. Activates(r, delta, runner.old)
        BY <3>1, <3>3
      <4>2. delta # NoJob => gens[delta]["delta"].over # r
        BY <2>f, <3>2, <3>3
      <4> QED
        BY <1>4, <2>f, <2>o, <3>1, <3>2, <3>3, <4>1, <4>2, ActivationCounts
    <3>4. CASE k = "delta"
      <4>1. Activates(base, r, runner.old)
        BY <3>1, <3>4
      <4> QED
        BY <1>4, <2>f, <2>o, <3>1, <3>2, <3>4, <4>1, ActivationCounts
    <3> QED
      BY <2>f, <3>3, <3>4 DEF Kinds
  <2>4. CASE CommitEmpty
    <3> DEFINE gen == [Mine EXCEPT !.stage = "empty"]
    <3>1. /\ runner.pc = "index" /\ k = "base" /\ Mine.stage # "committed"
          /\ UNCHANGED <<rows, done, live, journal, base, delta, stale, marks, deletion, targets,
                         runner>>
      BY <2>4 DEF CommitEmpty, RunsStage
    <3>2. gen \in Gen
      BY <2>f DEF Gen
    <3>3. gens' = [gens EXCEPT ![r][k] = gen]
      BY <2>4, <2>f, <3>1 DEF CommitEmpty
    <3> HIDE DEF gen
    <3> QED
      BY <1>4, <3>1, <3>2, <3>3, FillKeeps DEF Building
  <2>5. CASE CopyDatabase
    <3> DEFINE resumed == k = "base" /\ Mine.stage # "none"
    <3>1. /\ runner.pc = "index" /\ Mine.stage \notin {"committed", "empty"}
          /\ k = "delta" => base # NoJob
          /\ UNCHANGED <<rows, done, live, journal, base, delta, stale, marks, deletion, targets>>
      BY <2>5 DEF CopyDatabase, RunsStage
    <3>2. /\ runner'.job = r /\ runner'.kind = k /\ runner'.target = runner.target
          /\ runner'.pc \in {"seal", "build"}
          /\ runner'.old = (resumed /\ Mine.has # live)
      BY <2>5, <2>f DEF CopyDatabase, Runner
    <3>3. CASE resumed
      <4>1. gens' = [gens EXCEPT ![r][k] = Mine]
        BY <2>5, <2>f, <3>3 DEF CopyDatabase
      <4>2. ~runner'.old => Mine.has = live
        BY <3>2, <3>3
      <4>3. k = "base" /\ k # "delta"
        BY <3>3
      <4> QED
        BY <1>4, <2>f, <3>1, <3>2, <4>1, <4>2, <4>3, FillKeeps DEF Building
    <3>4. CASE ~resumed
      <4>1. gens' = [gens EXCEPT ![r][k] = Fresh]
        BY <2>5, <3>4 DEF CopyDatabase
      <4>2. /\ Fresh \in Gen /\ Fresh.stage = "copied" /\ Fresh.has = live /\ Fresh.over = base
        BY <2>f, <2>n DEF Fresh, NoGen, Gen
      <4> HIDE DEF resumed
      <4> QED
        BY <1>4, <3>1, <3>2, <4>1, <4>2, FillKeeps DEF Building
    <3> QED
      BY <3>3, <3>4
  <2>6. CASE BuildIndex
    <3> DEFINE gen == [Mine EXCEPT !.stage = "built", !.at = Now(k)]
    <3>1. /\ runner.pc = "build" /\ Mine.stage \in {"copied", "built"}
          /\ UNCHANGED <<rows, done, live, journal, base, delta, stale, marks, deletion, targets>>
          /\ ~runner.old => Mine.has = live
          /\ k = "delta" => base # NoJob /\ Mine.over = base
      BY <2>6 DEF BuildIndex, ScopeInv, DiskInv, OnDisk, Copied, Building
    <3>2. /\ runner'.job = r /\ runner'.kind = k /\ runner'.target = runner.target
          /\ runner'.pc = "seal" /\ runner'.old = runner.old
      BY <2>6, <2>f DEF BuildIndex, Goes, Runner
    <3>3. gens' = [gens EXCEPT ![r][k] = gen]
      BY <2>6, <2>f DEF BuildIndex
    <3>4. gen \in Gen /\ gen.stage = "built" /\ gen.has = Mine.has /\ gen.over = Mine.over
      <4>1. Now(k) \in Nat
        BY Counts DEF Now
      <4> QED
        BY <2>f, <4>1 DEF Gen
    <3> HIDE DEF gen
    <3> QED
      BY <1>4, <3>1, <3>2, <3>3, <3>4, FillKeeps DEF Building
  <2>7. CASE Seal
    <3> DEFINE gen == [Mine EXCEPT !.stage = "committed", !.covers = runner.target]
    <3>1. /\ runner.pc = "seal" /\ Mine.stage = "built"
          /\ UNCHANGED <<rows, done, live, journal, base, delta, stale, marks, deletion, targets>>
          /\ ~runner.old => Mine.has = live
          /\ k = "delta" => base # NoJob /\ Mine.over = base
      BY <2>7 DEF Seal, ScopeInv, DiskInv, OnDisk, Copied, Building
    <3>2. /\ runner'.job = r /\ runner'.kind = k /\ runner'.target = runner.target
          /\ runner'.pc = "activate" /\ runner'.old = runner.old
      BY <2>7, <2>f DEF Seal, Goes, Runner
    <3>3. gens' = [gens EXCEPT ![r][k] = gen]
      BY <2>7, <2>f DEF Seal
    <3>4. /\ gen \in Gen /\ gen.stage = "committed" /\ gen.has = Mine.has /\ gen.over = Mine.over
          /\ gen.covers = runner.target
      BY <2>f, <2>n DEF Gen
    <3> HIDE DEF gen
    <3> QED
      BY <1>4, <3>1, <3>2, <3>3, <3>4, FillKeeps DEF Building
  <2> QED
    BY <1>4, <2>1, <2>2, <2>3, <2>4, <2>5, <2>6, <2>7 DEF IndexStep
<1>5. IndexStep => SkipIndex \/ (runner.pc \in Indexing /\ k \notin done[r])
  BY DEF IndexStep, Replay, CommitEmpty, ActivateEmpty, CopyDatabase, BuildIndex, Seal, Activate,
         Advance, CloseStage, RunsStage, Indexing, Building, ScopeInv, Busy
<1> QED
  BY <1>1, <1>2, <1>3, <1>4, <1>5

-----------------------------------------------------------------------------
LEMMA InitScope == Init => ScopeInv
<1> SUFFICES ASSUME Init PROVE ScopeInv
  OBVIOUS
<1>1. DiskInv
  BY InitTypes DEF Init, DiskInv, OnDisk, PointersNameSealed, NoGen, Resting
<1>2. NoJob \notin Jobs /\ runner.job = NoJob /\ runner.pc = "idle" /\ runner.kind = "base"
  BY JobKinds DEF Init, Resting
<1>3. /\ \A j \in Jobs, k \in Kinds : gens[j][k] = NoGen
      /\ live = {} /\ journal = {} /\ base = NoJob /\ delta = NoJob
      /\ marks.source = 0 /\ marks.indexed = 0 /\ marks.delta = 0
      /\ \A j \in Jobs : done[j] = {} /\ rows[j].state = "absent"
      /\ \A p \in Purges : deletion[p] = "absent" /\ targets[p] = {}
  BY DEF Init
<1>4. Progress /\ OneDeletion /\ Written /\ InOrder
  BY <1>3, JobKinds DEF Progress, OneDeletion, Written, InOrder
<1>5. Busy
  BY <1>2, <1>3, JobKinds DEF Busy, Calm, Building
<1>6. Copied
  BY <1>2, <1>3 DEF Copied, NoGen, Kinds, Building
<1>7. Served = {}
  BY <1>3 DEF Served
<1>8. Clean /\ Settled
  BY <1>2, <1>7 DEF Clean, Settled
<1>9. Cardinality(live) = 0 /\ Cardinality(live \ Served) = 0
  <2>1. live = {} /\ live \ Served = {}
    BY <1>3
  <2> QED
    BY <2>1, FS_EmptySet
<1>10. Balanced /\ Honest
  BY <1>2, <1>3, <1>9 DEF Balanced, Honest, Indexing, Building
<1> QED
  BY <1>1, <1>4, <1>5, <1>6, <1>8, <1>10 DEF ScopeInv

LEMMA ScopeKept == ScopeInv /\ [Next]_vars => ScopeInv'
<1> SUFFICES ASSUME ScopeInv, [Next]_vars PROVE ScopeInv'
  OBVIOUS
<1>1. DiskInv'
  BY DiskKept DEF ScopeInv
<1>2. ASSUME NEW j \in Ingests \cup Rebuilds, Submit(j) PROVE ScopeInv'
  <2>1. j \in Jobs /\ j \notin Purges
    BY JobKinds
  <2>2. rows[j].state = "absent" /\ rows' = Enqueued(j)
        /\ UNCHANGED <<done, store, marks, runner, deletion, targets>>
    BY <1>2 DEF Submit, control
  <2> QED
    BY <1>1, <2>1, <2>2, SubmitKeeps
<1>3. ASSUME NEW p \in Purges, NEW events \in SUBSET Ingests, SubmitPurge(p, events) PROVE ScopeInv'
  <2>1. p \in Jobs
    BY JobKinds
  <2>2. rows[p].state = "absent" /\ rows' = Enqueued(p)
        /\ UNCHANGED <<done, store, marks, runner>>
        /\ events \in SUBSET live /\ Open /\ events # {}
        /\ deletion' = [deletion EXCEPT ![p] = "requested"]
        /\ targets' = [targets EXCEPT ![p] = events]
    BY <1>3 DEF SubmitPurge
  <2> QED
    BY <1>1, <2>1, <2>2, SubmitKeeps
<1>4. ASSUME NEW j \in Jobs, Sweep(j) \/ Cancel(j) \/ Retry(j) \/ Claim(j) \/ Recover(j)
      PROVE  ScopeInv'
  BY <1>1, <1>4, QueueKeeps
<1>5. CASE RunnerStep
  BY <1>1, <1>5, RunnerKeeps, WriteKeeps, PurgeKeeps, UnlinkKeeps, CleanKeeps, IndexCounts
     DEF RunnerStep
<1>6. CASE Crash \/ Start \/ UNCHANGED vars
  BY <1>1, <1>6, QueueKeeps
<1> QED
  BY <1>2, <1>3, <1>4, <1>5, <1>6 DEF Next, Work

(* Once a deletion is completed and the scope is open again, no recall     *)
(* finds an event it deleted, unless a generation that an earlier attempt  *)
(* copied or committed was activated over another database: whatever       *)
(* crashes and failures there are, and whatever is retried, cancelled or   *)
(* submitted meanwhile.                                                    *)
THEOREM DeletedNeverServed == Spec => []DeletedUnlessStale
<1>1. ScopeInv => DeletedUnlessStale
  <2> SUFFICES ASSUME ScopeInv, ~stale, NEW p \in Purges, deletion[p] = "completed"
               PROVE  Served \cap targets[p] = {}
    BY DEF DeletedUnlessStale, DeletedStaysGone
  <2>1. Rebuilt(p)
    BY DEF ScopeInv, Progress, Rebuilt
  <2> QED
    BY <2>1 DEF ScopeInv, Clean
<1> QED
  BY InitScope, ScopeKept, <1>1, PTL DEF Spec

(* As long as the ledger counts the events of the scope and no outdated    *)
(* generation was activated, a scope that is open misses no more events in *)
(* what recall is served than the ledger says are still to be indexed.     *)
THEOREM HonestLag == Spec => []LagIsHonest
<1>1. ScopeInv => LagIsHonest
  <2> SUFFICES ASSUME ScopeInv, Open, Counted, ~stale
               PROVE  Cardinality(live \ Served) <= marks.source - marks.delta
    BY DEF LagIsHonest
  <2>1. Cardinality(live \ Served) + marks.delta <= marks.source
    BY OpenCalm DEF ScopeInv, Honest
  <2>2. /\ Cardinality(live \ Served) \in Nat
        /\ marks.source \in Nat /\ marks.delta \in Nat
    BY Sizes DEF ScopeInv, DiskInv, Typed
  <2> QED
    BY <2>1, <2>2
<1> QED
  BY InitScope, ScopeKept, <1>1, PTL DEF Spec

(* Under the same provisos the startup preflight accepts the scope in      *)
(* every state, between the commit of a generation, its activation and the *)
(* ledger too.                                                             *)
THEOREM PreflightPasses == Spec => []AuditPasses
<1>1. ScopeInv => AuditPasses
  <2> SUFFICES ASSUME ScopeInv, Counted, ~stale, Open
               PROVE  /\ marks.indexed <= marks.delta /\ marks.delta <= marks.source
                      /\ marks.source > 0 =>
                            IF base = NoJob THEN marks.delta = 0
                            ELSE /\ Searchable <= marks.source
                                 /\ marks.indexed <= gens[base]["base"].covers
                                 /\ marks.delta <= Searchable
    BY DEF AuditPasses, Audited
  <2>1. /\ Cardinality(live \ Served) + marks.delta <= marks.source
        /\ base # NoJob => /\ marks.indexed <= gens[base]["base"].covers
                           /\ Searchable <= marks.source /\ marks.delta <= Searchable
    BY OpenCalm DEF ScopeInv, Honest
  <2>2. CASE base = NoJob
    <3>1. live \ Served = live
      BY <2>2 DEF Served
    <3>2. /\ Cardinality(live) = marks.source
          /\ marks.source \in Nat /\ marks.delta \in Nat
      BY Sizes DEF ScopeInv, DiskInv, Typed, Counted
    <3>3. marks.delta = 0
      BY <2>1, <3>1, <3>2
    <3> QED
      BY <2>2, <3>3 DEF ScopeInv, InOrder
  <2>3. CASE base # NoJob
    BY <2>1, <2>3 DEF ScopeInv, InOrder
  <2> QED
    BY <2>2, <2>3
<1> QED
  BY InitScope, ScopeKept, <1>1, PTL DEF Spec
=============================================================================
