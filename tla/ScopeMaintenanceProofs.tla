------------------------ MODULE ScopeMaintenanceProofs ------------------------
(***************************************************************************)
(* Proofs about the derived work of a scope, for every number of worker    *)
(* loops, ingests and faults.                                             *)
(***************************************************************************)
EXTENDS ScopeMaintenance, FiniteSetTheorems, TLAPS

Exists(k) == rows[k].state # "absent"

(* The numbers of the jobs are those of one head, each given once. *)
Numbered ==
    /\ \A k \in Keys : Exists(k) => rows[k].seq < head
    /\ \A k, i \in Keys : k # i /\ Exists(k) /\ Exists(i) => rows[k].seq # rows[i].seq

(* Nothing is planned, queued or built for a source that is not there. *)
Aims ==
    /\ \A p \in Schedulers, d \in Derived : plans[p].due[d] <= marks.source
    /\ \A k \in Keys : k.type \in Derived /\ Exists(k) => k.at <= marks.source
    /\ runner.target <= marks.source

PlansOK ==
    \A p \in Schedulers : plans[p].pc \in {"prove", "proven", "refused"} =>
        plans[p].key \in Keys /\ Exists(plans[p].key)

(* A job at work has not failed, so nobody can requeue it. *)
HolderOK ==
    /\ \A k \in waiting : Exists(k)
    /\ runner.pc \notin {"idle", "resume"} => rows[runner.job].state \in {"running", "cancelled"}
    /\ runner.pc = "resume" => Exists(runner.job)

Owned == \A c \in Kinds : claims[c] # NoKey => Active(claims[c])

(* A proof that nobody has interfered with still holds. *)
Proven ==
    /\ \A p \in Schedulers : p \in proofs => plans[p].pc = "proven" /\ Provable(plans[p].key)
    /\ Worker \in proofs => runner.pc = "proven" /\ Provable(runner.job)

(* The source watermark counts the journalled ingests. *)
Places(ks) == {k.at : k \in ks}

Journal ==
    /\ \A k \in committed : k.type = "ingest"
    /\ marks.source = Cardinality(Places(committed))
    /\ runner.pc = "record" => runner.job.type = "ingest"

MaintInv ==
    /\ TypeOK /\ Journal /\ Numbered /\ Aims /\ PlansOK /\ HolderOK /\ Owned /\ Proven
    /\ WatermarkOrder

LEMMA Bounded ==
    ASSUME TypeOK, Journal
    PROVE  marks.source \in 0..MaxSource /\ IsFiniteSet(Places(committed))
<1>1. Places(committed) \subseteq 1..MaxSource /\ MaxSource \in Nat
  BY ScopeMaintenanceAssumption DEF TypeOK, Keys, Places
<1>2. IsFiniteSet(1..MaxSource) /\ Cardinality(1..MaxSource) = MaxSource
  BY <1>1, FS_Interval
<1>3. /\ IsFiniteSet(Places(committed)) /\ Cardinality(Places(committed)) <= MaxSource
      /\ Cardinality(Places(committed)) \in Nat
  BY <1>1, <1>2, FS_Subset, FS_CardinalityType
<1> QED
  BY <1>1, <1>3 DEF Journal

(* What happens to the rows: nothing, a new state of a job, or a new job. *)
RowMoves ==
    \/ UNCHANGED <<rows, head>>
    \/ /\ UNCHANGED head
       /\ \E k \in Keys, state \in States \ {"absent"} : Exists(k) /\ rows' = WithState(k, state)
    \/ /\ head' = head + 1
       /\ \E k \in Keys : ~Exists(k) /\ rows' = [rows EXCEPT ![k] = [state |-> "pending", seq |-> head]]

RowsKept ==
    /\ rows' \in [Keys -> [state: States, seq: Nat]] /\ head' \in Nat \ {0}
    /\ Numbered'
    /\ \A k \in Keys : Exists(k) => (Exists(k))' /\ rows'[k].seq = rows[k].seq

LEMMA RowsKeep ==
    ASSUME TypeOK, Numbered, RowMoves
    PROVE  RowsKept
<1>0. rows \in [Keys -> [state: States, seq: Nat]] /\ head \in Nat \ {0}
  BY DEF TypeOK
<1>1. CASE UNCHANGED <<rows, head>>
  BY <1>0, <1>1 DEF RowsKept, Numbered, Exists
<1>2. ASSUME NEW k \in Keys, NEW state \in States \ {"absent"}, Exists(k),
             rows' = WithState(k, state), UNCHANGED head
      PROVE  RowsKept
  <2>1. /\ rows' \in [Keys -> [state: States, seq: Nat]]
        /\ rows'[k].state = state /\ \A i \in Keys : rows'[i].seq = rows[i].seq
        /\ \A i \in Keys \ {k} : rows'[i] = rows[i]
    BY <1>0, <1>2 DEF WithState
  <2>2. \A i \in Keys : Exists(i) <=> (Exists(i))'
    BY <1>2, <2>1 DEF Exists
  <2> QED
    BY <1>0, <1>2, <2>1, <2>2 DEF RowsKept, Numbered
<1>3. ASSUME NEW k \in Keys, ~Exists(k), head' = head + 1,
             rows' = [rows EXCEPT ![k] = [state |-> "pending", seq |-> head]]
      PROVE  RowsKept
  <2>1. /\ rows' \in [Keys -> [state: States, seq: Nat]]
        /\ rows'[k].state = "pending" /\ rows'[k].seq = head
        /\ \A i \in Keys \ {k} : rows'[i] = rows[i]
    BY <1>0, <1>3 DEF States
  <2>2. \A i \in Keys \ {k} : Exists(i) <=> (Exists(i))'
    BY <2>1 DEF Exists
  <2>3. \A i \in Keys : rows[i].seq \in Nat
    BY <1>0
  <2> QED
    BY <1>0, <1>3, <2>1, <2>2, <2>3 DEF RowsKept, Numbered, Exists
<1> QED
  BY <1>1, <1>2, <1>3 DEF RowMoves

-----------------------------------------------------------------------------
(* Steps of a scheduler that leave the jobs alone *)

LEMMA PlansMove ==
    ASSUME MaintInv, NEW p \in Schedulers, NEW x \in Plan, plans' = [plans EXCEPT ![p] = x],
           UNCHANGED <<rows, head, marks, committed, done, waiting, runner, faults>>,
           claims' \in [Kinds -> Keys \cup {NoKey}], Owned',
           \A d \in Derived : x.due[d] <= marks.source,
           x.pc \in {"prove", "proven", "refused"} => x.key \in Keys /\ Exists(x.key),
           proofs' \subseteq proofs \cup {p},
           p \in proofs' => x.pc = "proven" /\ Provable(x.key)
    PROVE  MaintInv'
<1> USE DEF MaintInv
<1>1. plans' \in [Schedulers -> Plan] /\ plans'[p] = x /\ \A q \in Schedulers \ {p} : plans'[q] = plans[q]
  BY DEF TypeOK
<1>2. TypeOK' /\ Journal' /\ Numbered' /\ WatermarkOrder'
  BY <1>1 DEF TypeOK, Journal, Numbered, Exists, WatermarkOrder
<1>3. Aims'
  <2> SUFFICES ASSUME NEW q \in Schedulers, NEW d \in Derived PROVE plans'[q].due[d] <= marks.source
    BY DEF Aims, Exists
  <2> QED
    BY <1>1 DEF Aims
<1>4. PlansOK'
  <2> SUFFICES ASSUME NEW q \in Schedulers, plans'[q].pc \in {"prove", "proven", "refused"}
               PROVE  plans'[q].key \in Keys /\ Exists(plans'[q].key)
    BY DEF PlansOK, Exists
  <2> QED
    BY <1>1 DEF PlansOK
<1>5. HolderOK'
  BY DEF HolderOK, Exists, Active
<1>6. \A k : Provable(k)' <=> Provable(k)
  BY DEF Provable, Active, GateReady
<1>7. Proven'
  <2>1. Worker \notin Schedulers
    BY ScopeMaintenanceAssumption
  <2>2. ASSUME NEW q \in Schedulers, q \in proofs'
        PROVE  plans'[q].pc = "proven" /\ Provable(plans'[q].key)
    BY <1>1, <2>2 DEF Proven
  <2>3. Worker \in proofs' => runner.pc = "proven" /\ Provable(runner.job)
    BY <2>1 DEF Proven
  <2>4. \A q \in Schedulers : q \in proofs' => plans'[q].pc = "proven" /\ (Provable(plans[q].key))'
    BY <1>6, <2>2
  <2>5. Worker \in proofs' => runner'.pc = "proven" /\ (Provable(runner.job))'
    BY <1>6, <2>3
  <2> QED
    BY <2>4, <2>5 DEF Proven
<1> QED
  BY <1>2, <1>3, <1>4, <1>5, <1>7

LEMMA ProvableKept ==
    ASSUME UNCHANGED <<rows, committed>>, marks'.source = marks.source
    PROVE  \A k : (Provable(k))' <=> Provable(k)
BY DEF Provable, Active, GateReady

-----------------------------------------------------------------------------
(* Steps of the holder of the lock that leave the jobs alone *)

RunnerFits(x) ==
    /\ x \in Runner
    /\ x.job = NoKey <=> x.pc = "idle"
    /\ x.target <= marks.source
    /\ x.pc = "record" => x.job.type = "ingest"
    /\ x.pc \notin {"idle", "resume"} => rows[x.job].state \in {"running", "cancelled"}
    /\ x.pc # "resume"

LEMMA RunnerMoves ==
    ASSUME MaintInv, RunnerFits(runner'),
           UNCHANGED <<rows, head, committed, plans, faults>>,
           marks' \in Marks, marks'.source = marks.source, WatermarkOrder',
           claims' \in [Kinds -> Keys \cup {NoKey}], Owned',
           done' \in [Keys -> SUBSET {"slow", "index", "promote"}],
           waiting' \subseteq waiting,
           proofs' \subseteq proofs \cup {Worker},
           Worker \in proofs' => runner'.pc = "proven" /\ Provable(runner'.job)
    PROVE  MaintInv'
<1> USE DEF MaintInv
<1>1. TypeOK'
  BY DEF TypeOK, RunnerFits
<1>2. Journal' /\ Numbered' /\ PlansOK'
  BY DEF Journal, Numbered, PlansOK, Exists, RunnerFits
<1>3. Aims' /\ HolderOK'
  BY DEF Aims, HolderOK, Exists, RunnerFits
<1>4. Proven'
  <2>1. Worker \notin Schedulers
    BY ScopeMaintenanceAssumption
  <2>2. \A q \in Schedulers : q \in proofs' => plans'[q].pc = "proven" /\ (Provable(plans[q].key))'
    BY <2>1, ProvableKept DEF Proven
  <2>3. Worker \in proofs' => runner'.pc = "proven" /\ (Provable(runner.job))'
    BY ProvableKept
  <2> QED
    BY <2>2, <2>3 DEF Proven
<1> QED
  BY <1>1, <1>2, <1>3, <1>4

(* Only the place where the holder of the lock is changes. *)
LEMMA HolderFits ==
    ASSUME MaintInv, runner.pc # "idle", runner.pc # "resume",
           NEW x \in Runner, x.job = runner.job, x.target = runner.target,
           x.pc \notin {"idle", "record", "resume"}
    PROVE  RunnerFits(x)
BY DEF MaintInv, TypeOK, Aims, HolderOK, RunnerFits

LEMMA MarksTyped ==
    ASSUME MaintInv
    PROVE  /\ marks \in Marks /\ marks.source \in Nat /\ marks.delta \in Nat
           /\ marks.indexed \in Nat /\ marks.promoted \in Nat
           /\ runner \in Runner /\ runner.target \in Nat
BY DEF MaintInv, TypeOK, Marks, Runner

LEMMA StartKeeps ==
    ASSUME MaintInv, NEW k \in Keys, StartJob(k)
    PROVE  MaintInv'
<1>1. /\ runner.pc = "idle" /\ k \in waiting /\ waiting' = waiting \ {k}
      /\ UNCHANGED <<rows, head, marks, committed, claims, done, plans, proofs, faults>>
  BY DEF StartJob
<1>2. k # NoKey /\ k.type \in {"ingest", "consolidate", "reindex"}
  BY NoKeyAssumption DEF Keys, Derived
<1>3. RunnerFits(runner')
  <2>1. CASE rows[k].state # "running"
    <3>1. runner' = Resting
      BY <2>1 DEF StartJob
    <3>2. /\ runner'.job = NoKey /\ runner'.pc = "idle" /\ runner'.target = 0
          /\ runner' \in Runner
      BY <3>1 DEF Resting, Runner, Kinds
    <3> QED
      BY <3>2, MarksTyped DEF RunnerFits
  <2>2. CASE rows[k].state = "running"
    <3> DEFINE target == IF k.type = "consolidate" THEN k.at ELSE marks.source
    <3>1. runner' = [job |-> k, pc |-> FirstStep(k), want |-> ClaimKind(k.type),
                     target |-> target, late |-> FALSE]
      BY <2>2 DEF StartJob
    <3>2. /\ runner'.job = k /\ runner'.pc = FirstStep(k) /\ runner'.target = target
          /\ runner'.want = ClaimKind(k.type) /\ runner'.late = FALSE
      BY <3>1
    <3>3. FirstStep(k) \in {"record", "claim", "end"}
          /\ (FirstStep(k) = "record" => k.type = "ingest")
      BY <1>2 DEF FirstStep
    <3>4. ClaimKind(k.type) \in Kinds
      BY DEF ClaimKind, Kinds
    <3>5. target \in Nat /\ target <= marks.source
      BY <2>2, MarksTyped DEF MaintInv, Aims, Exists, Keys, Derived
    <3>6. runner' \in Runner
      <4> HIDE DEF target
      <4> QED
        BY <3>1, <3>3, <3>4, <3>5 DEF Runner
    <3> QED
      BY <1>2, <2>2, <3>2, <3>3, <3>5, <3>6 DEF RunnerFits
  <2> QED
    BY <2>1, <2>2
<1>4. Worker \notin proofs
  BY <1>1 DEF MaintInv, Proven
<1>5. /\ Owned' /\ WatermarkOrder' /\ marks' \in Marks
      /\ claims' \in [Kinds -> Keys \cup {NoKey}]
      /\ done' \in [Keys -> SUBSET {"slow", "index", "promote"}]
  BY <1>1 DEF MaintInv, TypeOK, Owned, Active, WatermarkOrder
<1> QED
  BY <1>1, <1>3, <1>4, <1>5, RunnerMoves

LEMMA ProveKeeps ==
    ASSUME MaintInv, ProveClaim
    PROVE  MaintInv'
<1> DEFINE pc == IF Provable(runner.job) THEN "proven" ELSE "refused"
<1>1. /\ runner.pc = "claim" /\ runner' = [runner EXCEPT !.pc = pc]
      /\ proofs' = IF Provable(runner.job) THEN proofs \cup {Worker} ELSE proofs
      /\ UNCHANGED <<rows, head, marks, committed, claims, done, waiting, plans, faults>>
  BY DEF ProveClaim, Goes
<1>2. /\ runner' \in Runner /\ runner'.job = runner.job /\ runner'.target = runner.target
      /\ runner'.pc \in {"proven", "refused"}
      /\ Provable(runner.job) => runner'.pc = "proven"
  BY <1>1, MarksTyped DEF Runner
<1>3. RunnerFits(runner')
  BY <1>1, <1>2, HolderFits
<1>4. Worker \in proofs' => runner'.pc = "proven" /\ Provable(runner'.job)
  BY <1>1, <1>2 DEF MaintInv, Proven
<1>5. /\ Owned' /\ WatermarkOrder' /\ marks' \in Marks
      /\ claims' \in [Kinds -> Keys \cup {NoKey}]
      /\ done' \in [Keys -> SUBSET {"slow", "index", "promote"}]
  BY <1>1 DEF MaintInv, TypeOK, Owned, Active, WatermarkOrder
<1> QED
  BY <1>1, <1>3, <1>4, <1>5, RunnerMoves

LEMMA TakeKeeps ==
    ASSUME MaintInv, TakeClaim
    PROVE  MaintInv'
<1>1. /\ runner.pc = "proven" /\ runner.job \in Keys /\ runner \in Runner
      /\ UNCHANGED <<rows, head, marks, committed, done, waiting, plans, faults>>
  BY DEF TakeClaim, MaintInv, TypeOK, Runner
<1>2. /\ WatermarkOrder' /\ marks' \in Marks
      /\ done' \in [Keys -> SUBSET {"slow", "index", "promote"}]
  BY <1>1 DEF MaintInv, TypeOK, WatermarkOrder
<1>3. ASSUME Takes(Worker, runner.want, runner.job) PROVE MaintInv'
  <2>1. /\ claims' = [claims EXCEPT ![runner.want] = runner.job] /\ proofs' = {}
        /\ runner' = [runner EXCEPT !.pc = AfterClaim, !.want = "index"]
    BY <1>3 DEF TakeClaim, Commits
  <2>2. AfterClaim \in {"slow", "claim", "build", "promote", "end"}
    BY DEF AfterClaim
  <2>3. /\ runner' \in Runner /\ runner'.job = runner.job /\ runner'.target = runner.target
        /\ runner'.pc = AfterClaim
    BY <1>1, <2>1, <2>2 DEF Runner, Kinds
  <2>4. RunnerFits(runner')
    BY <1>1, <2>2, <2>3, HolderFits
  <2>5. Provable(runner.job)
    BY <1>3 DEF Takes, MaintInv, Proven
  <2>6. claims' \in [Kinds -> Keys \cup {NoKey}]
    BY <1>1, <2>1 DEF MaintInv, TypeOK
  <2>7. Owned'
    BY <1>1, <2>1, <2>5 DEF MaintInv, TypeOK, Owned, Active, Provable
  <2> QED
    BY <1>1, <1>2, <2>1, <2>4, <2>6, <2>7, RunnerMoves
<1>4. ASSUME ~Takes(Worker, runner.want, runner.job) PROVE MaintInv'
  <2>1. /\ claims' = claims /\ proofs' = proofs \ {Worker}
        /\ runner' = [runner EXCEPT !.pc = "refused"]
    BY <1>4 DEF TakeClaim, Goes
  <2>2. /\ runner' \in Runner /\ runner'.job = runner.job /\ runner'.target = runner.target
        /\ runner'.pc = "refused"
    BY <1>1, <2>1 DEF Runner
  <2>3. RunnerFits(runner')
    BY <1>1, <2>2, HolderFits
  <2>4. Owned' /\ claims' \in [Kinds -> Keys \cup {NoKey}]
    BY <1>1, <2>1, <2>2 DEF MaintInv, TypeOK, Owned, Active
  <2> QED
    BY <1>1, <1>2, <2>1, <2>3, <2>4, RunnerMoves
<1> QED
  BY <1>3, <1>4

LEMMA AskKeeps ==
    ASSUME MaintInv, AskAgain
    PROVE  MaintInv'
<1>1. /\ runner.pc = "refused" /\ runner' = [runner EXCEPT !.pc = "claim"]
      /\ UNCHANGED <<rows, head, marks, committed, claims, done, waiting, plans, proofs, faults>>
  BY DEF AskAgain, Goes
<1>2. /\ runner' \in Runner /\ runner'.job = runner.job /\ runner'.target = runner.target
      /\ runner'.pc = "claim"
  BY <1>1, MarksTyped DEF Runner
<1>3. RunnerFits(runner')
  BY <1>1, <1>2, HolderFits
<1>4. Worker \notin proofs
  BY <1>1 DEF MaintInv, Proven
<1>5. /\ Owned' /\ WatermarkOrder' /\ marks' \in Marks
      /\ claims' \in [Kinds -> Keys \cup {NoKey}]
      /\ done' \in [Keys -> SUBSET {"slow", "index", "promote"}]
  BY <1>1, <1>2 DEF MaintInv, TypeOK, Owned, Active, WatermarkOrder
<1> QED
  BY <1>1, <1>3, <1>4, <1>5, RunnerMoves

LEMMA DeadlineKeeps ==
    ASSUME MaintInv, DeadlinePasses
    PROVE  MaintInv'
<1>1. /\ runner.pc \in {"claim", "proven", "refused"} /\ runner' = [runner EXCEPT !.late = TRUE]
      /\ UNCHANGED <<rows, head, marks, committed, claims, done, waiting, plans, proofs, faults>>
  BY DEF DeadlinePasses
<1>2. /\ runner' \in Runner /\ runner'.job = runner.job /\ runner'.target = runner.target
      /\ runner'.pc = runner.pc
  BY <1>1, MarksTyped DEF Runner
<1>3. RunnerFits(runner')
  BY <1>1, <1>2, HolderFits
<1>4. Worker \in proofs' => runner'.pc = "proven" /\ Provable(runner'.job)
  BY <1>1, <1>2 DEF MaintInv, Proven
<1>5. /\ Owned' /\ WatermarkOrder' /\ marks' \in Marks
      /\ claims' \in [Kinds -> Keys \cup {NoKey}]
      /\ done' \in [Keys -> SUBSET {"slow", "index", "promote"}]
  BY <1>1, <1>2 DEF MaintInv, TypeOK, Owned, Active, WatermarkOrder
<1> QED
  BY <1>1, <1>3, <1>4, <1>5, RunnerMoves

(* RunSlow, Build of a consolidation, CompleteIndex, CompletePromote *)
LEMMA StageKeeps ==
    ASSUME MaintInv, NEW stage \in {"slow", "index", "promote"},
           NEW pc \in {"claim", "promote", "end"}, Succeeds(stage, pc),
           runner.pc \notin {"idle", "resume"},
           pc = "promote" => runner.pc = "build"
    PROVE  MaintInv'
<1>1. /\ done' = [done EXCEPT ![runner.job] = @ \cup {stage}] /\ proofs' = {}
      /\ runner' = [runner EXCEPT !.pc = pc]
      /\ UNCHANGED <<rows, head, marks, committed, claims, waiting, plans, faults>>
  BY DEF Succeeds, Goes, Commits
<1>2. /\ runner' \in Runner /\ runner'.job = runner.job /\ runner'.target = runner.target
      /\ runner'.pc = pc
  BY <1>1, MarksTyped DEF Runner
<1>3. RunnerFits(runner')
  BY <1>2, HolderFits
<1>4. done' \in [Keys -> SUBSET {"slow", "index", "promote"}]
  BY <1>1 DEF MaintInv, TypeOK
<1>5. /\ Owned' /\ WatermarkOrder' /\ marks' \in Marks
      /\ claims' \in [Kinds -> Keys \cup {NoKey}]
  BY <1>1 DEF MaintInv, TypeOK, Owned, Active, WatermarkOrder
<1> QED
  BY <1>1, <1>3, <1>4, <1>5, RunnerMoves

LEMMA BuildKeeps ==
    ASSUME MaintInv, Build
    PROVE  MaintInv'
<1>1. CASE runner.job.type = "consolidate"
  BY <1>1, StageKeeps DEF Build
<1>2. CASE runner.job.type # "consolidate"
  <2>1. /\ runner.pc = "build" /\ runner' = [runner EXCEPT !.pc = "advance"]
        /\ UNCHANGED <<rows, head, marks, committed, claims, done, waiting, plans, proofs, faults>>
    BY <1>2 DEF Build, Goes
  <2>2. /\ runner' \in Runner /\ runner'.job = runner.job /\ runner'.target = runner.target
        /\ runner'.pc = "advance"
    BY <2>1, MarksTyped DEF Runner
  <2>3. RunnerFits(runner')
    BY <2>1, <2>2, HolderFits
  <2>4. Worker \notin proofs
    BY <2>1 DEF MaintInv, Proven
  <2>5. /\ Owned' /\ WatermarkOrder' /\ marks' \in Marks
        /\ claims' \in [Kinds -> Keys \cup {NoKey}]
        /\ done' \in [Keys -> SUBSET {"slow", "index", "promote"}]
    BY <2>1, <2>2 DEF MaintInv, TypeOK, Owned, Active, WatermarkOrder
  <2> QED
    BY <2>1, <2>3, <2>4, <2>5, RunnerMoves
<1> QED
  BY <1>1, <1>2

LEMMA AdvanceKeeps ==
    ASSUME MaintInv, AdvanceMark
    PROVE  MaintInv'
<1> DEFINE delta == runner.job.type = "ingest" /\ marks.indexed > 0
           newDelta == Larger(marks.delta, runner.target)
           newIndexed == IF delta THEN marks.indexed ELSE Larger(marks.indexed, runner.target)
<1>1. /\ runner.pc = "advance"
      /\ delta => runner.target >= marks.indexed
      /\ marks' = [marks EXCEPT !.delta = newDelta, !.indexed = newIndexed]
      /\ claims' = [claims EXCEPT !["index"] = NoKey] /\ proofs' = {}
      /\ runner' = [runner EXCEPT !.pc = "activated"]
      /\ UNCHANGED <<rows, head, committed, done, waiting, plans, faults>>
  BY DEF AdvanceMark, Goes, Commits
<1>2. /\ newDelta \in Nat /\ newIndexed \in Nat
      /\ marks.promoted <= newIndexed /\ newIndexed <= newDelta /\ newDelta <= marks.source
  BY MarksTyped DEF MaintInv, WatermarkOrder, Aims, Larger
<1> HIDE DEF delta, newDelta, newIndexed
<1>3. /\ marks' \in Marks /\ marks'.source = marks.source /\ marks'.promoted = marks.promoted
      /\ marks'.delta = newDelta /\ marks'.indexed = newIndexed
  BY <1>1, <1>2, MarksTyped DEF Marks
<1>4. WatermarkOrder'
  BY <1>2, <1>3 DEF WatermarkOrder
<1>5. /\ runner' \in Runner /\ runner'.job = runner.job /\ runner'.target = runner.target
      /\ runner'.pc = "activated"
  BY <1>1, MarksTyped DEF Runner
<1>6. RunnerFits(runner')
  BY <1>1, <1>5, HolderFits
<1>7. /\ claims' \in [Kinds -> Keys \cup {NoKey}] /\ Owned'
      /\ done' \in [Keys -> SUBSET {"slow", "index", "promote"}]
  BY <1>1, <1>5 DEF MaintInv, TypeOK, Owned, Active
<1> QED
  BY <1>1, <1>3, <1>4, <1>6, <1>7, RunnerMoves

LEMMA PromoteKeeps ==
    ASSUME MaintInv, Promote
    PROVE  MaintInv'
<1>1. /\ runner.pc = "promote" /\ marks' = Promoted(runner.target)
      /\ claims' = [claims EXCEPT !["evolution"] = NoKey] /\ proofs' = {}
      /\ runner' = [runner EXCEPT !.pc = "promoted"]
      /\ UNCHANGED <<rows, head, committed, done, waiting, plans, faults>>
  BY DEF Promote, Goes, Commits
<1> DEFINE promoted == Larger(marks.promoted, runner.target)
           indexed == Larger(marks.indexed, runner.target)
           delta == Larger(marks.delta, runner.target)
<1>2. /\ promoted \in Nat /\ indexed \in Nat /\ delta \in Nat
      /\ promoted <= indexed /\ indexed <= delta /\ delta <= marks.source
  BY MarksTyped DEF MaintInv, WatermarkOrder, Aims, Larger
<1>3. marks' = [marks EXCEPT !.promoted = promoted, !.indexed = indexed, !.delta = delta]
  BY <1>1 DEF Promoted
<1> HIDE DEF promoted, indexed, delta
<1>4. /\ marks' \in Marks /\ marks'.source = marks.source /\ marks'.promoted = promoted
      /\ marks'.delta = delta /\ marks'.indexed = indexed
  BY <1>2, <1>3, MarksTyped DEF Marks
<1>5. WatermarkOrder'
  BY <1>2, <1>4 DEF WatermarkOrder
<1>6. /\ runner' \in Runner /\ runner'.job = runner.job /\ runner'.target = runner.target
      /\ runner'.pc = "promoted"
  BY <1>1, MarksTyped DEF Runner
<1>7. RunnerFits(runner')
  BY <1>1, <1>6, HolderFits
<1>8. /\ claims' \in [Kinds -> Keys \cup {NoKey}] /\ Owned'
      /\ done' \in [Keys -> SUBSET {"slow", "index", "promote"}]
  BY <1>1, <1>6 DEF MaintInv, TypeOK, Owned, Active
<1> QED
  BY <1>1, <1>4, <1>5, <1>7, <1>8, RunnerMoves

(* The event of an ingest that is journalled now is one more. *)
LEMMA RecordKeeps ==
    ASSUME MaintInv, RecordIngest
    PROVE  MaintInv'
<1> DEFINE k == runner.job
           pc == IF "index" \in done[k] THEN "end" ELSE "claim"
           source == IF k \in committed THEN marks.source ELSE marks.source + 1
<1>1. /\ runner.pc = "record"
      /\ marks' = [marks EXCEPT !.source = source] /\ committed' = committed \cup {k}
      /\ runner' = [runner EXCEPT !.pc = pc, !.target = source]
      /\ IF k \in committed THEN proofs' = proofs ELSE proofs' = {}
      /\ UNCHANGED <<rows, head, claims, done, waiting, plans, faults>>
  BY DEF RecordIngest, Commits
<1>2. /\ k \in Keys /\ k.type = "ingest" /\ pc \in {"end", "claim"}
      /\ Worker \notin proofs
  BY <1>1 DEF MaintInv, TypeOK, Runner, Journal, Proven
<1>3. source \in Nat /\ source >= marks.source
  BY MarksTyped
<1>4. source = Cardinality(Places(committed'))
  <2>1. CASE k \in committed
    BY <1>1, <2>1 DEF MaintInv, Journal
  <2>2. CASE k \notin committed
    <3>1. Places(committed') = Places(committed) \cup {k.at}
      BY <1>1 DEF Places
    <3>2. k.at \notin Places(committed)
      <4> SUFFICES ASSUME NEW i \in committed, i.at = k.at PROVE FALSE
        BY DEF Places
      <4>1. i \in Keys /\ i.type = k.type
        BY <1>2 DEF MaintInv, TypeOK, Journal
      <4>2. i = k
        BY <1>2, <4>1 DEF Keys
      <4> QED
        BY <2>2, <4>2
    <3>3. Cardinality(Places(committed) \cup {k.at}) = Cardinality(Places(committed)) + 1
      BY <3>2, Bounded, FS_AddElement DEF MaintInv
    <3> QED
      BY <2>2, <3>1, <3>3 DEF MaintInv, Journal
  <2> QED
    BY <2>1, <2>2
<1>5. /\ runner' \in Runner /\ runner'.job = k /\ runner'.pc = pc /\ runner'.target = source
  <2> HIDE DEF pc, source
  <2> QED
    BY <1>1, <1>2, <1>3, MarksTyped DEF Runner
<1>6. /\ marks' \in Marks /\ marks'.source = source /\ marks'.delta = marks.delta
      /\ marks'.indexed = marks.indexed /\ marks'.promoted = marks.promoted
  <2> HIDE DEF source
  <2> QED
    BY <1>1, <1>3, MarksTyped DEF Marks
<1>7. Journal' /\ WatermarkOrder'
  BY <1>1, <1>2, <1>3, <1>4, <1>5, <1>6, MarksTyped DEF MaintInv, Journal, WatermarkOrder
<1> HIDE DEF k, pc, source
<1>8. TypeOK'
  <2>1. k # NoKey
    BY <1>2, NoKeyAssumption
  <2>2. /\ runner' \in Runner /\ runner'.job # NoKey /\ runner'.pc # "idle" /\ marks' \in Marks
        /\ committed' \subseteq Keys
    BY <1>1, <1>2, <1>5, <1>6, <2>1 DEF MaintInv, TypeOK
  <2>3. proofs' \subseteq Schedulers \cup {Worker}
    BY <1>1 DEF MaintInv, TypeOK
  <2> QED
    BY <1>1, <2>2, <2>3 DEF MaintInv, TypeOK
<1>9. Numbered' /\ PlansOK' /\ Owned'
  BY <1>1 DEF MaintInv, Numbered, PlansOK, Exists, Owned, Active
<1>10. HolderOK'
  BY <1>1, <1>2, <1>5 DEF MaintInv, HolderOK, Exists, k
<1>11. Aims'
  <2>1. \A p \in Schedulers, d \in Derived : plans[p].due[d] \in Nat
    BY ScopeMaintenanceAssumption DEF MaintInv, TypeOK, Plan
  <2>2. \A i \in Keys : i.at \in Nat
    BY ScopeMaintenanceAssumption DEF Keys
  <2>3. \A p \in Schedulers, d \in Derived : plans'[p].due[d] <= marks'.source
    BY <1>1, <1>3, <1>6, <2>1, MarksTyped DEF MaintInv, Aims
  <2>4. \A i \in Keys : i.type \in Derived /\ (Exists(i))' => i.at <= marks'.source
    BY <1>1, <1>3, <1>6, <2>2, MarksTyped DEF MaintInv, Aims, Exists
  <2>5. runner'.target <= marks'.source
    BY <1>3, <1>5, <1>6
  <2> QED
    BY <2>3, <2>4, <2>5 DEF Aims
<1>12. Proven'
  <2>1. CASE proofs' = {}
    BY <2>1 DEF Proven
  <2>2. CASE k \in committed /\ proofs' = proofs
    <3>1. source = marks.source /\ committed' = committed
      BY <1>1, <2>2 DEF source
    <3>2. \A i : (Provable(i))' <=> Provable(i)
      BY <1>1, <1>6, <3>1, ProvableKept
    <3>3. \A p \in Schedulers : p \in proofs' => plans'[p].pc = "proven" /\ (Provable(plans[p].key))'
      BY <1>1, <2>2, <3>2 DEF MaintInv, Proven
    <3> QED
      BY <1>2, <2>2, <3>3 DEF Proven
  <2> QED
    BY <1>1, <2>1, <2>2
<1> QED
  BY <1>7, <1>8, <1>9, <1>10, <1>11, <1>12 DEF MaintInv

-----------------------------------------------------------------------------
(* Steps of a scheduler *)

LEMMA PlanTyped ==
    ASSUME MaintInv, NEW p \in Schedulers
    PROVE  /\ plans[p] \in Plan /\ plans[p].due \in [Derived -> 0..MaxSource]
           /\ plans[p].key \in Keys \cup {NoKey} /\ plans[p].seen \in States
           /\ plans[p].pc \in {"idle", "index", "plan", "prove", "proven", "refused"}
           /\ \A d \in Derived : plans[p].due[d] <= marks.source
           /\ Planned(p) \in Derived
           /\ claims \in [Kinds -> Keys \cup {NoKey}]
BY DEF MaintInv, TypeOK, Aims, Plan, Planned, Derived

LEMMA PlanOnlyMoves ==
    ASSUME MaintInv, NEW p \in Schedulers, NEW x \in Plan, plans' = [plans EXCEPT ![p] = x],
           UNCHANGED <<rows, head, marks, committed, claims, done, waiting, runner, proofs, faults>>,
           \A d \in Derived : x.due[d] <= marks.source,
           x.pc \in {"prove", "proven", "refused"} => x.key \in Keys /\ Exists(x.key),
           plans[p].pc # "proven"
    PROVE  MaintInv'
<1>1. p \notin proofs
  BY DEF MaintInv, Proven
<1>2. Owned' /\ claims' \in [Kinds -> Keys \cup {NoKey}]
  BY DEF MaintInv, TypeOK, Owned, Active
<1> QED
  BY <1>1, <1>2, PlansMove

LEMMA ReadKeeps ==
    ASSUME MaintInv, NEW p \in Schedulers,
           (\E due \in BOOLEAN : ReadEvolutionDue(p, due)) \/ ReadIndexDue(p)
    PROVE  MaintInv'
<1>1. marks.source \in 0..MaxSource /\ marks.source <= marks.source /\ 0 <= marks.source
  BY Bounded, MarksTyped DEF MaintInv
<1>2. PICK d \in Derived, n \in {0, marks.source}, pc \in {"index", "plan"} :
          plans' = [plans EXCEPT ![p] = [plans[p] EXCEPT !.pc = pc, !.due[d] = n]]
  BY DEF ReadEvolutionDue, ReadIndexDue, Replan, Derived
<1>3. /\ plans[p].pc # "proven"
      /\ UNCHANGED <<rows, head, marks, committed, claims, done, waiting, runner, proofs, faults>>
  BY DEF ReadEvolutionDue, ReadIndexDue
<1> DEFINE due == [plans[p].due EXCEPT ![d] = n]
           x == [plans[p] EXCEPT !.pc = pc, !.due = due]
<1>4. /\ due \in [Derived -> 0..MaxSource]
      /\ \A e \in Derived : due[e] <= marks.source
  <2>1. n \in 0..MaxSource /\ n <= marks.source
    BY <1>1, ScopeMaintenanceAssumption, MarksTyped
  <2>2. /\ plans[p].due \in [Derived -> 0..MaxSource]
        /\ \A e \in Derived : plans[p].due[e] <= marks.source
    BY PlanTyped
  <2>3. due[d] = n /\ \A e \in Derived \ {d} : due[e] = plans[p].due[e]
    BY <2>2
  <2> QED
    BY <2>1, <2>2, <2>3
<1>5. plans' = [plans EXCEPT ![p] = x]
  BY <1>2
<1> HIDE DEF due
<1>6. x \in Plan /\ x.pc = pc /\ x.due = due
  BY <1>4, PlanTyped DEF Plan
<1> HIDE DEF x
<1> QED
  BY <1>3, <1>4, <1>5, <1>6, PlanOnlyMoves

(* What is left of a plan when one of its jobs has been seen to. *)
LEMMA ForgottenFits ==
    ASSUME MaintInv, NEW p \in Schedulers
    PROVE  /\ Forgotten(p) \in Plan /\ Forgotten(p).pc = "plan"
           /\ \A d \in Derived : Forgotten(p).due[d] <= marks.source
<1> DEFINE due == [plans[p].due EXCEPT ![Planned(p)] = 0]
<1>1. /\ due \in [Derived -> 0..MaxSource]
      /\ \A d \in Derived : due[d] <= marks.source
  <2>1. /\ plans[p].due \in [Derived -> 0..MaxSource] /\ Planned(p) \in Derived
        /\ \A e \in Derived : plans[p].due[e] <= marks.source
    BY PlanTyped
  <2>2. /\ due[Planned(p)] = 0
        /\ \A e \in Derived \ {Planned(p)} : due[e] = plans[p].due[e]
    BY <2>1
  <2>3. 0 \in 0..MaxSource /\ 0 <= marks.source
    BY ScopeMaintenanceAssumption, MarksTyped
  <2> QED
    BY <2>1, <2>2, <2>3
<1>2. Forgotten(p) = [plans[p] EXCEPT !.pc = "plan", !.due = due, !.key = NoKey, !.seen = "absent"]
  BY DEF Forgotten
<1> HIDE DEF due
<1>3. /\ Forgotten(p).pc = "plan" /\ Forgotten(p).due = due /\ Forgotten(p) \in Plan
  BY <1>1, <1>2, PlanTyped DEF Plan, States
<1> QED
  BY <1>1, <1>3

LEMMA PlanDoneKeeps ==
    ASSUME MaintInv, NEW p \in Schedulers, PlanDone(p)
    PROVE  MaintInv'
<1>1. /\ plans[p].pc = "plan" /\ plans' = [plans EXCEPT ![p] = NoPlan]
      /\ UNCHANGED <<rows, head, marks, committed, claims, done, waiting, runner, proofs, faults>>
  BY DEF PlanDone, Replan
<1>2. /\ NoPlan \in Plan /\ NoPlan.pc = "idle"
      /\ \A d \in Derived : NoPlan.due[d] <= marks.source
  BY ScopeMaintenanceAssumption, MarksTyped DEF NoPlan, Plan, States
<1> QED
  BY <1>1, <1>2, PlanOnlyMoves

LEMMA ProveAutoKeeps ==
    ASSUME MaintInv, NEW p \in Schedulers, ProveAuto(p)
    PROVE  MaintInv'
<1> DEFINE pc == IF Provable(plans[p].key) THEN "proven" ELSE "refused"
           x == [plans[p] EXCEPT !.pc = pc]
<1>1. /\ plans[p].pc = "prove" /\ plans' = [plans EXCEPT ![p] = x]
      /\ proofs' = IF Provable(plans[p].key) THEN proofs \cup {p} ELSE proofs
      /\ UNCHANGED <<rows, head, marks, committed, claims, done, waiting, runner, faults>>
  BY DEF ProveAuto, Replan
<1>2. plans[p].key \in Keys /\ Exists(plans[p].key) /\ p \notin proofs
  BY <1>1 DEF MaintInv, PlansOK, Proven
<1>3. x.pc = pc /\ x \in Plan /\ x.key = plans[p].key /\ x.due = plans[p].due
  BY PlanTyped DEF Plan
<1>4. Owned' /\ claims' \in [Kinds -> Keys \cup {NoKey}]
  BY <1>1 DEF MaintInv, TypeOK, Owned, Active
<1>5. \A d \in Derived : x.due[d] <= marks.source
  BY <1>3, PlanTyped
<1> HIDE DEF x
<1>6. p \in proofs' => x.pc = "proven" /\ Provable(x.key)
  BY <1>1, <1>2, <1>3
<1>7. proofs' \subseteq proofs \cup {p}
  BY <1>1
<1> QED
  BY <1>1, <1>2, <1>3, <1>4, <1>5, <1>6, <1>7, PlansMove

LEMMA TakeAutoKeeps ==
    ASSUME MaintInv, NEW p \in Schedulers, TakeAuto(p)
    PROVE  MaintInv'
<1> DEFINE k == plans[p].key
           kind == ClaimKind(k.type)
<1>1. /\ plans[p].pc = "proven"
      /\ UNCHANGED <<rows, head, marks, committed, done, waiting, runner, faults>>
  BY DEF TakeAuto
<1>2. k \in Keys /\ Exists(k) /\ kind \in Kinds
  BY <1>1 DEF MaintInv, PlansOK, ClaimKind, Kinds
<1>3. ASSUME Takes(p, kind, k) PROVE MaintInv'
  <2>1. /\ claims' = [claims EXCEPT ![kind] = k] /\ proofs' = {}
        /\ plans' = [plans EXCEPT ![p] = Forgotten(p)]
    BY <1>3 DEF TakeAuto, Commits, Replan
  <2>2. Provable(k)
    BY <1>3 DEF Takes, MaintInv, Proven
  <2>3. Owned' /\ claims' \in [Kinds -> Keys \cup {NoKey}]
    BY <1>1, <1>2, <2>1, <2>2 DEF MaintInv, TypeOK, Owned, Active, Provable
  <2> HIDE DEF k, kind
  <2> QED
    BY <1>1, <2>1, <2>3, ForgottenFits, PlansMove
<1>4. ASSUME ~Takes(p, kind, k) PROVE MaintInv'
  <2> DEFINE x == [plans[p] EXCEPT !.pc = "refused"]
  <2>1. /\ claims' = claims /\ proofs' = proofs \ {p} /\ plans' = [plans EXCEPT ![p] = x]
    BY <1>4 DEF TakeAuto, Replan
  <2>2. x.pc = "refused" /\ x \in Plan /\ x.key = k /\ x.due = plans[p].due
    BY PlanTyped DEF Plan
  <2>3. Owned' /\ claims' \in [Kinds -> Keys \cup {NoKey}]
    BY <1>1, <2>1 DEF MaintInv, TypeOK, Owned, Active
  <2>4. \A d \in Derived : x.due[d] <= marks.source
    BY <2>2, PlanTyped
  <2> HIDE DEF x
  <2> QED
    BY <1>1, <1>2, <2>1, <2>2, <2>3, <2>4, PlansMove
<1> QED
  BY <1>3, <1>4

-----------------------------------------------------------------------------
(* Steps that queue, start, cancel or requeue a job *)

QueueMove(k) ==
    \/ /\ ~Exists(k) /\ (k.type \in Derived => k.at <= marks.source)
       /\ rows' = [rows EXCEPT ![k] = [state |-> "pending", seq |-> head]]
       /\ head' = head + 1 /\ claims' = claims
    \/ /\ rows[k].state = "pending" /\ rows' = WithState(k, "running")
       /\ head' = head /\ claims' = claims
    \/ /\ Active(k) /\ rows' = WithState(k, "cancelled")
       /\ head' = head /\ claims' = Released(k)
    \/ /\ rows[k].state = "failed" /\ rows' = WithState(k, "pending")
       /\ head' = head /\ claims' = claims

PlanFits(p) ==
    /\ \A d \in Derived : plans'[p].due[d] <= marks.source
    /\ plans'[p].pc \in {"prove", "proven", "refused"} =>
          plans'[p].key \in Keys /\ (Exists(plans[p].key))'

LEMMA QueueMoves ==
    ASSUME MaintInv, NEW k \in Keys, QueueMove(k), proofs' = {},
           UNCHANGED <<marks, committed, done, runner>>, faults' \in 0..MaxFaults,
           waiting' \subseteq waiting \cup {k},
           plans' \in [Schedulers -> Plan],
           \A p \in Schedulers : plans'[p] = plans[p] \/ PlanFits(p)
    PROVE  MaintInv'
<1> USE DEF MaintInv
<1>0. rows \in [Keys -> [state: States, seq: Nat]] /\ head \in Nat \ {0}
      /\ claims \in [Kinds -> Keys \cup {NoKey}]
  BY DEF TypeOK
<1>1. RowMoves
  BY DEF QueueMove, RowMoves, Exists, Active, States
<1>2. RowsKept
  BY <1>1, RowsKeep
<1>3. /\ \A i \in Keys \ {k} : rows'[i] = rows[i]
      /\ rows'[k].state \in {"pending", "running", "cancelled"}
      /\ Exists(k) => rows'[k].seq = rows[k].seq
      /\ rows'[k].state = "pending" => rows[k].state \in {"absent", "failed"}
      /\ rows[k].state \in {"absent", "pending", "running", "failed"}
      /\ rows'[k].state = "running" => rows[k].state = "pending"
      /\ rows'[k].state = "cancelled" => claims' = Released(k)
      /\ rows'[k].state # "cancelled" => claims' = claims
      /\ k.type \in Derived /\ ~Exists(k) => k.at <= marks.source
  <2>1. CASE ~Exists(k) /\ rows' = [rows EXCEPT ![k] = [state |-> "pending", seq |-> head]]
             /\ claims' = claims /\ (k.type \in Derived => k.at <= marks.source)
    BY <1>0, <2>1 DEF Exists
  <2>2. CASE rows[k].state = "pending" /\ rows' = WithState(k, "running") /\ claims' = claims
    BY <1>0, <2>2 DEF Exists, WithState
  <2>3. CASE Active(k) /\ rows' = WithState(k, "cancelled") /\ claims' = Released(k)
    BY <1>0, <2>3 DEF Exists, WithState, Active
  <2>4. CASE rows[k].state = "failed" /\ rows' = WithState(k, "pending") /\ claims' = claims
    BY <1>0, <2>4 DEF Exists, WithState
  <2> QED
    BY <2>1, <2>2, <2>3, <2>4 DEF QueueMove
<1>4. claims' \in [Kinds -> Keys \cup {NoKey}]
      /\ \A c \in Kinds : claims'[c] # NoKey =>
            claims'[c] = claims[c] /\ (rows'[k].state = "cancelled" => claims'[c] # k)
  BY <1>0, <1>3 DEF Released
<1>5. Owned'
  <2> SUFFICES ASSUME NEW c \in Kinds, claims'[c] # NoKey PROVE (Active(claims[c]))'
    BY DEF Owned
  <2>1. Active(claims[c]) /\ claims'[c] = claims[c] /\ claims[c] \in Keys
    BY <1>0, <1>4 DEF Owned
  <2> QED
    BY <1>3, <1>4, <2>1 DEF Active
<1>6. TypeOK'
  BY <1>2, <1>4 DEF TypeOK, RowsKept
<1>7. Journal' /\ WatermarkOrder' /\ Numbered'
  BY <1>2 DEF Journal, WatermarkOrder, RowsKept
<1>8. Aims'
  <2>1. \A p \in Schedulers, d \in Derived : plans'[p].due[d] <= marks'.source
    BY DEF Aims, PlanFits
  <2>2. \A i \in Keys : i.type \in Derived /\ (Exists(i))' => i.at <= marks'.source
    BY <1>3 DEF Aims, Exists
  <2> QED
    BY <2>1, <2>2 DEF Aims
<1>9. PlansOK'
  <2> SUFFICES ASSUME NEW p \in Schedulers, plans'[p].pc \in {"prove", "proven", "refused"}
               PROVE  plans'[p].key \in Keys /\ (Exists(plans[p].key))'
    BY DEF PlansOK
  <2>1. CASE plans'[p] = plans[p]
    <3>1. plans[p].key \in Keys /\ Exists(plans[p].key)
      BY <2>1 DEF PlansOK
    <3> QED
      BY <1>2, <2>1, <3>1 DEF RowsKept, Exists
  <2>2. CASE PlanFits(p)
    BY <2>2 DEF PlanFits
  <2> QED
    BY <2>1, <2>2
<1>10. HolderOK'
  <2>1. \A i \in waiting' : (Exists(i))'
    BY <1>2, <1>3 DEF HolderOK, RowsKept, Exists, TypeOK
  <2>2. runner.pc \notin {"idle", "resume"} => rows'[runner.job].state \in {"running", "cancelled"}
    BY <1>3 DEF HolderOK, TypeOK, Runner
  <2>3. runner.pc = "resume" => (Exists(runner.job))'
    BY <1>2 DEF HolderOK, RowsKept, TypeOK, Runner, Exists
  <2> QED
    BY <2>1, <2>2, <2>3 DEF HolderOK
<1>11. Proven'
  BY DEF Proven
<1> QED
  BY <1>5, <1>6, <1>7, <1>8, <1>9, <1>10, <1>11

LEMMA PlansTyped ==
    ASSUME MaintInv
    PROVE  plans \in [Schedulers -> Plan]
BY DEF MaintInv, TypeOK

LEMMA FaultsTyped ==
    ASSUME MaintInv
    PROVE  faults \in 0..MaxFaults
BY DEF MaintInv, TypeOK

LEMMA RetryKeeps ==
    ASSUME MaintInv, NEW k \in Keys, Retry(k)
    PROVE  MaintInv'
<1>1. QueueMove(k) /\ proofs' = {}
  BY DEF Retry, Requeues, QueueMove, Commits
<1>2. UNCHANGED <<marks, committed, done, waiting, runner, plans>>
  BY DEF Retry
<1>3. faults' \in 0..MaxFaults
  BY FaultsTyped, ScopeMaintenanceAssumption DEF Retry
<1> QED
  BY <1>1, <1>2, <1>3, PlansTyped, QueueMoves

LEMMA IngestKeeps ==
    ASSUME MaintInv, NEW i \in 1..MaxSource, SubmitIngest(i)
    PROVE  MaintInv'
<1> DEFINE k == [type |-> "ingest", at |-> i]
<1>1. k \in Keys /\ k.type = "ingest" /\ "ingest" \notin Derived
  BY DEF Keys, Derived
<1> HIDE DEF k
<1>2. QueueMove(k) /\ proofs' = {}
  BY <1>1 DEF SubmitIngest, QueueMove, Exists, Commits, k
<1>3. UNCHANGED <<marks, committed, done, waiting, runner, plans, faults>>
  BY DEF SubmitIngest
<1> QED
  BY <1>1, <1>2, <1>3, PlansTyped, FaultsTyped, QueueMoves

LEMMA ClaimKeeps ==
    ASSUME MaintInv, NEW k \in Keys, ClaimJob(k)
    PROVE  MaintInv'
<1>1. QueueMove(k) /\ proofs' = {} /\ waiting' = waiting \cup {k}
  BY DEF ClaimJob, QueueMove, Commits
<1>2. UNCHANGED <<marks, committed, done, runner, plans, faults>>
  BY DEF ClaimJob
<1> QED
  BY <1>1, <1>2, PlansTyped, FaultsTyped, QueueMoves

LEMMA SubmitKeeps ==
    ASSUME MaintInv, NEW p \in Schedulers, SubmitAuto(p)
    PROVE  MaintInv'
<1> DEFINE k == [type |-> Planned(p), at |-> plans[p].due[Planned(p)]]
           asked == [plans[p] EXCEPT !.pc = "prove", !.key = k, !.seen = rows'[k].state]
           x == IF Terminal(k) THEN Forgotten(p) ELSE asked
<1>1. /\ plans[p].pc = "plan" /\ plans[p].due[Planned(p)] # 0
      /\ plans' = [plans EXCEPT ![p] = x]
      /\ IF rows[k].state = "absent"
         THEN /\ rows' = [rows EXCEPT ![k] = [state |-> "pending", seq |-> head]]
              /\ head' = head + 1 /\ proofs' = {}
         ELSE UNCHANGED <<rows, head, proofs>>
      /\ UNCHANGED <<marks, committed, claims, done, waiting, runner, faults>>
  BY DEF SubmitAuto, Replan, Commits
<1>2. k \in Keys /\ k.at <= marks.source
  <2>1. /\ plans[p].due \in [Derived -> 0..MaxSource] /\ Planned(p) \in Derived
        /\ plans[p].due[Planned(p)] <= marks.source
    BY PlanTyped
  <2>2. plans[p].due[Planned(p)] \in 1..MaxSource
    BY <1>1, <2>1
  <2> QED
    BY <2>1, <2>2 DEF Keys
<1>3. rows \in [Keys -> [state: States, seq: Nat]]
  BY DEF MaintInv, TypeOK
<1> HIDE DEF k
<1>4. rows'[k].state \in States /\ rows'[k].state # "absent"
  <2>1. CASE rows[k].state = "absent"
    <3> DEFINE new == [state |-> "pending", seq |-> head]
    <3>1. rows' = [rows EXCEPT ![k] = new] /\ new.state = "pending"
      BY <1>1, <2>1
    <3> HIDE DEF new
    <3>2. rows'[k] = new
      BY <1>2, <1>3, <3>1
    <3> QED
      BY <3>1, <3>2 DEF States
  <2>2. CASE rows[k].state # "absent"
    BY <1>1, <1>2, <1>3, <2>2
  <2> QED
    BY <2>1, <2>2
<1>5. /\ asked \in Plan /\ asked.pc = "prove" /\ asked.key = k /\ asked.due = plans[p].due
  BY <1>2, <1>4, PlanTyped DEF Plan
<1>6. /\ x \in Plan /\ \A d \in Derived : x.due[d] <= marks.source
  <2> HIDE DEF asked
  <2>1. \A d \in Derived : asked.due[d] <= marks.source
    BY <1>5, PlanTyped
  <2> QED
    BY <1>5, <2>1, ForgottenFits
<1>7. x.pc \in {"plan", "prove"} /\ (x.pc = "prove" => x.key = k)
  <2> HIDE DEF asked
  <2> QED
    BY <1>5, ForgottenFits
<1>8. p \notin proofs
  BY <1>1 DEF MaintInv, Proven
<1> HIDE DEF asked, x
<1>9. plans' \in [Schedulers -> Plan] /\ plans'[p] = x
      /\ \A q \in Schedulers \ {p} : plans'[q] = plans[q]
  BY <1>1, <1>6, PlansTyped
<1>10. CASE rows[k].state = "absent"
  <2>1. QueueMove(k) /\ proofs' = {}
    BY <1>1, <1>2, <1>10 DEF QueueMove, Exists
  <2>2. plans'[p].pc \in {"prove", "proven", "refused"} =>
           plans'[p].key = k /\ rows'[plans'[p].key].state # "absent"
    BY <1>4, <1>7, <1>9
  <2>3. PlanFits(p)
    BY <1>2, <1>6, <1>9, <2>2 DEF PlanFits, Exists
  <2>4. \A q \in Schedulers : plans'[q] = plans[q] \/ PlanFits(q)
    BY <1>9, <2>3
  <2> QED
    BY <1>1, <1>2, <1>9, <2>1, <2>4, FaultsTyped, QueueMoves
<1>11. CASE rows[k].state # "absent"
  <2>1. UNCHANGED <<rows, head, proofs>>
    BY <1>1, <1>11
  <2>2. Owned' /\ claims' \in [Kinds -> Keys \cup {NoKey}]
    BY <1>1, <2>1 DEF MaintInv, TypeOK, Owned, Active
  <2>3. x.pc \in {"prove", "proven", "refused"} => x.key \in Keys /\ Exists(x.key)
    BY <1>2, <1>7, <1>11 DEF Exists
  <2> QED
    BY <1>1, <1>6, <1>8, <2>1, <2>2, <2>3, PlansMove
<1> QED
  BY <1>10, <1>11

LEMMA CancelKeeps ==
    ASSUME MaintInv, NEW p \in Schedulers, CancelRefused(p)
    PROVE  MaintInv'
<1> DEFINE k == plans[p].key
<1>1. /\ plans[p].pc = "refused" /\ plans' = [plans EXCEPT ![p] = Forgotten(p)]
      /\ UNCHANGED <<head, marks, committed, done, waiting, runner, faults>>
  BY DEF CancelRefused, Replan
<1>2. k \in Keys /\ p \notin proofs
  BY <1>1 DEF MaintInv, PlansOK, Proven
<1>3. CASE plans[p].seen = "pending" /\ Active(k)
  <2>1. QueueMove(k) /\ proofs' = {}
    BY <1>3 DEF CancelRefused, QueueMove, Commits
  <2>2. plans' \in [Schedulers -> Plan] /\ plans'[p] = Forgotten(p)
        /\ \A q \in Schedulers \ {p} : plans'[q] = plans[q]
    BY <1>1, PlansTyped, ForgottenFits
  <2>3. \A q \in Schedulers : plans'[q] = plans[q] \/ PlanFits(q)
    BY <2>2, ForgottenFits DEF PlanFits
  <2> QED
    BY <1>1, <1>2, <2>1, <2>2, <2>3, FaultsTyped, QueueMoves
<1>4. CASE ~(plans[p].seen = "pending" /\ Active(k))
  <2>1. UNCHANGED <<rows, claims, proofs>>
    BY <1>4 DEF CancelRefused
  <2>2. Owned' /\ claims' \in [Kinds -> Keys \cup {NoKey}]
    BY <2>1 DEF MaintInv, TypeOK, Owned, Active
  <2> QED
    BY <1>1, <1>2, <2>1, <2>2, ForgottenFits, PlansMove
<1> QED
  BY <1>3, <1>4

-----------------------------------------------------------------------------
(* Steps that end or resume a job under the lock *)

LEMMA LeaveKeeps ==
    ASSUME MaintInv, NEW k \in Keys, NEW state \in {"pending", "succeeded", "failed", "cancelled"},
           Exists(k), rows' = WithState(k, state) \/ rows' = rows,
           state = "pending" => ~Active(k) /\ claims' = claims,
           state # "pending" => claims' = Released(k),
           NEW job \in {k, NoKey},
           runner' \in Runner, runner'.job = job, runner'.target = 0,
           runner'.pc = (IF job = k THEN "resume" ELSE "idle"),
           job = k => state = "failed" /\ rows' = WithState(k, state),
           proofs' = {},
           UNCHANGED <<head, marks, committed, done, waiting, plans, faults>>
    PROVE  MaintInv'
<1> USE DEF MaintInv
<1>0. /\ rows \in [Keys -> [state: States, seq: Nat]]
      /\ claims \in [Kinds -> Keys \cup {NoKey}] /\ k # NoKey
  BY NoKeyAssumption DEF TypeOK
<1>1. RowMoves
  BY DEF RowMoves, States
<1>2. RowsKept
  BY <1>1, RowsKeep
<1>3. /\ \A i \in Keys \ {k} : rows'[i] = rows[i]
      /\ rows'[k].state \in {state, rows[k].state}
      /\ rows' = WithState(k, state) => rows'[k].state = state
  BY <1>0 DEF WithState
<1>4. claims' \in [Kinds -> Keys \cup {NoKey}] /\ Owned'
  <2>1. CASE state = "pending"
    <3>1. claims' = claims /\ ~Active(k)
      BY <2>1
    <3> QED
      BY <1>0, <1>3, <3>1 DEF Owned, Active
  <2>2. CASE state # "pending"
    <3>1. /\ claims' \in [Kinds -> Keys \cup {NoKey}]
          /\ \A c \in Kinds : claims'[c] # NoKey => claims'[c] = claims[c] /\ claims'[c] # k
      BY <1>0, <2>2 DEF Released
    <3> QED
      BY <1>0, <1>3, <3>1 DEF Owned, Active
  <2> QED
    BY <2>1, <2>2
<1>5. TypeOK'
  BY <1>0, <1>2, <1>4 DEF TypeOK, RowsKept
<1>6. Journal' /\ WatermarkOrder' /\ Numbered'
  BY <1>2 DEF Journal, WatermarkOrder, RowsKept
<1>7. Aims'
  <2>1. \A i \in Keys : (Exists(i))' => Exists(i)
    BY <1>3 DEF Exists
  <2> QED
    BY <2>1, MarksTyped DEF Aims
<1>8. PlansOK' /\ HolderOK' /\ Proven'
  <2>1. PlansOK'
    BY <1>2 DEF PlansOK, RowsKept, Exists
  <2>2. HolderOK'
    BY <1>0, <1>2, <1>3 DEF HolderOK, RowsKept, Exists, TypeOK
  <2>3. Proven'
    BY DEF Proven
  <2> QED
    BY <2>1, <2>2, <2>3
<1> QED
  BY <1>4, <1>5, <1>6, <1>7, <1>8

LEMMA RestingTyped ==
    /\ Resting \in Runner /\ Resting.job = NoKey /\ Resting.pc = "idle" /\ Resting.target = 0
BY DEF Resting, Runner, Kinds

LEMMA EndsKeeps ==
    ASSUME MaintInv, NEW state \in {"succeeded", "failed"}, Ends(state),
           runner.pc \notin {"idle", "resume"}
    PROVE  MaintInv'
<1>1. runner.job \in Keys /\ Exists(runner.job)
  BY DEF MaintInv, TypeOK, Runner, HolderOK, Exists
<1>2. /\ rows' = WithState(runner.job, state) \/ rows' = rows
      /\ claims' = Released(runner.job) /\ runner' = Resting /\ proofs' = {}
      /\ UNCHANGED <<head, marks, committed, done, waiting, plans, faults>>
  BY DEF Ends, Commits
<1>3. NoKey # runner.job
  BY <1>1, NoKeyAssumption
<1> QED
  BY <1>1, <1>2, <1>3, RestingTyped, LeaveKeeps

LEMMA ExpiredKeeps ==
    ASSUME MaintInv, NEW k \in Keys, FailExpired(k)
    PROVE  MaintInv'
<1>1. /\ Exists(k) /\ rows' = WithState(k, "failed") /\ claims' = Released(k) /\ proofs' = {}
      /\ runner' = [Resting EXCEPT !.job = k, !.pc = "resume"]
      /\ UNCHANGED <<head, marks, committed, done, waiting, plans, faults>>
  BY DEF FailExpired, Commits, Exists
<1>2. /\ runner'.job = k /\ runner'.pc = "resume" /\ runner'.target = 0
      /\ runner' \in Runner
  BY <1>1 DEF Resting, Runner, Kinds
<1> QED
  BY <1>1, <1>2, LeaveKeeps

LEMMA ResumeKeeps ==
    ASSUME MaintInv, NEW safe \in BOOLEAN, Resume(safe)
    PROVE  MaintInv'
<1> DEFINE k == runner.job
<1>1. /\ k \in Keys /\ k # NoKey /\ Exists(k) /\ runner.pc = "resume"
  BY NoKeyAssumption DEF Resume, MaintInv, TypeOK, Runner, HolderOK
<1>2. /\ runner' = Resting
      /\ UNCHANGED <<head, marks, committed, claims, done, waiting, plans, faults>>
  BY DEF Resume
<1>3. Worker \notin proofs
  BY <1>1 DEF MaintInv, Proven
<1>4. CASE safe /\ rows[k].state = "failed"
  <2>1. rows' = WithState(k, "pending") /\ proofs' = {} /\ ~Active(k)
    BY <1>4 DEF Resume, Requeues, Commits, Active
  <2> QED
    BY <1>1, <1>2, <2>1, RestingTyped, LeaveKeeps
<1>5. CASE ~(safe /\ rows[k].state = "failed")
  <2>1. UNCHANGED <<rows, proofs>>
    BY <1>5 DEF Resume
  <2>2. RunnerFits(runner')
    <3>1. runner'.job = NoKey /\ runner'.pc = "idle" /\ runner'.target = 0 /\ runner' \in Runner
      BY <1>2 DEF Resting, Runner, Kinds
    <3> QED
      BY <3>1, MarksTyped DEF RunnerFits
  <2>3. runner'.pc = "idle"
    BY <1>2 DEF Resting
  <2>4. /\ Owned' /\ WatermarkOrder' /\ marks' \in Marks
        /\ claims' \in [Kinds -> Keys \cup {NoKey}]
        /\ done' \in [Keys -> SUBSET {"slow", "index", "promote"}]
    BY <1>2, <2>1, <2>3 DEF MaintInv, TypeOK, Owned, Active, WatermarkOrder
  <2> QED
    BY <1>2, <1>3, <2>1, <2>2, <2>4, RunnerMoves
<1> QED
  BY <1>4, <1>5

-----------------------------------------------------------------------------
(* The invariant, and what follows from it *)

LEMMA NothingYet ==
    ASSUME Init
    PROVE  MaintInv
<1>1. MaxSource \in Nat /\ MaxFaults \in Nat /\ Worker \notin Schedulers
  BY ScopeMaintenanceAssumption
<1>2. /\ rows \in [Keys -> [state: States, seq: Nat]]
      /\ \A k \in Keys : rows[k].state = "absent"
  BY DEF Init, States
<1>3. /\ marks.source = 0 /\ marks.delta = 0 /\ marks.indexed = 0 /\ marks.promoted = 0
      /\ marks \in Marks
  BY DEF Init, Marks
<1>4. /\ NoPlan \in Plan /\ NoPlan.pc = "idle"
      /\ \A d \in Derived : NoPlan.due[d] = 0
  BY <1>1 DEF NoPlan, Plan, States
<1>5. /\ plans \in [Schedulers -> Plan]
      /\ \A p \in Schedulers : plans[p] = NoPlan
  BY <1>4 DEF Init
<1>6. runner = Resting /\ committed = {} /\ waiting = {} /\ proofs = {} /\ head = 1 /\ faults = 0
      /\ claims = [c \in Kinds |-> NoKey] /\ done = [k \in Keys |-> {}]
  BY DEF Init
<1>7. TypeOK
  BY <1>1, <1>2, <1>3, <1>5, <1>6, RestingTyped DEF TypeOK
<1>8. Cardinality(Places(committed)) = 0
  <2>1. Places(committed) = {}
    BY <1>6 DEF Places
  <2> QED
    BY <2>1, FS_EmptySet
<1>9. Journal /\ WatermarkOrder
  BY <1>3, <1>6, <1>8, RestingTyped DEF Journal, WatermarkOrder
<1>10. Numbered /\ HolderOK
  BY <1>2, <1>6, RestingTyped DEF Numbered, HolderOK, Exists
<1>11. Aims /\ PlansOK
  BY <1>2, <1>3, <1>4, <1>5, <1>6, RestingTyped DEF Aims, PlansOK, Exists
<1>12. Owned /\ Proven
  BY <1>6, RestingTyped DEF Owned, Proven
<1> QED
  BY <1>7, <1>9, <1>10, <1>11, <1>12 DEF MaintInv

LEMMA CrashKeeps ==
    ASSUME MaintInv, Crash
    PROVE  MaintInv'
<1>1. /\ faults < MaxFaults /\ faults' = faults + 1
      /\ runner' = Resting /\ waiting' = {} /\ proofs' = {}
      /\ plans' = [p \in Schedulers |-> NoPlan]
      /\ UNCHANGED <<rows, head, marks, committed, claims, done>>
  BY DEF Crash
<1>2. /\ NoPlan \in Plan /\ NoPlan.pc = "idle"
      /\ \A d \in Derived : NoPlan.due[d] = 0
  BY ScopeMaintenanceAssumption DEF NoPlan, Plan, States
<1>3. /\ plans' \in [Schedulers -> Plan]
      /\ \A p \in Schedulers : plans'[p] = NoPlan
  BY <1>1, <1>2
<1>4. /\ runner' \in Runner /\ runner'.job = NoKey /\ runner'.pc = "idle" /\ runner'.target = 0
  BY <1>1, RestingTyped
<1>5. faults' \in 0..MaxFaults
  BY <1>1, ScopeMaintenanceAssumption DEF MaintInv, TypeOK
<1>6. TypeOK'
  BY <1>1, <1>3, <1>4, <1>5 DEF MaintInv, TypeOK
<1>7. Journal' /\ WatermarkOrder' /\ Numbered' /\ Owned'
  BY <1>1, <1>4 DEF MaintInv, Journal, WatermarkOrder, Numbered, Exists, Owned, Active
<1>8. Aims' /\ PlansOK'
  BY <1>1, <1>2, <1>3, <1>4, MarksTyped DEF MaintInv, Aims, PlansOK, Exists
<1>9. HolderOK' /\ Proven'
  BY <1>1, <1>4 DEF HolderOK, Proven
<1> QED
  BY <1>6, <1>7, <1>8, <1>9 DEF MaintInv

LEMMA CommitKeeps ==
    ASSUME MaintInv, UNCHANGED <<rows, head, marks, committed, claims, done, waiting, runner,
                                 plans, faults>>,
           proofs' = {} \/ proofs' = proofs
    PROVE  MaintInv'
<1>1. TypeOK' /\ Journal' /\ Numbered' /\ Aims' /\ PlansOK'
  BY DEF MaintInv, TypeOK, Journal, Numbered, Exists, Aims, PlansOK
<1>2. HolderOK' /\ Owned' /\ WatermarkOrder'
  BY DEF MaintInv, HolderOK, Exists, Owned, Active, WatermarkOrder
<1>3. Proven'
  BY ProvableKept DEF MaintInv, Proven
<1> QED
  BY <1>1, <1>2, <1>3 DEF MaintInv

LEMMA SchedulerKeeps ==
    ASSUME MaintInv, NEW p \in Schedulers, SchedulerStep(p)
    PROVE  MaintInv'
BY ReadKeeps, SubmitKeeps, PlanDoneKeeps, ProveAutoKeeps, TakeAutoKeeps, CancelKeeps
   DEF SchedulerStep

LEMMA RunnerKeeps ==
    ASSUME MaintInv, RunnerStep
    PROVE  MaintInv'
<1>1. CASE RecordIngest \/ ProveClaim \/ TakeClaim \/ AskAgain \/ Build \/ AdvanceMark \/ Promote
  BY <1>1, RecordKeeps, ProveKeeps, TakeKeeps, AskKeeps, BuildKeeps, AdvanceKeeps, PromoteKeeps
<1>2. CASE RunSlow
  BY <1>2, StageKeeps DEF RunSlow
<1>3. CASE CompleteIndex
  BY <1>3, StageKeeps DEF CompleteIndex
<1>4. CASE CompletePromote
  BY <1>4, StageKeeps DEF CompletePromote
<1>5. CASE FinishJob
  BY <1>5, EndsKeeps DEF FinishJob
<1>6. CASE FailJob
  BY <1>6, EndsKeeps DEF FailJob
<1>7. CASE \E safe \in BOOLEAN : Resume(safe)
  BY <1>7, ResumeKeeps
<1> QED
  BY <1>1, <1>2, <1>3, <1>4, <1>5, <1>6, <1>7 DEF RunnerStep

LEMMA MaintStep ==
    ASSUME MaintInv, [Next]_vars
    PROVE  MaintInv'
<1>1. CASE \E p \in Schedulers : SchedulerStep(p)
  BY <1>1, SchedulerKeeps
<1>2. CASE \E i \in 1..MaxSource : SubmitIngest(i)
  BY <1>2, IngestKeeps
<1>3. CASE JobStep
  <2>1. CASE \E k \in Keys : ClaimJob(k) \/ StartJob(k) \/ FailExpired(k)
    BY <2>1, ClaimKeeps, StartKeeps, ExpiredKeeps
  <2> QED
    BY <1>3, <2>1, RunnerKeeps DEF JobStep
<1>4. CASE (\E k \in Keys : Retry(k)) \/ DeadlinePasses \/ Crash
  BY <1>4, RetryKeeps, DeadlineKeeps, CrashKeeps
<1>5. CASE OtherCommit \/ UNCHANGED vars
  BY <1>5, CommitKeeps DEF OtherCommit, Commits, vars
<1> QED
  BY <1>1, <1>2, <1>3, <1>4, <1>5 DEF Next

(* The state of a scope under every schedule of its worker loops, with     *)
(* every number of ingests, faults and foreign commits.                   *)
LEMMA MaintAlways == Spec => []MaintInv
BY NothingYet, MaintStep, PTL DEF Spec

(* The scope's rows, watermarks, claims, plans and lock keep their types.  *)
THEOREM ScopeTypes == Spec => []TypeOK
<1>1. MaintInv => TypeOK
  BY DEF MaintInv
<1> QED
  BY <1>1, MaintAlways, PTL

(* Promoted is never ahead of indexed, indexed never ahead of searchable,  *)
(* searchable never ahead of the journalled source: the aims of jobs and   *)
(* plans are bounded by the source that was there when they were read.     *)
THEOREM MarksInOrder == Spec => []WatermarkOrder
<1>1. MaintInv => WatermarkOrder
  BY DEF MaintInv
<1> QED
  BY <1>1, MaintAlways, PTL

(* A scheduler submits and cancels jobs, it requeues none.                 *)
LEMMA MovesOfPlans ==
    ASSUME MaintInv, NEW p \in Schedulers, SchedulerStep(p), rows' # rows
    PROVE  \E k \in Keys : QueueMove(k) /\ rows[k].state # "failed"
<1>1. SubmitAuto(p) \/ CancelRefused(p)
  BY DEF SchedulerStep, ReadEvolutionDue, ReadIndexDue, PlanDone, ProveAuto, TakeAuto
<1>2. CASE SubmitAuto(p)
  <2> DEFINE k == [type |-> Planned(p), at |-> plans[p].due[Planned(p)]]
  <2>1. /\ plans[p].due \in [Derived -> 0..MaxSource] /\ Planned(p) \in Derived
        /\ plans[p].due[Planned(p)] <= marks.source
    BY PlanTyped
  <2>2. plans[p].due[Planned(p)] \in 1..MaxSource
    BY <1>2, <2>1 DEF SubmitAuto
  <2>3. k \in Keys /\ k.at <= marks.source
    BY <2>1, <2>2 DEF Keys
  <2>4. /\ rows[k].state = "absent" /\ claims' = claims
        /\ rows' = [rows EXCEPT ![k] = [state |-> "pending", seq |-> head]] /\ head' = head + 1
    BY <1>2 DEF SubmitAuto
  <2> HIDE DEF k
  <2> QED
    BY <2>3, <2>4 DEF QueueMove, Exists
<1>3. CASE CancelRefused(p)
  <2>1. plans[p].key \in Keys
    BY <1>3 DEF CancelRefused, MaintInv, PlansOK
  <2>2. /\ Active(plans[p].key) /\ rows' = WithState(plans[p].key, "cancelled")
        /\ claims' = Released(plans[p].key) /\ head' = head
    BY <1>3 DEF CancelRefused
  <2> QED
    BY <2>1, <2>2 DEF QueueMove, Active
<1> QED
  BY <1>1, <1>2, <1>3

(* Work on graph and index is begun by the claim alone. *)
LEMMA StepsOfRunner ==
    ASSUME MaintInv, RunnerStep, ~TakeClaim, Deriving'
    PROVE  Deriving /\ rows' = rows /\ runner'.job = runner.job
<1>1. runner \in Runner
  BY DEF MaintInv, TypeOK
<1>2. runner'.pc \in {"slow", "build", "promote"}
  BY DEF Deriving
<1>3. ~(\E pc \in {"proven", "refused", "claim", "advance", "activated", "promoted", "end"} :
           Goes(pc))
  BY <1>1, <1>2 DEF Goes, Runner
<1>4. runner' # Resting
  BY <1>2, RestingTyped
<1>5. ~RecordIngest
  <2> SUFFICES ASSUME RecordIngest PROVE FALSE
    OBVIOUS
  <2> DEFINE pc == IF "index" \in done[runner.job] THEN "end" ELSE "claim"
  <2>1. \E source : runner' = [runner EXCEPT !.pc = pc, !.target = source]
    BY DEF RecordIngest
  <2> QED
    BY <1>1, <1>2, <2>1 DEF Runner
<1>6. Build
  BY <1>3, <1>4, <1>5 DEF RunnerStep, ProveClaim, AskAgain, RunSlow, Succeeds, AdvanceMark,
        CompleteIndex, Promote, CompletePromote, FinishJob, FailJob, Ends, Resume
<1>7. Goes("promote") /\ rows' = rows /\ runner.pc = "build" /\ runner.job.type = "consolidate"
  BY <1>3, <1>6 DEF Build, Succeeds
<1> QED
  BY <1>1, <1>7 DEF Goes, Runner, Deriving, Derived

(* What is queued while a derived job is at work has a higher number; what *)
(* comes back with a lower one had failed.                                 *)
LEMMA QueuedLater ==
    ASSUME MaintInv, NEW k \in Keys, QueueMove(k), runner' = runner, Deriving', NEW i \in Unsettled'
    PROVE  (Deriving /\ i \in Unsettled) \/ (i = k /\ rows[k].state = "failed")
<1>1. /\ Deriving /\ i \in Keys /\ i.type = "ingest" /\ (Active(i))'
      /\ rows'[i].seq < rows'[runner.job].seq
  BY DEF Deriving, Unsettled, Active
<1>2. /\ rows \in [Keys -> [state: States, seq: Nat]] /\ head \in Nat \ {0} /\ Numbered
      /\ runner.job \in Keys /\ Exists(runner.job)
  BY <1>1 DEF Deriving, MaintInv, TypeOK, Runner, HolderOK, Exists
<1>3. RowsKept
  <2>1. RowMoves
    BY <1>2 DEF QueueMove, RowMoves, Exists, Active, States
  <2> QED
    BY <2>1, RowsKeep DEF MaintInv
<1>4. rows'[runner.job].seq = rows[runner.job].seq
  BY <1>2, <1>3 DEF RowsKept
<1>5. CASE Active(i)
  BY <1>1, <1>3, <1>4, <1>5 DEF Unsettled, RowsKept, Exists, Active
<1>6. CASE ~Active(i) /\ rows[i].state # "failed"
  <2>1. i = k /\ ~Exists(k) /\ rows'[i].seq = head
    BY <1>1, <1>2, <1>6 DEF QueueMove, WithState, Exists, Active, States
  <2>2. rows[runner.job].seq < head /\ rows[runner.job].seq \in Nat
    BY <1>2 DEF Numbered
  <2> QED
    BY <1>1, <1>2, <1>4, <2>1, <2>2
<1>7. CASE rows[i].state = "failed"
  <2>1. i = k
    BY <1>1, <1>2, <1>7 DEF QueueMove, WithState, Active
  <2> QED
    BY <1>7, <2>1
<1> QED
  BY <1>5, <1>6, <1>7

(* Graph and index are begun only over settled ingests: the proof of the   *)
(* claim still held when the claim was taken, whatever was committed       *)
(* between the two transactions.  What is queued later has a higher        *)
(* number, and only a client's retry brings an earlier ingest back.        *)
THEOREM DerivedOverSettled == Spec => DerivedAfterIngests
<1> DEFINE Kept(i) == (Deriving /\ i \in Unsettled) \/ Retry(i)
           Settled == Deriving' => \A i \in Unsettled' : Kept(i)
<1>1. ASSUME MaintInv, Next, Deriving', NEW i \in Unsettled' PROVE Kept(i)
  <2>1. CASE \E p \in Schedulers : SchedulerStep(p)
    <3> PICK p \in Schedulers : SchedulerStep(p)
      BY <2>1
    <3>1. runner' = runner
      BY DEF SchedulerStep, ReadEvolutionDue, ReadIndexDue, SubmitAuto, PlanDone, ProveAuto,
             TakeAuto, CancelRefused
    <3>2. CASE rows' = rows
      BY <1>1, <3>1, <3>2 DEF Deriving, Unsettled, Active
    <3>3. CASE rows' # rows
      <4>1. \E k \in Keys : QueueMove(k) /\ rows[k].state # "failed"
        BY <1>1, <3>3, MovesOfPlans
      <4> QED
        BY <1>1, <3>1, <4>1, QueuedLater
    <3> QED
      BY <3>2, <3>3
  <2>2. CASE \E k \in 1..MaxSource : SubmitIngest(k)
    <3> PICK j \in 1..MaxSource : SubmitIngest(j)
      BY <2>2
    <3> DEFINE k == [type |-> "ingest", at |-> j]
    <3>1. k \in Keys /\ k.type = "ingest" /\ "ingest" \notin Derived
      BY DEF Keys, Derived
    <3> HIDE DEF k
    <3>2. QueueMove(k) /\ rows[k].state # "failed" /\ runner' = runner
      BY <3>1 DEF SubmitIngest, QueueMove, Exists, k
    <3> QED
      BY <1>1, <3>1, <3>2, QueuedLater
  <2>3. CASE \E k \in Keys : ClaimJob(k) \/ StartJob(k) \/ FailExpired(k)
    <3> PICK k \in Keys : ClaimJob(k) \/ StartJob(k) \/ FailExpired(k)
      BY <2>3
    <3>1. CASE ClaimJob(k)
      <4>1. QueueMove(k) /\ rows[k].state # "failed" /\ runner' = runner
        BY <3>1 DEF ClaimJob, QueueMove
      <4> QED
        BY <1>1, <4>1, QueuedLater
    <3>2. CASE StartJob(k)
      <4>1. runner'.pc \in {"idle", FirstStep(k)} /\ k.type \in {"ingest", "consolidate", "reindex"}
        BY <3>2 DEF StartJob, Resting, Keys, Derived
      <4>2. runner'.pc \notin {"slow", "build", "promote"}
        BY <4>1 DEF FirstStep
      <4> QED
        BY <1>1, <4>2 DEF Deriving
    <3>3. CASE FailExpired(k)
      <4>1. runner'.pc = "resume"
        BY <3>3 DEF FailExpired, Resting
      <4> QED
        BY <1>1, <4>1 DEF Deriving
    <3> QED
      BY <3>1, <3>2, <3>3
  <2>4. CASE TakeClaim
    <3>1. rows' = rows /\ runner.pc = "proven" /\ runner \in Runner
      BY <1>1, <2>4 DEF TakeClaim, MaintInv, TypeOK
    <3>2. Takes(Worker, runner.want, runner.job)
      <4> SUFFICES ASSUME ~Takes(Worker, runner.want, runner.job) PROVE FALSE
        OBVIOUS
      <4>1. runner' = [runner EXCEPT !.pc = "refused"]
        BY <2>4 DEF TakeClaim, Goes
      <4>2. runner'.pc = "refused"
        BY <3>1, <4>1 DEF Runner
      <4> QED
        BY <1>1, <4>2 DEF Deriving
    <3>3. runner' = [runner EXCEPT !.pc = AfterClaim, !.want = "index"]
      BY <2>4, <3>2 DEF TakeClaim
    <3>4. runner'.job = runner.job
      BY <3>1, <3>3 DEF Runner
    <3>5. Provable(runner.job)
      BY <1>1, <3>2 DEF Takes, MaintInv, Proven
    <3> QED
      BY <1>1, <3>1, <3>4, <3>5 DEF Provable, GateReady, Unsettled, Active
  <2>5. CASE RunnerStep /\ ~TakeClaim
    <3>1. Deriving /\ rows' = rows /\ runner'.job = runner.job
      BY <1>1, <2>5, StepsOfRunner
    <3> QED
      BY <1>1, <3>1 DEF Unsettled, Active
  <2>6. CASE \E k \in Keys : Retry(k)
    <3> PICK k \in Keys : Retry(k)
      BY <2>6
    <3>1. QueueMove(k) /\ runner' = runner
      BY DEF Retry, Requeues, QueueMove
    <3> QED
      BY <1>1, <3>1, QueuedLater
  <2>7. CASE DeadlinePasses
    <3>1. /\ runner' = [runner EXCEPT !.late = TRUE] /\ runner \in Runner /\ rows' = rows
      BY <1>1, <2>7 DEF DeadlinePasses, MaintInv, TypeOK
    <3>2. runner'.pc = runner.pc /\ runner'.job = runner.job
      BY <3>1 DEF Runner
    <3> QED
      BY <1>1, <3>1, <3>2 DEF Deriving, Unsettled, Active
  <2>8. CASE Crash
    BY <1>1, <2>8, RestingTyped DEF Crash, Deriving
  <2>9. CASE OtherCommit
    BY <1>1, <2>9 DEF OtherCommit, Deriving, Unsettled, Active
  <2> QED
    BY <1>1, <2>1, <2>2, <2>3, <2>4, <2>5, <2>6, <2>7, <2>8, <2>9 DEF Next, JobStep
<1>2. ASSUME MaintInv, Next PROVE Settled
  BY <1>1, <1>2
<1> QED
  BY <1>2, MaintAlways, PTL DEF Spec, DerivedAfterIngests

(* No job that has been cancelled, failed or requeued moves a derived      *)
(* watermark: the claim it would need has been released with its row.      *)
THEOREM OnlyRunningMoves == Spec => MovedByRunningJob
<1> DEFINE Moved == \A m \in DOMAIN marks \ {"source"} :
                        marks'[m] # marks[m] => runner.job # NoKey /\ Attempt
<1>1. ASSUME MaintInv, Next PROVE Moved
  <2> SUFFICES ASSUME NEW m \in DOMAIN marks \ {"source"}, marks'[m] # marks[m]
               PROVE  runner.job # NoKey /\ Attempt
    OBVIOUS
  <2>1. /\ marks \in Marks
        /\ RecordIngest => marks' = [marks EXCEPT !.source = marks'.source]
    BY <1>1 DEF RecordIngest, MaintInv, TypeOK, Marks
  <2>2. ~RecordIngest
    BY <2>1 DEF Marks
  <2>3. AdvanceMark \/ Promote
    <3>1. marks' # marks
      OBVIOUS
    <3>2. ~(\E p \in Schedulers : SchedulerStep(p))
      BY <3>1 DEF SchedulerStep, ReadEvolutionDue, ReadIndexDue, SubmitAuto, PlanDone,
                  ProveAuto, TakeAuto, CancelRefused
    <3>3. ~(\E i \in 1..MaxSource : SubmitIngest(i)) /\ ~DeadlinePasses /\ ~Crash /\ ~OtherCommit
      BY <3>1 DEF SubmitIngest, DeadlinePasses, Crash, OtherCommit
    <3>4. ~(\E k \in Keys : ClaimJob(k) \/ StartJob(k) \/ FailExpired(k) \/ Retry(k))
      BY <3>1 DEF ClaimJob, StartJob, FailExpired, Retry
    <3>5. RunnerStep => AdvanceMark \/ Promote
      BY <2>2, <3>1 DEF RunnerStep, ProveClaim, TakeClaim, AskAgain, RunSlow, Succeeds, Build,
                        CompleteIndex, CompletePromote, FinishJob, FailJob, Ends, Resume
    <3> QED
      BY <1>1, <3>2, <3>3, <3>4, <3>5 DEF Next, JobStep
  <2>4. \E c \in Kinds : claims[c] = runner.job
    BY <2>3 DEF AdvanceMark, Promote, OwnsClaim, Kinds
  <2>5. runner.job # NoKey /\ runner.pc \notin {"idle", "resume"}
    BY <1>1, <2>3 DEF AdvanceMark, Promote, MaintInv, TypeOK
  <2>6. Active(runner.job)
    BY <1>1, <2>4, <2>5 DEF MaintInv, Owned
  <2> QED
    BY <1>1, <2>5, <2>6 DEF MaintInv, HolderOK, Active, Attempt
<1> QED
  BY <1>1, MaintAlways, PTL DEF Spec, MovedByRunningJob
===============================================================================
