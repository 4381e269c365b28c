----------------------------- MODULE RecallPool -----------------------------
(***************************************************************************)
(* The pool of recall engines (recall_pool.py).  Request threads lease an  *)
(* engine by `execute`; they wait in bounded queues, one per tenant, that  *)
(* are served in turn.  Beside them run the thread that scales or repairs  *)
(* the pool, the thread that warms it up or does its idle maintenance, and *)
(* the threads that close engines.  What a thread does while it holds      *)
(* `_condition` is one action; building and closing an engine are outside. *)
(*                                                                         *)
(* A slot is an `_EngineSlot`; its number is used again once nothing       *)
(* refers to it.  Time is not modelled: a deadline that is finite may have *)
(* passed, and the demand the pool is scaled to may be anything.           *)
(***************************************************************************)
EXTENDS Naturals, Sequences, SequencesExt, FiniteSets, FiniteSetsExt

CONSTANTS
    Slots,        \* names of slots
    NoSlot,       \* no slot
    MinSize,      \* min_size
    MaxSize,      \* max_size
    Clients,      \* request threads
    Tenants,
    TenantOf,     \* [Clients -> Tenants]
    MaxPending,   \* max_pending
    PerTenant,    \* per_tenant_pending
    MaxWarmups,   \* bound: calls of warmup
    MaxFaults     \* bound: fatal operations and engines that fail to start

ASSUME RecallPoolAssumption ==
    /\ Slots \subseteq Nat /\ NoSlot \notin Slots
    /\ MinSize \in Nat \ {0} /\ MaxSize \in Nat /\ MinSize <= MaxSize
    /\ 0..(MinSize - 1) \subseteq Slots
    /\ IsFiniteSet(Clients) /\ TenantOf \in [Clients -> Tenants]
    /\ MaxPending \in Nat /\ PerTenant \in Nat
    /\ MaxWarmups \in Nat /\ MaxFaults \in Nat

VARIABLES
    pool,        \* _slots
    engines,     \* slots whose engine is constructed (_loaded)
    available,   \* _available
    queues,      \* [Tenants -> Seq(Clients)]: _tenant_queues
    order,       \* _tenant_order
    active,      \* _active
    pending,     \* _pending
    retiring,    \* _retiring
    closed,      \* _closed
    warming,     \* _warming
    ready,       \* _startup_ready
    target,      \* _repair_target_size
    shut,        \* _repair_next_attempt_at is infinite
    client,      \* [Clients -> [pc, slot, repair]]
    scaler,      \* [pc, slot, repair]: the scale step under way (_scaling)
    keeper,      \* [pc, slots, todo, good]: the holder of _warmup_lock
    janitor,     \* slots that close() has given to a thread of its own
    warmups,     \* warm-ups so far
    faults       \* faults so far

queueing == <<available, queues, order, active, pending, client>>
repairs == <<ready, target, shut>>
bounds == <<warmups, faults>>
vars == <<pool, engines, available, queues, order, active, pending, retiring, closed,
          warming, ready, target, shut, client, scaler, keeper, janitor, warmups, faults>>

Idle == [pc |-> "idle", slot |-> NoSlot, repair |-> FALSE]

Client == [pc: {"idle", "waiting", "running", "closing", "reopening"},
           slot: Slots \cup {NoSlot}, repair: BOOLEAN]

Scaler == [pc: {"idle", "admitting", "building", "broken", "built", "publishing",
                "failed", "closing"},
           slot: Slots \cup {NoSlot}, repair: BOOLEAN]

Keeper == [pc: {"idle", "waiting", "warming", "maintaining", "retiring"},
           slots: SUBSET Slots, todo: SUBSET Slots, good: SUBSET Slots]

TypeOK ==
    /\ pool \in SUBSET Slots /\ engines \in SUBSET Slots
    /\ available \in Seq(Slots)
    /\ queues \in [Tenants -> Seq(Clients)] /\ order \in Seq(Tenants)
    /\ active \in Nat /\ retiring \in Nat
    /\ pending \in 0..MaxPending
    /\ closed \in BOOLEAN /\ warming \in BOOLEAN /\ ready \in BOOLEAN
    /\ target \in {0} \cup MinSize..MaxSize /\ shut \in BOOLEAN
    /\ client \in [Clients -> Client]
    /\ scaler \in Scaler /\ keeper \in Keeper
    /\ janitor \in SUBSET Slots
    /\ warmups \in 0..MaxWarmups /\ faults \in 0..MaxFaults

-----------------------------------------------------------------------------
(* State formulae *)

Scaling == scaler.pc # "idle"

At(c, pc) == client[c].pc = pc

Leased == {client[c].slot : c \in {d \in Clients : At(d, "running")}}

Free(s) ==
    /\ s \notin pool \cup engines \cup janitor \cup keeper.slots
    /\ s # scaler.slot /\ \A c \in Clients : client[c].slot # s

(* Whether the slots of p, of which e are constructed, reach min_size. *)
Resident(p, e) == Cardinality(p \cap e) >= MinSize

Rest == [pc |-> "idle", slots |-> {}, todo |-> {}, good |-> {}]

(* What _dispatch_locked reads and changes. *)
Lanes == [available |-> available, queues |-> queues, order |-> order,
          active |-> active, pending |-> pending, client |-> client]

(* The next tenant's first waiter is given slot s. *)
Grant(l, s) ==
    IF l.order = <<>> THEN l
    ELSE LET t == Head(l.order)
             c == Head(l.queues[t])
             rest == Tail(l.queues[t])
         IN [available |-> Tail(l.available),
             queues |-> [l.queues EXCEPT ![t] = rest],
             order |-> IF rest = <<>> THEN Tail(l.order) ELSE Append(Tail(l.order), t),
             active |-> l.active + 1,
             pending |-> l.pending - 1,
             client |-> [l.client EXCEPT ![c] = [Idle EXCEPT !.pc = "running", !.slot = s]]]

(* _dispatch_locked: each idle slot goes to the next waiter, while there is one. *)
Dispatch(l, held) ==
    LET n == Len(l.available)
        granted[i \in 0..n] == IF i = 0 THEN l ELSE Grant(granted[i - 1], l.available[i])
    IN IF held THEN l ELSE granted[n]

BecomesTo(l) ==
    /\ available' = l.available /\ queues' = l.queues /\ order' = l.order
    /\ active' = l.active /\ pending' = l.pending /\ client' = l.client

Fault == faults < MaxFaults /\ faults' = faults + 1

(* Before the start-up warm-up. *)
Init ==
    /\ pool = 0..(MinSize - 1) /\ engines = {}
    /\ available = <<>> /\ queues = [t \in Tenants |-> <<>>] /\ order = <<>>
    /\ active = 0 /\ pending = 0 /\ retiring = 0
    /\ closed = FALSE /\ warming = FALSE /\ ready = FALSE
    /\ target = 0 /\ shut = FALSE
    /\ client = [c \in Clients |-> Idle] /\ scaler = Idle /\ keeper = Rest
    /\ janitor = {} /\ warmups = 0 /\ faults = 0

-----------------------------------------------------------------------------
(* Requests *)

(* An engine that is idle is leased without passing through a queue. *)
Lease(c) ==
    /\ At(c, "idle") /\ ~closed
    /\ available # <<>> /\ order = <<>> /\ ~warming
    /\ available' = Tail(available) /\ active' = active + 1
    /\ client' = [client EXCEPT ![c] = [Idle EXCEPT !.pc = "running",
                                                    !.slot = Head(available)]]
    /\ UNCHANGED <<pool, engines, queues, order, pending, retiring, closed, warming,
                   repairs, scaler, keeper, janitor, bounds>>

(* Faulty: the bound of the whole pool is not looked at. *)
EnqueueUnbounded(c) ==
    LET t == TenantOf[c]
    IN /\ At(c, "idle") /\ ~closed
       /\ available = <<>> \/ order # <<>> \/ warming
       /\ Len(queues[t]) < PerTenant
       /\ BecomesTo(Dispatch(
              [Lanes EXCEPT !.queues[t] = Append(@, c),
                            !.order = IF queues[t] = <<>> THEN Append(@, t) ELSE @,
                            !.pending = @ + 1,
                            !.client[c] = [Idle EXCEPT !.pc = "waiting"]], warming))
       /\ UNCHANGED <<pool, engines, retiring, closed, warming, repairs, scaler, keeper,
                      janitor, bounds>>

(* Otherwise the request is queued, or refused where a queue is full. *)
Enqueue(c) ==
    LET t == TenantOf[c]
    IN /\ At(c, "idle") /\ ~closed
       /\ available = <<>> \/ order # <<>> \/ warming
       /\ Len(queues[t]) < PerTenant /\ pending < MaxPending
       /\ BecomesTo(Dispatch(
              [Lanes EXCEPT !.queues[t] = Append(@, c),
                            !.order = IF queues[t] = <<>> THEN Append(@, t) ELSE @,
                            !.pending = @ + 1,
                            !.client[c] = [Idle EXCEPT !.pc = "waiting"]], warming))
       /\ UNCHANGED <<pool, engines, retiring, closed, warming, repairs, scaler, keeper,
                      janitor, bounds>>

(* A queue without x, which is in it once. *)
Dropped(queue, x) == RemoveAt(queue, CHOOSE i \in 1..Len(queue) : queue[i] = x)

(* Faulty: the tenant keeps a turn it has no waiter for. *)
WithoutButTurn(c) ==
    [Lanes EXCEPT !.queues[TenantOf[c]] = Dropped(@, c),
                  !.pending = @ - 1,
                  !.client[c] = Idle]

(* The lanes without waiter c: _remove_waiter_locked. *)
Without(c) ==
    LET t == TenantOf[c]
        left == Dropped(queues[t], c)
    IN [Lanes EXCEPT !.queues[t] = left,
                     !.order = IF left = <<>> THEN Dropped(@, t) ELSE @,
                     !.pending = @ - 1,
                     !.client[c] = Idle]

TimeOut(c) ==
    /\ At(c, "waiting") /\ ~closed
    /\ BecomesTo(Dispatch(Without(c), warming))
    /\ UNCHANGED <<pool, engines, retiring, closed, warming, repairs, scaler, keeper,
                   janitor, bounds>>

(* close() has emptied the queues. *)
SeesClosed(c) ==
    /\ At(c, "waiting") /\ closed
    /\ client' = [client EXCEPT ![c] = Idle]
    /\ UNCHANGED <<pool, engines, available, queues, order, active, pending, retiring,
                   closed, warming, repairs, scaler, keeper, janitor, bounds>>

(* The lanes after the request of c: the slot is idle, or c closes it. *)
Returned(c, retired, repair) ==
    LET s == client[c].slot
    IN [Lanes EXCEPT !.active = @ - 1,
                     !.available = IF retired THEN @ ELSE Append(@, s),
                     !.client[c] = IF retired
                                   THEN [pc |-> "closing", slot |-> s, repair |-> repair]
                                   ELSE Idle]

(* The operation is over, and its engine is still good. *)
Return(c) ==
    /\ At(c, "running")
    /\ BecomesTo(Dispatch(Returned(c, closed, FALSE), warming \/ closed))
    /\ pool' = IF closed THEN pool \ {client[c].slot} ELSE pool
    /\ retiring' = IF closed THEN retiring + 1 ELSE retiring
    /\ UNCHANGED <<engines, closed, warming, repairs, scaler, keeper, janitor, bounds>>

(* The operation has broken its engine: the slot leaves the pool, and a    *)
(* pool that is now too small for the demand is to be repaired once the    *)
(* engine is closed.                                                       *)
ReturnBroken(c, demand) ==
    LET left == pool \ {client[c].slot}
        short == Cardinality(left) < demand
    IN /\ At(c, "running") /\ ~closed /\ Fault
       /\ pool' = left /\ retiring' = retiring + 1
       /\ target' = IF short THEN Max({target, demand}) ELSE target
       /\ shut' = (shut \/ short)
       /\ ready' = Resident(left, engines)
       /\ BecomesTo(Dispatch(Returned(c, TRUE, short), warming))
       /\ UNCHANGED <<engines, closed, warming, scaler, keeper, janitor, warmups>>

(* _close_tracked_slot *)
CloseSlot(c) ==
    /\ At(c, "closing")
    /\ engines' = engines \ {client[c].slot} /\ retiring' = retiring - 1
    /\ client' = [client EXCEPT ![c].pc = "reopening", ![c].slot = NoSlot]
    /\ UNCHANGED <<pool, available, queues, order, active, pending, closed, warming,
                   repairs, scaler, keeper, janitor, bounds>>

Reopen(c) ==
    /\ At(c, "reopening")
    /\ shut' = (shut /\ ~(client[c].repair /\ ~closed /\ target > Cardinality(pool)))
    /\ client' = [client EXCEPT ![c] = Idle]
    /\ UNCHANGED <<pool, engines, available, queues, order, active, pending, retiring,
                   closed, warming, ready, target, scaler, keeper, janitor, bounds>>

-----------------------------------------------------------------------------
(* Repair and scaling *)

MayPlan == ~closed /\ ~warming /\ ~Scaling

Starts(s, repair) ==
    /\ Free(s)
    /\ scaler' = [pc |-> "admitting", slot |-> s, repair |-> repair]
    /\ UNCHANGED <<pool, engines, queueing, retiring, closed, warming, repairs, keeper,
                   janitor, bounds>>

(* Faulty: repair waits for the pool to be ready, like scaling. *)
PlanRepairWhenReady(s) ==
    /\ MayPlan /\ ready /\ target > Cardinality(pool) /\ ~shut
    /\ Starts(s, TRUE)

PlanRepair(s) ==
    /\ MayPlan /\ target > Cardinality(pool) /\ ~shut
    /\ Starts(s, TRUE)

Elastic == ready /\ MinSize < MaxSize /\ target <= Cardinality(pool)

PlanUp(s) ==
    /\ MayPlan /\ Elastic /\ Cardinality(pool) < MaxSize
    /\ Starts(s, FALSE)

PlanDown(s) ==
    /\ MayPlan /\ Elastic
    /\ Cardinality(pool) > MinSize /\ Cardinality(pool) > target
    /\ s \in ToSet(available)
    /\ available' = Dropped(available, s) /\ pool' = pool \ {s}
    /\ scaler' = [pc |-> "closing", slot |-> s, repair |-> FALSE]
    /\ UNCHANGED <<engines, queues, order, active, pending, client, retiring, closed,
                   warming, repairs, keeper, janitor, bounds>>

ScalerGoes(pc) ==
    /\ scaler' = [scaler EXCEPT !.pc = pc]
    /\ UNCHANGED <<pool, queueing, retiring, closed, warming, repairs, keeper, janitor,
                   warmups>>

(* A closed pool, or the capacity guard, lets no engine be built. *)
Admit ==
    /\ scaler.pc = "admitting" /\ ~closed /\ ScalerGoes("building")
    /\ UNCHANGED <<engines, faults>>

Reject ==
    /\ scaler.pc = "admitting" /\ ScalerGoes("broken")
    /\ IF closed THEN UNCHANGED faults ELSE Fault
    /\ UNCHANGED engines

Build ==
    /\ scaler.pc = "building" /\ ScalerGoes("built")
    /\ engines' = engines \cup {scaler.slot}
    /\ UNCHANGED faults

(* The constructor fails, or the engine it made fails its warm-up. *)
BuildFails ==
    /\ scaler.pc = "building" /\ ScalerGoes("broken") /\ Fault
    /\ engines' \in {engines, engines \cup {scaler.slot}}

(* The second look at _closed. *)
Look ==
    /\ scaler.pc \in {"built", "broken"}
    /\ IF scaler.pc = "broken" \/ closed
       THEN ScalerGoes("failed") /\ engines' = engines \ {scaler.slot}
       ELSE ScalerGoes("publishing") /\ UNCHANGED engines
    /\ UNCHANGED faults

Publish ==
    LET grown == pool \cup {scaler.slot}
    IN /\ scaler.pc = "publishing"
       /\ pool' = grown /\ scaler' = Idle
       /\ target' = IF Cardinality(grown) >= target THEN 0 ELSE target
       /\ shut' = FALSE
       /\ ready' = Resident(grown, engines)
       /\ BecomesTo(Dispatch([Lanes EXCEPT !.available = Append(@, scaler.slot)],
                             warming \/ closed))
       /\ UNCHANGED <<engines, retiring, closed, warming, keeper, janitor, bounds>>

(* A repair that failed is tried again after a time. *)
ScaleUpFails ==
    /\ scaler.pc = "failed" /\ scaler' = Idle
    /\ shut' = (shut /\ ~scaler.repair)
    /\ UNCHANGED <<pool, engines, queueing, retiring, closed, warming, ready, target,
                   keeper, janitor, bounds>>

ScaleDown ==
    /\ scaler.pc = "closing" /\ scaler' = Idle
    /\ engines' = engines \ {scaler.slot}
    /\ UNCHANGED <<pool, queueing, retiring, closed, warming, repairs, keeper, janitor,
                   bounds>>

-----------------------------------------------------------------------------
(* Warm-up and idle maintenance *)

(* From here on nothing is leased and nothing is scaled. *)
WarmUp ==
    /\ keeper.pc = "idle" /\ ~closed
    /\ warmups < MaxWarmups /\ warmups' = warmups + 1
    /\ warming' = TRUE /\ keeper' = [Rest EXCEPT !.pc = "waiting"]
    /\ UNCHANGED <<pool, engines, queueing, retiring, closed, repairs, scaler, janitor,
                   faults>>

WarmTake ==
    /\ keeper.pc = "waiting" /\ active = 0 /\ ~Scaling
    /\ available' = <<>> /\ active' = Cardinality(pool)
    /\ keeper' = [pc |-> "warming", slots |-> pool, todo |-> pool, good |-> {}]
    /\ UNCHANGED <<pool, engines, queues, order, pending, client, retiring, closed,
                   warming, repairs, scaler, janitor, bounds>>

(* In the order of the index; an engine that fails is closed at once. *)
Warm(s, ok) ==
    /\ keeper.pc = "warming" /\ s \in keeper.todo /\ \A r \in keeper.todo : s <= r
    /\ keeper' = [keeper EXCEPT !.todo = @ \ {s},
                                !.good = IF ok THEN @ \cup {s} ELSE @]
    /\ IF ok THEN engines' = engines \cup {s} /\ UNCHANGED faults
       ELSE engines' = engines \ {s} /\ Fault
    /\ UNCHANGED <<pool, queueing, retiring, closed, warming, repairs, scaler, janitor,
                   warmups>>

(* Slots in the order of the index *)
Listings(S) == {f \in [1..Cardinality(S) -> S] : \A i, j \in DOMAIN f : i < j => f[i] < f[j]}

(* The engines that are warm are published; those of a closed pool retire. *)
WarmEnd == \E warm \in Listings(keeper.good) :
    LET fed == [Lanes EXCEPT
                   !.active = @ - Cardinality(keeper.slots),
                   !.available = IF closed THEN @ ELSE @ \o warm]
    IN /\ keeper.pc = "warming" /\ keeper.todo = {}
       /\ pool' = IF closed THEN pool \ keeper.slots ELSE pool
       /\ retiring' = IF closed THEN retiring + Cardinality(keeper.slots) ELSE retiring
       /\ ready' = (~closed /\ Resident(pool, engines))
       /\ warming' = FALSE
       /\ keeper' = IF closed /\ keeper.slots # {}
                    THEN [Rest EXCEPT !.pc = "retiring", !.slots = keeper.slots,
                                      !.todo = keeper.slots]
                    ELSE Rest
       /\ BecomesTo(Dispatch(fed, closed))
       /\ UNCHANGED <<engines, closed, target, shut, scaler, janitor, bounds>>

WarmRetire(s) ==
    /\ keeper.pc = "retiring" /\ s \in keeper.todo /\ \A r \in keeper.todo : s <= r
    /\ engines' = engines \ {s} /\ retiring' = retiring - 1
    /\ keeper' = IF keeper.todo = {s} THEN Rest ELSE [keeper EXCEPT !.todo = @ \ {s}]
    /\ UNCHANGED <<pool, queueing, closed, warming, repairs, scaler, janitor, bounds>>

(* run_idle_maintenance finds every lane idle. *)
Maintain ==
    /\ keeper.pc = "idle" /\ ~closed /\ ready /\ ~warming /\ ~Scaling
    /\ active = 0 /\ pending = 0 /\ retiring = 0
    /\ pool # {} /\ Len(available) = Cardinality(pool)
    /\ warming' = TRUE /\ keeper' = [Rest EXCEPT !.pc = "maintaining"]
    /\ UNCHANGED <<pool, engines, queueing, retiring, closed, repairs, scaler, janitor,
                   bounds>>

MaintainEnd ==
    /\ keeper.pc = "maintaining" /\ keeper' = Rest /\ warming' = FALSE
    /\ BecomesTo(Dispatch(Lanes, closed))
    /\ UNCHANGED <<pool, engines, retiring, closed, repairs, scaler, janitor, bounds>>

-----------------------------------------------------------------------------
(* The end of the pool *)

(* The service closes its pool once. *)
Close ==
    LET retired == IF warming THEN {} ELSE ToSet(available) \cup (pool \ engines)
    IN /\ ~closed /\ closed' = TRUE
       /\ ready' = FALSE /\ target' = 0 /\ shut' = TRUE
       /\ queues' = [t \in Tenants |-> <<>>] /\ order' = <<>> /\ pending' = 0
       /\ available' = IF warming THEN available ELSE <<>>
       /\ pool' = pool \ retired
       /\ retiring' = retiring + Cardinality(retired)
       /\ janitor' = retired
       /\ UNCHANGED <<engines, active, client, warming, scaler, keeper, bounds>>

JanitorCloses(s) ==
    /\ s \in janitor /\ janitor' = janitor \ {s}
    /\ engines' = engines \ {s} /\ retiring' = retiring - 1
    /\ UNCHANGED <<pool, queueing, closed, warming, repairs, scaler, keeper, bounds>>

-----------------------------------------------------------------------------
Plan == \E s \in Slots : PlanRepair(s) \/ PlanUp(s) \/ PlanDown(s)

ScaleStep ==
    \/ Admit \/ Reject \/ Build \/ Look \/ Publish \/ ScaleUpFails \/ ScaleDown

KeeperStep ==
    \/ WarmTake \/ WarmEnd \/ MaintainEnd
    \/ \E s \in Slots : WarmRetire(s) \/ \E ok \in BOOLEAN : Warm(s, ok)

ClientStep(c) == SeesClosed(c) \/ Return(c) \/ CloseSlot(c) \/ Reopen(c)

Next ==
    \/ \E c \in Clients :
          \/ Lease(c) \/ Enqueue(c) \/ TimeOut(c) \/ ClientStep(c)
          \/ \E demand \in MinSize..MaxSize : ReturnBroken(c, demand)
    \/ Plan \/ ScaleStep \/ BuildFails
    \/ WarmUp \/ Maintain \/ KeeperStep
    \/ Close \/ \E s \in Slots : JanitorCloses(s)

Spec == Init /\ [][Next]_vars

(* Operations, constructors and close hooks come to an end, so that no     *)
(* thread is on its way for ever: it is idle again and again, or waits for *)
(* another (the weak fairness of its steps, which are a finite chain, said *)
(* of states).  The monitor thread goes on planning repairs.  Nobody has   *)
(* to ask for a warm-up, to scale for demand, to give up waiting or to     *)
(* close the pool.                                                         *)
FairSpec ==
    /\ Spec
    /\ \A c \in Clients : []<>(At(c, "idle") \/ (At(c, "waiting") /\ ~closed))
    /\ []<>~Scaling
    /\ []<>(keeper.pc = "idle" \/ (keeper.pc = "waiting" /\ (active > 0 \/ Scaling)))
    /\ []<>(janitor = {})
    /\ WF_vars(\E s \in Slots : PlanRepair(s))

-----------------------------------------------------------------------------
(* Properties *)

Number(pc) == Cardinality({c \in Clients : At(c, pc)})

(* The counters that admission, warm-up, maintenance and close() wait on   *)
(* are what they count.                                                    *)
CountsAgree ==
    /\ active = Number("running")
                + (IF keeper.pc = "warming" THEN Cardinality(keeper.slots) ELSE 0)
    /\ retiring = Number("closing") + Cardinality(janitor)
                  + (IF keeper.pc = "retiring" THEN Cardinality(keeper.todo) ELSE 0)
    /\ pending = (IF closed THEN 0 ELSE Number("waiting"))

(* A waiter is in its tenant's queue, once ("lost a pending waiter" is     *)
(* never raised), and every tenant with a queue has one turn.              *)
QueuesAgree ==
    /\ \A t \in Tenants :
          /\ IsInjective(queues[t])
          /\ ToSet(queues[t]) =
                {c \in Clients : TenantOf[c] = t /\ At(c, "waiting") /\ ~closed}
    /\ IsInjective(order)
    /\ ToSet(order) = {t \in Tenants : queues[t] # <<>>}

(* An engine of the pool is idle or leased, to one request, and never      *)
(* both; no engine is idle while a request waits.                          *)
EnginesHeld ==
    /\ IsInjective(available) /\ ToSet(available) \cap Leased = {}
    /\ Cardinality(Leased) = Number("running")
    /\ ~closed /\ keeper.pc # "warming"
       => ToSet(available) \cup Leased = pool \cap engines
    /\ ~closed /\ ~warming => available = <<>> \/ order = <<>>

(* The bookkeeping of the pool is consistent, and neither repair nor       *)
(* demand makes it larger than max_size.                                   *)
Bookkeeping ==
    /\ CountsAgree /\ QueuesAgree /\ EnginesHeld
    /\ Cardinality(pool \cup ({scaler.slot} \cap Slots)) <= MaxSize

(* A warm-up has left the pool without an engine: only another can help.   *)
Crippled == pool \cap engines = {} /\ target <= Cardinality(pool) /\ ~Scaling

(* Whoever waits is given an engine, even if it never gives up waiting,    *)
(* other tenants keep asking and engines break: turns are fair and broken  *)
(* engines are replaced.                                                   *)
Served == \A c \in Clients : At(c, "waiting") ~> (~At(c, "waiting") \/ Crippled)

=============================================================================
