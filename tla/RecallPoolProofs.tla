--------------------------- MODULE RecallPoolProofs ---------------------------
(***************************************************************************)
(* Proofs about the pool of recall engines, for every set of slots, every  *)
(* number of requests and tenants and every bound.                         *)
(***************************************************************************)
EXTENDS RecallPool, FiniteSetTheorems, SequenceTheorems, TLAPS

(* The lanes: what a record l says of idle slots, queues and requests,     *)
(* while `open` requests may wait and k engines are leased to a warm-up.   *)

Num(f, pc) == Cardinality({c \in Clients : f[c].pc = pc})

(* 1 if request c is at pc *)
One(f, c, pc) == IF f[c].pc = pc THEN 1 ELSE 0

LeasedTo(f) == {f[c].slot : c \in {d \in Clients : f[d].pc = "running"}}

(* The engine that one request, at x, has leased or is closing *)
LeaseOf(x) == IF x.pc = "running" THEN {x.slot} ELSE {}

ClosingOf(x) == IF x.pc = "closing" THEN {x.slot} ELSE {}

ClosedBy(f) == {f[c].slot : c \in {d \in Clients : f[d].pc = "closing"}}

Held(l) == ToSet(l.available) \cup LeasedTo(l.client)

LaneTypes(l) ==
    /\ l.available \in Seq(Slots) /\ l.queues \in [Tenants -> Seq(Clients)]
    /\ l.order \in Seq(Tenants) /\ l.active \in Nat /\ l.pending \in Nat
    /\ l.client \in [Clients -> Client]

(* A request has a slot exactly while it uses or closes it. *)
Roles(f) == \A c \in Clients : f[c].slot # NoSlot <=> f[c].pc \in {"running", "closing"}

(* No engine is leased to two requests. *)
Singly(f) == \A c, d \in Clients :
    f[c].pc = "running" /\ f[d].pc = "running" /\ f[c].slot = f[d].slot => c = d

Apart(l) ==
    /\ IsInjective(l.available) /\ ToSet(l.available) \cap LeasedTo(l.client) = {}
    /\ Singly(l.client)

Lined(l, open) ==
    /\ \A t \in Tenants :
          /\ IsInjective(l.queues[t])
          /\ ToSet(l.queues[t]) =
                {c \in Clients : TenantOf[c] = t /\ l.client[c].pc = "waiting" /\ open}
    /\ IsInjective(l.order)
    /\ ToSet(l.order) = {t \in Tenants : l.queues[t] # <<>>}

Counted(l, open, k) ==
    /\ l.active = Num(l.client, "running") + k
    /\ l.pending = IF open THEN Num(l.client, "waiting") ELSE 0
    /\ l.pending <= MaxPending

LaneOK(l, open, k) ==
    LaneTypes(l) /\ Roles(l.client) /\ Apart(l) /\ Lined(l, open) /\ Counted(l, open, k)

(* The rest of the pool *)

Warmed == IF keeper.pc = "warming" THEN Cardinality(keeper.slots) ELSE 0

Retired == IF keeper.pc = "retiring" THEN keeper.todo ELSE {}

LanesOK == LaneOK(Lanes, ~closed, Warmed)

Parts ==
    /\ pool \in SUBSET Slots /\ engines \in SUBSET Slots /\ janitor \in SUBSET Slots
    /\ IsFiniteSet(pool) /\ IsFiniteSet(janitor)
    /\ retiring \in Nat /\ closed \in BOOLEAN /\ warming \in BOOLEAN
    /\ scaler \in Scaler /\ keeper \in Keeper

Limits ==
    /\ ready \in BOOLEAN /\ target \in {0} \cup MinSize..MaxSize /\ shut \in BOOLEAN
    /\ warmups \in 0..MaxWarmups /\ faults \in 0..MaxFaults

(* An engine of the pool is idle or leased; a warm-up has them all. *)
Owned ==
    /\ Held(Lanes) \subseteq pool \cap engines
    /\ ~closed /\ keeper.pc # "warming" => Held(Lanes) = pool \cap engines
    /\ keeper.pc = "warming" => Held(Lanes) = {}

(* What is being closed or built is outside the pool, and the engine the   *)
(* scaler is busy with is nobody else's.                                   *)
Outside ==
    /\ pool \cap (ClosedBy(client) \cup janitor \cup Retired \cup {scaler.slot}) = {}
    /\ scaler.slot \notin ClosedBy(client) \cup janitor \cup Retired

Scaled ==
    /\ scaler.slot # NoSlot <=> Scaling
    /\ scaler.pc \in {"built", "publishing"} => scaler.slot \in engines
    /\ Cardinality(pool \cup ({scaler.slot} \cap Slots)) <= MaxSize

Kept ==
    /\ warming <=> keeper.pc \in {"waiting", "warming", "maintaining"}
    /\ keeper.pc \in {"idle", "waiting", "maintaining"} =>
          keeper.slots = {} /\ keeper.todo = {} /\ keeper.good = {}
    /\ keeper.pc = "warming" =>
          /\ keeper.slots = pool /\ keeper.todo \subseteq pool
          /\ keeper.good = (pool \ keeper.todo) \cap engines
          /\ ~Scaling
    /\ keeper.pc = "retiring" => closed
    /\ IsFiniteSet(keeper.todo)

Retiring ==
    /\ retiring = Num(client, "closing") + Cardinality(janitor) + Cardinality(Retired)
    /\ ~closed => janitor = {}

NoneIdle == ~closed /\ ~warming => available = <<>> \/ order = <<>>

(* The lanes g have the engines of the lanes l, idle or leased, and the    *)
(* engines that are being closed.                                          *)
SameOwners(g, l) ==
    /\ Held(g) = Held(l) /\ ClosedBy(g.client) = ClosedBy(l.client)
    /\ Num(g.client, "closing") = Num(l.client, "closing")

RestOK == Parts /\ Limits /\ Owned /\ Outside /\ Scaled /\ Kept /\ Retiring /\ NoneIdle

RecallInv == LanesOK /\ RestOK

-----------------------------------------------------------------------------
(* Sequences without repetition *)

(* Only the empty sequence has no elements. *)
LEMMA NoElements == ASSUME NEW S, NEW q \in Seq(S)
                    PROVE  ToSet(q) = {} <=> q = <<>>
<1>1. DOMAIN q = 1..Len(q) /\ Len(q) \in Nat
  BY LenProperties
<1>2. q # <<>> => 1 \in DOMAIN q
  BY <1>1, EmptySeq
<1>3. q = <<>> => DOMAIN q = {}
  BY <1>1, EmptySeq
<1> QED
  BY <1>2, <1>3 DEF ToSet

LEMMA EmptyIsInjective == ASSUME NEW S
                          PROVE  <<>> \in Seq(S) /\ IsInjective(<<>>) /\ ToSet(<<>>) = {}
  BY NoElements, EmptySeq, LenProperties DEF IsInjective

LEMMA ElementsTyped == ASSUME NEW S, NEW q \in Seq(S)
                       PROVE  ToSet(q) \subseteq S
  BY LenProperties, ElementOfSeq DEF ToSet

(* The head leaves; the others stay. *)
LEMMA HeadLeaves ==
    ASSUME NEW S, NEW q \in Seq(S), q # <<>>, IsInjective(q)
    PROVE  /\ Head(q) \in S /\ Head(q) \in ToSet(q)
           /\ Tail(q) \in Seq(S) /\ IsInjective(Tail(q))
           /\ ToSet(Tail(q)) = ToSet(q) \ {Head(q)}
<1> DEFINE r == Tail(q)  n == Len(q)
<1>1. DOMAIN q = 1..n /\ n \in Nat \ {0}
  BY LenProperties, EmptySeq
<1>2. /\ Head(q) = q[1] /\ q[1] \in S /\ r \in Seq(S) /\ Len(r) = n - 1
      /\ \A i \in 1..(n - 1) : r[i] = q[i + 1]
  BY HeadTailProperties
<1>3. DOMAIN r = 1..(n - 1)
  BY <1>2, LenProperties
<1> HIDE DEF r, n
<1>4. IsInjective(r)
  <2> SUFFICES ASSUME NEW i \in 1..(n - 1), NEW j \in 1..(n - 1), r[i] = r[j]
               PROVE  i = j
    BY <1>3 DEF IsInjective
  <2>1. q[i + 1] = q[j + 1] /\ i + 1 \in 1..n /\ j + 1 \in 1..n
    BY <1>1, <1>2
  <2> QED
    BY <2>1, <1>1 DEF IsInjective
<1>5. ToSet(r) = ToSet(q) \ {q[1]}
  <2>1. ASSUME NEW i \in 1..(n - 1) PROVE r[i] \in ToSet(q) /\ r[i] # q[1]
    BY <1>1, <1>2 DEF ToSet, IsInjective
  <2>2. ASSUME NEW i \in 1..n, q[i] # q[1] PROVE q[i] \in ToSet(r)
    <3>1. i - 1 \in 1..(n - 1) /\ q[i] = r[i - 1]
      BY <1>1, <1>2, <2>2
    <3> QED
      BY <3>1, <1>3 DEF ToSet
  <2> QED
    BY <1>1, <1>3, <2>1, <2>2 DEF ToSet
<1>6. q[1] \in ToSet(q)
  BY <1>1 DEF ToSet
<1> QED
  BY <1>2, <1>4, <1>5, <1>6 DEF r

(* A new element comes last. *)
LEMMA LastComes ==
    ASSUME NEW S, NEW q \in Seq(S), NEW x \in S, IsInjective(q), x \notin ToSet(q)
    PROVE  /\ Append(q, x) \in Seq(S) /\ IsInjective(Append(q, x))
           /\ ToSet(Append(q, x)) = ToSet(q) \cup {x}
<1> DEFINE r == Append(q, x)  n == Len(q)
<1>1. DOMAIN q = 1..n /\ n \in Nat
  BY LenProperties
<1>2. r \in Seq(S) /\ Len(r) = n + 1 /\ r[n + 1] = x /\ \A i \in 1..n : r[i] = q[i]
  BY <1>1
<1>3. DOMAIN r = 1..(n + 1)
  BY <1>2, LenProperties
<1> HIDE DEF r, n
<1>4. IsInjective(r)
  <2> SUFFICES ASSUME NEW i \in 1..(n + 1), NEW j \in 1..(n + 1), r[i] = r[j], i # j
               PROVE  FALSE
    BY <1>3 DEF IsInjective
  <2>1. CASE i \in 1..n /\ j \in 1..n
    BY <2>1, <1>1, <1>2 DEF IsInjective
  <2>2. CASE i = n + 1 /\ j \in 1..n
    BY <2>2, <1>1, <1>2 DEF ToSet
  <2>3. CASE j = n + 1 /\ i \in 1..n
    BY <2>3, <1>1, <1>2 DEF ToSet
  <2> QED
    BY <1>1, <2>1, <2>2, <2>3
<1>5. ToSet(r) = ToSet(q) \cup {x}
  <2>1. n + 1 \in 1..(n + 1) /\ \A i \in 1..(n + 1) : i \in 1..n \/ i = n + 1
    BY <1>1
  <2>2. \A i \in 1..n : i \in 1..(n + 1)
    BY <1>1
  <2> QED
    BY <1>1, <1>2, <1>3, <2>1, <2>2 DEF ToSet
<1> QED
  BY <1>2, <1>4, <1>5 DEF r

(* What is dropped from the middle leaves; the others stay. *)
LEMMA OneIsDropped ==
    ASSUME NEW S, NEW q \in Seq(S), NEW x, IsInjective(q), x \in ToSet(q)
    PROVE  /\ Dropped(q, x) \in Seq(S) /\ IsInjective(Dropped(q, x))
           /\ ToSet(Dropped(q, x)) = ToSet(q) \ {x}
<1> DEFINE n == Len(q)
<1>1. DOMAIN q = 1..n /\ n \in Nat
  BY LenProperties
<1>2. \E i \in 1..n : q[i] = x
  BY <1>1 DEF ToSet
<1>3. PICK k \in 1..n : k = (CHOOSE i \in 1..n : q[i] = x) /\ q[k] = x
  BY <1>2
<1> DEFINE a == SubSeq(q, 1, k - 1)  b == SubSeq(q, k + 1, n)  r == a \o b
<1>4. Dropped(q, x) = r
  BY <1>3 DEF Dropped, RemoveAt
<1>5. /\ a \in Seq(S) /\ Len(a) = k - 1 /\ \A i \in 1..(k - 1) : a[i] = q[i]
      /\ b \in Seq(S) /\ Len(b) = n - k /\ \A i \in 1..(n - k) : b[i] = q[k + i]
  <2>1. \A i \in 1..n : q[i] \in S
    BY ElementOfSeq
  <2>2. \A i \in 1..(k - 1) : q[i] \in S
    BY <1>1, <2>1
  <2>3. \A i \in (k + 1)..n : q[i] \in S
    BY <1>1, <2>1
  <2>4. a \in Seq(S) /\ Len(a) = k - 1 /\ \A i \in 1..(k - 1) : a[i] = q[i]
    <3>1. /\ SubSeq(q, 1, k - 1) \in Seq(S)
          /\ Len(SubSeq(q, 1, k - 1)) = IF 1 <= k - 1 THEN (k - 1) - 1 + 1 ELSE 0
          /\ \A i \in 1..((k - 1) - 1 + 1) : SubSeq(q, 1, k - 1)[i] = q[1 + i - 1]
      BY <2>2, <1>1, SubSeqProperties
    <3>2. Len(a) = k - 1
      BY <3>1, <1>1
    <3>3. \A i \in 1..(k - 1) : i \in 1..((k - 1) - 1 + 1) /\ 1 + i - 1 = i
      BY <1>1
    <3> QED
      BY <3>1, <3>2, <3>3
  <2>5. b \in Seq(S) /\ Len(b) = n - k /\ \A i \in 1..(n - k) : b[i] = q[k + i]
    <3>1. /\ SubSeq(q, k + 1, n) \in Seq(S)
          /\ Len(SubSeq(q, k + 1, n)) = IF k + 1 <= n THEN n - (k + 1) + 1 ELSE 0
          /\ \A i \in 1..(n - (k + 1) + 1) : SubSeq(q, k + 1, n)[i] = q[(k + 1) + i - 1]
      BY <2>3, <1>1, SubSeqProperties
    <3>2. Len(b) = n - k
      <4>1. k \in Nat /\ k <= n
        BY <1>1
      <4>2. Len(b) = IF k + 1 <= n THEN n - (k + 1) + 1 ELSE 0
        BY <3>1
      <4> HIDE DEF b, n
      <4> QED
        BY <4>1, <4>2, <1>1
    <3>3. \A i \in 1..(n - k) : i \in 1..(n - (k + 1) + 1) /\ (k + 1) + i - 1 = k + i
      BY <1>1
    <3> QED
      BY <3>1, <3>2, <3>3
  <2> QED
    BY <2>4, <2>5
<1> HIDE DEF a, b, n
<1>6. /\ r \in Seq(S) /\ Len(r) = n - 1
      /\ \A i \in 1..(n - 1) : r[i] = IF i <= k - 1 THEN a[i] ELSE b[i - (k - 1)]
  BY <1>1, <1>5, ConcatProperties
<1>7. DOMAIN r = 1..(n - 1)
  BY <1>6, LenProperties
<1> HIDE DEF r
<1>8. \A i \in 1..(n - 1) : r[i] = IF i < k THEN q[i] ELSE q[i + 1]
  <2> SUFFICES ASSUME NEW i \in 1..(n - 1) PROVE r[i] = IF i < k THEN q[i] ELSE q[i + 1]
    OBVIOUS
  <2>1. CASE i < k
    BY <2>1, <1>1, <1>5, <1>6
  <2>2. CASE i >= k
    <3>1. i - (k - 1) \in 1..(n - k) /\ k + (i - (k - 1)) = i + 1
      BY <2>2, <1>1
    <3> QED
      BY <2>2, <3>1, <1>1, <1>5, <1>6
  <2> QED
    BY <2>1, <2>2, <1>1
<1>9. IsInjective(r)
  <2> SUFFICES ASSUME NEW i \in 1..(n - 1), NEW j \in 1..(n - 1), r[i] = r[j]
               PROVE  i = j
    BY <1>7 DEF IsInjective
  <2>1. i \in 1..n /\ j \in 1..n /\ i + 1 \in 1..n /\ j + 1 \in 1..n
    BY <1>1
  <2>2. \A h \in 1..n, m \in 1..n : q[h] = q[m] => h = m
    BY <1>1 DEF IsInjective
  <2>3. CASE i < k /\ j < k
    BY <2>1, <2>2, <2>3, <1>8
  <2>4. CASE i < k /\ ~(j < k)
    <3>1. q[i] = q[j + 1]
      BY <2>4, <1>8
    <3> QED
      BY <2>1, <2>2, <2>4, <3>1
  <2>5. CASE ~(i < k) /\ j < k
    <3>1. q[i + 1] = q[j]
      BY <2>5, <1>8
    <3> QED
      BY <2>1, <2>2, <2>5, <3>1
  <2>6. CASE ~(i < k) /\ ~(j < k)
    <3>1. q[i + 1] = q[j + 1]
      BY <2>6, <1>8
    <3> QED
      BY <2>1, <2>2, <3>1
  <2> QED
    BY <2>3, <2>4, <2>5, <2>6
<1>10. ToSet(r) = ToSet(q) \ {x}
  <2>1. ASSUME NEW i \in 1..(n - 1) PROVE r[i] \in ToSet(q) /\ r[i] # x
    <3>1. i \in 1..n /\ i + 1 \in 1..n
      BY <1>1
    <3>2. r[i] \in ToSet(q)
      BY <3>1, <1>1, <1>8 DEF ToSet
    <3>3. (i < k => i # k) /\ (~(i < k) => i + 1 # k)
      BY <1>1
    <3> QED
      BY <3>1, <3>2, <3>3, <1>1, <1>3, <1>8 DEF IsInjective
  <2>2. ASSUME NEW i \in 1..n, q[i] # x PROVE q[i] \in ToSet(r)
    <3>1. CASE i < k
      <4>1. i \in 1..(n - 1) /\ r[i] = q[i]
        BY <3>1, <1>1, <1>8
      <4> QED
        BY <4>1, <1>7 DEF ToSet
    <3>2. CASE i > k
      <4>1. i - 1 \in 1..(n - 1) /\ r[i - 1] = q[i]
        BY <3>2, <1>1, <1>8
      <4> QED
        BY <4>1, <1>7 DEF ToSet
    <3> QED
      BY <2>2, <3>1, <3>2, <1>1, <1>3
  <2> QED
    BY <1>1, <1>7, <2>1, <2>2 DEF ToSet
<1> QED
  BY <1>4, <1>6, <1>9, <1>10

-----------------------------------------------------------------------------
(* Counting *)

LEMMA NumIsNat == ASSUME NEW f, NEW pc
                  PROVE  /\ IsFiniteSet({c \in Clients : f[c].pc = pc})
                         /\ Num(f, pc) \in Nat
<1>1. {c \in Clients : f[c].pc = pc} \in SUBSET Clients
  OBVIOUS
<1> QED
  BY <1>1, RecallPoolAssumption, FS_Subset, FS_CardinalityType DEF Num

LEMMA SomeCounted == ASSUME NEW f, NEW pc
                     PROVE  Num(f, pc) = 0 <=> \A c \in Clients : f[c].pc # pc
  BY NumIsNat, FS_EmptySet DEF Num

(* One request goes from one place to another. *)
LEMMA OneCounted ==
    ASSUME NEW f, NEW g, NEW c \in Clients, NEW pc,
           \A d \in Clients \ {c} : g[d] = f[d]
    PROVE  Num(g, pc) = Num(f, pc) + One(g, c, pc) - One(f, c, pc)
<1> DEFINE F == {d \in Clients : f[d].pc = pc}
           G == {d \in Clients : g[d].pc = pc}
<1>1. IsFiniteSet(F) /\ IsFiniteSet(G) /\ Cardinality(F) \in Nat /\ Cardinality(G) \in Nat
  BY NumIsNat DEF Num
<1>2. /\ (g[c].pc = pc /\ f[c].pc = pc => G = F)
      /\ (g[c].pc # pc /\ f[c].pc # pc => G = F)
      /\ (g[c].pc = pc /\ f[c].pc # pc => G = F \cup {c} /\ c \notin F)
      /\ (g[c].pc # pc /\ f[c].pc = pc => G = F \ {c} /\ c \in F)
  OBVIOUS
<1>3. Num(f, pc) = Cardinality(F) /\ Num(g, pc) = Cardinality(G)
  BY DEF Num
<1> HIDE DEF F, G
<1>4. /\ Cardinality(F \cup {c}) = IF c \in F THEN Cardinality(F) ELSE Cardinality(F) + 1
      /\ Cardinality(F \ {c}) = IF c \in F THEN Cardinality(F) - 1 ELSE Cardinality(F)
  BY <1>1, FS_AddElement, FS_RemoveElement
<1>5. CASE g[c].pc = pc /\ f[c].pc = pc
  BY <1>1, <1>2, <1>3, <1>5 DEF One
<1>6. CASE g[c].pc # pc /\ f[c].pc # pc
  BY <1>1, <1>2, <1>3, <1>6 DEF One
<1>7. CASE g[c].pc = pc /\ f[c].pc # pc
  <2>1. G = F \cup {c} /\ c \notin F
    BY <1>2, <1>7
  <2>2. Cardinality(G) = Cardinality(F) + 1
    BY <2>1, <1>4
  <2> QED
    BY <2>2, <1>1, <1>3, <1>7 DEF One
<1>8. CASE g[c].pc # pc /\ f[c].pc = pc
  <2>1. G = F \ {c} /\ c \in F
    BY <1>2, <1>8
  <2>2. Cardinality(G) = Cardinality(F) - 1
    BY <2>1, <1>4
  <2> QED
    BY <2>2, <1>1, <1>3, <1>8 DEF One
<1> QED
  BY <1>5, <1>6, <1>7, <1>8

-----------------------------------------------------------------------------
(* Giving an idle engine to the next waiter *)

LEMMA IdleIsClient == Idle.pc = "idle" /\ Idle.slot = NoSlot /\ Idle \in Client
  BY DEF Idle, Client

(* A request changes: whose engines are leased and closed afterwards. *)
LEMMA OneHolds ==
    ASSUME NEW f, NEW g, NEW c \in Clients, \A d \in Clients \ {c} : g[d] = f[d]
    PROVE  /\ LeasedTo(g) = {f[d].slot : d \in {e \in Clients \ {c} : f[e].pc = "running"}}
                              \cup LeaseOf(g[c])
           /\ ClosedBy(g) = {f[d].slot : d \in {e \in Clients \ {c} : f[e].pc = "closing"}}
                              \cup ClosingOf(g[c])
  BY DEF LeasedTo, ClosedBy, LeaseOf, ClosingOf

LEMMA GrantKeeps ==
    ASSUME NEW l, NEW k \in Nat, LaneOK(l, TRUE, k),
           l.available # <<>>, l.order # <<>>, NEW s, s = Head(l.available)
    PROVE  /\ LaneOK(Grant(l, s), TRUE, k) /\ SameOwners(Grant(l, s), l)
           /\ Grant(l, s).available = Tail(l.available)
<1> DEFINE t == Head(l.order)  c == Head(l.queues[t])  rest == Tail(l.queues[t])
           turns == IF rest = <<>> THEN Tail(l.order) ELSE Append(Tail(l.order), t)
           r == [Idle EXCEPT !.pc = "running", !.slot = s]
           f == l.client  h == [f EXCEPT ![c] = r]  g == Grant(l, s)
<1>1. /\ g.available = Tail(l.available) /\ g.queues = [l.queues EXCEPT ![t] = rest]
      /\ g.order = turns /\ g.active = l.active + 1 /\ g.pending = l.pending - 1
      /\ g.client = h
  BY DEF Grant
<1> HIDE DEF g, turns
<1>2. /\ l.available \in Seq(Slots) /\ l.queues \in [Tenants -> Seq(Clients)]
      /\ l.order \in Seq(Tenants) /\ l.active \in Nat /\ l.pending \in Nat
      /\ f \in [Clients -> Client]
  BY DEF LaneOK, LaneTypes
<1>3. /\ s \in Slots /\ s \in ToSet(l.available) /\ Tail(l.available) \in Seq(Slots)
      /\ IsInjective(Tail(l.available)) /\ ToSet(Tail(l.available)) = ToSet(l.available) \ {s}
  BY <1>2, HeadLeaves DEF LaneOK, Apart
<1>4. /\ t \in Tenants /\ l.queues[t] # <<>> /\ Tail(l.order) \in Seq(Tenants)
      /\ IsInjective(Tail(l.order)) /\ ToSet(Tail(l.order)) = ToSet(l.order) \ {t}
  <2>1. IsInjective(l.order) /\ ToSet(l.order) = {u \in Tenants : l.queues[u] # <<>>}
    BY DEF LaneOK, Lined
  <2>2. /\ t \in Tenants /\ t \in ToSet(l.order) /\ Tail(l.order) \in Seq(Tenants)
        /\ IsInjective(Tail(l.order)) /\ ToSet(Tail(l.order)) = ToSet(l.order) \ {t}
    BY <1>2, <2>1, HeadLeaves
  <2> QED
    BY <2>1, <2>2
<1> HIDE DEF t
<1>5. /\ c \in Clients /\ TenantOf[c] = t /\ f[c].pc = "waiting"
      /\ rest \in Seq(Clients) /\ IsInjective(rest)
      /\ ToSet(rest) = ToSet(l.queues[t]) \ {c}
  <2>1. /\ l.queues[t] \in Seq(Clients) /\ IsInjective(l.queues[t])
        /\ ToSet(l.queues[t]) = {d \in Clients : TenantOf[d] = t /\ f[d].pc = "waiting"}
    BY <1>2, <1>4 DEF LaneOK, Lined
  <2>2. /\ c \in Clients /\ c \in ToSet(l.queues[t])
        /\ rest \in Seq(Clients) /\ IsInjective(rest)
        /\ ToSet(rest) = ToSet(l.queues[t]) \ {c}
    BY <1>4, <2>1, HeadLeaves
  <2> QED
    BY <2>1, <2>2
<1>6. r.pc = "running" /\ r.slot = s /\ r \in Client
  BY <1>3 DEF Idle, Client
<1> HIDE DEF c, rest, r
<1>7. /\ h \in [Clients -> Client] /\ h[c] = r /\ \A d \in Clients \ {c} : h[d] = f[d]
  BY <1>2, <1>5, <1>6
<1> HIDE DEF h, f
<1>8. f[c].slot = NoSlot
  BY <1>5 DEF LaneOK, Roles, f
<1>9. LeasedTo(h) = LeasedTo(f) \cup {s} /\ ClosedBy(h) = ClosedBy(f)
  <2>1. \A e \in Clients \ {c} : f[e] = f[e]
    OBVIOUS
  <2>2. /\ LeasedTo(f) = {f[d].slot : d \in {e \in Clients \ {c} : f[e].pc = "running"}}
        /\ ClosedBy(f) = {f[d].slot : d \in {e \in Clients \ {c} : f[e].pc = "closing"}}
    BY <1>5, <2>1, OneHolds DEF LeaseOf, ClosingOf
  <2>3. /\ LeasedTo(h) = {f[d].slot : d \in {e \in Clients \ {c} : f[e].pc = "running"}}
                           \cup {s}
        /\ ClosedBy(h) = {f[d].slot : d \in {e \in Clients \ {c} : f[e].pc = "closing"}}
    BY <1>5, <1>6, <1>7, OneHolds DEF LeaseOf, ClosingOf
  <2> QED
    BY <2>2, <2>3
<1>10. /\ Num(h, "running") = Num(f, "running") + 1
       /\ Num(h, "waiting") = Num(f, "waiting") - 1
       /\ Num(h, "closing") = Num(f, "closing")
  <2>1. \A pc : Num(f, pc) \in Nat
    BY NumIsNat
  <2>2. \A pc : Num(h, pc) = Num(f, pc) + One(h, c, pc) - One(f, c, pc)
    BY <1>5, <1>7, OneCounted
  <2>3. /\ Num(h, "running") = Num(f, "running") + 1 - 0
        /\ Num(h, "waiting") = Num(f, "waiting") + 0 - 1
        /\ Num(h, "closing") = Num(f, "closing") + 0 - 0
    BY <1>5, <1>6, <1>7, <2>2 DEF One
  <2> QED
    BY <2>1, <2>3
<1>11. LaneTypes(g)
  <2>1. turns \in Seq(Tenants)
    BY <1>4 DEF turns
  <2>2. [l.queues EXCEPT ![t] = rest] \in [Tenants -> Seq(Clients)]
    BY <1>2, <1>5
  <2>3. l.pending - 1 \in Nat
    <3>1. l.pending = Num(f, "waiting") /\ Num(f, "waiting") # 0
      BY <1>5, SomeCounted DEF LaneOK, Counted, f
    <3> QED
      BY <1>2, <3>1
  <2> QED
    BY <1>1, <1>2, <1>3, <1>7, <2>1, <2>2, <2>3 DEF LaneTypes
<1>12. Roles(h)
  <2>1. s # NoSlot
    BY <1>3, RecallPoolAssumption
  <2>2. \A d \in Clients : f[d].slot # NoSlot <=> f[d].pc \in {"running", "closing"}
    BY DEF LaneOK, Roles, f
  <2> QED
    BY <1>6, <1>7, <2>1, <2>2 DEF Roles
<1>13. Apart(g)
  <2>1. IsInjective(g.available) /\ ToSet(g.available) \cap LeasedTo(g.client) = {}
    BY <1>1, <1>3, <1>9 DEF LaneOK, Apart, f
  <2>2. \A d \in Clients : f[d].pc = "running" => f[d].slot # s
    <3>1. s \notin LeasedTo(f)
      BY <1>3 DEF LaneOK, Apart, f
    <3> QED
      BY <3>1 DEF LeasedTo
  <2>3. ASSUME NEW d \in Clients, NEW e \in Clients,
               h[d].pc = "running", h[e].pc = "running", h[d].slot = h[e].slot
        PROVE  d = e
    <3>1. CASE d = c /\ e # c
      BY <1>6, <1>7, <2>2, <2>3, <3>1
    <3>2. CASE d # c /\ e = c
      BY <1>6, <1>7, <2>2, <2>3, <3>2
    <3>3. CASE d # c /\ e # c
      BY <1>7, <2>3, <3>3 DEF LaneOK, Apart, Singly, f
    <3> QED
      BY <3>1, <3>2, <3>3
  <2> QED
    BY <1>1, <2>1, <2>3 DEF Apart, Singly
<1>14. Lined(g, TRUE)
  <2>1. \A u \in Tenants : g.queues[u] = IF u = t THEN rest ELSE l.queues[u]
    BY <1>1, <1>2, <1>4
  <2>2. ASSUME NEW u \in Tenants
        PROVE  /\ IsInjective(g.queues[u])
               /\ ToSet(g.queues[u]) = {d \in Clients : TenantOf[d] = u /\ h[d].pc = "waiting"}
    <3>1. /\ IsInjective(l.queues[u])
          /\ ToSet(l.queues[u]) = {d \in Clients : TenantOf[d] = u /\ f[d].pc = "waiting"}
      BY DEF LaneOK, Lined, f
    <3>2. {d \in Clients : TenantOf[d] = u /\ h[d].pc = "waiting"}
             = {d \in Clients : TenantOf[d] = u /\ f[d].pc = "waiting"} \ {c}
      BY <1>6, <1>7
    <3>3. CASE u = t
      BY <1>5, <2>1, <3>1, <3>2, <3>3
    <3>4. CASE u # t
      BY <1>5, <2>1, <3>1, <3>2, <3>4
    <3> QED
      BY <3>3, <3>4
  <2>3. IsInjective(turns) /\ ToSet(turns) = {u \in Tenants : g.queues[u] # <<>>}
    <3>1. ToSet(l.order) = {u \in Tenants : l.queues[u] # <<>>}
      BY DEF LaneOK, Lined
    <3>2. CASE rest = <<>>
      BY <1>4, <2>1, <3>1, <3>2 DEF turns
    <3>3. CASE rest # <<>>
      <4>1. /\ IsInjective(Append(Tail(l.order), t))
            /\ ToSet(Append(Tail(l.order), t)) = ToSet(Tail(l.order)) \cup {t}
        BY <1>4, LastComes
      <4> QED
        BY <1>4, <2>1, <3>1, <3>3, <4>1 DEF turns
    <3> QED
      BY <3>2, <3>3
  <2> QED
    BY <1>1, <2>2, <2>3 DEF Lined
<1>15. Counted(g, TRUE, k)
  <2>1. /\ l.active = Num(f, "running") + k /\ l.pending = Num(f, "waiting")
        /\ l.pending <= MaxPending
    BY DEF LaneOK, Counted, f
  <2>2. Num(f, "running") \in Nat /\ Num(f, "waiting") \in Nat /\ Num(h, "running") \in Nat
    BY NumIsNat
  <2>3. g.active = Num(g.client, "running") + k
    BY <1>1, <1>10, <2>1, <2>2
  <2>4. g.pending = Num(g.client, "waiting") /\ g.pending <= MaxPending
    BY <1>1, <1>10, <2>1, <2>2, RecallPoolAssumption
  <2> QED
    BY <2>3, <2>4 DEF Counted
<1>16. SameOwners(g, l)
  <2>1. Held(g) = Held(l)
    BY <1>1, <1>3, <1>9 DEF Held, f
  <2> QED
    BY <1>1, <1>9, <1>10, <2>1 DEF SameOwners, f
<1>17. Roles(g.client)
  BY <1>1, <1>12
<1>18. LaneOK(g, TRUE, k) /\ SameOwners(g, l) /\ g.available = Tail(l.available)
  BY <1>1, <1>11, <1>13, <1>14, <1>15, <1>16, <1>17 DEF LaneOK
<1> QED
  BY <1>18 DEF g

-----------------------------------------------------------------------------
(* Giving idle engines to waiters while there are both *)

(* Induction on numbers: a set that is not all of them would have a first  *)
(* part that maps one-to-one into less than itself.                        *)
LEMMA Induction ==
    ASSUME NEW S, 0 \in S, \A i \in S \cap Nat : i + 1 \in S
    PROVE  Nat \subseteq S
<1> SUFFICES ASSUME NEW n \in Nat, n \notin S PROVE FALSE
  OBVIOUS
<1> DEFINE U == S \cap (0..n)
           f == [i \in U |-> i + 1]
<1>1. IsFiniteSet(U) /\ IsFiniteSet(U \ {0})
  <2>1. IsFiniteSet(0..n)
    BY FS_Interval
  <2> QED
    BY <2>1, FS_Subset
<1>2. Cardinality(U \ {0}) < Cardinality(U)
  <2>1. 0 \in U
    OBVIOUS
  <2> HIDE DEF U
  <2> QED
    BY <1>1, <2>1, FS_RemoveElement, FS_CardinalityType
<1>3. f \in [U -> U \ {0}]
  OBVIOUS
<1>4. \E x, y \in U : x # y /\ f[x] = f[y]
  <2> HIDE DEF U, f
  <2> QED
    BY <1>1, <1>2, <1>3, FS_PigeonHole
<1> QED
  BY <1>4

(* f lists the lanes after none, one, ... m of the slots q were granted. *)
Grants(l, q, m, f) ==
    f = [i \in 0..m |-> IF i = 0 THEN l ELSE Grant(f[i - 1], q[i])]

LEMMA GrantsExist == ASSUME NEW l, NEW q, NEW m \in Nat
                     PROVE  \E f : Grants(l, q, m, f)
<1> DEFINE S == {i \in Nat : \E f : Grants(l, q, i, f)}
<1>1. 0 \in S
  <2>1. Grants(l, q, 0, [i \in 0..0 |-> l])
    BY DEF Grants
  <2> QED
    BY <2>1
<1>2. ASSUME NEW i \in Nat, i \in S
      PROVE  i + 1 \in S
  <2>1. PICK f : Grants(l, q, i, f)
    BY <1>2
  <2> DEFINE g == [j \in 0..(i + 1) |-> IF j <= i THEN f[j] ELSE Grant(f[i], q[i + 1])]
             h == [j \in 0..(i + 1) |-> IF j = 0 THEN l ELSE Grant(g[j - 1], q[j])]
  <2>2. f[0] = l /\ \A j \in 1..i : f[j] = Grant(f[j - 1], q[j])
    BY <2>1 DEF Grants
  <2>3. \A j \in 0..(i + 1) : g[j] = h[j]
    <3>1. ASSUME NEW j \in 0..(i + 1) PROVE g[j] = h[j]
      <4>1. CASE j = 0
        BY <2>2, <4>1
      <4>2. CASE j \in 1..i
        <5>1. g[j] = f[j] /\ g[j - 1] = f[j - 1]
          BY <4>2
        <5> QED
          BY <2>2, <4>2, <5>1
      <4>3. CASE j = i + 1
        <5>1. g[j] = Grant(f[i], q[j]) /\ g[j - 1] = f[i] /\ j # 0
          BY <4>3
        <5> QED
          BY <4>3, <5>1
      <4> QED
        BY <4>1, <4>2, <4>3
    <3> QED
      BY <3>1
  <2>4. g = h
    BY <2>3
  <2> HIDE DEF g
  <2>5. Grants(l, q, i + 1, g)
    BY <2>4 DEF Grants
  <2> QED
    BY <2>5
<1> HIDE DEF S
<1>3. Nat \subseteq S
  BY <1>1, <1>2, Induction
<1> QED
  BY <1>3 DEF S

(* The lanes g after i of the n idle slots q were granted: the rest are    *)
(* still idle, unless nobody waits any more.                               *)
Granted(l, k, q, i, g) ==
    /\ LaneOK(g, TRUE, k) /\ SameOwners(g, l)
    /\ g.order = <<>> \/ /\ Len(g.available) = Len(q) - i
                         /\ \A j \in 1..(Len(q) - i) : g.available[j] = q[i + j]

LEMMA GrantsOn ==
    ASSUME NEW l, NEW k \in Nat, NEW q \in Seq(Slots), NEW i \in Nat, i < Len(q),
           NEW g, Granted(l, k, q, i, g)
    PROVE  Granted(l, k, q, i + 1, Grant(g, q[i + 1]))
<1>1. CASE g.order = <<>>
  <2>1. Grant(g, q[i + 1]) = g
    BY <1>1 DEF Grant
  <2> QED
    BY <1>1, <2>1 DEF Granted
<1>2. CASE g.order # <<>>
  <2> DEFINE s == q[i + 1]  n == Len(q)  a == g.available
  <2>1. /\ LaneOK(g, TRUE, k) /\ SameOwners(g, l) /\ Len(a) = n - i
        /\ \A j \in 1..(n - i) : a[j] = q[i + j]
    BY <1>2 DEF Granted
  <2>2. n \in Nat /\ a \in Seq(Slots)
    BY <2>1, LenProperties DEF LaneOK, LaneTypes
  <2>3. a # <<>> /\ Head(a) = s
    BY <2>1, <2>2, EmptySeq
  <2>4. /\ LaneOK(Grant(g, s), TRUE, k) /\ SameOwners(Grant(g, s), g)
        /\ Grant(g, s).available = Tail(a)
    BY <1>2, <2>1, <2>3, GrantKeeps
  <2>5. Len(Tail(a)) = n - (i + 1) /\ \A j \in 1..(n - (i + 1)) : Tail(a)[j] = q[(i + 1) + j]
    <3>1. Len(Tail(a)) = Len(a) - 1 /\ \A j \in 1..Len(Tail(a)) : Tail(a)[j] = a[j + 1]
      BY <2>2, <2>3, HeadTailProperties
    <3>2. \A j \in 1..(n - (i + 1)) : j + 1 \in 1..(n - i) /\ i + (j + 1) = (i + 1) + j
      BY <2>2
    <3>3. Len(Tail(a)) = n - (i + 1)
      BY <2>1, <2>2, <3>1
    <3> QED
      BY <2>1, <3>1, <3>2, <3>3
  <2> HIDE DEF s, n, a
  <2>6. SameOwners(Grant(g, s), l)
    BY <2>1, <2>4 DEF SameOwners
  <2>7. Granted(l, k, q, i + 1, Grant(g, s))
    BY <2>4, <2>5, <2>6 DEF Granted, n
  <2> QED
    BY <2>7 DEF s
<1> QED
  BY <1>1, <1>2

(* Afterwards no engine is idle, or nobody waits. *)
LEMMA DispatchKeeps ==
    ASSUME NEW l, NEW k \in Nat, LaneOK(l, TRUE, k)
    PROVE  /\ LaneOK(Dispatch(l, FALSE), TRUE, k) /\ SameOwners(Dispatch(l, FALSE), l)
           /\ \/ Dispatch(l, FALSE).available = <<>>
              \/ Dispatch(l, FALSE).order = <<>>
<1> DEFINE q == l.available  n == Len(q)
           granted[i \in 0..n] == IF i = 0 THEN l ELSE Grant(granted[i - 1], q[i])
<1>1. q \in Seq(Slots) /\ n \in Nat
  BY LenProperties DEF LaneOK, LaneTypes
<1>2. Dispatch(l, FALSE) = granted[n]
  BY DEF Dispatch
<1>3. \E f : Grants(l, q, n, f)
  BY <1>1, GrantsExist
<1>4. Grants(l, q, n, granted)
  <2>1. \E f : f = [i \in 0..n |-> IF i = 0 THEN l ELSE Grant(f[i - 1], q[i])]
    BY <1>3 DEF Grants
  <2> QED
    BY <2>1 DEF Grants
<1> HIDE DEF granted
<1>5. granted[0] = l /\ \A i \in 1..n : granted[i] = Grant(granted[i - 1], q[i])
  BY <1>1, <1>4 DEF Grants
<1> DEFINE S == {i \in Nat : i <= n => Granted(l, k, q, i, granted[i])}
<1>6. 0 \in S
  <2>1. Granted(l, k, q, 0, l)
    <3>1. SameOwners(l, l)
      BY DEF SameOwners
    <3>2. Len(l.available) = n - 0 /\ \A j \in 1..(n - 0) : l.available[j] = q[0 + j]
      BY <1>1
    <3> QED
      BY <3>1, <3>2 DEF Granted
  <2> QED
    BY <1>5, <2>1
<1>7. ASSUME NEW i \in Nat, i \in S
      PROVE  i + 1 \in S
  <2> SUFFICES ASSUME i + 1 <= n PROVE Granted(l, k, q, i + 1, granted[i + 1])
    OBVIOUS
  <2>1. i < n /\ i <= n /\ i + 1 \in 1..n /\ (i + 1) - 1 = i
    BY <1>1
  <2>2. Granted(l, k, q, i, granted[i])
    BY <1>7, <2>1
  <2>3. granted[i + 1] = Grant(granted[i], q[i + 1])
    BY <1>5, <2>1
  <2> HIDE DEF S
  <2>4. Granted(l, k, q, i + 1, Grant(granted[i], q[i + 1]))
    BY <1>1, <2>1, <2>2, GrantsOn
  <2> QED
    BY <2>3, <2>4
<1>8. n \in S
  <2> HIDE DEF S
  <2>1. Nat \subseteq S
    BY <1>6, <1>7, Induction
  <2> QED
    BY <1>1, <2>1
<1>9. Granted(l, k, q, n, granted[n])
  BY <1>1, <1>8
<1> HIDE DEF S, q, n
<1> DEFINE g == granted[n]
<1>10. LaneOK(g, TRUE, k) /\ SameOwners(g, l)
  BY <1>9 DEF Granted
<1>11. g.order = <<>> \/ g.available = <<>>
  <2>1. CASE Len(g.available) = n - n
    BY <1>1, <1>10, <2>1, EmptySeq DEF LaneOK, LaneTypes
  <2> QED
    BY <1>9, <2>1 DEF Granted, n
<1> QED
  BY <1>2, <1>10, <1>11 DEF g

-----------------------------------------------------------------------------
(* What the steps of a request do to the lanes *)

(* Request c goes to r, and the others stay. *)
Placed(h, f, c, r) == h = [f EXCEPT ![c] = r]

(* What is leased and closed afterwards *)
LEMMA OneMoves ==
    ASSUME NEW f \in [Clients -> Client], Roles(f), Singly(f),
           NEW c \in Clients, NEW r \in Client,
           r.slot # NoSlot <=> r.pc \in {"running", "closing"},
           r.pc = "running" => r.slot \notin LeasedTo(f),
           NEW h, Placed(h, f, c, r)
    PROVE  /\ h \in [Clients -> Client] /\ Roles(h) /\ Singly(h)
           /\ h[c] = r /\ \A d \in Clients \ {c} : h[d] = f[d]
           /\ LeasedTo(h) = (LeasedTo(f) \ LeaseOf(f[c])) \cup LeaseOf(r)
           /\ ClosedBy(h) \subseteq ClosedBy(f) \cup ClosingOf(r)
           /\ f[c].pc # "closing" => ClosedBy(h) = ClosedBy(f) \cup ClosingOf(r)
           /\ \A pc : Num(h, pc) = Num(f, pc) + One(h, c, pc) - One(f, c, pc)
<1>1. h \in [Clients -> Client] /\ h[c] = r /\ \A d \in Clients \ {c} : h[d] = f[d]
  BY DEF Placed
<1>2. Roles(h)
  BY <1>1 DEF Roles
<1>3. \A d \in Clients : f[d].pc = "running" => f[d].slot \in LeasedTo(f)
  BY DEF LeasedTo
<1>4. Singly(h)
  <2> SUFFICES ASSUME NEW d \in Clients, NEW e \in Clients,
                      h[d].pc = "running", h[e].pc = "running", h[d].slot = h[e].slot,
                      d # e
               PROVE  FALSE
    BY DEF Singly
  <2>1. CASE d = c
    BY <1>1, <1>3, <2>1
  <2>2. CASE e = c
    BY <1>1, <1>3, <2>2
  <2>3. CASE d # c /\ e # c
    BY <1>1, <2>3 DEF Singly
  <2> QED
    BY <2>1, <2>2, <2>3
<1> DEFINE L == {f[d].slot : d \in {e \in Clients \ {c} : f[e].pc = "running"}}
           M == {f[d].slot : d \in {e \in Clients \ {c} : f[e].pc = "closing"}}
<1>5. LeasedTo(h) = L \cup LeaseOf(r) /\ ClosedBy(h) = M \cup ClosingOf(r)
  BY <1>1, OneHolds
<1>6. LeasedTo(f) = L \cup LeaseOf(f[c]) /\ ClosedBy(f) = M \cup ClosingOf(f[c])
  <2>1. \A d \in Clients \ {c} : f[d] = f[d]
    OBVIOUS
  <2> QED
    BY <2>1, OneHolds
<1>7. L \cap LeaseOf(f[c]) = {}
  BY DEF LeaseOf, Singly
<1> HIDE DEF L, M
<1>8. f[c].pc # "closing" => ClosingOf(f[c]) = {}
  BY DEF ClosingOf
<1>9. \A pc : Num(h, pc) = Num(f, pc) + One(h, c, pc) - One(f, c, pc)
  BY <1>1, OneCounted
<1>10. LeasedTo(h) = (LeasedTo(f) \ LeaseOf(f[c])) \cup LeaseOf(r)
  BY <1>5, <1>6, <1>7
<1>11. ClosedBy(h) \subseteq ClosedBy(f) \cup ClosingOf(r)
  BY <1>5, <1>6
<1>12. f[c].pc # "closing" => ClosedBy(h) = ClosedBy(f) \cup ClosingOf(r)
  BY <1>5, <1>6, <1>8
<1> QED
  BY <1>1, <1>2, <1>4, <1>9, <1>10, <1>11, <1>12

(* A request that waits neither before nor after leaves the queues right. *)
SameLines(m, l) == m.queues = l.queues /\ m.order = l.order /\ m.pending = l.pending

LEMMA QueuesStay ==
    ASSUME NEW l, NEW m, NEW open \in BOOLEAN, Lined(l, open), NEW c \in Clients,
           SameLines(m, l), \A d \in Clients \ {c} : m.client[d] = l.client[d],
           open => l.client[c].pc # "waiting" /\ m.client[c].pc # "waiting"
    PROVE  Lined(m, open)
<1>1. ASSUME NEW t \in Tenants
      PROVE  {d \in Clients : TenantOf[d] = t /\ m.client[d].pc = "waiting" /\ open}
             = {d \in Clients : TenantOf[d] = t /\ l.client[d].pc = "waiting" /\ open}
  <2>1. CASE ~open
    BY <2>1
  <2>2. CASE open
    BY <2>2
  <2> QED
    BY <2>1, <2>2
<1> QED
  BY <1>1 DEF Lined, SameLines

(* A request that holds no lease, and whose waiting no longer counts,      *)
(* changes nothing but its own place.                                      *)
LEMMA PlaceChanges ==
    ASSUME NEW l, NEW open \in BOOLEAN, NEW k \in Nat, LaneOK(l, open, k),
           NEW c \in Clients, NEW r \in Client,
           r.slot # NoSlot <=> r.pc \in {"running", "closing"},
           l.client[c].pc # "running", r.pc # "running",
           open => l.client[c].pc # "waiting" /\ r.pc # "waiting",
           NEW m, SameLines(m, l), m.available = l.available, m.active = l.active,
           Placed(m.client, l.client, c, r)
    PROVE  /\ LaneOK(m, open, k) /\ Held(m) = Held(l)
           /\ ClosedBy(m.client) \subseteq ClosedBy(l.client) \cup ClosingOf(r)
           /\ Num(m.client, "closing") = Num(l.client, "closing")
                 + One(m.client, c, "closing") - One(l.client, c, "closing")
<1> DEFINE f == l.client  h == m.client
<1>1. /\ LaneTypes(l) /\ Roles(f) /\ Apart(l) /\ Lined(l, open) /\ Counted(l, open, k)
      /\ f \in [Clients -> Client] /\ Singly(f)
  BY DEF LaneOK, LaneTypes, Apart
<1> HIDE DEF f, h
<1>2. Placed(h, f, c, r) /\ f[c].pc # "running"
  BY DEF f, h
<1>3. /\ h \in [Clients -> Client] /\ Roles(h) /\ Singly(h)
      /\ h[c] = r /\ \A d \in Clients \ {c} : h[d] = f[d]
      /\ LeasedTo(h) = (LeasedTo(f) \ LeaseOf(f[c])) \cup LeaseOf(r)
      /\ ClosedBy(h) \subseteq ClosedBy(f) \cup ClosingOf(r)
      /\ \A pc : Num(h, pc) = Num(f, pc) + One(h, c, pc) - One(f, c, pc)
  <2>1. /\ f \in [Clients -> Client] /\ Roles(f) /\ Singly(f)
        /\ (r.slot # NoSlot <=> r.pc \in {"running", "closing"})
        /\ (r.pc = "running" => r.slot \notin LeasedTo(f))
    BY <1>1
  <2> QED
    BY <1>2, <2>1, OneMoves
<1>4. LeasedTo(h) = LeasedTo(f)
  BY <1>2, <1>3 DEF LeaseOf
<1>5. LaneTypes(m)
  BY <1>1, <1>3 DEF LaneTypes, SameLines, h
<1>6. Apart(m)
  BY <1>1, <1>3, <1>4 DEF Apart, f, h
<1>7. Lined(m, open)
  <2>1. \A d \in Clients \ {c} : m.client[d] = l.client[d]
    BY <1>3 DEF f, h
  <2>2. open => l.client[c].pc # "waiting" /\ m.client[c].pc # "waiting"
    BY <1>3 DEF h
  <2> QED
    BY <1>1, <2>1, <2>2, QueuesStay
<1>8. Counted(m, open, k)
  <2>1. Num(f, "running") \in Nat /\ Num(f, "waiting") \in Nat
    BY NumIsNat
  <2>2. One(h, c, "running") = 0 /\ One(f, c, "running") = 0
    BY <1>2, <1>3 DEF One
  <2>3. open => One(h, c, "waiting") = 0 /\ One(f, c, "waiting") = 0
    BY <1>2, <1>3 DEF One, f
  <2>4. Num(h, "running") = Num(f, "running")
    BY <1>3, <2>1, <2>2
  <2>5. open => Num(h, "waiting") = Num(f, "waiting")
    BY <1>3, <2>1, <2>3
  <2> QED
    BY <1>1, <2>4, <2>5 DEF Counted, SameLines, f, h
<1>9. Held(m) = Held(l)
  BY <1>4 DEF Held, f, h
<1>10. LaneOK(m, open, k)
  BY <1>3, <1>5, <1>6, <1>7, <1>8 DEF LaneOK, h
<1>11. /\ ClosedBy(h) \subseteq ClosedBy(f) \cup ClosingOf(r)
       /\ Num(h, "closing") = Num(f, "closing")
             + One(h, c, "closing") - One(f, c, "closing")
  BY <1>3
<1> QED
  BY <1>9, <1>10, <1>11 DEF f, h

(* The facts about one lane that the next lemmas start from. *)
LEMMA LaneFacts ==
    ASSUME NEW l, NEW open \in BOOLEAN, NEW k \in Nat, LaneOK(l, open, k)
    PROVE  /\ l.available \in Seq(Slots) /\ l.queues \in [Tenants -> Seq(Clients)]
           /\ l.order \in Seq(Tenants) /\ l.active \in Nat /\ l.pending \in Nat
           /\ l.client \in [Clients -> Client] /\ Roles(l.client) /\ Singly(l.client)
           /\ IsInjective(l.available) /\ ToSet(l.available) \cap LeasedTo(l.client) = {}
           /\ Lined(l, open) /\ Counted(l, open, k)
  BY DEF LaneOK, LaneTypes, Apart

(* A request joins the queue of its tenant. *)
Joins(m, l, c) ==
    LET t == TenantOf[c]
    IN /\ m.available = l.available /\ m.active = l.active
       /\ m.queues = [l.queues EXCEPT ![t] = Append(l.queues[t], c)]
       /\ m.order = (IF l.queues[t] = <<>> THEN Append(l.order, t) ELSE l.order)
       /\ m.pending = l.pending + 1
       /\ Placed(m.client, l.client, c, [Idle EXCEPT !.pc = "waiting"])

LEMMA JoinKeeps ==
    ASSUME NEW l, NEW k \in Nat, LaneOK(l, TRUE, k), l.pending < MaxPending,
           NEW c \in Clients, l.client[c].pc = "idle", NEW m, Joins(m, l, c)
    PROVE  LaneOK(m, TRUE, k) /\ SameOwners(m, l)
<1> DEFINE f == l.client  h == m.client  t == TenantOf[c]  q == l.queues
           r == [Idle EXCEPT !.pc = "waiting"]
<1>1. /\ l.available \in Seq(Slots) /\ q \in [Tenants -> Seq(Clients)]
      /\ l.order \in Seq(Tenants) /\ l.active \in Nat /\ l.pending \in Nat
      /\ f \in [Clients -> Client] /\ Roles(f) /\ Singly(f)
      /\ IsInjective(l.available) /\ ToSet(l.available) \cap LeasedTo(f) = {}
      /\ Lined(l, TRUE) /\ Counted(l, TRUE, k)
  BY LaneFacts
<1>2. /\ m.available = l.available /\ m.active = l.active /\ m.pending = l.pending + 1
      /\ m.queues = [q EXCEPT ![t] = Append(q[t], c)]
      /\ m.order = (IF q[t] = <<>> THEN Append(l.order, t) ELSE l.order)
      /\ Placed(h, f, c, r)
  BY DEF Joins
<1>3. r.pc = "waiting" /\ r.slot = NoSlot /\ r \in Client /\ t \in Tenants
  BY RecallPoolAssumption DEF Idle, Client
<1>4. f[c].pc = "idle"
  OBVIOUS
<1> HIDE DEF f, h, t, q, r
<1>5. /\ h \in [Clients -> Client] /\ Roles(h) /\ Singly(h)
      /\ h[c] = r /\ \A d \in Clients \ {c} : h[d] = f[d]
      /\ LeasedTo(h) = (LeasedTo(f) \ LeaseOf(f[c])) \cup LeaseOf(r)
      /\ f[c].pc # "closing" => ClosedBy(h) = ClosedBy(f) \cup ClosingOf(r)
      /\ \A pc : Num(h, pc) = Num(f, pc) + One(h, c, pc) - One(f, c, pc)
  <2>1. /\ f \in [Clients -> Client] /\ Roles(f) /\ Singly(f) /\ r \in Client
        /\ (r.slot # NoSlot <=> r.pc \in {"running", "closing"})
        /\ (r.pc = "running" => r.slot \notin LeasedTo(f))
    BY <1>1, <1>3
  <2>2. Placed(h, f, c, r)
    BY <1>2
  <2> QED
    BY <2>1, <2>2, OneMoves
<1>6. LeasedTo(h) = LeasedTo(f) /\ ClosedBy(h) = ClosedBy(f)
  BY <1>3, <1>4, <1>5 DEF LeaseOf, ClosingOf
<1>7. /\ Num(h, "running") = Num(f, "running") /\ Num(h, "closing") = Num(f, "closing")
      /\ Num(h, "waiting") = Num(f, "waiting") + 1
  <2>1. /\ One(f, c, "running") = 0 /\ One(f, c, "closing") = 0 /\ One(f, c, "waiting") = 0
        /\ One(h, c, "running") = 0 /\ One(h, c, "closing") = 0 /\ One(h, c, "waiting") = 1
    BY <1>3, <1>4, <1>5 DEF One
  <2>2. /\ Num(f, "running") \in Nat /\ Num(f, "waiting") \in Nat /\ Num(f, "closing") \in Nat
    BY NumIsNat
  <2> QED
    BY <1>5, <2>1, <2>2
<1>8. /\ \A u \in Tenants : q[u] \in Seq(Clients) /\ IsInjective(q[u])
      /\ \A u \in Tenants :
            ToSet(q[u]) = {d \in Clients : TenantOf[d] = u /\ f[d].pc = "waiting"}
      /\ IsInjective(l.order) /\ ToSet(l.order) = {u \in Tenants : q[u] # <<>>}
  BY <1>1 DEF Lined, f, q
<1>9. /\ Append(q[t], c) \in Seq(Clients) /\ IsInjective(Append(q[t], c))
      /\ ToSet(Append(q[t], c)) = ToSet(q[t]) \cup {c}
  <2>1. c \notin ToSet(q[t])
    BY <1>3, <1>4, <1>8
  <2> QED
    BY <1>3, <1>8, <2>1, LastComes
<1>10. Append(q[t], c) # <<>>
  BY <1>9, EmptyIsInjective
<1>11. m.queues \in [Tenants -> Seq(Clients)]
       /\ \A u \in Tenants : m.queues[u] = IF u = t THEN Append(q[t], c) ELSE q[u]
  BY <1>1, <1>2, <1>9
<1>12. /\ m.order \in Seq(Tenants) /\ IsInjective(m.order)
       /\ ToSet(m.order) = {u \in Tenants : m.queues[u] # <<>>}
  <2>1. CASE q[t] = <<>>
    <3>1. t \notin ToSet(l.order)
      BY <1>8, <2>1
    <3>2. /\ Append(l.order, t) \in Seq(Tenants) /\ IsInjective(Append(l.order, t))
          /\ ToSet(Append(l.order, t)) = ToSet(l.order) \cup {t}
      BY <1>1, <1>3, <1>8, <3>1, LastComes
    <3> QED
      BY <1>2, <1>3, <1>8, <1>10, <1>11, <2>1, <3>2
  <2>2. CASE q[t] # <<>>
    BY <1>1, <1>2, <1>3, <1>8, <1>10, <1>11, <2>2
  <2> QED
    BY <2>1, <2>2
<1>13. Lined(m, TRUE)
  <2>1. ASSUME NEW u \in Tenants
        PROVE  /\ IsInjective(m.queues[u])
               /\ ToSet(m.queues[u]) = {d \in Clients : TenantOf[d] = u /\ h[d].pc = "waiting"}
    <3>1. CASE u = t
      <4>1. {d \in Clients : TenantOf[d] = u /\ h[d].pc = "waiting"}
               = {d \in Clients : TenantOf[d] = u /\ f[d].pc = "waiting"} \cup {c}
        BY <1>3, <1>5, <3>1 DEF t
      <4> QED
        BY <1>8, <1>9, <1>11, <3>1, <4>1
    <3>2. CASE u # t
      <4>1. {d \in Clients : TenantOf[d] = u /\ h[d].pc = "waiting"}
               = {d \in Clients : TenantOf[d] = u /\ f[d].pc = "waiting"}
        BY <1>5, <3>2 DEF t
      <4> QED
        BY <1>8, <1>11, <3>2, <4>1
    <3> QED
      BY <3>1, <3>2
  <2> QED
    BY <1>12, <2>1 DEF Lined, h
<1>14. LaneTypes(m)
  BY <1>1, <1>2, <1>5, <1>11, <1>12 DEF LaneTypes, h
<1>15. Apart(m)
  BY <1>1, <1>2, <1>5, <1>6 DEF Apart, h
<1>16. Counted(m, TRUE, k)
  <2>1. /\ l.active = Num(f, "running") + k /\ l.pending = Num(f, "waiting")
    BY <1>1 DEF Counted, f
  <2>2. m.pending <= MaxPending
    BY <1>1, <1>2, RecallPoolAssumption
  <2> QED
    BY <1>2, <1>7, <2>1, <2>2 DEF Counted, h
<1>17. LaneOK(m, TRUE, k)
  BY <1>5, <1>13, <1>14, <1>15, <1>16 DEF LaneOK, h
<1>18. SameOwners(m, l)
  BY <1>2, <1>6, <1>7 DEF SameOwners, Held, f, h
<1> QED
  BY <1>17, <1>18

(* A request leaves the queue of its tenant. *)
Leaves(m, l, c) ==
    LET t == TenantOf[c]
        left == Dropped(l.queues[t], c)
    IN /\ m.available = l.available /\ m.active = l.active
       /\ m.queues = [l.queues EXCEPT ![t] = left]
       /\ m.order = (IF left = <<>> THEN Dropped(l.order, t) ELSE l.order)
       /\ m.pending = l.pending - 1
       /\ Placed(m.client, l.client, c, Idle)

LEMMA LeaveKeeps ==
    ASSUME NEW l, NEW k \in Nat, LaneOK(l, TRUE, k),
           NEW c \in Clients, l.client[c].pc = "waiting", NEW m, Leaves(m, l, c)
    PROVE  LaneOK(m, TRUE, k) /\ SameOwners(m, l)
<1> DEFINE f == l.client  h == m.client  t == TenantOf[c]  q == l.queues
           left == Dropped(q[t], c)
<1>1. /\ l.available \in Seq(Slots) /\ q \in [Tenants -> Seq(Clients)]
      /\ l.order \in Seq(Tenants) /\ l.active \in Nat /\ l.pending \in Nat
      /\ f \in [Clients -> Client] /\ Roles(f) /\ Singly(f)
      /\ IsInjective(l.available) /\ ToSet(l.available) \cap LeasedTo(f) = {}
      /\ Lined(l, TRUE) /\ Counted(l, TRUE, k)
  BY LaneFacts
<1>2. /\ m.available = l.available /\ m.active = l.active /\ m.pending = l.pending - 1
      /\ m.queues = [q EXCEPT ![t] = left]
      /\ m.order = (IF left = <<>> THEN Dropped(l.order, t) ELSE l.order)
      /\ Placed(h, f, c, Idle)
  BY DEF Leaves
<1>3. t \in Tenants /\ f[c].pc = "waiting"
  BY RecallPoolAssumption
<1> HIDE DEF f, h, t, q, left
<1>4. /\ h \in [Clients -> Client] /\ Roles(h) /\ Singly(h)
      /\ h[c] = Idle /\ \A d \in Clients \ {c} : h[d] = f[d]
      /\ LeasedTo(h) = (LeasedTo(f) \ LeaseOf(f[c])) \cup LeaseOf(Idle)
      /\ f[c].pc # "closing" => ClosedBy(h) = ClosedBy(f) \cup ClosingOf(Idle)
      /\ \A pc : Num(h, pc) = Num(f, pc) + One(h, c, pc) - One(f, c, pc)
  <2>1. /\ f \in [Clients -> Client] /\ Roles(f) /\ Singly(f) /\ Idle \in Client
        /\ (Idle.slot # NoSlot <=> Idle.pc \in {"running", "closing"})
        /\ (Idle.pc = "running" => Idle.slot \notin LeasedTo(f))
    BY <1>1, IdleIsClient
  <2>2. Placed(h, f, c, Idle)
    BY <1>2
  <2> QED
    BY <2>1, <2>2, OneMoves
<1>5. LeasedTo(h) = LeasedTo(f) /\ ClosedBy(h) = ClosedBy(f)
  BY <1>3, <1>4, IdleIsClient DEF LeaseOf, ClosingOf
<1>6. Num(f, "running") \in Nat /\ Num(f, "waiting") \in Nat /\ Num(f, "closing") \in Nat
  BY NumIsNat
<1>7. /\ Num(h, "running") = Num(f, "running") /\ Num(h, "closing") = Num(f, "closing")
      /\ Num(h, "waiting") = Num(f, "waiting") - 1
  <2>1. /\ One(f, c, "running") = 0 /\ One(f, c, "closing") = 0 /\ One(f, c, "waiting") = 1
        /\ One(h, c, "running") = 0 /\ One(h, c, "closing") = 0 /\ One(h, c, "waiting") = 0
    BY <1>3, <1>4, IdleIsClient DEF One
  <2> QED
    BY <1>4, <1>6, <2>1
<1>8. /\ \A u \in Tenants : q[u] \in Seq(Clients) /\ IsInjective(q[u])
      /\ \A u \in Tenants :
            ToSet(q[u]) = {d \in Clients : TenantOf[d] = u /\ f[d].pc = "waiting"}
      /\ IsInjective(l.order) /\ ToSet(l.order) = {u \in Tenants : q[u] # <<>>}
  BY <1>1 DEF Lined, f, q
<1>9. c \in ToSet(q[t]) /\ q[t] # <<>>
  <2>1. c \in ToSet(q[t])
    BY <1>3, <1>8 DEF t
  <2> QED
    BY <1>3, <1>8, <2>1, NoElements
<1>10. left \in Seq(Clients) /\ IsInjective(left) /\ ToSet(left) = ToSet(q[t]) \ {c}
  BY <1>3, <1>8, <1>9, OneIsDropped DEF left
<1>11. m.queues \in [Tenants -> Seq(Clients)]
       /\ \A u \in Tenants : m.queues[u] = IF u = t THEN left ELSE q[u]
  BY <1>1, <1>2, <1>10
<1>12. /\ m.order \in Seq(Tenants) /\ IsInjective(m.order)
       /\ ToSet(m.order) = {u \in Tenants : m.queues[u] # <<>>}
  <2>1. CASE left = <<>>
    <3>1. t \in ToSet(l.order)
      BY <1>3, <1>8, <1>9
    <3>2. /\ Dropped(l.order, t) \in Seq(Tenants) /\ IsInjective(Dropped(l.order, t))
          /\ ToSet(Dropped(l.order, t)) = ToSet(l.order) \ {t}
      BY <1>1, <1>8, <3>1, OneIsDropped
    <3> QED
      BY <1>2, <1>3, <1>8, <1>11, <2>1, <3>2
  <2>2. CASE left # <<>>
    BY <1>1, <1>2, <1>3, <1>8, <1>9, <1>11, <2>2
  <2> QED
    BY <2>1, <2>2
<1>13. Lined(m, TRUE)
  <2>1. ASSUME NEW u \in Tenants
        PROVE  /\ IsInjective(m.queues[u])
               /\ ToSet(m.queues[u]) = {d \in Clients : TenantOf[d] = u /\ h[d].pc = "waiting"}
    <3>1. CASE u = t
      <4>1. {d \in Clients : TenantOf[d] = u /\ h[d].pc = "waiting"}
               = {d \in Clients : TenantOf[d] = u /\ f[d].pc = "waiting"} \ {c}
        BY <1>4, IdleIsClient
      <4> QED
        BY <1>8, <1>10, <1>11, <3>1, <4>1
    <3>2. CASE u # t
      <4>1. {d \in Clients : TenantOf[d] = u /\ h[d].pc = "waiting"}
               = {d \in Clients : TenantOf[d] = u /\ f[d].pc = "waiting"}
        BY <1>4, <3>2 DEF t
      <4> QED
        BY <1>8, <1>11, <3>2, <4>1
    <3> QED
      BY <3>1, <3>2
  <2> QED
    BY <1>12, <2>1 DEF Lined, h
<1>14. Counted(m, TRUE, k) /\ m.pending \in Nat
  <2>1. /\ l.active = Num(f, "running") + k /\ l.pending = Num(f, "waiting")
        /\ l.pending <= MaxPending
    BY <1>1 DEF Counted, f
  <2>2. Num(h, "waiting") \in Nat
    BY NumIsNat
  <2>3. m.active = Num(h, "running") + k
    BY <1>2, <1>7, <2>1
  <2>4. m.pending = Num(h, "waiting") /\ m.pending \in Nat /\ m.pending <= MaxPending
    BY <1>2, <1>6, <1>7, <2>1, <2>2, RecallPoolAssumption
  <2> QED
    BY <2>3, <2>4 DEF Counted, h
<1>15. LaneTypes(m)
  BY <1>1, <1>2, <1>4, <1>11, <1>12, <1>14 DEF LaneTypes, h
<1>16. Apart(m)
  BY <1>1, <1>2, <1>4, <1>5 DEF Apart, h
<1>17. LaneOK(m, TRUE, k)
  BY <1>4, <1>13, <1>14, <1>15, <1>16 DEF LaneOK, h
<1>18. SameOwners(m, l)
  BY <1>2, <1>5, <1>7 DEF SameOwners, Held, f, h
<1> QED
  BY <1>17, <1>18

(* An idle engine is leased at once. *)
Takes(m, l, c) ==
    /\ SameLines(m, l) /\ m.available = Tail(l.available) /\ m.active = l.active + 1
    /\ Placed(m.client, l.client, c, [Idle EXCEPT !.pc = "running", !.slot = Head(l.available)])

LEMMA TakeKeeps ==
    ASSUME NEW l, NEW open \in BOOLEAN, NEW k \in Nat, LaneOK(l, open, k),
           l.available # <<>>,
           NEW c \in Clients, l.client[c].pc = "idle", NEW m, Takes(m, l, c)
    PROVE  LaneOK(m, open, k) /\ SameOwners(m, l)
<1> DEFINE f == l.client  h == m.client  s == Head(l.available)
           r == [Idle EXCEPT !.pc = "running", !.slot = s]
<1>1. /\ l.available \in Seq(Slots) /\ l.queues \in [Tenants -> Seq(Clients)]
      /\ l.order \in Seq(Tenants) /\ l.active \in Nat /\ l.pending \in Nat
      /\ f \in [Clients -> Client] /\ Roles(f) /\ Singly(f)
      /\ IsInjective(l.available) /\ ToSet(l.available) \cap LeasedTo(f) = {}
      /\ Lined(l, open) /\ Counted(l, open, k)
  BY LaneFacts
<1>2. /\ SameLines(m, l) /\ m.available = Tail(l.available) /\ m.active = l.active + 1
      /\ Placed(h, f, c, r)
  BY DEF Takes
<1>3. /\ s \in Slots /\ s \in ToSet(l.available) /\ Tail(l.available) \in Seq(Slots)
      /\ IsInjective(Tail(l.available)) /\ ToSet(Tail(l.available)) = ToSet(l.available) \ {s}
  BY <1>1, HeadLeaves
<1>4. /\ r.pc = "running" /\ r.slot = s /\ r \in Client /\ s # NoSlot
      /\ f[c].pc = "idle"
  BY <1>3, RecallPoolAssumption DEF Idle, Client
<1> HIDE DEF f, h, s, r
<1>5. /\ h \in [Clients -> Client] /\ Roles(h) /\ Singly(h)
      /\ h[c] = r /\ \A d \in Clients \ {c} : h[d] = f[d]
      /\ LeasedTo(h) = (LeasedTo(f) \ LeaseOf(f[c])) \cup LeaseOf(r)
      /\ f[c].pc # "closing" => ClosedBy(h) = ClosedBy(f) \cup ClosingOf(r)
      /\ \A pc : Num(h, pc) = Num(f, pc) + One(h, c, pc) - One(f, c, pc)
  <2>1. /\ f \in [Clients -> Client] /\ Roles(f) /\ Singly(f) /\ r \in Client
        /\ (r.slot # NoSlot <=> r.pc \in {"running", "closing"})
        /\ (r.pc = "running" => r.slot \notin LeasedTo(f))
    BY <1>1, <1>3, <1>4
  <2>2. Placed(h, f, c, r)
    BY <1>2
  <2> QED
    BY <2>1, <2>2, OneMoves
<1>6. LeasedTo(h) = LeasedTo(f) \cup {s} /\ ClosedBy(h) = ClosedBy(f)
  BY <1>4, <1>5 DEF LeaseOf, ClosingOf
<1>7. /\ Num(h, "running") = Num(f, "running") + 1 /\ Num(h, "closing") = Num(f, "closing")
      /\ Num(h, "waiting") = Num(f, "waiting")
  <2>1. /\ One(f, c, "running") = 0 /\ One(f, c, "closing") = 0 /\ One(f, c, "waiting") = 0
        /\ One(h, c, "running") = 1 /\ One(h, c, "closing") = 0 /\ One(h, c, "waiting") = 0
    BY <1>4, <1>5 DEF One
  <2>2. /\ Num(f, "running") \in Nat /\ Num(f, "waiting") \in Nat /\ Num(f, "closing") \in Nat
    BY NumIsNat
  <2> QED
    BY <1>5, <2>1, <2>2
<1>8. Lined(m, open)
  <2>1. \A d \in Clients \ {c} : m.client[d] = l.client[d]
    BY <1>5 DEF f, h
  <2>2. open => l.client[c].pc # "waiting" /\ m.client[c].pc # "waiting"
    BY <1>4, <1>5 DEF f, h
  <2> QED
    BY <1>1, <1>2, <2>1, <2>2, QueuesStay
<1>9. LaneTypes(m)
  BY <1>1, <1>2, <1>3, <1>5 DEF LaneTypes, SameLines, h
<1>10. Apart(m)
  BY <1>1, <1>2, <1>3, <1>5, <1>6 DEF Apart, h
<1>11. Counted(m, open, k)
  <2>1. Num(f, "running") \in Nat
    BY NumIsNat
  <2> QED
    BY <1>1, <1>2, <1>7, <2>1 DEF Counted, SameLines, f, h
<1>12. LaneOK(m, open, k)
  BY <1>5, <1>8, <1>9, <1>10, <1>11 DEF LaneOK, h
<1>13. SameOwners(m, l)
  BY <1>2, <1>3, <1>6, <1>7 DEF SameOwners, Held, f, h
<1> QED
  BY <1>12, <1>13

(* The engine s is no longer leased but closed. *)
OneRetires(m, l, s) ==
    /\ Held(m) = Held(l) \ {s}
    /\ ClosedBy(m.client) = ClosedBy(l.client) \cup {s}
    /\ Num(m.client, "closing") = Num(l.client, "closing") + 1

(* A request has used its engine, which is idle again or is closed.        *)
Ends(m, l, c, r) ==
    /\ SameLines(m, l) /\ m.active = l.active - 1
    /\ m.available = (IF r.pc = "closing" THEN l.available
                      ELSE Append(l.available, l.client[c].slot))
    /\ Placed(m.client, l.client, c, r)

LEMMA EndKeeps ==
    ASSUME NEW l, NEW open \in BOOLEAN, NEW k \in Nat, LaneOK(l, open, k),
           NEW c \in Clients, l.client[c].pc = "running", NEW s, s = l.client[c].slot,
           NEW r \in Client, r = Idle \/ (r.pc = "closing" /\ r.slot = s),
           NEW m, Ends(m, l, c, r)
    PROVE  /\ LaneOK(m, open, k) /\ s \in Slots /\ s \in Held(l)
           /\ r = Idle => SameOwners(m, l)
           /\ r.pc = "closing" => OneRetires(m, l, s)
<1> DEFINE f == l.client  h == m.client
<1>1. /\ l.available \in Seq(Slots) /\ l.queues \in [Tenants -> Seq(Clients)]
      /\ l.order \in Seq(Tenants) /\ l.active \in Nat /\ l.pending \in Nat
      /\ f \in [Clients -> Client] /\ Roles(f) /\ Singly(f)
      /\ IsInjective(l.available) /\ ToSet(l.available) \cap LeasedTo(f) = {}
      /\ Lined(l, open) /\ Counted(l, open, k)
  BY LaneFacts
<1>2. /\ SameLines(m, l) /\ m.active = l.active - 1
      /\ m.available = (IF r.pc = "closing" THEN l.available ELSE Append(l.available, s))
      /\ Placed(h, f, c, r)
  BY DEF Ends
<1>3. s = f[c].slot /\ f[c].pc = "running"
  OBVIOUS
<1> HIDE DEF f, h
<1>4. s \in Slots /\ s # NoSlot /\ s \in LeasedTo(f)
  <2>1. s # NoSlot
    BY <1>1, <1>3 DEF Roles
  <2>2. f[c] \in Client
    BY <1>1
  <2>3. s \in LeasedTo(f)
    BY <1>3 DEF LeasedTo
  <2> QED
    BY <1>3, <2>1, <2>2, <2>3 DEF Client
<1>5. r.pc # "running" /\ r.pc # "waiting" /\ (r.slot # NoSlot <=> r.pc = "closing")
  BY <1>4, IdleIsClient
<1>6. /\ h \in [Clients -> Client] /\ Roles(h) /\ Singly(h)
      /\ h[c] = r /\ \A d \in Clients \ {c} : h[d] = f[d]
      /\ LeasedTo(h) = (LeasedTo(f) \ LeaseOf(f[c])) \cup LeaseOf(r)
      /\ f[c].pc # "closing" => ClosedBy(h) = ClosedBy(f) \cup ClosingOf(r)
      /\ \A pc : Num(h, pc) = Num(f, pc) + One(h, c, pc) - One(f, c, pc)
  <2>1. /\ f \in [Clients -> Client] /\ Roles(f) /\ Singly(f) /\ r \in Client
        /\ (r.slot # NoSlot <=> r.pc \in {"running", "closing"})
        /\ (r.pc = "running" => r.slot \notin LeasedTo(f))
    BY <1>1, <1>5
  <2>2. Placed(h, f, c, r)
    BY <1>2
  <2> HIDE DEF SameLines
  <2> QED
    BY <2>1, <2>2, OneMoves
<1>7. LeasedTo(h) = LeasedTo(f) \ {s} /\ ClosedBy(h) = ClosedBy(f) \cup ClosingOf(r)
  BY <1>3, <1>5, <1>6 DEF LeaseOf
<1>8. /\ Num(h, "running") = Num(f, "running") - 1
      /\ Num(h, "closing") = Num(f, "closing") + (IF r.pc = "closing" THEN 1 ELSE 0)
      /\ Num(h, "waiting") = Num(f, "waiting")
  <2>1. /\ One(f, c, "running") = 1 /\ One(f, c, "closing") = 0 /\ One(f, c, "waiting") = 0
        /\ One(h, c, "running") = 0 /\ One(h, c, "waiting") = 0
        /\ One(h, c, "closing") = IF r.pc = "closing" THEN 1 ELSE 0
    BY <1>3, <1>5, <1>6 DEF One
  <2>2. /\ Num(f, "running") \in Nat /\ Num(f, "waiting") \in Nat /\ Num(f, "closing") \in Nat
    BY NumIsNat
  <2> QED
    BY <1>6, <2>1, <2>2
<1>9. /\ m.available \in Seq(Slots) /\ IsInjective(m.available)
      /\ ToSet(m.available) = ToSet(l.available) \cup (IF r.pc = "closing" THEN {} ELSE {s})
  <2>1. CASE r.pc = "closing"
    BY <1>1, <1>2, <2>1
  <2>2. CASE r.pc # "closing"
    <3>1. s \notin ToSet(l.available)
      BY <1>1, <1>4
    <3>2. /\ Append(l.available, s) \in Seq(Slots) /\ IsInjective(Append(l.available, s))
          /\ ToSet(Append(l.available, s)) = ToSet(l.available) \cup {s}
      BY <1>1, <1>4, <3>1, LastComes
    <3> QED
      BY <1>2, <2>2, <3>2
  <2> QED
    BY <2>1, <2>2
<1>10. Lined(m, open)
  <2>1. \A d \in Clients \ {c} : m.client[d] = l.client[d]
    BY <1>6 DEF f, h
  <2>2. open => l.client[c].pc # "waiting" /\ m.client[c].pc # "waiting"
    BY <1>3, <1>5, <1>6 DEF f, h
  <2>3. SameLines(m, l) /\ Lined(l, open)
    BY <1>1, <1>2
  <2> QED
    BY <2>1, <2>2, <2>3, QueuesStay
<1>11. l.active - 1 \in Nat /\ Counted(m, open, k)
  <2>1. Num(f, "running") \in Nat /\ Num(h, "running") \in Nat
    BY NumIsNat
  <2>2. l.active = Num(f, "running") + k
    BY <1>1 DEF Counted, f
  <2>3. m.active = Num(h, "running") + k /\ l.active - 1 \in Nat
    BY <1>2, <1>8, <2>1, <2>2
  <2> QED
    BY <1>1, <1>2, <1>8, <2>3 DEF Counted, SameLines, f, h
<1>12. LaneTypes(m)
  BY <1>1, <1>2, <1>6, <1>9, <1>11 DEF LaneTypes, SameLines, h
<1>13. Apart(m)
  BY <1>1, <1>6, <1>7, <1>9 DEF Apart, h
<1>14. LaneOK(m, open, k)
  BY <1>6, <1>10, <1>11, <1>12, <1>13 DEF LaneOK, h
<1>15. r = Idle => SameOwners(m, l)
  <2> SUFFICES ASSUME r = Idle PROVE SameOwners(m, l)
    OBVIOUS
  <2>1. r.pc # "closing" /\ ClosingOf(r) = {}
    BY IdleIsClient DEF ClosingOf
  <2>2. Num(f, "closing") \in Nat
    BY NumIsNat
  <2>3. ToSet(m.available) \cup LeasedTo(h) = ToSet(l.available) \cup LeasedTo(f)
    BY <1>4, <1>7, <1>9, <2>1
  <2>4. ClosedBy(h) = ClosedBy(f) /\ Num(h, "closing") = Num(f, "closing")
    BY <1>7, <1>8, <2>1, <2>2
  <2> QED
    BY <2>3, <2>4 DEF SameOwners, Held, f, h
<1>16. s \in Held(l)
  BY <1>4 DEF Held, f
<1>17. ASSUME r.pc = "closing"
       PROVE  OneRetires(m, l, s)
  <2>1. r.slot = s
    BY <1>17, IdleIsClient
  <2>2. ToSet(m.available) \cup LeasedTo(h) = (ToSet(l.available) \cup LeasedTo(f)) \ {s}
    BY <1>1, <1>4, <1>7, <1>9, <1>17
  <2>3. ClosedBy(h) = ClosedBy(f) \cup {s} /\ Num(h, "closing") = Num(f, "closing") + 1
    BY <1>7, <1>8, <1>17, <2>1 DEF ClosingOf
  <2> QED
    BY <2>2, <2>3 DEF OneRetires, Held, f, h
<1> QED
  BY <1>4, <1>14, <1>15, <1>16, <1>17

(* Only the idle engines change, and how many are leased to a warm-up. *)
Refills(m, l, a, n) ==
    /\ SameLines(m, l) /\ m.client = l.client /\ m.available = a /\ m.active = n

LEMMA RefillKeeps ==
    ASSUME NEW l, NEW open \in BOOLEAN, NEW k \in Nat, NEW j \in Nat, LaneOK(l, open, k),
           NEW a \in Seq(Slots), IsInjective(a), ToSet(a) \cap LeasedTo(l.client) = {},
           NEW n, n = Num(l.client, "running") + j,
           NEW m, Refills(m, l, a, n)
    PROVE  LaneOK(m, open, j) /\ Held(m) = ToSet(a) \cup LeasedTo(l.client)
<1>1. /\ l.available \in Seq(Slots) /\ l.queues \in [Tenants -> Seq(Clients)]
      /\ l.order \in Seq(Tenants) /\ l.active \in Nat /\ l.pending \in Nat
      /\ l.client \in [Clients -> Client] /\ Roles(l.client) /\ Singly(l.client)
      /\ Lined(l, open) /\ Counted(l, open, k)
  BY LaneFacts
<1>2. /\ m.queues = l.queues /\ m.order = l.order /\ m.pending = l.pending
      /\ m.client = l.client /\ m.available = a /\ m.active = n
  BY DEF Refills, SameLines
<1>3. n \in Nat
  <2>1. Num(l.client, "running") \in Nat
    BY NumIsNat
  <2> QED
    BY <2>1
<1>4. LaneTypes(m)
  BY <1>1, <1>2, <1>3 DEF LaneTypes
<1>5. Apart(m)
  BY <1>1, <1>2 DEF Apart
<1>6. Lined(m, open)
  BY <1>1, <1>2 DEF Lined
<1>7. Counted(m, open, j)
  BY <1>1, <1>2 DEF Counted
<1>8. Roles(m.client)
  BY <1>1, <1>2
<1>9. Held(m) = ToSet(a) \cup LeasedTo(l.client)
  BY <1>2 DEF Held
<1> QED
  BY <1>4, <1>5, <1>6, <1>7, <1>8, <1>9 DEF LaneOK

-----------------------------------------------------------------------------
(* From the lanes a step makes to the state it leaves *)

LEMMA LanesFields ==
    /\ Lanes.available = available /\ Lanes.queues = queues /\ Lanes.order = order
    /\ Lanes.active = active /\ Lanes.pending = pending /\ Lanes.client = client
    /\ Lanes'.available = available' /\ Lanes'.queues = queues' /\ Lanes'.order = order'
    /\ Lanes'.active = active' /\ Lanes'.pending = pending' /\ Lanes'.client = client'
  BY DEF Lanes

(* LaneOK and SameOwners look at nothing but the six fields. *)
LEMMA SameFields ==
    ASSUME NEW l, NEW m, NEW open, NEW k, LaneOK(l, open, k),
           m.available = l.available, m.queues = l.queues, m.order = l.order,
           m.active = l.active, m.pending = l.pending, m.client = l.client
    PROVE  LaneOK(m, open, k) /\ SameOwners(m, l)
<1>1. LaneTypes(m) /\ Roles(m.client) /\ Apart(m)
  BY DEF LaneOK, LaneTypes, Apart
<1>2. Lined(m, open) /\ Counted(m, open, k)
  BY DEF LaneOK, Lined, Counted
<1>3. SameOwners(m, l)
  BY DEF SameOwners, Held
<1> QED
  BY <1>1, <1>2, <1>3 DEF LaneOK

(* The lanes m, whose idle engines are given out unless they are held *)
LEMMA Settles ==
    ASSUME NEW m, NEW held \in BOOLEAN, NEW open \in BOOLEAN, NEW k \in Nat,
           LaneOK(m, open, k), ~held => open, BecomesTo(Dispatch(m, held))
    PROVE  /\ LaneOK(Lanes', open, k) /\ SameOwners(Lanes', m)
           /\ ~held => available' = <<>> \/ order' = <<>>
<1>1. PICK g : g = Dispatch(m, held)
  OBVIOUS
<1>2. /\ available' = g.available /\ queues' = g.queues /\ order' = g.order
      /\ active' = g.active /\ pending' = g.pending /\ client' = g.client
  BY <1>1 DEF BecomesTo
<1>3. LaneOK(g, open, k) /\ SameOwners(g, m) /\ (~held => g.available = <<>> \/ g.order = <<>>)
  <2>1. CASE held
    <3>1. g = m
      BY <1>1, <2>1 DEF Dispatch
    <3> QED
      BY <2>1, <3>1 DEF SameOwners
  <2>2. CASE ~held
    <3>1. open = TRUE /\ held = FALSE
      BY <2>2
    <3> QED
      BY <1>1, <3>1, DispatchKeeps
  <2> QED
    BY <2>1, <2>2
<1>4. LaneOK(Lanes', open, k) /\ SameOwners(Lanes', g)
  BY <1>2, <1>3, LanesFields, SameFields
<1>5. SameOwners(Lanes', m)
  BY <1>3, <1>4 DEF SameOwners
<1> QED
  BY <1>2, <1>3, <1>4, <1>5

(* A step that leaves the lanes alone *)
LEMMA LanesStay == ASSUME LanesOK, UNCHANGED <<queueing, closed>>, Warmed' = Warmed
                   PROVE  LanesOK'
<1>1. Lanes' = Lanes
  BY DEF queueing, Lanes
<1> QED
  BY <1>1 DEF LanesOK

(* A step after which the pool's engines are still where they were *)
LEMMA OwnersStay ==
    ASSUME RestOK, UNCHANGED <<pool, engines, retiring, closed, warming, scaler, keeper,
                               janitor>>,
           Held(Lanes') = Held(Lanes), ClosedBy(client') \subseteq ClosedBy(client),
           Num(client', "closing") = Num(client, "closing"), Limits', NoneIdle'
    PROVE  RestOK'
<1>1. Parts'
  BY DEF RestOK, Parts
<1>2. Retired' = Retired /\ Scaling' = Scaling
  BY DEF Retired, Scaling
<1>3. Owned'
  BY DEF RestOK, Owned
<1>4. Outside'
  BY <1>2 DEF RestOK, Outside
<1>5. Scaled' /\ Kept'
  BY <1>2 DEF RestOK, Scaled, Kept
<1>6. Retiring'
  BY <1>2 DEF RestOK, Retiring
<1> QED
  BY <1>1, <1>3, <1>4, <1>5, <1>6 DEF RestOK

LEMMA WarmedIsNat == ASSUME RestOK PROVE Warmed \in Nat /\ (~closed) \in BOOLEAN
<1>1. keeper.pc = "warming" => keeper.slots = pool
  BY DEF RestOK, Kept
<1>2. IsFiniteSet(pool) /\ Cardinality(pool) \in Nat
  BY FS_CardinalityType DEF RestOK, Parts
<1>3. Warmed \in Nat
  BY <1>1, <1>2 DEF Warmed
<1> QED
  BY <1>3 DEF RestOK, Parts

-----------------------------------------------------------------------------
(* Requests *)

LEMMA LeaseStep ==
    ASSUME RecallInv, NEW c \in Clients, Lease(c)
    PROVE  RecallInv'
<1> DEFINE k == Warmed
<1>1. LaneOK(Lanes, ~closed, k) /\ RestOK /\ k \in Nat /\ (~closed) \in BOOLEAN
  BY WarmedIsNat DEF RecallInv, LanesOK
<1>2. /\ client[c].pc = "idle" /\ available # <<>> /\ order = <<>>
      /\ available' = Tail(available) /\ active' = active + 1
      /\ client' = [client EXCEPT ![c] = [Idle EXCEPT !.pc = "running",
                                                      !.slot = Head(available)]]
      /\ UNCHANGED <<queues, order, pending>>
  BY DEF Lease, At
<1>3. /\ UNCHANGED <<pool, engines, retiring, closed, warming, scaler, keeper, janitor>>
      /\ UNCHANGED <<ready, target, shut, warmups, faults>>
  BY DEF Lease, repairs, bounds
<1>4. Takes(Lanes', Lanes, c)
  <2>1. SameLines(Lanes', Lanes)
    BY <1>2, LanesFields DEF SameLines
  <2>2. Placed(client', client, c, [Idle EXCEPT !.pc = "running", !.slot = Head(available)])
    BY <1>2 DEF Placed
  <2> QED
    BY <1>2, <2>1, <2>2, LanesFields DEF Takes
<1> HIDE DEF k
<1>5. LaneOK(Lanes', ~closed, k) /\ SameOwners(Lanes', Lanes)
  <2>1. Lanes.available # <<>> /\ Lanes.client[c].pc = "idle"
    BY <1>2, LanesFields
  <2> QED
    BY <1>1, <1>4, <2>1, TakeKeeps
<1>6. LanesOK'
  BY <1>3, <1>5 DEF LanesOK, Warmed, k
<1>7. Limits' /\ NoneIdle'
  BY <1>1, <1>2, <1>3 DEF RestOK, Limits, NoneIdle
<1>8. /\ Held(Lanes') = Held(Lanes) /\ ClosedBy(client') = ClosedBy(client)
      /\ Num(client', "closing") = Num(client, "closing")
  BY <1>5, LanesFields DEF SameOwners
<1>9. RestOK'
  BY <1>1, <1>3, <1>7, <1>8, OwnersStay
<1> QED
  BY <1>6, <1>9 DEF RecallInv

(* Lanes that have the same engines, before idle ones are given out *)
LEMMA SettlesTheSame ==
    ASSUME RecallInv, NEW m, LaneOK(m, ~closed, Warmed), SameOwners(m, Lanes),
           NEW held \in BOOLEAN, ~held => ~closed, BecomesTo(Dispatch(m, held)),
           held => closed \/ warming,
           UNCHANGED <<pool, engines, retiring, closed, warming, scaler, keeper, janitor>>,
           Limits'
    PROVE  RecallInv'
<1> DEFINE k == Warmed  open == ~closed
<1>1. RestOK /\ k \in Nat /\ open \in BOOLEAN
  BY WarmedIsNat DEF RecallInv
<1>2. LaneOK(m, open, k) /\ (~held => open)
  OBVIOUS
<1> HIDE DEF k, open
<1>3. /\ LaneOK(Lanes', open, k) /\ SameOwners(Lanes', m)
      /\ ~held => available' = <<>> \/ order' = <<>>
  BY <1>1, <1>2, Settles
<1>4. LanesOK'
  BY <1>3 DEF LanesOK, Warmed, k, open
<1>5. NoneIdle'
  BY <1>3 DEF NoneIdle
<1>6. /\ Held(Lanes') = Held(Lanes) /\ ClosedBy(client') = ClosedBy(client)
      /\ Num(client', "closing") = Num(client, "closing")
  BY <1>3, LanesFields DEF SameOwners
<1>7. RestOK'
  BY <1>1, <1>5, <1>6, OwnersStay
<1> QED
  BY <1>4, <1>7 DEF RecallInv

LEMMA EnqueueStep ==
    ASSUME RecallInv, NEW c \in Clients, Enqueue(c)
    PROVE  RecallInv'
<1> DEFINE t == TenantOf[c]
<1>1. PICK m : m = [Lanes EXCEPT !.queues[t] = Append(@, c),
                                 !.order = IF queues[t] = <<>> THEN Append(@, t) ELSE @,
                                 !.pending = @ + 1,
                                 !.client[c] = [Idle EXCEPT !.pc = "waiting"]]
  OBVIOUS
<1>2. /\ client[c].pc = "idle" /\ ~closed /\ pending < MaxPending
      /\ BecomesTo(Dispatch(m, warming))
  BY <1>1 DEF Enqueue, At
<1>3. /\ UNCHANGED <<pool, engines, retiring, closed, warming, scaler, keeper, janitor>>
      /\ UNCHANGED <<ready, target, shut, warmups, faults>>
  BY DEF Enqueue, repairs, bounds
<1>4. /\ m.available = available /\ m.active = active
      /\ m.queues = [queues EXCEPT ![t] = Append(queues[t], c)]
      /\ m.order = (IF queues[t] = <<>> THEN Append(order, t) ELSE order)
      /\ m.pending = pending + 1
      /\ m.client = [client EXCEPT ![c] = [Idle EXCEPT !.pc = "waiting"]]
  BY <1>1 DEF Lanes
<1>5. Joins(m, Lanes, c)
  BY <1>4, LanesFields DEF Joins, Placed
<1>6. LaneOK(m, ~closed, Warmed) /\ SameOwners(m, Lanes)
  <2>1. Lanes.pending < MaxPending /\ Lanes.client[c].pc = "idle"
    BY <1>2, LanesFields
  <2>2. LaneOK(Lanes, TRUE, Warmed) /\ Warmed \in Nat /\ (~closed) = TRUE
    BY <1>2, WarmedIsNat DEF RecallInv, LanesOK, RestOK, Parts
  <2> HIDE DEF t
  <2> QED
    BY <1>5, <2>1, <2>2, JoinKeeps
<1>7. Limits' /\ warming \in BOOLEAN
  BY <1>3 DEF RecallInv, RestOK, Limits, Parts
<1> QED
  BY <1>2, <1>3, <1>6, <1>7, SettlesTheSame

LEMMA TimeOutStep ==
    ASSUME RecallInv, NEW c \in Clients, TimeOut(c)
    PROVE  RecallInv'
<1> DEFINE t == TenantOf[c]  left == Dropped(queues[t], c)
<1>1. PICK m : m = Without(c)
  OBVIOUS
<1>2. client[c].pc = "waiting" /\ ~closed /\ BecomesTo(Dispatch(m, warming))
  BY <1>1 DEF TimeOut, At
<1>3. /\ UNCHANGED <<pool, engines, retiring, closed, warming, scaler, keeper, janitor>>
      /\ UNCHANGED <<ready, target, shut, warmups, faults>>
  BY DEF TimeOut, repairs, bounds
<1>4. /\ m.available = available /\ m.active = active
      /\ m.queues = [queues EXCEPT ![t] = left]
      /\ m.order = (IF left = <<>> THEN Dropped(order, t) ELSE order)
      /\ m.pending = pending - 1 /\ m.client = [client EXCEPT ![c] = Idle]
  BY <1>1 DEF Without, Lanes
<1>5. Leaves(m, Lanes, c)
  BY <1>4, LanesFields DEF Leaves, Placed
<1>6. LaneOK(m, ~closed, Warmed) /\ SameOwners(m, Lanes)
  <2>1. Lanes.client[c].pc = "waiting"
    BY <1>2, LanesFields
  <2>2. LaneOK(Lanes, TRUE, Warmed) /\ Warmed \in Nat /\ (~closed) = TRUE
    BY <1>2, WarmedIsNat DEF RecallInv, LanesOK, RestOK, Parts
  <2> HIDE DEF t, left
  <2> QED
    BY <1>5, <2>1, <2>2, LeaveKeeps
<1>7. Limits' /\ warming \in BOOLEAN
  BY <1>3 DEF RecallInv, RestOK, Limits, Parts
<1> QED
  BY <1>2, <1>3, <1>6, <1>7, SettlesTheSame

LEMMA PlaceStep ==
    ASSUME RecallInv, NEW c \in Clients, NEW r \in Client,
           r.slot # NoSlot <=> r.pc \in {"running", "closing"},
           client[c].pc # "running", r.pc # "running",
           ~closed => client[c].pc # "waiting" /\ r.pc # "waiting",
           client' = [client EXCEPT ![c] = r],
           UNCHANGED <<available, queues, order, active, pending, closed>>,
           Warmed' = Warmed
    PROVE  /\ LanesOK' /\ Held(Lanes') = Held(Lanes)
           /\ ClosedBy(client') \subseteq ClosedBy(client) \cup ClosingOf(r)
           /\ Num(client', "closing") = Num(client, "closing")
                 + One(client', c, "closing") - One(client, c, "closing")
<1>1. LaneOK(Lanes, ~closed, Warmed) /\ Warmed \in Nat /\ (~closed) \in BOOLEAN
  BY WarmedIsNat DEF RecallInv, LanesOK
<1>2. SameLines(Lanes', Lanes)
  BY LanesFields DEF SameLines
<1>3. /\ Lanes.client = client /\ Lanes'.client = client'
      /\ Lanes'.available = Lanes.available /\ Lanes'.active = Lanes.active
  BY LanesFields
<1>4. Placed(Lanes'.client, Lanes.client, c, r)
  BY <1>3 DEF Placed
<1>5. /\ LaneOK(Lanes', ~closed, Warmed) /\ Held(Lanes') = Held(Lanes)
      /\ ClosedBy(Lanes'.client) \subseteq ClosedBy(Lanes.client) \cup ClosingOf(r)
      /\ Num(Lanes'.client, "closing") = Num(Lanes.client, "closing")
            + One(Lanes'.client, c, "closing") - One(Lanes.client, c, "closing")
  <2> DEFINE open == ~closed  k == Warmed  l == Lanes  m == Lanes'
  <2>1. LaneOK(l, open, k) /\ k \in Nat /\ open \in BOOLEAN
    BY <1>1
  <2>2. /\ l.client[c].pc # "running"
        /\ open => l.client[c].pc # "waiting" /\ r.pc # "waiting"
    BY <1>3
  <2>3. /\ SameLines(m, l) /\ m.available = l.available /\ m.active = l.active
        /\ Placed(m.client, l.client, c, r)
    BY <1>2, <1>3, <1>4
  <2> HIDE DEF open, k, l, m
  <2>4. /\ LaneOK(m, open, k) /\ Held(m) = Held(l)
        /\ ClosedBy(m.client) \subseteq ClosedBy(l.client) \cup ClosingOf(r)
        /\ Num(m.client, "closing") = Num(l.client, "closing")
              + One(m.client, c, "closing") - One(l.client, c, "closing")
    BY <2>1, <2>2, <2>3, PlaceChanges
  <2> QED
    BY <2>4 DEF open, k, l, m
<1>6. LanesOK'
  BY <1>5 DEF LanesOK
<1> QED
  BY <1>3, <1>5, <1>6

LEMMA SeesClosedStep ==
    ASSUME RecallInv, NEW c \in Clients, SeesClosed(c)
    PROVE  RecallInv'
<1>1. /\ client[c].pc = "waiting" /\ closed /\ client' = [client EXCEPT ![c] = Idle]
      /\ UNCHANGED <<available, queues, order, active, pending, closed>>
      /\ UNCHANGED <<pool, engines, retiring, warming, scaler, keeper, janitor>>
      /\ UNCHANGED <<ready, target, shut, warmups, faults>>
  BY DEF SeesClosed, At, repairs, bounds
<1>2. Warmed' = Warmed
  BY <1>1 DEF Warmed
<1>3. Idle.slot # NoSlot <=> Idle.pc \in {"running", "closing"}
  BY IdleIsClient
<1>4. /\ LanesOK' /\ Held(Lanes') = Held(Lanes)
      /\ ClosedBy(client') \subseteq ClosedBy(client) \cup ClosingOf(Idle)
      /\ Num(client', "closing") = Num(client, "closing")
            + One(client', c, "closing") - One(client, c, "closing")
  BY <1>1, <1>2, <1>3, IdleIsClient, PlaceStep
<1>5. ClosingOf(Idle) = {}
  BY IdleIsClient DEF ClosingOf
<1>6. Num(client', "closing") = Num(client, "closing")
  <2>1. client'[c] = Idle
    BY <1>1 DEF RecallInv, LanesOK, LaneOK, LaneTypes, Lanes
  <2>2. One(client', c, "closing") = 0 /\ One(client, c, "closing") = 0
    BY <1>1, <2>1, IdleIsClient DEF One
  <2>3. Num(client, "closing") \in Nat
    BY NumIsNat
  <2> QED
    BY <1>4, <2>2, <2>3
<1>7. Limits' /\ NoneIdle'
  BY <1>1 DEF RecallInv, RestOK, Limits, NoneIdle
<1>8. RestOK'
  <2>1. ClosedBy(client') \subseteq ClosedBy(client)
    BY <1>4, <1>5
  <2>2. RestOK /\ UNCHANGED <<pool, engines, retiring, closed, warming, scaler, keeper, janitor>>
    BY <1>1 DEF RecallInv
  <2> QED
    BY <1>4, <1>6, <1>7, <2>1, <2>2, OwnersStay
<1> QED
  BY <1>4, <1>8 DEF RecallInv

LEMMA ReopenStep ==
    ASSUME RecallInv, NEW c \in Clients, Reopen(c)
    PROVE  RecallInv'
<1>1. /\ client[c].pc = "reopening" /\ client' = [client EXCEPT ![c] = Idle]
      /\ shut' = (shut /\ ~(client[c].repair /\ ~closed /\ target > Cardinality(pool)))
      /\ UNCHANGED <<available, queues, order, active, pending, closed>>
      /\ UNCHANGED <<pool, engines, retiring, warming, scaler, keeper, janitor>>
      /\ UNCHANGED <<ready, target, warmups, faults>>
  BY DEF Reopen, At, bounds
<1>2. Warmed' = Warmed
  BY <1>1 DEF Warmed
<1>3. Idle.slot # NoSlot <=> Idle.pc \in {"running", "closing"}
  BY IdleIsClient
<1>4. /\ LanesOK' /\ Held(Lanes') = Held(Lanes)
      /\ ClosedBy(client') \subseteq ClosedBy(client) \cup ClosingOf(Idle)
      /\ Num(client', "closing") = Num(client, "closing")
            + One(client', c, "closing") - One(client, c, "closing")
  <2>1. client[c].pc # "running" /\ client[c].pc # "waiting"
        /\ Idle.pc # "running" /\ Idle.pc # "waiting"
    BY <1>1, IdleIsClient
  <2> QED
    BY <1>1, <1>2, <1>3, <2>1, IdleIsClient, PlaceStep
<1>5. ClosingOf(Idle) = {}
  BY IdleIsClient DEF ClosingOf
<1>6. Num(client', "closing") = Num(client, "closing")
  <2>1. client'[c] = Idle
    BY <1>1 DEF RecallInv, LanesOK, LaneOK, LaneTypes, Lanes
  <2>2. One(client', c, "closing") = 0 /\ One(client, c, "closing") = 0
    BY <1>1, <2>1, IdleIsClient DEF One
  <2>3. Num(client, "closing") \in Nat
    BY NumIsNat
  <2> QED
    BY <1>4, <2>2, <2>3
<1>7. Limits' /\ NoneIdle'
  <2>1. shut' \in BOOLEAN
    BY <1>1
  <2> QED
    BY <1>1, <2>1 DEF RecallInv, RestOK, Limits, NoneIdle
<1>8. RestOK'
  <2>1. ClosedBy(client') \subseteq ClosedBy(client)
    BY <1>4, <1>5
  <2>2. RestOK /\ UNCHANGED <<pool, engines, retiring, closed, warming, scaler, keeper, janitor>>
    BY <1>1 DEF RecallInv
  <2> QED
    BY <1>4, <1>6, <1>7, <2>1, <2>2, OwnersStay
<1> QED
  BY <1>4, <1>8 DEF RecallInv

(* An engine outside the pool is closed: one thread less is closing. *)
LEMMA EngineGoes ==
    ASSUME RestOK, NEW s \in Slots, s \notin pool, s # scaler.slot,
           engines' = engines \ {s}, retiring' = retiring - 1,
           UNCHANGED <<pool, closed, warming, scaler>>, Held(Lanes') = Held(Lanes),
           ClosedBy(client') \subseteq ClosedBy(client),
           janitor' \subseteq janitor, Retired' \subseteq Retired, Kept', keeper' \in Keeper,
           keeper'.pc = "warming" <=> keeper.pc = "warming", retiring > 0,
           retiring' = Num(client', "closing") + Cardinality(janitor') + Cardinality(Retired'),
           Limits', NoneIdle'
    PROVE  RestOK'
<1>1. /\ pool \in SUBSET Slots /\ engines \in SUBSET Slots /\ janitor \in SUBSET Slots
      /\ IsFiniteSet(pool) /\ IsFiniteSet(janitor) /\ retiring \in Nat
      /\ closed \in BOOLEAN /\ warming \in BOOLEAN /\ scaler \in Scaler
  BY DEF RestOK, Parts
<1>2. Parts'
  <2>1. IsFiniteSet(janitor') /\ retiring' \in Nat
    BY <1>1, FS_Subset
  <2> QED
    BY <1>1, <2>1 DEF Parts
<1>3. Owned'
  <2>1. pool \cap engines' = pool \cap engines
    OBVIOUS
  <2> QED
    BY <2>1 DEF RestOK, Owned
<1>4. Outside'
  BY DEF RestOK, Outside
<1>5. Scaled'
  BY DEF RestOK, Scaled, Scaling
<1>6. Retiring'
  BY DEF RestOK, Retiring
<1> QED
  BY <1>2, <1>3, <1>4, <1>5, <1>6 DEF RestOK

LEMMA CloseSlotStep ==
    ASSUME RecallInv, NEW c \in Clients, CloseSlot(c)
    PROVE  RecallInv'
<1> DEFINE s == client[c].slot  r == [client[c] EXCEPT !.pc = "reopening", !.slot = NoSlot]
<1>1. /\ client[c].pc = "closing" /\ engines' = engines \ {s} /\ retiring' = retiring - 1
      /\ client' = [client EXCEPT ![c].pc = "reopening", ![c].slot = NoSlot]
      /\ UNCHANGED <<available, queues, order, active, pending, closed>>
      /\ UNCHANGED <<pool, warming, scaler, keeper, janitor>>
      /\ UNCHANGED <<ready, target, shut, warmups, faults>>
  BY DEF CloseSlot, At, repairs, bounds
<1>2. /\ client \in [Clients -> Client] /\ Roles(client) /\ RestOK
  BY LanesFields DEF RecallInv, LanesOK, LaneOK, LaneTypes
<1>3. s \in Slots /\ s # NoSlot /\ s \in ClosedBy(client)
  <2>1. s # NoSlot /\ client[c] \in Client
    BY <1>1, <1>2 DEF Roles
  <2>2. s \in ClosedBy(client)
    BY <1>1 DEF ClosedBy
  <2> QED
    BY <2>1, <2>2 DEF Client
<1>4. client' = [client EXCEPT ![c] = r] /\ r \in Client
      /\ r.pc = "reopening" /\ r.slot = NoSlot
  <2>1. client[c] \in Client
    BY <1>2
  <2> QED
    BY <1>1, <1>2, <2>1 DEF Client
<1> HIDE DEF s, r
<1>5. Warmed' = Warmed
  BY <1>1 DEF Warmed
<1>6. /\ LanesOK' /\ Held(Lanes') = Held(Lanes)
      /\ ClosedBy(client') \subseteq ClosedBy(client) \cup ClosingOf(r)
      /\ Num(client', "closing") = Num(client, "closing")
            + One(client', c, "closing") - One(client, c, "closing")
  <2>1. /\ client[c].pc # "running" /\ client[c].pc # "waiting"
        /\ r.pc # "running" /\ r.pc # "waiting"
        /\ (r.slot # NoSlot <=> r.pc \in {"running", "closing"})
    BY <1>1, <1>4
  <2>2. UNCHANGED <<available, queues, order, active, pending, closed>>
    BY <1>1
  <2> QED
    BY <1>4, <1>5, <2>1, <2>2, PlaceStep
<1>7. ClosedBy(client') \subseteq ClosedBy(client)
  BY <1>4, <1>6 DEF ClosingOf
<1>8. Num(client', "closing") = Num(client, "closing") - 1 /\ Num(client, "closing") \in Nat
      /\ Num(client', "closing") \in Nat
  <2>1. client'[c] = r
    BY <1>2, <1>4
  <2>2. One(client', c, "closing") = 0 /\ One(client, c, "closing") = 1
    BY <1>1, <1>4, <2>1 DEF One
  <2>3. Num(client, "closing") \in Nat /\ Num(client', "closing") \in Nat
    BY NumIsNat
  <2> QED
    BY <1>6, <2>2, <2>3
<1>9. s \notin pool /\ s # scaler.slot
  BY <1>2, <1>3 DEF RestOK, Outside
<1>10. Limits' /\ NoneIdle'
  BY <1>1 DEF RecallInv, RestOK, Limits, NoneIdle
<1>11. Retired' = Retired
  BY <1>1 DEF Retired
<1>12. Kept'
  <2>1. pool \cap engines' = pool \cap engines
    BY <1>1, <1>9
  <2>2. \A T : (pool \ T) \cap engines' = (pool \ T) \cap engines
    BY <2>1
  <2> QED
    BY <1>1, <1>2, <2>2 DEF RestOK, Kept, Scaling
<1>13. /\ retiring > 0
       /\ retiring' = Num(client', "closing") + Cardinality(janitor') + Cardinality(Retired')
  <2>1. Cardinality(janitor) \in Nat /\ IsFiniteSet(Retired)
    BY <1>2, FS_CardinalityType, FS_EmptySet DEF RestOK, Parts, Kept, Retired
  <2>2. Cardinality(Retired) \in Nat
    BY <2>1, FS_CardinalityType
  <2>3. retiring = Num(client, "closing") + Cardinality(janitor) + Cardinality(Retired)
    BY <1>2 DEF RestOK, Retiring
  <2> QED
    BY <1>1, <1>8, <1>11, <2>1, <2>2, <2>3
<1>14. RestOK'
  <2>1. keeper' \in Keeper /\ (keeper'.pc = "warming" <=> keeper.pc = "warming")
    BY <1>1, <1>2 DEF RestOK, Parts
  <2>2. /\ engines' = engines \ {s} /\ retiring' = retiring - 1
        /\ UNCHANGED <<pool, closed, warming, scaler>>
        /\ janitor' \subseteq janitor /\ Retired' \subseteq Retired
    BY <1>1, <1>11
  <2> QED
    BY <1>2, <1>3, <1>6, <1>7, <1>9, <1>10, <1>12, <1>13, <2>1, <2>2, EngineGoes
<1> QED
  BY <1>6, <1>14 DEF RecallInv

(* The request is over: the engine is idle again, or is closed. *)
LEMMA Returns ==
    ASSUME RecallInv, NEW c \in Clients, client[c].pc = "running",
           NEW retired \in BOOLEAN, NEW repair \in BOOLEAN,
           NEW m, m = Returned(c, retired, repair)
    PROVE  /\ LaneOK(m, ~closed, Warmed)
           /\ client[c].slot \in pool \cap engines /\ keeper.pc # "warming"
           /\ ~retired => SameOwners(m, Lanes)
           /\ retired => OneRetires(m, Lanes, client[c].slot)
<1> DEFINE s == client[c].slot  open == ~closed  k == Warmed
           r == IF retired THEN [pc |-> "closing", slot |-> s, repair |-> repair] ELSE Idle
<1>1. LaneOK(Lanes, open, k) /\ RestOK /\ k \in Nat /\ open \in BOOLEAN
  BY WarmedIsNat DEF RecallInv, LanesOK
<1>2. client \in [Clients -> Client] /\ Roles(client)
  BY LanesFields DEF RecallInv, LanesOK, LaneOK, LaneTypes
<1>3. s \in Slots
  <2>1. s # NoSlot /\ client[c] \in Client
    BY <1>2 DEF Roles
  <2> QED
    BY <2>1 DEF Client
<1>4. /\ r \in Client /\ (r = Idle \/ (r.pc = "closing" /\ r.slot = s))
      /\ (retired <=> r.pc = "closing") /\ (~retired => r = Idle)
  BY <1>3, IdleIsClient DEF Client
<1>5. /\ m.available = (IF retired THEN available ELSE Append(available, s))
      /\ m.queues = queues /\ m.order = order /\ m.active = active - 1
      /\ m.pending = pending /\ m.client = [client EXCEPT ![c] = r]
  BY DEF Returned, Lanes
<1> HIDE DEF r, open, k, s
<1>6. Ends(m, Lanes, c, r)
  <2>1. SameLines(m, Lanes) /\ Placed(m.client, Lanes.client, c, r)
    BY <1>5, LanesFields DEF SameLines, Placed
  <2> QED
    BY <1>4, <1>5, <2>1, LanesFields DEF Ends, s
<1>7. /\ LaneOK(m, open, k) /\ s \in Held(Lanes)
      /\ r = Idle => SameOwners(m, Lanes)
      /\ r.pc = "closing" => OneRetires(m, Lanes, s)
  <2> DEFINE l == Lanes
  <2>1. l.client[c].pc = "running" /\ s = l.client[c].slot
    BY LanesFields DEF s
  <2>2. LaneOK(l, open, k) /\ Ends(m, l, c, r)
    BY <1>1, <1>6
  <2> HIDE DEF l
  <2>3. /\ LaneOK(m, open, k) /\ s \in Held(l)
        /\ r = Idle => SameOwners(m, l)
        /\ r.pc = "closing" => OneRetires(m, l, s)
    <3>1. k \in Nat /\ open \in BOOLEAN /\ r \in Client
      BY <1>1, <1>4
    <3>2. r = Idle \/ (r.pc = "closing" /\ r.slot = s)
      BY <1>4
    <3> QED
      BY <2>1, <2>2, <3>1, <3>2, EndKeeps
  <2> QED
    BY <2>3 DEF l
<1>8. s \in pool \cap engines /\ keeper.pc # "warming"
  BY <1>1, <1>7 DEF RestOK, Owned
<1> QED
  BY <1>4, <1>7, <1>8 DEF s, open, k

(* A smaller pool is still within max_size. *)
LEMMA SmallerFits ==
    ASSUME RestOK, NEW p, p \subseteq pool \cup ({scaler.slot} \cap Slots)
    PROVE  IsFiniteSet(p) /\ Cardinality(p) <= MaxSize
<1> DEFINE u == pool \cup ({scaler.slot} \cap Slots)
<1>1. IsFiniteSet(pool) /\ IsFiniteSet({scaler.slot} \cap Slots)
  <2>1. IsFiniteSet({scaler.slot})
    BY FS_Singleton
  <2> QED
    BY <2>1, FS_Subset DEF RestOK, Parts
<1>2. IsFiniteSet(u)
  BY <1>1, FS_Union
<1>3. Cardinality(u) <= MaxSize
  BY DEF RestOK, Scaled
<1>4. p \in SUBSET u
  OBVIOUS
<1> HIDE DEF u
<1>5. IsFiniteSet(p) /\ Cardinality(p) <= Cardinality(u)
  BY <1>2, <1>4, FS_Subset
<1>6. Cardinality(p) \in Nat /\ Cardinality(u) \in Nat
  BY <1>2, <1>5, FS_CardinalityType
<1> QED
  BY <1>3, <1>5, <1>6, RecallPoolAssumption

(* An engine leaves the pool and is being closed. *)
LEMMA EngineLeaves ==
    ASSUME RestOK, NEW s \in pool \cap engines, OneRetires(Lanes', Lanes, s),
           pool' = pool \ {s}, retiring' = retiring + 1, keeper.pc # "warming",
           UNCHANGED <<engines, closed, warming, scaler, keeper, janitor>>,
           Limits', NoneIdle'
    PROVE  RestOK'
<1>1. /\ pool \in SUBSET Slots /\ engines \in SUBSET Slots /\ janitor \in SUBSET Slots
      /\ IsFiniteSet(pool) /\ IsFiniteSet(janitor) /\ retiring \in Nat
      /\ closed \in BOOLEAN /\ warming \in BOOLEAN /\ scaler \in Scaler /\ keeper \in Keeper
  BY DEF RestOK, Parts
<1>2. /\ Held(Lanes') = Held(Lanes) \ {s} /\ ClosedBy(client') = ClosedBy(client) \cup {s}
      /\ Num(client', "closing") = Num(client, "closing") + 1
  BY LanesFields DEF OneRetires
<1>3. Parts'
  BY <1>1, FS_RemoveElement DEF Parts
<1>4. Owned'
  BY <1>2 DEF RestOK, Owned
<1>5. Retired' = Retired /\ Scaling' = Scaling
  BY DEF Retired, Scaling
<1>6. Outside'
  BY <1>2, <1>5 DEF RestOK, Outside
<1>7. Scaled'
  <2>1. Cardinality(pool' \cup ({scaler.slot} \cap Slots)) <= MaxSize
    <3>1. pool' \cup ({scaler.slot} \cap Slots) \subseteq pool \cup ({scaler.slot} \cap Slots)
      OBVIOUS
    <3> QED
      BY <3>1, SmallerFits
  <2> QED
    BY <1>5, <2>1 DEF RestOK, Scaled
<1>8. Kept'
  BY <1>5 DEF RestOK, Kept
<1>9. Retiring'
  <2>1. Num(client, "closing") \in Nat /\ Num(client', "closing") \in Nat
    BY NumIsNat
  <2>2. Cardinality(janitor) \in Nat
    BY <1>1, FS_CardinalityType
  <2>3. IsFiniteSet(Retired)
    BY FS_EmptySet DEF RestOK, Kept, Retired
  <2>4. Cardinality(Retired) \in Nat
    BY <2>3, FS_CardinalityType
  <2>5. retiring = Num(client, "closing") + Cardinality(janitor) + Cardinality(Retired)
        /\ (~closed => janitor = {})
    BY DEF RestOK, Retiring
  <2>6. retiring' = Num(client', "closing") + Cardinality(janitor) + Cardinality(Retired)
    BY <1>2, <2>1, <2>2, <2>4, <2>5
  <2> QED
    BY <1>5, <2>5, <2>6 DEF Retiring
<1> QED
  BY <1>3, <1>4, <1>6, <1>7, <1>8, <1>9 DEF RestOK

LEMMA ReturnStep ==
    ASSUME RecallInv, NEW c \in Clients, Return(c)
    PROVE  RecallInv'
<1> DEFINE s == client[c].slot
<1>1. PICK m : m = Returned(c, closed, FALSE)
  OBVIOUS
<1>2. /\ client[c].pc = "running" /\ BecomesTo(Dispatch(m, warming \/ closed))
      /\ pool' = (IF closed THEN pool \ {s} ELSE pool)
      /\ retiring' = (IF closed THEN retiring + 1 ELSE retiring)
      /\ UNCHANGED <<engines, closed, warming, scaler, keeper, janitor>>
      /\ UNCHANGED <<ready, target, shut, warmups, faults>>
  BY <1>1 DEF Return, At, repairs, bounds
<1>3. closed \in BOOLEAN /\ warming \in BOOLEAN /\ RestOK
  BY DEF RecallInv, RestOK, Parts
<1>4. /\ LaneOK(m, ~closed, Warmed) /\ s \in pool \cap engines /\ keeper.pc # "warming"
      /\ ~closed => SameOwners(m, Lanes)
      /\ closed => OneRetires(m, Lanes, s)
  BY <1>1, <1>2, <1>3, Returns
<1>5. Limits'
  BY <1>2 DEF RecallInv, RestOK, Limits
<1> HIDE DEF s
<1>6. CASE ~closed
  <2>1. BecomesTo(Dispatch(m, warming))
    <3>1. (warming \/ closed) = warming
      BY <1>3, <1>6
    <3> QED
      BY <1>2, <3>1
  <2>2. UNCHANGED <<pool, engines, retiring, closed, warming, scaler, keeper, janitor>>
    BY <1>2, <1>6
  <2> QED
    BY <1>3, <1>4, <1>5, <1>6, <2>1, <2>2, SettlesTheSame
<1>7. CASE closed
  <2>1. BecomesTo(Dispatch(m, TRUE))
    <3>1. (warming \/ closed) = TRUE
      BY <1>7
    <3> QED
      BY <1>2, <3>1
  <2>2. Warmed \in Nat /\ (~closed) \in BOOLEAN
    BY <1>3, WarmedIsNat
  <2>3. LaneOK(Lanes', ~closed, Warmed) /\ SameOwners(Lanes', m)
    <3> DEFINE open == ~closed  k == Warmed
    <3>1. LaneOK(m, open, k) /\ open \in BOOLEAN /\ k \in Nat
      BY <1>4, <2>2
    <3> HIDE DEF open, k
    <3>2. LaneOK(Lanes', open, k) /\ SameOwners(Lanes', m)
      BY <2>1, <3>1, Settles
    <3> QED
      BY <3>2 DEF open, k
  <2>4. OneRetires(Lanes', Lanes, s)
    BY <1>4, <1>7, <2>3 DEF OneRetires, SameOwners
  <2>5. LanesOK'
    BY <1>2, <2>3 DEF LanesOK, Warmed
  <2>6. NoneIdle'
    BY <1>2, <1>7 DEF NoneIdle
  <2>7. pool' = pool \ {s} /\ retiring' = retiring + 1
    BY <1>2, <1>7
  <2>8. RestOK'
    BY <1>2, <1>3, <1>4, <1>5, <2>4, <2>6, <2>7, EngineLeaves
  <2> QED
    BY <2>5, <2>8 DEF RecallInv
<1> QED
  BY <1>6, <1>7

LEMMA ReturnBrokenStep ==
    ASSUME RecallInv, NEW c \in Clients, NEW demand \in MinSize..MaxSize,
           ReturnBroken(c, demand)
    PROVE  RecallInv'
<1> DEFINE s == client[c].slot  left == pool \ {s}  short == Cardinality(left) < demand
<1>1. PICK m : m = Returned(c, TRUE, short)
  OBVIOUS
<1>2. /\ client[c].pc = "running" /\ ~closed /\ BecomesTo(Dispatch(m, warming))
      /\ pool' = left /\ retiring' = retiring + 1
      /\ target' = (IF short THEN Max({target, demand}) ELSE target)
      /\ shut' = (shut \/ short) /\ ready' = Resident(left, engines)
      /\ faults < MaxFaults /\ faults' = faults + 1
      /\ UNCHANGED <<engines, closed, warming, scaler, keeper, janitor, warmups>>
  BY <1>1 DEF ReturnBroken, At, Fault
<1>3. closed \in BOOLEAN /\ warming \in BOOLEAN /\ RestOK /\ short \in BOOLEAN
  BY DEF RecallInv, RestOK, Parts
<1>4. /\ LaneOK(m, ~closed, Warmed) /\ s \in pool \cap engines /\ keeper.pc # "warming"
      /\ OneRetires(m, Lanes, s)
  BY <1>1, <1>2, <1>3, Returns
<1>5. Limits'
  <2>1. target \in {0} \cup MinSize..MaxSize /\ shut \in BOOLEAN
        /\ warmups \in 0..MaxWarmups /\ faults \in 0..MaxFaults
    BY <1>3 DEF RestOK, Limits
  <2>2. Max({target, demand}) \in MinSize..MaxSize
    <3>1. PICK x \in {target, demand} : \A y \in {target, demand} : x >= y
      <4>1. target >= demand \/ demand >= target
        BY <2>1, RecallPoolAssumption
      <4>2. target >= target /\ demand >= demand
        BY <2>1, RecallPoolAssumption
      <4> QED
        BY <4>1, <4>2
    <3>2. Max({target, demand}) = (CHOOSE z \in {target, demand} : \A y \in {target, demand} : z >= y)
      BY DEF Max
    <3>3. /\ Max({target, demand}) \in {target, demand}
          /\ \A y \in {target, demand} : Max({target, demand}) >= y
      BY <3>1, <3>2
    <3> QED
      BY <2>1, <3>3, RecallPoolAssumption
  <2>3. target' \in {0} \cup MinSize..MaxSize
    BY <1>2, <2>1, <2>2
  <2>4. shut' \in BOOLEAN /\ ready' \in BOOLEAN
    BY <1>2, <2>1 DEF Resident
  <2>5. faults' \in 0..MaxFaults /\ warmups' \in 0..MaxWarmups
    BY <1>2, <2>1, RecallPoolAssumption
  <2> QED
    BY <2>3, <2>4, <2>5 DEF Limits
<1> HIDE DEF s, left, short
<1>6. Warmed \in Nat /\ (~closed) = TRUE
  BY <1>2, <1>3, WarmedIsNat
<1>7. /\ LaneOK(Lanes', TRUE, Warmed) /\ SameOwners(Lanes', m)
      /\ ~warming => available' = <<>> \/ order' = <<>>
  <2> DEFINE k == Warmed
  <2>1. LaneOK(m, TRUE, k) /\ k \in Nat
    BY <1>4, <1>6
  <2> HIDE DEF k
  <2>2. /\ LaneOK(Lanes', TRUE, k) /\ SameOwners(Lanes', m)
        /\ ~warming => available' = <<>> \/ order' = <<>>
    BY <1>2, <1>3, <2>1, Settles
  <2> QED
    BY <2>2 DEF k
<1>8. OneRetires(Lanes', Lanes, s)
  BY <1>4, <1>7 DEF OneRetires, SameOwners
<1>9. LanesOK'
  BY <1>2, <1>6, <1>7 DEF LanesOK, Warmed
<1>10. NoneIdle'
  BY <1>2, <1>7 DEF NoneIdle
<1>11. RestOK'
  <2>1. pool' = pool \ {s}
    BY <1>2 DEF left
  <2> QED
    BY <1>2, <1>3, <1>4, <1>5, <1>8, <1>10, <2>1, EngineLeaves
<1> QED
  BY <1>9, <1>11 DEF RecallInv

-----------------------------------------------------------------------------
(* Repair and scaling *)

(* The scaler goes on with its engine, or is done with it. *)
LEMMA ScalerGoesOn ==
    ASSUME RecallInv, UNCHANGED <<queueing, pool, retiring, closed, warming, keeper, janitor>>,
           Limits', scaler' \in Scaler, engines' \in SUBSET Slots,
           engines' \ {scaler.slot} = engines \ {scaler.slot}, Scaling,
           (scaler'.slot = scaler.slot /\ Scaling') \/ scaler' = Idle,
           scaler'.pc \in {"built", "publishing"} => scaler'.slot \in engines'
    PROVE  RecallInv'
<1>1. RestOK /\ Lanes' = Lanes /\ client' = client
  BY DEF RecallInv, queueing, Lanes
<1>2. Retired' = Retired /\ Warmed' = Warmed
  BY DEF Retired, Warmed
<1>3. LanesOK'
  BY <1>2, LanesStay DEF RecallInv
<1>4. pool \cap engines' = pool \cap engines /\ keeper.pc # "warming"
  BY <1>1 DEF RestOK, Outside, Kept
<1>5. Parts'
  BY <1>1 DEF RestOK, Parts
<1>6. Owned'
  BY <1>1, <1>4 DEF RestOK, Owned
<1>7. NoSlot \notin pool \cup ClosedBy(client) \cup janitor \cup Retired
  <2>1. pool \in SUBSET Slots /\ janitor \in SUBSET Slots /\ Retired \in SUBSET Slots
    BY <1>1 DEF RestOK, Parts, Retired, Keeper
  <2>2. NoSlot \notin ClosedBy(client)
    BY LanesFields DEF RecallInv, LanesOK, LaneOK, Roles, ClosedBy
  <2> QED
    BY <2>1, <2>2, RecallPoolAssumption
<1>8. scaler'.slot = scaler.slot \/ scaler'.slot = NoSlot
  BY IdleIsClient
<1>9. Outside'
  BY <1>1, <1>2, <1>7, <1>8 DEF RestOK, Outside
<1>10. Scaled'
  <2>1. scaler'.slot # NoSlot <=> Scaling'
    BY <1>1, IdleIsClient DEF RestOK, Scaled, Scaling
  <2>2. Cardinality(pool \cup ({scaler'.slot} \cap Slots)) <= MaxSize
    <3>1. pool \cup ({scaler'.slot} \cap Slots) \subseteq pool \cup ({scaler.slot} \cap Slots)
      BY <1>8, RecallPoolAssumption
    <3> QED
      BY <1>1, <3>1, SmallerFits
  <2> QED
    BY <2>1, <2>2 DEF Scaled
<1>11. Kept'
  BY <1>1, <1>4 DEF RestOK, Kept
<1>12. Retiring' /\ NoneIdle'
  BY <1>1, <1>2 DEF RestOK, Retiring, NoneIdle, queueing
<1>13. RestOK'
  BY <1>5, <1>6, <1>9, <1>10, <1>11, <1>12 DEF RestOK
<1> QED
  BY <1>3, <1>13 DEF RecallInv

LEMMA ScalerTyped ==
    ASSUME RecallInv, NEW pc \in {"building", "broken", "built", "publishing", "failed"},
           scaler' = [scaler EXCEPT !.pc = pc]
    PROVE  scaler' \in Scaler /\ scaler'.pc = pc /\ scaler'.slot = scaler.slot /\ Scaling'
<1>1. scaler \in Scaler
  BY DEF RecallInv, RestOK, Parts
<1> QED
  BY <1>1 DEF Scaler, Scaling

LEMMA ScaleStepKeeps ==
    ASSUME RecallInv,
           Admit \/ Reject \/ Build \/ BuildFails \/ Look \/ ScaleUpFails \/ ScaleDown
    PROVE  RecallInv'
<1>1. /\ ready \in BOOLEAN /\ target \in {0} \cup MinSize..MaxSize /\ shut \in BOOLEAN
      /\ warmups \in 0..MaxWarmups /\ faults \in 0..MaxFaults
      /\ engines \in SUBSET Slots /\ scaler \in Scaler
  BY DEF RecallInv, RestOK, Limits, Parts
<1>2. Fault => faults' \in 0..MaxFaults
  BY <1>1, RecallPoolAssumption DEF Fault
<1>3. Scaling => scaler.slot \in Slots
  BY <1>1 DEF RecallInv, RestOK, Scaled, Scaler
<1>4. CASE Admit
  <2>1. /\ scaler.pc = "admitting" /\ scaler' = [scaler EXCEPT !.pc = "building"]
        /\ UNCHANGED <<queueing, pool, retiring, closed, warming, keeper, janitor>>
        /\ UNCHANGED <<ready, target, shut, warmups, faults, engines>>
    BY <1>4 DEF Admit, ScalerGoes, repairs
  <2>2. scaler' \in Scaler /\ scaler'.pc = "building" /\ scaler'.slot = scaler.slot /\ Scaling'
    BY <2>1, ScalerTyped
  <2>3. Limits' /\ Scaling
    BY <1>1, <2>1 DEF Limits, Scaling
  <2> QED
    BY <1>1, <2>1, <2>2, <2>3, ScalerGoesOn
<1>5. CASE Reject
  <2>1. /\ scaler.pc = "admitting" /\ scaler' = [scaler EXCEPT !.pc = "broken"]
        /\ UNCHANGED <<queueing, pool, retiring, closed, warming, keeper, janitor>>
        /\ UNCHANGED <<ready, target, shut, warmups, engines>>
        /\ faults' = faults \/ Fault
    BY <1>5 DEF Reject, ScalerGoes, repairs
  <2>2. scaler' \in Scaler /\ scaler'.pc = "broken" /\ scaler'.slot = scaler.slot /\ Scaling'
    BY <2>1, ScalerTyped
  <2>3. Limits' /\ Scaling
    BY <1>1, <1>2, <2>1 DEF Limits, Scaling
  <2> QED
    BY <1>1, <2>1, <2>2, <2>3, ScalerGoesOn
<1>6. CASE Build
  <2>1. /\ scaler.pc = "building" /\ scaler' = [scaler EXCEPT !.pc = "built"]
        /\ UNCHANGED <<queueing, pool, retiring, closed, warming, keeper, janitor>>
        /\ UNCHANGED <<ready, target, shut, warmups, faults>>
        /\ engines' = engines \cup {scaler.slot}
    BY <1>6 DEF Build, ScalerGoes, repairs
  <2>2. scaler' \in Scaler /\ scaler'.pc = "built" /\ scaler'.slot = scaler.slot /\ Scaling'
    BY <2>1, ScalerTyped
  <2>3. Limits' /\ Scaling
    BY <1>1, <2>1 DEF Limits, Scaling
  <2>4. engines' \in SUBSET Slots /\ engines' \ {scaler.slot} = engines \ {scaler.slot}
        /\ scaler'.slot \in engines'
    BY <1>1, <1>3, <2>1, <2>2, <2>3
  <2> QED
    BY <2>1, <2>2, <2>3, <2>4, ScalerGoesOn
<1>7. CASE BuildFails
  <2>1. /\ scaler.pc = "building" /\ scaler' = [scaler EXCEPT !.pc = "broken"]
        /\ UNCHANGED <<queueing, pool, retiring, closed, warming, keeper, janitor>>
        /\ UNCHANGED <<ready, target, shut, warmups>> /\ Fault
        /\ engines' \in {engines, engines \cup {scaler.slot}}
    BY <1>7 DEF BuildFails, ScalerGoes, repairs
  <2>2. scaler' \in Scaler /\ scaler'.pc = "broken" /\ scaler'.slot = scaler.slot /\ Scaling'
    BY <2>1, ScalerTyped
  <2>3. Limits' /\ Scaling
    BY <1>1, <1>2, <2>1 DEF Limits, Scaling
  <2>4. engines' \in SUBSET Slots /\ engines' \ {scaler.slot} = engines \ {scaler.slot}
    BY <1>1, <1>3, <2>1, <2>3
  <2> QED
    BY <2>1, <2>2, <2>3, <2>4, ScalerGoesOn
<1>8. CASE Look
  <2>1. /\ scaler.pc \in {"built", "broken"}
        /\ \/ scaler' = [scaler EXCEPT !.pc = "failed"] /\ engines' = engines \ {scaler.slot}
           \/ /\ scaler.pc = "built" /\ scaler' = [scaler EXCEPT !.pc = "publishing"]
              /\ engines' = engines
        /\ UNCHANGED <<queueing, pool, retiring, closed, warming, keeper, janitor>>
        /\ UNCHANGED <<ready, target, shut, warmups, faults>>
    BY <1>8 DEF Look, ScalerGoes, repairs
  <2>2. Limits' /\ Scaling
    BY <1>1, <2>1 DEF Limits, Scaling
  <2>3. CASE scaler' = [scaler EXCEPT !.pc = "failed"] /\ engines' = engines \ {scaler.slot}
    <3>1. scaler' \in Scaler /\ scaler'.pc = "failed" /\ scaler'.slot = scaler.slot /\ Scaling'
      BY <2>3, ScalerTyped
    <3>2. engines' \in SUBSET Slots /\ engines' \ {scaler.slot} = engines \ {scaler.slot}
      BY <1>1, <2>3
    <3> QED
      BY <2>1, <2>2, <3>1, <3>2, ScalerGoesOn
  <2>4. CASE /\ scaler.pc = "built" /\ scaler' = [scaler EXCEPT !.pc = "publishing"]
             /\ engines' = engines
    <3>1. /\ scaler' \in Scaler /\ scaler'.pc = "publishing" /\ scaler'.slot = scaler.slot
          /\ Scaling'
      BY <2>4, ScalerTyped
    <3>2. scaler'.slot \in engines'
      BY <2>4, <3>1 DEF RecallInv, RestOK, Scaled
    <3> QED
      BY <1>1, <2>1, <2>2, <2>4, <3>1, <3>2, ScalerGoesOn
  <2> QED
    BY <2>1, <2>3, <2>4
<1>9. CASE ScaleUpFails
  <2>1. /\ scaler.pc = "failed" /\ scaler' = Idle /\ shut' = (shut /\ ~scaler.repair)
        /\ UNCHANGED <<queueing, pool, retiring, closed, warming, keeper, janitor>>
        /\ UNCHANGED <<ready, target, warmups, faults, engines>>
    BY <1>9 DEF ScaleUpFails, bounds
  <2>2. scaler' \in Scaler /\ scaler'.pc = "idle"
    BY <2>1 DEF Idle, Scaler
  <2>3. Limits' /\ Scaling
    BY <1>1, <2>1 DEF Limits, Scaling
  <2> QED
    BY <1>1, <2>1, <2>2, <2>3, ScalerGoesOn
<1>10. CASE ScaleDown
  <2>1. /\ scaler.pc = "closing" /\ scaler' = Idle /\ engines' = engines \ {scaler.slot}
        /\ UNCHANGED <<queueing, pool, retiring, closed, warming, keeper, janitor>>
        /\ UNCHANGED <<ready, target, shut, warmups, faults>>
    BY <1>10 DEF ScaleDown, bounds, repairs
  <2>2. scaler' \in Scaler /\ scaler'.pc = "idle"
    BY <2>1 DEF Idle, Scaler
  <2>3. Limits' /\ Scaling
    BY <1>1, <2>1 DEF Limits, Scaling
  <2>4. engines' \in SUBSET Slots /\ engines' \ {scaler.slot} = engines \ {scaler.slot}
    BY <1>1, <2>1
  <2> QED
    BY <2>1, <2>2, <2>3, <2>4, ScalerGoesOn
<1> QED
  BY <1>4, <1>5, <1>6, <1>7, <1>8, <1>9, <1>10

(* A new engine is planned where the pool has room for it. *)
LEMMA StartsStep ==
    ASSUME RecallInv, NEW s \in Slots, NEW repair \in BOOLEAN, MayPlan, Starts(s, repair),
           Cardinality(pool) < MaxSize
    PROVE  RecallInv'
<1>1. /\ ~closed /\ ~warming /\ ~Scaling /\ Free(s)
      /\ scaler' = [pc |-> "admitting", slot |-> s, repair |-> repair]
      /\ UNCHANGED <<queueing, pool, engines, retiring, closed, warming, keeper, janitor>>
      /\ UNCHANGED <<ready, target, shut, warmups, faults>>
  BY DEF MayPlan, Starts, repairs, bounds
<1>2. RestOK /\ Lanes' = Lanes /\ client' = client
  BY <1>1 DEF RecallInv, queueing, Lanes
<1>3. Retired' = Retired /\ Warmed' = Warmed
  BY <1>1 DEF Retired, Warmed
<1>4. LanesOK'
  BY <1>1, <1>3, LanesStay DEF RecallInv
<1>5. /\ scaler' \in Scaler /\ scaler'.pc = "admitting" /\ scaler'.slot = s /\ s # NoSlot
      /\ Scaling'
  BY <1>1, RecallPoolAssumption DEF Scaler, Scaling
<1>6. Parts' /\ Limits'
  BY <1>1, <1>2, <1>5 DEF RestOK, Parts, Limits
<1>7. Owned'
  BY <1>1, <1>2 DEF RestOK, Owned
<1>8. keeper.pc = "idle" /\ Retired = {}
  BY <1>1, <1>2 DEF RestOK, Kept, Retired, Parts, Keeper
<1>9. Outside'
  <2>1. s \notin pool \cup janitor /\ s \notin ClosedBy(client)
    BY <1>1 DEF Free, ClosedBy
  <2> QED
    BY <1>1, <1>2, <1>3, <1>5, <1>8, <2>1 DEF RestOK, Outside
<1>10. Scaled'
  <2>1. IsFiniteSet(pool) /\ Cardinality(pool) \in Nat
    BY <1>2, FS_CardinalityType DEF RestOK, Parts
  <2>2. {s} \cap Slots = {s}
    OBVIOUS
  <2>3. Cardinality(pool \cup {s}) <= MaxSize
    BY <2>1, FS_AddElement, RecallPoolAssumption
  <2> QED
    BY <1>1, <1>5, <2>2, <2>3 DEF Scaled
<1>11. Kept'
  BY <1>1, <1>2, <1>8 DEF RestOK, Kept
<1>12. Retiring' /\ NoneIdle'
  BY <1>1, <1>2, <1>3 DEF RestOK, Retiring, NoneIdle, queueing
<1>13. RestOK'
  BY <1>6, <1>7, <1>9, <1>10, <1>11, <1>12 DEF RestOK
<1> QED
  BY <1>4, <1>13 DEF RecallInv

LEMMA PlanDownStep ==
    ASSUME RecallInv, NEW s \in Slots, PlanDown(s)
    PROVE  RecallInv'
<1>1. /\ ~closed /\ ~warming /\ ~Scaling /\ s \in ToSet(available)
      /\ available' = Dropped(available, s) /\ pool' = pool \ {s}
      /\ scaler' = [pc |-> "closing", slot |-> s, repair |-> FALSE]
      /\ UNCHANGED <<engines, queues, order, active, pending, client, retiring, closed,
                     warming, keeper, janitor>>
      /\ UNCHANGED <<ready, target, shut, warmups, faults>>
  BY DEF PlanDown, MayPlan, repairs, bounds
<1> DEFINE k == Warmed  open == ~closed  l == Lanes  m == Lanes'
<1>2. LaneOK(l, open, k) /\ RestOK /\ k \in Nat /\ open \in BOOLEAN
  BY WarmedIsNat DEF RecallInv, LanesOK
<1>3. /\ l.available = available /\ l.client = client /\ l.active = active
      /\ m.available = available' /\ m.client = client' /\ m.active = active'
  BY LanesFields
<1>4. SameLines(m, l)
  BY <1>1, LanesFields DEF SameLines
<1> HIDE DEF k, open, l, m
<1>5. /\ available \in Seq(Slots) /\ IsInjective(available)
      /\ ToSet(available) \cap LeasedTo(client) = {} /\ active = Num(client, "running") + k
      /\ Held(l) = ToSet(available) \cup LeasedTo(client)
  BY <1>2, <1>3 DEF LaneOK, LaneTypes, Apart, Counted, Held
<1>6. /\ available' \in Seq(Slots) /\ IsInjective(available')
      /\ ToSet(available') = ToSet(available) \ {s}
  BY <1>1, <1>5, OneIsDropped
<1>7. LaneOK(m, open, k) /\ Held(m) = ToSet(available') \cup LeasedTo(client)
  <2>1. Refills(m, l, available', active)
    BY <1>1, <1>3, <1>4 DEF Refills
  <2>2. ToSet(available') \cap LeasedTo(l.client) = {} /\ active = Num(l.client, "running") + k
    BY <1>3, <1>5, <1>6
  <2>3. LaneOK(m, open, k) /\ Held(m) = ToSet(available') \cup LeasedTo(l.client)
    <3> DEFINE a == available'  n == active
    <3>1. /\ a \in Seq(Slots) /\ IsInjective(a) /\ ToSet(a) \cap LeasedTo(l.client) = {}
          /\ n = Num(l.client, "running") + k /\ Refills(m, l, a, n)
      BY <1>6, <2>1, <2>2
    <3> HIDE DEF a, n
    <3>2. LaneOK(m, open, k) /\ Held(m) = ToSet(a) \cup LeasedTo(l.client)
      BY <1>2, <3>1, RefillKeeps
    <3> QED
      BY <3>2 DEF a
  <2> QED
    BY <1>3, <2>3
<1>8. LanesOK'
  BY <1>1, <1>7 DEF LanesOK, Warmed, k, open, m
<1>9. Held(Lanes') = Held(Lanes) \ {s} /\ s \in pool \cap engines
  <2>1. Held(m) = Held(l) \ {s} /\ s \in Held(l)
    BY <1>1, <1>5, <1>6, <1>7
  <2> QED
    BY <1>2, <2>1 DEF RestOK, Owned, l, m
<1>10. keeper.pc = "idle" /\ Retired' = Retired
  BY <1>1, <1>2 DEF RestOK, Kept, Retired, Parts, Keeper
<1>11. /\ scaler' \in Scaler /\ scaler'.pc = "closing" /\ scaler'.slot = s /\ s # NoSlot
       /\ Scaling'
  BY <1>1, RecallPoolAssumption DEF Scaler, Scaling
<1>12. Parts' /\ Limits'
  <2>1. IsFiniteSet(pool \ {s})
    BY <1>2, FS_RemoveElement DEF RestOK, Parts
  <2> QED
    BY <1>1, <1>2, <1>11, <2>1 DEF RestOK, Parts, Limits
<1>13. Owned'
  BY <1>1, <1>2, <1>9, <1>10 DEF RestOK, Owned
<1>14. Outside'
  BY <1>1, <1>2, <1>9, <1>10, <1>11 DEF RestOK, Outside
<1>15. Scaled'
  <2>1. pool' \cup ({s} \cap Slots) \subseteq pool \cup ({scaler.slot} \cap Slots)
    BY <1>1, <1>9
  <2>2. Cardinality(pool' \cup ({s} \cap Slots)) <= MaxSize
    BY <1>2, <2>1, SmallerFits
  <2> QED
    BY <1>11, <2>2 DEF Scaled
<1>16. Kept'
  BY <1>1, <1>2, <1>10 DEF RestOK, Kept
<1>17. Retiring'
  BY <1>1, <1>2, <1>10 DEF RestOK, Retiring
<1>18. NoneIdle'
  <2>1. available # <<>>
    BY <1>1, <1>5, NoElements
  <2> QED
    BY <1>1, <1>2, <2>1 DEF RestOK, NoneIdle
<1>19. RestOK'
  BY <1>12, <1>13, <1>14, <1>15, <1>16, <1>17, <1>18 DEF RestOK
<1> QED
  BY <1>8, <1>19 DEF RecallInv

LEMMA PlanStep ==
    ASSUME RecallInv, Plan
    PROVE  RecallInv'
<1>1. PICK s \in Slots : PlanRepair(s) \/ PlanUp(s) \/ PlanDown(s)
  BY DEF Plan
<1>2. CASE PlanRepair(s)
  <2>1. MayPlan /\ Starts(s, TRUE) /\ target > Cardinality(pool)
    BY <1>2 DEF PlanRepair
  <2>2. target \in {0} \cup MinSize..MaxSize /\ Cardinality(pool) \in Nat
    BY FS_CardinalityType DEF RecallInv, RestOK, Limits, Parts
  <2>3. Cardinality(pool) < MaxSize
    BY <2>1, <2>2, RecallPoolAssumption
  <2> QED
    BY <2>1, <2>3, StartsStep
<1>3. CASE PlanUp(s)
  <2>1. MayPlan /\ Starts(s, FALSE) /\ Cardinality(pool) < MaxSize
    BY <1>3 DEF PlanUp
  <2> QED
    BY <2>1, StartsStep
<1>4. CASE PlanDown(s)
  BY <1>4, PlanDownStep
<1> QED
  BY <1>1, <1>2, <1>3, <1>4

LEMMA PublishStep ==
    ASSUME RecallInv, Publish
    PROVE  RecallInv'
<1> DEFINE s == scaler.slot  grown == pool \cup {s}
           k == Warmed  open == ~closed  l == Lanes  held == warming \/ closed
<1>1. PICK m : m = [Lanes EXCEPT !.available = Append(@, s)]
  OBVIOUS
<1>2. /\ scaler.pc = "publishing" /\ pool' = grown /\ scaler' = Idle
      /\ target' = (IF Cardinality(grown) >= target THEN 0 ELSE target)
      /\ shut' = FALSE /\ ready' = Resident(grown, engines)
      /\ BecomesTo(Dispatch(m, held))
      /\ UNCHANGED <<engines, retiring, closed, warming, keeper, janitor>>
      /\ UNCHANGED <<warmups, faults>>
  BY <1>1 DEF Publish, bounds
<1>3. LaneOK(l, open, k) /\ RestOK /\ k \in Nat /\ open \in BOOLEAN
  BY WarmedIsNat DEF RecallInv, LanesOK
<1>4. /\ s \in Slots /\ s \in engines /\ s \notin pool /\ Scaling /\ keeper.pc # "warming"
  <2>1. Scaling
    BY <1>2 DEF Scaling
  <2> QED
    BY <1>2, <1>3, <2>1 DEF RestOK, Parts, Scaled, Outside, Kept
<1>5. /\ l.available = available /\ l.client = client /\ l.active = active
      /\ m.available = Append(available, s) /\ m.client = client /\ m.active = active
      /\ SameLines(m, l)
  BY <1>1 DEF Lanes, SameLines
<1>6. held \in BOOLEAN /\ (~held => open)
  BY <1>3 DEF RestOK, Parts
<1> HIDE DEF s, grown, k, open, l, held
<1>7. /\ available \in Seq(Slots) /\ IsInjective(available)
      /\ ToSet(available) \cap LeasedTo(client) = {} /\ active = Num(client, "running") + k
      /\ Held(l) = ToSet(available) \cup LeasedTo(client)
  BY <1>3, <1>5 DEF LaneOK, LaneTypes, Apart, Counted, Held
<1>8. s \notin Held(l)
  BY <1>3, <1>4 DEF RestOK, Owned, l
<1>9. /\ m.available \in Seq(Slots) /\ IsInjective(m.available)
      /\ ToSet(m.available) = ToSet(available) \cup {s}
  <2>1. s \notin ToSet(available)
    BY <1>7, <1>8
  <2> QED
    BY <1>4, <1>5, <1>7, <2>1, LastComes
<1>10. LaneOK(m, open, k) /\ Held(m) = Held(l) \cup {s}
  <2>1. Refills(m, l, m.available, active)
    BY <1>5 DEF Refills
  <2>2. ToSet(m.available) \cap LeasedTo(l.client) = {} /\ active = Num(l.client, "running") + k
    BY <1>5, <1>7, <1>8, <1>9
  <2>3. LaneOK(m, open, k) /\ Held(m) = ToSet(m.available) \cup LeasedTo(l.client)
    BY <1>3, <1>9, <2>1, <2>2, RefillKeeps
  <2> QED
    BY <1>5, <1>7, <1>9, <2>3
<1>11. /\ LaneOK(Lanes', open, k) /\ SameOwners(Lanes', m)
       /\ ~held => available' = <<>> \/ order' = <<>>
  BY <1>2, <1>3, <1>6, <1>10, Settles
<1>12. LanesOK'
  BY <1>2, <1>11 DEF LanesOK, Warmed, k, open
<1>13. /\ Held(Lanes') = Held(Lanes) \cup {s} /\ ClosedBy(client') = ClosedBy(client)
       /\ Num(client', "closing") = Num(client, "closing")
  BY <1>5, <1>10, <1>11, LanesFields DEF SameOwners, l
<1>14. NoneIdle'
  BY <1>2, <1>11 DEF NoneIdle, held
<1>15. Retired' = Retired /\ ~Scaling' /\ scaler'.slot = NoSlot
  BY <1>2, IdleIsClient DEF Retired, Scaling
<1>16. Parts'
  <2>1. IsFiniteSet(grown) /\ grown \in SUBSET Slots
    BY <1>3, <1>4, FS_AddElement DEF RestOK, Parts, grown
  <2>2. scaler' \in Scaler
    BY <1>2 DEF Idle, Scaler
  <2> QED
    BY <1>2, <1>3, <2>1, <2>2 DEF RestOK, Parts
<1>17. Limits'
  <2>1. target' \in {0} \cup MinSize..MaxSize
    BY <1>2, <1>3 DEF RestOK, Limits
  <2>2. ready' \in BOOLEAN
    BY <1>2 DEF Resident
  <2> QED
    BY <1>2, <1>3, <2>1, <2>2 DEF RestOK, Limits
<1>18. Owned'
  BY <1>2, <1>3, <1>4, <1>13 DEF RestOK, Owned, grown
<1>19. Outside'
  <2>1. NoSlot \notin grown /\ NoSlot \notin janitor \cup Retired
    BY <1>3, <1>4, RecallPoolAssumption DEF RestOK, Parts, Retired, Keeper, grown
  <2>2. NoSlot \notin ClosedBy(client)
    BY LanesFields DEF RecallInv, LanesOK, LaneOK, Roles, ClosedBy
  <2> QED
    BY <1>2, <1>3, <1>13, <1>15, <2>1, <2>2 DEF RestOK, Outside, grown, s
<1>20. Scaled'
  <2>1. pool' \cup ({NoSlot} \cap Slots) \subseteq pool \cup ({scaler.slot} \cap Slots)
    BY <1>2, <1>4, RecallPoolAssumption DEF grown, s
  <2>2. Cardinality(pool' \cup ({NoSlot} \cap Slots)) <= MaxSize
    BY <1>3, <2>1, SmallerFits
  <2> QED
    BY <1>2, <1>15, <2>2, IdleIsClient DEF Scaled
<1>21. Kept'
  BY <1>2, <1>3, <1>4, <1>15 DEF RestOK, Kept
<1>22. Retiring'
  BY <1>2, <1>3, <1>13, <1>15 DEF RestOK, Retiring
<1>23. RestOK'
  BY <1>14, <1>16, <1>17, <1>18, <1>19, <1>20, <1>21, <1>22 DEF RestOK
<1> QED
  BY <1>12, <1>23 DEF RecallInv

-----------------------------------------------------------------------------
(* Warm-up and idle maintenance *)

LEMMA RestIsKeeper ==
    /\ Rest.pc = "idle" /\ Rest.slots = {} /\ Rest.todo = {} /\ Rest.good = {}
    /\ Rest \in Keeper
  BY DEF Rest, Keeper

(* The keeper waits for the pool to be quiet, or maintains it. *)
LEMMA KeeperStarts ==
    ASSUME RecallInv, keeper.pc = "idle", NEW pc \in {"waiting", "maintaining"},
           keeper' = [Rest EXCEPT !.pc = pc], warming' = TRUE,
           UNCHANGED <<queueing, pool, engines, retiring, closed, scaler, janitor>>,
           Limits'
    PROVE  RecallInv'
<1>1. RestOK /\ Lanes' = Lanes /\ client' = client
  BY DEF RecallInv, queueing, Lanes
<1>2. /\ keeper'.pc = pc /\ keeper'.slots = {} /\ keeper'.todo = {} /\ keeper'.good = {}
      /\ keeper' \in Keeper
  BY DEF Rest, Keeper
<1>3. Retired' = Retired /\ Warmed' = Warmed
  BY <1>2 DEF Retired, Warmed
<1>4. LanesOK'
  BY <1>3, LanesStay DEF RecallInv
<1>5. Parts'
  BY <1>1, <1>2 DEF RestOK, Parts
<1>6. Owned'
  BY <1>1, <1>2 DEF RestOK, Owned
<1>7. Outside' /\ Scaled'
  BY <1>1, <1>3 DEF RestOK, Outside, Scaled, Scaling
<1>8. Kept'
  BY <1>1, <1>2, FS_EmptySet DEF Kept
<1>9. Retiring' /\ NoneIdle'
  BY <1>1, <1>3 DEF RestOK, Retiring, NoneIdle
<1>10. RestOK'
  BY <1>5, <1>6, <1>7, <1>8, <1>9 DEF RestOK
<1> QED
  BY <1>4, <1>10 DEF RecallInv

LEMMA WarmUpStep ==
    ASSUME RecallInv, WarmUp \/ Maintain
    PROVE  RecallInv'
<1>1. /\ keeper.pc = "idle" /\ warming' = TRUE
      /\ UNCHANGED <<queueing, pool, engines, retiring, closed, scaler, janitor>>
      /\ \/ keeper' = [Rest EXCEPT !.pc = "waiting"]
         \/ keeper' = [Rest EXCEPT !.pc = "maintaining"]
  BY DEF WarmUp, Maintain
<1>2. /\ UNCHANGED <<ready, target, shut, faults>>
      /\ warmups' = warmups \/ (warmups < MaxWarmups /\ warmups' = warmups + 1)
  BY DEF WarmUp, Maintain, repairs, bounds
<1>3. Limits'
  <2>1. Limits
    BY DEF RecallInv, RestOK
  <2>2. warmups' \in 0..MaxWarmups
    BY <1>2, <2>1, RecallPoolAssumption DEF Limits
  <2> QED
    BY <1>2, <2>1, <2>2 DEF Limits
<1> QED
  BY <1>1, <1>3, KeeperStarts

(* While a warm-up has the engines nothing is idle, leased or scaled. *)
LEMMA WarmingHasAll ==
    ASSUME RecallInv, keeper.pc = "warming"
    PROVE  /\ Held(Lanes) = {} /\ available = <<>> /\ LeasedTo(client) = {}
           /\ Num(client, "running") = 0
           /\ keeper.slots = pool /\ keeper.todo \subseteq pool /\ ~Scaling /\ warming
           /\ keeper.good = (pool \ keeper.todo) \cap engines
<1>1. /\ Held(Lanes) = {} /\ keeper.slots = pool /\ keeper.todo \subseteq pool
      /\ ~Scaling /\ warming /\ keeper.good = (pool \ keeper.todo) \cap engines
  BY DEF RecallInv, RestOK, Owned, Kept
<1>2. ToSet(available) = {} /\ LeasedTo(client) = {}
  BY <1>1, LanesFields DEF Held
<1>3. available \in Seq(Slots)
  BY LanesFields DEF RecallInv, LanesOK, LaneOK, LaneTypes
<1>4. available = <<>>
  BY <1>2, <1>3, NoElements
<1>5. Num(client, "running") = 0
  <2>1. \A c \in Clients : client[c].pc # "running"
    BY <1>2 DEF LeasedTo
  <2> QED
    BY <2>1, SomeCounted
<1> QED
  BY <1>1, <1>2, <1>4, <1>5

LEMMA WarmTakeStep ==
    ASSUME RecallInv, WarmTake
    PROVE  RecallInv'
<1> DEFINE k == Warmed  j == Cardinality(pool)  open == ~closed  l == Lanes  m == Lanes'
<1>1. /\ keeper.pc = "waiting" /\ active = 0 /\ ~Scaling
      /\ available' = <<>> /\ active' = j
      /\ keeper' = [pc |-> "warming", slots |-> pool, todo |-> pool, good |-> {}]
      /\ UNCHANGED <<pool, engines, queues, order, pending, client, retiring, closed,
                     warming, scaler, janitor>>
      /\ UNCHANGED <<ready, target, shut, warmups, faults>>
  BY DEF WarmTake, repairs, bounds
<1>2. LaneOK(l, open, k) /\ RestOK /\ k \in Nat /\ open \in BOOLEAN
  BY WarmedIsNat DEF RecallInv, LanesOK
<1>3. /\ l.available = available /\ l.client = client /\ l.active = active
      /\ m.available = available' /\ m.client = client' /\ m.active = active'
      /\ SameLines(m, l)
  BY <1>1, LanesFields DEF SameLines
<1>4. k = 0 /\ keeper'.pc = "warming" /\ keeper'.slots = pool /\ keeper'.todo = pool
      /\ keeper'.good = {} /\ Warmed' = j
  BY <1>1 DEF Warmed
<1>5. pool \in SUBSET Slots /\ IsFiniteSet(pool) /\ j \in Nat
  BY <1>2, FS_CardinalityType DEF RestOK, Parts
<1> HIDE DEF k, j, open, l, m
<1>6. Num(client, "running") = 0 /\ LeasedTo(client) = {}
  <2>1. active = Num(client, "running") + k
    BY <1>2, <1>3 DEF LaneOK, Counted
  <2>2. Num(client, "running") = 0
    <3>1. Num(client, "running") \in Nat
      BY NumIsNat
    <3> QED
      BY <1>1, <1>4, <2>1, <3>1
  <2> QED
    BY <2>2, SomeCounted DEF LeasedTo
<1>7. LaneOK(m, open, j) /\ Held(m) = {}
  <2>1. /\ <<>> \in Seq(Slots) /\ IsInjective(<<>>) /\ ToSet(<<>>) = {}
    BY EmptyIsInjective
  <2>2. Refills(m, l, <<>>, j)
    BY <1>1, <1>3 DEF Refills
  <2>3. ToSet(<<>>) \cap LeasedTo(l.client) = {} /\ j = Num(l.client, "running") + j
    BY <1>3, <1>5, <1>6, <2>1
  <2>4. LaneOK(m, open, j) /\ Held(m) = ToSet(<<>>) \cup LeasedTo(l.client)
    <3> DEFINE a == <<>>
    <3>1. /\ a \in Seq(Slots) /\ IsInjective(a) /\ ToSet(a) \cap LeasedTo(l.client) = {}
          /\ Refills(m, l, a, j)
      BY <2>1, <2>2, <2>3
    <3> HIDE DEF a
    <3>2. LaneOK(m, open, j) /\ Held(m) = ToSet(a) \cup LeasedTo(l.client)
      BY <1>2, <1>5, <2>3, <3>1, RefillKeeps
    <3> QED
      BY <3>2 DEF a
  <2> QED
    BY <1>3, <1>6, <2>1, <2>4
<1>8. LanesOK'
  BY <1>1, <1>4, <1>7 DEF LanesOK, open, m
<1>9. Held(Lanes') = {}
  BY <1>7 DEF m
<1>10. Parts' /\ Limits'
  <2>1. keeper' \in Keeper
    BY <1>1, <1>5 DEF Keeper
  <2> QED
    BY <1>1, <1>2, <2>1 DEF RestOK, Parts, Limits
<1>11. Owned'
  BY <1>4, <1>9 DEF Owned
<1>12. Retired' = Retired /\ Scaling' = Scaling
  BY <1>1, <1>4 DEF Retired, Scaling
<1>13. Outside' /\ Scaled'
  BY <1>1, <1>2, <1>12 DEF RestOK, Outside, Scaled
<1>14. Kept'
  <2>1. warming
    BY <1>1, <1>2 DEF RestOK, Kept
  <2> QED
    BY <1>1, <1>4, <1>5, <1>12, <2>1 DEF Kept
<1>15. Retiring' /\ NoneIdle'
  BY <1>1, <1>2, <1>12 DEF RestOK, Retiring, NoneIdle
<1>16. RestOK'
  BY <1>10, <1>11, <1>13, <1>14, <1>15 DEF RestOK
<1> QED
  BY <1>8, <1>16 DEF RecallInv

LEMMA WarmStep ==
    ASSUME RecallInv, NEW s \in Slots, NEW ok \in BOOLEAN, Warm(s, ok)
    PROVE  RecallInv'
<1>1. /\ keeper.pc = "warming" /\ s \in keeper.todo
      /\ keeper' = [keeper EXCEPT !.todo = @ \ {s}, !.good = IF ok THEN @ \cup {s} ELSE @]
      /\ engines' = (IF ok THEN engines \cup {s} ELSE engines \ {s})
      /\ UNCHANGED <<queueing, pool, retiring, closed, warming, scaler, janitor>>
      /\ UNCHANGED <<ready, target, shut, warmups>>
      /\ faults' = faults \/ Fault
  BY DEF Warm, repairs
<1>2. RestOK /\ Lanes' = Lanes /\ client' = client
  BY <1>1 DEF RecallInv, queueing, Lanes
<1>3. keeper \in Keeper
  BY <1>2 DEF RestOK, Parts
<1>4. /\ keeper'.pc = "warming" /\ keeper'.slots = keeper.slots
      /\ keeper'.todo = keeper.todo \ {s}
      /\ keeper'.good = (IF ok THEN keeper.good \cup {s} ELSE keeper.good)
      /\ keeper' \in Keeper
  BY <1>1, <1>3 DEF Keeper
<1>5. /\ Held(Lanes) = {} /\ keeper.slots = pool /\ keeper.todo \subseteq pool
      /\ ~Scaling /\ warming /\ keeper.good = (pool \ keeper.todo) \cap engines
  BY <1>1, WarmingHasAll
<1>6. Retired' = Retired /\ Warmed' = Warmed /\ Scaling' = Scaling
  BY <1>1, <1>4 DEF Retired, Warmed, Scaling
<1>7. LanesOK'
  BY <1>1, <1>6, LanesStay DEF RecallInv
<1>8. Parts'
  BY <1>1, <1>2, <1>4 DEF RestOK, Parts
<1>9. Limits'
  <2>1. Limits
    BY <1>2 DEF RestOK
  <2>2. faults' \in 0..MaxFaults
    BY <1>1, <2>1, RecallPoolAssumption DEF Limits, Fault
  <2> QED
    BY <1>1, <2>1, <2>2 DEF Limits
<1>10. Owned'
  BY <1>2, <1>4, <1>5 DEF Owned
<1>11. Outside'
  BY <1>1, <1>2, <1>6 DEF RestOK, Outside
<1>12. Scaled'
  BY <1>1, <1>2, <1>5, <1>6 DEF RestOK, Scaled, Scaling
<1>13. Kept'
  <2>1. IsFiniteSet(keeper.todo \ {s})
    BY <1>2, FS_RemoveElement DEF RestOK, Kept
  <2>2. keeper'.good = (pool \ keeper'.todo) \cap engines'
    BY <1>1, <1>4, <1>5
  <2> QED
    BY <1>1, <1>4, <1>5, <1>6, <2>1, <2>2 DEF Kept
<1>14. Retiring' /\ NoneIdle'
  BY <1>1, <1>2, <1>5, <1>6 DEF RestOK, Retiring, NoneIdle
<1>15. RestOK'
  BY <1>8, <1>9, <1>10, <1>11, <1>12, <1>13, <1>14 DEF RestOK
<1> QED
  BY <1>7, <1>15 DEF RecallInv

(* A listing names every slot of a set once. *)
LEMMA ListingIsWhole ==
    ASSUME NEW S \in SUBSET Slots, IsFiniteSet(S), NEW w \in Listings(S)
    PROVE  w \in Seq(Slots) /\ IsInjective(w) /\ ToSet(w) = S
<1> DEFINE n == Cardinality(S)
<1>1. n \in Nat
  BY FS_CardinalityType
<1>2. /\ w \in [1..n -> S] /\ DOMAIN w = 1..n
      /\ \A i, j \in 1..n : i < j => w[i] < w[j]
  BY DEF Listings
<1>3. \A i \in 1..n : w[i] \in Nat
  BY <1>2, RecallPoolAssumption
<1>4. w \in Seq(Slots)
  <2>1. w \in [1..n -> Slots]
    BY <1>2
  <2> QED
    BY <1>1, <2>1, SeqDef
<1>5. IsInjective(w)
  <2> SUFFICES ASSUME NEW i \in 1..n, NEW j \in 1..n, w[i] = w[j], i # j
               PROVE  FALSE
    BY <1>2 DEF IsInjective
  <2>1. i < j \/ j < i
    BY <1>1
  <2>2. w[i] < w[j] \/ w[j] < w[i]
    BY <1>2, <2>1
  <2> QED
    BY <1>3, <2>2
<1>6. w \in Surjection(1..n, S)
  <2>1. w \in Injection(1..n, S)
    BY <1>2, <1>5 DEF Injection, IsInjective
  <2>2. IsFiniteSet(1..n) /\ Cardinality(1..n) = n
    BY <1>1, FS_Interval
  <2> QED
    BY <2>1, <2>2, FS_Injection
<1>7. ToSet(w) = S
  BY <1>2, <1>6 DEF Surjection, ToSet
<1> QED
  BY <1>4, <1>5, <1>7

(* What a warm-up leaves: its engines are idle, or are to be closed. *)
LEMMA WarmEndStep ==
    ASSUME RecallInv, WarmEnd
    PROVE  RecallInv'
<1> DEFINE k == Warmed  open == ~closed  l == Lanes  n == active - Cardinality(keeper.slots)
<1>1. PICK warm \in Listings(keeper.good) :
        /\ pool' = (IF closed THEN pool \ keeper.slots ELSE pool)
        /\ retiring' = (IF closed THEN retiring + Cardinality(keeper.slots) ELSE retiring)
        /\ ready' = (~closed /\ Resident(pool, engines))
        /\ keeper' = IF closed /\ keeper.slots # {}
                     THEN [Rest EXCEPT !.pc = "retiring", !.slots = keeper.slots,
                                       !.todo = keeper.slots]
                     ELSE Rest
        /\ BecomesTo(Dispatch([Lanes EXCEPT
                                  !.active = @ - Cardinality(keeper.slots),
                                  !.available = IF closed THEN @ ELSE @ \o warm], closed))
  BY DEF WarmEnd
<1>2. /\ keeper.pc = "warming" /\ keeper.todo = {} /\ warming' = FALSE
      /\ UNCHANGED <<engines, closed, target, shut, scaler, janitor, warmups, faults>>
  BY DEF WarmEnd, bounds
<1>3. PICK m : m = [Lanes EXCEPT !.active = @ - Cardinality(keeper.slots),
                                 !.available = IF closed THEN @ ELSE @ \o warm]
  OBVIOUS
<1>4. /\ m.available = (IF closed THEN available ELSE available \o warm)
      /\ m.client = client /\ m.active = n /\ SameLines(m, l)
      /\ l.client = client /\ l.active = active /\ l.available = available
      /\ BecomesTo(Dispatch(m, closed))
  BY <1>1, <1>3 DEF Lanes, SameLines
<1>5. LaneOK(l, open, k) /\ RestOK /\ k \in Nat /\ open \in BOOLEAN /\ closed \in BOOLEAN
  BY WarmedIsNat DEF RecallInv, LanesOK, RestOK, Parts
<1>6. /\ available = <<>> /\ LeasedTo(client) = {} /\ Num(client, "running") = 0
      /\ keeper.slots = pool /\ ~Scaling /\ keeper.good = pool \cap engines
      /\ Held(Lanes) = {}
  BY <1>2, WarmingHasAll
<1>7. /\ pool \in SUBSET Slots /\ IsFiniteSet(pool) /\ Cardinality(pool) \in Nat
      /\ k = Cardinality(pool)
  BY <1>2, <1>5, <1>6, FS_CardinalityType DEF RestOK, Parts, Warmed
<1> HIDE DEF k, open, l, n
<1>8. n = 0
  <2>1. active = Num(client, "running") + k
    BY <1>4, <1>5 DEF LaneOK, Counted
  <2> QED
    BY <1>6, <1>7, <2>1 DEF n
<1>9. /\ m.available \in Seq(Slots) /\ IsInjective(m.available)
      /\ ToSet(m.available) = IF closed THEN {} ELSE pool \cap engines
  <2>1. IsFiniteSet(pool \cap engines) /\ pool \cap engines \in SUBSET Slots
    BY <1>7, FS_Subset
  <2>2. warm \in Seq(Slots) /\ IsInjective(warm) /\ ToSet(warm) = pool \cap engines
    BY <1>6, <2>1, ListingIsWhole
  <2>3. <<>> \o warm = warm
    BY <2>2, ConcatEmptySeq
  <2> QED
    BY <1>4, <1>6, <2>2, <2>3, EmptyIsInjective
<1>10. LaneOK(m, open, 0) /\ Held(m) = ToSet(m.available)
  <2>1. Refills(m, l, m.available, n)
    BY <1>4 DEF Refills
  <2>2. /\ ToSet(m.available) \cap LeasedTo(l.client) = {}
        /\ n = Num(l.client, "running") + 0
    BY <1>4, <1>6, <1>8
  <2>3. LaneOK(m, open, 0) /\ Held(m) = ToSet(m.available) \cup LeasedTo(l.client)
    BY <1>5, <1>9, <2>1, <2>2, RefillKeeps
  <2> QED
    BY <1>4, <1>6, <2>3
<1>11. /\ LaneOK(Lanes', open, 0) /\ SameOwners(Lanes', m)
       /\ ~closed => available' = <<>> \/ order' = <<>>
  <2>1. ~closed => open
    BY DEF open
  <2> QED
    BY <1>4, <1>5, <1>10, <2>1, Settles
<1>12. /\ Held(Lanes') = (IF closed THEN {} ELSE pool \cap engines)
       /\ ClosedBy(client') = ClosedBy(client)
       /\ Num(client', "closing") = Num(client, "closing")
  BY <1>4, <1>9, <1>10, <1>11, LanesFields DEF SameOwners
<1>13. /\ keeper' \in Keeper /\ keeper'.pc \in {"idle", "retiring"}
       /\ keeper'.pc = "idle" =>
             keeper'.slots = {} /\ keeper'.todo = {} /\ keeper'.good = {}
       /\ keeper'.pc = "retiring" => closed
       /\ Retired' = (IF closed THEN pool ELSE {})
       /\ IsFiniteSet(keeper'.todo)
  <2>1. CASE closed /\ pool # {}
    <3>1. /\ keeper' = [Rest EXCEPT !.pc = "retiring", !.slots = pool, !.todo = pool]
      BY <1>1, <1>6, <2>1
    <3>2. /\ keeper'.pc = "retiring" /\ keeper'.todo = pool /\ keeper' \in Keeper
      BY <1>7, <3>1 DEF Rest, Keeper
    <3> QED
      BY <1>7, <2>1, <3>2 DEF Retired
  <2>2. CASE ~(closed /\ pool # {})
    <3>1. keeper' = Rest
      BY <1>1, <1>6, <2>2
    <3>2. Retired' = {} /\ (closed => pool = {})
      BY <2>2, <3>1, RestIsKeeper DEF Retired
    <3> QED
      BY <3>1, <3>2, RestIsKeeper, FS_EmptySet
  <2> QED
    BY <2>1, <2>2
<1>14. LanesOK'
  BY <1>2, <1>11, <1>13 DEF LanesOK, Warmed, open
<1>15. pool' = IF closed THEN {} ELSE pool
  BY <1>1, <1>6
<1>16. Retiring'
  <2>1. /\ retiring = Num(client, "closing") + Cardinality(janitor) + Cardinality(Retired)
        /\ (~closed => janitor = {}) /\ Retired = {}
    BY <1>2, <1>5 DEF RestOK, Retiring, Retired
  <2>2. Num(client, "closing") \in Nat /\ Cardinality(janitor) \in Nat
    BY <1>5, NumIsNat, FS_CardinalityType DEF RestOK, Parts
  <2>3. Cardinality({}) = 0
    BY FS_EmptySet
  <2>4. retiring' = Num(client, "closing") + Cardinality(janitor)
                       + (IF closed THEN Cardinality(pool) ELSE 0)
    BY <1>1, <1>6, <1>7, <2>1, <2>2, <2>3
  <2>5. Cardinality(Retired') = IF closed THEN Cardinality(pool) ELSE 0
    BY <1>13, <2>3
  <2> QED
    BY <1>2, <1>12, <2>1, <2>4, <2>5 DEF Retiring
<1>17. Parts'
  <2>1. retiring' \in Nat
    BY <1>1, <1>5, <1>6, <1>7 DEF RestOK, Parts
  <2>2. pool' \in SUBSET Slots /\ IsFiniteSet(pool')
    BY <1>7, <1>15, FS_EmptySet
  <2> QED
    BY <1>2, <1>5, <1>13, <2>1, <2>2 DEF RestOK, Parts
<1>18. Limits'
  <2>1. ready' \in BOOLEAN
    BY <1>1 DEF Resident
  <2> QED
    BY <1>2, <1>5, <2>1 DEF RestOK, Limits
<1>19. Owned'
  BY <1>2, <1>12, <1>13, <1>15 DEF Owned
<1>20. Outside'
  <2>1. scaler.slot = NoSlot /\ NoSlot \notin pool
    BY <1>5, <1>6, <1>7, RecallPoolAssumption DEF RestOK, Scaled
  <2> QED
    BY <1>2, <1>5, <1>12, <1>13, <1>15, <2>1 DEF RestOK, Outside
<1>21. Scaled'
  <2>1. pool' \cup ({scaler.slot} \cap Slots) \subseteq pool \cup ({scaler.slot} \cap Slots)
    BY <1>15
  <2>2. Cardinality(pool' \cup ({scaler.slot} \cap Slots)) <= MaxSize
    BY <1>5, <2>1, SmallerFits
  <2> QED
    BY <1>2, <1>5, <2>2 DEF RestOK, Scaled, Scaling
<1>22. Kept'
  BY <1>2, <1>13 DEF Kept
<1>23. NoneIdle'
  BY <1>2, <1>11 DEF NoneIdle
<1>24. RestOK'
  BY <1>16, <1>17, <1>18, <1>19, <1>20, <1>21, <1>22, <1>23 DEF RestOK
<1> QED
  BY <1>14, <1>24 DEF RecallInv

LEMMA WarmRetireStep ==
    ASSUME RecallInv, NEW s \in Slots, WarmRetire(s)
    PROVE  RecallInv'
<1>1. /\ keeper.pc = "retiring" /\ s \in keeper.todo
      /\ engines' = engines \ {s} /\ retiring' = retiring - 1
      /\ keeper' = IF keeper.todo = {s} THEN Rest ELSE [keeper EXCEPT !.todo = @ \ {s}]
      /\ UNCHANGED <<queueing, pool, closed, warming, scaler, janitor>>
      /\ UNCHANGED <<ready, target, shut, warmups, faults>>
  BY DEF WarmRetire, repairs, bounds
<1>2. RestOK /\ Lanes' = Lanes /\ client' = client
  BY <1>1 DEF RecallInv, queueing, Lanes
<1>3. keeper \in Keeper /\ IsFiniteSet(keeper.todo) /\ closed /\ Retired = keeper.todo
      /\ ~warming
  BY <1>1, <1>2 DEF RestOK, Parts, Kept, Retired
<1>4. /\ keeper' \in Keeper /\ keeper'.pc \in {"idle", "retiring"}
      /\ keeper'.pc = "idle" =>
            keeper'.slots = {} /\ keeper'.todo = {} /\ keeper'.good = {}
      /\ keeper'.todo = keeper.todo \ {s} /\ Retired' = keeper.todo \ {s}
  <2>1. CASE keeper.todo = {s}
    BY <1>1, <2>1, RestIsKeeper DEF Retired
  <2>2. CASE keeper.todo # {s}
    <3>1. keeper'.pc = "retiring" /\ keeper'.todo = keeper.todo \ {s} /\ keeper' \in Keeper
      BY <1>1, <1>3, <2>2 DEF Keeper
    <3> QED
      BY <3>1 DEF Retired
  <2> QED
    BY <2>1, <2>2
<1>5. IsFiniteSet(keeper.todo \ {s}) /\ Cardinality(keeper.todo) \in Nat
      /\ Cardinality(keeper.todo \ {s}) = Cardinality(keeper.todo) - 1
      /\ Cardinality(keeper.todo \ {s}) \in Nat
  BY <1>1, <1>3, FS_RemoveElement, FS_CardinalityType
<1>6. Warmed' = Warmed
  BY <1>1, <1>4 DEF Warmed
<1>7. LanesOK'
  BY <1>1, <1>6, LanesStay DEF RecallInv
<1>8. s \notin pool /\ s # scaler.slot
  BY <1>1, <1>2, <1>3 DEF RestOK, Outside
<1>9. Kept'
  BY <1>1, <1>3, <1>4, <1>5 DEF Kept
<1>10. /\ retiring > 0
       /\ retiring' = Num(client', "closing") + Cardinality(janitor') + Cardinality(Retired')
  <2>1. retiring = Num(client, "closing") + Cardinality(janitor) + Cardinality(keeper.todo)
    BY <1>2, <1>3 DEF RestOK, Retiring
  <2>2. Num(client, "closing") \in Nat /\ Cardinality(janitor) \in Nat
    BY <1>2, NumIsNat, FS_CardinalityType DEF RestOK, Parts
  <2> QED
    BY <1>1, <1>2, <1>4, <1>5, <2>1, <2>2
<1>11. Limits' /\ NoneIdle'
  BY <1>1, <1>2, <1>3 DEF RestOK, Limits, NoneIdle
<1>12. RestOK'
  <2>1. keeper'.pc = "warming" <=> keeper.pc = "warming"
    BY <1>1, <1>4
  <2>2. /\ Held(Lanes') = Held(Lanes) /\ ClosedBy(client') \subseteq ClosedBy(client)
        /\ janitor' \subseteq janitor /\ Retired' \subseteq Retired
    BY <1>1, <1>2, <1>3, <1>4
  <2> QED
    BY <1>1, <1>2, <1>4, <1>8, <1>9, <1>10, <1>11, <2>1, <2>2, EngineGoes
<1> QED
  BY <1>7, <1>12 DEF RecallInv

LEMMA MaintainEndStep ==
    ASSUME RecallInv, MaintainEnd
    PROVE  RecallInv'
<1> DEFINE k == Warmed  open == ~closed  l == Lanes
<1>1. /\ keeper.pc = "maintaining" /\ keeper' = Rest /\ warming' = FALSE
      /\ BecomesTo(Dispatch(l, closed))
      /\ UNCHANGED <<pool, engines, retiring, closed, scaler, janitor>>
      /\ UNCHANGED <<ready, target, shut, warmups, faults>>
  BY DEF MaintainEnd, repairs, bounds
<1>2. LaneOK(l, open, k) /\ RestOK /\ k \in Nat /\ open \in BOOLEAN /\ closed \in BOOLEAN
      /\ (~closed => open)
  BY WarmedIsNat DEF RecallInv, LanesOK, RestOK, Parts
<1>3. Warmed' = Warmed /\ Retired' = Retired /\ Scaling' = Scaling
  BY <1>1, RestIsKeeper DEF Warmed, Retired, Scaling
<1> HIDE DEF k, open, l
<1>4. /\ LaneOK(Lanes', open, k) /\ SameOwners(Lanes', l)
      /\ ~closed => available' = <<>> \/ order' = <<>>
  BY <1>1, <1>2, Settles
<1>5. LanesOK'
  BY <1>1, <1>3, <1>4 DEF LanesOK, k, open
<1>6. /\ Held(Lanes') = Held(Lanes) /\ ClosedBy(client') = ClosedBy(client)
      /\ Num(client', "closing") = Num(client, "closing")
  BY <1>4, LanesFields DEF SameOwners, l
<1>7. Parts' /\ Limits'
  BY <1>1, <1>2, RestIsKeeper DEF RestOK, Parts, Limits
<1>8. Owned'
  BY <1>1, <1>2, <1>6, RestIsKeeper DEF RestOK, Owned
<1>9. Outside' /\ Scaled'
  BY <1>1, <1>2, <1>3, <1>6 DEF RestOK, Outside, Scaled
<1>10. Kept'
  BY <1>1, RestIsKeeper, FS_EmptySet DEF Kept
<1>11. Retiring'
  BY <1>1, <1>2, <1>3, <1>6 DEF RestOK, Retiring
<1>12. NoneIdle'
  BY <1>1, <1>4 DEF NoneIdle
<1>13. RestOK'
  BY <1>7, <1>8, <1>9, <1>10, <1>11, <1>12 DEF RestOK
<1> QED
  BY <1>5, <1>13 DEF RecallInv

-----------------------------------------------------------------------------
(* The end of the pool *)

LEMMA CloseStep ==
    ASSUME RecallInv, Close
    PROVE  RecallInv'
<1> DEFINE retired == IF warming THEN {} ELSE ToSet(available) \cup (pool \ engines)
           k == Warmed  l == Lanes  m == Lanes'
<1>1. /\ ~closed /\ closed' = TRUE /\ ready' = FALSE /\ target' = 0 /\ shut' = TRUE
      /\ queues' = [t \in Tenants |-> <<>>] /\ order' = <<>> /\ pending' = 0
      /\ available' = (IF warming THEN available ELSE <<>>)
      /\ pool' = pool \ retired /\ retiring' = retiring + Cardinality(retired)
      /\ janitor' = retired
      /\ UNCHANGED <<engines, active, client, warming, scaler, keeper, warmups, faults>>
  BY DEF Close, bounds
<1>2. LaneOK(l, TRUE, k) /\ RestOK /\ k \in Nat
  BY <1>1, WarmedIsNat DEF RecallInv, LanesOK
<1>3. /\ l.available = available /\ l.client = client /\ l.active = active
      /\ m.available = available' /\ m.client = client' /\ m.active = active'
      /\ m.queues = queues' /\ m.order = order' /\ m.pending = pending'
  BY LanesFields
<1> HIDE DEF k, l, m
<1>4. /\ available \in Seq(Slots) /\ IsInjective(available)
      /\ ToSet(available) \cap LeasedTo(client) = {} /\ active = Num(client, "running") + k
      /\ active \in Nat /\ client \in [Clients -> Client] /\ Roles(client) /\ Singly(client)
      /\ Held(l) = ToSet(available) \cup LeasedTo(client)
  BY <1>2, <1>3 DEF LaneOK, LaneTypes, Apart, Counted, Held
<1>5. /\ available' \in Seq(Slots) /\ IsInjective(available')
      /\ ToSet(available') = IF warming THEN ToSet(available) ELSE {}
  BY <1>1, <1>4, EmptyIsInjective
<1>6. LaneOK(m, FALSE, k)
  <2>1. LaneTypes(m)
    <3>1. <<>> \in Seq(Clients) /\ <<>> \in Seq(Tenants)
      BY EmptyIsInjective
    <3>2. queues' \in [Tenants -> Seq(Clients)]
      BY <1>1, <3>1
    <3> QED
      BY <1>1, <1>3, <1>4, <1>5, <3>1, <3>2 DEF LaneTypes
  <2>2. Roles(m.client)
    BY <1>1, <1>3, <1>4
  <2>3. Apart(m)
    BY <1>1, <1>3, <1>4, <1>5 DEF Apart
  <2>4. Lined(m, FALSE)
    <3>1. IsInjective(<<>>) /\ ToSet(<<>>) = {}
      BY EmptyIsInjective
    <3>2. \A t \in Tenants : m.queues[t] = <<>>
      BY <1>1, <1>3
    <3> QED
      BY <1>1, <1>3, <3>1, <3>2 DEF Lined
  <2>5. Counted(m, FALSE, k)
    BY <1>1, <1>3, <1>4, RecallPoolAssumption DEF Counted
  <2> QED
    BY <2>1, <2>2, <2>3, <2>4, <2>5 DEF LaneOK
<1>7. Warmed' = Warmed /\ Scaling' = Scaling
  BY <1>1 DEF Warmed, Scaling
<1>8. LanesOK'
  BY <1>1, <1>6, <1>7 DEF LanesOK, k, m
<1>9. Held(Lanes') = Held(Lanes) \ retired /\ (warming => retired = {})
      /\ (~warming => Held(Lanes') = LeasedTo(client))
  <2>1. Held(m) = ToSet(available') \cup LeasedTo(client)
    BY <1>1, <1>3 DEF Held
  <2>2. Held(l) \subseteq engines
    BY <1>2 DEF RestOK, Owned, l
  <2>3. LeasedTo(client) \cap retired = {}
    BY <1>4, <2>2
  <2> QED
    BY <1>4, <1>5, <2>1, <2>3 DEF l, m
<1>10. retired \subseteq pool
  <2>1. Held(l) \subseteq pool
    BY <1>2 DEF RestOK, Owned, l
  <2> QED
    BY <1>4, <2>1
<1>11. /\ pool \in SUBSET Slots /\ IsFiniteSet(pool) /\ IsFiniteSet(retired)
       /\ Cardinality(retired) \in Nat /\ IsFiniteSet(pool \ retired)
  BY <1>2, <1>10, FS_Subset, FS_CardinalityType DEF RestOK, Parts
<1> HIDE DEF retired
<1>12. Retired = {} /\ Retired' = {} /\ janitor = {}
  BY <1>1, <1>2 DEF RestOK, Kept, Retired, Retiring
<1>13. Parts' /\ Limits'
  <2>1. Parts /\ Limits
    BY <1>2 DEF RestOK
  <2>2. pool' \in SUBSET Slots /\ janitor' \in SUBSET Slots /\ engines' \in SUBSET Slots
    BY <1>1, <1>10, <1>11, <2>1 DEF Parts
  <2>3. IsFiniteSet(pool') /\ IsFiniteSet(janitor')
    BY <1>1, <1>11
  <2>4. retiring' \in Nat
    BY <1>1, <1>11, <2>1 DEF Parts
  <2>5. Parts'
    BY <1>1, <2>1, <2>2, <2>3, <2>4 DEF Parts
  <2>6. Limits'
    BY <1>1, <2>1 DEF Limits
  <2> QED
    BY <2>5, <2>6
<1>14. Owned'
  <2>1. Held(Lanes') \subseteq pool' \cap engines'
    BY <1>1, <1>2, <1>9 DEF RestOK, Owned
  <2>2. keeper'.pc = "warming" => Held(Lanes') = {}
    BY <1>1, <1>2, <1>9 DEF RestOK, Owned
  <2> QED
    BY <1>1, <2>1, <2>2 DEF Owned
<1>15. Outside'
  BY <1>1, <1>2, <1>10, <1>12 DEF RestOK, Outside
<1>16. Scaled'
  <2>1. pool' \cup ({scaler.slot} \cap Slots) \subseteq pool \cup ({scaler.slot} \cap Slots)
    BY <1>1
  <2>2. Cardinality(pool' \cup ({scaler.slot} \cap Slots)) <= MaxSize
    BY <1>2, <2>1, SmallerFits
  <2> QED
    BY <1>1, <1>2, <1>7, <2>2 DEF RestOK, Scaled
<1>17. Kept'
  <2>1. keeper.pc = "warming" => warming
    BY <1>2 DEF RestOK, Kept
  <2>2. keeper.pc = "warming" => pool' = pool
    BY <1>1, <1>9, <2>1
  <2> QED
    BY <1>1, <1>2, <1>7, <2>2 DEF RestOK, Kept
<1>18. Retiring'
  <2>1. retiring = Num(client, "closing") + Cardinality({}) + Cardinality({})
    BY <1>2, <1>12 DEF RestOK, Retiring
  <2>2. Cardinality({}) = 0 /\ Num(client, "closing") \in Nat
    BY FS_EmptySet, NumIsNat
  <2>3. retiring' = Num(client, "closing") + Cardinality(retired) + 0
    BY <1>1, <1>11, <2>1, <2>2
  <2> QED
    BY <1>1, <1>12, <2>2, <2>3 DEF Retiring
<1>19. NoneIdle'
  BY <1>1 DEF NoneIdle
<1>20. RestOK'
  BY <1>13, <1>14, <1>15, <1>16, <1>17, <1>18, <1>19 DEF RestOK
<1> QED
  BY <1>8, <1>20 DEF RecallInv

LEMMA JanitorStep ==
    ASSUME RecallInv, NEW s \in Slots, JanitorCloses(s)
    PROVE  RecallInv'
<1>1. /\ s \in janitor /\ janitor' = janitor \ {s}
      /\ engines' = engines \ {s} /\ retiring' = retiring - 1
      /\ UNCHANGED <<queueing, pool, closed, warming, scaler, keeper>>
      /\ UNCHANGED <<ready, target, shut, warmups, faults>>
  BY DEF JanitorCloses, repairs, bounds
<1>2. RestOK /\ Lanes' = Lanes /\ client' = client
  BY <1>1 DEF RecallInv, queueing, Lanes
<1>3. Warmed' = Warmed /\ Retired' = Retired
  BY <1>1 DEF Warmed, Retired
<1>4. LanesOK'
  BY <1>1, <1>3, LanesStay DEF RecallInv
<1>5. s \notin pool /\ s # scaler.slot
  BY <1>1, <1>2 DEF RestOK, Outside
<1>6. Kept'
  <2>1. pool \cap engines' = pool \cap engines
    BY <1>1, <1>5
  <2>2. \A T : (pool \ T) \cap engines' = (pool \ T) \cap engines
    BY <2>1
  <2> QED
    BY <1>1, <1>2, <2>2 DEF RestOK, Kept, Scaling
<1>7. /\ retiring > 0
      /\ retiring' = Num(client', "closing") + Cardinality(janitor') + Cardinality(Retired')
  <2>1. retiring = Num(client, "closing") + Cardinality(janitor) + Cardinality(Retired)
    BY <1>2 DEF RestOK, Retiring
  <2>2. IsFiniteSet(janitor) /\ IsFiniteSet(Retired)
    BY <1>2, FS_EmptySet DEF RestOK, Parts, Kept, Retired
  <2>3. /\ Cardinality(janitor') = Cardinality(janitor) - 1 /\ Cardinality(janitor) \in Nat
        /\ Cardinality(janitor') \in Nat /\ Cardinality(Retired) \in Nat
    BY <1>1, <2>2, FS_RemoveElement, FS_CardinalityType
  <2>4. Num(client, "closing") \in Nat
    BY NumIsNat
  <2> QED
    BY <1>1, <1>2, <1>3, <2>1, <2>3, <2>4
<1>8. Limits' /\ NoneIdle'
  BY <1>1, <1>2 DEF RestOK, Limits, NoneIdle, queueing
<1>9. RestOK'
  <2>1. keeper' \in Keeper /\ (keeper'.pc = "warming" <=> keeper.pc = "warming")
    BY <1>1, <1>2 DEF RestOK, Parts
  <2>2. /\ Held(Lanes') = Held(Lanes) /\ ClosedBy(client') \subseteq ClosedBy(client)
        /\ janitor' \subseteq janitor /\ Retired' \subseteq Retired
    BY <1>1, <1>2, <1>3
  <2> QED
    BY <1>1, <1>2, <1>5, <1>6, <1>7, <1>8, <2>1, <2>2, EngineGoes
<1> QED
  BY <1>4, <1>9 DEF RecallInv

-----------------------------------------------------------------------------
(* The invariant *)

(* The pool starts with min_size slots and no engine. *)
LEMMA InitKeeps == Init => RecallInv
<1> SUFFICES ASSUME Init PROVE RecallInv
  OBVIOUS
<1>1. /\ pool = 0..(MinSize - 1) /\ engines = {}
      /\ available = <<>> /\ queues = [t \in Tenants |-> <<>>] /\ order = <<>>
      /\ active = 0 /\ pending = 0 /\ retiring = 0
      /\ closed = FALSE /\ warming = FALSE /\ ready = FALSE /\ target = 0 /\ shut = FALSE
      /\ client = [c \in Clients |-> Idle] /\ scaler = Idle /\ keeper = Rest
      /\ janitor = {} /\ warmups = 0 /\ faults = 0
  BY DEF Init
<1> DEFINE l == Lanes
<1>2. /\ l.available = available /\ l.queues = queues /\ l.order = order
      /\ l.active = active /\ l.pending = pending /\ l.client = client
  BY DEF Lanes
<1> HIDE DEF l
<1>3. /\ Idle.pc = "idle" /\ Idle.slot = NoSlot /\ Idle \in Client /\ Idle \in Scaler
      /\ Rest.pc = "idle" /\ Rest.slots = {} /\ Rest.todo = {} /\ Rest.good = {}
      /\ Rest \in Keeper
  BY DEF Idle, Client, Scaler, Rest, Keeper
<1>4. /\ client \in [Clients -> Client]
      /\ \A c \in Clients : client[c].pc = "idle" /\ client[c].slot = NoSlot
  BY <1>1, <1>3
<1>5. \A pc : pc # "idle" => Num(client, pc) = 0
  BY <1>4, SomeCounted
<1>6. LeasedTo(client) = {} /\ ClosedBy(client) = {}
  BY <1>4 DEF LeasedTo, ClosedBy
<1>7. Warmed = 0 /\ Retired = {} /\ ~Scaling /\ scaler.slot = NoSlot
  BY <1>1, <1>3 DEF Warmed, Retired, Scaling
<1>8. \A S : <<>> \in Seq(S) /\ IsInjective(<<>>) /\ ToSet(<<>>) = {}
  BY EmptyIsInjective
<1>9. LaneOK(l, ~closed, Warmed)
  <2>1. LaneTypes(l)
    BY <1>1, <1>2, <1>4, <1>8 DEF LaneTypes
  <2>2. Roles(l.client)
    BY <1>2, <1>4 DEF Roles
  <2>3. Apart(l)
    BY <1>1, <1>2, <1>4, <1>6, <1>8 DEF Apart, Singly
  <2>4. Lined(l, ~closed)
    BY <1>1, <1>2, <1>4, <1>8 DEF Lined
  <2>5. Counted(l, ~closed, Warmed)
    BY <1>1, <1>2, <1>5, <1>7, RecallPoolAssumption DEF Counted
  <2> QED
    BY <2>1, <2>2, <2>3, <2>4, <2>5 DEF LaneOK
<1>10. /\ pool \in SUBSET Slots /\ IsFiniteSet(pool) /\ Cardinality(pool) = MinSize
  <2>1. MinSize \in Nat /\ MinSize > 0 /\ 0..(MinSize - 1) \subseteq Slots
    BY RecallPoolAssumption
  <2>2. Cardinality(0..(MinSize - 1)) = MinSize
    BY <2>1, FS_Interval
  <2> QED
    BY <1>1, <2>1, <2>2, FS_Interval
<1>11. Cardinality({}) = 0 /\ IsFiniteSet({})
  BY FS_EmptySet
<1>12. Parts /\ Limits
  <2>1. Parts
    BY <1>1, <1>3, <1>10, <1>11 DEF Parts
  <2>2. 0 \in 0..MaxWarmups /\ 0 \in 0..MaxFaults
    BY RecallPoolAssumption
  <2>3. Limits
    BY <1>1, <2>2 DEF Limits
  <2> QED
    BY <2>1, <2>3
<1>13. Held(Lanes) = {}
  BY <1>1, <1>2, <1>6, <1>8 DEF Held, l
<1>14. Owned
  BY <1>1, <1>3, <1>13 DEF Owned
<1>15. Outside
  BY <1>1, <1>6, <1>7, <1>10, RecallPoolAssumption DEF Outside
<1>16. Scaled
  <2>1. pool \cup ({scaler.slot} \cap Slots) = pool
    BY <1>7, RecallPoolAssumption
  <2> QED
    BY <1>1, <1>3, <1>7, <1>10, <2>1, RecallPoolAssumption DEF Scaled
<1>17. Kept
  BY <1>1, <1>3, <1>11 DEF Kept
<1>18. Retiring
  BY <1>1, <1>5, <1>7, <1>11 DEF Retiring
<1>19. NoneIdle
  BY <1>1 DEF NoneIdle
<1>20. LanesOK
  BY <1>9 DEF LanesOK, l
<1> QED
  BY <1>12, <1>14, <1>15, <1>16, <1>17, <1>18, <1>19, <1>20 DEF RecallInv, RestOK

(* Whatever a thread does while it holds the lock, and every engine built  *)
(* or closed outside it, leaves the bookkeeping as it should be.           *)
LEMMA NextKeeps == RecallInv /\ [Next]_vars => RecallInv'
<1> SUFFICES ASSUME RecallInv, [Next]_vars PROVE RecallInv'
  OBVIOUS
<1>1. ASSUME NEW c \in Clients, ClientStep(c) PROVE RecallInv'
  BY <1>1, SeesClosedStep, ReturnStep, CloseSlotStep, ReopenStep DEF ClientStep
<1>2. CASE ScaleStep
  BY <1>2, ScaleStepKeeps, PublishStep DEF ScaleStep
<1>3. CASE KeeperStep
  BY <1>3, WarmTakeStep, WarmEndStep, MaintainEndStep, WarmRetireStep, WarmStep
     DEF KeeperStep
<1>4. CASE UNCHANGED vars
  <2>1. /\ Lanes' = Lanes /\ Warmed' = Warmed /\ Retired' = Retired /\ Scaling' = Scaling
    BY <1>4 DEF vars, Lanes, Warmed, Retired, Scaling
  <2>2. LanesOK'
    BY <1>4, <2>1 DEF RecallInv, LanesOK, vars
  <2>3. Parts' /\ Limits' /\ NoneIdle'
    BY <1>4 DEF RecallInv, RestOK, Parts, Limits, NoneIdle, vars
  <2>4. Owned' /\ Outside' /\ Scaled'
    BY <1>4, <2>1 DEF RecallInv, RestOK, Owned, Outside, Scaled, vars
  <2>5. Kept' /\ Retiring'
    BY <1>4, <2>1 DEF RecallInv, RestOK, Kept, Retiring, vars
  <2> QED
    BY <2>2, <2>3, <2>4, <2>5 DEF RecallInv, RestOK
<1>5. CASE \E c \in Clients :
              \/ Lease(c) \/ Enqueue(c) \/ TimeOut(c) \/ ClientStep(c)
              \/ \E demand \in MinSize..MaxSize : ReturnBroken(c, demand)
  BY <1>1, <1>5, LeaseStep, EnqueueStep, TimeOutStep, ReturnBrokenStep
<1>6. CASE Plan \/ BuildFails \/ WarmUp \/ Maintain \/ Close
  BY <1>6, PlanStep, ScaleStepKeeps, WarmUpStep, CloseStep
<1>7. CASE \E s \in Slots : JanitorCloses(s)
  BY <1>7, JanitorStep
<1> QED
  BY <1>2, <1>3, <1>4, <1>5, <1>6, <1>7 DEF Next

LEMMA RecallHolds == Spec => []RecallInv
BY InitKeeps, NextKeeps, PTL DEF Spec

(* Every variable stays in its range; above all, the number of waiting     *)
(* requests never passes max_pending, and no counter falls below zero      *)
(* (recall_pool.py: execute, _dispatch_locked, close).                     *)
THEOREM PoolTyped == Spec => []TypeOK
<1>1. RecallInv => TypeOK
  <2> SUFFICES ASSUME RecallInv PROVE TypeOK
    OBVIOUS
  <2>1. LaneTypes(Lanes) /\ Counted(Lanes, ~closed, Warmed) /\ Parts /\ Limits
    BY DEF RecallInv, LanesOK, LaneOK, RestOK
  <2>2. /\ available \in Seq(Slots) /\ queues \in [Tenants -> Seq(Clients)]
        /\ order \in Seq(Tenants) /\ active \in Nat /\ pending \in Nat
        /\ client \in [Clients -> Client] /\ pending <= MaxPending
    BY <2>1 DEF LaneTypes, Counted, Lanes
  <2>3. pending \in 0..MaxPending
    BY <2>2, RecallPoolAssumption
  <2> QED
    BY <2>1, <2>2, <2>3 DEF TypeOK, Parts, Limits
<1> QED
  BY <1>1, RecallHolds, PTL

(* As many engines are leased as requests run. *)
LEMMA LeasedAreRunning ==
    ASSUME Singly(client)
    PROVE  Cardinality(Leased) = Number("running")
<1> DEFINE R == {c \in Clients : client[c].pc = "running"}  f == [c \in R |-> client[c].slot]
<1>1. IsFiniteSet(R) /\ Number("running") = Cardinality(R)
  BY NumIsNat DEF Number, At
<1>2. Leased = {client[c].slot : c \in R}
  BY DEF Leased, At
<1>3. f \in Bijection(R, Leased)
  BY <1>2 DEF Bijection, Injection, Surjection, IsInjective, Singly
<1> QED
  BY <1>1, <1>3, FS_Bijection DEF ExistsBijection

(* The bookkeeping of the pool: `_active`, `_pending` and `_retiring` are  *)
(* what they count, whoever waits is in its tenant's queue and its tenant  *)
(* has one turn, no engine is leased twice or lost between a lease and the *)
(* idle slots, none is idle while a request waits, and the pool with the   *)
(* engine being built is never larger than max_size (recall_pool.py).      *)
THEOREM BookkeepingHolds == Spec => []Bookkeeping
<1>1. RecallInv => Bookkeeping
  <2> SUFFICES ASSUME RecallInv PROVE Bookkeeping
    OBVIOUS
  <2>1. /\ Apart(Lanes) /\ Lined(Lanes, ~closed) /\ Counted(Lanes, ~closed, Warmed)
        /\ Owned /\ Scaled /\ Retiring /\ NoneIdle
    BY DEF RecallInv, LanesOK, LaneOK, RestOK
  <2>2. /\ Lanes.available = available /\ Lanes.queues = queues /\ Lanes.order = order
        /\ Lanes.active = active /\ Lanes.pending = pending /\ Lanes.client = client
    BY DEF Lanes
  <2>3. /\ \A pc : Number(pc) = Num(client, pc)
        /\ Leased = LeasedTo(client)
        /\ Held(Lanes) = ToSet(available) \cup Leased
    BY <2>2 DEF Number, Num, At, Leased, LeasedTo, Held
  <2>4. CountsAgree
    <3>1. /\ Warmed = (IF keeper.pc = "warming" THEN Cardinality(keeper.slots) ELSE 0)
          /\ Cardinality(Retired)
                = (IF keeper.pc = "retiring" THEN Cardinality(keeper.todo) ELSE 0)
      BY FS_EmptySet DEF Warmed, Retired
    <3>2. /\ active = Num(client, "running") + Warmed
          /\ pending = (IF closed THEN 0 ELSE Num(client, "waiting"))
      BY <2>1, <2>2 DEF Counted
    <3>3. retiring = Num(client, "closing") + Cardinality(janitor) + Cardinality(Retired)
      BY <2>1 DEF Retiring
    <3> QED
      BY <2>3, <3>1, <3>2, <3>3 DEF CountsAgree
  <2>5. QueuesAgree
    BY <2>1, <2>2 DEF QueuesAgree, Lined, At
  <2>6. EnginesHeld
    <3>1. /\ IsInjective(available) /\ ToSet(available) \cap Leased = {}
          /\ Cardinality(Leased) = Number("running")
      BY <2>1, <2>2, <2>3, LeasedAreRunning DEF Apart
    <3> QED
      BY <2>1, <2>3, <3>1 DEF EnginesHeld, Owned, NoneIdle
  <2> QED
    BY <2>1, <2>4, <2>5, <2>6 DEF Bookkeeping, Scaled
<1> QED
  BY <1>1, RecallHolds, PTL
=============================================================================
