----------------------- MODULE ProviderKeyPoolProofs -----------------------
(***************************************************************************)
(* Proofs about the leases on provider keys, for every set of keys and     *)
(* clients, every cap and every duration.                                  *)
(***************************************************************************)
EXTENDS ProviderKeyPool, FiniteSetTheorems, SequenceTheorems, TLAPS

(* The rows of provider_leases, and how far the windows of the two kinds of*)
(* refusal may reach.                                                      *)
Rows == leases \in [LeaseTokens -> LeaseRow]

Windows == billing \in 0..BillingPause /\ auth \in 0..AuthPause

PoolInv == Rows /\ Windows /\ CircuitCovers /\ LeaseCap

(* What every step but Acquire does to the leases: none comes into force   *)
NoneAdded ==
    /\ Rows'
    /\ \A t \in LeaseTokens : leases'[t].left > 0 =>
          leases[t].left > 0 /\ leases'[t].key = leases[t].key

-----------------------------------------------------------------------------
(* Counting *)

(* The table of leases is finite, so every load is a number. *)
LEMMA LoadIsNat == ASSUME NEW S \in SUBSET LeaseTokens
                   PROVE  IsFiniteSet(S) /\ Cardinality(S) \in Nat
<1> DEFINE n == Cap * Cardinality(Keys) + Cardinality(Workers)
<1>1. Cardinality(Keys) \in Nat /\ Cardinality(Workers) \in Nat
  BY PoolAssumption, FS_CardinalityType
<1>2. Cap * Cardinality(Keys) \in Int
  BY <1>1, PoolAssumption
<1>3. n \in Int
  BY <1>1, <1>2
<1>4. IsFiniteSet(LeaseTokens)
  BY <1>3, FS_Interval DEF LeaseTokens
<1> QED
  BY <1>4, FS_Subset, FS_CardinalityType

(* A step that puts no lease into force keeps every key within its cap. *)
LEMMA CapKept == LeaseCap /\ NoneAdded => LeaseCap'
<1> SUFFICES ASSUME LeaseCap, NoneAdded, NEW k \in Keys
             PROVE  Cardinality(LeasesOf(k)') <= Cap
  BY DEF LeaseCap, Load
<1>1. LeasesOf(k)' \in SUBSET LeasesOf(k)
  BY DEF LeasesOf, Live, NoneAdded
<1>2. IsFiniteSet(LeasesOf(k)) /\ Cardinality(LeasesOf(k)) \in Nat
  BY LoadIsNat DEF LeasesOf
<1>3. Cardinality(LeasesOf(k)') <= Cardinality(LeasesOf(k))
  BY <1>1, <1>2, FS_Subset
<1>4. Cardinality(LeasesOf(k)') \in Nat
  BY LoadIsNat DEF LeasesOf
<1>5. Cardinality(LeasesOf(k)) <= Cap
  BY DEF LeaseCap, Load
<1> QED
  BY <1>2, <1>3, <1>4, <1>5, PoolAssumption

-----------------------------------------------------------------------------
(* Leases *)

(* Acquire puts one lease into force, on a key below its cap. *)
LEMMA AcquireKeepsCap ==
    ASSUME Rows, LeaseCap, NEW w \in Workers, Acquire(w)
    PROVE  Rows' /\ LeaseCap'
<1>1. PICK k \in Preferred : leases' = [Purged EXCEPT ![FreshToken] = [key |-> k, left |-> Lease]]
  BY DEF Acquire
<1>2. k \in Keys /\ Load(k) < Cap
  BY DEF Preferred, Grantable
<1>3. Purged \in [LeaseTokens -> LeaseRow]
  BY PoolAssumption DEF Rows, Purged, LeaseRow, NoLease
<1>4. [key |-> k, left |-> Lease] \in LeaseRow
  BY <1>2, PoolAssumption DEF LeaseRow
<1>5. Rows'
  BY <1>1, <1>3, <1>4 DEF Rows
<1>6. \A j \in Keys : LeasesOf(j)' \subseteq (IF j = k THEN LeasesOf(j) \cup {FreshToken} ELSE LeasesOf(j))
  <2> SUFFICES ASSUME NEW j \in Keys, NEW t \in LeasesOf(j)', t # FreshToken \/ j # k
               PROVE  t \in LeasesOf(j)
    BY DEF LeasesOf
  <2>1. t \in LeaseTokens /\ leases'[t].key = j /\ leases'[t].left > 0
    BY DEF LeasesOf, Live
  <2>2. t # FreshToken
    BY <1>1, <1>3, <2>1 
  <2>3. leases'[t] = Purged[t]
    BY <1>1, <1>3, <2>1, <2>2
  <2>4. leases[t].left > 0 /\ Purged[t] = leases[t]
    BY <2>1, <2>3 DEF Purged, Live, NoLease
  <2> QED
    BY <2>1, <2>3, <2>4 DEF LeasesOf, Live
<1>7. ASSUME NEW j \in Keys PROVE Load(j)' <= Cap
  <2>1. /\ IsFiniteSet(LeasesOf(j)) /\ Cardinality(LeasesOf(j)) \in Nat
        /\ Cardinality(LeasesOf(j)') \in Nat
    BY LoadIsNat DEF LeasesOf
  <2>2. Cardinality(LeasesOf(j)) <= Cap
    BY DEF LeaseCap, Load
  <2>3. CASE j # k
    <3>1. LeasesOf(j)' \in SUBSET LeasesOf(j)
      BY <1>6, <2>3
    <3>2. Cardinality(LeasesOf(j)') <= Cardinality(LeasesOf(j))
      BY <2>1, <3>1, FS_Subset
    <3> QED
      BY <2>1, <2>2, <3>2, PoolAssumption DEF Load
  <2>4. CASE j = k
    <3> DEFINE S == LeasesOf(j) \cup {FreshToken}
    <3>1. LeasesOf(j)' \in SUBSET S
      BY <1>6, <2>4
    <3>2. /\ IsFiniteSet(S)
          /\ \/ Cardinality(S) = Cardinality(LeasesOf(j))
             \/ Cardinality(S) = Cardinality(LeasesOf(j)) + 1
      <4> HIDE DEF S
      <4>1. IsFiniteSet(LeasesOf(j))
        BY <2>1
      <4> QED
        BY <4>1, FS_AddElement, Zenon DEF S
    <3>3. Cardinality(LeasesOf(j)') <= Cardinality(S)
      BY <3>1, <3>2, FS_Subset
    <3>4. Cardinality(LeasesOf(j)) < Cap
      BY <1>2, <2>4 DEF Load
    <3> QED
      BY <2>1, <3>2, <3>3, <3>4, PoolAssumption DEF Load
  <2> QED
    BY <2>3, <2>4
<1> QED
  BY <1>5, <1>7 DEF LeaseCap

(* No other step puts a lease into force: a heartbeat extends only what is *)
(* in force, a release and a purge only remove.                            *)
LEMMA OthersAddNone ==
    ASSUME Rows, [Next]_vars, \A w \in Workers : ~Acquire(w)
    PROVE  NoneAdded
<1> USE PoolAssumption DEF Rows, NoneAdded
<1>1. ASSUME UNCHANGED leases PROVE NoneAdded
  BY <1>1
<1>2. ASSUME Tick PROVE NoneAdded
  <2>1. leases' = [t \in LeaseTokens |-> [leases[t] EXCEPT !.left = Less(@)]]
    BY <1>2, Zenon DEF Tick
  <2>2. ASSUME NEW t \in LeaseTokens
        PROVE  /\ leases'[t] \in LeaseRow /\ leases'[t].key = leases[t].key
               /\ leases'[t].left > 0 => leases[t].left > 0
    <3>1. leases[t] \in LeaseRow /\ leases'[t] = [leases[t] EXCEPT !.left = Less(@)]
      BY <2>1
    <3>2. PICK n \in 0..Lease : n = Less(leases[t].left)
      BY <3>1 DEF LeaseRow, Less
    <3>3. leases'[t] = [leases[t] EXCEPT !.left = n]
      BY <3>1, <3>2, Zenon
    <3> HIDE DEF Rows, NoneAdded
    <3>4. leases'[t] \in LeaseRow /\ leases'[t].key = leases[t].key /\ leases'[t].left = n
      BY <3>1, <3>3 DEF LeaseRow
    <3>5. n > 0 => leases[t].left > 0
      BY <3>1, <3>2 DEF LeaseRow, Less
    <3> QED
      BY <3>4, <3>5
  <2> QED
    BY <2>1, <2>2
<1>3. ASSUME Stats PROVE NoneAdded
  BY <1>3 DEF Stats, Purged, Live, LeaseRow, NoLease
<1>4. ASSUME NEW w \in Workers, Heartbeat(w) PROVE NoneAdded
  <2> DEFINE t == clients[w].token
  <2>1. PICK row : /\ leases' = [leases EXCEPT ![t] = row]
                   /\ row = IF Live(t) THEN [leases[t] EXCEPT !.left = Lease] ELSE NoLease
    BY <1>4, Zenon DEF Heartbeat
  <2>2. t \in LeaseTokens => row \in LeaseRow /\ (row.left > 0 => Live(t) /\ row.key = leases[t].key)
    BY <2>1 DEF Live, LeaseRow, NoLease
  <2> QED
    <3> HIDE DEF t
    <3> QED BY <2>1, <2>2 DEF Live
<1>5. ASSUME NEW w \in Workers, Release(w) PROVE NoneAdded
  <2>1. leases' = [leases EXCEPT ![clients[w].token] = NoLease]
    BY <1>5, Zenon DEF Release
  <2>2. NoLease \in LeaseRow /\ ~(NoLease.left > 0)
    BY DEF NoLease, LeaseRow
  <2>3. Rows'
    BY <2>1, <2>2
  <2>4. \A t \in LeaseTokens : leases'[t] = leases[t] \/ leases'[t] = NoLease
    BY <2>1
  <2> QED
    BY <2>2, <2>3, <2>4
<1>6. ASSUME NEW w \in Workers, Step(w) PROVE NoneAdded
  <2>1. \/ Heartbeat(w) \/ Release(w) \/ UNCHANGED leases
    BY <1>6 DEF Step, Open, Want, GiveUp, Close, Crash, HeartbeatDies
  <2> QED
    BY <2>1, <1>1, <1>4, <1>5
<1> QED
  BY <1>1, <1>2, <1>3, <1>6 DEF Next, vars

-----------------------------------------------------------------------------
(* The circuit *)

(* Opening the circuit for a refusal leaves it as the longer of the two    *)
(* windows asks, whichever was there before.                               *)
LEMMA CircuitOpened ==
    ASSUME CircuitCovers, Windows
    PROVE  /\ billing' = BillingPause /\ auth' = auth /\ circuit' = Opened("billing", BillingPause)
                => Windows' /\ CircuitCovers'
           /\ auth' = AuthPause /\ billing' = billing /\ circuit' = Opened("auth", AuthPause)
                => Windows' /\ CircuitCovers'
<1> USE PoolAssumption DEF CircuitCovers, Windows, Opened, Larger
<1>1. ASSUME billing' = BillingPause, auth' = auth, circuit' = Opened("billing", BillingPause)
      PROVE  Windows' /\ CircuitCovers'
  BY <1>1
<1>2. ASSUME auth' = AuthPause, billing' = billing, circuit' = Opened("auth", AuthPause)
      PROVE  Windows' /\ CircuitCovers'
  BY <1>2
<1> QED
  BY <1>1, <1>2

(* Every step keeps the circuit equal to what the refusals so far ask for. *)
LEMMA CircuitKept ==
    ASSUME CircuitCovers, Windows, [Next]_vars
    PROVE  CircuitCovers' /\ Windows'
<1>1. ASSUME UNCHANGED <<circuit, billing, auth>> PROVE CircuitCovers' /\ Windows'
  BY <1>1 DEF CircuitCovers, Windows, Larger
<1>2. ASSUME Tick PROVE CircuitCovers' /\ Windows'
  BY <1>2, PoolAssumption DEF Tick, Less, CircuitCovers, Windows, Larger
<1>3. ASSUME NEW k, Applied(k) PROVE CircuitCovers' /\ Windows'
  <2>1. ASSUME BillingExhausted(k) PROVE CircuitCovers' /\ Windows'
    BY <2>1, CircuitOpened DEF BillingExhausted
  <2>2. ASSUME FatalError(k) PROVE CircuitCovers' /\ Windows'
    BY <2>2, <1>1, CircuitOpened DEF FatalError
  <2> QED
    BY <1>1, <1>3, <2>1, <2>2
    DEF Applied, Success, RequestError, RateLimited, TransientError
<1>4. ASSUME NEW w \in Workers, Step(w) PROVE CircuitCovers' /\ Windows'
  <2>1. Release(w) \/ UNCHANGED <<circuit, billing, auth>>
    BY <1>4 DEF Step, Open, Want, Acquire, GiveUp, Close, Crash, Heartbeat, HeartbeatDies
  <2>2. ASSUME Release(w) PROVE CircuitCovers' /\ Windows'
    BY <2>2, <1>1, <1>3 DEF Release
  <2> QED
    BY <1>1, <2>1, <2>2
<1> QED
  BY <1>1, <1>2, <1>4 DEF Next, Stats, vars

-----------------------------------------------------------------------------
(* Types.  That acquire finds a token nobody holds is a matter of counting:*)
(* there are not more leases in force than the caps allow, and the client  *)
(* that asks holds none.                                                   *)

(* A lease in force and a call under way are on a key of the pool *)
Keyed ==
    /\ \A t \in LeaseTokens : Live(t) => leases[t].key \in Keys
    /\ \A w \in Workers : clients[w].phase = "calling" => clients[w].key \in Keys

Typed == TypeOK /\ Keyed

InForce == {t \in LeaseTokens : Live(t)}

(* A finite set of n elements can be numbered from 1 to any m >= n. *)
LEMMA Numbering ==
    ASSUME NEW S, IsFiniteSet(S), NEW m \in Nat, Cardinality(S) <= m
    PROVE  \E f \in [S -> 1..m] : \A x, y \in S : f[x] = f[y] => x = y
<1> DEFINE n == Cardinality(S)
<1>1. n \in Nat /\ ExistsBijection(1..n, S)
  BY FS_CardinalityType
<1>2. PICK g \in Bijection(1..n, S) : TRUE
  BY <1>1 DEF ExistsBijection
<1>3. g \in [1..n -> S] /\ \A x \in S : \E i \in 1..n : g[i] = x
  BY <1>2 DEF Bijection, Surjection, Injection
<1> DEFINE f == [x \in S |-> CHOOSE i \in 1..n : g[i] = x]
<1>4. \A x \in S : f[x] \in 1..n /\ g[f[x]] = x
  BY <1>3
<1>5. f \in [S -> 1..m]
  BY <1>1, <1>4
<1>6. \A x, y \in S : f[x] = f[y] => x = y
  <2> HIDE DEF f
  <2> QED
    BY <1>4
<1> HIDE DEF f
<1> QED
  BY <1>5, <1>6

(* All the leases in force together are no more than the caps add up to. *)
LEMMA InForceBounded ==
    ASSUME Rows, LeaseCap, Keyed
    PROVE  /\ IsFiniteSet(InForce)
           /\ Cardinality(InForce) \in Nat
           /\ Cardinality(InForce) <= Cap * Cardinality(Keys)
<1>1. IsFiniteSet(InForce) /\ Cardinality(InForce) \in Nat
  BY LoadIsNat DEF InForce
<1>2. \A k \in Keys : \E f \in [LeasesOf(k) -> 1..Cap] :
          \A x, y \in LeasesOf(k) : f[x] = f[y] => x = y
  <2> SUFFICES ASSUME NEW k \in Keys
               PROVE  \E f \in [LeasesOf(k) -> 1..Cap] :
                          \A x, y \in LeasesOf(k) : f[x] = f[y] => x = y
    OBVIOUS
  <2>1. IsFiniteSet(LeasesOf(k)) /\ Cardinality(LeasesOf(k)) <= Cap
    BY LoadIsNat DEF LeasesOf, LeaseCap, Load
  <2> HIDE DEF LeasesOf
  <2> QED
    BY <2>1, Numbering, PoolAssumption
<1> DEFINE no(k) == CHOOSE f \in [LeasesOf(k) -> 1..Cap] :
                        \A x, y \in LeasesOf(k) : f[x] = f[y] => x = y
           seat == [t \in InForce |-> <<leases[t].key, no(leases[t].key)[t]>>]
<1>3. \A k \in Keys : /\ no(k) \in [LeasesOf(k) -> 1..Cap]
                      /\ \A x, y \in LeasesOf(k) : no(k)[x] = no(k)[y] => x = y
  BY <1>2
<1>4. \A t \in InForce : leases[t].key \in Keys /\ t \in LeasesOf(leases[t].key)
  BY DEF InForce, Keyed, LeasesOf
<1> HIDE DEF no
<1>5. seat \in Injection(InForce, Keys \X (1..Cap))
  <2>1. seat \in [InForce -> Keys \X (1..Cap)]
    BY <1>3, <1>4
  <2>2. \A x, y \in InForce : seat[x] = seat[y] => x = y
    <3> SUFFICES ASSUME NEW x \in InForce, NEW y \in InForce, seat[x] = seat[y] PROVE x = y
      OBVIOUS
    <3>1. leases[x].key = leases[y].key /\ no(leases[x].key)[x] = no(leases[x].key)[y]
      OBVIOUS
    <3> QED
      BY <1>3, <1>4, <3>1
  <2> QED
    BY <2>1, <2>2 DEF Injection, IsInjective
<1>6. /\ IsFiniteSet(Keys \X (1..Cap))
      /\ Cardinality(Keys \X (1..Cap)) = Cardinality(Keys) * Cap
  <2>1. IsFiniteSet(1..Cap) /\ Cardinality(1..Cap) = Cap
    <3>1. Cap \in Int /\ 1 <= Cap /\ Cap - 1 + 1 = Cap
      BY PoolAssumption
    <3> QED
      BY <3>1, FS_Interval
  <2> QED
    BY <2>1, FS_Product, PoolAssumption
<1>7. Cardinality(InForce) <= Cardinality(Keys) * Cap
  <2> HIDE DEF seat
  <2> QED
    BY <1>5, <1>6, FS_Injection
<1>8. Cardinality(Keys) * Cap = Cap * Cardinality(Keys)
  BY PoolAssumption, FS_CardinalityType
<1> QED
  BY <1>1, <1>7, <1>8

(* A client that holds nothing finds a token that is free. *)
LEMMA TokenIsFree ==
    ASSUME Typed, LeaseCap, NEW w \in Workers, clients[w].phase = "waiting"
    PROVE  /\ FreshToken \in LeaseTokens /\ ~Live(FreshToken)
           /\ \A x \in Workers : clients[x].token # FreshToken
<1> DEFINE c == Cap * Cardinality(Keys)
           n == Cardinality(Workers)
           Others == Workers \ {w}
           Held == {t \in LeaseTokens : \E x \in Workers : clients[x].token = t}
<1>1. c \in Nat /\ n \in Nat /\ LeaseTokens = 1..(c + n)
  <2>1. Cardinality(Keys) \in Nat /\ n \in Nat
    BY PoolAssumption, FS_CardinalityType
  <2>2. c \in Nat
    BY <2>1, PoolAssumption
  <2> QED
    BY <2>1, <2>2 DEF LeaseTokens
<1>2. IsFiniteSet(Others) /\ Cardinality(Others) = n - 1
  BY PoolAssumption, FS_RemoveElement
<1>3. IsFiniteSet(Held) /\ Cardinality(Held) \in Nat /\ Cardinality(Held) <= n - 1
  <2>1. \A t \in Held : \E x \in Others : clients[x].token = t
    <3>1. clients[w].token = 0
      BY DEF Typed, TypeOK
    <3>2. 0 \notin LeaseTokens
      BY <1>1
    <3> QED
      BY <3>1, <3>2
  <2> DEFINE holder == [t \in Held |-> CHOOSE x \in Others : clients[x].token = t]
  <2>2. holder \in [Held -> Others] /\ \A t \in Held : clients[holder[t]].token = t
    BY <2>1
  <2>3. holder \in Injection(Held, Others)
    <3> HIDE DEF holder
    <3> QED
      BY <2>2 DEF Injection, IsInjective
  <2>4. IsFiniteSet(Held) /\ Cardinality(Held) <= Cardinality(Others)
    <3> HIDE DEF holder, Held, Others
    <3> QED
      BY <1>2, <2>3, FS_Injection
  <2> QED
    <3> HIDE DEF Held, Others
    <3> QED
      BY <1>2, <2>4, FS_CardinalityType
<1>4. IsFiniteSet(InForce) /\ Cardinality(InForce) \in Nat /\ Cardinality(InForce) <= c
  BY InForceBounded DEF Typed, TypeOK, Rows
<1>5. \E t \in LeaseTokens : t \notin InForce /\ t \notin Held
  <2>1. IsFiniteSet(InForce \cup Held) /\ Cardinality(InForce \cup Held) <= c + n - 1
    <3> HIDE DEF c, n, Held
    <3>1. Cardinality(InForce \cap Held) \in Nat
      BY <1>3, FS_Subset, FS_CardinalityType
    <3>2. /\ IsFiniteSet(InForce \cup Held)
          /\ Cardinality(InForce \cup Held)
                = Cardinality(InForce) + Cardinality(Held) - Cardinality(InForce \cap Held)
      BY <1>3, <1>4, FS_Union
    <3> QED
      BY <1>1, <1>3, <1>4, <3>1, <3>2
  <2>2. Cardinality(LeaseTokens) = c + n
    <3> HIDE DEF c, n
    <3> QED
      BY <1>1, FS_Interval
  <2>3. ~ (LeaseTokens \subseteq InForce \cup Held)
    <3> SUFFICES ASSUME LeaseTokens \subseteq InForce \cup Held PROVE FALSE
      OBVIOUS
    <3> HIDE DEF c, n, Held
    <3>1. Cardinality(LeaseTokens) <= Cardinality(InForce \cup Held)
      BY <2>1, FS_Subset
    <3>2. Cardinality(InForce \cup Held) \in Nat
      BY <2>1, FS_CardinalityType
    <3> QED
      BY <1>1, <2>1, <2>2, <3>1, <3>2
  <2> QED
    BY <2>3
<1>6. \E t \in LeaseTokens : ~Live(t) /\ \A x \in Workers : clients[x].token # t
  BY <1>5 DEF InForce
<1> QED
  BY <1>6, Zenon DEF FreshToken

-----------------------------------------------------------------------------
(* Theorems *)

LEMMA PoolInit == Init => PoolInv
<1> SUFFICES ASSUME Init PROVE PoolInv
  OBVIOUS
<1> USE PoolAssumption DEF Init
<1>1. Rows
  BY DEF Rows, LeaseRow, NoLease
<1>2. Windows /\ CircuitCovers
  BY DEF Windows, CircuitCovers, Larger
<1>3. \A k \in Keys : LeasesOf(k) = {}
  BY DEF LeasesOf, Live, NoLease
<1>4. LeaseCap
  <2>1. \A k \in Keys : Load(k) = 0
    BY <1>3, FS_EmptySet, Zenon DEF Load
  <2> QED
    BY <2>1 DEF LeaseCap
<1> QED
  BY <1>1, <1>2, <1>4 DEF PoolInv

LEMMA PoolNext == PoolInv /\ [Next]_vars => PoolInv'
<1> SUFFICES ASSUME PoolInv, [Next]_vars PROVE PoolInv'
  OBVIOUS
<1>1. CircuitCovers' /\ Windows'
  BY CircuitKept DEF PoolInv
<1>2. Rows' /\ LeaseCap'
  <2>1. CASE \E w \in Workers : Acquire(w)
    BY <2>1, AcquireKeepsCap DEF PoolInv
  <2>2. CASE \A w \in Workers : ~Acquire(w)
    BY <2>2, OthersAddNone, CapKept DEF PoolInv, NoneAdded
  <2> QED
    BY <2>1, <2>2
<1> QED
  BY <1>1, <1>2 DEF PoolInv

LEMMA PoolAlways == Spec => []PoolInv
  BY PoolInit, PoolNext, PTL DEF Spec

(* However many clients crash, stop extending a lease or come back late,   *)
(* no key ever has more leases in force than its cap.                      *)
THEOREM KeysWithinCap == Spec => []LeaseCap
<1>1. PoolInv => LeaseCap
  BY DEF PoolInv
<1> QED
  BY <1>1, PoolAlways, PTL

(* The circuit is open exactly as long as some refused payment or some loss*)
(* of the last accepted key asks for it, and carries the reason that lasts *)
(* longer, whatever the calls under way report meanwhile.                  *)
THEOREM CircuitIsFaithful == Spec => []CircuitCovers
<1>1. PoolInv => CircuitCovers
  BY DEF PoolInv
<1> QED
  BY <1>1, PoolAlways, PTL

(* While one of these windows lasts nobody is given a lease. *)
THEOREM ClosedPoolGrantsNothing == Spec => NoGrantWhileClosed
<1>1. PoolInv /\ [Next]_vars => [Granted => billing = 0 /\ auth = 0]_vars
  <2> SUFFICES ASSUME PoolInv, [Next]_vars, Granted PROVE billing = 0 /\ auth = 0
    OBVIOUS
  <2>1. CASE \E w \in Workers : Acquire(w)
    <3>1. circuit.left = 0
      BY <2>1 DEF Acquire
    <3> QED
      BY <3>1 DEF PoolInv, CircuitCovers, Windows, Larger
  <2>2. CASE \A w \in Workers : ~Acquire(w)
    <3>1. NoneAdded
      BY <2>2, OthersAddNone DEF PoolInv
    <3>2. PICK t \in LeaseTokens : leases'[t].left > leases[t].left /\ ~Live(t)
      BY DEF Granted
    <3>3. leases[t].left \in Nat /\ leases'[t].left \in Nat
      BY <3>1, PoolAssumption DEF NoneAdded, PoolInv, Rows, LeaseRow
    <3> QED
      BY <3>1, <3>2, <3>3 DEF NoneAdded, Live
  <2> QED
    BY <2>1, <2>2
<1> QED
  BY <1>1, PoolAlways, PTL DEF Spec, NoGrantWhileClosed


(* Acquire moves the granted key to the end of the order of use. *)
LEMMA UsedIsTyped ==
    ASSUME recent \in Seq(Keys), NEW k \in Keys
    PROVE  Used(k) \in Seq(Keys)
<1>1. LastUsed(k) # 0 => RemoveAt(recent, LastUsed(k)) \in Seq(Keys)
  <2> SUFFICES ASSUME LastUsed(k) # 0
               PROVE  RemoveAt(recent, LastUsed(k)) \in Seq(Keys)
    OBVIOUS
  <2>1. k \in ToSet(recent) /\ LastUsed(k) = CHOOSE i \in 1..Len(recent) : recent[i] = k
    BY DEF LastUsed
  <2>2. LastUsed(k) \in 1..Len(recent)
    BY <2>1 DEF ToSet
  <2>3. \A i \in 1..Len(recent) : recent[i] \in Keys
    OBVIOUS
  <2> DEFINE m == LastUsed(k)
  <2> HIDE DEF m
  <2>4. SubSeq(recent, 1, m - 1) \in Seq(Keys) /\ SubSeq(recent, m + 1, Len(recent)) \in Seq(Keys)
    BY <2>2, <2>3, SubSeqProperties DEF m
  <2>5. SubSeq(recent, 1, m - 1) \o SubSeq(recent, m + 1, Len(recent)) \in Seq(Keys)
    BY <2>4, ConcatProperties
  <2> QED
    BY <2>5 DEF RemoveAt, m
<1> QED
  BY <1>1 DEF Used

(* What a call reports leaves keys that are keys and a circuit that is one. *)
LEMMA AppliedTyped ==
    ASSUME TypeOK, NEW k \in Keys, Applied(k)
    PROVE  /\ keys' \in [Keys -> Key] /\ circuit' \in Circuit
           /\ billing' \in Nat /\ auth' \in Nat /\ paused' \in Nat
<1>1. Backoffs \in [1..Len(Backoffs) -> Nat] /\ Len(Backoffs) \in Nat /\ Len(Backoffs) >= 1
  BY PoolAssumption
<1> DEFINE L == Len(Backoffs)
<1> HIDE DEF L
<1>2. \A m, n \in Nat : Larger(m, n) \in Nat
  BY DEF Larger
<1>3. \A j \in Keys : keys[j] \in Key
  BY DEF TypeOK
<1>4. \A key \in Key, n \in Nat : Cooled(key, n) \in Key
  BY <1>2 DEF Cooled, Key
<1>5. \A n \in Nat : AllCooled(n) \in [Keys -> Key]
  BY <1>3, <1>4 DEF AllCooled
<1>6. \A s \in 0..L : OneMore(s) \in 1..L
  BY <1>1 DEF OneMore, L
<1>7. \A p \in Nat : Opened("billing", p) \in Circuit /\ Opened("auth", p) \in Circuit
  BY <1>2 DEF Opened, Circuit, TypeOK
<1>8. \A key \in Key, s \in 0..L, n \in Nat :
          /\ [key EXCEPT !.streak = s] \in Key
          /\ [key EXCEPT !.streak = s, !.cool = n] \in Key
  BY DEF Key, L
<1>9. 0 \in 0..L /\ 1..L \subseteq 0..L
  BY <1>1 DEF L
<1>10. \A key \in Key : key.streak \in 0..L
  BY DEF Key, L
<1>11. CASE Success(k)
  <2> DEFINE r == [keys[k] EXCEPT !.streak = 0, !.cool = 0]
  <2>1. keys' = [keys EXCEPT ![k] = r] /\ UNCHANGED <<circuit, billing, auth, paused>>
    BY <1>11 DEF Success, TypeOK
  <2>2. r \in Key
    BY <1>3, <1>8, <1>9
  <2> HIDE DEF r
  <2> QED
    BY <2>1, <2>2 DEF TypeOK
<1>12. CASE RequestError(k)
  BY <1>12 DEF RequestError, TypeOK
<1>13. ASSUME NEW after \in RetryAfters, RateLimited(k, after)
       PROVE  /\ keys' \in [Keys -> Key] /\ circuit' \in Circuit
              /\ billing' \in Nat /\ auth' \in Nat /\ paused' \in Nat
  <2> DEFINE pause == IF after = 0 THEN Backoffs[1] ELSE after
  <2>1. pause \in Nat
    <3>1. after \in Nat
      BY PoolAssumption
    <3>2. Backoffs[1] \in Nat
      BY <1>1
    <3> QED
      BY <3>1, <3>2
  <2>2. keys' = AllCooled(pause) /\ paused' = Larger(paused, pause) /\ UNCHANGED <<circuit, billing, auth>>
    BY <1>13, Zenon DEF RateLimited
  <2> HIDE DEF pause
  <2> QED
    BY <1>2, <1>5, <2>1, <2>2 DEF TypeOK
<1>14. CASE BillingExhausted(k)
  <2> DEFINE rest == AllCooled(BillingPause)
  <2>1. keys' = [rest EXCEPT ![k].streak = OneMore(@)] /\ circuit' = Opened("billing", BillingPause)
        /\ billing' = BillingPause /\ UNCHANGED <<auth, paused>>
    BY <1>14, Zenon DEF BillingExhausted
  <2>2. rest \in [Keys -> Key] /\ rest[k] \in Key
    BY <1>5, PoolAssumption
  <2> HIDE DEF rest
  <2> DEFINE n == OneMore(rest[k].streak)
             r == [rest[k] EXCEPT !.streak = n]
  <2>3. n \in 0..L
    BY <1>6, <1>9, <1>10, <2>2
  <2>4. keys' = [rest EXCEPT ![k] = r]
    BY <2>1, Zenon
  <2> HIDE DEF n
  <2>5. r \in Key
    BY <1>8, <2>2, <2>3
  <2> HIDE DEF r
  <2>6. keys' \in [Keys -> Key]
    BY <2>2, <2>4, <2>5
  <2> QED
    BY <1>7, <2>1, <2>6, PoolAssumption DEF TypeOK
<1>15. CASE FatalError(k)
  <2> DEFINE cooled == Cooled(keys[k], AuthPause)
             n == OneMore(cooled.streak)
             r == [cooled EXCEPT !.streak = n]
  <2>1. keys' = [keys EXCEPT ![k] = r]
    BY <1>15, Zenon DEF FatalError
  <2>2. cooled \in Key
    BY <1>3, <1>4, PoolAssumption
  <2> HIDE DEF cooled
  <2>3. n \in 0..L
    BY <1>6, <1>9, <1>10, <2>2
  <2> HIDE DEF n
  <2>4. r \in Key
    BY <1>8, <2>2, <2>3
  <2> HIDE DEF r
  <2>5. keys' \in [Keys -> Key]
    BY <2>1, <2>4 DEF TypeOK
  <2>6. \/ circuit' = Opened("auth", AuthPause) /\ auth' = AuthPause
        \/ UNCHANGED <<circuit, auth>>
    BY <1>15, Zenon DEF FatalError
  <2>7. UNCHANGED <<billing, paused>>
    BY <1>15, Zenon DEF FatalError
  <2> QED
    BY <1>7, <2>5, <2>6, <2>7, PoolAssumption DEF TypeOK
<1>16. ASSUME NEW after \in RetryAfters, TransientError(k, after)
       PROVE  /\ keys' \in [Keys -> Key] /\ circuit' \in Circuit
              /\ billing' \in Nat /\ auth' \in Nat /\ paused' \in Nat
  <2> DEFINE s == OneMore(keys[k].streak)
             n == Larger(Backoffs[s], after)
             r == [keys[k] EXCEPT !.streak = s, !.cool = n]
  <2>1. /\ keys' = [keys EXCEPT ![k].streak = s, ![k].cool = n]
        /\ UNCHANGED <<circuit, billing, auth, paused>>
    BY <1>16, Zenon DEF TransientError
  <2>2. s \in 1..L /\ s \in 0..L
    BY <1>3, <1>6, <1>9, <1>10
  <2>3. n \in Nat
    <3>1. after \in Nat
      BY PoolAssumption
    <3> HIDE DEF s
    <3>2. Backoffs[s] \in Nat
      BY <1>1, <2>2 DEF L
    <3> QED
      BY <1>2, <3>1, <3>2
  <2> HIDE DEF s, n
  <2>4. r \in Key
    BY <1>3, <1>8, <2>2, <2>3
  <2>5. keys' = [keys EXCEPT ![k] = r]
    BY <2>1 DEF TypeOK
  <2> HIDE DEF r
  <2>6. keys' \in [Keys -> Key]
    BY <2>4, <2>5 DEF TypeOK
  <2> QED
    BY <2>1, <2>6 DEF TypeOK
<1> QED
  BY <1>11, <1>12, <1>13, <1>14, <1>15, <1>16 DEF Applied

LEMMA TypedInit == Init => Typed
<1> SUFFICES ASSUME Init PROVE Typed
  OBVIOUS
<1>1. keys \in [Keys -> Key]
  BY PoolAssumption DEF Init, Key
<1>2. \A w \in Workers : Idle("out") \in Client /\ clients[w] = Idle("out")
  BY PoolAssumption DEF Init, Idle, Client
<1>3. leases \in [LeaseTokens -> LeaseRow] /\ \A t \in LeaseTokens : ~Live(t)
  BY PoolAssumption DEF Init, NoLease, LeaseRow, Live
<1>4. circuit \in Circuit /\ recent \in Seq(Keys) /\ billing \in Nat /\ auth \in Nat /\ paused \in Nat
  BY DEF Init, Circuit
<1>5. clients \in [Workers -> Client]
  BY <1>2 DEF Init
<1>6. \A w \in Workers : clients[w].phase = "out" /\ clients[w].token = 0
  BY <1>2 DEF Idle
<1> QED
  BY <1>1, <1>3, <1>4, <1>5, <1>6 DEF Typed, TypeOK, Keyed

(* Every step keeps the clients typed: a client calls exactly while it has *)
(* a token, on a key of the pool.                                          *)
Clients ==
    /\ clients \in [Workers -> Client]
    /\ \A w \in Workers : /\ clients[w].phase = "calling" <=> clients[w].token # 0
                          /\ clients[w].phase = "calling" => clients[w].key \in Keys

LEMMA ClientKept ==
    ASSUME Clients, NEW w \in Workers, NEW c \in Client,
           c.phase = "calling" <=> c.token # 0, c.phase = "calling" => c.key \in Keys,
           clients' = [clients EXCEPT ![w] = c]
    PROVE  Clients'
  BY DEF Clients

LEMMA ClientsNext == Typed /\ LeaseCap /\ [Next]_vars => Clients'
<1> SUFFICES ASSUME Typed, LeaseCap, [Next]_vars PROVE Clients'
  OBVIOUS
<1> USE PoolAssumption
<1>1. Clients
  BY DEF Typed, TypeOK, Keyed, Clients
<1>2. ASSUME UNCHANGED clients PROVE Clients'
  BY <1>1, <1>2 DEF Clients
<1>3. \A p \in {"out", "idle"} : /\ Idle(p) \in Client /\ Idle(p).phase # "calling"
                                 /\ Idle(p).token = 0
  BY DEF Idle, Client
<1>4. ASSUME NEW w \in Workers, NEW p \in {"out", "idle"}, clients' = [clients EXCEPT ![w] = Idle(p)]
      PROVE  Clients'
  BY <1>1, <1>3, <1>4, ClientKept
<1>5. ASSUME Tick PROVE Clients'
  <2>1. clients' = [w \in Workers |-> [clients[w] EXCEPT !.wait = Less(@)]]
    BY <1>5, Zenon DEF Tick
  <2>2. ASSUME NEW w \in Workers
        PROVE  /\ clients'[w] \in Client /\ clients'[w].phase = clients[w].phase
               /\ clients'[w].token = clients[w].token /\ clients'[w].key = clients[w].key
    <3>1. clients[w] \in Client /\ Less(clients[w].wait) \in 0..Patience
      BY <1>1 DEF Clients, Client, Less
    <3> QED
      BY <2>1, <3>1 DEF Client
  <2> QED
    BY <1>1, <2>1, <2>2 DEF Clients
<1>6. ASSUME NEW w \in Workers, Acquire(w) PROVE Clients'
  <2>1. PICK k \in Preferred :
            clients' = [clients EXCEPT ![w] =
               IF k \in KeysOf[w]
               THEN [phase |-> "calling", wait |-> 0, key |-> k,
                     token |-> FreshToken, beating |-> TRUE]
               ELSE Idle("out")]
    BY <1>6, Zenon DEF Acquire
  <2>2. k \in Keys
    BY DEF Preferred
  <2>3. FreshToken \in LeaseTokens
    BY <1>6, TokenIsFree DEF Acquire
  <2>4. FreshToken # 0
    BY <2>3, PoolAssumption, FS_CardinalityType DEF LeaseTokens
  <2> DEFINE c == [phase |-> "calling", wait |-> 0, key |-> k,
                   token |-> FreshToken, beating |-> TRUE]
  <2>5. c \in Client /\ c.phase = "calling" /\ c.token # 0 /\ c.key \in Keys
    BY <2>2, <2>3, <2>4 DEF Client
  <2> HIDE DEF c
  <2>6. CASE k \in KeysOf[w]
    <3>1. clients' = [clients EXCEPT ![w] = c]
      BY <2>1, <2>6, Zenon DEF c
    <3> QED
      BY <1>1, <2>5, <3>1, ClientKept
  <2>7. CASE k \notin KeysOf[w]
    BY <1>4, <2>1, <2>7
  <2> QED
    BY <2>6, <2>7
<1>7. ASSUME NEW w \in Workers, Want(w) PROVE Clients'
  <2> DEFINE c == [clients[w] EXCEPT !.phase = "waiting", !.wait = Patience]
  <2>1. clients' = [clients EXCEPT ![w] = c]
    BY <1>7 DEF Want
  <2>2. c \in Client /\ c.phase # "calling" /\ c.token = 0
    <3>1. clients[w] \in Client /\ clients[w].token = 0
      BY <1>1, <1>7 DEF Want, Clients
    <3>2. Patience \in 0..Patience
      OBVIOUS
    <3>3. c \in Client
      BY <3>1, <3>2 DEF Client
    <3>4. c.phase = "waiting" /\ c.token = clients[w].token
      BY <3>1 DEF Client
    <3> QED
      BY <3>1, <3>3, <3>4
  <2> HIDE DEF c
  <2> QED
    BY <1>1, <2>1, <2>2, ClientKept
<1>8. ASSUME NEW w \in Workers, Heartbeat(w) \/ HeartbeatDies(w) PROVE Clients'
  <2>1. PICK b \in BOOLEAN : clients' = [clients EXCEPT ![w].beating = b]
    <3>1. CASE Heartbeat(w)
      <4> DEFINE b == Live(clients[w].token)
      <4>1. clients' = [clients EXCEPT ![w].beating = b]
        BY <3>1, Zenon DEF Heartbeat
      <4>2. b \in BOOLEAN
        BY DEF Live
      <4> HIDE DEF b
      <4> QED
        BY <4>1, <4>2
    <3>2. CASE HeartbeatDies(w)
      BY <3>2 DEF HeartbeatDies
    <3> QED
      BY <1>8, <3>1, <3>2
  <2> DEFINE c == [clients[w] EXCEPT !.beating = b]
  <2>2. /\ c \in Client /\ c.phase = clients[w].phase /\ c.token = clients[w].token
        /\ c.key = clients[w].key
    BY <1>1 DEF Clients, Client
  <2>3. clients' = [clients EXCEPT ![w] = c]
    BY <2>1
  <2> HIDE DEF c
  <2> QED
    BY <1>1, <2>2, <2>3, ClientKept DEF Clients
<1>9. ASSUME NEW w \in Workers, Step(w) PROVE Clients'
  <2>1. CASE Open(w) \/ Close(w) \/ Crash(w)
    BY <1>4, <2>1 DEF Open, Close, Crash
  <2>2. CASE GiveUp(w) \/ Release(w)
    BY <1>4, <2>2 DEF GiveUp, Release
  <2> QED
    BY <1>6, <1>7, <1>8, <1>9, <2>1, <2>2 DEF Step
<1> QED
  BY <1>2, <1>5, <1>9 DEF Next, Stats, vars

LEMMA TypedNext == Typed /\ LeaseCap /\ [Next]_vars => Typed'
<1> SUFFICES ASSUME Typed, LeaseCap, [Next]_vars PROVE Typed'
  OBVIOUS
<1> USE PoolAssumption
<1>1. Clients'
  BY ClientsNext
<1>2. Rows' /\ \A t \in LeaseTokens : Live(t)' => leases'[t].key \in Keys
  <2>1. ASSUME NEW w \in Workers, Acquire(w)
        PROVE  \A t \in LeaseTokens : leases'[t].left > 0 => leases'[t].key \in Keys
    <3>1. PICK k \in Preferred : leases' = [Purged EXCEPT ![FreshToken] = [key |-> k, left |-> Lease]]
      BY <2>1 DEF Acquire
    <3>2. k \in Keys
      BY DEF Preferred
    <3>3. \A t \in LeaseTokens : Purged[t].left > 0 => Purged[t].key \in Keys
      BY DEF Purged, NoLease, Typed, Keyed, Live
    <3>4. Purged \in [LeaseTokens -> LeaseRow]
      BY DEF Typed, TypeOK, Purged, LeaseRow, NoLease
    <3> QED
      BY <3>1, <3>2, <3>3, <3>4
  <2>2. CASE \E w \in Workers : Acquire(w)
    BY <2>1, <2>2, AcquireKeepsCap DEF Typed, TypeOK, Rows, Live
  <2>3. CASE \A w \in Workers : ~Acquire(w)
    <3>1. NoneAdded
      BY <2>3, OthersAddNone DEF Typed, TypeOK, Rows
    <3> QED
      BY <3>1 DEF NoneAdded, Typed, Keyed, Live
  <2> QED
    BY <2>2, <2>3
<1>3. recent' \in Seq(Keys)
  <2>1. ASSUME NEW w \in Workers, Acquire(w) PROVE recent' \in Seq(Keys)
    BY <2>1, UsedIsTyped DEF Acquire, Preferred, Typed, TypeOK
  <2>2. (\E w \in Workers : Acquire(w)) \/ UNCHANGED recent
    BY DEF Next, Step, vars, Tick, Stats, Open, Want, GiveUp, Close, Crash, Heartbeat,
           HeartbeatDies, Release
  <2> QED
    BY <2>1, <2>2 DEF Typed, TypeOK
<1>4. /\ keys' \in [Keys -> Key] /\ circuit' \in Circuit
      /\ billing' \in Nat /\ auth' \in Nat /\ paused' \in Nat
  <2>1. ASSUME UNCHANGED <<keys, circuit, billing, auth, paused>>
        PROVE  /\ keys' \in [Keys -> Key] /\ circuit' \in Circuit
               /\ billing' \in Nat /\ auth' \in Nat /\ paused' \in Nat
    BY <2>1 DEF Typed, TypeOK
  <2>2. ASSUME Tick
        PROVE  /\ keys' \in [Keys -> Key] /\ circuit' \in Circuit
               /\ billing' \in Nat /\ auth' \in Nat /\ paused' \in Nat
    <3>1. \A n \in Nat : Less(n) \in Nat
      BY DEF Less
    <3>2. \A key \in Key, n \in Nat : [key EXCEPT !.cool = n] \in Key /\ key.cool \in Nat
      BY DEF Key
    <3>3. \A k \in Keys : [keys[k] EXCEPT !.cool = Less(@)] \in Key
      BY <3>1, <3>2 DEF Typed, TypeOK
    <3>4. keys' \in [Keys -> Key]
      BY <2>2, <3>3 DEF Tick
    <3>5. circuit' \in Circuit
      <4>1. circuit \in Circuit /\ circuit.left \in Nat
        BY DEF Typed, TypeOK, Circuit
      <4>2. CASE circuit.left > 1
        <5>1. circuit' = [circuit EXCEPT !.left = @ - 1]
          BY <2>2, <4>2 DEF Tick
        <5>2. circuit.left - 1 \in Nat
          BY <4>1, <4>2
        <5> QED
          BY <4>1, <5>1, <5>2 DEF Circuit
      <4>3. CASE ~ (circuit.left > 1)
        BY <2>2, <4>3 DEF Tick, Circuit
      <4> QED
        BY <4>2, <4>3
    <3> QED
      BY <2>2, <3>1, <3>4, <3>5 DEF Tick, Typed, TypeOK
  <2>3. ASSUME NEW w \in Workers, Open(w)
        PROVE  /\ keys' \in [Keys -> Key] /\ circuit' \in Circuit
               /\ billing' \in Nat /\ auth' \in Nat /\ paused' \in Nat
    <3>1. \A key \in Key, b \in BOOLEAN : [key EXCEPT !.enabled = b] \in Key
      BY DEF Key
    <3>2. \A k \in Keys : [keys[k] EXCEPT !.enabled = k \in KeysOf[w]] \in Key
      <4> SUFFICES ASSUME NEW k \in Keys
                   PROVE  [keys[k] EXCEPT !.enabled = k \in KeysOf[w]] \in Key
        OBVIOUS
      <4> DEFINE b == k \in KeysOf[w]
      <4>1. b \in BOOLEAN /\ keys[k] \in Key
        BY DEF Typed, TypeOK
      <4> HIDE DEF b
      <4>2. [keys[k] EXCEPT !.enabled = b] \in Key
        BY <3>1, <4>1
      <4> QED
        BY <4>2 DEF b
    <3> QED
      BY <2>3, <3>2 DEF Open, Typed, TypeOK
  <2>4. ASSUME NEW w \in Workers, Release(w)
        PROVE  /\ keys' \in [Keys -> Key] /\ circuit' \in Circuit
               /\ billing' \in Nat /\ auth' \in Nat /\ paused' \in Nat
    <3>1. clients[w].key \in Keys
      BY <2>4 DEF Release, Typed, Keyed
    <3>2. Applied(clients[w].key) \/ UNCHANGED <<keys, circuit, billing, auth, paused>>
      BY <2>4 DEF Release
    <3> QED
      BY <2>1, <3>1, <3>2, AppliedTyped DEF Typed
  <2> QED
    BY <2>1, <2>2, <2>3, <2>4
    DEF Next, Step, vars, Stats, Want, Acquire, GiveUp, Close, Crash, Heartbeat, HeartbeatDies
<1> QED
  BY <1>1, <1>2, <1>3, <1>4 DEF Typed, TypeOK, Keyed, Clients, Rows

(* In every reachable state the tables and the clients have their types,   *)
(* and a client has a token exactly while its call is under way: acquire   *)
(* never runs out of tokens, whatever the numbers of keys and clients.     *)
THEOREM TypesHold == Spec => []TypeOK
<1>1. Init => PoolInv /\ Typed
  BY PoolInit, TypedInit
<1>2. (PoolInv /\ Typed) /\ [Next]_vars => (PoolInv /\ Typed)'
  BY PoolNext, TypedNext DEF PoolInv
<1>3. PoolInv /\ Typed => TypeOK
  BY DEF Typed
<1> QED
  BY <1>1, <1>2, <1>3, PTL DEF Spec
=============================================================================
