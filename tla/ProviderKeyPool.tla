-------------------------- MODULE ProviderKeyPool --------------------------
(***************************************************************************)
(* Leases on the credentials of a model provider (provider_pool.py), shared*)
(* by every writer process through the tables provider_keys,               *)
(* provider_leases and provider_circuits, and the clients that take them   *)
(* around each call (LeasedDeepSeekClient in writer.py).                   *)
(*                                                                         *)
(* Every operation is one BEGIN IMMEDIATE transaction that reads the clock *)
(* after it got the write lock, so an operation is one step here.  A time  *)
(* stamp is kept as what is left of it: a lease with nothing left has      *)
(* expired although its row may still be there.  Time is unbounded.        *)
(***************************************************************************)
EXTENDS Integers, FiniteSets, SequencesExt

CONSTANTS
    Keys,          \* credentials, by the hash the table knows them by
    Workers,       \* writer clients: one per operation under way
    KeysOf,        \* [Workers -> SUBSET Keys]: the keys a client is configured with
    NoKey,
    Cap,           \* max_concurrency_per_key
    Lease,         \* lease_seconds
    Patience,      \* acquire_timeout of a client
    BillingPause, AuthPause,   \* durations of the two circuits
    Backoffs,      \* <<cooldown of the 1st, 2nd, ... transient failure in a row>>
    RetryAfters    \* values of the Retry-After header, 0 for none

ASSUME PoolAssumption ==
    /\ IsFiniteSet(Keys) /\ IsFiniteSet(Workers) /\ NoKey \notin Keys
    /\ KeysOf \in [Workers -> (SUBSET Keys) \ {{}}]
    /\ Cap \in Nat \ {0} /\ Lease \in Nat \ {0} /\ Patience \in Nat
    /\ BillingPause \in Nat \ {0} /\ AuthPause \in Nat \ {0}
    /\ Backoffs \in Seq(Nat \ {0}) /\ Backoffs # <<>>
    /\ RetryAfters \subseteq Nat

VARIABLES
    keys,     \* the table provider_keys
    recent,   \* its keys that were ever used, in the order of last_used_at
    leases,   \* the table provider_leases
    circuit,  \* the row of the pool in provider_circuits
    clients,  \* the writer clients
    billing,  \* history: rest of the window opened by the last refused payment
    auth,     \* history: rest of the window opened when no key was accepted
    paused    \* history: rest of the longest Retry-After that was granted

vars == <<keys, recent, leases, circuit, clients, billing, auth, paused>>

-----------------------------------------------------------------------------
(* Types *)

LeaseTokens == 1..(Cap * Cardinality(Keys) + Cardinality(Workers))
Key == [enabled: BOOLEAN, cool: Nat, streak: 0..Len(Backoffs)]
LeaseRow == [key: Keys \cup {NoKey}, left: 0..Lease]
Circuit == [kind: {"none", "billing", "auth"}, left: Nat]
Client == [phase: {"out", "idle", "waiting", "calling"}, wait: 0..Patience,
           key: Keys \cup {NoKey}, token: LeaseTokens \cup {0}, beating: BOOLEAN]

NoLease == [key |-> NoKey, left |-> 0]
Idle(phase) == [phase |-> phase, wait |-> 0, key |-> NoKey, token |-> 0, beating |-> FALSE]

TypeOK ==
    /\ keys \in [Keys -> Key]
    /\ recent \in Seq(Keys)
    /\ leases \in [LeaseTokens -> LeaseRow]
    /\ circuit \in Circuit
    /\ clients \in [Workers -> Client]
    /\ billing \in Nat /\ auth \in Nat /\ paused \in Nat
    /\ \A w \in Workers : clients[w].phase = "calling" <=> clients[w].token # 0

Larger(m, n) == IF m >= n THEN m ELSE n

-----------------------------------------------------------------------------
(* The tables *)

Live(t) == leases[t].left > 0

RowsOf(k) == {t \in LeaseTokens : leases[t].key = k}   \* faulty: expired rows count

LeasesOf(k) == {t \in LeaseTokens : leases[t].key = k /\ Live(t)}

Load(k) == Cardinality(LeasesOf(k))

Healthy(k) == keys[k].enabled /\ keys[k].cool = 0

Grantable(k) == Healthy(k) /\ Load(k) < Cap

(* last_used_at, 0 for a key that was never used *)
LastUsed(k) == IF k \in ToSet(recent) THEN CHOOSE i \in 1..Len(recent) : recent[i] = k ELSE 0

(* The order after a grant of k *)
Used(k) == Append(IF LastUsed(k) = 0 THEN recent ELSE RemoveAt(recent, LastUsed(k)), k)

(* The order of acquire; ordinals, which only decide between two keys that *)
(* were never used, are left out.                                          *)
Preferred == {k \in Keys :
    /\ Grantable(k)
    /\ \A j \in Keys : Grantable(j) =>
          Load(k) < Load(j) \/ (Load(k) = Load(j) /\ LastUsed(k) <= LastUsed(j))}

(* secrets.token_urlsafe: a token nobody knows *)
FreshToken == CHOOSE t \in LeaseTokens :
    ~Live(t) /\ \A w \in Workers : clients[w].token # t

Purged == [t \in LeaseTokens |-> IF Live(t) THEN leases[t] ELSE NoLease]

OpenedAnew(kind, pause) ==   \* faulty: the later failure decides
    [kind |-> kind, left |-> pause]

Opened(kind, pause) ==
    [kind |-> IF \/ circuit.left > pause
                 \/ circuit.left = pause /\ circuit.kind = "billing"
              THEN circuit.kind ELSE kind,
     left |-> Larger(circuit.left, pause)]

-----------------------------------------------------------------------------
(* Clients *)

(* A ProviderKeyPool is built for an operation: its keys are enabled, every*)
(* other key of the pool is disabled (_sync_keys).                         *)
Open(w) ==
    /\ clients[w].phase = "out"
    /\ keys' = [k \in Keys |-> [keys[k] EXCEPT !.enabled = k \in KeysOf[w]]]
    /\ clients' = [clients EXCEPT ![w] = Idle("idle")]
    /\ UNCHANGED <<recent, leases, circuit, billing, auth, paused>>

Want(w) ==
    /\ clients[w].phase = "idle"
    /\ clients' = [clients EXCEPT ![w].phase = "waiting", ![w].wait = Patience]
    /\ UNCHANGED <<keys, recent, leases, circuit, billing, auth, paused>>

(* The key granted may be one that only another client is configured with: *)
(* looking its secret up then fails after the lease was written, and the   *)
(* operation with it.                                                      *)
Acquire(w) ==
    /\ clients[w].phase = "waiting"
    /\ circuit.left = 0
    /\ \E k \in Preferred :
        /\ leases' = [Purged EXCEPT ![FreshToken] = [key |-> k, left |-> Lease]]
        /\ recent' = Used(k)
        /\ clients' = [clients EXCEPT ![w] =
               IF k \in KeysOf[w]
               THEN [phase |-> "calling", wait |-> 0, key |-> k,
                     token |-> FreshToken, beating |-> TRUE]
               ELSE Idle("out")]
    /\ UNCHANGED <<keys, circuit, billing, auth, paused>>

(* An open circuit is reported at once, a saturated pool after acquire_timeout *)
GiveUp(w) ==
    /\ clients[w].phase = "waiting"
    /\ circuit.left > 0 \/ (Preferred = {} /\ clients[w].wait = 0)
    /\ \E p \in {"idle", "out"} : clients' = [clients EXCEPT ![w] = Idle(p)]
    /\ UNCHANGED <<keys, recent, leases, circuit, billing, auth, paused>>

Close(w) ==
    /\ clients[w].phase = "idle"
    /\ clients' = [clients EXCEPT ![w] = Idle("out")]
    /\ UNCHANGED <<keys, recent, leases, circuit, billing, auth, paused>>

(* The process dies; a lease it holds stays in the table *)
Crash(w) ==
    /\ clients[w].phase \in {"waiting", "calling"}
    /\ clients' = [clients EXCEPT ![w] = Idle("out")]
    /\ UNCHANGED <<keys, recent, leases, circuit, billing, auth, paused>>

HeartbeatRewrites(w) ==   \* faulty: the row is written again if it is gone
    /\ clients[w].beating
    /\ leases' = [leases EXCEPT ![clients[w].token] = [key |-> clients[w].key, left |-> Lease]]
    /\ UNCHANGED <<keys, recent, circuit, clients, billing, auth, paused>>

(* An expired lease is never extended; the thread ends when it lost the lease *)
Heartbeat(w) ==
    LET t == clients[w].token IN
    /\ clients[w].beating
    /\ leases' = [leases EXCEPT ![t] = IF Live(t) THEN [@ EXCEPT !.left = Lease] ELSE NoLease]
    /\ clients' = [clients EXCEPT ![w].beating = Live(t)]
    /\ UNCHANGED <<keys, recent, circuit, billing, auth, paused>>

(* Any exception ends the thread as well; the call goes on *)
HeartbeatDies(w) ==
    /\ clients[w].beating
    /\ clients' = [clients EXCEPT ![w].beating = FALSE]
    /\ UNCHANGED <<keys, recent, leases, circuit, billing, auth, paused>>

-----------------------------------------------------------------------------
(* Release: what the outcome of the call on key k does to the pool *)

Success(k) ==
    /\ keys' = [keys EXCEPT ![k].streak = 0, ![k].cool = 0]
    /\ UNCHANGED <<circuit, billing, auth, paused>>

RequestError(k) == UNCHANGED <<keys, circuit, billing, auth, paused>>

Cooled(key, pause) == [key EXCEPT !.cool = Larger(@, pause)]

AllCooled(pause) == [j \in Keys |-> IF keys[j].enabled THEN Cooled(keys[j], pause) ELSE keys[j]]

OneMoreAlways(streak) == streak + 1   \* faulty: the exponent is not capped

OneMore(streak) == IF streak < Len(Backoffs) THEN streak + 1 ELSE streak

RateLimited(k, after) ==
    LET pause == IF after = 0 THEN Backoffs[1] ELSE after IN
    /\ keys' = AllCooled(pause)
    /\ paused' = Larger(paused, pause)
    /\ UNCHANGED <<circuit, billing, auth>>

BillingExhausted(k) ==
    /\ circuit' = Opened("billing", BillingPause)
    /\ keys' = [AllCooled(BillingPause) EXCEPT ![k].streak = OneMore(@)]
    /\ billing' = BillingPause
    /\ UNCHANGED <<auth, paused>>

FatalError(k) ==
    /\ LET key == Cooled(keys[k], AuthPause) IN
       keys' = [keys EXCEPT ![k] = [key EXCEPT !.streak = OneMore(@)]]
    /\ IF \A j \in Keys \ {k} : ~Healthy(j)
       THEN circuit' = Opened("auth", AuthPause) /\ auth' = AuthPause
       ELSE UNCHANGED <<circuit, auth>>
    /\ UNCHANGED <<billing, paused>>

(* The cooldown is replaced, not extended *)
TransientError(k, after) ==
    LET streak == OneMore(keys[k].streak) IN
    /\ keys' = [keys EXCEPT ![k].streak = streak, ![k].cool = Larger(Backoffs[streak], after)]
    /\ UNCHANGED <<circuit, billing, auth, paused>>

Applied(k) ==
    \/ Success(k)
    \/ RequestError(k)
    \/ \E after \in RetryAfters : RateLimited(k, after)
    \/ BillingExhausted(k)
    \/ FatalError(k)
    \/ \E after \in RetryAfters : TransientError(k, after)

(* The outcome of a call whose lease is over is dropped *)
Release(w) ==
    LET t == clients[w].token IN
    /\ clients[w].phase = "calling"
    /\ IF Live(t) THEN Applied(clients[w].key)
                  ELSE UNCHANGED <<keys, circuit, billing, auth, paused>>
    /\ leases' = [leases EXCEPT ![t] = NoLease]
    /\ \E p \in {"idle", "out"} : clients' = [clients EXCEPT ![w] = Idle(p)]
    /\ UNCHANGED recent

(* stats() removes the expired rows *)
Stats ==
    /\ leases # Purged
    /\ leases' = Purged
    /\ UNCHANGED <<keys, recent, circuit, clients, billing, auth, paused>>

-----------------------------------------------------------------------------
(* Time *)

Less(n) == IF n > 0 THEN n - 1 ELSE 0

Tick ==
    /\ keys' = [k \in Keys |-> [keys[k] EXCEPT !.cool = Less(@)]]
    /\ leases' = [t \in LeaseTokens |-> [leases[t] EXCEPT !.left = Less(@)]]
    /\ circuit' = IF circuit.left > 1 THEN [circuit EXCEPT !.left = @ - 1]
                  ELSE [kind |-> "none", left |-> 0]
    /\ clients' = [w \in Workers |-> [clients[w] EXCEPT !.wait = Less(@)]]
    /\ billing' = Less(billing)
    /\ auth' = Less(auth)
    /\ paused' = Less(paused)
    /\ UNCHANGED recent

-----------------------------------------------------------------------------
(* The service has registered its own keys when it starts (app.py) *)
Init ==
    /\ \E w \in Workers : keys = [k \in Keys |->
          [enabled |-> k \in KeysOf[w], cool |-> 0, streak |-> 0]]
    /\ recent = <<>>
    /\ leases = [t \in LeaseTokens |-> NoLease]
    /\ circuit = [kind |-> "none", left |-> 0]
    /\ clients = [w \in Workers |-> Idle("out")]
    /\ billing = 0 /\ auth = 0 /\ paused = 0

Step(w) ==
    \/ Open(w) \/ Want(w) \/ Acquire(w) \/ GiveUp(w) \/ Close(w)
    \/ Crash(w) \/ Heartbeat(w) \/ HeartbeatDies(w) \/ Release(w)

Next == Tick \/ Stats \/ \E w \in Workers : Step(w)

Spec == Init /\ [][Next]_vars

(* The clock runs, a client keeps trying, and the HTTP call ends by its    *)
(* own timeout.                                                            *)
FairSpec ==
    /\ Spec
    /\ WF_vars(Tick)
    /\ \A w \in Workers : WF_vars(Acquire(w) \/ GiveUp(w)) /\ WF_vars(Release(w))

-----------------------------------------------------------------------------
(* Properties *)

(* At no time are more than Cap leases of a key in force, whoever crashed, *)
(* lost a lease or came back late to extend it.                            *)
LeaseCap == \A k \in Keys : Load(k) <= Cap

(* The circuit is what the refusals so far call for: open as long as the   *)
(* window of one of them lasts, and named after the one that lasts longer, *)
(* whatever other calls report meanwhile.                                  *)
CircuitCovers ==
    circuit = [kind |-> IF billing = 0 /\ auth = 0 THEN "none"
                        ELSE IF billing >= auth THEN "billing" ELSE "auth",
               left |-> Larger(billing, auth)]

Granted == \E t \in LeaseTokens : leases'[t].left > leases[t].left /\ ~Live(t)

(* While a refused payment or the loss of the last accepted key keeps the  *)
(* pool closed nobody is given a lease.                                    *)
NoGrantWhileClosed == [][Granted => billing = 0 /\ auth = 0]_vars

(* Whatever was leaked, cooled or closed comes back: again and again some  *)
(* key can be granted.                                                     *)
CapacityReturns == []<>(circuit.left = 0 /\ Preferred # {})

=============================================================================
