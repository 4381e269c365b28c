--------------------------- MODULE ProviderTasks ---------------------------
(***************************************************************************)
(* Model calls executed on the user's own device.  The memory service puts *)
(* a task into the table user_provider_tasks (user_provider_tasks.py) and  *)
(* waits for it (user_provider_client.py); the executor of the plugin      *)
(* (local-provider-executor.ts) leases the task over HTTP, announces that  *)
(* it starts, calls the provider and reports the result.                   *)
(*                                                                         *)
(* The service and the executors share nothing but HTTP requests.  A       *)
(* request may be lost, may be handled although its answer is lost, is     *)
(* repeated by the client up to Attempts times, and a copy the client has  *)
(* given up on may still be handled afterwards, in any order.              *)
(***************************************************************************)
EXTENDS Integers

CONSTANTS
    Tasks,      \* identities (job, stage, operation, request digest)
    Executors,  \* executor loops of the plugin, in one process or in several
    Serves,     \* [Executors -> SUBSET Tasks]: same key, ready stage, allowed scope
    NoTask,
    Lease,      \* lease_seconds
    Patience,   \* timeout of await_terminal
    LockWait,   \* longest wait for the write lock, after time.time()
    Attempts,   \* maxAttempts of the HTTP client
    MaxClaims, MaxTime   \* bounds of the model: leases of a task, clock

ASSUME ProviderTasksAssumption ==
    /\ Serves \in [Executors -> SUBSET Tasks]
    /\ NoTask \notin Tasks
    /\ Lease \in Nat \ {0} /\ Patience \in Nat \ {0} /\ LockWait \in Nat
    /\ Attempts \in Nat \ {0} /\ MaxClaims \in Nat /\ MaxTime \in Nat

VARIABLES
    tasks,   \* the table user_provider_tasks
    waits,   \* the await_terminal of each task
    execs,   \* the executors
    net,     \* requests on their way
    calls,   \* how often the provider was called for a task
    now      \* the clock

vars == <<tasks, waits, execs, net, calls, now>>

-----------------------------------------------------------------------------
(* Types *)

TaskTerminal == {"completed", "failed", "unknown"}
TaskActive == {"leased", "running"}
TaskStates == {"absent", "queued"} \cup TaskActive \cup TaskTerminal
Errors == {"none", "expired", "unavailable", "unresolved", "reported"}
NoLease == -1

(* A lease token is named by the number of the lease, 0 for NULL; started  *)
(* stands for provider_started_at.                                         *)
TaskRow == [state: TaskStates, created: Nat, token: Nat, leases: Nat,
            lease: Nat \cup {NoLease}, started: BOOLEAN, error: Errors]

Waits == [state: {"none", "waiting", "late", "returned", "died"},
          deadline: Nat, verdict: TaskTerminal \cup {"none"}]

(* An executor waits for the answer to a start or a report, holds the      *)
(* permission to call, or waits for the provider.                          *)
Exec == [phase: {"idle", "starting", "permitted", "calling", "reporting"},
         task: Tasks \cup {NoTask}, token: Nat, attempt: Nat,
         report: TaskTerminal \cup {"none"}]

Requests == [kind: {"start"} \cup TaskTerminal, from: Executors, task: Tasks,
             token: Nat, attempt: Nat]

Idle == [phase |-> "idle", task |-> NoTask, token |-> 0, attempt |-> 0, report |-> "none"]

TypeOK ==
    /\ tasks \in [Tasks -> TaskRow]
    /\ waits \in [Tasks -> Waits]
    /\ execs \in [Executors -> Exec]
    /\ net \subseteq Requests
    /\ calls \in [Tasks -> Nat]
    /\ now \in Nat
    /\ \A t \in Tasks : tasks[t].state \in TaskActive <=> tasks[t].token # 0
    /\ \A t \in Tasks : tasks[t].state \in TaskActive <=> tasks[t].lease # NoLease

Init ==
    /\ tasks = [t \in Tasks |->
                  [state |-> "absent", created |-> 0, token |-> 0, leases |-> 0,
                   lease |-> NoLease, started |-> FALSE, error |-> "none"]]
    /\ waits = [t \in Tasks |-> [state |-> "none", deadline |-> 0, verdict |-> "none"]]
    /\ execs = [e \in Executors |-> Idle]
    /\ net = {}
    /\ calls = [t \in Tasks |-> 0]
    /\ now = 0

-----------------------------------------------------------------------------
(* The broker *)

(* time.time() is read before the transaction obtains the write lock. *)
Moments == {m \in 0..now : now - m <= LockWait}

Terminal(t) == tasks[t].state \in TaskTerminal

EndedKeepsLease(row, state, error) ==   \* faulty: lease_expires_at survives
    [row EXCEPT !.state = state, !.token = 0, !.error = error]

Ended(row, state, error) ==
    [row EXCEPT !.state = state, !.token = 0, !.lease = NoLease, !.error = error]

ExpiredRequeuesAll(m) ==   \* faulty: a started task is offered again
    [t \in Tasks |->
        IF tasks[t].state \in TaskActive /\ tasks[t].lease <= m
        THEN [tasks[t] EXCEPT !.state = "queued", !.token = 0, !.lease = NoLease]
        ELSE tasks[t]]

(* _expire_in_connection: every operation begins with it.  A task that was *)
(* never started goes back to the queue, a started one is given up.        *)
Expired(m) ==
    [t \in Tasks |->
        CASE tasks[t].state = "leased" /\ tasks[t].lease <= m
               -> [tasks[t] EXCEPT !.state = "queued", !.token = 0, !.lease = NoLease]
          [] tasks[t].state = "running" /\ tasks[t].lease <= m
               -> Ended(tasks[t], "unknown", "expired")
          [] OTHER -> tasks[t]]

(* _lease_matches *)
LeaseMatches(row, token, m) == row.token # 0 /\ row.token = token /\ row.lease > m

(* create, as complete_messages does before it waits: a task that exists   *)
(* already, also a finished one, is joined and not created again.          *)
Create(t) ==
    /\ waits[t].state \in {"none", "died"}
    /\ now + Patience <= MaxTime
    /\ tasks' = IF tasks[t].state = "absent"
                THEN [tasks EXCEPT ![t].state = "queued", ![t].created = now]
                ELSE tasks
    /\ waits' = [waits EXCEPT ![t] = [state |-> "waiting", deadline |-> now + Patience,
                                      verdict |-> "none"]]
    /\ UNCHANGED <<execs, net, calls, now>>

ReturnedUnread(t, row) ==   \* faulty: whoever is late reports its own verdict
    [waits EXCEPT ![t].state = "returned",
                  ![t].verdict = IF waits[t].state = "late" THEN "unknown" ELSE row.state]

Returned(t, row) == [waits EXCEPT ![t].state = "returned", ![t].verdict = row.state]

PollWhileLeased(t, m) ==   \* faulty: the deadline is ignored while a device works
    /\ waits[t].state = "waiting"
    /\ tasks' = Expired(m)
    /\ waits' = IF tasks'[t].state \in TaskTerminal THEN Returned(t, tasks'[t])
                ELSE IF now >= waits[t].deadline /\ tasks'[t].state = "queued"
                THEN [waits EXCEPT ![t].state = "late"]
                ELSE waits
    /\ UNCHANGED <<execs, net, calls, now>>

(* One turn of await_terminal.  A waiter that is out of patience looks at  *)
(* the row again in a second transaction.                                  *)
Poll(t, m) ==
    /\ waits[t].state = "waiting"
    /\ tasks' = Expired(m)
    /\ waits' = IF tasks'[t].state \in TaskTerminal THEN Returned(t, tasks'[t])
                ELSE IF now >= waits[t].deadline THEN [waits EXCEPT ![t].state = "late"]
                ELSE waits
    /\ UNCHANGED <<execs, net, calls, now>>

(* What is said of a task the waiter gives up on *)
Abandoned(row) ==
    IF row.state = "queued" THEN Ended(row, "failed", "unavailable")
    ELSE Ended(row, "unknown", "unresolved")

GiveUp(t) ==
    /\ waits[t].state = "late"
    /\ tasks' = IF Terminal(t) THEN tasks ELSE [tasks EXCEPT ![t] = Abandoned(@)]
    /\ waits' = Returned(t, tasks'[t])
    /\ UNCHANGED <<execs, net, calls, now>>

(* The process of the waiter dies; its job may wait for the task again. *)
WaiterDies(t) ==
    /\ waits[t].state \in {"waiting", "late"}
    /\ waits' = [waits EXCEPT ![t].state = "died"]
    /\ UNCHANGED <<tasks, execs, net, calls, now>>

(* claim_next, answered unless the answer is lost; never repeated *)
Offered(e, table) ==
    {t \in Serves[e] :
        /\ table[t].state = "queued"
        /\ \A u \in Serves[e] :
              table[u].state = "queued" => table[t].created <= table[u].created}

Start(e, t, token, attempt) ==
    [kind |-> "start", from |-> e, task |-> t, token |-> token, attempt |-> attempt]

ClaimNext(e, m, heard) ==
    /\ execs[e].phase = "idle"
    /\ LET table == Expired(m)
       IN  IF Offered(e, table) = {}
           THEN /\ tasks' = table
                /\ UNCHANGED <<execs, net>>
           ELSE \E t \in Offered(e, table) :
                LET token == table[t].leases + 1
                IN  /\ token <= MaxClaims
                    /\ tasks' = [table EXCEPT ![t].state = "leased", ![t].token = token,
                                              ![t].leases = token, ![t].lease = m + Lease]
                    /\ IF heard
                       THEN /\ execs' = [execs EXCEPT ![e] =
                                  [phase |-> "starting", task |-> t, token |-> token,
                                   attempt |-> 1, report |-> "none"]]
                            /\ net' = net \cup {Start(e, t, token, 1)}
                       ELSE UNCHANGED <<execs, net>>
    /\ UNCHANGED <<waits, calls, now>>

(* The client still waits for the answer to this very request. *)
Awaits(e, r) ==
    /\ execs[e].task = r.task /\ execs[e].token = r.token /\ execs[e].attempt = r.attempt
    /\ execs[e].phase = IF r.kind = "start" THEN "starting" ELSE "reporting"

(* The answer to a request moves its sender on, if it still listens. *)
Answered(r, heard, next) ==
    execs' = IF heard /\ Awaits(r.from, r) THEN [execs EXCEPT ![r.from] = next] ELSE execs

(* start: answered with success also when the lease has started already;   *)
(* a transaction that refuses rolls the expiry of leases back.             *)
HandleStart(r, m, heard) ==
    LET table == Expired(m)
        row == table[r.task]
        mine == LeaseMatches(row, r.token, m)
    IN  /\ r \in net /\ r.kind = "start"
        /\ net' = net \ {r}
        /\ IF row.state \in TaskActive /\ mine
           THEN /\ tasks' = IF row.state = "running" THEN table
                            ELSE [table EXCEPT ![r.task] =
                                    [@ EXCEPT !.state = "running", !.started = TRUE,
                                              !.lease = m + Lease]]
                /\ Answered(r, heard, [execs[r.from] EXCEPT !.phase = "permitted"])
           ELSE /\ tasks' = tasks
                /\ Answered(r, heard, Idle)
        /\ UNCHANGED <<waits, calls, now>>

(* complete and fail: a repeated report is recognised, any other report    *)
(* without a good lease is refused.  The executor drops the task whatever  *)
(* the answer is.                                                          *)
HandleReport(r, m, heard) ==
    LET table == Expired(m)
        row == table[r.task]
        reportable == IF r.kind = "completed" THEN {"running"} ELSE TaskActive
    IN  /\ r \in net /\ r.kind \in TaskTerminal
        /\ net' = net \ {r}
        /\ tasks' = CASE row.state = r.kind /\ row.error = "reported" -> table
                      [] row.state \in reportable /\ LeaseMatches(row, r.token, m)
                           -> [table EXCEPT ![r.task] = Ended(@, r.kind, "reported")]
                      [] OTHER -> tasks
        /\ Answered(r, heard, Idle)
        /\ UNCHANGED <<waits, calls, now>>

(* heartbeat, sent every 30 s from the start to the end of the report; its *)
(* answer is ignored                                                       *)
Heartbeat(e, m) ==
    LET table == Expired(m)
        t == execs[e].task
    IN  /\ execs[e].phase \in {"permitted", "calling", "reporting"}
        /\ table[t].state \in TaskActive /\ LeaseMatches(table[t], execs[e].token, m)
        /\ tasks' = [table EXCEPT ![t].lease = m + Lease]
        /\ UNCHANGED <<waits, execs, net, calls, now>>

-----------------------------------------------------------------------------
(* The executor and the network *)

Lose(r) ==
    /\ r \in net
    /\ net' = net \ {r}
    /\ UNCHANGED <<tasks, waits, execs, calls, now>>

Request(x, e, attempt) ==
    [kind |-> IF x.phase = "starting" THEN "start" ELSE x.report,
     from |-> e, task |-> x.task, token |-> x.token, attempt |-> attempt]

Resigned(x) == Idle

(* An attempt times out: it is repeated, or the executor drops the task. *)
TimeOut(e) ==
    LET x == execs[e]
    IN  /\ x.phase \in {"starting", "reporting"}
        /\ IF x.attempt < Attempts
           THEN /\ execs' = [execs EXCEPT ![e].attempt = x.attempt + 1]
                /\ net' = net \cup {Request(x, e, x.attempt + 1)}
           ELSE /\ execs' = [execs EXCEPT ![e] = Resigned(x)]
                /\ UNCHANGED net
        /\ UNCHANGED <<tasks, waits, calls, now>>

CallProvider(e) ==
    /\ execs[e].phase = "permitted"
    /\ execs' = [execs EXCEPT ![e].phase = "calling"]
    /\ calls' = [calls EXCEPT ![execs[e].task] = @ + 1]
    /\ UNCHANGED <<tasks, waits, net, now>>

(* The call has an outcome, or it could not be sent at all. *)
Report(e, kind) ==
    LET x == [execs[e] EXCEPT !.phase = "reporting", !.report = kind, !.attempt = 1]
    IN  /\ \/ execs[e].phase = "calling"
           \/ execs[e].phase = "permitted" /\ kind = "unknown"
        /\ execs' = [execs EXCEPT ![e] = x]
        /\ net' = net \cup {Request(x, e, 1)}
        /\ UNCHANGED <<tasks, waits, calls, now>>

ExecutorDies(e) ==
    /\ execs[e].phase # "idle"
    /\ execs' = [execs EXCEPT ![e] = Idle]
    /\ UNCHANGED <<tasks, waits, net, calls, now>>

Tick ==
    /\ now < MaxTime /\ now' = now + 1
    /\ UNCHANGED <<tasks, waits, execs, net, calls>>

-----------------------------------------------------------------------------
WaiterStep ==
    \/ \E t \in Tasks : Create(t) \/ GiveUp(t) \/ WaiterDies(t)
    \/ \E t \in Tasks, m \in Moments : Poll(t, m)

BrokerStep ==
    \/ \E e \in Executors, m \in Moments, heard \in BOOLEAN : ClaimNext(e, m, heard)
    \/ \E r \in net, m \in Moments, heard \in BOOLEAN : HandleStart(r, m, heard)
    \/ \E r \in net, m \in Moments, heard \in BOOLEAN : HandleReport(r, m, heard)
    \/ \E e \in Executors, m \in Moments : Heartbeat(e, m)

ExecutorStep ==
    \/ \E r \in net : Lose(r)
    \/ \E e \in Executors : TimeOut(e) \/ CallProvider(e) \/ ExecutorDies(e)
    \/ \E e \in Executors, kind \in TaskTerminal : Report(e, kind)

Next == WaiterStep \/ BrokerStep \/ ExecutorStep \/ Tick

Spec == Init /\ [][Next]_vars

(* A waiter keeps polling and time passes; the device owes nothing. *)
FairSpec ==
    /\ Spec
    /\ WF_vars(Tick)
    /\ \A t \in Tasks : WF_vars(\E m \in Moments : Poll(t, m)) /\ WF_vars(GiveUp(t))

-----------------------------------------------------------------------------
(* Properties *)

(* The user's provider is called at most once for a task, whatever is      *)
(* lost, repeated, expired or restarted: what the durable task is for.     *)
AtMostOneCall == \A t \in Tasks : calls[t] <= 1

(* What await_terminal returned, and what went into the ledger of the job, *)
(* stays the state of the task.                                            *)
VerdictStands ==
    \A t \in Tasks : waits[t].state = "returned" => tasks[t].state = waits[t].verdict

(* The broker implements the promise of OneCall. *)
AnswerOf(row) ==
    IF row.error = "unavailable" THEN "unavailable"
    ELSE IF row.state \in TaskTerminal THEN row.state ELSE "none"

Promise == INSTANCE OneCall WITH
    card <- [t \in Tasks |-> [announced |-> tasks[t].started, calls |-> calls[t],
                              answer |-> AnswerOf(tasks[t])]]

KeepsPromise == Promise!Spec

(* Whoever waits for a task gets an answer, also when no executor is there *)
(* at all or all of them have vanished in the middle of their work.        *)
WaiterReturns ==
    \A t \in Tasks :
        waits[t].state \in {"waiting", "late"} ~> waits[t].state \in {"returned", "died"}

=============================================================================
