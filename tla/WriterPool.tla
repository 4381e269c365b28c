----------------------------- MODULE WriterPool -----------------------------
(***************************************************************************)
(* The pool of resident writer daemons (writer_pool.py) and the daemon     *)
(* (writer_daemon.py).  Threads of the service call `execute`; each leases *)
(* a worker, sends it the request over a pipe and hears its result.  The   *)
(* daemon keeps a durable receipt per request.  A monitor thread repairs   *)
(* the pool.  What a thread does under `_lock` is one action, except where *)
(* it takes the bounded queue of available workers apart: that queue is    *)
(* used without the lock elsewhere, beside the set `_available_workers`    *)
(* that mirrors it.                                                        *)
(*                                                                         *)
(* A worker is a `_WriterProcess`; its name is used again once nothing     *)
(* refers to it.                                                           *)
(***************************************************************************)
EXTENDS Naturals, Sequences, SequencesExt

CONSTANTS
    Size,        \* the configured number of workers
    Workers,     \* names of worker processes
    First,       \* the workers that start() has launched and heard
    Callers,     \* threads that call execute
    Requests,    \* request identities
    Outcomes,    \* the verdicts with which an execution ends
    Monitor,     \* the monitor thread
    Nobody,      \* no worker, no request, no caller
    MaxFaults    \* bound: deaths and failed launches in a behaviour

Slots == 1..Size

Verdicts == {"succeeded", "failed", "outcome_unknown"}

ASSUME WriterPoolAssumption ==
    /\ Outcomes \subseteq Verdicts
    /\ Nobody \notin Workers \cup Callers \cup Requests
    /\ Monitor \notin Callers
    /\ Size \in Nat \ {0}
    /\ First \in [1..Size -> Workers]
    /\ \A i, j \in 1..Size : First[i] = First[j] => i = j
    /\ MaxFaults \in Nat

VARIABLES
    workers,     \* [Slots -> Workers \cup {Nobody}]: _workers
    proc,        \* [Workers -> [state, slot]]: the processes
    queue,       \* _available
    listed,      \* _available_workers
    leased,      \* _leased
    retained,    \* what the thread that takes the queue apart has retained
    lost,        \* history: listed, but not put back
    stopping,    \* _stopping, which is also the end of _started
    gate,        \* [Requests -> Callers \cup {Nobody}]: the request gates
    threads,     \* [Callers \cup {Monitor} -> what the thread is doing]
    receipt,     \* [Requests -> Verdicts \cup {"none", "running"}]: the status files
    daemon,      \* [Workers -> what the process is doing and has said]
    ran,         \* [Requests -> Nat]: times execute_writer was entered
    faults       \* faults so far

drained == <<retained, lost>>
pool == <<workers, queue, listed, leased, drained, stopping>>
vars == <<workers, proc, queue, listed, leased, drained, stopping, gate, threads, receipt,
          daemon, ran, faults>>

Threads == Callers \cup {Monitor}

Phases == {"idle", "getting", "got", "awaiting", "recovering", "stopping", "stopped",
           "releasing", "dropping", "replacing", "draining", "refilling", "loading",
           "enqueuing", "putting", "unlisting", "returning", "repairing", "relisting",
           "dead"}

Thread == [pc: Phases, worker: Workers \cup {Nobody}, req: Requests \cup {Nobody},
           told: Verdicts \cup {"none", "error"}, todo: SUBSET Workers,
           mode: {"call", "drop", "repair", "relist"}]

Proc == [state: {"loading", "up", "gone"}, slot: Slots]

Daemon == [phase: {"idle", "given", "running", "wrote"}, req: Requests \cup {Nobody},
           said: Verdicts \cup {"none"}]

TypeOK ==
    /\ workers \in [Slots -> Workers \cup {Nobody}]
    /\ proc \in [Workers -> Proc]
    /\ queue \in Seq(Workers) /\ Len(queue) <= Size
    /\ listed \in SUBSET Workers /\ leased \in SUBSET Workers
    /\ retained \in Seq(Workers) /\ lost \in SUBSET Workers
    /\ stopping \in BOOLEAN
    /\ gate \in [Requests -> Callers \cup {Nobody}]
    /\ threads \in [Threads -> Thread]
    /\ receipt \in [Requests -> Verdicts \cup {"none", "running"}]
    /\ daemon \in [Workers -> Daemon]
    /\ ran \in [Requests -> Nat]
    /\ faults \in 0..MaxFaults

-----------------------------------------------------------------------------
(* State formulae *)

Calm == [pc |-> "idle", worker |-> Nobody, req |-> Nobody, told |-> "none",
         todo |-> {}, mode |-> "call"]

Quiet == [phase |-> "idle", req |-> Nobody, said |-> "none"]

(* A process that has ended leaves its last line in the pipe. *)
Ended(d) == [Quiet EXCEPT !.said = d.said]

(* _WriterProcess.alive *)
Alive(w) == proc[w].state = "up"

(* Nobody holds _lock beyond one action. *)
Unlocked == \A t \in Threads : threads[t].pc \notin {"draining", "refilling"}

Current(w) == workers[proc[w].slot] = w

(* Objects that some variable of the program still refers to. *)
Referred(w) ==
    \/ Current(w) \/ w \in listed \cup leased \/ w \in ToSet(queue \o retained)
    \/ \E t \in Threads : threads[t].worker = w \/ w \in threads[t].todo

(* Names of a new object: nothing refers to the one that had the name, and *)
(* its process has nothing to do, so that it ends when its pipe is closed. *)
Unused == {w \in Workers : ~Referred(w) /\ daemon[w].phase \notin {"given", "running"}}

At(t, pc) == threads[t].pc = pc

Moves(t, x) == threads' = [threads EXCEPT ![t] = x]

GoesTo(t, pc) == Moves(t, [threads[t] EXCEPT !.pc = pc])

(* The thread has done with _replace_worker or _enqueue_available. *)
Resumed(x) ==
    IF x.mode \in {"call", "drop"} THEN [x EXCEPT !.pc = "returning"]
    ELSE IF x.todo = {} THEN Calm
    ELSE [x EXCEPT !.pc = IF x.mode = "repair" THEN "repairing" ELSE "relisting",
                   !.worker = Nobody]

(* The worker a thread has come to replace, or to make available. *)
Comes(t, pc, turn, w) ==
    \/ At(t, pc) /\ w = threads[t].worker
    \/ At(t, turn) /\ w \in threads[t].todo

Takes(x, w) == [x EXCEPT !.worker = w, !.todo = @ \ {w}]

(* put_nowait found the queue full: execute raises in place of its result, *)
(* whoever replaces a worker goes on, and _repair_lost_available_workers   *)
(* is the end of the monitor.                                              *)
Overflowed(x) ==
    CASE x.mode = "relist" -> [Calm EXCEPT !.pc = "dead"]
      [] x.mode = "call" -> [Resumed(x) EXCEPT !.told = "error"]
      [] OTHER -> Resumed(x)

(* After start(). *)
Init ==
    /\ workers = First
    /\ proc = [w \in Workers |->
                  IF \E s \in Slots : First[s] = w
                  THEN [state |-> "up", slot |-> CHOOSE s \in Slots : First[s] = w]
                  ELSE [state |-> "gone", slot |-> 1]]
    /\ queue = First
    /\ listed = {First[s] : s \in Slots}
    /\ leased = {} /\ retained = <<>> /\ lost = {}
    /\ stopping = FALSE
    /\ gate = [r \in Requests |-> Nobody]
    /\ threads = [t \in Threads |-> Calm]
    /\ receipt = [r \in Requests |-> "none"]
    /\ daemon = [w \in Workers |-> Quiet]
    /\ ran = [r \in Requests |-> 0]
    /\ faults = 0

-----------------------------------------------------------------------------
(* execute *)

(* The gate of the request is taken and its receipt read. *)
Enter(c, r) ==
    LET x == [Calm EXCEPT !.req = r]
    IN  /\ At(c, "idle") /\ ~stopping
        /\ gate[r] = Nobody /\ gate' = [gate EXCEPT ![r] = c]
        /\ Moves(c, CASE receipt[r] = "none" -> [x EXCEPT !.pc = "getting"]
                      [] receipt[r] = "running" ->
                             [x EXCEPT !.pc = "returning", !.told = "outcome_unknown"]
                      [] OTHER -> [x EXCEPT !.pc = "returning", !.told = receipt[r]])
        /\ UNCHANGED <<pool, proc, receipt, daemon, ran, faults>>

Get(c) ==
    /\ At(c, "getting")
    /\ \/ /\ queue # <<>>
          /\ queue' = Tail(queue)
          /\ Moves(c, [threads[c] EXCEPT !.pc = "got", !.worker = Head(queue)])
       \/ /\ queue = <<>> /\ UNCHANGED queue
          /\ Moves(c, [threads[c] EXCEPT !.pc = "returning", !.told = "error"])
    /\ UNCHANGED <<workers, listed, leased, drained, stopping, proc, gate, receipt, daemon,
                   ran, faults>>

(* A worker that was replaced meanwhile is passed over.  The request goes  *)
(* into the pipe of one that is leased, or its process is found dead.      *)
Send(c) ==
    LET w == threads[c].worker
    IN  /\ At(c, "got") /\ Unlocked
        /\ listed' = listed \ {w}
        /\ CASE ~Current(w) \/ w \in leased ->
                   /\ \/ Moves(c, [threads[c] EXCEPT !.pc = "getting", !.worker = Nobody])
                      \/ Moves(c, [threads[c] EXCEPT !.pc = "returning", !.told = "error",
                                                     !.worker = Nobody])
                   /\ UNCHANGED <<leased, daemon>>
             [] OTHER ->
                   /\ leased' = leased \cup {w}
                   /\ IF Alive(w)
                      THEN /\ daemon' = [daemon EXCEPT ![w] =
                                 [phase |-> "given", req |-> threads[c].req, said |-> "none"]]
                           /\ GoesTo(c, "awaiting")
                      ELSE GoesTo(c, "recovering") /\ UNCHANGED daemon
        /\ UNCHANGED <<workers, queue, drained, stopping, proc, gate, receipt, ran, faults>>

(* The daemon's line, or the end of its output. *)
Hear(c) ==
    LET said == daemon[threads[c].worker].said
    IN  /\ At(c, "awaiting")
        /\ \/ /\ said # "none"
              /\ daemon' = [daemon EXCEPT ![threads[c].worker].said = "none"]
              /\ Moves(c, [threads[c] EXCEPT !.pc = "releasing", !.told = said])
           \/ /\ said = "none" /\ ~Alive(threads[c].worker)
              /\ GoesTo(c, "recovering") /\ UNCHANGED daemon
        /\ UNCHANGED <<pool, proc, gate, receipt, ran, faults>>

TimeOut(c) ==
    /\ At(c, "awaiting")
    /\ GoesTo(c, "recovering")
    /\ UNCHANGED <<pool, proc, gate, receipt, daemon, ran, faults>>

Told(c, verdict) == Moves(c, [threads[c] EXCEPT !.pc = "dropping", !.told = verdict])

(* faulty: closes the receipt before the worker is stopped *)
RecoverAtOnce(c) ==
    LET r == threads[c].req
    IN  /\ At(c, "recovering")
        /\ receipt' = [receipt EXCEPT ![r] = IF @ \in Verdicts THEN @ ELSE "outcome_unknown"]
        /\ Told(c, receipt'[r])
        /\ UNCHANGED <<pool, proc, gate, daemon, ran, faults>>

(* _recover_protocol_failure: polls the receipt, then stops the worker. *)
Recover(c) ==
    LET r == threads[c].req
    IN  /\ At(c, "recovering")
        /\ \/ receipt[r] \in Verdicts /\ Told(c, receipt[r])
           \/ receipt[r] \notin Verdicts /\ GoesTo(c, "stopping")
        /\ UNCHANGED <<pool, proc, gate, receipt, daemon, ran, faults>>

(* worker.stop() returns when the process has ended. *)
StopWorker(c) ==
    LET w == threads[c].worker
    IN  /\ At(c, "stopping")
        /\ proc' = [proc EXCEPT ![w].state = "gone"]
        /\ daemon' = [daemon EXCEPT ![w] = Ended(@)]
        /\ GoesTo(c, "stopped")
        /\ UNCHANGED <<pool, gate, receipt, ran, faults>>

(* faulty: judges by what it read before the worker was stopped *)
ConcludeFromBefore(c) ==
    LET r == threads[c].req
    IN  /\ At(c, "stopped")
        /\ receipt' = [receipt EXCEPT ![r] = IF @ \in Verdicts THEN @ ELSE "outcome_unknown"]
        /\ Told(c, "outcome_unknown")
        /\ UNCHANGED <<pool, proc, gate, daemon, ran, faults>>

(* faulty: leaves no receipt of a request that was interrupted *)
ConcludeAnew(c) ==
    LET r == threads[c].req
    IN  /\ At(c, "stopped")
        /\ receipt' = [receipt EXCEPT ![r] = IF @ \in Verdicts THEN @ ELSE "none"]
        /\ Moves(c, [threads[c] EXCEPT !.pc = "dropping", !.told = "error"])
        /\ UNCHANGED <<pool, proc, gate, daemon, ran, faults>>

(* The receipt is looked at again, and closed if the daemon did not. *)
Conclude(c) ==
    LET r == threads[c].req
        verdict == IF receipt[r] \in Verdicts THEN receipt[r] ELSE "outcome_unknown"
    IN  /\ At(c, "stopped")
        /\ receipt' = [receipt EXCEPT ![r] = verdict]
        /\ Told(c, verdict)
        /\ UNCHANGED <<pool, proc, gate, daemon, ran, faults>>

(* The finally clause of execute. *)
Release(c) ==
    LET x == threads[c]
        w == x.worker
    IN  /\ x.pc \in {"releasing", "dropping"} /\ Unlocked
        /\ leased' = leased \ {w}
        /\ Moves(c, CASE x.pc = "dropping" ->
                             [x EXCEPT !.pc = "replacing", !.mode = "drop"]
                      [] x.pc = "releasing" /\ Alive(w) /\ ~stopping ->
                             [x EXCEPT !.pc = "enqueuing", !.mode = "call"]
                      [] OTHER -> [x EXCEPT !.pc = "returning"])
        /\ UNCHANGED <<workers, queue, listed, drained, stopping, proc, gate, receipt,
                       daemon, ran, faults>>

Return(c) ==
    LET x == threads[c]
    IN  /\ At(c, "returning")
        /\ gate' = [gate EXCEPT ![x.req] = Nobody]
        /\ Moves(c, Calm)
        /\ UNCHANGED <<pool, proc, receipt, daemon, ran, faults>>

-----------------------------------------------------------------------------
(* Capacity *)

(* The first half of _enqueue_available. *)
List(t, w) ==
    LET x == Takes(threads[t], w)
    IN  /\ Comes(t, "enqueuing", "relisting", w) /\ Unlocked
        /\ IF stopping \/ ~Current(w) \/ w \in leased \cup listed \/ ~Alive(w)
           THEN Moves(t, Resumed(x)) /\ UNCHANGED listed
           ELSE Moves(t, [x EXCEPT !.pc = "putting"]) /\ listed' = listed \cup {w}
        /\ UNCHANGED <<workers, queue, leased, drained, stopping, proc, gate, receipt,
                       daemon, ran, faults>>

(* faulty: takes the queue to be unbounded *)
PutAlways(t) ==
    /\ At(t, "putting")
    /\ queue' = Append(queue, threads[t].worker)
    /\ Moves(t, Resumed(threads[t]))
    /\ UNCHANGED <<workers, listed, leased, drained, stopping, proc, gate, receipt, daemon,
                   ran, faults>>

(* The second half, without the lock. *)
Put(t) ==
    /\ At(t, "putting")
    /\ IF Len(queue) < Size
       THEN queue' = Append(queue, threads[t].worker) /\ Moves(t, Resumed(threads[t]))
       ELSE GoesTo(t, "unlisting") /\ UNCHANGED queue
    /\ UNCHANGED <<workers, listed, leased, drained, stopping, proc, gate, receipt, daemon,
                   ran, faults>>

(* The queue was full. *)
Unlist(t) ==
    /\ At(t, "unlisting") /\ Unlocked
    /\ listed' = listed \ {threads[t].worker}
    /\ Moves(t, Overflowed(threads[t]))
    /\ UNCHANGED <<workers, queue, leased, drained, stopping, proc, gate, receipt, daemon,
                   ran, faults>>

(* _replace_worker takes the lock, and keeps it until the new worker is in *)
(* the table.                                                              *)
Replace(t, w) ==
    LET x == Takes(threads[t], w)
    IN  /\ Comes(t, "replacing", "repairing", w) /\ Unlocked
        /\ Moves(t, IF stopping \/ w \in leased \/ ~Current(w) THEN Resumed(x)
                    ELSE [x EXCEPT !.pc = "draining"])
        /\ UNCHANGED <<pool, proc, gate, receipt, daemon, ran, faults>>

(* _discard_available: the queue is emptied into a list, without w.        *)
Drain(t) ==
    LET w == threads[t].worker
    IN  /\ At(t, "draining")
        /\ IF queue = <<>>
           THEN GoesTo(t, "refilling") /\ UNCHANGED <<queue, listed, retained>>
           ELSE /\ queue' = Tail(queue) /\ listed' = listed \ {Head(queue)}
                /\ retained' = IF Head(queue) = w THEN retained
                               ELSE Append(retained, Head(queue))
                /\ UNCHANGED threads
        /\ UNCHANGED <<workers, leased, lost, stopping, proc, gate, receipt, daemon, ran, faults>>

(* Each is listed and put back.  If somebody has put another one meanwhile *)
(* and the queue is full, the replacement ends there, the worker listed.   *)
Refill(t) ==
    LET w == Head(retained)
    IN  /\ At(t, "refilling") /\ retained # <<>>
        /\ listed' = listed \cup {w}
        /\ IF Len(queue) < Size
           THEN /\ queue' = Append(queue, w) /\ retained' = Tail(retained)
                /\ UNCHANGED <<lost, threads>>
           ELSE /\ lost' = lost \cup {w} /\ retained' = <<>>
                /\ Moves(t, Resumed(threads[t])) /\ UNCHANGED queue
        /\ UNCHANGED <<workers, leased, stopping, proc, gate, receipt, daemon, ran, faults>>

(* The replacement takes the slot; the lock is released. *)
Install(t, fresh) ==
    LET s == proc[threads[t].worker].slot
    IN  /\ At(t, "refilling") /\ retained = <<>>
        /\ fresh \in Unused /\ fresh = CHOOSE w \in Unused : TRUE   \* one name for all
        /\ proc' = [proc EXCEPT ![fresh] = [state |-> "loading", slot |-> s]]
        /\ daemon' = [daemon EXCEPT ![fresh] = Quiet]
        /\ workers' = [workers EXCEPT ![s] = fresh]
        /\ Moves(t, [threads[t] EXCEPT !.pc = "loading", !.worker = fresh])
        /\ UNCHANGED <<queue, listed, leased, drained, stopping, gate, receipt, ran, faults>>

(* launch and await_ready: a handshake, or the end of the process. *)
Load(t) ==
    LET w == threads[t].worker
    IN  /\ At(t, "loading")
        /\ \/ /\ proc[w].state = "loading"
              /\ proc' = [proc EXCEPT ![w].state = "up"]
              /\ IF stopping THEN Moves(t, Resumed(threads[t])) ELSE GoesTo(t, "enqueuing")
              /\ UNCHANGED faults
           \/ /\ proc[w].state = "gone" /\ UNCHANGED <<proc, faults>>
              /\ Moves(t, Resumed(threads[t]))
           \/ /\ proc[w].state = "loading" /\ faults < MaxFaults /\ faults' = faults + 1
              /\ proc' = [proc EXCEPT ![w].state = "gone"]
              /\ Moves(t, Resumed(threads[t]))
        /\ UNCHANGED <<pool, gate, receipt, daemon, ran>>

(* The rounds of the monitor; one that finds nothing to do is left out. *)
MonitorTurn(mode, pc, found) ==
    /\ At(Monitor, "idle") /\ ~stopping /\ found # {} /\ Unlocked
    /\ Moves(Monitor, [Calm EXCEPT !.pc = pc, !.todo = found, !.mode = mode])
    /\ UNCHANGED <<pool, proc, gate, receipt, daemon, ran, faults>>

(* faulty: passes over dead workers that are still on the list *)
LookForDeadUnlisted ==
    MonitorTurn("repair", "repairing",
                {w \in Range(workers) : ~Alive(w) /\ w \notin leased \cup listed})

(* _repair_dead_workers *)
LookForDead ==
    MonitorTurn("repair", "repairing",
                {w \in Range(workers) : ~Alive(w) /\ w \notin leased})

(* _repair_lost_available_workers *)
LookForLost ==
    MonitorTurn("relist", "relisting",
                {w \in Range(workers) : Alive(w) /\ w \notin leased \cup listed})

(* stop(): first the flag, then every process, then the tables. *)
Stop ==
    /\ ~stopping /\ stopping' = TRUE /\ Unlocked
    /\ UNCHANGED <<workers, queue, listed, leased, drained, proc, gate, threads, receipt, daemon,
                   ran, faults>>

StopEnds(w) ==
    /\ stopping /\ Current(w) /\ proc[w].state \in {"loading", "up"}
    /\ proc' = [proc EXCEPT ![w].state = "gone"]
    /\ daemon' = [daemon EXCEPT ![w] = Ended(@)]
    /\ UNCHANGED <<pool, gate, threads, receipt, ran, faults>>

StopClears ==
    /\ stopping /\ Unlocked /\ \A s \in Slots : workers[s] # Nobody /\ ~Alive(workers[s])
    /\ workers' = [s \in Slots |-> Nobody]
    /\ queue' = <<>> /\ listed' = {} /\ leased' = {}
    /\ UNCHANGED <<drained, stopping, proc, gate, threads, receipt, daemon, ran, faults>>

-----------------------------------------------------------------------------
(* The daemon process *)

Says(w, verdict) == [daemon EXCEPT ![w] = [phase |-> "idle", req |-> Nobody, said |-> verdict]]

(* A line arrives.  A request with a verdict gets it again; one that is    *)
(* running, or whose receipt cannot be written, fails; else it is entered. *)
Accept(w) ==
    LET r == daemon[w].req
    IN  /\ daemon[w].phase = "given"
        /\ CASE receipt[r] \in Verdicts ->
                    daemon' = Says(w, receipt[r]) /\ UNCHANGED <<receipt, ran>>
             [] receipt[r] = "running" ->
                    /\ receipt' = [receipt EXCEPT ![r] = "failed"]
                    /\ daemon' = Says(w, "failed") /\ UNCHANGED ran
             [] OTHER ->
                    \/ /\ receipt' = [receipt EXCEPT ![r] = "running"]
                       /\ ran' = [ran EXCEPT ![r] = @ + 1]
                       /\ daemon' = [daemon EXCEPT ![w].phase = "running"]
                    \/ /\ receipt' = [receipt EXCEPT ![r] = "outcome_unknown"]
                       /\ daemon' = Says(w, "outcome_unknown") /\ UNCHANGED ran
        /\ UNCHANGED <<pool, proc, gate, threads, faults>>

(* execute_writer returned or raised; its receipt is replaced. *)
Commit(w, verdict) ==
    /\ daemon[w].phase = "running"
    /\ receipt' = [receipt EXCEPT ![daemon[w].req] = verdict]
    /\ daemon' = [daemon EXCEPT ![w].phase = "wrote"]
    /\ UNCHANGED <<pool, proc, gate, threads, ran, faults>>

Emit(w) ==
    /\ daemon[w].phase = "wrote"
    /\ daemon' = Says(w, receipt[daemon[w].req])
    /\ UNCHANGED <<pool, proc, gate, threads, receipt, ran, faults>>

(* Killed, or out of memory, or both of its receipts failed to be written. *)
Die(w) ==
    /\ Alive(w) /\ Referred(w) /\ faults < MaxFaults /\ faults' = faults + 1
    /\ proc' = [proc EXCEPT ![w].state = "gone"]
    /\ daemon' = [daemon EXCEPT ![w] = Ended(@)]
    /\ UNCHANGED <<pool, gate, threads, receipt, ran>>

-----------------------------------------------------------------------------
CallStep(c) ==
    \/ Get(c) \/ Send(c) \/ Hear(c) \/ TimeOut(c) \/ Recover(c) \/ StopWorker(c)
    \/ Conclude(c) \/ Release(c) \/ Return(c)

CapacityStep(t) ==
    \/ Put(t) \/ Unlist(t) \/ Drain(t) \/ Refill(t) \/ Load(t)
    \/ \E w \in Workers : List(t, w) \/ Replace(t, w) \/ Install(t, w)

DaemonStep(w) == Accept(w) \/ Emit(w) \/ \E verdict \in Outcomes : Commit(w, verdict)

Next ==
    \/ \E c \in Callers : CallStep(c) \/ \E r \in Requests : Enter(c, r)
    \/ \E t \in Threads : CapacityStep(t)
    \/ LookForDead \/ LookForLost \/ Stop \/ StopClears
    \/ \E w \in Workers : DaemonStep(w) \/ Die(w) \/ StopEnds(w)

Spec == Init /\ [][Next]_vars

(* Threads run on, and a call that waits for a daemon is over after its    *)
(* time.  Nobody has to call, and no daemon has to answer.                 *)
FairSpec ==
    /\ Spec
    /\ \A c \in Callers : WF_vars(CallStep(c) \/ CapacityStep(c))
    /\ WF_vars(CapacityStep(Monitor)) /\ WF_vars(LookForDead) /\ WF_vars(LookForLost)

-----------------------------------------------------------------------------
(* Properties *)

(* The writer, and with it every provider call of a request, is entered at *)
(* most once per request: "successful provider calls will not be replayed".*)
RunsOnce == \A r \in Requests : ran[r] <= 1

(* What execute returns or raises is what the receipt says for good.       *)
ToldIsRecorded ==
    \A c \in Callers :
        At(c, "returning") /\ threads[c].told # "error"
        => receipt[threads[c].req] = threads[c].told

(* A receipt with a verdict is never rewritten: the worker is stopped      *)
(* before its receipt is closed for it.                                    *)
ReceiptStands ==
    [][\A r \in Requests : receipt[r] \in Verdicts => receipt'[r] = receipt[r]]_vars

(* The worker of a slot can be leased, or is. *)
Serves(s) ==
    /\ Alive(workers[s])
    /\ workers[s] \in leased \cup (listed \cap ToSet(queue))

(* As long as its monitor lives, every slot comes back to service, but for *)
(* a worker that was listed and not put back: no round looks for it.       *)
CapacityReturns ==
    []<>(stopping \/ At(Monitor, "dead")
         \/ \A s \in Slots : Serves(s) \/ workers[s] \in lost)

=============================================================================
