-------------------------- MODULE WriterPoolProofs --------------------------
(***************************************************************************)
(* Proofs about the writer pool: a request runs once, its receipt stands,  *)
(* and what a caller is told is what the receipt says, for every number of *)
(* workers, callers and requests.                                          *)
(***************************************************************************)
EXTENDS WriterPool, SequenceTheorems, TLAPS

(* From the lease to its release a thread speaks to a worker alone. *)
Leasing == {"awaiting", "recovering", "stopping", "stopped", "releasing", "dropping"}

(* A thread that may still find its request at work. *)
Waiting == {"awaiting", "recovering", "stopping"}

(* The tables of the pool once stop() is through. *)
Cleared == stopping /\ \A s \in Slots : workers[s] = Nobody

(* A call holds the gate of its request until it returns, and a caller     *)
(* does nothing of the monitor's.                                          *)
Gates ==
    \A c \in Callers :
        /\ threads[c].pc # "idle" => /\ threads[c].req \in Requests
                                     /\ gate[threads[c].req] = c
        /\ threads[c].pc \notin {"repairing", "relisting", "dead"}
        /\ threads[c].mode \in {"call", "drop"}

(* A thread that has a worker in hand knows its name. *)
InHand == Leasing \cup {"got", "replacing", "draining", "refilling", "loading", "enqueuing",
                        "putting"}

Knowing == {x \in Thread : x.pc \in InHand => x.worker \in Workers}

(* Until stop(), every slot has its worker. *)
Typed ==
    /\ TypeOK
    /\ threads \in [Threads -> Knowing]
    /\ stopping \/ \A s \in Slots : workers[s] # Nobody

(* Two calls never lease the same worker. *)
Leases ==
    /\ \A c \in Callers :
          threads[c].pc \in Leasing => threads[c].worker \in leased \/ Cleared
    /\ \A c, d \in Callers :
          /\ threads[c].pc \in Leasing /\ threads[d].pc \in Leasing
          /\ threads[c].worker = threads[d].worker
          => c = d

(* The receipt of a request follows the daemon that works on it, and some  *)
(* call waits for that daemon.                                             *)
Daemons ==
    \A w \in Workers :
        /\ daemon[w].phase # "idle" =>
              /\ proc[w].state = "up" /\ daemon[w].req \in Requests /\ daemon[w].said = "none"
        /\ daemon[w].phase = "running" => receipt[daemon[w].req] = "running"
        /\ daemon[w].phase = "wrote" => receipt[daemon[w].req] \in Verdicts
        /\ daemon[w].phase \in {"given", "running"} /\ receipt[daemon[w].req] \notin Verdicts =>
              \E c \in Callers :
                  /\ threads[c].pc \in Waiting
                  /\ threads[c].worker = w /\ threads[c].req = daemon[w].req

(* A receipt that says running has a call that will see to it. *)
Attended ==
    \A r \in Requests : receipt[r] = "running" =>
        \E c \in Callers : threads[c].pc \in Waiting \cup {"stopped"} /\ threads[c].req = r

(* A worker answers the call that leases it. *)
Answers ==
    \A c \in Callers :
        LET d == daemon[threads[c].worker]
        IN  threads[c].pc = "awaiting" =>
                /\ d.phase # "idle" => d.req = threads[c].req
                /\ d.said # "none" => receipt[threads[c].req] = d.said

(* A caller that sees to the capacity of the pool has its answer already. *)
Afterwards == {"replacing", "draining", "refilling", "loading", "enqueuing", "putting",
               "unlisting", "returning"}

(* What a call has heard is what the receipt says. *)
Heard ==
    \A c \in Callers :
        /\ threads[c].told \in Verdicts =>
              threads[c].pc # "idle" /\ receipt[threads[c].req] = threads[c].told
        /\ threads[c].pc \in {"releasing", "dropping"} \cup Afterwards
              => threads[c].told # "none"

(* A request without a receipt has not been entered. *)
Entered == \A r \in Requests : ran[r] <= 1 /\ (receipt[r] = "none" => ran[r] = 0)

(* A thread that takes the queue apart holds the lock, which stop() needs. *)
Holding == {"draining", "refilling"}

Started == \A t \in Threads : threads[t].pc \in Holding => ~stopping

-----------------------------------------------------------------------------
(* Types *)

LEMMA InitTypes == Init => Typed
<1> SUFFICES ASSUME Init PROVE Typed
  OBVIOUS
<1> USE WriterPoolAssumption DEF Init
<1>1. Calm \in Thread /\ Quiet \in Daemon
  BY DEF Calm, Thread, Phases, Quiet, Daemon
<1>2. First \in Seq(Workers) /\ Len(First) = Size
  BY LenProperties
<1>3. proc \in [Workers -> Proc]
  <2>1. \A w \in Workers : proc[w] \in Proc
    <3> SUFFICES ASSUME NEW w \in Workers PROVE proc[w] \in Proc
      OBVIOUS
    <3>1. CASE \E s \in Slots : First[s] = w
      BY <3>1 DEF Proc, Slots
    <3>2. CASE ~\E s \in Slots : First[s] = w
      BY <3>2 DEF Proc, Slots
    <3> QED
      BY <3>1, <3>2
  <2> QED
    BY <2>1
<1>4. First \in [Slots -> Workers \cup {Nobody}] /\ {First[s] : s \in Slots} \subseteq Workers
  BY DEF Slots
<1>5. queue \in Seq(Workers) /\ Len(queue) <= Size
  <2>0. Size <= Size
    OBVIOUS
  <2>1. queue = First
    OBVIOUS
  <2> QED
    BY <2>0, <2>1, <1>2, Zenon
<1>6. workers \in [Slots -> Workers \cup {Nobody}] /\ listed \in SUBSET Workers
  BY <1>4, Zenon
<1>7. threads \in [Threads -> Thread] /\ daemon \in [Workers -> Daemon]
  BY <1>1
<1>8. /\ leased \in SUBSET Workers /\ stopping \in BOOLEAN
      /\ retained \in Seq(Workers) /\ lost \in SUBSET Workers
      /\ gate \in [Requests -> Callers \cup {Nobody}]
      /\ receipt \in [Requests -> Verdicts \cup {"none", "running"}]
      /\ ran \in [Requests -> Nat] /\ faults \in 0..MaxFaults
  <2>1. receipt \in [Requests -> Verdicts \cup {"none", "running"}]
    OBVIOUS
  <2>2. gate \in [Requests -> Callers \cup {Nobody}] /\ ran \in [Requests -> Nat]
    OBVIOUS
  <2>3. faults \in 0..MaxFaults
    OBVIOUS
  <2>4. leased \in SUBSET Workers /\ lost \in SUBSET Workers /\ stopping \in BOOLEAN
    BY Zenon
  <2>5. retained \in Seq(Workers)
    OBVIOUS
  <2> QED
    BY <2>1, <2>2, <2>3, <2>4, <2>5
<1>9. threads \in [Threads -> Knowing]
  BY DEF Knowing, InHand, Leasing, Calm, Thread, Phases
<1>10. \A s \in Slots : workers[s] # Nobody
  BY <1>4
<1> QED
  BY <1>3, <1>5, <1>6, <1>7, <1>8, <1>9, <1>10, Zenon DEF TypeOK, Typed

(* The helpers give threads that are well typed again. *)
LEMMA ThreadTypes ==
    ASSUME NEW x \in Knowing
    PROVE  /\ Calm \in Knowing
           /\ Resumed(x) \in Knowing
           /\ Overflowed(x) \in Knowing
           /\ \A w \in Workers : Takes(x, w) \in Knowing
           /\ \A pc \in Phases : pc \notin InHand \/ x.pc \in InHand
                                    => [x EXCEPT !.pc = pc] \in Knowing
<1> USE DEF Knowing, InHand, Leasing, Thread, Phases
<1>1. Calm \in Knowing
  BY DEF Calm
<1>2. \A w \in Workers : Takes(x, w) \in Knowing
  BY DEF Takes
<1>3. \A pc \in Phases : pc \notin InHand \/ x.pc \in InHand => [x EXCEPT !.pc = pc] \in Knowing
  OBVIOUS
<1>4. Resumed(x) \in Knowing
  <2>1. CASE x.mode \in {"call", "drop"}
    <3>1. Resumed(x) = [x EXCEPT !.pc = "returning"]
      BY <2>1 DEF Resumed
    <3>2. "returning" \in Phases /\ "returning" \notin InHand
      OBVIOUS
    <3> HIDE DEF Knowing, InHand, Phases
    <3> QED
      BY <3>1, <3>2, <1>3
  <2>2. CASE x.mode \in {"repair", "relist"}
    <3>1. Resumed(x) = IF x.todo = {} THEN Calm
                       ELSE [x EXCEPT !.pc = IF x.mode = "repair" THEN "repairing"
                                                                  ELSE "relisting",
                                      !.worker = Nobody]
      BY <2>2 DEF Resumed
    <3>2. [x EXCEPT !.pc = IF x.mode = "repair" THEN "repairing" ELSE "relisting",
                    !.worker = Nobody] \in Knowing
      <4>1. /\ [x EXCEPT !.pc = "repairing", !.worker = Nobody] \in Knowing
            /\ [x EXCEPT !.pc = "relisting", !.worker = Nobody] \in Knowing
        OBVIOUS
      <4> HIDE DEF Knowing
      <4> QED
        BY <4>1
    <3> QED
      BY <3>1, <3>2, <1>1
  <2> QED
    BY <2>1, <2>2
<1>5. Overflowed(x) \in Knowing
  <2>1. [Calm EXCEPT !.pc = "dead"] \in Knowing
    BY <1>1
  <2>2. [Resumed(x) EXCEPT !.told = "error"] \in Knowing
    BY <1>4
  <2> HIDE DEF Knowing
  <2> QED
    BY <1>4, <2>1, <2>2 DEF Overflowed
<1> HIDE DEF Knowing
<1> QED
  BY <1>1, <1>2, <1>3, <1>4, <1>5

LEMMA TypeCall == ASSUME Typed, NEW c \in Callers, CallStep(c) PROVE Typed'
<1> DEFINE x == threads[c]
<1>t. x \in Knowing /\ x \in Thread
  BY DEF Typed, Threads, Knowing
<1>m. ASSUME NEW y \in Knowing, Moves(c, y) PROVE threads' \in [Threads -> Knowing]
  BY <1>m DEF Moves, Typed
<1>k. threads' \in [Threads -> Knowing] => threads' \in [Threads -> Thread]
  BY DEF Knowing
<1>g. ASSUME NEW pc \in Phases, pc \notin InHand \/ x.pc \in InHand, GoesTo(c, pc)
      PROVE  threads' \in [Threads -> Knowing]
  <2>1. [x EXCEPT !.pc = pc] \in Knowing
    BY <1>t, <1>g, ThreadTypes
  <2> QED
    BY <2>1, <1>m, <1>g DEF GoesTo
<1> USE DEF Typed, TypeOK, pool, drained
<1> HIDE DEF x
<1>1. CASE Get(c)
  <2>1. CASE queue # <<>>
    <3>1. Head(queue) \in Workers /\ Tail(queue) \in Seq(Workers) /\ Len(Tail(queue)) <= Size
      BY <2>1, HeadTailProperties, WriterPoolAssumption
    <3>2. [x EXCEPT !.pc = "got", !.worker = Head(queue)] \in Knowing
      BY <3>1, <1>t DEF Thread, Phases, Knowing
    <3>3. threads' \in [Threads -> Knowing]
      BY <1>1, <2>1, <3>2, <1>m DEF Get, x
    <3>4. queue' = Tail(queue)
      BY <1>1, <2>1 DEF Get
    <3> QED
      BY <1>1, <1>k, <3>1, <3>3, <3>4 DEF Get
  <2>2. CASE queue = <<>>
    <3>1. [x EXCEPT !.pc = "returning", !.told = "error"] \in Knowing
      BY <1>t DEF Thread, Phases, Knowing, InHand, Leasing
    <3>2. threads' \in [Threads -> Knowing]
      BY <1>1, <2>2, <3>1, <1>m DEF Get, x
    <3> QED
      BY <1>1, <2>2, <1>k, <3>2 DEF Get
  <2> QED
    BY <2>1, <2>2
<1>2. CASE Send(c)
  <2>0. x.pc = "got" /\ x.worker \in Workers
    BY <1>2, <1>t DEF Send, At, Knowing, InHand, x
  <2>1. threads' \in [Threads -> Knowing]
    <3>1. /\ [x EXCEPT !.pc = "getting", !.worker = Nobody] \in Knowing
          /\ [x EXCEPT !.pc = "returning", !.told = "error", !.worker = Nobody] \in Knowing
      BY <1>t DEF Thread, Phases, Knowing, InHand, Leasing
    <3>2. x.pc \in InHand
      BY <2>0 DEF InHand
    <3>3. CASE GoesTo(c, "awaiting") \/ GoesTo(c, "recovering")
      BY <3>2, <3>3, <1>g DEF Phases
    <3> QED
      BY <1>2, <3>1, <3>3, <1>m DEF Send, x
  <2>2. [phase |-> "given", req |-> x.req, said |-> "none"] \in Daemon
    BY <1>t DEF Thread, Daemon
  <2>3. daemon' \in [Workers -> Daemon]
    BY <1>2, <2>2 DEF Send, x
  <2>4. leased' \in SUBSET Workers /\ listed' \in SUBSET Workers
    BY <1>2, <2>0 DEF Send, x
  <2> QED
    BY <1>2, <1>k, <2>1, <2>3, <2>4 DEF Send
<1>3. CASE Hear(c)
  <2>0. x.pc = "awaiting" /\ x.worker \in Workers
    BY <1>3, <1>t DEF Hear, At, Knowing, InHand, Leasing, x
  <2>1. CASE GoesTo(c, "recovering") /\ UNCHANGED daemon
    <3>1. threads' \in [Threads -> Knowing]
      BY <2>0, <2>1, <1>g DEF InHand, Leasing, Phases
    <3> QED
      BY <1>3, <2>1, <3>1, <1>k DEF Hear
  <2>2. CASE /\ daemon[x.worker].said # "none"
             /\ daemon' = [daemon EXCEPT ![x.worker].said = "none"]
             /\ Moves(c, [x EXCEPT !.pc = "releasing", !.told = daemon[x.worker].said])
    <3>1. [x EXCEPT !.pc = "releasing", !.told = daemon[x.worker].said] \in Knowing
      BY <2>0, <1>t DEF Daemon, Knowing, Thread, Phases
    <3>2. threads' \in [Threads -> Knowing]
      BY <2>2, <3>1, <1>m
    <3>3. daemon' \in [Workers -> Daemon]
      <4>0. daemon[x.worker] \in Daemon
        BY <2>0
      <4>1. [daemon[x.worker] EXCEPT !.said = "none"] \in Daemon
        BY <4>0 DEF Daemon
      <4> QED
        BY <2>2, <4>1
    <3> QED
      BY <1>3, <1>k, <3>2, <3>3 DEF Hear
  <2> QED
    BY <1>3, <2>1, <2>2 DEF Hear, x
<1>4. CASE TimeOut(c)
  <2>1. threads' \in [Threads -> Knowing]
    BY <1>4, <1>g DEF TimeOut, At, InHand, Leasing, Phases, x
  <2> QED
    BY <1>4, <1>k, <2>1 DEF TimeOut
<1>5. CASE Recover(c)
  <2>0. x.pc = "recovering" /\ x.req \in Requests \cup {Nobody}
    BY <1>5, <1>t DEF Recover, At, Thread, x
  <2>1. CASE GoesTo(c, "stopping")
    BY <1>5, <2>0, <2>1, <1>g, <1>k DEF Recover, InHand, Leasing, Phases
  <2>2. CASE receipt[x.req] \in Verdicts /\ Told(c, receipt[x.req])
    <3>1. [x EXCEPT !.pc = "dropping", !.told = receipt[x.req]] \in Knowing
      BY <2>0, <2>2, <1>t DEF Knowing, Thread, Phases, InHand, Leasing
    <3> QED
      BY <1>5, <2>2, <3>1, <1>m, <1>k DEF Recover, Told, x
  <2> QED
    BY <1>5, <2>1, <2>2 DEF Recover, x
<1>6. CASE StopWorker(c)
  <2>1. threads' \in [Threads -> Knowing]
    BY <1>6, <1>g DEF StopWorker, At, InHand, Leasing, Phases, x
  <2>2. proc' \in [Workers -> Proc]
    BY <1>6 DEF StopWorker, Proc
  <2>3. daemon' \in [Workers -> Daemon]
    BY <1>6 DEF StopWorker, Daemon, Ended, Quiet
  <2> QED
    BY <1>6, <1>k, <2>1, <2>2, <2>3 DEF StopWorker
<1>7. CASE Conclude(c)
  <2> DEFINE verdict == IF receipt[x.req] \in Verdicts THEN receipt[x.req] ELSE "outcome_unknown"
  <2>0. x.pc = "stopped" /\ verdict \in Verdicts
    BY <1>7 DEF Conclude, At, Verdicts, x
  <2>1. receipt' = [receipt EXCEPT ![x.req] = verdict] /\ Told(c, verdict)
    BY <1>7 DEF Conclude, x
  <2> HIDE DEF verdict
  <2>2. [x EXCEPT !.pc = "dropping", !.told = verdict] \in Knowing
    BY <2>0, <1>t DEF Knowing, Thread, Phases, InHand, Leasing
  <2>3. threads' \in [Threads -> Knowing]
    BY <2>1, <2>2, <1>m DEF Told, x
  <2>4. receipt' \in [Requests -> Verdicts \cup {"none", "running"}]
    BY <2>0, <2>1
  <2> QED
    BY <1>7, <1>k, <2>3, <2>4 DEF Conclude
<1>8. CASE Release(c)
  <2>1. /\ [x EXCEPT !.pc = "returning"] \in Knowing
        /\ x.pc = "dropping" => [x EXCEPT !.pc = "replacing", !.mode = "drop"] \in Knowing
        /\ x.pc = "releasing" => [x EXCEPT !.pc = "enqueuing", !.mode = "call"] \in Knowing
    BY <1>t DEF Knowing, Thread, Phases, InHand, Leasing
  <2>2. threads' \in [Threads -> Knowing]
    BY <1>8, <2>1, <1>m DEF Release, x
  <2> QED
    BY <1>8, <1>k, <2>2 DEF Release
<1>9. CASE Return(c)
  <2>1. threads' \in [Threads -> Knowing]
    BY <1>9, <1>m, ThreadTypes, <1>t DEF Return
  <2> QED
    BY <1>9, <1>k, <2>1 DEF Return
<1> QED
  BY <1>1, <1>2, <1>3, <1>4, <1>5, <1>6, <1>7, <1>8, <1>9 DEF CallStep

LEMMA TypeEnter == ASSUME Typed, NEW c \in Callers, NEW r \in Requests, Enter(c, r) PROVE Typed'
<1> USE DEF Typed, TypeOK, pool, drained
<1> DEFINE x == [Calm EXCEPT !.req = r]
<1>1. /\ [x EXCEPT !.pc = "getting"] \in Knowing
      /\ [x EXCEPT !.pc = "returning", !.told = "outcome_unknown"] \in Knowing
      /\ receipt[r] \in Verdicts => [x EXCEPT !.pc = "returning", !.told = receipt[r]] \in Knowing
  BY DEF Calm, Knowing, Thread, Phases, Verdicts, InHand, Leasing
<1>2. \E y \in Knowing : Moves(c, y)
  BY <1>1 DEF Enter
<1>3. threads' \in [Threads -> Knowing]
  BY <1>2 DEF Moves
<1>4. threads' \in [Threads -> Thread]
  BY <1>3 DEF Knowing
<1>5. gate' \in [Requests -> Callers \cup {Nobody}]
  BY DEF Enter
<1> QED
  BY <1>3, <1>4, <1>5 DEF Enter

LEMMA TypeCapacity == ASSUME Typed, NEW t \in Threads, CapacityStep(t) PROVE Typed'
<1> DEFINE x == threads[t]
<1>t. x \in Knowing /\ x \in Thread
  BY DEF Typed, Threads, Knowing
<1>m. ASSUME NEW y \in Knowing, Moves(t, y)
      PROVE  threads' \in [Threads -> Knowing] /\ threads' \in [Threads -> Thread]
  BY <1>m DEF Moves, Typed, Knowing
<1> USE DEF Typed, TypeOK, pool, drained
<1> HIDE DEF x
<1>1. CASE Put(t)
  <2>0. x.worker \in Workers /\ x.pc \in InHand
    BY <1>1, <1>t DEF Put, At, Knowing, InHand, x
  <2>1. Moves(t, Resumed(x)) \/ Moves(t, [x EXCEPT !.pc = "unlisting"])
    BY <1>1 DEF Put, GoesTo, x
  <2>2. threads' \in [Threads -> Knowing] /\ threads' \in [Threads -> Thread]
    <3>1. [x EXCEPT !.pc = "unlisting"] \in Knowing
      BY <2>0, <1>t, ThreadTypes DEF Phases
    <3> QED
      BY <2>1, <3>1, <1>t, <1>m, ThreadTypes
  <2>3. queue' \in Seq(Workers) /\ Len(queue') <= Size
    <3>1. CASE Len(queue) < Size /\ queue' = Append(queue, x.worker)
      BY <3>1, <2>0, AppendProperties, WriterPoolAssumption
    <3> QED
      BY <1>1, <3>1 DEF Put, x
  <2> QED
    BY <1>1, <2>2, <2>3 DEF Put
<1>2. CASE Load(t)
  <2>0. x.pc = "loading"
    BY <1>2 DEF Load, At, x
  <2>1. Moves(t, Resumed(x)) \/ Moves(t, [x EXCEPT !.pc = "enqueuing"])
    BY <1>2 DEF Load, GoesTo, x
  <2>2. [x EXCEPT !.pc = "enqueuing"] \in Knowing
    BY <2>0, <1>t, ThreadTypes DEF InHand, Phases
  <2>3. threads' \in [Threads -> Knowing] /\ threads' \in [Threads -> Thread]
    BY <2>1, <2>2, <1>t, <1>m, ThreadTypes
  <2>4. proc' \in [Workers -> Proc]
    <3>1. \A s \in {"up", "gone"} : [proc[x.worker] EXCEPT !.state = s] \in Proc
      <4>1. proc[x.worker] \in Proc
        BY <2>0, <1>t DEF Knowing, InHand
      <4> QED
        BY <4>1 DEF Proc
    <3> QED
      BY <1>2, <3>1 DEF Load, x
  <2>5. faults' \in 0..MaxFaults
    BY <1>2, WriterPoolAssumption DEF Load
  <2> QED
    BY <1>2, <2>3, <2>4, <2>5 DEF Load
<1>3. ASSUME NEW w \in Workers, List(t, w) PROVE Typed'
  <2>1. Takes(x, w) \in Knowing
    BY <1>t, ThreadTypes
  <2>2. CASE Moves(t, Resumed(Takes(x, w))) /\ UNCHANGED listed
    BY <2>1, <2>2, <1>3, <1>m, ThreadTypes DEF List
  <2>3. CASE Moves(t, [Takes(x, w) EXCEPT !.pc = "putting"]) /\ listed' = listed \cup {w}
    <3>1. Takes(x, w).worker = w
      BY <1>t DEF Takes, Thread
    <3>2. [Takes(x, w) EXCEPT !.pc = "putting"] \in Knowing
      BY <2>1, <3>1 DEF Knowing, Thread, Phases
    <3> QED
      BY <2>3, <3>2, <1>3, <1>m DEF List
  <2> QED
    BY <1>3, <2>2, <2>3 DEF List, x
<1>4. ASSUME NEW w \in Workers, Replace(t, w) PROVE Typed'
  <2>1. Takes(x, w) \in Knowing /\ Takes(x, w).worker = w
    BY <1>t, ThreadTypes DEF Takes, Thread
  <2>2. [Takes(x, w) EXCEPT !.pc = "draining"] \in Knowing
    BY <2>1 DEF Knowing, Thread, Phases
  <2>3. Moves(t, Resumed(Takes(x, w))) \/ Moves(t, [Takes(x, w) EXCEPT !.pc = "draining"])
    BY <1>4 DEF Replace, x
  <2>4. threads' \in [Threads -> Knowing] /\ threads' \in [Threads -> Thread]
    BY <2>1, <2>2, <2>3, <1>m, ThreadTypes
  <2> QED
    BY <1>4, <2>4 DEF Replace
<1>5. CASE Unlist(t)
  <2>1. threads' \in [Threads -> Knowing] /\ threads' \in [Threads -> Thread]
    BY <1>5, <1>t, <1>m, ThreadTypes DEF Unlist, x
  <2> QED
    BY <1>5, <2>1 DEF Unlist
<1>6. CASE Drain(t)
  <2>1. CASE queue = <<>>
    <3>1. [x EXCEPT !.pc = "refilling"] \in Knowing
      BY <1>6, <1>t, ThreadTypes DEF Drain, At, InHand, Phases, x
    <3>2. threads' \in [Threads -> Knowing] /\ threads' \in [Threads -> Thread]
      BY <1>6, <2>1, <3>1, <1>m DEF Drain, GoesTo, x
    <3> QED
      BY <1>6, <2>1, <3>2 DEF Drain
  <2>2. CASE queue # <<>>
    <3>1. /\ Head(queue) \in Workers /\ Tail(queue) \in Seq(Workers)
          /\ Len(Tail(queue)) <= Size
      BY <2>2, HeadTailProperties, WriterPoolAssumption
    <3>2. Append(retained, Head(queue)) \in Seq(Workers)
      BY <3>1, AppendProperties
    <3>3. /\ queue' = Tail(queue) /\ listed' \subseteq listed
          /\ retained' \in {retained, Append(retained, Head(queue))} /\ UNCHANGED threads
      BY <1>6, <2>2 DEF Drain
    <3> QED
      BY <1>6, <3>1, <3>2, <3>3 DEF Drain
  <2> QED
    BY <2>1, <2>2
<1>7. CASE Refill(t)
  <2>1. /\ Head(retained) \in Workers /\ Tail(retained) \in Seq(Workers)
        /\ listed' = listed \cup {Head(retained)}
    BY <1>7, HeadTailProperties DEF Refill
  <2>2. CASE Len(queue) < Size
    <3>1. /\ Append(queue, Head(retained)) \in Seq(Workers)
          /\ Len(Append(queue, Head(retained))) <= Size
      BY <2>1, <2>2, AppendProperties, WriterPoolAssumption
    <3>2. /\ queue' = Append(queue, Head(retained)) /\ retained' = Tail(retained)
          /\ UNCHANGED <<lost, threads>>
      BY <1>7, <2>2 DEF Refill
    <3> QED
      BY <1>7, <2>1, <3>1, <3>2 DEF Refill
  <2>3. CASE ~(Len(queue) < Size)
    <3>1. threads' \in [Threads -> Knowing] /\ threads' \in [Threads -> Thread]
      BY <1>7, <2>3, <1>t, <1>m, ThreadTypes DEF Refill, x
    <3>2. retained' = <<>> /\ lost' = lost \cup {Head(retained)} /\ UNCHANGED queue
      BY <1>7, <2>3 DEF Refill
    <3> QED
      BY <1>7, <2>1, <3>1, <3>2 DEF Refill
  <2> QED
    BY <2>2, <2>3
<1>8. ASSUME NEW fresh \in Workers, Install(t, fresh) PROVE Typed'
  <2>1. x.worker \in Workers /\ proc[x.worker] \in Proc
    BY <1>8, <1>t DEF Install, At, Knowing, InHand, x
  <2>2. proc[x.worker].slot \in Slots
    BY <2>1 DEF Proc
  <2>3. proc' \in [Workers -> Proc]
    BY <1>8, <2>2 DEF Install, Proc, x
  <2>4. /\ workers' \in [Slots -> Workers \cup {Nobody}]
        /\ stopping \/ \A s \in Slots : workers'[s] # Nobody
    BY <1>8, <2>2, WriterPoolAssumption DEF Install, x
  <2>5. daemon' \in [Workers -> Daemon]
    BY <1>8 DEF Install, Quiet, Daemon
  <2>6. [x EXCEPT !.pc = "loading", !.worker = fresh] \in Knowing
    BY <1>t DEF Knowing, Thread, Phases
  <2>7. threads' \in [Threads -> Knowing] /\ threads' \in [Threads -> Thread]
    BY <1>8, <2>6, <1>m DEF Install, x
  <2> QED
    BY <1>8, <2>3, <2>4, <2>5, <2>7 DEF Install
<1> QED
  BY <1>1, <1>2, <1>3, <1>4, <1>5, <1>6, <1>7, <1>8 DEF CapacityStep

LEMMA TypeRest ==
    ASSUME Typed,
           \A w \in Workers : daemon[w].phase = "wrote" => receipt[daemon[w].req] \in Verdicts,
           \/ LookForDead \/ LookForLost \/ Stop \/ StopClears
           \/ \E w \in Workers : DaemonStep(w) \/ Die(w) \/ StopEnds(w)
    PROVE  Typed'
<1> USE DEF Typed, TypeOK, pool, drained
<1>1. CASE LookForDead \/ LookForLost
  <2>1. PICK mode \in {"repair", "relist"}, pc \in {"repairing", "relisting"},
             found \in SUBSET Workers : MonitorTurn(mode, pc, found)
    <3>1. ~stopping
      BY <1>1 DEF LookForDead, LookForLost, MonitorTurn
    <3>2. Range(workers) \subseteq Workers
      BY <3>1 DEF Range
    <3>3. CASE LookForDead
      BY <3>2, <3>3, Zenon DEF LookForDead
    <3>4. CASE LookForLost
      BY <3>2, <3>4, Zenon DEF LookForLost
    <3> QED
      BY <1>1, <3>3, <3>4
  <2>2. [Calm EXCEPT !.pc = pc, !.todo = found, !.mode = mode] \in Knowing
    BY DEF Calm, Knowing, Thread, Phases, InHand, Leasing
  <2>3. threads' \in [Threads -> Knowing] /\ threads' \in [Threads -> Thread]
    BY <2>1, <2>2 DEF MonitorTurn, Moves, Knowing
  <2> QED
    BY <2>1, <2>3 DEF MonitorTurn
<1>2. CASE Stop
  BY <1>2 DEF Stop
<1>3. CASE StopClears
  <2>1. queue' \in Seq(Workers) /\ Len(queue') <= Size
    BY <1>3, WriterPoolAssumption DEF StopClears
  <2> QED
    BY <1>3, <2>1 DEF StopClears
<1>4. ASSUME NEW w \in Workers, Accept(w) PROVE Typed'
  <2>1. daemon[w] \in Daemon /\ daemon[w].req \in Requests \cup {Nobody}
    BY DEF Daemon
  <2>2. receipt' \in [Requests -> Verdicts \cup {"none", "running"}]
    BY <1>4 DEF Accept, Verdicts
  <2>3. ran' \in [Requests -> Nat]
    <3>1. ASSUME NEW r \in Requests, ran' = [ran EXCEPT ![r] = @ + 1]
          PROVE  ran' \in [Requests -> Nat]
      BY <3>1
    <3>2. ASSUME NEW r, r \notin Requests, ran' = [ran EXCEPT ![r] = @ + 1]
          PROVE  ran' = ran
      BY <3>2
    <3>3. UNCHANGED ran \/ ran' = [ran EXCEPT ![daemon[w].req] = @ + 1]
      BY <1>4, Zenon DEF Accept
    <3> QED
      BY <3>1, <3>2, <3>3
  <2>4. daemon' \in [Workers -> Daemon]
    <3>1. \/ \E v \in Verdicts : daemon' = Says(w, v)
          \/ daemon' = [daemon EXCEPT ![w].phase = "running"]
      BY <1>4 DEF Accept, Verdicts
    <3>2. ASSUME NEW v \in Verdicts
          PROVE  [phase |-> "idle", req |-> Nobody, said |-> v] \in Daemon
      BY DEF Daemon
    <3>3. [daemon[w] EXCEPT !.phase = "running"] \in Daemon
      BY <2>1 DEF Daemon
    <3> QED
      BY <3>1, <3>2, <3>3 DEF Says
  <2> QED
    BY <1>4, <2>2, <2>3, <2>4 DEF Accept
<1>5. ASSUME NEW w \in Workers, NEW v \in Verdicts, Commit(w, v) PROVE Typed'
  <2>1. receipt' \in [Requests -> Verdicts \cup {"none", "running"}]
    BY <1>5 DEF Commit
  <2>2. daemon' \in [Workers -> Daemon]
    BY <1>5 DEF Commit, Daemon
  <2> QED
    BY <1>5, <2>1, <2>2 DEF Commit
<1>6. ASSUME NEW w \in Workers, Emit(w) PROVE Typed'
  <2>1. receipt[daemon[w].req] \in Verdicts
    BY <1>6 DEF Emit
  <2>2. [phase |-> "idle", req |-> Nobody, said |-> receipt[daemon[w].req]] \in Daemon
    BY <2>1 DEF Daemon
  <2>3. daemon' \in [Workers -> Daemon]
    BY <1>6, <2>2 DEF Emit, Says
  <2> QED
    BY <1>6, <2>3 DEF Emit
<1>7. ASSUME NEW w \in Workers, Die(w) \/ StopEnds(w) PROVE Typed'
  <2>1. Ended(daemon[w]) \in Daemon
    BY DEF Quiet, Daemon, Ended
  <2>2. proc' \in [Workers -> Proc]
    <3>1. [proc[w] EXCEPT !.state = "gone"] \in Proc
      BY DEF Proc
    <3> QED
      BY <1>7, <3>1 DEF Die, StopEnds
  <2>3. daemon' \in [Workers -> Daemon]
    BY <1>7, <2>1 DEF Die, StopEnds
  <2>4. faults' \in 0..MaxFaults
    BY <1>7, WriterPoolAssumption DEF Die, StopEnds
  <2> QED
    BY <1>7, <2>2, <2>3, <2>4 DEF Die, StopEnds
<1> QED
  BY <1>1, <1>2, <1>3, <1>4, <1>5, <1>6, <1>7, WriterPoolAssumption DEF DaemonStep

-----------------------------------------------------------------------------
(* The calls *)

(* A step of a thread leaves the other threads as they are. *)
LEMMA OthersStay ==
    ASSUME Typed
    PROVE  /\ \A c \in Callers : CallStep(c) => \A t \in Threads \ {c} : threads'[t] = threads[t]
           /\ \A s \in Threads : CapacityStep(s) =>
                 \A t \in Threads \ {s} : threads'[t] = threads[t]
<1> USE DEF Typed, TypeOK, Moves, GoesTo
<1>1. ASSUME NEW s \in Threads, NEW t \in Threads \ {s}, NEW y, Moves(s, y)
      PROVE  threads'[t] = threads[t]
  BY <1>1
<1> HIDE DEF Typed, TypeOK
<1>2. ASSUME NEW c \in Callers, CallStep(c) PROVE \E y : Moves(c, y)
  <2> USE DEF Told
  <2>1. CASE Get(c) \/ Send(c) \/ Hear(c)
    BY <2>1 DEF Get, Send, Hear
  <2>2. CASE TimeOut(c) \/ Recover(c) \/ StopWorker(c)
    BY <2>2 DEF TimeOut, Recover, StopWorker
  <2>3. CASE Conclude(c) \/ Release(c) \/ Return(c)
    BY <2>3 DEF Conclude, Release, Return
  <2> QED
    BY <1>2, <2>1, <2>2, <2>3 DEF CallStep
<1>3. ASSUME NEW s \in Threads, CapacityStep(s) PROVE UNCHANGED threads \/ \E y : Moves(s, y)
  BY <1>3 DEF CapacityStep, Put, Unlist, Drain, Refill, Load, List, Replace, Install
<1> HIDE DEF Moves
<1> QED
  BY <1>1, <1>2, <1>3 DEF Threads

(* The calls that go on keep their request and their gate. *)
Held == \A c \in Callers :
    /\ threads'[c].pc # "idle" => threads[c].pc # "idle" /\ threads'[c].req = threads[c].req
    /\ threads'[c].pc \notin {"repairing", "relisting", "dead"}
    /\ threads'[c].mode \in {"call", "drop"}

LEMMA CallHolds ==
    ASSUME Typed, Gates, NEW c \in Callers, CallStep(c)
    PROVE  Held /\ threads'[c].pc \notin Holding
<1> USE DEF Gates
<1>t. threads[c] \in Thread /\ \A d \in Callers \ {c} : threads'[d] = threads[d]
  BY OthersStay DEF Typed, TypeOK, Threads
<1>s. SUFFICES /\ threads'[c].pc # "idle" => threads[c].pc # "idle" /\ threads'[c].req = threads[c].req
               /\ threads'[c].pc \notin Holding \cup {"repairing", "relisting", "dead"}
               /\ threads'[c].mode \in {"call", "drop"}
  BY <1>t DEF Held
<1> DEFINE x == threads[c]
<1>x. /\ x \in Thread /\ x.pc \notin {"repairing", "relisting", "dead"}
      /\ x.mode \in {"call", "drop"}
  BY <1>t DEF Gates
<1>m. ASSUME NEW y, Moves(c, y) PROVE threads'[c] = y
  BY <1>m DEF Moves, Typed, TypeOK, Threads
<1> HIDE DEF Gates, x
<1> USE DEF Told, GoesTo, At, Thread, Holding
<1>1. CASE Get(c)
  <2>1. \E w : \/ threads'[c] = [x EXCEPT !.pc = "got", !.worker = w]
               \/ threads'[c] = [x EXCEPT !.pc = "returning", !.told = "error"]
    BY <1>1, <1>m DEF Get, x
  <2> QED
    BY <1>1, <2>1, <1>x DEF Get, x
<1>2. CASE Send(c)
  <2>1. \/ threads'[c] = [x EXCEPT !.pc = "getting", !.worker = Nobody]
        \/ threads'[c] = [x EXCEPT !.pc = "returning", !.told = "error", !.worker = Nobody]
        \/ threads'[c] = [x EXCEPT !.pc = "awaiting"]
        \/ threads'[c] = [x EXCEPT !.pc = "recovering"]
    BY <1>2, <1>m DEF Send, x
  <2> QED
    BY <1>2, <2>1, <1>x DEF Send, x
<1>3. CASE Hear(c) \/ TimeOut(c)
  <2>1. \E v : \/ threads'[c] = [x EXCEPT !.pc = "releasing", !.told = v]
               \/ threads'[c] = [x EXCEPT !.pc = "recovering"]
    BY <1>3, <1>m DEF Hear, TimeOut, x
  <2> QED
    BY <1>3, <2>1, <1>x DEF Hear, TimeOut, x
<1>4. CASE Recover(c) \/ StopWorker(c) \/ Conclude(c)
  <2>1. \E v : \/ threads'[c] = [x EXCEPT !.pc = "dropping", !.told = v]
               \/ threads'[c] = [x EXCEPT !.pc = "stopping"]
               \/ threads'[c] = [x EXCEPT !.pc = "stopped"]
    BY <1>4, <1>m DEF Recover, StopWorker, Conclude, x
  <2> QED
    BY <1>4, <2>1, <1>x DEF Recover, StopWorker, Conclude, x
<1>5. CASE Release(c)
  <2>1. \/ threads'[c] = [x EXCEPT !.pc = "replacing", !.mode = "drop"]
        \/ threads'[c] = [x EXCEPT !.pc = "enqueuing", !.mode = "call"]
        \/ threads'[c] = [x EXCEPT !.pc = "returning"]
    BY <1>5, <1>m DEF Release, x
  <2> QED
    BY <1>5, <2>1, <1>x DEF Release, x
<1>6. CASE Return(c)
  BY <1>6, <1>m DEF Return, Calm
<1> QED
  BY <1>1, <1>2, <1>3, <1>4, <1>5, <1>6 DEF CallStep

SeesToPool(c) ==
    /\ {threads[c].pc, threads'[c].pc} \subseteq Afterwards
    /\ threads'[c].req = threads[c].req /\ threads'[c].mode = threads[c].mode
    /\ threads'[c].told \in {threads[c].told, "error"}

LEMMA CapacityHolds ==
    ASSUME Typed, Gates, NEW t \in Threads, CapacityStep(t), NEW c \in Callers
    PROVE  threads'[c] = threads[c] \/ SeesToPool(c)
<1> DEFINE x == threads[c]
<1>t. x \in Thread /\ c \in Threads /\ x.mode \in {"call", "drop"}
      /\ x.pc \notin {"repairing", "relisting", "dead"}
  BY DEF Typed, TypeOK, Threads, Gates
<1>1. CASE c # t
  BY <1>1, <1>t, OthersStay
<1>3. CASE UNCHANGED threads
  BY <1>3
<1>2. CASE c = t /\ ~UNCHANGED threads
  <2>m. ASSUME NEW y, Moves(t, y) PROVE threads'[c] = y
    BY <2>m, <1>2 DEF Moves, Typed, TypeOK, Threads
  <2> DEFINE Goes(y) == /\ y.req = x.req /\ y.mode = x.mode /\ y.told \in {x.told, "error"}
                        /\ y.pc \in Afterwards
  <2>r. ASSUME NEW y \in Thread, y.req = x.req, y.mode = x.mode, y.told = x.told
        PROVE  Goes(Resumed(y)) /\ Goes(Overflowed(y))
    <3>1. Resumed(y) = [y EXCEPT !.pc = "returning"]
      BY <1>t, <2>r DEF Resumed
    <3>2. Overflowed(y) \in {Resumed(y), [Resumed(y) EXCEPT !.told = "error"]}
      BY <1>t, <2>r DEF Overflowed
    <3> QED
      BY <2>r, <3>1, <3>2 DEF Thread, Afterwards
  <2>k. \A w \in Workers : LET y == Takes(x, w)
                            IN  /\ y \in Thread /\ y.req = x.req
                                /\ y.mode = x.mode /\ y.told = x.told
    BY <1>t DEF Takes, Thread
  <2>1. PICK y : Goes(y) /\ Moves(t, y)
    <3>1. CASE Put(t)
      <4>1. Moves(t, Resumed(x)) \/ Moves(t, [x EXCEPT !.pc = "unlisting"])
        BY <3>1, <1>2 DEF Put, GoesTo
      <4>2. Goes(Resumed(x)) /\ Goes([x EXCEPT !.pc = "unlisting"])
        BY <2>r, <1>t DEF Thread, Afterwards
      <4> HIDE DEF Goes
      <4> QED
        BY <4>1, <4>2
    <3>2. CASE Load(t)
      <4>1. Moves(t, Resumed(x)) \/ Moves(t, [x EXCEPT !.pc = "enqueuing"])
        BY <3>2, <1>2 DEF Load, GoesTo
      <4>2. Goes(Resumed(x)) /\ Goes([x EXCEPT !.pc = "enqueuing"])
        BY <2>r, <1>t DEF Thread, Afterwards
      <4> HIDE DEF Goes
      <4> QED
        BY <4>1, <4>2
    <3>3. ASSUME NEW w \in Workers, List(t, w) PROVE \E y : Goes(y) /\ Moves(t, y)
      <4>1. \/ Moves(t, Resumed(Takes(x, w)))
            \/ Moves(t, [Takes(x, w) EXCEPT !.pc = "putting"])
        BY <3>3, <1>2 DEF List
      <4>2. Goes(Resumed(Takes(x, w))) /\ Goes([Takes(x, w) EXCEPT !.pc = "putting"])
        BY <2>r, <2>k DEF Thread, Afterwards
      <4> HIDE DEF Goes
      <4> QED
        BY <4>1, <4>2
    <3>4. ASSUME NEW w \in Workers, Replace(t, w) PROVE \E y : Goes(y) /\ Moves(t, y)
      <4>1. \/ Moves(t, Resumed(Takes(x, w)))
            \/ Moves(t, [Takes(x, w) EXCEPT !.pc = "draining"])
        BY <3>4, <1>2 DEF Replace
      <4>2. Goes(Resumed(Takes(x, w))) /\ Goes([Takes(x, w) EXCEPT !.pc = "draining"])
        BY <2>r, <2>k DEF Thread, Afterwards
      <4> HIDE DEF Goes
      <4> QED
        BY <4>1, <4>2
    <3>5. CASE Unlist(t) \/ Drain(t) \/ Refill(t)
      <4>1. \/ Moves(t, Resumed(x)) \/ Moves(t, Overflowed(x))
            \/ Moves(t, [x EXCEPT !.pc = "refilling"])
        BY <3>5, <1>2 DEF Unlist, Drain, Refill, GoesTo
      <4>2. /\ Goes(Resumed(x)) /\ Goes(Overflowed(x))
            /\ Goes([x EXCEPT !.pc = "refilling"])
        BY <2>r, <1>t DEF Thread, Afterwards
      <4> HIDE DEF Goes
      <4> QED
        BY <4>1, <4>2
    <3>6. ASSUME NEW f \in Workers, Install(t, f) PROVE \E y : Goes(y) /\ Moves(t, y)
      <4>1. Moves(t, [x EXCEPT !.pc = "loading", !.worker = f])
        BY <3>6, <1>2 DEF Install
      <4>2. Goes([x EXCEPT !.pc = "loading", !.worker = f])
        BY <1>t DEF Thread, Afterwards
      <4> HIDE DEF Goes
      <4> QED
        BY <4>1, <4>2
    <3> QED
      BY <3>1, <3>2, <3>3, <3>4, <3>5, <3>6 DEF CapacityStep
  <2>2. x.pc \in Afterwards
    BY <1>2, <1>t DEF CapacityStep, Put, Unlist, Drain, Refill, Load, List, Replace, Install,
                      Comes, At, Afterwards
  <2> QED
    BY <1>2, <1>t, <2>1, <2>2, <2>m DEF SeesToPool
<1> QED
  BY <1>1, <1>2, <1>3

-----------------------------------------------------------------------------
(* The invariant *)

WriterInv ==
    Typed /\ Gates /\ Leases /\ Daemons /\ Attended /\ Answers /\ Heard /\ Entered

LEMMA InitInv == Init => WriterInv
<1> SUFFICES ASSUME Init PROVE WriterInv
  OBVIOUS
<1>1. Typed
  BY InitTypes
<1>2. \A t \in Threads : threads[t] = Calm
  BY DEF Init
<1>3. \A c \in Callers : threads[c] = Calm
  BY <1>2 DEF Threads
<1>4. Gates /\ Leases /\ Answers /\ Heard
  <2>1. Gates /\ Leases /\ Answers
    BY <1>3 DEF Gates, Leases, Answers, Calm, Leasing
  <2>2. Heard
    BY <1>3 DEF Heard, Calm, Verdicts, Afterwards
  <2> QED
    BY <2>1, <2>2
<1>5. Daemons /\ Attended /\ Entered
  BY DEF Init, Daemons, Attended, Entered, Quiet
<1> QED
  BY <1>1, <1>4, <1>5 DEF WriterInv

(* Nobody speaks to a process whose name is used again. *)
LEMMA NewProcess ==
    ASSUME WriterInv, NEW t \in Threads, CapacityStep(t)
    PROVE  \E fresh \in Workers \cup {Nobody} :
               /\ \A c \in Callers : threads[c].worker # fresh \/ fresh = Nobody
               /\ \A w \in Workers \ {fresh} :
                     daemon'[w] = daemon[w] /\ (proc[w].state = "up" => proc'[w].state = "up")
               /\ fresh # Nobody => daemon'[fresh] = Quiet
<1> USE DEF WriterInv
<1>1. ASSUME NEW f \in Workers, Install(t, f)
      PROVE  /\ \A c \in Callers : threads[c].worker # f
             /\ \A w \in Workers \ {f} : daemon'[w] = daemon[w] /\ proc'[w] = proc[w]
             /\ daemon'[f] = Quiet
  <2>1. f \in Unused
    BY <1>1 DEF Install
  <2>2. \A c \in Callers : threads[c].worker # f
    BY <2>1 DEF Unused, Referred, Threads
  <2> QED
    BY <1>1, <2>2 DEF Install, Typed, TypeOK
<1>2. CASE Load(t)
  <2>1. UNCHANGED daemon /\ \A w \in Workers : proc[w].state = "up" => proc'[w].state = "up"
    BY <1>2 DEF Load, Typed, TypeOK, Proc
  <2> QED
    BY <2>1
<1>3. CASE UNCHANGED <<daemon, proc>>
  BY <1>3
<1>4. UNCHANGED <<daemon, proc>> \/ Load(t) \/ \E f \in Workers : Install(t, f)
  BY DEF CapacityStep, Put, Unlist, Drain, Refill, List, Replace
<1> QED
  BY <1>1, <1>2, <1>3, <1>4

LEMMA CapacityKeeps ==
    ASSUME WriterInv, Started, NEW t \in Threads, CapacityStep(t) PROVE WriterInv'
<1> USE DEF WriterInv
<1>1. Typed'
  BY TypeCapacity
<1>2. \A c \in Callers : threads'[c] = threads[c] \/ SeesToPool(c)
  BY CapacityHolds
<1>3. UNCHANGED <<gate, receipt, ran, leased, stopping>>
  BY DEF CapacityStep, Put, Unlist, Drain, Refill, Load, List, Replace, Install, pool
<1>4. stopping => UNCHANGED workers
  BY DEF CapacityStep, Put, Unlist, Drain, Refill, Load, List, Replace, Install, pool,
         Started, Holding, At
<1>5. PICK fresh \in Workers \cup {Nobody} :
          /\ \A c \in Callers : threads[c].worker # fresh \/ fresh = Nobody
          /\ \A w \in Workers \ {fresh} :
                daemon'[w] = daemon[w] /\ (proc[w].state = "up" => proc'[w].state = "up")
          /\ fresh # Nobody => daemon'[fresh] = Quiet
  BY NewProcess
<1>w. \A c \in Callers : threads[c].pc \in Leasing => threads[c].worker \in Workers \ {fresh}
  BY <1>5, WriterPoolAssumption DEF Typed, Knowing, InHand, Threads
<1>6. \A c \in Callers : threads[c].pc \in Leasing \/ threads'[c].pc \in Leasing
                            => threads'[c] = threads[c]
  BY <1>2 DEF SeesToPool, Afterwards, Leasing
<1>7. Gates'
  BY <1>2, <1>3 DEF Gates, SeesToPool, Afterwards
<1>8. Leases'
  BY <1>3, <1>4, <1>6 DEF Leases, Cleared
<1>9. Daemons'
  <2>1. \A c \in Callers : threads[c].pc \in Waiting => threads'[c] = threads[c]
    BY <1>6 DEF Waiting, Leasing
  <2>2. \A w \in Workers : w = fresh => daemon'[w].phase = "idle"
    BY <1>5, WriterPoolAssumption DEF Quiet
  <2> QED
    BY <1>3, <1>5, <2>1, <2>2 DEF Daemons
<1>10. Answers'
  <2>1. \A c \in Callers : threads'[c].pc = "awaiting" =>
           threads'[c] = threads[c] /\ daemon'[threads[c].worker] = daemon[threads[c].worker]
    BY <1>5, <1>6, <1>w DEF Leasing
  <2> QED
    BY <1>3, <2>1 DEF Answers
<1>11. Heard'
  BY <1>2, <1>3 DEF Heard, SeesToPool, Afterwards, Verdicts
<1>12. Entered'
  BY <1>3 DEF Entered
<1>13. Attended'
  BY <1>3, <1>6 DEF Attended, Waiting, Leasing
<1> QED
  BY <1>13, <1>1, <1>7, <1>8, <1>9, <1>10, <1>11, <1>12

LEMMA EnterKeeps ==
    ASSUME WriterInv, NEW c \in Callers, NEW r \in Requests, Enter(c, r) PROVE WriterInv'
<1> USE DEF WriterInv
<1>1. Typed'
  BY TypeEnter
<1>2. /\ \A d \in Callers \ {c} : threads'[d] = threads[d]
      /\ threads[c].pc = "idle" /\ gate[r] = Nobody
      /\ gate' = [gate EXCEPT ![r] = c]
      /\ UNCHANGED <<pool, proc, receipt, daemon, ran, faults>>
  BY DEF Enter, Moves, At, Typed, TypeOK, Threads
<1>3. /\ threads'[c].req = r /\ threads'[c].mode = "call"
      /\ threads'[c].pc \in {"getting", "returning"}
      /\ threads'[c].told \in Verdicts => threads'[c].told = receipt[r]
      /\ threads'[c].pc = "returning" => threads'[c].told # "none"
  <2>1. \/ threads'[c] = [[Calm EXCEPT !.req = r] EXCEPT !.pc = "getting"]
        \/ receipt[r] \in Verdicts
           /\ threads'[c] = [[Calm EXCEPT !.req = r] EXCEPT !.pc = "returning", !.told = receipt[r]]
    <3>1. receipt[r] # "running"
      BY <1>2, WriterPoolAssumption DEF Attended, Gates, Waiting
    <3> QED
      BY <3>1 DEF Enter, Moves, Typed, TypeOK, Threads
  <2> QED
    BY <2>1 DEF Calm, Verdicts
<1>4. \A d \in Callers : threads[d].pc # "idle" => d # c /\ threads[d].req # r
  BY <1>2, WriterPoolAssumption DEF Gates
<1>5. Gates'
  <2> SUFFICES ASSUME NEW d \in Callers
               PROVE  /\ threads'[d].pc # "idle" => /\ threads'[d].req \in Requests
                                                    /\ gate'[threads'[d].req] = d
                      /\ threads'[d].pc \notin {"repairing", "relisting", "dead"}
                      /\ threads'[d].mode \in {"call", "drop"}
    BY DEF Gates
  <2>1. gate' = [gate EXCEPT ![r] = c] /\ gate \in [Requests -> Callers \cup {Nobody}]
    BY <1>2 DEF Typed, TypeOK
  <2>2. CASE d = c
    BY <2>1, <2>2, <1>3
  <2>3. CASE d # c
    BY <2>1, <2>3, <1>2, <1>4 DEF Gates
  <2> QED
    BY <2>2, <2>3
<1>6. \A d \in Callers : threads[d].pc \in Leasing \/ threads'[d].pc \in Leasing
                            => threads'[d] = threads[d]
  BY <1>2, <1>3 DEF Leasing
<1>7. Leases'
  BY <1>2, <1>6 DEF Leases, Cleared, pool
<1>8. Daemons'
  BY <1>2, <1>6 DEF Daemons, Waiting, Leasing
<1>9. Answers'
  BY <1>2, <1>6 DEF Answers, Leasing
<1>10. Heard'
  BY <1>2, <1>3 DEF Heard, Afterwards
<1>11. Entered' /\ Attended'
  BY <1>2, <1>6 DEF Entered, Attended, Waiting, Leasing
<1> QED
  BY <1>1, <1>5, <1>7, <1>8, <1>9, <1>10, <1>11

(* One daemon works on a request, since one call waits for it. *)
LEMMA OneDaemon ==
    ASSUME WriterInv, NEW v \in Workers, NEW w \in Workers,
           daemon[v].phase \in {"given", "running"}, daemon[w].phase \in {"given", "running"},
           daemon[v].req = daemon[w].req, receipt[daemon[w].req] \notin Verdicts
    PROVE  v = w
<1>1. PICK c \in Callers : threads[c].pc \in Waiting /\ threads[c].worker = v
                           /\ threads[c].req = daemon[v].req
  BY DEF WriterInv, Daemons
<1>2. PICK d \in Callers : threads[d].pc \in Waiting /\ threads[d].worker = w
                           /\ threads[d].req = daemon[w].req
  BY DEF WriterInv, Daemons
<1>3. c = d
  BY <1>1, <1>2 DEF WriterInv, Gates, Waiting
<1> QED
  BY <1>1, <1>2, <1>3

(* Nothing else is known of a request whose receipt is about to be given. *)
LEMMA OpenReceipt ==
    ASSUME WriterInv, NEW w \in Workers, daemon[w].phase \in {"given", "running"},
           receipt[daemon[w].req] \notin Verdicts
    PROVE  /\ daemon[w].req \in Requests
           /\ \A v \in Workers \ {w} :
                 daemon[v].phase # "idle" => daemon[v].req # daemon[w].req
           /\ \A c \in Callers : threads[c].told \in Verdicts => threads[c].req # daemon[w].req
           /\ \A c \in Callers :
                 threads[c].pc = "awaiting" /\ daemon[threads[c].worker].said # "none"
                    => threads[c].req # daemon[w].req
<1> USE DEF WriterInv
<1>1. daemon[w].req \in Requests
  BY DEF Daemons
<1>2. ASSUME NEW v \in Workers \ {w}, daemon[v].phase # "idle", daemon[v].req = daemon[w].req
      PROVE  FALSE
  <2>1. daemon[v].phase \in {"given", "running"} \/ daemon[v].phase = "wrote"
    BY <1>2 DEF Typed, TypeOK, Daemon
  <2>2. CASE daemon[v].phase = "wrote"
    BY <1>2, <2>2 DEF Daemons
  <2>3. CASE daemon[v].phase \in {"given", "running"}
    BY <1>2, <2>3, OneDaemon
  <2> QED
    BY <2>1, <2>2, <2>3
<1>3. \A c \in Callers : threads[c].told \in Verdicts => threads[c].req # daemon[w].req
  BY DEF Heard
<1>4. ASSUME NEW c \in Callers, threads[c].pc = "awaiting",
             daemon[threads[c].worker].said # "none"
      PROVE  threads[c].req # daemon[w].req
  <2>1. threads[c].worker \in Workers
    BY <1>4 DEF Typed, Knowing, InHand, Leasing, Threads
  <2>2. daemon[threads[c].worker].said \in Verdicts
    BY <2>1, <1>4 DEF Typed, TypeOK, Daemon
  <2> QED
    BY <2>2, <1>4 DEF Answers
<1> QED
  BY <1>1, <1>2, <1>3, <1>4

LEMMA RestKeeps ==
    ASSUME WriterInv,
           \/ LookForDead \/ LookForLost \/ Stop \/ StopClears
           \/ \E w \in Workers : DaemonStep(w) \/ Die(w) \/ StopEnds(w)
    PROVE  WriterInv'
<1> USE DEF WriterInv
<1>1. Typed'
  BY TypeRest DEF Daemons
<1>2. \A c \in Callers : threads'[c] = threads[c]
  <2>1. CASE LookForDead \/ LookForLost
    BY <2>1, WriterPoolAssumption
       DEF LookForDead, LookForLost, MonitorTurn, Moves, Typed, TypeOK, Threads
  <2>2. CASE ~(LookForDead \/ LookForLost)
    BY <2>2 DEF Stop, StopClears, DaemonStep, Accept, Emit, Commit, Die, StopEnds
  <2> QED
    BY <2>1, <2>2
<1>3. Gates'
  <2>1. UNCHANGED gate
    BY DEF LookForDead, LookForLost, MonitorTurn, Stop, StopClears, DaemonStep, Accept, Emit,
           Commit, Die, StopEnds
  <2> QED
    BY <2>1, <1>2 DEF Gates
<1>4. Leases'
  <2>1. CASE StopClears
    BY <2>1, <1>2 DEF Leases, Cleared, StopClears
  <2>2. CASE ~StopClears
    <3>1. UNCHANGED <<leased, workers>> /\ (stopping => stopping')
      BY <2>2 DEF LookForDead, LookForLost, MonitorTurn, Stop, DaemonStep, Accept, Emit,
                  Commit, Die, StopEnds, pool
    <3> QED
      BY <3>1, <1>2 DEF Leases, Cleared
  <2> QED
    BY <2>1, <2>2
<1> DEFINE Tables == Daemons' /\ Attended' /\ Answers' /\ Heard' /\ Entered'
<1>5. ASSUME LookForDead \/ LookForLost \/ Stop \/ StopClears PROVE Tables
  <2>1. UNCHANGED <<proc, receipt, daemon, ran>>
    BY <1>5 DEF LookForDead, LookForLost, MonitorTurn, Stop, StopClears
  <2> QED
    <3>1. Daemons' /\ Attended'
      BY <2>1, <1>2 DEF Daemons, Attended
    <3>2. Answers'
      BY <2>1, <1>2 DEF Answers
    <3>3. Heard' /\ Entered'
      BY <2>1, <1>2 DEF Heard, Entered
    <3> QED
      BY <3>1, <3>2, <3>3
<1>6. ASSUME NEW w \in Workers, Die(w) \/ StopEnds(w) PROVE Tables
  <2>1. /\ UNCHANGED <<receipt, ran>>
        /\ \A v \in Workers \ {w} : proc'[v] = proc[v] /\ daemon'[v] = daemon[v]
        /\ daemon'[w] = Ended(daemon[w])
    BY <1>6 DEF Die, StopEnds, Typed, TypeOK
  <2>2. daemon'[w].phase = "idle" /\ daemon'[w].said = daemon[w].said
    BY <2>1 DEF Quiet, Ended
  <2>3. Attended' /\ Heard' /\ Entered'
    BY <2>1, <1>2 DEF Attended, Heard, Entered
  <2>4. Daemons'
    BY <2>1, <2>2, <1>2 DEF Daemons
  <2>5. Answers'
    <3>2. \A c \in Callers : threads[c].pc = "awaiting" => threads[c].worker \in Workers
      BY DEF Typed, Knowing, InHand, Leasing, Threads
    <3> QED
      BY <3>2, <2>1, <2>2, <1>2 DEF Answers
  <2> QED
    BY <2>3, <2>4, <2>5
<1>a. \A c \in Callers : threads[c].pc = "awaiting" => threads[c].worker \in Workers
  BY DEF Typed, Knowing, InHand, Leasing, Threads
<1>7. ASSUME NEW w \in Workers, Emit(w) PROVE Tables
  <2>1. /\ daemon[w].phase = "wrote" /\ UNCHANGED <<proc, receipt, ran>>
        /\ \A v \in Workers \ {w} : daemon'[v] = daemon[v]
        /\ daemon'[w] = [phase |-> "idle", req |-> Nobody, said |-> receipt[daemon[w].req]]
    BY <1>7 DEF Emit, Says, Typed, TypeOK
  <2>2. Daemons'
    BY <2>1, <1>2 DEF Daemons
  <2>3. Answers'
    BY <2>1, <1>2, <1>a DEF Answers
  <2>4. Attended' /\ Heard' /\ Entered'
    BY <2>1, <1>2 DEF Attended, Heard, Entered
  <2> QED
    BY <2>2, <2>3, <2>4
<1>8. ASSUME NEW w \in Workers, NEW r \in {daemon[w].req}, daemon[w].phase \in {"given", "running"},
             receipt[r] \notin Verdicts,
             \A v \in Workers \ {w} : daemon'[v] = daemon[v],
             NEW verdict \in Verdicts, UNCHANGED <<proc, ran>>,
             receipt' = [receipt EXCEPT ![r] = verdict],
             \/ /\ daemon'[w].phase = "wrote" /\ daemon'[w].req = r
                /\ daemon'[w].said = "none"
             \/ daemon'[w].phase = "idle" /\ daemon'[w].said = verdict
      PROVE  Tables
  <2>1. /\ r \in Requests
        /\ \A v \in Workers \ {w} : daemon[v].phase # "idle" => daemon[v].req # r
        /\ \A c \in Callers : threads[c].told \in Verdicts => threads[c].req # r
        /\ \A c \in Callers :
              threads[c].pc = "awaiting" /\ daemon[threads[c].worker].said # "none"
                => threads[c].req # r
    BY <1>8, OpenReceipt
  <2>2. receipt'[r] = verdict /\ \A q \in Requests \ {r} : receipt'[q] = receipt[q]
    BY <1>8, <2>1 DEF Typed, TypeOK
  <2>3. Daemons'
    BY <2>1, <2>2, <1>8, <1>2 DEF Daemons, Verdicts
  <2>4. Attended' /\ Entered'
    BY <2>1, <2>2, <1>8, <1>2 DEF Attended, Entered, Verdicts
  <2>5. Heard'
    <3>1. \A c \in Callers : threads[c].told \in Verdicts => threads[c].req \in Requests \ {r}
      <4>1. ASSUME NEW c \in Callers, threads[c].told \in Verdicts
            PROVE  threads[c].req \in Requests
        <5>1. threads[c].req \in Requests \cup {Nobody}
          BY DEF Typed, TypeOK, Thread, Threads
        <5> QED
          BY <5>1, <4>1 DEF Gates, Heard
      <4> QED
        BY <4>1, <2>1
    <3> QED
      BY <3>1, <2>2, <1>2 DEF Heard
  <2>6. Answers'
    <3> SUFFICES ASSUME NEW c \in Callers, threads[c].pc = "awaiting"
                 PROVE  LET d == daemon'[threads[c].worker]
                        IN  /\ d.phase # "idle" => d.req = threads[c].req
                            /\ d.said # "none" => receipt'[threads[c].req] = d.said
      BY <1>2 DEF Answers
    <3>1. threads[c].req \in Requests
      BY DEF Gates
    <3>2. CASE threads[c].worker = w
      <4>1. threads[c].req = r
        BY <3>2, <1>8 DEF Answers
      <4> QED
        BY <4>1, <3>2, <2>2, <1>8 DEF Verdicts
    <3>3. CASE threads[c].worker # w
      <4>1. daemon'[threads[c].worker] = daemon[threads[c].worker]
        BY <3>3, <1>8, <1>a
      <4> QED
        BY <4>1, <3>1, <2>1, <2>2 DEF Answers
    <3> QED
      BY <3>2, <3>3
  <2> QED
    BY <2>3, <2>4, <2>5, <2>6
<1>9. ASSUME NEW w \in Workers, NEW v \in Verdicts, Commit(w, v) PROVE Tables
  <2>1. /\ daemon[w].phase = "running" /\ daemon[w].said = "none"
        /\ receipt[daemon[w].req] = "running"
    BY <1>9 DEF Commit, Daemons
  <2>2. receipt[daemon[w].req] \notin Verdicts
    BY <2>1 DEF Verdicts
  <2>3. /\ \A u \in Workers \ {w} : daemon'[u] = daemon[u]
        /\ daemon'[w].phase = "wrote" /\ daemon'[w].req = daemon[w].req
        /\ daemon'[w].said = "none"
        /\ receipt' = [receipt EXCEPT ![daemon[w].req] = v]
        /\ UNCHANGED <<proc, ran>>
    BY <1>9, <2>1 DEF Commit, Typed, TypeOK, Daemon
  <2>4. daemon[w].phase \in {"given", "running"}
    BY <2>1
  <2> HIDE DEF Tables
  <2> QED
    BY <1>8, <2>2, <2>3, <2>4
<1>10. ASSUME NEW w \in Workers, Accept(w), receipt[daemon[w].req] \in Verdicts
       PROVE  Tables
  <2>1. /\ daemon[w].phase = "given" /\ UNCHANGED <<proc, receipt, ran>>
        /\ \A v \in Workers \ {w} : daemon'[v] = daemon[v]
        /\ daemon'[w] = [phase |-> "idle", req |-> Nobody, said |-> receipt[daemon[w].req]]
    BY <1>10 DEF Accept, Says, Verdicts, Typed, TypeOK
  <2>2. Daemons'
    BY <2>1, <1>2 DEF Daemons
  <2>3. Answers'
    BY <2>1, <1>2, <1>a DEF Answers
  <2>4. Attended' /\ Heard' /\ Entered'
    BY <2>1, <1>2 DEF Attended, Heard, Entered
  <2> QED
    BY <2>2, <2>3, <2>4
<1>11. ASSUME NEW w \in Workers, Accept(w), receipt[daemon[w].req] \notin Verdicts
       PROVE  Tables
  <2> DEFINE r == daemon[w].req
  <2>0. daemon[w].phase = "given" /\ daemon[w] \in Daemon /\ UNCHANGED proc
        /\ daemon[w].said = "none"
    BY <1>11 DEF Accept, Typed, TypeOK, Daemons
  <2>1. CASE \E v \in Verdicts : receipt' = [receipt EXCEPT ![r] = v] /\ daemon' = Says(w, v)
                                 /\ UNCHANGED ran
    <3>1. PICK v \in Verdicts : receipt' = [receipt EXCEPT ![r] = v] /\ daemon' = Says(w, v)
      BY <2>1
    <3>2. /\ \A u \in Workers \ {w} : daemon'[u] = daemon[u]
          /\ daemon'[w].phase = "idle" /\ daemon'[w].said = v
      BY <3>1 DEF Says, Typed, TypeOK
    <3>3. daemon[w].phase \in {"given", "running"}
      BY <2>0
    <3> HIDE DEF Tables
    <3> QED
      BY <1>8, <1>11, <2>0, <2>1, <3>1, <3>2, <3>3
  <2>2. CASE /\ receipt[r] = "none" /\ receipt' = [receipt EXCEPT ![r] = "running"]
             /\ ran' = [ran EXCEPT ![r] = @ + 1]
             /\ daemon' = [daemon EXCEPT ![w].phase = "running"]
    <3>1. /\ r \in Requests
          /\ \A v \in Workers \ {w} : daemon[v].phase # "idle" => daemon[v].req # r
          /\ \A c \in Callers : threads[c].told \in Verdicts => threads[c].req # r
          /\ \A c \in Callers :
                threads[c].pc = "awaiting" /\ daemon[threads[c].worker].said # "none"
                  => threads[c].req # r
      BY <1>11, <2>0, OpenReceipt
    <3>2. receipt'[r] = "running" /\ \A q \in Requests \ {r} : receipt'[q] = receipt[q]
      BY <2>2, <3>1 DEF Typed, TypeOK
    <3>3. /\ \A v \in Workers \ {w} : daemon'[v] = daemon[v]
          /\ daemon'[w].phase = "running" /\ daemon'[w].req = r /\ daemon'[w].said = "none"
      BY <2>0, <2>2 DEF Typed, TypeOK, Daemon
    <3>4. PICK c \in Callers : threads[c].pc \in Waiting /\ threads[c].worker = w
                               /\ threads[c].req = r
      BY <2>0, <1>11 DEF Daemons
    <3>5. Daemons'
      BY <2>0, <3>1, <3>2, <3>3, <3>4, <1>2 DEF Daemons
    <3>6. Attended'
      BY <3>2, <3>4, <1>2 DEF Attended
    <3>7. Entered'
      <4>1. ran[r] = 0 /\ ran \in [Requests -> Nat]
        BY <2>2, <3>1 DEF Entered, Typed, TypeOK
      <4>2. ran'[r] = 1 /\ \A q \in Requests \ {r} : ran'[q] = ran[q]
        BY <2>2, <4>1, <3>1
      <4> QED
        BY <4>2, <3>2 DEF Entered
    <3>8. Heard'
      <4>1. \A d \in Callers : threads[d].told \in Verdicts => threads[d].req \in Requests \ {r}
        BY <3>1 DEF Gates, Heard
      <4> QED
        BY <4>1, <3>2, <1>2 DEF Heard
    <3>9. Answers'
      <4>1. \A d \in Callers : threads[d].pc = "awaiting" => threads[d].req \in Requests
        BY DEF Gates
      <4>2. \A d \in Callers : threads[d].pc = "awaiting" /\ threads[d].worker = w
                                 => threads[d].req = r
        BY <2>0 DEF Answers
      <4> QED
        BY <4>1, <4>2, <3>1, <3>2, <3>3, <1>2, <1>a DEF Answers
    <3> QED
      BY <3>5, <3>6, <3>7, <3>8, <3>9
  <2>3. receipt[r] \in {"none", "running"}
    <3>1. r \in Requests
      BY <2>0 DEF Daemons
    <3> QED
      BY <3>1, <1>11 DEF Typed, TypeOK
  <2> QED
    BY <2>1, <2>2, <2>3, <1>11 DEF Accept, Verdicts
<1> HIDE DEF Tables
<1>12. Tables
  BY <1>5, <1>6, <1>7, <1>9, <1>10, <1>11, WriterPoolAssumption DEF DaemonStep
<1> QED
  BY <1>1, <1>3, <1>4, <1>12 DEF Tables

(* The steps of a call. *)
LEMMA CallKeeps == ASSUME WriterInv, NEW c \in Callers, CallStep(c) PROVE WriterInv'
<1> DEFINE x == threads[c]
           y == threads'[c]
<1> USE DEF WriterInv
<1>1. Typed'
  BY TypeCall
<1>2. Held /\ \A d \in Callers \ {c} : threads'[d] = threads[d]
  BY CallHolds, OthersStay DEF Threads
<1>3. x \in Thread /\ c \in Threads
  BY DEF Typed, TypeOK, Threads
<1>x. x.pc # "idle" => x.req \in Requests /\ gate[x.req] = c
  BY DEF Gates
<1>w. x.pc \in Leasing \cup {"got"} => x.worker \in Workers
  BY <1>3 DEF Typed, Knowing, InHand
<1>m. ASSUME NEW z, Moves(c, z) PROVE y = z
  BY <1>m, <1>3 DEF Moves, Typed, TypeOK
<1>4. Gates'
  <2>1. CASE Return(c)
    <3>1. y = Calm /\ x.pc = "returning" /\ gate' = [gate EXCEPT ![x.req] = Nobody]
      BY <2>1, <1>m DEF Return, At
    <3>2. ASSUME NEW d \in Callers, threads'[d].pc # "idle"
          PROVE  threads'[d].req \in Requests /\ gate'[threads'[d].req] = d
      <4>1. d # c
        BY <3>1, <3>2 DEF Calm
      <4>2. threads[d].req \in Requests /\ gate[threads[d].req] = d /\ threads'[d] = threads[d]
        BY <4>1, <3>2, <1>2 DEF Gates
      <4>3. threads[d].req # x.req
        BY <4>1, <4>2, <3>1, <1>x
      <4> QED
        BY <4>2, <4>3, <3>1 DEF Typed, TypeOK
    <3> QED
      BY <3>2, <1>2 DEF Gates, Held
  <2>2. CASE ~Return(c)
    <3>1. UNCHANGED gate
      BY <2>2 DEF CallStep, Get, Send, Hear, TimeOut, Recover, StopWorker, Conclude, Release
    <3> QED
      BY <3>1, <1>2 DEF Gates, Held
  <2> QED
    BY <2>1, <2>2
(* Where the step leads c. *)
<1>l. ASSUME UNCHANGED <<workers, stopping>>,
             y.pc \in Leasing => x.pc \in Leasing /\ y.worker = x.worker,
             \/ leased' = leased
             \/ /\ leased' = leased \ {x.worker}
                /\ y.pc \notin Leasing /\ x.pc \in Leasing
      PROVE  Leases'
  BY <1>l, <1>2 DEF Leases, Cleared
<1>r. ASSUME UNCHANGED <<receipt, ran>>,
             x.pc \in Waiting \cup {"stopped"} =>
                y.pc \in Waiting \cup {"stopped"} \/ receipt[x.req] # "running",
             y.pc # "idle" => y.req = x.req,
             y.told \in Verdicts => y.pc # "idle" /\ receipt[x.req] = y.told,
             y.pc \in Afterwards \cup {"releasing", "dropping"} => y.told # "none"
      PROVE  Attended' /\ Heard' /\ Entered'
  <2>1. Attended'
    BY <1>r, <1>2 DEF Attended, Waiting
  <2>2. Heard'
    BY <1>r, <1>2 DEF Heard, Afterwards
  <2>3. Entered'
    BY <1>r DEF Entered
  <2> QED
    BY <2>1, <2>2, <2>3
<1>5. ASSUME UNCHANGED <<proc, receipt, daemon, ran, workers, stopping>>,
             x.pc \in Waiting =>
                \/ y.pc \in Waiting \/ daemon[x.worker].phase \notin {"given", "running"}
                \/ receipt[daemon[x.worker].req] \in Verdicts,
             x.pc \in Waiting \cup {"stopped"} =>
                y.pc \in Waiting \cup {"stopped"} \/ receipt[x.req] # "running",
             y.pc \in Leasing => x.pc \in Leasing /\ y.worker = x.worker,
             y.pc = "awaiting" => x.pc = "awaiting",
             y.pc # "idle" => y.req = x.req,
             y.told \in Verdicts => y.pc # "idle" /\ receipt[x.req] = y.told,
             y.pc \in Afterwards \cup {"releasing", "dropping"} => y.told # "none",
             \/ leased' = leased
             \/ /\ leased' = leased \ {x.worker}
                /\ y.pc \notin Leasing /\ x.pc \in Leasing
      PROVE  WriterInv'
  <2>1. Leases'
    BY <1>5, <1>l
  <2>2. Daemons'
    BY <1>5, <1>2, <1>w DEF Daemons, Waiting, Leasing
  <2>3. Answers'
    BY <1>5, <1>2 DEF Answers, Leasing
  <2>4. Attended' /\ Heard' /\ Entered'
    BY <1>5, <1>r
  <2> QED
    BY <1>1, <1>4, <2>1, <2>2, <2>3, <2>4
<1>h. x.told \in Verdicts => x.pc # "idle" /\ receipt[x.req] = x.told
  BY DEF Heard
<1>a. x.pc \in Afterwards \cup {"releasing", "dropping"} => x.told # "none"
  BY DEF Heard, Afterwards
<1> USE DEF Thread, Waiting, Leasing, Afterwards, At, GoesTo
<1>6. CASE Get(c)
  <2>1. PICK w : \/ y = [x EXCEPT !.pc = "got", !.worker = w]
                \/ y = [x EXCEPT !.pc = "returning", !.told = "error"]
    BY <1>6, <1>m DEF Get
  <2>2. x.pc = "getting" /\ UNCHANGED <<proc, receipt, daemon, ran, workers, stopping, leased>>
    BY <1>6 DEF Get
  <2>3. /\ y.pc \in {"got", "returning"} /\ y.req = x.req
        /\ y.told = "error" \/ (y.told = x.told /\ y.pc = "got")
    BY <1>3, <2>1
  <2> HIDE DEF WriterInv
  <2> QED
    BY <1>5, <1>h, <2>2, <2>3 DEF Verdicts
<1>7. CASE TimeOut(c)
  <2>1. y = [x EXCEPT !.pc = "recovering"] /\ x.pc = "awaiting"
        /\ UNCHANGED <<proc, receipt, daemon, ran, workers, stopping, leased>>
    BY <1>7, <1>m DEF TimeOut, pool
  <2>2. y.pc = "recovering" /\ y.req = x.req /\ y.told = x.told /\ y.worker = x.worker
    BY <1>3, <2>1
  <2> HIDE DEF WriterInv
  <2> QED
    BY <1>5, <1>h, <2>1, <2>2
<1>8. CASE Hear(c)
  <2>0. x.pc = "awaiting" /\ x.worker \in Workers
        /\ UNCHANGED <<proc, receipt, ran, workers, stopping, leased>>
    BY <1>8, <1>w DEF Hear, pool
  <2>1. CASE y = [x EXCEPT !.pc = "recovering"] /\ UNCHANGED daemon
    <3>1. y.pc = "recovering" /\ y.req = x.req /\ y.told = x.told /\ y.worker = x.worker
      BY <1>3, <2>1
    <3> HIDE DEF WriterInv
    <3> QED
      BY <1>5, <1>h, <2>0, <2>1, <3>1
  <2>2. CASE /\ daemon[x.worker].said # "none"
             /\ daemon' = [daemon EXCEPT ![x.worker].said = "none"]
             /\ y = [x EXCEPT !.pc = "releasing", !.told = daemon[x.worker].said]
    <3>1. daemon[x.worker] \in Daemon /\ daemon[x.worker].said \in Verdicts
      BY <2>0, <2>2 DEF Typed, TypeOK, Daemon
    <3>2. /\ y.pc = "releasing" /\ y.req = x.req /\ y.worker = x.worker
          /\ y.told \in Verdicts /\ y.told = receipt[x.req]
      BY <1>3, <2>0, <2>2, <3>1 DEF Answers
    <3>3. /\ \A v \in Workers \ {x.worker} : daemon'[v] = daemon[v]
          /\ daemon'[x.worker].phase = "idle" /\ daemon[x.worker].phase = "idle"
      BY <2>0, <2>2, <3>1 DEF Daemons, Typed, TypeOK, Daemon
    <3>4. Daemons'
      BY <3>2, <3>3, <2>0, <1>2 DEF Daemons
    <3>5. Answers'
      <4>1. ASSUME NEW d \in Callers, threads'[d].pc = "awaiting"
            PROVE  /\ d # c /\ threads[d].worker \in Workers \ {x.worker}
                   /\ threads'[d] = threads[d]
        <5>1. d # c /\ threads'[d] = threads[d]
          BY <4>1, <3>2, <1>2
        <5>2. threads[d].worker \in Workers
          BY <4>1, <5>1 DEF Typed, Knowing, InHand, Threads
        <5> QED
          BY <4>1, <5>1, <5>2, <2>0 DEF Leases
      <4> QED
        BY <4>1, <3>3, <2>0 DEF Answers
    <3>6. Leases' /\ Attended' /\ Heard' /\ Entered'
      <4> HIDE DEF WriterInv
      <4>1. Leases'
        BY <1>l, <2>0, <3>2
      <4>2. Attended' /\ Heard' /\ Entered'
        BY <1>r, <2>0, <3>2 DEF Verdicts
      <4> QED
        BY <4>1, <4>2
    <3> QED
      BY <1>1, <1>4, <3>4, <3>5, <3>6
  <2> QED
    BY <1>8, <1>m, <2>1, <2>2 DEF Hear
<1>9. CASE Recover(c)
  <2>0. x.pc = "recovering" /\ UNCHANGED <<proc, receipt, daemon, ran, workers, stopping, leased>>
    BY <1>9 DEF Recover, pool
  <2>1. CASE y = [x EXCEPT !.pc = "stopping"]
    <3>1. y.pc = "stopping" /\ y.req = x.req /\ y.told = x.told /\ y.worker = x.worker
      BY <1>3, <2>1
    <3> HIDE DEF WriterInv
    <3> QED
      BY <1>5, <1>h, <2>0, <3>1
  <2>2. CASE receipt[x.req] \in Verdicts
             /\ y = [x EXCEPT !.pc = "dropping", !.told = receipt[x.req]]
    <3>1. y.pc = "dropping" /\ y.req = x.req /\ y.told = receipt[x.req] /\ y.worker = x.worker
      BY <1>3, <2>2
    <3>2. x.worker \in Workers
      BY <2>0, <1>w
    <3>3. ASSUME daemon[x.worker].phase \in {"given", "running"},
                 receipt[daemon[x.worker].req] \notin Verdicts
          PROVE  FALSE
      <4>1. PICK d \in Callers : threads[d].pc \in Waiting /\ threads[d].worker = x.worker
                                 /\ threads[d].req = daemon[x.worker].req
        BY <3>2, <3>3 DEF Daemons
      <4>2. d = c
        BY <4>1, <2>0 DEF Leases
      <4> QED
        BY <4>1, <4>2, <2>2, <3>3
    <3> HIDE DEF WriterInv
    <3> QED
      BY <1>5, <2>0, <2>2, <3>1, <3>3 DEF Verdicts
  <2> QED
    BY <1>9, <1>m, <2>1, <2>2 DEF Recover, Told
<1>10. CASE Return(c)
  <2>1. y = Calm /\ x.pc = "returning"
        /\ UNCHANGED <<proc, receipt, daemon, ran, workers, stopping, leased>>
    BY <1>10, <1>m DEF Return, pool
  <2>2. y.pc = "idle" /\ y.told = "none"
    BY <2>1 DEF Calm
  <2> HIDE DEF WriterInv
  <2> QED
    BY <1>5, <2>1, <2>2 DEF Verdicts
<1>11. CASE Release(c)
  <2>1. /\ y \in {[x EXCEPT !.pc = "replacing", !.mode = "drop"],
                  [x EXCEPT !.pc = "enqueuing", !.mode = "call"],
                  [x EXCEPT !.pc = "returning"]}
        /\ x.pc \in {"releasing", "dropping"} /\ leased' = leased \ {x.worker}
        /\ UNCHANGED <<proc, receipt, daemon, ran, workers, stopping>>
    BY <1>11, <1>m DEF Release
  <2>2. /\ y.pc \in {"replacing", "enqueuing", "returning"}
        /\ y.req = x.req /\ y.told = x.told
    BY <2>1, <1>3
  <2> HIDE DEF WriterInv
  <2> QED
    BY <1>5, <1>h, <1>a, <2>1, <2>2
<1>12. CASE Send(c)
  <2>0. /\ x.pc = "got" /\ x.worker \in Workers /\ x.req \in Requests
        /\ UNCHANGED <<proc, receipt, ran, workers, stopping>>
    BY <1>12, <1>x, <1>w DEF Send
  <2>1. CASE /\ UNCHANGED <<leased, daemon>>
             /\ y \in {[x EXCEPT !.pc = "getting", !.worker = Nobody],
                       [x EXCEPT !.pc = "returning", !.told = "error", !.worker = Nobody]}
    <3>1. /\ y.pc \in {"getting", "returning"} /\ y.req = x.req
          /\ y.told = "error" \/ (y.told = x.told /\ y.pc = "getting")
      BY <1>3, <2>1
    <3> HIDE DEF WriterInv
    <3> QED
      BY <1>5, <1>h, <2>0, <2>1, <3>1 DEF Verdicts
  <2>2. CASE /\ Current(x.worker) /\ x.worker \notin leased
             /\ leased' = leased \cup {x.worker}
             /\ \/ /\ Alive(x.worker)
                   /\ daemon' = [daemon EXCEPT ![x.worker] =
                                    [phase |-> "given", req |-> x.req, said |-> "none"]]
                   /\ y = [x EXCEPT !.pc = "awaiting"]
                \/ y = [x EXCEPT !.pc = "recovering"] /\ UNCHANGED daemon
    <3>1. /\ y.pc \in {"awaiting", "recovering"} /\ y.req = x.req /\ y.worker = x.worker
          /\ y.told = x.told
          /\ y.pc = "awaiting" => daemon'[x.worker] = [phase |-> "given", req |-> x.req,
                                                       said |-> "none"]
          /\ y.pc = "recovering" => UNCHANGED daemon
          /\ y.pc = "awaiting" => proc[x.worker].state = "up"
          /\ \A v \in Workers \ {x.worker} : daemon'[v] = daemon[v]
      BY <1>3, <2>0, <2>2 DEF Alive, Typed, TypeOK
    <3>2. ~Cleared
      BY <2>0, <2>2, WriterPoolAssumption DEF Cleared, Current, Typed, TypeOK, Proc
    <3>3. \A d \in Callers \ {c} : threads[d].pc \in Leasing =>
             threads[d].worker \in leased /\ threads[d].worker # x.worker
      BY <2>2, <3>2 DEF Leases
    <3>4. Leases'
      BY <1>2, <3>1, <3>3, <2>0, <2>2 DEF Leases, Cleared
    <3>5. Daemons'
      <4> SUFFICES ASSUME NEW v \in Workers
                   PROVE  /\ daemon'[v].phase # "idle" =>
                                /\ proc'[v].state = "up" /\ daemon'[v].req \in Requests
                                /\ daemon'[v].said = "none"
                          /\ daemon'[v].phase = "running" => receipt'[daemon'[v].req] = "running"
                          /\ daemon'[v].phase = "wrote" => receipt'[daemon'[v].req] \in Verdicts
                          /\ daemon'[v].phase \in {"given", "running"}
                             /\ receipt'[daemon'[v].req] \notin Verdicts =>
                                \E d \in Callers :
                                    /\ threads'[d].pc \in Waiting
                                    /\ threads'[d].worker = v /\ threads'[d].req = daemon'[v].req
        BY DEF Daemons
      <4>1. CASE daemon'[v] = daemon[v]
        BY <4>1, <2>0, <1>2 DEF Daemons
      <4>2. CASE v = x.worker /\ y.pc = "awaiting"
        BY <4>2, <3>1, <2>0
      <4> QED
        BY <4>1, <4>2, <3>1
    <3>6. Answers'
      <4>1. ASSUME NEW d \in Callers, d # c, threads'[d].pc = "awaiting"
            PROVE  /\ threads'[d] = threads[d] /\ threads[d].pc = "awaiting"
                   /\ threads[d].worker \in Workers \ {x.worker}
        <5>1. threads'[d] = threads[d]
          BY <4>1, <1>2
        <5>2. threads[d].worker \in Workers
          BY <4>1, <5>1 DEF Typed, Knowing, InHand, Threads
        <5> QED
          BY <4>1, <5>1, <5>2, <3>3
      <4> QED
        BY <4>1, <3>1, <2>0 DEF Answers
    <3>7. Attended' /\ Heard' /\ Entered'
      <4> HIDE DEF WriterInv
      <4> QED
        BY <1>r, <1>h, <2>0, <3>1
    <3> QED
      BY <1>1, <1>4, <3>4, <3>5, <3>6, <3>7
  <2> QED
    BY <1>12, <1>m, <2>1, <2>2 DEF Send
<1>13. CASE StopWorker(c)
  <2>0. /\ x.pc = "stopping" /\ x.worker \in Workers
        /\ UNCHANGED <<receipt, ran, workers, stopping, leased>>
        /\ proc' = [proc EXCEPT ![x.worker].state = "gone"]
        /\ daemon' = [daemon EXCEPT ![x.worker] = Ended(@)]
        /\ y = [x EXCEPT !.pc = "stopped"]
    BY <1>13, <1>w, <1>m DEF StopWorker, pool
  <2>1. /\ y.pc = "stopped" /\ y.req = x.req /\ y.worker = x.worker /\ y.told = x.told
        /\ \A v \in Workers \ {x.worker} : proc'[v] = proc[v] /\ daemon'[v] = daemon[v]
        /\ daemon'[x.worker].phase = "idle"
        /\ daemon'[x.worker].said = daemon[x.worker].said
    BY <1>3, <2>0 DEF Ended, Quiet, Typed, TypeOK
  <2>2. Daemons'
    BY <2>0, <2>1, <1>2 DEF Daemons
  <2>3. Answers'
    <3>1. \A d \in Callers : threads[d].pc = "awaiting" => threads[d].worker \in Workers
      BY DEF Typed, Knowing, InHand, Threads
    <3>2. ASSUME NEW d \in Callers, threads'[d].pc = "awaiting"
          PROVE  /\ threads'[d] = threads[d] /\ threads[d].worker \in Workers
                 /\ daemon'[threads[d].worker].said = daemon[threads[d].worker].said
                 /\ \/ daemon'[threads[d].worker] = daemon[threads[d].worker]
                    \/ daemon'[threads[d].worker].phase = "idle"
      <4>1. d # c
        BY <3>2, <2>1
      <4>2. threads'[d] = threads[d] /\ threads[d].worker \in Workers
        BY <4>1, <3>1, <3>2, <1>2
      <4> QED
        BY <4>2, <2>1
    <3> QED
      BY <3>2, <2>0 DEF Answers
  <2>4. Leases' /\ Attended' /\ Heard' /\ Entered'
    <3> HIDE DEF WriterInv
    <3>1. Leases'
      BY <1>l, <2>0, <2>1
    <3>2. Attended' /\ Heard' /\ Entered'
      BY <1>r, <1>h, <2>0, <2>1
    <3> QED
      BY <3>1, <3>2
  <2> QED
    BY <1>1, <1>4, <2>2, <2>3, <2>4
<1>14. CASE Conclude(c)
  <2>0. x.pc = "stopped" /\ x.req \in Requests
        /\ UNCHANGED <<proc, daemon, ran, workers, stopping, leased>>
    BY <1>14, <1>x DEF Conclude, pool
  <2>1. PICK verdict \in Verdicts :
           /\ receipt' = [receipt EXCEPT ![x.req] = verdict]
           /\ y = [x EXCEPT !.pc = "dropping", !.told = verdict]
           /\ receipt[x.req] \in Verdicts => verdict = receipt[x.req]
    BY <1>14, <1>m DEF Conclude, Told, Verdicts
  <2>2. /\ y.pc = "dropping" /\ y.req = x.req /\ y.worker = x.worker /\ y.told = verdict
        /\ receipt'[x.req] = verdict
        /\ \A q \in Requests \ {x.req} : receipt'[q] = receipt[q]
    BY <1>3, <2>0, <2>1 DEF Typed, TypeOK
  <2>3. \A d \in Callers \ {c} : threads[d].pc # "idle" => threads[d].req \in Requests \ {x.req}
    BY <1>x, <2>0 DEF Gates
  <2>4. ASSUME NEW v \in Workers, daemon[v].phase # "idle", daemon[v].req = x.req
        PROVE  receipt[x.req] \in Verdicts
    <3>1. SUFFICES ASSUME receipt[x.req] \notin Verdicts PROVE FALSE
      OBVIOUS
    <3>2. daemon[v].phase \in {"given", "running"}
      BY <2>4, <3>1 DEF Typed, TypeOK, Daemon, Daemons
    <3>3. PICK d \in Callers : threads[d].pc \in Waiting /\ threads[d].req = x.req
      BY <2>4, <3>1, <3>2 DEF Daemons
    <3> QED
      BY <3>3, <2>0, <2>3
  <2>5. Daemons'
    <3>1. \A v \in Workers : daemon[v].phase # "idle" =>
             daemon[v].req \in Requests /\ receipt'[daemon[v].req] = receipt[daemon[v].req]
      BY <2>1, <2>2, <2>4 DEF Daemons
    <3> QED
      BY <3>1, <2>0, <2>2, <1>2 DEF Daemons
  <2>6. Answers' /\ Heard'
    <3>1. Answers'
      BY <2>0, <2>2, <2>3, <1>2 DEF Answers
    <3>2. Heard'
      <4> SUFFICES ASSUME NEW d \in Callers
                   PROVE  /\ threads'[d].told \in Verdicts =>
                                /\ threads'[d].pc # "idle"
                                /\ receipt'[threads'[d].req] = threads'[d].told
                          /\ threads'[d].pc \in {"releasing", "dropping"} \cup Afterwards
                                => threads'[d].told # "none"
        BY DEF Heard
      <4>1. CASE d = c
        BY <4>1, <2>2 DEF Verdicts
      <4>2. CASE d # c
        BY <4>2, <2>2, <2>3, <1>2 DEF Heard
      <4> QED
        BY <4>1, <4>2
    <3> QED
      BY <3>1, <3>2
  <2>7. Attended' /\ Entered'
    BY <2>0, <2>2, <1>2 DEF Attended, Entered, Verdicts
  <2>8. Leases'
    BY <1>l, <2>0, <2>2
  <2> QED
    BY <1>1, <1>4, <2>5, <2>6, <2>7, <2>8
<1> QED
  BY <1>6, <1>7, <1>8, <1>9, <1>10, <1>11, <1>12, <1>13, <1>14 DEF CallStep

-----------------------------------------------------------------------------
(* Theorems *)

LEMMA StartedKept == ASSUME WriterInv, Started, Next PROVE Started'
<1> USE DEF WriterInv
<1>t. ASSUME NEW t \in Threads, NEW y, Moves(t, y)
      PROVE  threads'[t] = y /\ \A s \in Threads \ {t} : threads'[s] = threads[s]
  BY <1>t DEF Moves, Typed, TypeOK
<1>1. ASSUME NEW c \in Callers, CallStep(c) PROVE Started'
  <2>1. UNCHANGED stopping
    BY <1>1 DEF CallStep, Get, Send, Hear, TimeOut, Recover, StopWorker, Conclude, Release,
                Return, pool
  <2> QED
    BY <1>1, <2>1, CallHolds, OthersStay DEF Started
<1>2. ASSUME NEW c \in Callers, NEW r \in Requests, Enter(c, r) PROVE Started'
  <2>1. PICK y : Moves(c, y) /\ y.pc \in {"getting", "returning"}
    <3> DEFINE x == [Calm EXCEPT !.req = r]
    <3>1. /\ [x EXCEPT !.pc = "getting"].pc = "getting"
          /\ \A v : [x EXCEPT !.pc = "returning", !.told = v].pc = "returning"
      BY DEF Calm
    <3>2. \/ Moves(c, [x EXCEPT !.pc = "getting"])
          \/ \E v : Moves(c, [x EXCEPT !.pc = "returning", !.told = v])
      BY <1>2 DEF Enter
    <3> QED
      BY <3>1, <3>2
  <2> QED
    BY <1>2, <2>1, <1>t DEF Enter, pool, Started, Holding, Threads
<1>3. ASSUME NEW t \in Threads, CapacityStep(t) PROVE Started'
  <2>1. UNCHANGED stopping
    BY <1>3 DEF CapacityStep, Put, Unlist, Drain, Refill, Load, List, Replace, Install, pool
  <2>2. threads[t].pc \in Holding \/ threads'[t].pc \notin Holding \/ ~stopping
    <3>r. ASSUME NEW y \in Thread
          PROVE  Resumed(y).pc \notin Holding /\ Overflowed(y).pc \notin Holding
      <4>1. Resumed(y).pc \in {"returning", "idle", "repairing", "relisting"}
        BY DEF Resumed, Thread, Calm
      <4>2. Overflowed(y).pc \in {"dead", Resumed(y).pc}
        BY DEF Overflowed, Resumed, Thread, Calm
      <4> QED
        BY <4>1, <4>2 DEF Holding
    <3>x. threads[t] \in Thread /\ \A w \in Workers : Takes(threads[t], w) \in Thread
      <4>1. threads[t] \in Thread
        BY DEF Typed, TypeOK
      <4> QED
        BY <4>1 DEF Takes, Thread
    <3>1. CASE Put(t)
      <4>1. \/ Moves(t, Resumed(threads[t]))
            \/ Moves(t, [threads[t] EXCEPT !.pc = "unlisting"])
        BY <3>1 DEF Put, GoesTo
      <4>2. [threads[t] EXCEPT !.pc = "unlisting"].pc \notin Holding
        BY <3>x DEF Thread, Holding
      <4> QED
        BY <4>1, <4>2, <1>t, <3>r, <3>x
    <3>2. CASE Unlist(t)
      BY <3>2, <1>t, <3>r, <3>x DEF Unlist
    <3>3. CASE Load(t)
      <4>1. \/ Moves(t, Resumed(threads[t]))
            \/ Moves(t, [threads[t] EXCEPT !.pc = "enqueuing"])
        BY <3>3 DEF Load, GoesTo
      <4>2. [threads[t] EXCEPT !.pc = "enqueuing"].pc \notin Holding
        BY <3>x DEF Thread, Holding
      <4> QED
        BY <4>1, <4>2, <1>t, <3>r, <3>x
    <3>4. ASSUME NEW w \in Workers, List(t, w) PROVE threads'[t].pc \notin Holding
      <4>1. \/ Moves(t, Resumed(Takes(threads[t], w)))
            \/ Moves(t, [Takes(threads[t], w) EXCEPT !.pc = "putting"])
        BY <3>4 DEF List
      <4>2. [Takes(threads[t], w) EXCEPT !.pc = "putting"].pc \notin Holding
        BY <3>x DEF Thread, Holding
      <4> QED
        BY <4>1, <4>2, <1>t, <3>r, <3>x
    <3>5. ASSUME NEW w \in Workers, Replace(t, w), stopping PROVE threads'[t].pc \notin Holding
      BY <3>5, <1>t, <3>r, <3>x DEF Replace
    <3>6. CASE Drain(t) \/ Refill(t) \/ \E w \in Workers : Install(t, w)
      BY <3>6 DEF Drain, Refill, Install, At, Holding
    <3> QED
      BY <1>3, <3>1, <3>2, <3>3, <3>4, <3>5, <3>6 DEF CapacityStep
  <2> QED
    BY <1>3, <2>1, <2>2, OthersStay DEF Started
<1>4. CASE LookForDead \/ LookForLost
  <2>1. PICK y : Moves(Monitor, y) /\ y.pc \in {"repairing", "relisting"}
    <3>1. ASSUME NEW mode, NEW pc \in {"repairing", "relisting"}, NEW found,
                 MonitorTurn(mode, pc, found)
          PROVE  \E y : Moves(Monitor, y) /\ y.pc \in {"repairing", "relisting"}
      <4>1. [Calm EXCEPT !.pc = pc, !.todo = found, !.mode = mode].pc = pc
        BY DEF Calm
      <4> QED
        BY <3>1, <4>1 DEF MonitorTurn
    <3> QED
      BY <1>4, <3>1 DEF LookForDead, LookForLost
  <2> QED
    BY <1>4, <2>1, <1>t DEF LookForDead, LookForLost, MonitorTurn, pool, Started, Holding, Threads
<1>5. CASE Stop \/ StopClears
  BY <1>5 DEF Stop, StopClears, Started, Unlocked, Holding
<1>6. ASSUME NEW w \in Workers, DaemonStep(w) \/ Die(w) \/ StopEnds(w) PROVE Started'
  BY <1>6 DEF DaemonStep, Accept, Emit, Commit, Die, StopEnds, pool, Started
<1> QED
  BY <1>1, <1>2, <1>3, <1>4, <1>5, <1>6 DEF Next

PoolInv == WriterInv /\ Started

LEMMA InvKept == PoolInv /\ [Next]_vars => PoolInv'
<1> SUFFICES ASSUME PoolInv, [Next]_vars PROVE PoolInv'
  OBVIOUS
<1> USE DEF PoolInv
<1>1. CASE UNCHANGED vars
  <2> USE <1>1 DEF vars, WriterInv
  <2>1. Typed' /\ Gates'
    <3>1. Typed'
      <4>1. TypeOK'
        BY DEF Typed, TypeOK, drained
      <4>2. (threads \in [Threads -> Knowing])' /\ (stopping \/ \A s \in Slots : workers[s] # Nobody)'
        BY DEF Typed
      <4> QED
        BY <4>1, <4>2 DEF Typed
    <3>2. Gates'
      BY DEF Gates
    <3> QED
      BY <3>1, <3>2
  <2>2. Leases' /\ Daemons'
    BY DEF Leases, Cleared, Daemons
  <2>3. Attended' /\ Answers' /\ Heard' /\ Entered'
    BY DEF Attended, Answers, Heard, Entered
  <2>4. Started'
    BY DEF Started
  <2> QED
    BY <2>1, <2>2, <2>3, <2>4
<1>2. CASE Next
  <2>1. WriterInv'
    BY <1>2, CallKeeps, EnterKeeps, CapacityKeeps, RestKeeps DEF Next
  <2>2. Started'
    BY <1>2, StartedKept
  <2> QED
    BY <2>1, <2>2
<1> QED
  BY <1>1, <1>2

LEMMA InvHolds == Spec => []WriterInv
<1>1. Init => PoolInv
  BY InitInv DEF PoolInv, Started, Init, Calm, Holding
<1>2. PoolInv => WriterInv
  BY DEF PoolInv
<1> QED
  BY <1>1, <1>2, InvKept, PTL DEF Spec

(* The tables of the pool, its threads and its daemons keep their types. *)
THEOREM PoolTypes == Spec => []TypeOK
<1>1. WriterInv => TypeOK
  BY DEF WriterInv, Typed
<1> QED
  BY <1>1, InvHolds, PTL

(* The writer of a request is entered at most once, however often it is    *)
(* asked for and whatever happens to the daemons: writer_daemon.py         *)
(* execute, the promise not to replay provider calls.                      *)
THEOREM RunsAtMostOnce == Spec => []RunsOnce
<1>1. WriterInv => RunsOnce
  BY DEF WriterInv, Entered, RunsOnce
<1> QED
  BY <1>1, InvHolds, PTL

(* What execute of writer_pool.py returns is what the receipt records.     *)
THEOREM CallersHearReceipts == Spec => []ToldIsRecorded
<1>1. WriterInv => ToldIsRecorded
  <2> SUFFICES ASSUME WriterInv, NEW c \in Callers, At(c, "returning"),
                      threads[c].told # "error"
               PROVE  receipt[threads[c].req] = threads[c].told
    BY DEF ToldIsRecorded
  <2>1. threads[c] \in Thread /\ threads[c].told # "none"
    BY DEF WriterInv, Typed, TypeOK, Threads, Heard, At, Afterwards
  <2> QED
    BY <2>1 DEF Thread, WriterInv, Heard
<1> QED
  BY <1>1, InvHolds, PTL

(* A verdict in a receipt is final: _recover_protocol_failure has stopped  *)
(* the worker before it closes the receipt in its place.                   *)
THEOREM VerdictsStand == Spec => ReceiptStands
<1>1. ASSUME WriterInv, [Next]_vars, NEW r \in Requests, receipt[r] \in Verdicts
      PROVE  receipt'[r] = receipt[r]
  <2> USE DEF WriterInv
  <2>0. receipt \in [Requests -> Verdicts \cup {"none", "running"}]
    BY <1>1 DEF Typed, TypeOK
  <2>1. ASSUME NEW c \in Callers, Conclude(c) PROVE receipt'[r] = receipt[r]
    BY <2>0, <2>1, <1>1 DEF Conclude
  <2>2. ASSUME NEW w \in Workers, Accept(w) PROVE receipt'[r] = receipt[r]
    BY <2>0, <2>2, <1>1 DEF Accept, Verdicts
  <2>3. ASSUME NEW w \in Workers, NEW v \in Verdicts, Commit(w, v)
        PROVE  receipt'[r] = receipt[r]
    BY <2>0, <2>3, <1>1 DEF Commit, Daemons, Verdicts
  <2>4. \/ UNCHANGED receipt
        \/ \E c \in Callers : Conclude(c)
        \/ \E w \in Workers : Accept(w) \/ \E v \in Verdicts : Commit(w, v)
    <3>1. CASE \E c \in Callers : CallStep(c) \/ \E q \in Requests : Enter(c, q)
      BY <3>1 DEF CallStep, Get, Send, Hear, TimeOut, Recover, StopWorker, Release, Return, Enter
    <3>2. CASE \E t \in Threads : CapacityStep(t)
      BY <3>2 DEF CapacityStep, Put, Unlist, Drain, Refill, Load, List, Replace, Install
    <3>3. CASE LookForDead \/ LookForLost \/ Stop \/ StopClears \/ UNCHANGED vars
      BY <3>3 DEF LookForDead, LookForLost, MonitorTurn, Stop, StopClears, vars
    <3>4. CASE \E w \in Workers : DaemonStep(w) \/ Die(w) \/ StopEnds(w)
      BY <3>4, WriterPoolAssumption DEF DaemonStep, Emit, Die, StopEnds
    <3> QED
      BY <3>1, <3>2, <3>3, <3>4, <1>1 DEF Next
  <2> QED
    BY <2>1, <2>2, <2>3, <2>4
<1>2. WriterInv /\ [Next]_vars =>
         [\A r \in Requests : receipt[r] \in Verdicts => receipt'[r] = receipt[r]]_vars
  BY <1>1
<1> QED
  BY <1>2, InvHolds, PTL DEF Spec, ReceiptStands

=============================================================================
