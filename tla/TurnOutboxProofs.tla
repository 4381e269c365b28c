--------------------------- MODULE TurnOutboxProofs ---------------------------
(***************************************************************************)
(* Proofs about the writeback of turns, for every number of turns,         *)
(* sessions, projects and processes, mode changes and crashes.             *)
(***************************************************************************)
EXTENDS TurnOutbox, TLAPS

(* A turn that is not prepared yet: its handler may reconcile the records  *)
(* of other turns.                                                         *)
Early(h) ==
    \/ h.pc \in {"new", "opening", "awaiting", "next", "send", "poll"}
    \/ h.pc = "mutate" /\ h.want.then \in {"next", "poll"}

HandlerOK(t) ==
    LET h == turns[t]
        now == controls[SessionOf[t]]
    IN  /\ Early(h) => h.capture.generation = -1
        /\ Early(h) \/ h.pc = "answering" => ~h.writing
        /\ Early(h) \/ h.pc \in {"answering", "done"} \/ h.writing
        /\ h.writing \/ h.pc = "answering" => h.capture.generation # -1
        /\ h.capture.generation <= now.generation
        /\ h.capture.generation = now.generation => h.capture.write = now.write
        /\ h.want.op = "enqueue" => h.want.on = t /\ h.writing
        /\ h.want.then \in {"next", "poll", "check", "refused", "waiting", "done"}
        /\ h.pc \in {"send", "poll"} \/ (h.pc = "mutate" /\ h.want.then = "poll")
              => h.at.on \in Turns

Handlers == \A t \in Turns : HandlerOK(t)

(* Whoever has read the file is about to write it. *)
Holding ==
    \A p \in Procs : io[p].by # NoTurn =>
        ProcOf[io[p].by] = p /\ turns[io[p].by].pc = "mutate"

(* The outbox, its readers and the service know of turns only that have    *)
(* ended.                                                                  *)
Listed ==
    \A t \in Turns : turns[t].writing
        \/ /\ file[t] = "none" /\ job[t] = "none"
           /\ \A p \in Procs : io[p].read[t] = "none"
           /\ \A u \in Turns : turns[u].at.on # t /\ \A r \in turns[u].todo : r.on # t

(* The permission of a turn is gone for good. *)
Barred(t) ==
    /\ turns[t].capture.generation # -1
    /\ \/ t \in vetoed
       \/ ~turns[t].capture.write
       \/ turns[t].capture.generation < controls[SessionOf[t]].generation

Barring == \A t \in withdrawn : job[t] = "none" /\ ~Cleared(t) /\ Barred(t)

OutboxInv == TypeOK /\ Handlers /\ Holding /\ Listed /\ Barring

LEMMA Types ==
    ASSUME TypeOK, NEW t \in Turns
    PROVE  /\ turns[t] \in Handler /\ ProcOf[t] \in Procs /\ ProjectOf[t] \in Projects
           /\ SessionOf[t] \in Sessions /\ NoTurn \notin Turns
           /\ controls[SessionOf[t]] \in [write: BOOLEAN, generation: 0..MaxSwitches]
           /\ turns[t].capture.generation \in Int /\ controls[SessionOf[t]].generation \in Nat
           /\ turns[t].capture.write \in BOOLEAN /\ controls[SessionOf[t]].write \in BOOLEAN
<1>1. /\ turns[t] \in Handler /\ ProcOf[t] \in Procs /\ ProjectOf[t] \in Projects
      /\ SessionOf[t] \in Sessions /\ NoTurn \notin Turns
      /\ controls[SessionOf[t]] \in [write: BOOLEAN, generation: 0..MaxSwitches]
      /\ MaxSwitches \in Nat
  BY OutboxAssumption DEF TypeOK
<1>2. turns[t].capture \in Capture
  BY <1>1 DEF Handler
<1> QED
  BY <1>1, <1>2 DEF Capture

(* The policy checks of the code decide about Barred. *)
LEMMA PolicyDecides ==
    ASSUME TypeOK, NEW t \in Turns, HandlerOK(t)
    PROVE  /\ MayWrite(t) => ~Barred(t)
           /\ ~MayWrite(t) /\ turns[t].capture.generation # -1 => Barred(t)
<1> DEFINE c == turns[t].capture
           n == controls[SessionOf[t]]
<1>1. /\ c.generation \in Int /\ n.generation \in Nat /\ c.generation <= n.generation
      /\ c.generation = n.generation => c.write = n.write
  BY Types DEF HandlerOK
<1> QED
  BY <1>1 DEF MayWrite, Barred

(* A step of one handler that leaves its capture alone *)
LEMMA OneHandler ==
    ASSUME OutboxInv, NEW t \in Turns, NEW h \in Handler, turns' = [turns EXCEPT ![t] = h],
           UNCHANGED <<file, io, controls, vetoed, crashes, owed, withdrawn>>,
           turns[t].pc # "mutate", h.capture = turns[t].capture, turns[t].writing => h.writing,
           HandlerOK(t)', h.pc = "mutate" <=> h.want # NoMutation,
           last' \in [Procs -> [Projects -> Turns \cup {NoTurn}]],
           job' \in [Turns -> Job], prior' \in [Turns -> SUBSET Turns],
           \A u \in Turns : job'[u] # "none" => turns'[u].writing,
           \A u \in withdrawn : job'[u] = "none",
           \A r \in h.todo : r.on \in Turns => turns[r.on].writing,
           h.at.on \in Turns => turns[h.at.on].writing,
           h.pc = "submit" => t \notin withdrawn,
           h.pc = "send" => h.at.on \notin withdrawn
    PROVE  OutboxInv'
<1> USE DEF OutboxInv
<1>1. /\ turns' \in [Turns -> Handler] /\ turns'[t] = h
      /\ \A u \in Turns \ {t} : turns'[u] = turns[u]
  BY DEF TypeOK
<1>2. TypeOK'
  BY <1>1 DEF TypeOK
<1>3. Handlers'
  <2>1. ASSUME NEW u \in Turns \ {t} PROVE HandlerOK(u)'
    BY <1>1, <2>1 DEF Handlers, HandlerOK, Early
  <2> QED
    BY <2>1 DEF Handlers
<1>4. Holding'
  BY <1>1 DEF Holding, TypeOK
<1>5. \A u \in Turns : /\ turns[u].writing => turns'[u].writing
                       /\ turns'[u].capture = turns[u].capture
  BY <1>1
<1>6. Listed'
  <2> SUFFICES ASSUME NEW u \in Turns, ~turns'[u].writing
               PROVE  /\ file[u] = "none" /\ job'[u] = "none"
                      /\ \A p \in Procs : io[p].read[u] = "none"
                      /\ \A v \in Turns : /\ turns'[v].at.on # u
                                          /\ \A r \in turns'[v].todo : r.on # u
    BY DEF Listed
  <2>1. ~turns[u].writing /\ job'[u] = "none"
    BY <1>5
  <2>2. /\ file[u] = "none" /\ \A p \in Procs : io[p].read[u] = "none"
        /\ \A v \in Turns : turns[v].at.on # u /\ \A r \in turns[v].todo : r.on # u
    BY <2>1 DEF Listed
  <2>3. h.at.on # u /\ \A r \in h.todo : r.on # u
    BY <2>1
  <2> QED
    BY <1>1, <2>1, <2>2, <2>3
<1>7. Barring'
  <2> SUFFICES ASSUME NEW u \in withdrawn PROVE ~Cleared(u)' /\ Barred(u)'
    BY DEF Barring
  <2>1. u \in Turns /\ ~Cleared(u) /\ Barred(u)
    BY DEF Barring, TypeOK
  <2>2. Barred(u)'
    BY <1>5, <2>1 DEF Barred
  <2>3. ~Cleared(u)'
    BY <1>1, <2>1 DEF Cleared
  <2> QED
    BY <2>2, <2>3
<1> QED
  BY <1>2, <1>3, <1>4, <1>6, <1>7

(* The places a handler goes to, unless it prepares its turn *)
LEMMA NextPlace ==
    ASSUME OutboxInv, NEW t \in Turns, NEW h \in Handler, turns' = [turns EXCEPT ![t] = h],
           UNCHANGED controls, h.capture = turns[t].capture, h.pc # "answering",
           Early(h) => Early(turns[t]) /\ ~h.writing,
           Early(h) \/ h.pc = "done" \/ h.writing,
           h.writing => turns[t].writing \/ turns[t].pc = "answering",
           h.want.op = "enqueue" => h.want.on = t /\ h.writing,
           h.want.then \in {"next", "poll", "check", "refused", "waiting", "done"},
           h.pc \in {"send", "poll"} \/ (h.pc = "mutate" /\ h.want.then = "poll")
              => h.at.on \in Turns
    PROVE  HandlerOK(t)'
<1>1. turns'[t] = h /\ HandlerOK(t)
  BY DEF OutboxInv, TypeOK, Handlers
<1> QED
  BY <1>1 DEF HandlerOK, Early

LEMMA PreparingKeeps ==
    ASSUME OutboxInv, NEW t \in Turns, PreStep(t) \/ Await(t) \/ List(t)
    PROVE  OutboxInv'
<1> USE DEF OutboxInv
<1>0. /\ turns \in [Turns -> Handler] /\ turns[t] \in Handler /\ HandlerOK(t)
      /\ ProcOf[t] \in Procs /\ ProjectOf[t] \in Projects /\ job \in [Turns -> Job]
      /\ last \in [Procs -> [Projects -> Turns \cup {NoTurn}]]
      /\ turns[t].pc = "mutate" <=> turns[t].want # NoMutation
      /\ prior \in [Turns -> SUBSET Turns]
  BY Types DEF Handlers, TypeOK
<1>1. ASSUME NEW place \in {"opening", "awaiting", "next", "done"}, NEW after \in Turns \cup {NoTurn},
             NEW todo \in SUBSET Snapshot, \A r \in todo : turns[r.on].writing,
             turns' = [turns EXCEPT ![t] = [turns[t] EXCEPT !.pc = place, !.after = after, !.todo = todo]],
             turns[t].pc \in {"new", "opening", "awaiting"},
             prior' \in [Turns -> SUBSET Turns],
             UNCHANGED <<file, io, last, controls, vetoed, job, crashes, owed, withdrawn>>
      PROVE  OutboxInv'
  <2> DEFINE h == [turns[t] EXCEPT !.pc = place, !.after = after, !.todo = todo]
  <2>1. /\ h \in Handler /\ h.pc = place /\ h.todo = todo /\ h.want = turns[t].want
        /\ h.at = turns[t].at /\ h.writing = turns[t].writing /\ h.capture = turns[t].capture
    BY <1>0, <1>1 DEF Handler, Place
  <2>2. turns' = [turns EXCEPT ![t] = h]
    BY <1>1
  <2> HIDE DEF h
  <2>3. ~h.writing /\ Early(turns[t]) /\ h.want = NoMutation
    BY <1>0, <1>1, <2>1 DEF HandlerOK, Early
  <2>4. HandlerOK(t)'
    <3>1. h.want.op = "none" /\ h.want.then = "done"
      BY <2>3 DEF NoMutation
    <3>2. Early(h) \/ h.pc = "done"
      BY <1>1, <2>1 DEF Early
    <3> QED
      BY <1>1, <2>1, <2>2, <2>3, <3>1, <3>2, NextPlace
  <2>5. /\ h.at.on \in Turns => turns[h.at.on].writing
        /\ \A u \in Turns : job[u] # "none" => turns'[u].writing
    BY <1>0, <2>1, <2>2, <2>3 DEF Listed
  <2>6. \A u \in withdrawn : job[u] = "none"
    BY DEF Barring
  <2> QED
    BY <1>0, <1>1, <2>1, <2>2, <2>3, <2>4, <2>5, <2>6, OneHandler
<1>2. /\ turns[t].after \in Turns \cup {NoTurn} /\ turns[t].todo \in SUBSET Snapshot
      /\ \A r \in turns[t].todo : turns[r.on].writing
  <2>1. turns[t].after \in Turns \cup {NoTurn} /\ turns[t].todo \in SUBSET Snapshot
    BY <1>0 DEF Handler
  <2>2. \A r \in turns[t].todo : r.on \in Turns
    BY <2>1 DEF Snapshot
  <2> QED
    BY <2>1, <2>2 DEF Listed
<1>3. CASE PreStep(t)
  <2>1. turns' = [turns EXCEPT ![t] = [turns[t] EXCEPT !.pc = "opening", !.after = turns[t].after,
                                                       !.todo = turns[t].todo]]
    BY <1>0, <1>3 DEF PreStep, Goes, Handler
  <2>2. prior' \in [Turns -> SUBSET Turns]
    BY <1>0, <1>3 DEF PreStep, InWriteback
  <2>3. turns[t].pc = "new" /\ UNCHANGED <<file, io, last, controls, vetoed, job, crashes, owed, withdrawn>>
    BY <1>3 DEF PreStep
  <2> QED
    BY <1>1, <1>2, <2>1, <2>2, <2>3
<1>4. CASE Await(t)
  <2>1. CASE turns' = [turns EXCEPT ![t].pc = "awaiting", ![t].after = last[ProcOf[t]][ProjectOf[t]]]
    <3>1. last[ProcOf[t]][ProjectOf[t]] \in Turns \cup {NoTurn}
      BY <1>0
    <3>2. turns' = [turns EXCEPT ![t] = [turns[t] EXCEPT !.pc = "awaiting",
                      !.after = last[ProcOf[t]][ProjectOf[t]], !.todo = turns[t].todo]]
      BY <1>0, <2>1 DEF Handler
    <3> QED
      BY <1>0, <1>1, <1>2, <1>4, <3>1, <3>2 DEF Await
  <2>2. CASE turns' = [turns EXCEPT ![t].pc = "done"]
    <3>1. turns' = [turns EXCEPT ![t] = [turns[t] EXCEPT !.pc = "done",
                      !.after = turns[t].after, !.todo = turns[t].todo]]
      BY <1>0, <2>2 DEF Handler
    <3> QED
      BY <1>0, <1>1, <1>2, <1>4, <3>1 DEF Await
  <2> QED
    BY <1>4, <2>1, <2>2 DEF Await, Goes
<1>5. CASE List(t)
  <2> DEFINE todo == {[on |-> u, known |-> file[u] = "known"] : u \in {v \in Turns : file[v] # "none"}}
  <2>1. todo \in SUBSET Snapshot /\ \A r \in todo : turns[r.on].writing
    <3> SUFFICES ASSUME NEW u \in Turns, file[u] # "none"
                 PROVE  /\ [on |-> u, known |-> file[u] = "known"] \in Snapshot
                        /\ turns[u].writing
      OBVIOUS
    <3> QED
      BY DEF Snapshot, Listed
  <2>2. turns' = [turns EXCEPT ![t] = [turns[t] EXCEPT !.pc = "next", !.after = NoTurn, !.todo = todo]]
    BY <1>0, <1>5 DEF List
  <2> HIDE DEF todo
  <2> QED
    BY <1>0, <1>1, <1>5, <2>1, <2>2 DEF List
<1> QED
  BY <1>3, <1>4, <1>5

(* Reconciling: the handler is early, and touches records of turns that    *)
(* have ended.                                                             *)
LEMMA ReconcileMoves ==
    ASSUME OutboxInv, NEW t \in Turns, turns[t].pc \in {"next", "send", "poll"},
           NEW h \in Handler, turns' = [turns EXCEPT ![t] = h],
           UNCHANGED <<file, io, last, controls, vetoed, crashes, owed, withdrawn, prior>>,
           h.capture = turns[t].capture, h.writing = turns[t].writing,
           h.todo \subseteq turns[t].todo,
           h.at = turns[t].at \/ h.at = NoSnapshot \/ h.at \in turns[t].todo,
           \/ /\ h.pc \in {"send", "poll"} /\ h.want = turns[t].want /\ h.at.on \in Turns
           \/ /\ h.pc = "mutate" /\ h.want \in Mutation /\ h.want.op # "enqueue"
              /\ \/ h.want.then = "next"
                 \/ h.want.then = "poll" /\ h.at.on \in Turns,
           h.pc = "send" => h.at.on \notin withdrawn,
           \/ UNCHANGED job
           \/ turns[t].pc = "send" /\ job' = Submitted(turns[t].at.on)
    PROVE  OutboxInv'
<1> USE DEF OutboxInv
<1>0. /\ turns \in [Turns -> Handler] /\ turns[t] \in Handler /\ HandlerOK(t)
      /\ job \in [Turns -> Job] /\ turns[t].want = NoMutation
      /\ last \in [Procs -> [Projects -> Turns \cup {NoTurn}]]
      /\ prior \in [Turns -> SUBSET Turns] /\ NoTurn \notin Turns
  BY Types DEF Handlers, TypeOK
<1>1. /\ NoMutation.op = "none" /\ NoMutation.then = "done" /\ NoMutation \notin Mutation
      /\ NoSnapshot.on = NoTurn
  BY DEF NoMutation, Mutation, NoSnapshot
<1>2. Early(turns[t]) /\ ~turns[t].writing
  BY <1>0 DEF HandlerOK, Early
<1>3. Early(h) /\ (h.pc = "mutate" <=> h.want # NoMutation)
  BY <1>0, <1>1 DEF Early
<1>4. h.want.op # "enqueue" /\ h.want.then \in {"next", "poll", "done"}
  BY <1>0, <1>1
<1>5. HandlerOK(t)'
  BY <1>2, <1>3, <1>4, NextPlace DEF Early
<1>6. /\ \A r \in h.todo : r.on \in Turns => turns[r.on].writing
      /\ h.at.on \in Turns => turns[h.at.on].writing
  BY <1>0, <1>1 DEF Listed
<1>7. /\ job' \in [Turns -> Job]
      /\ \A u \in Turns : job'[u] # "none" => turns[u].writing
      /\ \A u \in withdrawn : job'[u] = "none"
  <2>1. CASE UNCHANGED job
    BY <1>0, <2>1 DEF Listed, Barring
  <2>2. CASE turns[t].pc = "send" /\ job' = Submitted(turns[t].at.on)
    <3> DEFINE u == turns[t].at.on
    <3>1. u \in Turns /\ turns[u].writing /\ u \notin withdrawn
      BY <1>0, <2>2 DEF HandlerOK, Listed, Barring, Cleared
    <3>2. job' \in [Turns -> Job] /\ \A v \in Turns \ {u} : job'[v] = job[v]
      BY <1>0, <2>2, <3>1 DEF Submitted, Job
    <3> HIDE DEF u
    <3>3. \A v \in Turns : job'[v] # "none" => turns[v].writing
      BY <3>1, <3>2 DEF Listed
    <3>4. \A v \in withdrawn : v \in Turns /\ v # u /\ job[v] = "none"
      BY <3>1 DEF Barring, TypeOK
    <3> QED
      BY <3>2, <3>3, <3>4
  <2> QED
    BY <2>1, <2>2
<1>8. \A u \in Turns : job'[u] # "none" => turns'[u].writing
  BY <1>0, <1>2, <1>7
<1>9. turns[t].pc # "mutate" /\ h.pc # "submit"
  OBVIOUS
<1> QED
  BY <1>0, <1>2, <1>3, <1>5, <1>6, <1>7, <1>8, <1>9, OneHandler

LEMMA TakeKeeps == ASSUME OutboxInv, NEW t \in Turns, Take(t) PROVE OutboxInv'
<1> USE DEF OutboxInv
<1>0. turns \in [Turns -> Handler] /\ turns[t] \in Handler /\ turns[t].pc = "next"
  BY DEF TypeOK, Take
<1>1. PICK r \in turns[t].todo : turns' =
          IF r.known \/ MayWrite(r.on)
          THEN [turns EXCEPT ![t].todo = @ \ {r}, ![t].at = r,
                             ![t].pc = IF r.known THEN "poll" ELSE "send"]
          ELSE [turns EXCEPT ![t].todo = @ \ {r}, ![t].pc = "mutate",
                             ![t].want = [op |-> "remove", on |-> r.on, then |-> "next"]]
  BY DEF Take
<1>2. /\ r \in Snapshot /\ r.on \in Turns
      /\ turns[t].todo \ {r} \subseteq turns[t].todo /\ turns[t].todo \subseteq Snapshot
  BY <1>0 DEF Handler, Snapshot
<1>3. CASE r.known \/ MayWrite(r.on)
  <2> DEFINE place == IF r.known THEN "poll" ELSE "send"
             h == [turns[t] EXCEPT !.todo = turns[t].todo \ {r}, !.at = r, !.pc = place]
  <2>1. turns' = [turns EXCEPT ![t] = h]
    BY <1>0, <1>1, <1>3
  <2>2. /\ h \in Handler /\ h.pc = place /\ h.todo = turns[t].todo \ {r} /\ h.at = r
        /\ h.want = turns[t].want /\ h.writing = turns[t].writing /\ h.capture = turns[t].capture
    BY <1>0, <1>2 DEF Handler, Place
  <2>3. place = "send" => r.on \notin withdrawn
    <3>1. HandlerOK(r.on)
      BY <1>2 DEF Handlers
    <3> QED
      BY <1>2, <1>3, <3>1, PolicyDecides DEF Barring
  <2>4. place \in {"send", "poll"}
    OBVIOUS
  <2> HIDE DEF h, place
  <2> QED
    BY <1>0, <1>2, <2>1, <2>2, <2>3, <2>4, ReconcileMoves DEF Take
<1>4. CASE ~(r.known \/ MayWrite(r.on))
  <2> DEFINE m == [op |-> "remove", on |-> r.on, then |-> "next"]
             h == [turns[t] EXCEPT !.todo = turns[t].todo \ {r}, !.pc = "mutate", !.want = m]
  <2>1. turns' = [turns EXCEPT ![t] = h]
    BY <1>0, <1>1, <1>4
  <2>2. m \in Mutation /\ m.op = "remove" /\ m.then = "next"
    BY <1>2 DEF Mutation, Place
  <2> HIDE DEF m
  <2>3. /\ h \in Handler /\ h.pc = "mutate" /\ h.todo = turns[t].todo \ {r} /\ h.at = turns[t].at
        /\ h.want = m /\ h.writing = turns[t].writing /\ h.capture = turns[t].capture
    BY <1>0, <1>2, <2>2 DEF Handler, Place
  <2> HIDE DEF h
  <2> QED
    BY <1>0, <1>2, <2>1, <2>2, <2>3, ReconcileMoves DEF Take
<1> QED
  BY <1>3, <1>4

(* A reconciled record is touched, learns of its job, or is removed. *)
LEMMA SendPollKeep == ASSUME OutboxInv, NEW t \in Turns, Send(t) \/ Poll(t) PROVE OutboxInv'
<1> USE DEF OutboxInv
<1> DEFINE u == turns[t].at.on
<1>0. /\ turns \in [Turns -> Handler] /\ turns[t] \in Handler /\ turns[t].pc \in {"send", "poll"}
      /\ u \in Turns
  BY DEF TypeOK, Send, Poll, Handlers, HandlerOK
<1>1. /\ UNCHANGED <<file, io, last, controls, vetoed, crashes, owed, withdrawn, prior>>
      /\ UNCHANGED job \/ (turns[t].pc = "send" /\ job' = Submitted(u))
  BY DEF Send, Poll
<1>2. ASSUME NEW op \in {"remove", "touch"}, Leaves(t, op) PROVE OutboxInv'
  <2> DEFINE m == [op |-> op, on |-> u, then |-> "next"]
             h == [turns[t] EXCEPT !.pc = "mutate", !.at = NoSnapshot, !.want = m]
  <2>1. turns' = [turns EXCEPT ![t] = h]
    BY <1>0, <1>2 DEF Leaves
  <2>2. m \in Mutation /\ m.op # "enqueue" /\ m.then = "next"
    BY <1>0 DEF Mutation, Place
  <2> HIDE DEF m
  <2>3. /\ h \in Handler /\ h.pc = "mutate" /\ h.todo = turns[t].todo /\ h.at = NoSnapshot
        /\ h.want = m /\ h.writing = turns[t].writing /\ h.capture = turns[t].capture
    BY <1>0, <2>2 DEF Handler, Place
  <2> HIDE DEF h
  <2> QED
    BY <1>0, <1>1, <2>1, <2>2, <2>3, ReconcileMoves
<1>3. ASSUME Mutates(t, "know", u, "poll") PROVE OutboxInv'
  <2> DEFINE m == [op |-> "know", on |-> u, then |-> "poll"]
             h == [turns[t] EXCEPT !.pc = "mutate", !.want = m]
  <2>1. turns' = [turns EXCEPT ![t] = h]
    BY <1>0, <1>3 DEF Mutates
  <2>2. m \in Mutation /\ m.op # "enqueue" /\ m.then = "poll"
    BY <1>0 DEF Mutation, Place
  <2> HIDE DEF m
  <2>3. /\ h \in Handler /\ h.pc = "mutate" /\ h.todo = turns[t].todo /\ h.at = turns[t].at
        /\ h.want = m /\ h.writing = turns[t].writing /\ h.capture = turns[t].capture
    BY <1>0, <2>2 DEF Handler, Place
  <2> HIDE DEF h
  <2> QED
    BY <1>0, <1>1, <2>1, <2>2, <2>3, ReconcileMoves
<1> QED
  BY <1>2, <1>3 DEF Send, Poll

(* The end of a turn and its writeback *)
LEMMA WritebackMoves ==
    ASSUME OutboxInv, NEW t \in Turns,
           turns[t].pc \in {"answering", "chained", "check", "refused", "submit", "waiting"},
           NEW h \in Handler, turns' = [turns EXCEPT ![t] = h],
           UNCHANGED <<file, io, controls, vetoed, crashes, owed, withdrawn, prior>>,
           last' \in [Procs -> [Projects -> Turns \cup {NoTurn}]],
           h.capture = turns[t].capture, h.todo = turns[t].todo, h.at = turns[t].at,
           turns[t].writing => h.writing,
           h.writing => turns[t].writing \/ turns[t].pc = "answering",
           h.pc = "done" \/ h.writing,
           \/ h.pc \in {"chained", "submit", "done"} /\ h.want = turns[t].want
           \/ /\ h.pc = "mutate" /\ h.want \in Mutation
              /\ h.want.op = "enqueue" => h.want.on = t
              /\ h.want.then \in {"check", "refused", "waiting", "done"},
           h.pc = "submit" => t \notin withdrawn,
           \/ UNCHANGED job
           \/ turns[t].pc = "submit" /\ job' = Submitted(t)
    PROVE  OutboxInv'
<1> USE DEF OutboxInv
<1>0. /\ turns \in [Turns -> Handler] /\ turns[t] \in Handler /\ HandlerOK(t)
      /\ job \in [Turns -> Job] /\ turns[t].want = NoMutation
      /\ prior \in [Turns -> SUBSET Turns] /\ NoTurn \notin Turns
  BY Types DEF Handlers, TypeOK
<1>1. NoMutation.op = "none" /\ NoMutation.then = "done" /\ NoMutation \notin Mutation
  BY DEF NoMutation, Mutation
<1>2. ~Early(h) /\ (h.pc = "mutate" <=> h.want # NoMutation)
  BY <1>0, <1>1 DEF Early
<1>3. /\ h.want.op = "enqueue" => h.want.on = t /\ h.writing
      /\ h.want.then \in {"check", "refused", "waiting", "done"}
      /\ h.pc \notin {"answering", "send", "poll"}
  BY <1>0, <1>1
<1>4. HandlerOK(t)'
  BY <1>2, <1>3, NextPlace
<1>5. /\ \A r \in h.todo : r.on \in Turns => turns[r.on].writing
      /\ h.at.on \in Turns => turns[h.at.on].writing
  BY <1>0 DEF Listed
<1>6. /\ job' \in [Turns -> Job]
      /\ \A u \in Turns : job'[u] # "none" => turns[u].writing
      /\ \A u \in withdrawn : job'[u] = "none"
  <2>1. CASE UNCHANGED job
    BY <1>0, <2>1 DEF Listed, Barring
  <2>2. CASE turns[t].pc = "submit" /\ job' = Submitted(t)
    <3>1. turns[t].writing /\ t \notin withdrawn
      BY <1>0, <2>2 DEF HandlerOK, Early, Barring, Cleared
    <3>2. job' \in [Turns -> Job] /\ \A v \in Turns \ {t} : job'[v] = job[v]
      BY <1>0, <2>2 DEF Submitted, Job
    <3>3. \A v \in Turns : job'[v] # "none" => turns[v].writing
      BY <3>1, <3>2 DEF Listed
    <3>4. \A v \in withdrawn : v \in Turns /\ v # t /\ job[v] = "none"
      BY <3>1 DEF Barring, TypeOK
    <3> QED
      BY <3>2, <3>3, <3>4
  <2> QED
    BY <2>1, <2>2
<1>7. \A u \in Turns : job'[u] # "none" => turns'[u].writing
  BY <1>0, <1>6
<1>8. turns[t].pc # "mutate" /\ h.pc # "send"
  BY <1>3
<1> QED
  BY <1>0, <1>2, <1>4, <1>5, <1>6, <1>7, <1>8, OneHandler

LEMMA WritebackKeeps ==
    ASSUME OutboxInv, NEW t \in Turns,
           TurnEnds(t) \/ CommitTurn(t) \/ CheckAgain(t) \/ Refused(t) \/ Submit(t) \/ Finish(t)
    PROVE  OutboxInv'
<1> USE DEF OutboxInv
<1> DEFINE x == turns[t]
<1>0. /\ turns \in [Turns -> Handler] /\ x \in Handler /\ HandlerOK(t)
      /\ last \in [Procs -> [Projects -> Turns \cup {NoTurn}]]
      /\ x.pc \in {"answering", "chained", "check", "refused", "submit", "waiting"}
      /\ x.pc # "answering" => x.writing
      /\ UNCHANGED <<file, io, controls, vetoed, crashes, owed, withdrawn, prior>>
      /\ UNCHANGED job \/ (x.pc = "submit" /\ job' = Submitted(t))
  <2>1. /\ x.pc \in {"answering", "chained", "check", "refused", "submit", "waiting"}
        /\ UNCHANGED <<file, io, controls, vetoed, crashes, owed, withdrawn, prior>>
        /\ UNCHANGED job \/ (x.pc = "submit" /\ job' = Submitted(t))
    BY DEF TurnEnds, CommitTurn, CheckAgain, Refused, Submit, Finish
  <2>2. HandlerOK(t)
    BY DEF Handlers
  <2> QED
    BY <2>1, <2>2 DEF TypeOK, HandlerOK, Early
<1>1. ASSUME NEW op \in {"enqueue", "know", "touch", "remove"},
             NEW then \in {"check", "refused", "waiting", "done"}, NEW after \in Turns \cup {NoTurn},
             turns' = [turns EXCEPT ![t].pc = "mutate", ![t].after = after,
                                    ![t].want = [op |-> op, on |-> t, then |-> then]],
             x.pc # "answering", UNCHANGED last
      PROVE  OutboxInv'
  <2> DEFINE m == [op |-> op, on |-> t, then |-> then]
             h == [x EXCEPT !.pc = "mutate", !.after = after, !.want = m]
  <2>1. turns' = [turns EXCEPT ![t] = h]
    BY <1>0, <1>1
  <2>2. m \in Mutation /\ m.on = t /\ m.then = then
    BY DEF Mutation, Place
  <2> HIDE DEF m
  <2>3. /\ h \in Handler /\ h.pc = "mutate" /\ h.todo = x.todo /\ h.at = x.at
        /\ h.want = m /\ h.writing = x.writing /\ h.capture = x.capture
    BY <1>0, <2>2 DEF Handler, Place
  <2> HIDE DEF h
  <2>4. h.writing /\ last' \in [Procs -> [Projects -> Turns \cup {NoTurn}]]
    BY <1>0, <1>1, <2>3
  <2>5. /\ h.pc # "submit"
        /\ h.want \in Mutation /\ h.want.on = t
        /\ h.want.then \in {"check", "refused", "waiting", "done"}
    BY <2>2, <2>3
  <2> QED
    BY <1>0, <1>1, <2>1, <2>3, <2>4, <2>5, WritebackMoves
<1>2. ASSUME NEW place \in {"chained", "submit", "done"}, NEW after \in Turns \cup {NoTurn},
             NEW writing \in BOOLEAN, x.writing => writing,
             writing => x.writing \/ x.pc = "answering", place = "done" \/ writing,
             turns' = [turns EXCEPT ![t] =
                         [x EXCEPT !.pc = place, !.after = after, !.writing = writing]],
             last' \in [Procs -> [Projects -> Turns \cup {NoTurn}]],
             place = "submit" => t \notin withdrawn
      PROVE  OutboxInv'
  <2> DEFINE h == [x EXCEPT !.pc = place, !.after = after, !.writing = writing]
  <2>1. turns' = [turns EXCEPT ![t] = h]
    BY <1>2
  <2>2. /\ h \in Handler /\ h.pc = place /\ h.todo = x.todo /\ h.at = x.at
        /\ h.want = x.want /\ h.writing = writing /\ h.capture = x.capture
    BY <1>0 DEF Handler, Place
  <2> HIDE DEF h
  <2> QED
    BY <1>0, <1>2, <2>1, <2>2, WritebackMoves
<1>3. x.after \in Turns \cup {NoTurn} /\ x.writing \in BOOLEAN
  BY <1>0 DEF Handler
<1>4. ASSUME Goes(t, "done"), UNCHANGED last PROVE OutboxInv'
  <2>1. turns' = [turns EXCEPT ![t] = [x EXCEPT !.pc = "done", !.after = x.after,
                                                !.writing = x.writing]]
    BY <1>0, <1>4 DEF Goes, Handler
  <2> QED
    BY <1>0, <1>2, <1>3, <1>4, <2>1
<1>5. ASSUME NEW op \in {"know", "touch", "remove"}, NEW then \in {"refused", "waiting", "done"},
             Mutates(t, op, t, then), x.pc # "answering", UNCHANGED last
      PROVE  OutboxInv'
  <2>1. turns' = [turns EXCEPT ![t].pc = "mutate", ![t].after = x.after,
                               ![t].want = [op |-> op, on |-> t, then |-> then]]
    BY <1>0, <1>5 DEF Mutates, Handler
  <2> QED
    BY <1>1, <1>3, <1>5, <2>1
<1>6. CASE TurnEnds(t)
  <2> DEFINE p == ProcOf[t]
             project == ProjectOf[t]
  <2>1. CASE /\ turns' = [turns EXCEPT ![t].pc = "chained", ![t].writing = TRUE,
                                       ![t].after = last[p][project]]
             /\ last' = [last EXCEPT ![p][project] = t]
    <3>1. last[p][project] \in Turns \cup {NoTurn}
      BY <1>0, Types
    <3>2. last' \in [Procs -> [Projects -> Turns \cup {NoTurn}]]
      BY <1>0, <2>1
    <3>3. turns' = [turns EXCEPT ![t] = [x EXCEPT !.pc = "chained", !.after = last[p][project],
                                                  !.writing = TRUE]]
      BY <1>0, <2>1
    <3>4. x.pc = "answering"
      BY <1>6 DEF TurnEnds
    <3> HIDE DEF p, project
    <3> QED
      BY <1>2, <3>1, <3>2, <3>3, <3>4
  <2> QED
    BY <1>4, <1>6, <2>1 DEF TurnEnds
<1>7. CASE CommitTurn(t)
  <2>0. x.pc = "chained" /\ UNCHANGED last
    BY <1>7 DEF CommitTurn
  <2>1. CASE turns' = [turns EXCEPT ![t].pc = "mutate", ![t].after = NoTurn,
                          ![t].want = [op |-> "enqueue", on |-> t, then |-> "check"]]
    BY <1>1, <2>0, <2>1
  <2>2. CASE turns' = [turns EXCEPT ![t].pc = "done", ![t].after = NoTurn]
    <3>1. turns' = [turns EXCEPT ![t] = [x EXCEPT !.pc = "done", !.after = NoTurn,
                                                  !.writing = x.writing]]
      BY <1>0, <2>2 DEF Handler
    <3> QED
      BY <1>0, <1>2, <1>3, <2>0, <3>1
  <2> QED
    BY <1>7, <2>1, <2>2 DEF CommitTurn
<1>8. CASE CheckAgain(t)
  <2>0. x.pc = "check" /\ UNCHANGED last
    BY <1>8 DEF CheckAgain
  <2>1. CASE MayWrite(t) /\ Goes(t, "submit")
    <3>1. turns' = [turns EXCEPT ![t] = [x EXCEPT !.pc = "submit", !.after = x.after,
                                                  !.writing = x.writing]]
      BY <1>0, <2>1 DEF Goes, Handler
    <3>2. t \notin withdrawn
      BY <1>0, <2>1, PolicyDecides DEF Barring
    <3> QED
      BY <1>0, <1>2, <1>3, <2>0, <3>1, <3>2
  <2> QED
    BY <1>5, <1>8, <2>0, <2>1 DEF CheckAgain
<1>9. CASE Refused(t)
  BY <1>5, <1>9 DEF Refused
<1>10. CASE Submit(t)
  <2>1. x.pc # "answering" /\ UNCHANGED last
    BY <1>10 DEF Submit
  <2>2. \/ Mutates(t, "know", t, "waiting") \/ Mutates(t, "know", t, "done")
        \/ Goes(t, "done") \/ Mutates(t, "touch", t, "done")
    BY <1>10 DEF Submit
  <2> QED
    BY <1>4, <1>5, <2>1, <2>2
<1>11. CASE Finish(t)
  BY <1>4, <1>5, <1>11 DEF Finish
<1> QED
  BY <1>6, <1>7, <1>8, <1>9, <1>10, <1>11

-----------------------------------------------------------------------------
(* Policy, file, service and crashes *)

LEMMA SetModeKeeps == ASSUME OutboxInv, NEW s \in Sessions, SetMode(s) PROVE OutboxInv'
<1> USE DEF OutboxInv
<1> DEFINE n == [write |-> ~controls[s].write, generation |-> controls[s].generation + 1]
<1>0. /\ UNCHANGED <<file, io, turns, last, vetoed, job, crashes, owed, prior>>
      /\ controls' = [controls EXCEPT ![s] = n]
      /\ withdrawn' = withdrawn \cup
           {t \in Turns : /\ SessionOf[t] = s /\ turns[t].capture.generation # -1
                          /\ job[t] = "none" /\ ~Cleared(t)}
      /\ controls[s].generation < MaxSwitches
  BY DEF SetMode
<1>1. /\ controls \in [Sessions -> [write: BOOLEAN, generation: 0..MaxSwitches]]
      /\ controls[s].generation \in 0..MaxSwitches /\ MaxSwitches \in Nat
  BY OutboxAssumption DEF TypeOK
<1>2. n \in [write: BOOLEAN, generation: 0..MaxSwitches] /\ n.generation = controls[s].generation + 1
  BY <1>0, <1>1
<1> HIDE DEF n
<1>3. /\ controls' \in [Sessions -> [write: BOOLEAN, generation: 0..MaxSwitches]]
      /\ controls'[s].generation = controls[s].generation + 1
      /\ \A q \in Sessions \ {s} : controls'[q] = controls[q]
  BY <1>0, <1>1, <1>2
<1>4. TypeOK'
  BY <1>0, <1>3 DEF TypeOK
<1>5. Handlers'
  <2> SUFFICES ASSUME NEW t \in Turns PROVE HandlerOK(t)'
    BY DEF Handlers
  <2>1. /\ HandlerOK(t) /\ turns[t].capture.generation \in Int /\ SessionOf[t] \in Sessions
        /\ controls[SessionOf[t]].generation \in Nat
    BY Types DEF Handlers
  <2>2. CASE SessionOf[t] = s
    <3>1. turns[t].capture.generation < controls'[s].generation
      BY <1>3, <2>1, <2>2 DEF HandlerOK
    <3>2. controls'[s].generation \in Nat
      BY <1>3
    <3> QED
      BY <1>0, <2>1, <2>2, <3>1, <3>2 DEF HandlerOK, Early
  <2>3. CASE SessionOf[t] # s
    BY <1>0, <1>3, <2>1, <2>3 DEF HandlerOK, Early
  <2> QED
    BY <2>2, <2>3
<1>6. Barring'
  <2> SUFFICES ASSUME NEW t \in withdrawn' PROVE job[t] = "none" /\ ~Cleared(t)' /\ Barred(t)'
    BY <1>0 DEF Barring
  <2>1. t \in Turns
    BY <1>0 DEF TypeOK
  <2>2. /\ HandlerOK(t) /\ turns[t].capture.generation \in Int /\ SessionOf[t] \in Sessions
        /\ controls[SessionOf[t]].generation \in Nat
    BY <2>1, Types DEF Handlers
  <2>3. /\ job[t] = "none" /\ ~Cleared(t) /\ turns[t].capture.generation # -1
        /\ Barred(t) \/ SessionOf[t] = s
    BY <1>0 DEF Barring, Barred
  <2>4. Barred(t)'
    <3>1. CASE SessionOf[t] = s
      BY <1>0, <1>3, <2>2, <2>3, <3>1 DEF Barred, HandlerOK
    <3>2. CASE SessionOf[t] # s
      BY <1>0, <1>3, <2>2, <2>3, <3>2 DEF Barred
    <3> QED
      BY <3>1, <3>2
  <2>5. ~Cleared(t)'
    BY <1>0, <2>3 DEF Cleared
  <2> QED
    BY <2>3, <2>4, <2>5
<1> QED
  BY <1>0, <1>4, <1>5, <1>6 DEF Holding, Listed

(* A turn that is being answered is unknown to the outbox and the service. *)
LEMMA Unwritten ==
    ASSUME OutboxInv, NEW t \in Turns, ~turns[t].writing, turns[t].pc # "submit"
    PROVE  job[t] = "none" /\ ~Cleared(t)
  BY DEF OutboxInv, Listed, Cleared

LEMMA VetoKeeps == ASSUME OutboxInv, NEW t \in Turns, Veto(t) PROVE OutboxInv'
<1> USE DEF OutboxInv
<1>0. /\ UNCHANGED <<file, io, turns, last, controls, job, crashes, owed, prior>>
      /\ vetoed' = vetoed \cup {t} /\ withdrawn' = withdrawn \cup {t} /\ turns[t].pc = "answering"
  BY DEF Veto
<1>1. ~turns[t].writing /\ turns[t].capture.generation # -1
  BY <1>0 DEF Handlers, HandlerOK
<1>2. job[t] = "none" /\ ~Cleared(t)
  BY <1>0, <1>1, Unwritten
<1>3. Barring'
  <2> SUFFICES ASSUME NEW u \in withdrawn' PROVE job[u] = "none" /\ ~Cleared(u)' /\ Barred(u)'
    BY <1>0 DEF Barring
  <2>1. job[u] = "none" /\ ~Cleared(u) /\ turns[u].capture.generation # -1
        /\ (Barred(u) \/ u = t)
    BY <1>0, <1>1, <1>2 DEF Barring, Barred
  <2> QED
    BY <1>0, <2>1 DEF Barred, Cleared
<1>4. Handlers'
  BY <1>0 DEF Handlers, HandlerOK, Early
<1> QED
  BY <1>0, <1>3, <1>4 DEF TypeOK, Holding, Listed

LEMMA JobEndsKeeps == ASSUME OutboxInv, NEW t \in Turns, JobEnds(t) PROVE OutboxInv'
<1> USE DEF OutboxInv
<1>0. /\ UNCHANGED <<file, io, turns, last, controls, vetoed, crashes, owed, withdrawn, prior>>
      /\ job[t] = "pending" /\ job \in [Turns -> Job]
  BY DEF JobEnds, TypeOK
<1>1. /\ job' \in [Turns -> Job]
      /\ \A u \in Turns : job'[u] = "none" <=> job[u] = "none"
  BY <1>0 DEF JobEnds, Job
<1>2. TypeOK'
  BY <1>0, <1>1 DEF TypeOK
<1>3. Handlers'
  BY <1>0 DEF Handlers, HandlerOK, Early
<1>4. Listed'
  BY <1>0, <1>1 DEF Listed
<1>5. Barring'
  BY <1>0, <1>1 DEF Barring, Barred, Cleared, TypeOK
<1> QED
  BY <1>0, <1>2, <1>3, <1>4, <1>5 DEF Holding

LEMMA ReadKeeps == ASSUME OutboxInv, NEW t \in Turns, Read(t) PROVE OutboxInv'
<1> USE DEF OutboxInv
<1> DEFINE p == ProcOf[t]
<1>0. /\ UNCHANGED <<file, turns, last, controls, vetoed, job, crashes, owed, withdrawn, prior>>
      /\ turns[t].pc = "mutate" /\ p \in Procs /\ file \in [Turns -> Record]
      /\ io \in [Procs -> [by: Turns \cup {NoTurn}, read: [Turns -> Record]]]
      /\ io' = [io EXCEPT ![p] = [by |-> t, read |-> file]]
  BY Types DEF Read, TypeOK
<1>1. /\ io' \in [Procs -> [by: Turns \cup {NoTurn}, read: [Turns -> Record]]]
      /\ io'[p].by = t /\ io'[p].read = file
      /\ \A q \in Procs \ {p} : io'[q] = io[q]
  BY <1>0
<1>2. TypeOK'
  BY <1>0, <1>1 DEF TypeOK
<1>3. Holding'
  <2> SUFFICES ASSUME NEW q \in Procs, io'[q].by # NoTurn
               PROVE  ProcOf[io'[q].by] = q /\ turns[io'[q].by].pc = "mutate"
    BY <1>0 DEF Holding
  <2> QED
    BY <1>0, <1>1 DEF Holding
<1>4. Listed'
  BY <1>0, <1>1 DEF Listed
<1>5. Handlers'
  BY <1>0 DEF Handlers, HandlerOK, Early
<1> QED
  BY <1>0, <1>2, <1>3, <1>4, <1>5 DEF Barring, Barred, Cleared

(* What the rewritten file holds *)
LEMMA Rewritten ==
    ASSUME NEW records \in [Turns -> Record], NEW m \in Mutation
    PROVE  /\ Applied(m, records) \in [Turns -> Record]
           /\ \A u \in Turns :
                 /\ records[u] = "none" /\ Applied(m, records)[u] # "none"
                       => m.op = "enqueue" /\ u = m.on
                 /\ records[u] # "none" /\ Applied(m, records)[u] = "none"
                       => m.op = "remove" /\ u = m.on
           /\ m.op = "enqueue" => Applied(m, records)[m.on] # "none"
<1>1. m.on \in Turns /\ m.op \in {"enqueue", "know", "touch", "remove"}
  BY DEF Mutation
<1> QED
  BY <1>1 DEF Applied, Record

LEMMA WriteKeeps == ASSUME OutboxInv, NEW t \in Turns, Write(t) PROVE OutboxInv'
<1> USE DEF OutboxInv
<1> DEFINE p == ProcOf[t]
           m == turns[t].want
           h == [turns[t] EXCEPT !.pc = m.then, !.want = NoMutation]
<1>0. /\ UNCHANGED <<last, controls, vetoed, job, crashes, withdrawn, prior>>
      /\ p \in Procs /\ file \in [Turns -> Record] /\ turns \in [Turns -> Handler]
      /\ turns[t] \in Handler /\ HandlerOK(t) /\ NoTurn \notin Turns
      /\ io \in [Procs -> [by: Turns \cup {NoTurn}, read: [Turns -> Record]]]
      /\ io' = [io EXCEPT ![p] = Free] /\ io[p].by = t
      /\ file' = Applied(m, io[p].read)
      /\ owed' = IF m.op = "enqueue" THEN owed \cup {t} ELSE owed
      /\ turns' = [turns EXCEPT ![t].pc = m.then, ![t].want = NoMutation]
  BY Types DEF Write, TypeOK, Handlers
<1>1. turns[t].pc = "mutate" /\ m # NoMutation /\ m \in Mutation
  <2>1. p \in Procs /\ io[p].by = t /\ t # NoTurn
    BY <1>0
  <2>2. turns[t].pc = "mutate"
    BY <2>1 DEF Holding
  <2>3. m # NoMutation
    BY <2>2 DEF TypeOK
  <2>4. turns[t].want \in Mutation \cup {NoMutation}
    BY <1>0 DEF Handler
  <2> QED
    BY <2>2, <2>3, <2>4
<1>2. /\ h \in Handler /\ h.pc = m.then /\ h.want = NoMutation /\ h.capture = turns[t].capture
      /\ h.writing = turns[t].writing /\ h.at = turns[t].at /\ h.todo = turns[t].todo
  BY <1>0, <1>1 DEF Handler, Mutation
<1>3. turns' = [turns EXCEPT ![t] = h]
  BY <1>0
<1> HIDE DEF h
<1>4. /\ turns' \in [Turns -> Handler] /\ turns'[t] = h
      /\ \A u \in Turns \ {t} : turns'[u] = turns[u]
  <2>1. turns \in [Turns -> Handler]
    BY <1>0
  <2> QED
    BY <1>2, <1>3, <2>1
<1>5. /\ io' \in [Procs -> [by: Turns \cup {NoTurn}, read: [Turns -> Record]]]
      /\ io'[p].by = NoTurn /\ \A u \in Turns : io'[p].read[u] = "none"
      /\ \A q \in Procs \ {p} : io'[q] = io[q]
  BY <1>0 DEF Free, Empty, Record
<1>6. /\ file' \in [Turns -> Record]
      /\ \A u \in Turns : io[p].read[u] = "none" /\ file'[u] # "none" => u = t /\ h.writing
  BY <1>0, <1>1, <1>2, Rewritten DEF HandlerOK
<1>7. m.then \in {"next", "poll", "check", "refused", "waiting", "done"}
  BY <1>0 DEF HandlerOK
<1>8. TypeOK'
  <2>1. m.then # "mutate"
    BY <1>7
  <2> QED
    BY <1>0, <1>2, <1>4, <1>5, <1>6, <2>1 DEF TypeOK
<1>9. Handlers'
  <2>1. HandlerOK(t)'
    <3>1. NoMutation.op = "none" /\ NoMutation.then = "done"
      BY DEF NoMutation
    <3>2. Early(h) <=> Early(turns[t])
      BY <1>1, <1>2, <1>7 DEF Early
    <3>3. h.pc = "poll" => h.at.on \in Turns
      BY <1>0, <1>1, <1>2 DEF HandlerOK
    <3>4. Early(h) \/ h.pc = "done" \/ h.writing
      BY <1>0, <1>1, <1>2, <3>2 DEF HandlerOK
    <3>5. Early(h) => ~h.writing
      BY <1>0, <1>2, <3>2 DEF HandlerOK
    <3> QED
      BY <1>0, <1>1, <1>2, <1>3, <1>7, <3>1, <3>2, <3>3, <3>4, <3>5, NextPlace
  <2>2. ASSUME NEW u \in Turns \ {t} PROVE HandlerOK(u)'
    BY <1>0, <1>4, <2>2 DEF Handlers, HandlerOK, Early
  <2> QED
    BY <2>1, <2>2 DEF Handlers
<1>10. Holding'
  <2> SUFFICES ASSUME NEW q \in Procs, io'[q].by # NoTurn
               PROVE  ProcOf[io'[q].by] = q /\ turns'[io'[q].by].pc = "mutate"
    BY DEF Holding
  <2>1. q # p /\ io'[q] = io[q] /\ io[q].by \in Turns
    BY <1>0, <1>5
  <2>2. ProcOf[io[q].by] = q /\ turns[io[q].by].pc = "mutate"
    BY <2>1 DEF Holding
  <2> QED
    BY <1>4, <2>1, <2>2
<1>11. \A u \in Turns : turns'[u].writing = turns[u].writing /\ turns'[u].capture = turns[u].capture
                        /\ turns'[u].at = turns[u].at /\ turns'[u].todo = turns[u].todo
  BY <1>2, <1>4
<1>12. Listed'
  <2> SUFFICES ASSUME NEW u \in Turns, ~turns[u].writing
               PROVE  /\ file'[u] = "none" /\ job[u] = "none"
                      /\ \A q \in Procs : io'[q].read[u] = "none"
                      /\ \A v \in Turns : turns[v].at.on # u /\ \A r \in turns[v].todo : r.on # u
    BY <1>0, <1>11 DEF Listed
  <2>1. /\ job[u] = "none" /\ \A q \in Procs : io[q].read[u] = "none"
        /\ \A v \in Turns : turns[v].at.on # u /\ \A r \in turns[v].todo : r.on # u
    BY DEF Listed
  <2> QED
    BY <1>0, <1>2, <1>5, <1>6, <2>1
<1>13. Barring'
  <2> SUFFICES ASSUME NEW u \in withdrawn PROVE job[u] = "none" /\ ~Cleared(u)' /\ Barred(u)'
    BY <1>0 DEF Barring
  <2>1. u \in Turns /\ job[u] = "none" /\ ~Cleared(u) /\ Barred(u)
    BY DEF Barring, TypeOK
  <2>2. h.pc \notin {"submit", "send"}
    BY <1>2, <1>7
  <2>3. ~Cleared(u)'
    BY <1>4, <2>1, <2>2 DEF Cleared
  <2> QED
    BY <1>0, <1>11, <2>1, <2>3 DEF Barred
<1> QED
  BY <1>8, <1>9, <1>10, <1>12, <1>13

LEMMA PrepareKeeps == ASSUME OutboxInv, NEW t \in Turns, Prepare(t) PROVE OutboxInv'
<1> USE DEF OutboxInv
<1> DEFINE now == controls[SessionOf[t]]
<1>0. /\ UNCHANGED <<file, io, last, controls, vetoed, job, crashes, owed>>
      /\ turns \in [Turns -> Handler] /\ turns[t] \in Handler /\ HandlerOK(t)
      /\ turns[t].pc = "next" /\ NoTurn \notin Turns
      /\ now.generation \in 0..MaxSwitches /\ now.write \in BOOLEAN /\ MaxSwitches \in Nat
      /\ prior \in [Turns -> SUBSET Turns] /\ prior' = [prior EXCEPT ![t] = {}]
  <2>1. now \in [write: BOOLEAN, generation: 0..MaxSwitches]
    BY Types
  <2> QED
    BY <2>1, OutboxAssumption DEF Prepare, TypeOK, Handlers
<1>1. /\ ~turns[t].writing /\ turns[t].want = NoMutation /\ turns[t].capture.generation = -1
  BY <1>0 DEF HandlerOK, Early, TypeOK
<1>2. t \notin withdrawn /\ job[t] = "none" /\ ~Cleared(t)
  BY <1>0, <1>1, Unwritten DEF Barring, Barred
<1>3. prior' \in [Turns -> SUBSET Turns]
  BY <1>0
<1>4. ASSUME NEW place \in {"answering", "done"}, NEW capture \in Capture,
             capture = now \/ (place = "done" /\ capture = turns[t].capture),
             turns' = [turns EXCEPT ![t] = [turns[t] EXCEPT !.pc = place, !.capture = capture]],
             withdrawn' = withdrawn \/ (withdrawn' = withdrawn \cup {t} /\ capture = now /\ ~now.write)
      PROVE  OutboxInv'
  <2> DEFINE h == [turns[t] EXCEPT !.pc = place, !.capture = capture]
  <2>1. /\ h \in Handler /\ h.pc = place /\ h.capture = capture /\ h.writing = turns[t].writing
        /\ h.at = turns[t].at /\ h.todo = turns[t].todo /\ h.want = turns[t].want
    BY <1>0 DEF Handler, Place
  <2>2. turns' = [turns EXCEPT ![t] = h]
    BY <1>4
  <2> HIDE DEF h
  <2>3. /\ turns' \in [Turns -> Handler] /\ turns'[t] = h
        /\ \A u \in Turns \ {t} : turns'[u] = turns[u]
    BY <1>0, <2>1, <2>2
  <2>4. TypeOK'
    <3>1. withdrawn' \subseteq Turns
      BY <1>4 DEF TypeOK
    <3> QED
      BY <1>0, <1>1, <1>3, <1>4, <2>1, <2>3, <3>1 DEF TypeOK
  <2>5. Handlers'
    <3>1. HandlerOK(t)'
      <4>1. h.want.op = "none" /\ h.want.then = "done" /\ ~Early(h) /\ ~h.writing
        BY <1>1, <1>4, <2>1 DEF NoMutation, Early
      <4>2. /\ capture.generation <= now.generation
            /\ capture.generation = now.generation => capture.write = now.write
            /\ place = "answering" => capture.generation # -1
        BY <1>0, <1>1, <1>4
      <4> QED
        BY <1>0, <1>4, <2>1, <2>3, <4>1, <4>2 DEF HandlerOK
    <3>2. ASSUME NEW u \in Turns \ {t} PROVE HandlerOK(u)'
      BY <1>0, <2>3, <3>2 DEF Handlers, HandlerOK, Early
    <3> QED
      BY <3>1, <3>2 DEF Handlers
  <2>6. Holding'
    <3>1. \A p \in Procs : io[p].by # t
      BY <1>0 DEF Holding
    <3>2. \A p \in Procs : io[p].by \in Turns \cup {NoTurn}
      BY DEF TypeOK
    <3> QED
      BY <1>0, <2>3, <3>1, <3>2 DEF Holding
  <2>7. \A u \in Turns : turns'[u].writing = turns[u].writing
                         /\ turns'[u].at = turns[u].at /\ turns'[u].todo = turns[u].todo
    BY <2>1, <2>3
  <2>8. Listed'
    BY <1>0, <2>7 DEF Listed
  <2>9. Barring'
    <3> SUFFICES ASSUME NEW u \in withdrawn' PROVE job[u] = "none" /\ ~Cleared(u)' /\ Barred(u)'
      BY <1>0 DEF Barring
    <3>1. u \in Turns /\ job[u] = "none" /\ ~Cleared(u)
      BY <1>2, <1>4 DEF Barring, TypeOK
    <3>2. ~Cleared(u)'
      BY <1>4, <2>1, <2>3, <3>1 DEF Cleared
    <3>3. CASE u \in withdrawn
      <4>1. u # t /\ Barred(u)
        BY <1>2, <3>3 DEF Barring
      <4> QED
        BY <1>0, <2>3, <3>1, <3>2, <4>1 DEF Barred
    <3>4. CASE u = t /\ capture = now /\ ~now.write
      BY <1>0, <2>1, <2>3, <3>1, <3>2, <3>4 DEF Barred
    <3> QED
      BY <1>4, <3>3, <3>4
  <2> QED
    BY <2>4, <2>5, <2>6, <2>8, <2>9
<1>5. now \in Capture /\ turns[t].capture \in Capture
  <2>1. now \in [write: BOOLEAN, generation: 0..MaxSwitches]
    BY Types
  <2> QED
    BY <1>0, <2>1 DEF Capture, Handler
<1>6. CASE /\ turns' = [turns EXCEPT ![t].pc = "answering", ![t].capture = now]
           /\ withdrawn' = IF now.write THEN withdrawn ELSE withdrawn \cup {t}
  <2>1. turns' = [turns EXCEPT ![t] = [turns[t] EXCEPT !.pc = "answering", !.capture = now]]
    BY <1>0, <1>6
  <2> HIDE DEF now
  <2> QED
    BY <1>4, <1>5, <1>6, <2>1
<1>7. CASE Goes(t, "done") /\ UNCHANGED withdrawn
  <2>1. turns' = [turns EXCEPT ![t] = [turns[t] EXCEPT !.pc = "done", !.capture = turns[t].capture]]
    BY <1>0, <1>7 DEF Goes, Handler
  <2> QED
    BY <1>4, <1>5, <1>7, <2>1
<1> QED
  BY <1>6, <1>7 DEF Prepare

LEMMA FreshHandler ==
    /\ NewHandler \in Handler /\ NewHandler.at = NoSnapshot /\ NewHandler.todo = {}
    /\ NewHandler.want = NoMutation
<1>1. [write |-> FALSE, generation |-> -1] \in Capture
  BY OutboxAssumption DEF Capture
<1> QED
  BY <1>1 DEF NewHandler, Handler, Place

LEMMA CrashKeeps == ASSUME OutboxInv, NEW p \in Procs, Crash(p) PROVE OutboxInv'
<1> USE DEF OutboxInv
<1> DEFINE hit == {t \in Turns : ProcOf[t] = p /\ turns[t].pc \notin {"new", "done"}}
           over(t) == [NewHandler EXCEPT !.pc = "done", !.writing = turns[t].writing,
                                         !.capture = turns[t].capture]
<1>0. /\ UNCHANGED <<file, controls, vetoed, job, owed, withdrawn>>
      /\ turns' = [t \in Turns |-> IF t \in hit THEN over(t) ELSE turns[t]]
      /\ io' = [io EXCEPT ![p] = Free]
      /\ last' = [last EXCEPT ![p] = [project \in Projects |-> NoTurn]]
      /\ prior' = [t \in Turns |-> IF t \in hit THEN {} ELSE prior[t]]
      /\ crashes < MaxCrashes /\ crashes' = crashes + 1
  BY DEF Crash
<1>1. ASSUME NEW t \in Turns
      PROVE  /\ over(t) \in Handler /\ over(t).pc = "done" /\ over(t).writing = turns[t].writing
             /\ over(t).capture = turns[t].capture /\ over(t).at = NoSnapshot
             /\ over(t).todo = {} /\ over(t).want = NoMutation
  <2>1. turns[t].writing \in BOOLEAN /\ turns[t].capture \in Capture
    BY DEF TypeOK, Handler
  <2>2. /\ NewHandler \in Handler /\ NewHandler.at = NoSnapshot /\ NewHandler.todo = {}
        /\ NewHandler.want = NoMutation
    BY FreshHandler
  <2> QED
    BY <2>1, <2>2 DEF Handler, Place
<1> HIDE DEF over
<1>2. ASSUME NEW t \in Turns PROVE turns'[t] = over(t) \/ turns'[t] = turns[t]
  BY <1>0
<1>3. turns' \in [Turns -> Handler]
  <2>1. \A t \in Turns : turns[t] \in Handler
    BY DEF TypeOK
  <2> QED
    BY <1>0, <1>1, <2>1
<1>4. TypeOK'
  <2>1. io' \in [Procs -> [by: Turns \cup {NoTurn}, read: [Turns -> Record]]]
    BY <1>0 DEF TypeOK, Free, Empty, Record
  <2>2. last' \in [Procs -> [Projects -> Turns \cup {NoTurn}]]
    BY <1>0 DEF TypeOK
  <2>3. prior' \in [Turns -> SUBSET Turns]
    BY <1>0 DEF TypeOK
  <2>4. crashes' \in 0..MaxCrashes
    BY <1>0, OutboxAssumption DEF TypeOK
  <2>5. \A t \in Turns : turns'[t].pc = "mutate" <=> turns'[t].want # NoMutation
    <3> SUFFICES ASSUME NEW t \in Turns
                 PROVE  turns'[t].pc = "mutate" <=> turns'[t].want # NoMutation
      OBVIOUS
    <3>1. over(t).pc = "done" /\ over(t).want = NoMutation
      BY <1>1
    <3> QED
      BY <1>2, <3>1 DEF TypeOK
  <2> QED
    BY <1>0, <1>3, <2>1, <2>2, <2>3, <2>4, <2>5 DEF TypeOK
<1>5. Handlers'
  <2> SUFFICES ASSUME NEW t \in Turns PROVE HandlerOK(t)'
    BY DEF Handlers
  <2>1. HandlerOK(t)
    BY DEF Handlers
  <2>2. CASE turns'[t] = turns[t]
    BY <1>0, <2>1, <2>2 DEF HandlerOK, Early
  <2>3. CASE turns'[t] = over(t)
    <3>1. NoMutation.op = "none" /\ NoMutation.then = "done"
      BY DEF NoMutation
    <3> QED
      BY <1>0, <1>1, <2>1, <2>3, <3>1 DEF HandlerOK, Early
  <2> QED
    BY <1>2, <2>2, <2>3
<1>6. Holding'
  <2> SUFFICES ASSUME NEW q \in Procs, io'[q].by # NoTurn
               PROVE  ProcOf[io'[q].by] = q /\ turns'[io'[q].by].pc = "mutate"
    BY DEF Holding
  <2>1. q # p /\ io'[q] = io[q] /\ io[q].by \in Turns
    BY <1>0 DEF TypeOK, Free
  <2>2. ProcOf[io[q].by] = q /\ turns[io[q].by].pc = "mutate"
    BY <2>1 DEF Holding
  <2>3. io[q].by \notin hit
    BY <2>1, <2>2
  <2> QED
    BY <1>0, <2>1, <2>2, <2>3
<1>7. ASSUME NEW t \in Turns
      PROVE  /\ turns'[t].writing = turns[t].writing /\ turns'[t].capture = turns[t].capture
             /\ turns'[t].at = turns[t].at \/ turns'[t].at = NoSnapshot
             /\ turns'[t].todo \subseteq turns[t].todo
             /\ \/ turns'[t].pc = turns[t].pc /\ turns'[t].at = turns[t].at
                \/ turns'[t].pc = "done"
  BY <1>1, <1>2
<1>8. Listed'
  <2> SUFFICES ASSUME NEW u \in Turns, ~turns'[u].writing
               PROVE  /\ file[u] = "none" /\ job[u] = "none"
                      /\ \A q \in Procs : io'[q].read[u] = "none"
                      /\ \A v \in Turns : /\ turns'[v].at.on # u
                                          /\ \A r \in turns'[v].todo : r.on # u
    BY <1>0 DEF Listed
  <2>1. /\ file[u] = "none" /\ job[u] = "none" /\ \A q \in Procs : io[q].read[u] = "none"
        /\ \A v \in Turns : turns[v].at.on # u /\ \A r \in turns[v].todo : r.on # u
    BY <1>7 DEF Listed
  <2>2. ASSUME NEW q \in Procs PROVE io'[q].read[u] = "none"
    <3>1. io'[q] = io[q] \/ io'[q] = Free
      BY <1>0 DEF TypeOK
    <3>2. Free.read[u] = "none"
      BY DEF Free, Empty
    <3> QED
      BY <2>1, <3>1, <3>2
  <2>3. ASSUME NEW v \in Turns
        PROVE  turns'[v].at.on # u /\ \A r \in turns'[v].todo : r.on # u
    <3>1. NoSnapshot.on # u
      BY OutboxAssumption DEF NoSnapshot
    <3> QED
      BY <1>7, <2>1, <3>1
  <2> QED
    BY <2>1, <2>2, <2>3
<1>9. Barring'
  <2> SUFFICES ASSUME NEW u \in withdrawn PROVE job[u] = "none" /\ ~Cleared(u)' /\ Barred(u)'
    BY <1>0 DEF Barring
  <2>1. u \in Turns /\ job[u] = "none" /\ ~Cleared(u) /\ Barred(u)
    BY DEF Barring, TypeOK
  <2>2. ~Cleared(u)'
    BY <1>7, <2>1 DEF Cleared
  <2>3. Barred(u)'
    BY <1>0, <1>7, <2>1 DEF Barred
  <2> QED
    BY <2>1, <2>2, <2>3
<1> QED
  BY <1>4, <1>5, <1>6, <1>8, <1>9

-----------------------------------------------------------------------------
LEMMA OutboxInit == Init => OutboxInv
<1> SUFFICES ASSUME Init PROVE OutboxInv
  OBVIOUS
<1>1. NewHandler \in Handler /\ Free \in [by: Turns \cup {NoTurn}, read: [Turns -> Record]]
  BY FreshHandler DEF Free, Empty, Record
<1>2. turns \in [Turns -> Handler] /\ io \in [Procs -> [by: Turns \cup {NoTurn}, read: [Turns -> Record]]]
  BY <1>1 DEF Init
<1>3. TypeOK
  <2>1. \A t \in Turns : turns[t].pc = "new" /\ turns[t].want = NoMutation
    BY DEF Init, NewHandler
  <2>2. controls \in [Sessions -> [write: BOOLEAN, generation: 0..MaxSwitches]]
    BY OutboxAssumption DEF Init
  <2>3. /\ file \in [Turns -> Record] /\ last \in [Procs -> [Projects -> Turns \cup {NoTurn}]]
        /\ job \in [Turns -> Job] /\ crashes \in 0..MaxCrashes /\ prior \in [Turns -> SUBSET Turns]
    BY OutboxAssumption DEF Init, Empty, Record, Job
  <2> QED
    BY <1>2, <2>1, <2>2, <2>3 DEF Init, TypeOK
<1>4. Handlers
  <2> SUFFICES ASSUME NEW t \in Turns PROVE HandlerOK(t)
    BY DEF Handlers
  <2>1. /\ turns[t].pc = "new" /\ turns[t].want = NoMutation /\ turns[t].writing = FALSE
        /\ turns[t].capture.generation = -1
    BY DEF Init, NewHandler
  <2>2. controls[SessionOf[t]].generation = 0
    BY OutboxAssumption DEF Init
  <2> QED
    BY <2>1, <2>2 DEF HandlerOK, Early, NoMutation
<1>5. Holding
  BY DEF Init, Holding, Free
<1>6. Listed
  BY OutboxAssumption DEF Init, Listed, NewHandler, Free, Empty, NoSnapshot
<1> QED
  BY <1>3, <1>4, <1>5, <1>6 DEF OutboxInv, Barring, Init

LEMMA OutboxStep == ASSUME OutboxInv, [Next]_vars PROVE OutboxInv'
<1>1. ASSUME NEW t \in Turns, Advance(t) PROVE OutboxInv'
  BY <1>1, PreparingKeeps, TakeKeeps, SendPollKeep, PrepareKeeps, WritebackKeeps, ReadKeeps,
     WriteKeeps DEF Advance
<1>2. ASSUME NEW t \in Turns, PreStep(t) \/ Veto(t) \/ TurnEnds(t) \/ JobEnds(t) PROVE OutboxInv'
  BY <1>2, PreparingKeeps, VetoKeeps, WritebackKeeps, JobEndsKeeps
<1>3. CASE UNCHANGED vars
  BY <1>3 DEF vars, OutboxInv, TypeOK, Handlers, HandlerOK, Early, Holding, Listed, Barring,
     Barred, Cleared
<1> QED
  BY <1>1, <1>2, <1>3, SetModeKeeps, CrashKeeps DEF Next

LEMMA OutboxAlways == Spec => []OutboxInv
<1>1. OutboxInv /\ [Next]_vars => OutboxInv'
  BY OutboxStep
<1> QED
  BY <1>1, OutboxInit, PTL DEF Spec

(* The handlers, the file and the policies keep their types. *)
THEOREM OutboxTypes == Spec => []TypeOK
<1>1. OutboxInv => TypeOK
  BY DEF OutboxInv
<1> QED
  BY <1>1, OutboxAlways, PTL

(* A turn that lost its permission to be written is never sent, with any   *)
(* number of processes that share the outbox, restarts and mode changes.   *)
THEOREM NeverBackfilled == Spec => []NoBackfill
<1>1. OutboxInv => NoBackfill
  BY DEF OutboxInv, Barring, NoBackfill
<1> QED
  BY <1>1, OutboxAlways, PTL

-----------------------------------------------------------------------------
(* In one process nothing is lost. *)

(* A capture and the end of a turn are for ever. *)
LEMMA HandlersLast ==
    ASSUME OutboxInv, [Next]_vars, NEW u \in Turns
    PROVE  /\ turns[u].writing => turns'[u].writing
           /\ turns[u].capture.generation = -1 \/ turns'[u].capture = turns[u].capture
<1> USE DEF OutboxInv
<1>0. turns \in [Turns -> Handler]
  BY DEF TypeOK
<1>1. ASSUME NEW t \in Turns,
             PreStep(t) \/ Await(t) \/ List(t) \/ Send(t) \/ Poll(t) \/ CommitTurn(t)
             \/ CheckAgain(t) \/ Refused(t) \/ Submit(t) \/ Finish(t) \/ Write(t)
      PROVE  turns'[u].writing = turns[u].writing /\ turns'[u].capture = turns[u].capture
  BY <1>0, <1>1 DEF PreStep, Await, List, Send, Poll, CommitTurn, CheckAgain, Refused, Submit,
     Finish, Write, Goes, Mutates, Leaves, Handler
<1>2. ASSUME NEW t \in Turns, Take(t)
      PROVE  turns'[u].writing = turns[u].writing /\ turns'[u].capture = turns[u].capture
  BY <1>0, <1>2 DEF Take, Handler
<1>3. ASSUME NEW t \in Turns, TurnEnds(t)
      PROVE  /\ turns[u].writing => turns'[u].writing
             /\ turns'[u].capture = turns[u].capture
  BY <1>0, <1>3 DEF TurnEnds, Goes, Handler
<1>4. ASSUME NEW t \in Turns, Prepare(t)
      PROVE  /\ turns[u].writing => turns'[u].writing
             /\ turns[u].capture.generation = -1 \/ turns'[u].capture = turns[u].capture
  <2>1. turns[t].capture.generation = -1
    BY <1>4 DEF Prepare, Handlers, HandlerOK, Early
  <2> QED
    BY <1>0, <1>4, <2>1 DEF Prepare, Goes, Handler
<1>5. ASSUME NEW p \in Procs, Crash(p)
      PROVE  turns'[u].writing = turns[u].writing /\ turns'[u].capture = turns[u].capture
  <2> DEFINE over == [NewHandler EXCEPT !.pc = "done", !.writing = turns[u].writing,
                                        !.capture = turns[u].capture]
  <2>1. turns'[u] = turns[u] \/ turns'[u] = over
    BY <1>5 DEF Crash
  <2>2. over.writing = turns[u].writing /\ over.capture = turns[u].capture
    BY FreshHandler DEF Handler
  <2> HIDE DEF over
  <2> QED
    BY <2>1, <2>2
<1>6. CASE UNCHANGED turns
  BY <1>6
<1>7. \/ UNCHANGED turns \/ \E p \in Procs : Crash(p)
      \/ \E t \in Turns :
           \/ PreStep(t) \/ Await(t) \/ List(t) \/ Send(t) \/ Poll(t) \/ CommitTurn(t)
           \/ CheckAgain(t) \/ Refused(t) \/ Submit(t) \/ Finish(t) \/ Write(t)
           \/ Take(t) \/ TurnEnds(t) \/ Prepare(t)
  BY DEF Next, Advance, vars, Read, Veto, JobEnds, SetMode
<1> QED
  BY <1>1, <1>2, <1>3, <1>4, <1>5, <1>6, <1>7

LEMMA JobsLast ==
    ASSUME OutboxInv, [Next]_vars, NEW u \in Turns, job[u] = "succeeded"
    PROVE  job'[u] = "succeeded"
<1>0. job \in [Turns -> Job]
  BY DEF OutboxInv, TypeOK
<1>1. \/ UNCHANGED job
      \/ \E v : job' = Submitted(v)
      \/ \E t \in Turns : JobEnds(t)
  BY DEF Next, Advance, vars, PreStep, Await, List, Take, Send, Poll, Prepare, CommitTurn,
     CheckAgain, Refused, Submit, Finish, Read, Write, Veto, TurnEnds, SetMode, Crash
<1> QED
  BY <1>0, <1>1 DEF Submitted, JobEnds

LEMMA PoliciesLast ==
    ASSUME OutboxInv, [Next]_vars
    PROVE  /\ vetoed \subseteq vetoed'
           /\ \A s \in Sessions : controls[s].generation <= controls'[s].generation
<1>0. /\ controls \in [Sessions -> [write: BOOLEAN, generation: 0..MaxSwitches]]
      /\ \A s \in Sessions : controls[s].generation \in Nat
  BY OutboxAssumption DEF OutboxInv, TypeOK
<1>1. CASE UNCHANGED <<controls, vetoed>>
  BY <1>0, <1>1
<1>2. ASSUME NEW t \in Turns, Veto(t) PROVE vetoed \subseteq vetoed' /\ UNCHANGED controls
  BY <1>2 DEF Veto
<1>3. ASSUME NEW s \in Sessions, SetMode(s)
      PROVE  /\ UNCHANGED vetoed
             /\ \A q \in Sessions : controls[q].generation <= controls'[q].generation
  <2> DEFINE n == [write |-> ~controls[s].write, generation |-> controls[s].generation + 1]
  <2>1. controls' = [controls EXCEPT ![s] = n] /\ UNCHANGED vetoed
    BY <1>3 DEF SetMode
  <2>2. n.generation = controls[s].generation + 1
    OBVIOUS
  <2> HIDE DEF n
  <2> QED
    BY <1>0, <2>1, <2>2
<1>4. \/ UNCHANGED <<controls, vetoed>>
      \/ \E t \in Turns : Veto(t)
      \/ \E s \in Sessions : SetMode(s)
  <2>1. ASSUME NEW t \in Turns, Advance(t) PROVE UNCHANGED <<controls, vetoed>>
    BY <2>1, Zenon DEF Advance, Await, List, Take, Send, Poll, Prepare, CommitTurn, CheckAgain,
       Refused, Submit, Finish, Read, Write
  <2>2. ASSUME NEW t \in Turns, PreStep(t) \/ TurnEnds(t) \/ JobEnds(t)
        PROVE  UNCHANGED <<controls, vetoed>>
    BY <2>2, Zenon DEF PreStep, TurnEnds, JobEnds
  <2>3. ASSUME NEW q \in Procs, Crash(q) PROVE UNCHANGED <<controls, vetoed>>
    BY <2>3, Zenon DEF Crash
  <2> QED
    BY <2>1, <2>2, <2>3, Zenon DEF Next, vars
<1> QED
  BY <1>0, <1>1, <1>2, <1>3, <1>4

LEMMA BarsLast ==
    ASSUME OutboxInv, [Next]_vars, NEW u \in Turns, Barred(u) PROVE Barred(u)'
<1>1. turns'[u].capture = turns[u].capture /\ turns[u].capture.generation # -1
  BY HandlersLast DEF Barred
<1>2. /\ turns[u].capture.generation \in Int /\ SessionOf[u] \in Sessions
      /\ controls[SessionOf[u]].generation \in Nat
      /\ controls[SessionOf[u]].generation <= controls'[SessionOf[u]].generation
  BY Types, PoliciesLast DEF OutboxInv
<1>3. controls'[SessionOf[u]].generation \in Nat
  <2>1. SessionOf[u] \in Sessions /\ MaxSwitches \in Nat /\ TypeOK'
    BY <1>2, OutboxStep, OutboxAssumption DEF OutboxInv
  <2> QED
    BY <2>1 DEF TypeOK
<1> QED
  BY <1>1, <1>2, <1>3, PoliciesLast DEF Barred

(* What may be removed from the outbox: it is done with, or may not be     *)
(* sent any more.                                                          *)
Removable(t) == t \in Turns /\ (job[t] = "succeeded" \/ Barred(t))

LEMMA RemovalsJustified ==
    ASSUME OutboxInv, [Next]_vars, NEW u \in Turns, turns'[u].want.op = "remove"
    PROVE  turns'[u].want = turns[u].want \/ Removable(turns'[u].want.on)
<1> USE DEF OutboxInv
<1>0. turns \in [Turns -> Handler] /\ NoMutation.op = "none"
  BY DEF TypeOK, NoMutation
<1>1. ASSUME NEW t \in Turns, Take(t)
      PROVE  turns'[u].want = turns[u].want \/ Removable(turns'[u].want.on)
  <2>1. PICK r \in turns[t].todo : turns' =
          IF r.known \/ MayWrite(r.on)
          THEN [turns EXCEPT ![t].todo = @ \ {r}, ![t].at = r,
                             ![t].pc = IF r.known THEN "poll" ELSE "send"]
          ELSE [turns EXCEPT ![t].todo = @ \ {r}, ![t].pc = "mutate",
                             ![t].want = [op |-> "remove", on |-> r.on, then |-> "next"]]
    BY <1>1 DEF Take
  <2>2. r.on \in Turns
    BY <1>0 DEF Handler, Snapshot
  <2>3. turns'[u].want = turns[u].want \/ (turns'[u].want.on = r.on /\ ~MayWrite(r.on))
    BY <1>0, <2>1 DEF Handler
  <2>4. HandlerOK(r.on) /\ turns[r.on].capture.generation # -1
    <3>1. turns[r.on].writing
      BY <2>2 DEF Listed
    <3>2. HandlerOK(r.on)
      BY <2>2 DEF Handlers
    <3> QED
      BY <3>1, <3>2 DEF HandlerOK
  <2> QED
    BY <2>2, <2>3, <2>4, PolicyDecides DEF Removable
<1>2. ASSUME NEW t \in Turns, Poll(t)
      PROVE  turns'[u].want = turns[u].want \/ Removable(turns'[u].want.on)
  <2>1. turns[t].at.on \in Turns
    BY <1>2 DEF Poll, Handlers, HandlerOK
  <2>2. \/ turns'[u].want = turns[u].want
        \/ turns'[u].want.op = "touch"
        \/ turns'[u].want.on = turns[t].at.on /\ job[turns[t].at.on] = "succeeded"
    BY <1>0, <1>2 DEF Poll, Leaves, Handler
  <2> QED
    BY <2>1, <2>2 DEF Removable
<1>3. ASSUME NEW t \in Turns, CheckAgain(t)
      PROVE  turns'[u].want = turns[u].want \/ Removable(turns'[u].want.on)
  <2>1. turns'[u].want = turns[u].want \/ (turns'[u].want.on = t /\ ~MayWrite(t))
    BY <1>0, <1>3 DEF CheckAgain, Goes, Mutates, Handler
  <2>2. HandlerOK(t) /\ turns[t].capture.generation # -1
    BY <1>3 DEF CheckAgain, Handlers, HandlerOK, Early
  <2> QED
    BY <2>1, <2>2, PolicyDecides DEF Removable
<1>4. ASSUME NEW t \in Turns, Finish(t)
      PROVE  turns'[u].want = turns[u].want \/ Removable(turns'[u].want.on)
  <2>1. turns'[u].want = turns[u].want \/ (turns'[u].want.on = t /\ job[t] = "succeeded")
    BY <1>0, <1>4 DEF Finish, Goes, Mutates, Handler
  <2> QED
    BY <2>1 DEF Removable
<1>5. ASSUME NEW t \in Turns,
             PreStep(t) \/ Await(t) \/ List(t) \/ Prepare(t) \/ TurnEnds(t)
      PROVE  turns'[u].want = turns[u].want
  BY <1>0, <1>5 DEF PreStep, Await, List, Prepare, TurnEnds, Goes, Handler
<1>6. ASSUME NEW t \in Turns, Send(t) \/ CommitTurn(t) \/ Refused(t) \/ Submit(t) \/ Write(t)
      PROVE  turns'[u].want = turns[u].want \/ turns'[u].want.op # "remove"
  BY <1>0, <1>6 DEF Send, CommitTurn, Refused, Submit, Write, Goes, Mutates, Leaves, Handler
<1>7. ASSUME NEW p \in Procs, Crash(p)
      PROVE  turns'[u].want = turns[u].want \/ turns'[u].want.op # "remove"
  <2> DEFINE over == [NewHandler EXCEPT !.pc = "done", !.writing = turns[u].writing,
                                        !.capture = turns[u].capture]
  <2>1. turns'[u] = turns[u] \/ turns'[u] = over
    BY <1>7 DEF Crash
  <2>2. over.want = NoMutation
    BY FreshHandler DEF Handler
  <2> HIDE DEF over
  <2> QED
    BY <1>0, <2>1, <2>2
<1>8. \/ UNCHANGED turns \/ \E p \in Procs : Crash(p)
      \/ \E t \in Turns :
           \/ PreStep(t) \/ Await(t) \/ List(t) \/ Send(t) \/ Poll(t) \/ CommitTurn(t)
           \/ CheckAgain(t) \/ Refused(t) \/ Submit(t) \/ Finish(t) \/ Write(t)
           \/ Take(t) \/ TurnEnds(t) \/ Prepare(t)
  BY DEF Next, Advance, vars, Read, Veto, JobEnds, SetMode
<1> QED
  BY <1>1, <1>2, <1>3, <1>4, <1>5, <1>6, <1>7, <1>8

LEMMA RemovableLasts ==
    ASSUME OutboxInv, [Next]_vars, NEW t, Removable(t) PROVE Removable(t)'
  BY JobsLast, BarsLast DEF Removable

WantsRemovable == \A u \in Turns : turns[u].want.op = "remove" => Removable(turns[u].want.on)

KeptRecords ==
    \A t \in owed : turns[t].writing /\ (file[t] = "none" => Removable(t))

(* In one process nobody writes the file between a read and its write. *)
Fresh == \A p \in Procs : io[p].by # NoTurn => io[p].read = file

KeepsInv == OutboxInv /\ WantsRemovable /\ KeptRecords /\ Fresh

LEMMA KeepsStep ==
    ASSUME NEW p, Procs = {p}, KeepsInv, [Next]_vars PROVE KeepsInv'
<1> USE DEF KeepsInv
<1>0. /\ OutboxInv' /\ owed \subseteq Turns /\ file \in [Turns -> Record]
      /\ io \in [Procs -> [by: Turns \cup {NoTurn}, read: [Turns -> Record]]]
      /\ \A t \in Turns : ProcOf[t] = p /\ t # NoTurn
  BY OutboxStep, OutboxAssumption DEF OutboxInv, TypeOK
<1>1. WantsRemovable'
  <2>1. ASSUME NEW u \in Turns, turns'[u].want.op = "remove"
        PROVE  (Removable(turns[u].want.on))'
    <3>1. PICK t : t = turns'[u].want.on
      OBVIOUS
    <3>2. Removable(t)
      BY <2>1, <3>1, RemovalsJustified DEF WantsRemovable
    <3>3. Removable(t)'
      BY <3>2, RemovableLasts
    <3> QED
      BY <3>1, <3>3 DEF Removable
  <2> QED
    BY <2>1 DEF WantsRemovable
<1>2. ASSUME NEW t \in Turns, Write(t) PROVE KeptRecords' /\ Fresh'
  <2> DEFINE m == turns[t].want
  <2>1. /\ io[p].by = t /\ io' = [io EXCEPT ![p] = Free]
        /\ file' = Applied(m, io[p].read)
        /\ owed' = IF m.op = "enqueue" THEN owed \cup {t} ELSE owed
    BY <1>0, <1>2 DEF Write
  <2>2. io[p].read = file /\ turns[t].pc = "mutate" /\ m \in Mutation
    <3>1. io[p].read = file /\ turns[t].pc = "mutate"
      BY <1>0, <2>1 DEF Fresh, OutboxInv, Holding
    <3>2. m # NoMutation /\ m \in Mutation \cup {NoMutation}
      BY <3>1 DEF OutboxInv, TypeOK, Handler
    <3> QED
      BY <3>1, <3>2
  <2>3. Fresh'
    BY <1>0, <2>1 DEF Fresh, Free
  <2>4. ASSUME NEW u \in owed' PROVE turns'[u].writing /\ (file'[u] = "none" => Removable(u)')
    <3>1. CASE u \in owed
      <4>1. u \in Turns /\ turns[u].writing
        BY <1>0, <3>1 DEF KeptRecords
      <4>2. ASSUME file'[u] = "none" PROVE Removable(u)
        <5>1. CASE file[u] = "none"
          BY <3>1, <5>1 DEF KeptRecords
        <5>2. CASE file[u] # "none"
          <6>1. m.op = "remove" /\ u = m.on
            BY <1>0, <2>1, <2>2, <4>1, <4>2, <5>2, Rewritten
          <6> QED
            BY <6>1 DEF WantsRemovable
        <5> QED
          BY <5>1, <5>2
      <4> QED
        BY <4>1, <4>2, HandlersLast, RemovableLasts
    <3>2. CASE u \notin owed
      <4>1. u = t /\ m.op = "enqueue"
        BY <2>1, <2>4, <3>2
      <4>2. m.on = t /\ turns[t].writing
        BY <4>1 DEF OutboxInv, Handlers, HandlerOK
      <4>3. file'[u] # "none"
        BY <1>0, <2>1, <2>2, <4>1, <4>2, Rewritten
      <4> QED
        BY <4>1, <4>2, <4>3, HandlersLast
    <3> QED
      BY <3>1, <3>2
  <2> QED
    BY <2>3, <2>4 DEF KeptRecords
<1>3. ASSUME UNCHANGED <<file, owed>> PROVE KeptRecords'
  <2>0. file' = file /\ owed' = owed
    BY <1>3
  <2> SUFFICES ASSUME NEW u \in owed
               PROVE  turns'[u].writing /\ (file'[u] = "none" => Removable(u)')
    BY <2>0, Zenon DEF KeptRecords
  <2>1. u \in Turns /\ turns[u].writing /\ (file[u] = "none" => Removable(u))
    BY <1>0 DEF KeptRecords
  <2> QED
    BY <2>0, <2>1, HandlersLast, RemovableLasts
<1>4. ASSUME UNCHANGED <<file, io>> PROVE Fresh'
  <2>1. file' = file /\ io' = io
    BY <1>4
  <2> QED
    BY <2>1, Zenon DEF Fresh
<1>5. ASSUME NEW t \in Turns, Read(t) PROVE Fresh'
  BY <1>0, <1>5 DEF Read, Fresh
<1>6. ASSUME NEW q \in Procs, Crash(q) PROVE Fresh'
  BY <1>0, <1>6 DEF Crash, Fresh, Free
<1>7. \/ \E t \in Turns : Write(t)
      \/ /\ UNCHANGED <<file, owed>>
         /\ UNCHANGED <<file, io>> \/ (\E t \in Turns : Read(t)) \/ (\E q \in Procs : Crash(q))
  <2>1. ASSUME NEW t \in Turns, Advance(t)
        PROVE  Write(t) \/ (UNCHANGED <<file, owed>> /\ (UNCHANGED <<file, io>> \/ Read(t)))
    BY <2>1, Zenon DEF Advance, Await, List, Take, Send, Poll, Prepare, CommitTurn, CheckAgain,
       Refused, Submit, Finish, Read
  <2>2. ASSUME NEW t \in Turns, PreStep(t) \/ Veto(t) \/ TurnEnds(t) \/ JobEnds(t)
        PROVE  UNCHANGED <<file, owed>> /\ UNCHANGED <<file, io>>
    BY <2>2, Zenon DEF PreStep, Veto, TurnEnds, JobEnds
  <2>3. ASSUME NEW s \in Sessions, SetMode(s)
        PROVE  UNCHANGED <<file, owed>> /\ UNCHANGED <<file, io>>
    BY <2>3, Zenon DEF SetMode
  <2>4. ASSUME NEW q \in Procs, Crash(q) PROVE UNCHANGED <<file, owed>>
    BY <2>4, Zenon DEF Crash
  <2> QED
    BY <2>1, <2>2, <2>3, <2>4, Zenon DEF Next, vars
<1> QED
  BY <1>0, <1>1, <1>2, <1>3, <1>4, <1>5, <1>6, <1>7

(* With one process that uses the outbox, a turn that was put into it is   *)
(* found in it until its ingest has succeeded or its permission is gone,   *)
(* whatever crashes, fails or is written at the same time.                 *)
THEOREM OutboxKeepsAll == ASSUME NEW p, Procs = {p} PROVE Spec => []NothingLost
<1>1. Init => KeepsInv
  <2> SUFFICES ASSUME Init PROVE KeepsInv
    OBVIOUS
  <2>1. \A u \in Turns : turns[u].want.op = "none"
    BY DEF Init, NewHandler, NoMutation
  <2>2. \A q \in Procs : io[q].by = NoTurn
    BY DEF Init, Free
  <2> QED
    BY <2>1, <2>2, OutboxInit DEF KeepsInv, WantsRemovable, KeptRecords, Fresh, Init
<1>2. KeepsInv /\ [Next]_vars => KeepsInv'
  BY KeepsStep
<1>3. KeepsInv => NothingLost
  <2> SUFFICES ASSUME KeepsInv, NEW t \in owed, file[t] = "none"
               PROVE  job[t] = "succeeded" \/ ~MayWrite(t)
    BY DEF NothingLost
  <2>1. t \in Turns /\ TypeOK /\ HandlerOK(t)
    BY DEF KeepsInv, OutboxInv, TypeOK, Handlers
  <2> QED
    BY <2>1, PolicyDecides DEF KeepsInv, KeptRecords, Removable
<1> QED
  BY <1>1, <1>2, <1>3, PTL DEF Spec

-----------------------------------------------------------------------------
(* The chain of writebacks.  A prompt awaits only the writeback that was   *)
(* the last of its project when its configuration was resolved; that the   *)
(* earlier ones are over by then needs the order in which turns ended: B[t]*)
(* is the set of writebacks under way when t entered its own.              *)

Over(u) == turns[u].pc = "done"

Behind(B, a) == IF a = NoTurn THEN {} ELSE B[a] \cup {a}

(* Whoever awaits a has nothing more to await of S. *)
Covers(B, a, S) == \A u \in S : Over(u) \/ u \in Behind(B, a)

BeganBefore(B) == \A t \in Turns : \A u \in B[t] : ProcOf[u] = ProcOf[t] /\ turns[u].writing

LastCovers(B) == \A p \in Procs, j \in Projects :
    /\ last[p][j] # NoTurn => turns[last[p][j]].writing /\ ProcOf[last[p][j]] = p
    /\ InWriteback(p, j) \subseteq Behind(B, last[p][j])

AwaitsWriter == \A t \in Turns : turns[t].after # NoTurn =>
    turns[turns[t].after].writing /\ ProcOf[turns[t].after] = ProcOf[t]

(* A writeback that is past its place in the chain has all before it over. *)
InOrder(B) == \A t \in Turns : turns[t].writing =>
    Covers(B, IF turns[t].pc = "chained" THEN turns[t].after ELSE NoTurn, B[t])

PriorOK == \A t \in Turns : \A u \in prior[t] :
    ProcOf[u] = ProcOf[t] /\ ProjectOf[u] = ProjectOf[t] /\ turns[u].writing

PromptWaits(B) == \A t \in Turns :
    ~turns[t].writing /\ turns[t].pc \notin {"new", "opening", "done"} =>
        Covers(B, IF turns[t].pc = "awaiting" THEN turns[t].after ELSE NoTurn, prior[t])

Ordered(B) == BeganBefore(B) /\ LastCovers(B) /\ AwaitsWriter /\ InOrder(B) /\ PriorOK /\ PromptWaits(B)

Orders == [Turns -> SUBSET Turns]

Chain == \E B \in Orders : Ordered(B)

(* When the writeback that is awaited is over, so are all it covers. *)
LEMMA SettledCovers ==
    ASSUME OutboxInv, NEW B \in Orders, Ordered(B), NEW t \in Turns, Settled(turns[t].after)
    PROVE  \A u \in Behind(B, turns[t].after) : Over(u)
<1> DEFINE a == turns[t].after
<1>1. a \in Turns \cup {NoTurn}
  BY DEF OutboxInv, TypeOK, Handler
<1>2. CASE a = NoTurn
  BY <1>2 DEF Behind
<1>3. CASE a # NoTurn
  <2>1. a \in Turns /\ turns[a].pc = "done" /\ turns[a].writing
    BY <1>1, <1>3 DEF Settled, Ordered, AwaitsWriter
  <2> HIDE DEF a
  <2>2. \A u \in B[a] : Over(u)
    BY <2>1 DEF Ordered, InOrder, Covers, Behind
  <2> QED
    BY <2>1, <2>2 DEF Behind, Over, a
<1> QED
  BY <1>2, <1>3

(* The step of a handler that enters no chain and leaves one only when the *)
(* writeback before it is over.                                            *)
LEMMA OneMoves ==
    ASSUME OutboxInv, NEW B \in Orders, Ordered(B), NEW t \in Turns, NEW h \in Handler,
           turns' = [turns EXCEPT ![t] = h], UNCHANGED last,
           UNCHANGED prior \/ prior' = [prior EXCEPT ![t] = {}],
           h.writing = turns[t].writing, h.after = turns[t].after \/ h.after = NoTurn,
           turns[t].pc = "done" => h.pc = "done",
           h.pc \notin {"new", "opening", "awaiting", "chained"},
           turns[t].pc \in {"awaiting", "chained"} => Settled(turns[t].after),
           turns[t].pc \in {"new", "opening"} => h.pc = "done"
    PROVE  Ordered(B)'
<1> USE DEF OutboxInv, Ordered
<1>1. /\ turns'[t] = h /\ \A u \in Turns \ {t} : turns'[u] = turns[u]
      /\ prior \in [Turns -> SUBSET Turns] /\ HandlerOK(t)
  BY DEF TypeOK, Handlers
<1>2. \A u \in Turns : /\ turns'[u].writing = turns[u].writing /\ Over(u) => Over(u)'
                       /\ turns'[u].after = turns[u].after \/ turns'[u].after = NoTurn
                       /\ prior'[u] = prior[u] \/ prior'[u] = {}
  BY <1>1 DEF Over
<1>3. /\ \A u \in Turns : B[u] \subseteq Turns /\ turns[u].after \in Turns \cup {NoTurn}
      /\ \A p \in Procs, j \in Projects : last[p][j] \in Turns \cup {NoTurn}
  BY DEF Orders, TypeOK, Handler
<1>4. BeganBefore(B)'
  BY <1>2, <1>3 DEF BeganBefore
<1>5. LastCovers(B)'
  <2> SUFFICES ASSUME NEW p \in Procs, NEW j \in Projects
               PROVE  /\ last[p][j] # NoTurn => turns'[last[p][j]].writing /\ ProcOf[last[p][j]] = p
                      /\ InWriteback(p, j)' \subseteq Behind(B, last[p][j])
    BY DEF LastCovers, Behind
  <2>1. InWriteback(p, j)' \subseteq InWriteback(p, j)
    BY <1>2 DEF InWriteback, Over
  <2> QED
    BY <1>2, <1>3, <2>1 DEF LastCovers
<1>6. AwaitsWriter'
  BY <1>2, <1>3 DEF AwaitsWriter
<1>7. PriorOK'
  BY <1>1, <1>2 DEF PriorOK
<1>8. turns[t].pc \in {"awaiting", "chained"} => \A u \in Behind(B, turns[t].after) : Over(u)
  BY SettledCovers
<1>9. InOrder(B)'
  <2> SUFFICES ASSUME NEW v \in Turns, turns'[v].writing, NEW u \in B[v]
               PROVE  Over(u)' \/ u \in Behind(B, IF turns'[v].pc = "chained" THEN turns'[v].after ELSE NoTurn)
    BY DEF InOrder, Covers, Behind
  <2>1. u \in Turns /\ turns[v].writing
    BY <1>2, <1>3
  <2>2. Over(u) \/ u \in Behind(B, IF turns[v].pc = "chained" THEN turns[v].after ELSE NoTurn)
    BY <2>1 DEF InOrder, Covers
  <2>3. CASE v = t
    <3>1. Over(u)
      BY <1>8, <2>2, <2>3 DEF Behind
    <3> QED
      BY <1>2, <2>1, <3>1
  <2>4. CASE v # t
    BY <1>1, <1>2, <2>1, <2>2, <2>4
  <2> QED
    BY <2>3, <2>4
<1>10. PromptWaits(B)'
  <2> SUFFICES ASSUME NEW v \in Turns, ~turns'[v].writing, turns'[v].pc \notin {"new", "opening", "done"},
                      NEW u \in prior'[v]
               PROVE  Over(u)' \/ u \in Behind(B, IF turns'[v].pc = "awaiting" THEN turns'[v].after ELSE NoTurn)
    BY DEF PromptWaits, Covers, Behind
  <2>1. u \in Turns /\ u \in prior[v] /\ ~turns[v].writing
    BY <1>1, <1>2
  <2>2. turns[v].pc \notin {"new", "opening", "done"}
    BY <1>1
  <2>3. Over(u) \/ u \in Behind(B, IF turns[v].pc = "awaiting" THEN turns[v].after ELSE NoTurn)
    BY <2>1, <2>2 DEF PromptWaits, Covers
  <2>4. CASE v = t
    <3>1. Over(u)
      BY <1>8, <2>3, <2>4 DEF Behind
    <3> QED
      BY <1>2, <2>1, <3>1
  <2>5. CASE v # t
    BY <1>1, <1>2, <2>1, <2>3, <2>5
  <2> QED
    BY <2>4, <2>5
<1> QED
  BY <1>4, <1>5, <1>6, <1>7, <1>9, <1>10

(* A prompt notes the writebacks under way, then awaits the last of them,  *)
(* which covers the others.                                                *)
LEMMA PromptArrives ==
    ASSUME OutboxInv, NEW B \in Orders, Ordered(B), NEW t \in Turns, PreStep(t) \/ Await(t)
    PROVE  Ordered(B)'
<1> USE DEF OutboxInv, Ordered
<1>1. /\ turns \in [Turns -> Handler] /\ prior \in [Turns -> SUBSET Turns] /\ HandlerOK(t)
      /\ ProcOf[t] \in Procs /\ ProjectOf[t] \in Projects
      /\ turns[t] \in Handler
  BY OutboxAssumption DEF TypeOK, Handlers
<1>2. PICK h \in Handler :
          /\ turns' = [turns EXCEPT ![t] = h] /\ UNCHANGED last
          /\ h.writing = turns[t].writing /\ ~h.writing
          /\ h.pc \in {"opening", "awaiting", "done"} /\ turns[t].pc \in {"new", "opening"}
          /\ \/ h.pc # "awaiting" /\ h.after = turns[t].after
             \/ /\ h.pc = "awaiting" /\ turns[t].pc = "opening" /\ UNCHANGED prior
                /\ h.after = last[ProcOf[t]][ProjectOf[t]]
          /\ UNCHANGED prior \/ prior' = [prior EXCEPT ![t] = InWriteback(ProcOf[t], ProjectOf[t])]
  <2>1. ~turns[t].writing
    BY <1>1 DEF PreStep, Await, HandlerOK, Early
  <2>2. CASE PreStep(t) \/ (Await(t) /\ Goes(t, "done"))
    <3> DEFINE place == IF turns[t].pc = "new" THEN "opening" ELSE "done"
               h == [turns[t] EXCEPT !.pc = place]
    <3>1. turns' = [turns EXCEPT ![t] = h] /\ UNCHANGED last
      BY <2>2 DEF PreStep, Await, Goes
    <3>2. h \in Handler /\ h.pc = place /\ h.writing = turns[t].writing /\ h.after = turns[t].after
      BY <1>1 DEF Handler, Place
    <3>3. UNCHANGED prior \/ prior' = [prior EXCEPT ![t] = InWriteback(ProcOf[t], ProjectOf[t])]
      BY <2>2 DEF PreStep, Await
    <3>4. turns[t].pc \in {"new", "opening"}
      BY <2>2 DEF PreStep, Await
    <3> HIDE DEF h
    <3> QED
      BY <2>1, <3>1, <3>2, <3>3, <3>4
  <2>3. CASE Await(t) /\ ~Goes(t, "done")
    <3> DEFINE h == [turns[t] EXCEPT !.pc = "awaiting", !.after = last[ProcOf[t]][ProjectOf[t]]]
    <3>1. turns' = [turns EXCEPT ![t] = h] /\ UNCHANGED last /\ UNCHANGED prior /\ turns[t].pc = "opening"
      BY <2>3 DEF Await
    <3>2. last[ProcOf[t]][ProjectOf[t]] \in Turns \cup {NoTurn}
      BY <1>1 DEF TypeOK
    <3>3. /\ h \in Handler /\ h.pc = "awaiting" /\ h.writing = turns[t].writing
          /\ h.after = last[ProcOf[t]][ProjectOf[t]]
      BY <1>1, <3>2 DEF Handler, Place
    <3> HIDE DEF h
    <3> QED
      BY <2>1, <3>1, <3>3
  <2> QED
    BY <2>2, <2>3
<1>3. turns'[t] = h /\ \A u \in Turns \ {t} : turns'[u] = turns[u]
  BY <1>1, <1>2
<1>4. \A u \in Turns : turns'[u].writing = turns[u].writing /\ (Over(u) => Over(u)')
  BY <1>2, <1>3 DEF Over
<1>5. /\ \A u \in Turns : B[u] \subseteq Turns /\ turns[u].after \in Turns \cup {NoTurn}
      /\ \A p \in Procs, j \in Projects : last[p][j] \in Turns \cup {NoTurn}
  BY DEF Orders, TypeOK, Handler
<1>6. BeganBefore(B)'
  BY <1>4, <1>5 DEF BeganBefore
<1>7. \A p \in Procs, j \in Projects : InWriteback(p, j)' \subseteq InWriteback(p, j)
  BY <1>4 DEF InWriteback, Over
<1>8. LastCovers(B)'
  <2> SUFFICES ASSUME NEW p \in Procs, NEW j \in Projects
               PROVE  /\ last[p][j] # NoTurn => turns'[last[p][j]].writing /\ ProcOf[last[p][j]] = p
                      /\ InWriteback(p, j)' \subseteq Behind(B, last[p][j])
    BY <1>2 DEF LastCovers, Behind
  <2> QED
    BY <1>4, <1>5, <1>7 DEF LastCovers
<1>9. AwaitsWriter'
  <2> SUFFICES ASSUME NEW v \in Turns, turns'[v].after # NoTurn
               PROVE  turns'[turns'[v].after].writing /\ ProcOf[turns'[v].after] = ProcOf[v]
    BY DEF AwaitsWriter
  <2>1. CASE turns'[v].after = turns[v].after
    BY <1>4, <1>5, <2>1 DEF AwaitsWriter
  <2>2. CASE v = t /\ turns'[v].after = last[ProcOf[t]][ProjectOf[t]]
    BY <1>1, <1>4, <1>5, <2>2 DEF LastCovers
  <2> QED
    BY <1>2, <1>3, <2>1, <2>2
<1>10. PriorOK'
  <2> SUFFICES ASSUME NEW v \in Turns, NEW u \in prior'[v]
               PROVE  ProcOf[u] = ProcOf[v] /\ ProjectOf[u] = ProjectOf[v] /\ turns'[u].writing
    BY DEF PriorOK
  <2>1. \/ u \in prior[v]
        \/ v = t /\ u \in InWriteback(ProcOf[t], ProjectOf[t])
    BY <1>1, <1>2
  <2>2. u \in Turns
    BY <1>1, <2>1 DEF InWriteback
  <2> QED
    BY <1>4, <2>1, <2>2 DEF PriorOK, InWriteback
<1>11. InOrder(B)'
  <2> SUFFICES ASSUME NEW v \in Turns, turns'[v].writing, NEW u \in B[v]
               PROVE  Over(u)' \/ u \in Behind(B, IF turns'[v].pc = "chained" THEN turns'[v].after ELSE NoTurn)
    BY DEF InOrder, Covers, Behind
  <2>1. u \in Turns /\ turns[v].writing /\ v # t /\ turns'[v] = turns[v]
    BY <1>2, <1>3, <1>4, <1>5
  <2> QED
    BY <1>4, <2>1 DEF InOrder, Covers
<1>12. PromptWaits(B)'
  <2> SUFFICES ASSUME NEW v \in Turns, ~turns'[v].writing, turns'[v].pc \notin {"new", "opening", "done"},
                      NEW u \in prior'[v]
               PROVE  Over(u)' \/ u \in Behind(B, IF turns'[v].pc = "awaiting" THEN turns'[v].after ELSE NoTurn)
    BY DEF PromptWaits, Covers, Behind
  <2>1. CASE v = t
    <3>1. h.pc = "awaiting" /\ h.after = last[ProcOf[t]][ProjectOf[t]] /\ u \in prior[t]
      BY <1>2, <1>3, <2>1
    <3>2. u \in Turns /\ ProcOf[u] = ProcOf[t] /\ ProjectOf[u] = ProjectOf[t] /\ turns[u].writing
      BY <1>1, <3>1 DEF PriorOK
    <3>3. Over(u) \/ u \in InWriteback(ProcOf[t], ProjectOf[t])
      BY <3>2 DEF InWriteback, Over
    <3>4. Over(u) \/ u \in Behind(B, last[ProcOf[t]][ProjectOf[t]])
      BY <1>1, <3>3 DEF LastCovers
    <3> QED
      BY <1>3, <1>4, <2>1, <3>1, <3>2, <3>4
  <2>2. CASE v # t
    <3>1. u \in prior[v] /\ turns'[v] = turns[v] /\ u \in Turns
      BY <1>1, <1>2, <1>3, <2>2
    <3> QED
      BY <1>4, <3>1 DEF PromptWaits, Covers
  <2> QED
    BY <2>1, <2>2
<1> QED
  BY <1>6, <1>8, <1>9, <1>10, <1>11, <1>12

(* A turn that ends enters the chain behind all that are under way. *)
LEMMA WritebackBegins ==
    ASSUME OutboxInv, NEW B \in Orders, Ordered(B), NEW t \in Turns,
           turns[t].pc = "answering", UNCHANGED prior,
           last' = [last EXCEPT ![ProcOf[t]][ProjectOf[t]] = t],
           NEW h \in Handler, turns' = [turns EXCEPT ![t] = h],
           h.pc = "chained", h.writing, h.after = last[ProcOf[t]][ProjectOf[t]]
    PROVE  \E C \in Orders : Ordered(C)'
<1> USE DEF OutboxInv, Ordered
<1> DEFINE W == InWriteback(ProcOf[t], ProjectOf[t])
           l == last[ProcOf[t]][ProjectOf[t]]
<1>1. /\ turns \in [Turns -> Handler] /\ prior \in [Turns -> SUBSET Turns] /\ HandlerOK(t)
      /\ ProcOf[t] \in Procs /\ ProjectOf[t] \in Projects /\ t # NoTurn
      /\ last \in [Procs -> [Projects -> Turns \cup {NoTurn}]]
      /\ l \in Turns \cup {NoTurn}
  <2>1. /\ turns \in [Turns -> Handler] /\ prior \in [Turns -> SUBSET Turns] /\ HandlerOK(t)
        /\ last \in [Procs -> [Projects -> Turns \cup {NoTurn}]]
    BY DEF TypeOK, Handlers
  <2>2. ProcOf[t] \in Procs /\ ProjectOf[t] \in Projects /\ t # NoTurn
    BY OutboxAssumption
  <2> QED
    BY <2>1, <2>2
<1>2. ~turns[t].writing
  BY <1>1 DEF HandlerOK
<1>3. turns'[t] = h /\ \A u \in Turns \ {t} : turns'[u] = turns[u]
  BY <1>1
<1>4. \A u \in Turns : (turns[u].writing => turns'[u].writing /\ u # t) /\ (Over(u) => Over(u)')
  BY <1>2, <1>3 DEF Over
<1>5. /\ \A u \in Turns : B[u] \subseteq Turns /\ turns[u].after \in Turns \cup {NoTurn}
      /\ \A p \in Procs, j \in Projects : last[p][j] \in Turns \cup {NoTurn}
  BY <1>1 DEF Orders, Handler
<1>6. PICK C \in Orders : C[t] = W /\ \A u \in Turns \ {t} : C[u] = B[u]
  <2> DEFINE D == [B EXCEPT ![t] = W]
  <2>1. D \in Orders /\ D[t] = W /\ \A u \in Turns \ {t} : D[u] = B[u]
    BY DEF Orders, InWriteback
  <2> QED
    BY <2>1
<1>7. \A a \in Turns \cup {NoTurn} : a # t => Behind(C, a) = Behind(B, a)
  BY <1>6 DEF Behind
<1>8. \A u \in W : u \in Turns /\ ProcOf[u] = ProcOf[t] /\ turns[u].writing /\ u \in Behind(B, l)
  BY <1>1 DEF InWriteback, LastCovers
<1>9. l # NoTurn => turns[l].writing /\ l # t /\ ProcOf[l] = ProcOf[t]
  BY <1>1, <1>4 DEF LastCovers
<1>10. BeganBefore(C)'
  <2> SUFFICES ASSUME NEW v \in Turns, NEW u \in C[v] PROVE ProcOf[u] = ProcOf[v] /\ turns'[u].writing
    BY DEF BeganBefore
  <2> QED
    BY <1>4, <1>5, <1>6, <1>8 DEF BeganBefore
<1>11. LastCovers(C)'
  <2> SUFFICES ASSUME NEW p \in Procs, NEW j \in Projects
               PROVE  /\ last'[p][j] # NoTurn => turns'[last'[p][j]].writing /\ ProcOf[last'[p][j]] = p
                      /\ InWriteback(p, j)' \subseteq Behind(C, last'[p][j])
    BY DEF LastCovers, Behind
  <2>1. CASE p = ProcOf[t] /\ j = ProjectOf[t]
    <3>1. last'[p][j] = t
      BY <1>1, <2>1
    <3>2. InWriteback(p, j)' \subseteq W \cup {t}
      BY <1>3, <1>4, <2>1 DEF InWriteback
    <3>3. Behind(C, t) = W \cup {t}
      BY <1>1, <1>6 DEF Behind
    <3> QED
      BY <1>3, <2>1, <3>1, <3>2, <3>3
  <2>2. CASE ~(p = ProcOf[t] /\ j = ProjectOf[t])
    <3>1. last'[p][j] = last[p][j] /\ last[p][j] \in Turns \cup {NoTurn}
      BY <1>1, <2>2
    <3>2. InWriteback(p, j)' \subseteq InWriteback(p, j)
      BY <1>3, <2>2 DEF InWriteback
    <3>3. last[p][j] # t
      BY <1>1, <1>2 DEF LastCovers
    <3> QED
      BY <1>4, <1>7, <3>1, <3>2, <3>3 DEF LastCovers
  <2> QED
    BY <2>1, <2>2
<1>12. AwaitsWriter'
  <2> SUFFICES ASSUME NEW v \in Turns, turns'[v].after # NoTurn
               PROVE  turns'[turns'[v].after].writing /\ ProcOf[turns'[v].after] = ProcOf[v]
    BY DEF AwaitsWriter
  <2>1. CASE v = t
    BY <1>1, <1>3, <1>4, <1>9, <2>1
  <2>2. CASE v # t
    BY <1>3, <1>4, <1>5, <2>2 DEF AwaitsWriter
  <2> QED
    BY <2>1, <2>2
<1>13. PriorOK'
  BY <1>1, <1>4 DEF PriorOK
<1>14. \A v \in Turns : v # t => turns[v].after # t
  BY <1>1, <1>2 DEF AwaitsWriter
<1>15. InOrder(C)'
  <2> SUFFICES ASSUME NEW v \in Turns, turns'[v].writing, NEW u \in C[v]
               PROVE  Over(u)' \/ u \in Behind(C, IF turns'[v].pc = "chained" THEN turns'[v].after ELSE NoTurn)
    BY DEF InOrder, Covers, Behind
  <2>1. CASE v = t
    <3>1. u \in Behind(B, l)
      BY <1>6, <1>8, <2>1
    <3>2. Behind(C, l) = Behind(B, l)
      BY <1>1, <1>7, <1>9
    <3> QED
      BY <1>3, <2>1, <3>1, <3>2
  <2>2. CASE v # t
    <3>1. turns'[v] = turns[v] /\ u \in B[v] /\ u \in Turns
      BY <1>3, <1>5, <1>6, <2>2
    <3>2. Over(u) \/ u \in Behind(B, IF turns[v].pc = "chained" THEN turns[v].after ELSE NoTurn)
      BY <3>1 DEF InOrder, Covers
    <3>3. Behind(C, NoTurn) = Behind(B, NoTurn) /\ Behind(C, turns[v].after) = Behind(B, turns[v].after)
      BY <1>1, <1>5, <1>7, <1>14, <2>2
    <3> QED
      BY <1>4, <3>1, <3>2, <3>3
  <2> QED
    BY <2>1, <2>2
<1>16. PromptWaits(C)'
  <2> SUFFICES ASSUME NEW v \in Turns, ~turns'[v].writing, turns'[v].pc \notin {"new", "opening", "done"},
                      NEW u \in prior[v]
               PROVE  Over(u)' \/ u \in Behind(C, IF turns'[v].pc = "awaiting" THEN turns'[v].after ELSE NoTurn)
    BY DEF PromptWaits, Covers, Behind
  <2>1. v # t /\ turns'[v] = turns[v] /\ u \in Turns
    BY <1>1, <1>3
  <2>2. Over(u) \/ u \in Behind(B, IF turns[v].pc = "awaiting" THEN turns[v].after ELSE NoTurn)
    BY <2>1 DEF PromptWaits, Covers
  <2>3. Behind(C, NoTurn) = Behind(B, NoTurn) /\ Behind(C, turns[v].after) = Behind(B, turns[v].after)
    BY <1>1, <1>5, <1>7, <1>14, <2>1
  <2> QED
    BY <1>4, <2>1, <2>2, <2>3
<1> QED
  BY <1>6, <1>10, <1>11, <1>12, <1>13, <1>15, <1>16

(* The writebacks of a process end with it, all of them. *)
LEMMA CrashEndsChains ==
    ASSUME OutboxInv, NEW B \in Orders, Ordered(B), NEW p \in Procs, Crash(p)
    PROVE  Ordered(B)'
<1> USE DEF OutboxInv, Ordered
<1> DEFINE hit == {t \in Turns : ProcOf[t] = p /\ turns[t].pc \notin {"new", "done"}}
<1>1. /\ turns \in [Turns -> Handler] /\ prior \in [Turns -> SUBSET Turns]
      /\ last \in [Procs -> [Projects -> Turns \cup {NoTurn}]]
  BY DEF TypeOK
<1>2. ASSUME NEW t \in Turns
      PROVE  /\ turns'[t].writing = turns[t].writing
             /\ t \in hit => turns'[t].pc = "done" /\ turns'[t].after = NoTurn /\ prior'[t] = {}
             /\ t \notin hit => turns'[t] = turns[t] /\ prior'[t] = prior[t]
  <2> DEFINE over == [NewHandler EXCEPT !.pc = "done", !.writing = turns[t].writing,
                                        !.capture = turns[t].capture]
  <2>1. turns'[t] = IF t \in hit THEN over ELSE turns[t]
    BY DEF Crash
  <2>2. over.writing = turns[t].writing /\ over.pc = "done" /\ over.after = NoTurn
    BY DEF NewHandler
  <2>3. prior'[t] = IF t \in hit THEN {} ELSE prior[t]
    BY DEF Crash
  <2> HIDE DEF over, hit
  <2> QED
    BY <2>1, <2>2, <2>3
<1>3. \A t \in Turns : Over(t) => Over(t)'
  BY <1>2 DEF Over
<1>4. \A t \in Turns : ProcOf[t] = p /\ turns[t].writing => Over(t)'
  <2> SUFFICES ASSUME NEW t \in Turns, ProcOf[t] = p, turns[t].writing PROVE Over(t)'
    OBVIOUS
  <2>1. turns[t].pc # "new"
    BY DEF Handlers, HandlerOK, Early
  <2> QED
    BY <1>2, <1>3, <2>1 DEF Over
<1>5. /\ \A u \in Turns : B[u] \subseteq Turns /\ turns[u].after \in Turns \cup {NoTurn}
      /\ \A q \in Procs, j \in Projects : last[q][j] \in Turns \cup {NoTurn}
  BY <1>1 DEF Orders, Handler
<1>6. \A q \in Procs, j \in Projects : last'[q][j] = IF q = p THEN NoTurn ELSE last[q][j]
  BY <1>1 DEF Crash
<1> HIDE DEF hit
<1>7. \A u \in Turns : ProcOf[u] # p => turns'[u] = turns[u] /\ prior'[u] = prior[u]
  BY <1>2 DEF hit
<1>8. BeganBefore(B)'
  BY <1>2, <1>5 DEF BeganBefore
<1>9. LastCovers(B)'
  <2> SUFFICES ASSUME NEW q \in Procs, NEW j \in Projects
               PROVE  /\ last'[q][j] # NoTurn => turns'[last'[q][j]].writing /\ ProcOf[last'[q][j]] = q
                      /\ InWriteback(q, j)' \subseteq Behind(B, last'[q][j])
    BY DEF LastCovers, Behind
  <2>1. CASE q = p
    <3>1. InWriteback(q, j)' = {}
      BY <1>2, <1>4, <2>1 DEF InWriteback, Over
    <3> QED
      BY <1>6, <2>1, <3>1
  <2>2. CASE q # p
    <3>1. last'[q][j] = last[q][j] /\ InWriteback(q, j)' = InWriteback(q, j)
      BY <1>6, <1>7, <2>2 DEF InWriteback
    <3> QED
      BY <1>2, <1>5, <3>1 DEF LastCovers
  <2> QED
    BY <2>1, <2>2
<1>10. AwaitsWriter'
  <2> SUFFICES ASSUME NEW v \in Turns, turns'[v].after # NoTurn
               PROVE  turns'[turns'[v].after].writing /\ ProcOf[turns'[v].after] = ProcOf[v]
    BY DEF AwaitsWriter
  <2>1. turns'[v] = turns[v]
    BY <1>2
  <2> QED
    BY <1>2, <1>5, <2>1 DEF AwaitsWriter
<1>11. PriorOK'
  BY <1>1, <1>2 DEF PriorOK
<1>12. InOrder(B)'
  <2> SUFFICES ASSUME NEW v \in Turns, turns'[v].writing, NEW u \in B[v]
               PROVE  Over(u)' \/ u \in Behind(B, IF turns'[v].pc = "chained" THEN turns'[v].after ELSE NoTurn)
    BY DEF InOrder, Covers, Behind
  <2>1. u \in Turns /\ turns[v].writing /\ ProcOf[u] = ProcOf[v] /\ turns[u].writing
    BY <1>2, <1>5 DEF BeganBefore
  <2>2. CASE ProcOf[v] = p
    BY <1>4, <2>1, <2>2
  <2>3. CASE ProcOf[v] # p
    BY <1>3, <1>7, <2>1, <2>3 DEF InOrder, Covers
  <2> QED
    BY <2>2, <2>3
<1>13. PromptWaits(B)'
  <2> SUFFICES ASSUME NEW v \in Turns, ~turns'[v].writing, turns'[v].pc \notin {"new", "opening", "done"},
                      NEW u \in prior'[v]
               PROVE  Over(u)' \/ u \in Behind(B, IF turns'[v].pc = "awaiting" THEN turns'[v].after ELSE NoTurn)
    BY DEF PromptWaits, Covers, Behind
  <2>1. u \in Turns /\ turns'[v] = turns[v] /\ prior'[v] = prior[v]
    BY <1>1, <1>2
  <2> QED
    BY <1>3, <2>1 DEF PromptWaits, Covers
<1> QED
  BY <1>8, <1>9, <1>10, <1>11, <1>12, <1>13

(* Every step of a handler is one of these. *)
LEMMA HandlersChain ==
    ASSUME OutboxInv, NEW B \in Orders, Ordered(B), NEW t \in Turns,
           Advance(t) \/ PreStep(t) \/ TurnEnds(t)
    PROVE  \E C \in Orders : Ordered(C)'
<1> USE DEF OutboxInv
<1> DEFINE x == turns[t]
<1>0. /\ turns \in [Turns -> Handler] /\ x \in Handler /\ HandlerOK(t) /\ t # NoTurn
      /\ ProcOf[t] \in Procs /\ ProjectOf[t] \in Projects
  BY OutboxAssumption DEF TypeOK, Handlers
<1>1. CASE PreStep(t) \/ Await(t)
  BY <1>1, PromptArrives
<1>2. CASE List(t)
  <2> DEFINE todo == {[on |-> u, known |-> file[u] = "known"] : u \in {v \in Turns : file[v] # "none"}}
             h == [x EXCEPT !.pc = "next", !.after = NoTurn, !.todo = todo]
  <2>1. turns' = [turns EXCEPT ![t] = h] /\ x.pc = "awaiting" /\ Settled(x.after)
        /\ UNCHANGED <<last, prior>>
    BY <1>2 DEF List
  <2>2. todo \in SUBSET Snapshot
    <3> SUFFICES ASSUME NEW u \in Turns PROVE [on |-> u, known |-> file[u] = "known"] \in Snapshot
      OBVIOUS
    <3> QED
      BY DEF Snapshot
  <2> HIDE DEF todo
  <2>3. h \in Handler /\ h.pc = "next" /\ h.after = NoTurn /\ h.writing = x.writing
    BY <1>0, <2>2 DEF Handler, Place
  <2> HIDE DEF h
  <2> QED
    BY <2>1, <2>3, OneMoves
<1>3. CASE Take(t)
  <2>1. PICK r \in x.todo :
          turns' =
          IF r.known \/ MayWrite(r.on)
          THEN [turns EXCEPT ![t].todo = @ \ {r}, ![t].at = r,
                             ![t].pc = IF r.known THEN "poll" ELSE "send"]
          ELSE [turns EXCEPT ![t].todo = @ \ {r}, ![t].pc = "mutate",
                             ![t].want = [op |-> "remove", on |-> r.on, then |-> "next"]]
    BY <1>3 DEF Take
  <2>2. x.pc = "next" /\ UNCHANGED <<last, prior>>
    BY <1>3 DEF Take
  <2>3. r \in Snapshot /\ x.todo \ {r} \in SUBSET Snapshot /\ r.on \in Turns
    BY <1>0 DEF Handler, Snapshot
  <2> DEFINE rest == x.todo \ {r}
             place == IF r.known THEN "poll" ELSE "send"
             m == [op |-> "remove", on |-> r.on, then |-> "next"]
             g == [x EXCEPT !.todo = rest, !.at = r, !.pc = place]
             k == [x EXCEPT !.todo = rest, !.pc = "mutate", !.want = m]
  <2>4. m \in Mutation
    BY <2>3 DEF Mutation, Place
  <2>5. turns' = [turns EXCEPT ![t] = g] \/ turns' = [turns EXCEPT ![t] = k]
    BY <1>0, <2>1
  <2> HIDE DEF m, rest
  <2>6. g \in Handler /\ g.pc \in {"poll", "send"} /\ g.after = x.after /\ g.writing = x.writing
    BY <1>0, <2>3 DEF Handler, Place, rest
  <2>7. k \in Handler /\ k.pc = "mutate" /\ k.after = x.after /\ k.writing = x.writing
    BY <1>0, <2>3, <2>4 DEF Handler, Place, rest
  <2> HIDE DEF g, k
  <2>8. CASE turns' = [turns EXCEPT ![t] = g]
    BY <2>2, <2>6, <2>8, OneMoves
  <2>9. CASE turns' = [turns EXCEPT ![t] = k]
    BY <2>2, <2>7, <2>9, OneMoves
  <2> QED
    BY <2>5, <2>8, <2>9
<1>4. ASSUME NEW h \in Handler, turns' = [turns EXCEPT ![t] = h],
             h.writing = x.writing, h.after = x.after \/ h.after = NoTurn,
             UNCHANGED last, UNCHANGED prior \/ prior' = [prior EXCEPT ![t] = {}],
             x.pc \notin {"new", "opening", "awaiting", "done"},
             h.pc \notin {"new", "opening", "awaiting", "chained"},
             x.pc = "chained" => Settled(x.after)
      PROVE  \E C \in Orders : Ordered(C)'
  <2>1. Ordered(B)'
    BY <1>4, OneMoves
  <2> QED
    BY <2>1
<1>5. ASSUME NEW place \in Place, Goes(t, place), UNCHANGED last,
             UNCHANGED prior \/ prior' = [prior EXCEPT ![t] = {}],
             x.pc \notin {"new", "opening", "awaiting", "chained", "done"},
             place \notin {"new", "opening", "awaiting", "chained"}
      PROVE  \E C \in Orders : Ordered(C)'
  <2> DEFINE h == [x EXCEPT !.pc = place]
  <2>1. h \in Handler /\ h.pc = place /\ h.after = x.after /\ h.writing = x.writing
    BY <1>0 DEF Handler
  <2>2. turns' = [turns EXCEPT ![t] = h]
    BY <1>5 DEF Goes
  <2> HIDE DEF h
  <2> QED
    BY <1>4, <1>5, <2>1, <2>2
<1>6. ASSUME NEW op \in {"enqueue", "know", "touch", "remove"}, NEW on \in Turns, NEW then \in Place,
             Mutates(t, op, on, then), UNCHANGED <<last, prior>>,
             x.pc \notin {"new", "opening", "awaiting", "chained", "done"}
      PROVE  \E C \in Orders : Ordered(C)'
  <2> DEFINE m == [op |-> op, on |-> on, then |-> then]
  <2>1. m \in Mutation
    BY DEF Mutation
  <2>2. turns' = [turns EXCEPT ![t].pc = "mutate", ![t].want = m]
    BY <1>6 DEF Mutates
  <2> HIDE DEF m
  <2> DEFINE h == [x EXCEPT !.pc = "mutate", !.want = m]
  <2>3. h \in Handler /\ h.pc = "mutate" /\ h.after = x.after /\ h.writing = x.writing
    BY <1>0, <2>1 DEF Handler, Place
  <2>4. turns' = [turns EXCEPT ![t] = h]
    BY <1>0, <2>2 DEF Handler
  <2> HIDE DEF h
  <2> QED
    BY <1>4, <1>6, <2>3, <2>4
<1>7. CASE Send(t) \/ Poll(t)
  <2>1. x.pc \in {"send", "poll"} /\ UNCHANGED <<last, prior>> /\ x.at.on \in Turns
    BY <1>0, <1>7 DEF Send, Poll, HandlerOK
  <2>2. ASSUME NEW op \in {"touch", "remove"}, Leaves(t, op) PROVE \E C \in Orders : Ordered(C)'
    <3> DEFINE m == [op |-> op, on |-> x.at.on, then |-> "next"]
    <3>1. m \in Mutation /\ "mutate" \in Place
      BY <2>1 DEF Mutation, Place
    <3>2. turns' = [turns EXCEPT ![t].pc = "mutate", ![t].at = NoSnapshot, ![t].want = m]
      BY <2>2 DEF Leaves
    <3> HIDE DEF m
    <3> DEFINE h == [x EXCEPT !.pc = "mutate", !.want = m, !.at = NoSnapshot]
    <3>3. h \in Handler /\ h.pc = "mutate" /\ h.after = x.after /\ h.writing = x.writing
      BY <1>0, <3>1 DEF Handler
    <3>4. turns' = [turns EXCEPT ![t] = h]
      BY <1>0, <3>2 DEF Handler
    <3> HIDE DEF h
    <3> QED
      BY <1>4, <2>1, <3>3, <3>4
  <2>3. \/ Mutates(t, "know", x.at.on, "poll") \/ \E op \in {"touch", "remove"} : Leaves(t, op)
    BY <1>7 DEF Send, Poll
  <2> QED
    BY <1>6, <2>1, <2>2, <2>3 DEF Place
<1>8. CASE Prepare(t)
  <2>1. /\ x.pc = "next" /\ UNCHANGED last /\ prior' = [prior EXCEPT ![t] = {}]
        /\ \/ turns' = [turns EXCEPT ![t].pc = "answering", ![t].capture = controls[SessionOf[t]]]
           \/ Goes(t, "done")
    BY <1>8 DEF Prepare
  <2> DEFINE now == controls[SessionOf[t]]
             h == [x EXCEPT !.pc = "answering", !.capture = now]
  <2>2. now \in Capture
    BY <1>0, Types DEF Capture, TypeOK
  <2> HIDE DEF now
  <2>3. h \in Handler /\ h.pc = "answering" /\ h.after = x.after /\ h.writing = x.writing
    BY <1>0, <2>2 DEF Handler, Place
  <2>4. CASE Goes(t, "done")
    BY <1>5, <2>1, <2>4 DEF Place
  <2>5. CASE ~Goes(t, "done")
    <3>1. turns' = [turns EXCEPT ![t] = h]
      BY <2>1, <2>5 DEF now
    <3> HIDE DEF h
    <3> QED
      BY <2>1, <2>3, <3>1, OneMoves
  <2> QED
    BY <2>4, <2>5
<1>9. CASE TurnEnds(t)
  <2> DEFINE l == last[ProcOf[t]][ProjectOf[t]]
             h == [x EXCEPT !.pc = "chained", !.writing = TRUE, !.after = l]
  <2>1. x.pc = "answering" /\ UNCHANGED prior
    BY <1>9 DEF TurnEnds
  <2>2. \/ turns' = [turns EXCEPT ![t] = h] /\ last' = [last EXCEPT ![ProcOf[t]][ProjectOf[t]] = t]
        \/ Goes(t, "done") /\ UNCHANGED last
    BY <1>0, <1>9 DEF TurnEnds, Handler
  <2>3. l \in Turns \cup {NoTurn}
    BY <1>0 DEF TypeOK
  <2> HIDE DEF l
  <2>4. h \in Handler /\ h.pc = "chained" /\ h.writing /\ h.after = l
    BY <1>0, <2>3 DEF Handler, Place
  <2> HIDE DEF h
  <2> QED
    BY <1>5, <2>1, <2>2, <2>4, WritebackBegins DEF l, Place
<1>10. CASE CommitTurn(t)
  <2>1. x.pc = "chained" /\ Settled(x.after) /\ UNCHANGED <<last, prior>>
    BY <1>10 DEF CommitTurn
  <2> DEFINE m == [op |-> "enqueue", on |-> t, then |-> "check"]
  <2>2. m \in Mutation /\ "mutate" \in Place /\ "done" \in Place
    BY <1>0 DEF Mutation, Place
  <2>3. \/ turns' = [turns EXCEPT ![t].pc = "mutate", ![t].after = NoTurn, ![t].want = m]
        \/ turns' = [turns EXCEPT ![t].pc = "done", ![t].after = NoTurn]
    BY <1>10 DEF CommitTurn
  <2> HIDE DEF m
  <2> DEFINE g == [x EXCEPT !.pc = "mutate", !.after = NoTurn, !.want = m]
             h == [x EXCEPT !.pc = "done", !.after = NoTurn]
  <2>4. g \in Handler /\ g.pc = "mutate" /\ g.after = NoTurn /\ g.writing = x.writing
    BY <1>0, <2>2 DEF Handler
  <2>5. h \in Handler /\ h.pc = "done" /\ h.after = NoTurn /\ h.writing = x.writing
    BY <1>0, <2>2 DEF Handler
  <2>6. turns' = [turns EXCEPT ![t] = g] \/ turns' = [turns EXCEPT ![t] = h]
    BY <1>0, <2>3 DEF Handler
  <2> HIDE DEF g, h
  <2>7. CASE turns' = [turns EXCEPT ![t] = g]
    BY <1>4, <2>1, <2>4, <2>7
  <2>8. CASE turns' = [turns EXCEPT ![t] = h]
    BY <1>4, <2>1, <2>5, <2>8
  <2> QED
    BY <2>6, <2>7, <2>8
<1>11. CASE CheckAgain(t) \/ Refused(t) \/ Submit(t) \/ Finish(t)
  <2>1. x.pc \in {"check", "refused", "submit", "waiting"} /\ UNCHANGED <<last, prior>>
    BY <1>11 DEF CheckAgain, Refused, Submit, Finish
  <2>2. \/ \E place \in {"submit", "done"} : Goes(t, place)
        \/ \E op \in {"know", "touch", "remove"}, then \in {"refused", "waiting", "done"} :
              Mutates(t, op, t, then)
    BY <1>11 DEF CheckAgain, Refused, Submit, Finish
  <2> QED
    BY <1>5, <1>6, <2>1, <2>2 DEF Place
<1>12. CASE Read(t)
  <2>1. x.pc = "mutate" /\ UNCHANGED <<turns, last, prior>>
    BY <1>12 DEF Read
  <2>2. Goes(t, "mutate")
    BY <1>0, <2>1 DEF Goes, Handler
  <2> QED
    BY <1>5, <2>1, <2>2 DEF Place
<1>13. CASE Write(t)
  <2>1. /\ io[ProcOf[t]].by = t /\ UNCHANGED <<last, prior>>
        /\ turns' = [turns EXCEPT ![t].pc = x.want.then, ![t].want = NoMutation]
    BY <1>13 DEF Write
  <2>2. x.pc = "mutate"
    BY <1>0, <2>1 DEF Holding
  <2>3. x.want.then \in {"next", "poll", "check", "refused", "waiting", "done"}
    BY <1>0 DEF HandlerOK
  <2> DEFINE place == x.want.then
  <2> HIDE DEF place
  <2> DEFINE h == [x EXCEPT !.pc = place, !.want = NoMutation]
  <2>4. turns' = [turns EXCEPT ![t] = h]
    BY <1>0, <2>1 DEF Handler, place
  <2>5. place \in Place /\ place \notin {"new", "opening", "awaiting", "chained"}
    BY <2>3 DEF place, Place
  <2>6. h \in Handler /\ h.pc = place /\ h.after = x.after /\ h.writing = x.writing
    BY <1>0, <2>5 DEF Handler
  <2> HIDE DEF h
  <2> QED
    BY <1>4, <2>1, <2>2, <2>4, <2>5, <2>6
<1> QED
  BY <1>1, <1>2, <1>3, <1>7, <1>8, <1>9, <1>10, <1>11, <1>12, <1>13 DEF Advance

LEMMA ChainStep == OutboxInv /\ Chain /\ [Next]_vars => Chain'
<1> SUFFICES ASSUME OutboxInv, NEW B \in Orders, Ordered(B), [Next]_vars
             PROVE  \E C \in Orders : Ordered(C)'
  BY DEF Chain, Orders
<1>1. ASSUME UNCHANGED <<turns, last, prior>> PROVE Ordered(B)'
  BY <1>1 DEF Ordered, BeganBefore, LastCovers, AwaitsWriter, InOrder, PriorOK, PromptWaits,
     Covers, Over, Behind, InWriteback
<1>2. ASSUME NEW t \in Turns, Veto(t) \/ JobEnds(t) PROVE Ordered(B)'
  BY <1>1, <1>2 DEF Veto, JobEnds
<1>3. ASSUME NEW s \in Sessions, SetMode(s) PROVE Ordered(B)'
  BY <1>1, <1>3 DEF SetMode
<1> QED
  BY <1>1, <1>2, <1>3, HandlersChain, CrashEndsChains DEF Next, vars

LEMMA ChainAlways == Spec => [](OutboxInv /\ Chain)
<1>1. Init => OutboxInv /\ Chain
  <2> SUFFICES ASSUME Init PROVE Chain
    BY OutboxInit
  <2> DEFINE B == [t \in Turns |-> {}]
  <2>1. \A t \in Turns : /\ turns[t].pc = "new" /\ ~turns[t].writing /\ turns[t].after = NoTurn
                         /\ prior[t] = {} /\ B[t] = {}
    BY DEF Init, NewHandler
  <2>2. \A p \in Procs, j \in Projects : last[p][j] = NoTurn /\ InWriteback(p, j) = {}
    BY <2>1 DEF Init, InWriteback
  <2>3. B \in Orders
    BY DEF Orders
  <2> HIDE DEF B
  <2>4. Ordered(B)
    BY <2>1, <2>2 DEF Ordered, BeganBefore, LastCovers, AwaitsWriter, InOrder, PriorOK, PromptWaits
  <2> QED
    BY <2>3, <2>4 DEF Chain
<1>2. (OutboxInv /\ Chain) /\ [Next]_vars => (OutboxInv /\ Chain)'
  BY OutboxStep, ChainStep
<1> QED
  BY <1>1, <1>2, PTL DEF Spec

(* The recalls of a prompt are sent only when every writeback its project  *)
(* had under way in the process when the prompt came is over, although the *)
(* code awaits a single one of them.                                       *)
THEOREM RecallsWait == Spec => RecallAfterWriteback
<1> DEFINE Waited == \A t \in Turns :
        turns[t].pc = "next" /\ turns'[t].pc = "answering" => \A u \in prior[t] : turns[u].pc = "done"
<1>1. OutboxInv /\ Chain /\ [Next]_vars => [Waited]_vars
  <2> SUFFICES ASSUME OutboxInv, NEW B \in Orders, Ordered(B), NEW t \in Turns, turns[t].pc = "next",
                      NEW u \in prior[t]
               PROVE  turns[u].pc = "done"
    BY DEF Chain
  <2>1. ~turns[t].writing
    BY DEF OutboxInv, Handlers, HandlerOK, Early
  <2> QED
    BY <2>1 DEF Ordered, PromptWaits, Covers, Over, Behind
<1> QED
  BY <1>1, ChainAlways, PTL DEF Spec, RecallAfterWriteback
===============================================================================
