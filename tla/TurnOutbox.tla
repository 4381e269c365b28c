----------------------------- MODULE TurnOutbox -----------------------------
(***************************************************************************)
(* The writeback of finished turns in the host plugin: the lifecycle hooks *)
(* (index.ts), the turn lifecycle that prepares, commits and reconciles a  *)
(* turn (sdk/lifecycle.ts), the file that keeps turns until their ingest   *)
(* has succeeded (FilePendingTurnQueue, sdk/queue.ts), and the per-session *)
(* memory mode that may forbid it (memory_controls.mjs).                   *)
(*                                                                         *)
(* A turn runs in one host process.  Between two awaits of a turn anything *)
(* else may happen, so an action ends where the code awaits; the queue     *)
(* rewrites its whole file, which takes two steps (Read and Write) that    *)
(* are exclusive in a process and not between processes.                   *)
(***************************************************************************)
EXTENDS Integers, FiniteSets

CONSTANTS
    Turns, Procs, Projects, Sessions,
    ProcOf, ProjectOf, SessionOf,   \* where a turn runs
    NoTurn,
    WaitForIngest,                  \* waitForIngest of a commit
    MaxSwitches, MaxCrashes         \* bounds: mode changes and deaths of a process

ASSUME OutboxAssumption ==
    /\ ProcOf \in [Turns -> Procs] /\ ProjectOf \in [Turns -> Projects]
    /\ SessionOf \in [Turns -> Sessions] /\ NoTurn \notin Turns
    /\ WaitForIngest \in BOOLEAN /\ MaxSwitches \in Nat /\ MaxCrashes \in Nat

VARIABLES
    file,       \* the pending-turns file: does a turn's record know its job?
    io,         \* per process: the mutation of the file under way
    turns,      \* the handlers of each turn
    last,       \* writebackByProject of each process
    controls,   \* mode and generation of each session
    vetoed,     \* suppressedTurns
    job,        \* the ingest job the service keeps for the turn's idempotency key
    crashes,
    owed,       \* history: turns whose record was written
    withdrawn,  \* history: turns that lost their permission while at rest
    prior       \* history: for a prompt, the earlier turns of its project then in writeback

vars == <<file, io, turns, last, controls, vetoed, job, crashes, owed, withdrawn, prior>>

-----------------------------------------------------------------------------
(* Types *)

Record == {"none", "queued", "known"}
Job == {"none", "pending", "succeeded", "failed"}
Place == {"new", "opening", "awaiting", "next", "send", "poll", "answering",
          "chained", "check", "submit", "refused", "waiting", "mutate", "done"}
Mutation == [op: {"enqueue", "know", "touch", "remove"}, on: Turns, then: Place]
NoMutation == [op |-> "none", on |-> NoTurn, then |-> "done"]
Snapshot == [on: Turns, known: BOOLEAN]
NoSnapshot == [on |-> NoTurn, known |-> FALSE]
Capture == [write: BOOLEAN, generation: -1..MaxSwitches]

Handler == [
    pc: Place,
    writing: BOOLEAN,                     \* past the end of the turn
    capture: Capture,
    after: Turns \cup {NoTurn},           \* the writeback it awaits
    todo: SUBSET Snapshot,                \* records listed and not yet reconciled
    at: Snapshot \cup {NoSnapshot},
    want: Mutation \cup {NoMutation}]

TypeOK ==
    /\ file \in [Turns -> Record]
    /\ io \in [Procs -> [by: Turns \cup {NoTurn}, read: [Turns -> Record]]]
    /\ turns \in [Turns -> Handler]
    /\ last \in [Procs -> [Projects -> Turns \cup {NoTurn}]]
    /\ controls \in [Sessions -> [write: BOOLEAN, generation: 0..MaxSwitches]]
    /\ job \in [Turns -> Job]
    /\ crashes \in 0..MaxCrashes
    /\ vetoed \subseteq Turns /\ owed \subseteq Turns /\ withdrawn \subseteq Turns
    /\ prior \in [Turns -> SUBSET Turns]
    /\ \A t \in Turns : turns[t].pc = "mutate" <=> turns[t].want # NoMutation

Empty == [t \in Turns |-> "none"]
Free == [by |-> NoTurn, read |-> Empty]
NewHandler == [pc |-> "new", writing |-> FALSE,
               capture |-> [write |-> FALSE, generation |-> -1], after |-> NoTurn,
               todo |-> {}, at |-> NoSnapshot, want |-> NoMutation]

-----------------------------------------------------------------------------
(* Memory controls *)

MayWrite(t) ==
    LET now == controls[SessionOf[t]] IN
    /\ turns[t].capture.write /\ now.write
    /\ now.generation = turns[t].capture.generation
    /\ t \notin vetoed

(* Some handler has found that t may be written and is about to send it *)
Cleared(t) ==
    \/ turns[t].pc = "submit"
    \/ \E u \in Turns : turns[u].pc = "send" /\ turns[u].at.on = t

(* setMemoryMode, from the control panel, another process or a host tool *)
SetMode(s) ==
    /\ controls[s].generation < MaxSwitches
    /\ controls' = [controls EXCEPT ![s] = [write |-> ~@.write, generation |-> @.generation + 1]]
    /\ withdrawn' = withdrawn \cup
         {t \in Turns : /\ SessionOf[t] = s /\ turns[t].capture.generation # -1
                        /\ job[t] = "none" /\ ~Cleared(t)}
    /\ UNCHANGED <<file, io, turns, last, vetoed, job, crashes, owed, prior>>

(* suppressMemoryTurn: the turn under way is about a correction *)
Veto(t) ==
    /\ turns[t].pc = "answering"
    /\ vetoed' = vetoed \cup {t}
    /\ withdrawn' = withdrawn \cup {t}
    /\ UNCHANGED <<file, io, turns, last, controls, job, crashes, owed, prior>>

-----------------------------------------------------------------------------
(* The file *)

AppliedEagerly(m, records) ==   \* faulty: a submitted turn counts as written
    [records EXCEPT ![m.on] = IF m.op = "enqueue" THEN "queued"
                              ELSE IF m.op = "touch" THEN @ ELSE "none"]

Applied(m, records) ==
    [records EXCEPT ![m.on] =
        CASE m.op = "enqueue" -> IF @ = "none" THEN "queued" ELSE @
          [] m.op = "know" -> IF @ = "none" THEN @ ELSE "known"
          [] m.op = "remove" -> "none"
          [] OTHER -> @]

Goes(t, place) == turns' = [turns EXCEPT ![t].pc = place]

Mutates(t, op, on, then) ==
    turns' = [turns EXCEPT ![t].pc = "mutate",
                           ![t].want = [op |-> op, on |-> on, then |-> then]]

Read(t) ==
    /\ turns[t].pc = "mutate"
    /\ io[ProcOf[t]] = Free
    /\ io' = [io EXCEPT ![ProcOf[t]] = [by |-> t, read |-> file]]
    /\ UNCHANGED <<file, turns, last, controls, vetoed, job, crashes, owed, withdrawn, prior>>

WriteInPlace(t) ==   \* faulty: the handler keeps its mutation
    LET m == turns[t].want IN
    /\ io[ProcOf[t]].by = t
    /\ file' = Applied(m, io[ProcOf[t]].read)
    /\ io' = [io EXCEPT ![ProcOf[t]] = Free]
    /\ turns' = [turns EXCEPT ![t].pc = m.then]
    /\ owed' = IF m.op = "enqueue" THEN owed \cup {t} ELSE owed
    /\ UNCHANGED <<last, controls, vetoed, job, crashes, withdrawn, prior>>

(* The new contents are renamed over the file *)
Write(t) ==
    LET m == turns[t].want IN
    /\ io[ProcOf[t]].by = t
    /\ file' = Applied(m, io[ProcOf[t]].read)
    /\ io' = [io EXCEPT ![ProcOf[t]] = Free]
    /\ turns' = [turns EXCEPT ![t].pc = m.then, ![t].want = NoMutation]
    /\ owed' = IF m.op = "enqueue" THEN owed \cup {t} ELSE owed
    /\ UNCHANGED <<last, controls, vetoed, job, crashes, withdrawn, prior>>

-----------------------------------------------------------------------------
(* agent/pre-step: the prompt of a turn *)

Settled(t) == IF t = NoTurn THEN TRUE ELSE turns[t].pc = "done"

InWriteback(p, project) == {u \in Turns :
    /\ ProcOf[u] = p /\ ProjectOf[u] = project
    /\ turns[u].writing /\ turns[u].pc # "done"}

(* The reconciled record is done with when the mutation goes to the next one *)
Leaves(t, op) ==
    turns' = [turns EXCEPT ![t].pc = "mutate", ![t].at = NoSnapshot,
                           ![t].want = [op |-> op, on |-> turns[t].at.on, then |-> "next"]]

(* A session has one turn at a time; the next may start while the last is  *)
(* written back.                                                           *)
PreStep(t) ==
    /\ turns[t].pc = "new"
    /\ \A u \in Turns : SessionOf[u] = SessionOf[t] =>
          turns[u].pc \in {"new", "done"} \/ turns[u].writing
    /\ prior' = [prior EXCEPT ![t] = InWriteback(ProcOf[t], ProjectOf[t])]
    /\ Goes(t, "opening")
    /\ UNCHANGED <<file, io, last, controls, vetoed, job, crashes, owed, withdrawn>>

(* The configuration is resolved, or is missing and the prompt goes on     *)
(* without memory                                                          *)
Await(t) ==
    /\ turns[t].pc = "opening"
    /\ \/ turns' = [turns EXCEPT ![t].pc = "awaiting",
                                 ![t].after = last[ProcOf[t]][ProjectOf[t]]]
       \/ Goes(t, "done")
    /\ UNCHANGED <<file, io, last, controls, vetoed, job, crashes, owed, withdrawn, prior>>

ListAtOnce(t) ==   \* faulty: the writeback before it is not awaited
    /\ turns[t].pc = "awaiting"
    /\ turns' = [turns EXCEPT ![t].pc = "next", ![t].after = NoTurn, ![t].todo =
           {[on |-> u, known |-> file[u] = "known"] : u \in {v \in Turns : file[v] # "none"}}]
    /\ UNCHANGED <<file, io, last, controls, vetoed, job, crashes, owed, withdrawn, prior>>

List(t) ==
    /\ turns[t].pc = "awaiting" /\ Settled(turns[t].after)
    /\ turns' = [turns EXCEPT ![t].pc = "next", ![t].after = NoTurn, ![t].todo =
           {[on |-> u, known |-> file[u] = "known"] : u \in {v \in Turns : file[v] # "none"}}]
    /\ UNCHANGED <<file, io, last, controls, vetoed, job, crashes, owed, withdrawn, prior>>

(* reconcilePendingTurns takes the next record of its list, which may have *)
(* changed or gone since, and discards it if its turn may not be written   *)
Take(t) ==
    /\ turns[t].pc = "next"
    /\ \E r \in turns[t].todo :
        turns' =
          IF r.known \/ MayWrite(r.on)
          THEN [turns EXCEPT ![t].todo = @ \ {r}, ![t].at = r,
                             ![t].pc = IF r.known THEN "poll" ELSE "send"]
          ELSE [turns EXCEPT ![t].todo = @ \ {r}, ![t].pc = "mutate",
                             ![t].want = [op |-> "remove", on |-> r.on, then |-> "next"]]
    /\ UNCHANGED <<file, io, last, controls, vetoed, job, crashes, owed, withdrawn, prior>>

(* The service makes one job for an idempotency key *)
Submitted(t) == [job EXCEPT ![t] = IF @ = "none" THEN "pending" ELSE @]

(* The request or its answer may be lost *)
Send(t) ==
    LET u == turns[t].at.on IN
    /\ turns[t].pc = "send"
    /\ \/ job' = Submitted(u) /\ Mutates(t, "know", u, "poll")
       \/ job' \in {job, Submitted(u)} /\ Leaves(t, "touch")
    /\ UNCHANGED <<file, io, last, controls, vetoed, crashes, owed, withdrawn, prior>>

(* The job has succeeded, or it failed, or waiting for it or noting it did *)
Poll(t) ==
    /\ turns[t].pc = "poll"
    /\ \/ job[turns[t].at.on] = "succeeded" /\ Leaves(t, "remove")
       \/ Leaves(t, "touch")
    /\ UNCHANGED <<file, io, last, controls, vetoed, job, crashes, owed, withdrawn, prior>>

(* prepareTurn notes the policy of the turn and sends the recalls; a locked*)
(* control file makes it fail                                              *)
Prepare(t) ==
    LET now == controls[SessionOf[t]] IN
    /\ turns[t].pc = "next" /\ turns[t].todo = {}
    /\ \/ /\ turns' = [turns EXCEPT ![t].pc = "answering", ![t].capture = now]
          /\ withdrawn' = IF now.write THEN withdrawn ELSE withdrawn \cup {t}
       \/ Goes(t, "done") /\ UNCHANGED withdrawn
    /\ prior' = [prior EXCEPT ![t] = {}]
    /\ UNCHANGED <<file, io, last, controls, vetoed, job, crashes, owed>>

-----------------------------------------------------------------------------
(* turn/end: the writeback of a turn *)

(* Only a completed turn with an answer is written back *)
TurnEnds(t) ==
    LET p == ProcOf[t]
        project == ProjectOf[t] IN
    /\ turns[t].pc = "answering"
    /\ \/ /\ turns' = [turns EXCEPT ![t].pc = "chained", ![t].writing = TRUE,
                                    ![t].after = last[p][project]]
          /\ last' = [last EXCEPT ![p][project] = t]
       \/ Goes(t, "done") /\ UNCHANGED last
    /\ UNCHANGED <<file, io, controls, vetoed, job, crashes, owed, withdrawn, prior>>

(* Two checks in a row of the policy, merged into the second *)
CommitTurn(t) ==
    /\ turns[t].pc = "chained" /\ Settled(turns[t].after)
    /\ \/ /\ MayWrite(t)
          /\ turns' = [turns EXCEPT ![t].pc = "mutate", ![t].after = NoTurn,
                 ![t].want = [op |-> "enqueue", on |-> t, then |-> "check"]]
       \/ turns' = [turns EXCEPT ![t].pc = "done", ![t].after = NoTurn]
    /\ UNCHANGED <<file, io, last, controls, vetoed, job, crashes, owed, withdrawn, prior>>

CheckedBefore(t) ==   \* faulty: the check before the enqueue is enough
    /\ turns[t].pc = "check"
    /\ Goes(t, "submit")
    /\ UNCHANGED <<file, io, last, controls, vetoed, job, crashes, owed, withdrawn, prior>>

CheckAgain(t) ==
    /\ turns[t].pc = "check"
    /\ IF MayWrite(t) THEN Goes(t, "submit") ELSE Mutates(t, "remove", t, "refused")
    /\ UNCHANGED <<file, io, last, controls, vetoed, job, crashes, owed, withdrawn, prior>>

(* The refusal is thrown where failures to send are caught and noted *)
Refused(t) ==
    /\ turns[t].pc = "refused"
    /\ Mutates(t, "touch", t, "done")
    /\ UNCHANGED <<file, io, last, controls, vetoed, job, crashes, owed, withdrawn, prior>>

(* Noting the task after the answer may fail as well: the record then never*)
(* learns of its job                                                       *)
Submit(t) ==
    /\ turns[t].pc = "submit"
    /\ \/ /\ job' = Submitted(t)
          /\ \/ Mutates(t, "know", t, IF WaitForIngest THEN "waiting" ELSE "done")
             \/ Goes(t, "done")
       \/ job' \in {job, Submitted(t)} /\ Mutates(t, "touch", t, "done")
    /\ UNCHANGED <<file, io, last, controls, vetoed, crashes, owed, withdrawn, prior>>

Finish(t) ==
    /\ turns[t].pc = "waiting"
    /\ \/ job[t] = "succeeded" /\ Mutates(t, "remove", t, "done")
       \/ Goes(t, "done")
    /\ UNCHANGED <<file, io, last, controls, vetoed, job, crashes, owed, withdrawn, prior>>

-----------------------------------------------------------------------------
(* Surroundings *)

JobEnds(t) ==
    /\ job[t] = "pending"
    /\ \E end \in {"succeeded", "failed"} : job' = [job EXCEPT ![t] = end]
    /\ UNCHANGED <<file, io, turns, last, controls, vetoed, crashes, owed, withdrawn, prior>>

(* Only the file survives; a temporary file left behind is never read *)
Crash(p) ==
    LET hit == {t \in Turns : ProcOf[t] = p /\ turns[t].pc \notin {"new", "done"}} IN
    /\ crashes < MaxCrashes /\ hit # {}
    /\ crashes' = crashes + 1
    /\ turns' = [t \in Turns |-> IF t \in hit
           THEN [NewHandler EXCEPT !.pc = "done", !.writing = turns[t].writing,
                                   !.capture = turns[t].capture]
           ELSE turns[t]]
    /\ io' = [io EXCEPT ![p] = Free]
    /\ last' = [last EXCEPT ![p] = [project \in Projects |-> NoTurn]]
    /\ prior' = [t \in Turns |-> IF t \in hit THEN {} ELSE prior[t]]
    /\ UNCHANGED <<file, controls, vetoed, job, owed, withdrawn>>

-----------------------------------------------------------------------------
Init ==
    /\ file = Empty
    /\ io = [p \in Procs |-> Free]
    /\ turns = [t \in Turns |-> NewHandler]
    /\ last = [p \in Procs |-> [project \in Projects |-> NoTurn]]
    /\ controls = [s \in Sessions |-> [write |-> TRUE, generation |-> 0]]
    /\ vetoed = {} /\ owed = {} /\ withdrawn = {}
    /\ job = [t \in Turns |-> "none"]
    /\ crashes = 0
    /\ prior = [t \in Turns |-> {}]

(* What the event loop does by itself once a handler was called *)
Advance(t) ==
    \/ Await(t) \/ List(t) \/ Take(t) \/ Send(t) \/ Poll(t) \/ Prepare(t)
    \/ CommitTurn(t) \/ CheckAgain(t) \/ Refused(t) \/ Submit(t) \/ Finish(t)
    \/ Read(t) \/ Write(t)

Next ==
    \/ \E t \in Turns : Advance(t) \/ PreStep(t) \/ Veto(t) \/ TurnEnds(t) \/ JobEnds(t)
    \/ \E s \in Sessions : SetMode(s)
    \/ \E p \in Procs : Crash(p)

Spec == Init /\ [][Next]_vars

(* Promises are resolved, requests end by their timeouts *)
FairSpec == Spec /\ \A t \in Turns : WF_vars(Advance(t))

-----------------------------------------------------------------------------
(* Properties *)

(* "keeps failed writeback in a crash-safe local outbox": a turn that was  *)
(* put into the outbox stays there until its ingest has succeeded or its   *)
(* session withdrew the permission to write it.                            *)
NothingLost == \A t \in owed :
    file[t] = "none" => job[t] = "succeeded" \/ ~MayWrite(t)

(* A turn that lost its permission while it was being answered or lay in   *)
(* the outbox, or never had it, is not sent later, by whatever handler,    *)
(* after whatever restart or further change of mode.                       *)
NoBackfill == \A t \in withdrawn : job[t] = "none"

(* "so a new Harness conversation cannot recall before the prior           *)
(* conversation has submitted its final writeback": when the evidence for  *)
(* a prompt is recalled, the writebacks its project had when it came are   *)
(* over.                                                                   *)
RecallAfterWriteback == [][\A t \in Turns :
    turns[t].pc = "next" /\ turns'[t].pc = "answering" =>
        \A u \in prior[t] : turns[u].pc = "done"]_vars

=============================================================================
