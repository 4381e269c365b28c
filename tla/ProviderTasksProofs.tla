------------------------ MODULE ProviderTasksProofs ------------------------
(***************************************************************************)
(* Proofs about the broker of provider tasks, for every number of tasks,   *)
(* executors, attempts and leases, over a network that loses and repeats.  *)
(***************************************************************************)
EXTENDS ProviderTasks, TLAPS

(* What is true of a row by itself *)
RowOK(row) ==
    /\ row.state \in {"absent", "queued", "leased"} => ~row.started
    /\ row.state = "running" => row.started
    /\ row.token # 0 => row.token = row.leases
    /\ row.state \in TaskActive <=> row.token # 0
    /\ row.state \in TaskActive <=> row.lease # NoLease
    /\ row.state \notin TaskTerminal => row.error = "none"
    /\ row.error = "unavailable" => row.state = "failed"

Rows == \A t \in Tasks : RowOK(tasks[t])

(* Whoever is permitted to call holds the last lease of a started task,    *)
(* and nobody else holds that lease.                                       *)
HolderOK(e) ==
    LET x == execs[e]
    IN  /\ x.phase # "idle" => x.task \in Tasks /\ x.token <= tasks[x.task].leases
        /\ x.phase \in {"permitted", "calling", "reporting"} =>
              tasks[x.task].started /\ x.token = tasks[x.task].leases
        /\ x.phase = "reporting" => x.report \in TaskTerminal
        /\ x.phase = "calling"
           \/ (x.phase = "reporting" /\ x.report \in {"completed", "failed"})
              => calls[x.task] = 1

Alone ==
    \A e, f \in Executors :
        e # f /\ execs[e].phase # "idle" /\ execs[f].phase # "idle"
        /\ execs[e].task = execs[f].task => execs[e].token # execs[f].token

Holders == Alone /\ \A e \in Executors : HolderOK(e)

(* Nobody is left who could call a second time. *)
Called ==
    \A t \in Tasks :
        /\ calls[t] <= 1
        /\ calls[t] = 1 =>
              /\ tasks[t].started
              /\ \A e \in Executors : execs[e].phase \in {"starting", "permitted"}
                                      /\ execs[e].task = t => execs[e].token # tasks[t].leases

(* A report on its way is about a task that was started, and not made up.  *)
Reports ==
    \A r \in net : r.kind \in TaskTerminal =>
        /\ tasks[r.task].started
        /\ r.kind \in {"completed", "failed"} => calls[r.task] = 1

Verdicts ==
    \A t \in Tasks : waits[t].state = "returned" =>
        tasks[t].state \in TaskTerminal /\ tasks[t].state = waits[t].verdict

TaskInv == TypeOK /\ Rows /\ Holders /\ Called /\ Reports /\ Verdicts

-----------------------------------------------------------------------------
(* Rows *)

(* What one transaction of the broker may do to one row. *)
Advances(old, new) ==
    /\ new \in TaskRow /\ RowOK(new)
    /\ old.leases <= new.leases
    /\ old.started => new.started /\ new.leases = old.leases
    /\ old.state \in TaskTerminal => new = old

(* The transactions that give no lease, start no task and end none with a  *)
(* report leave a row, requeue it or give it up.                           *)
Expires(old, new) ==
    \/ new = old
    \/ old.state = "leased" /\ new = [old EXCEPT !.state = "queued", !.token = 0, !.lease = NoLease]
    \/ old.state = "running" /\ new = Ended(old, "unknown", "expired")

LEMMA ExpiryRows ==
    ASSUME TypeOK, NEW m
    PROVE  /\ DOMAIN Expired(m) = Tasks
           /\ \A t \in Tasks : Expires(tasks[t], Expired(m)[t])
  BY DEF Expired, Expires

LEMMA ExpiresAdvances ==
    ASSUME NEW old \in TaskRow, RowOK(old), NEW new, Expires(old, new)
    PROVE  /\ Advances(old, new)
           /\ new.started = old.started /\ new.leases = old.leases
           /\ new.state \in TaskActive => new = old
<1>1. CASE new = old
  BY <1>1 DEF Advances, TaskRow
<1>2. CASE old.state = "leased" /\ new = [old EXCEPT !.state = "queued", !.token = 0, !.lease = NoLease]
  <2>1. /\ new \in TaskRow
        /\ new.state = "queued" /\ new.token = 0 /\ new.lease = NoLease
        /\ new.leases = old.leases /\ new.started = old.started /\ new.error = old.error
    BY <1>2 DEF TaskRow, TaskStates
  <2> QED
    BY <1>2, <2>1 DEF Advances, RowOK, TaskActive, TaskTerminal, TaskRow
<1>3. CASE old.state = "running" /\ new = Ended(old, "unknown", "expired")
  <2>1. /\ new \in TaskRow
        /\ new.state = "unknown" /\ new.token = 0 /\ new.lease = NoLease
        /\ new.leases = old.leases /\ new.started = old.started /\ new.error = "expired"
    BY <1>3 DEF Ended, TaskRow, TaskStates, TaskTerminal, Errors
  <2> QED
    BY <1>3, <2>1 DEF Advances, RowOK, TaskActive, TaskTerminal, TaskRow
<1> QED
  BY <1>1, <1>2, <1>3 DEF Expires

LEMMA EndedAdvances ==
    ASSUME NEW row \in TaskRow, RowOK(row), row.state \notin TaskTerminal,
           NEW state \in TaskTerminal, NEW error \in Errors,
           error = "unavailable" => state = "failed"
    PROVE  /\ Advances(row, Ended(row, state, error))
           /\ Ended(row, state, error).state = state /\ Ended(row, state, error).error = error
           /\ Ended(row, state, error).started = row.started
<1> DEFINE new == Ended(row, state, error)
<1>1. /\ new \in TaskRow
      /\ new.state = state /\ new.token = 0 /\ new.lease = NoLease
      /\ new.leases = row.leases /\ new.started = row.started /\ new.error = error
  BY DEF Ended, TaskRow, TaskStates
<1> HIDE DEF new
<1>2. Advances(row, new)
  BY <1>1 DEF Advances, RowOK, TaskActive, TaskTerminal, TaskRow
<1> QED
  BY <1>1, <1>2 DEF new

TableMoves == tasks' \in [Tasks -> TaskRow] /\ \A t \in Tasks : Advances(tasks[t], tasks'[t])

LEMMA SameRows ==
    ASSUME TypeOK, Rows PROVE \A t \in Tasks : Advances(tasks[t], tasks[t])
<1> SUFFICES ASSUME NEW t \in Tasks PROVE Advances(tasks[t], tasks[t])
  OBVIOUS
<1>1. tasks[t] \in TaskRow /\ RowOK(tasks[t])
  BY DEF TypeOK, Rows
<1>2. tasks[t].leases \in Nat
  BY <1>1 DEF TaskRow
<1> QED
  BY <1>1, <1>2 DEF Advances

LEMMA ExpiryMoves ==
    ASSUME TypeOK, Rows, NEW m
    PROVE  /\ Expired(m) \in [Tasks -> TaskRow]
           /\ \A t \in Tasks : Advances(tasks[t], Expired(m)[t])
           /\ tasks' = Expired(m) => TableMoves
<1>1. \A t \in Tasks : tasks[t] \in TaskRow /\ RowOK(tasks[t])
  BY DEF TypeOK, Rows
<1>2. \A t \in Tasks : Advances(tasks[t], Expired(m)[t])
  BY <1>1, ExpiryRows, ExpiresAdvances
<1>3. \A t \in Tasks : Expired(m)[t] \in TaskRow
  BY <1>2 DEF Advances
<1>4. Expired(m) \in [Tasks -> TaskRow]
  BY <1>3 DEF Expired
<1> QED
  BY <1>2, <1>4 DEF TableMoves

LEMMA OneRow ==
    ASSUME TypeOK, Rows, NEW m, NEW t \in Tasks, NEW row, Advances(Expired(m)[t], row),
           tasks' = [Expired(m) EXCEPT ![t] = row]
    PROVE  TableMoves /\ tasks'[t] = row /\ \A u \in Tasks \ {t} : tasks'[u] = Expired(m)[u]
<1>1. Expired(m) \in [Tasks -> TaskRow] /\ \A u \in Tasks : Advances(tasks[u], Expired(m)[u])
  BY ExpiryMoves
<1>2. tasks' \in [Tasks -> TaskRow] /\ tasks'[t] = row
  BY <1>1 DEF Advances
<1>3. \A u \in Tasks \ {t} : tasks'[u] = Expired(m)[u]
  BY <1>1
<1>4. Advances(tasks[t], row)
  <2>1. Advances(tasks[t], Expired(m)[t])
    BY <1>1
  <2>2. tasks[t].leases \in Nat /\ Expired(m)[t].leases \in Nat /\ row.leases \in Nat
    BY <2>1 DEF Advances, TypeOK, TaskRow
  <2> QED
    BY <2>1, <2>2 DEF Advances
<1> QED
  BY <1>1, <1>2, <1>3, <1>4 DEF TableMoves

(* Whatever the rows go through, nobody gets a second permission. *)
LEMMA TableKeeps ==
    ASSUME TaskInv, TableMoves
    PROVE  /\ Rows'
           /\ UNCHANGED <<execs, calls>> => Holders' /\ Called'
           /\ net' \subseteq net /\ UNCHANGED calls => Reports'
           /\ UNCHANGED waits => Verdicts'
<1> USE DEF TaskInv
<1>1. \A t \in Tasks : /\ RowOK(tasks'[t]) /\ tasks[t].leases <= tasks'[t].leases
                       /\ tasks[t].started => tasks'[t].started
                                              /\ tasks'[t].leases = tasks[t].leases
                       /\ tasks[t].state \in TaskTerminal => tasks'[t] = tasks[t]
                       /\ tasks[t].leases \in Nat /\ tasks'[t].leases \in Nat
  BY DEF TableMoves, Advances, TypeOK, TaskRow
<1>2. Rows'
  BY <1>1 DEF Rows
<1>3. ASSUME UNCHANGED <<execs, calls>> PROVE Holders' /\ Called'
  <2>1. ASSUME NEW e \in Executors PROVE HolderOK(e)'
    <3>1. HolderOK(e) /\ execs[e].token \in Nat
      BY DEF Holders, TypeOK, Exec
    <3> QED
      BY <1>1, <1>3, <3>1 DEF HolderOK
  <2>2. Holders'
    BY <1>3, <2>1 DEF Holders, Alone
  <2>3. Called'
    BY <1>1, <1>3 DEF Called
  <2> QED
    BY <2>2, <2>3
<1>4. ASSUME net' \subseteq net, UNCHANGED calls PROVE Reports'
  BY <1>1, <1>4 DEF Reports, TypeOK, Requests
<1>5. ASSUME UNCHANGED waits PROVE Verdicts'
  BY <1>1, <1>5 DEF Verdicts
<1> QED
  BY <1>2, <1>3, <1>4, <1>5

LEMMA TypeRows ==
    ASSUME tasks' \in [Tasks -> TaskRow], Rows'
    PROVE  /\ \A t \in Tasks : tasks'[t].state \in TaskActive <=> tasks'[t].token # 0
           /\ \A t \in Tasks : tasks'[t].state \in TaskActive <=> tasks'[t].lease # NoLease
  BY DEF Rows, RowOK

-----------------------------------------------------------------------------
(* The service waits *)

LEMMA WaiterKeeps == ASSUME TaskInv, WaiterStep PROVE TaskInv'
<1> USE DEF TaskInv
<1>0. /\ tasks \in [Tasks -> TaskRow] /\ waits \in [Tasks -> Waits] /\ now \in Nat
      /\ Patience \in Nat
  BY ProviderTasksAssumption DEF TypeOK
<1>1. ASSUME TableMoves, waits' \in [Tasks -> Waits], UNCHANGED <<execs, net, calls, now>>,
             \A t \in Tasks : waits'[t] # waits[t] /\ waits'[t].state = "returned" =>
                tasks'[t].state \in TaskTerminal /\ tasks'[t].state = waits'[t].verdict
      PROVE  TaskInv'
  <2>1. Rows' /\ Holders' /\ Called' /\ Reports'
    BY <1>1, TableKeeps
  <2>2. Verdicts'
    <3> SUFFICES ASSUME NEW t \in Tasks, waits'[t].state = "returned"
                 PROVE  tasks'[t].state \in TaskTerminal /\ tasks'[t].state = waits'[t].verdict
      BY DEF Verdicts
    <3>1. CASE waits'[t] = waits[t]
      BY <1>1, <3>1 DEF Verdicts, TableMoves, Advances
    <3> QED
      BY <1>1, <3>1
  <2>3. TypeOK'
    BY <1>1, <2>1, TypeRows DEF TypeOK, TableMoves
  <2> QED
    BY <2>1, <2>2, <2>3
<1>2. ASSUME NEW t \in Tasks, Create(t) PROVE TaskInv'
  <2>1. TableMoves
    <3>1. CASE tasks' = tasks
      BY <1>0, <3>1, SameRows DEF TableMoves
    <3>2. CASE tasks[t].state = "absent" /\ tasks' = [tasks EXCEPT ![t].state = "queued", ![t].created = now]
      <4> DEFINE new == [tasks[t] EXCEPT !.state = "queued", !.created = now]
      <4>1. tasks' = [tasks EXCEPT ![t] = new]
        BY <1>0, <3>2
      <4>2. Advances(tasks[t], new)
        <5>1. tasks[t] \in TaskRow /\ RowOK(tasks[t])
          BY <1>0 DEF Rows
        <5>2. /\ new \in TaskRow /\ new.state = "queued" /\ new.token = tasks[t].token
              /\ new.lease = tasks[t].lease /\ new.leases = tasks[t].leases
              /\ new.started = tasks[t].started /\ new.error = tasks[t].error
              /\ new.leases \in Nat
          BY <1>0, <5>1 DEF TaskRow, TaskStates
        <5> HIDE DEF new
        <5> QED
          BY <3>2, <5>1, <5>2 DEF Advances, RowOK, TaskActive, TaskTerminal
      <4> HIDE DEF new
      <4>3. \A u \in Tasks : tasks'[u] = IF u = t THEN new ELSE tasks[u]
        BY <1>0, <4>1
      <4>4. new \in TaskRow
        BY <4>2 DEF Advances
      <4>5. tasks' \in [Tasks -> TaskRow]
        BY <1>0, <4>1, <4>4
      <4> QED
        BY <4>2, <4>3, <4>5, SameRows DEF TableMoves
    <3> QED
      BY <1>2, <3>1, <3>2 DEF Create
  <2>2. waits' = [waits EXCEPT ![t] = [state |-> "waiting", deadline |-> now + Patience,
                                       verdict |-> "none"]]
    BY <1>2 DEF Create
  <2>3. waits' \in [Tasks -> Waits] /\ waits'[t].state = "waiting"
    BY <1>0, <2>2 DEF Waits
  <2> QED
    BY <1>0, <1>1, <1>2, <2>1, <2>2, <2>3 DEF Create
<1>3. ASSUME NEW t \in Tasks, NEW m, Poll(t, m) PROVE TaskInv'
  <2>1. TableMoves
    BY <1>3, ExpiryMoves DEF Poll
  <2>2. \/ waits' = waits
        \/ waits' = [waits EXCEPT ![t].state = "late"]
        \/ /\ tasks'[t].state \in TaskTerminal
           /\ waits' = [waits EXCEPT ![t].state = "returned", ![t].verdict = tasks'[t].state]
    BY <1>3 DEF Poll, Returned
  <2>3. waits' \in [Tasks -> Waits]
    BY <1>0, <2>2 DEF Waits
  <2>4. \A u \in Tasks : waits'[u] # waits[u] /\ waits'[u].state = "returned" =>
           tasks'[u].state \in TaskTerminal /\ tasks'[u].state = waits'[u].verdict
    BY <1>0, <2>2 DEF Waits
  <2> QED
    BY <1>1, <1>3, <2>1, <2>3, <2>4 DEF Poll
<1>4. ASSUME NEW t \in Tasks, GiveUp(t) PROVE TaskInv'
  <2> DEFINE row == tasks[t]
  <2>1. TableMoves /\ tasks'[t].state \in TaskTerminal
    <3>1. CASE Terminal(t)
      BY <1>0, <1>4, <3>1, SameRows DEF GiveUp, Terminal, TableMoves
    <3>2. CASE ~Terminal(t)
      <4>1. Advances(row, Abandoned(row)) /\ Abandoned(row).state \in TaskTerminal
        <5>1. row \in TaskRow /\ RowOK(row) /\ row.state \notin TaskTerminal
          BY <1>0, <3>2 DEF Rows, Terminal
        <5> QED
          BY <5>1, EndedAdvances DEF Abandoned, TaskTerminal, Errors
      <4>2. tasks' = [tasks EXCEPT ![t] = Abandoned(row)]
        BY <1>4, <3>2 DEF GiveUp
      <4>3. Abandoned(row) \in TaskRow
        BY <4>1 DEF Advances
      <4>4. tasks' \in [Tasks -> TaskRow]
        BY <1>0, <4>2, <4>3
      <4>5. \A u \in Tasks : tasks'[u] = IF u = t THEN Abandoned(row) ELSE tasks[u]
        BY <1>0, <4>2
      <4> QED
        BY <4>1, <4>4, <4>5, SameRows DEF TableMoves
    <3> QED
      BY <3>1, <3>2
  <2>2. waits' = [waits EXCEPT ![t].state = "returned", ![t].verdict = tasks'[t].state]
    BY <1>4 DEF GiveUp, Returned
  <2>3. waits' \in [Tasks -> Waits]
    BY <1>0, <2>1, <2>2 DEF Waits
  <2>4. \A u \in Tasks : waits'[u] # waits[u] /\ waits'[u].state = "returned" =>
           tasks'[u].state \in TaskTerminal /\ tasks'[u].state = waits'[u].verdict
    BY <1>0, <2>1, <2>2 DEF Waits
  <2> QED
    BY <1>1, <1>4, <2>1, <2>3, <2>4 DEF GiveUp
<1>5. ASSUME NEW t \in Tasks, WaiterDies(t) PROVE TaskInv'
  <2>1. waits' = [waits EXCEPT ![t].state = "died"] /\ TableMoves
    BY <1>0, <1>5, SameRows DEF WaiterDies, TableMoves
  <2>2. waits' \in [Tasks -> Waits] /\ waits'[t].state = "died"
    BY <1>0, <2>1 DEF Waits
  <2> QED
    BY <1>0, <1>1, <1>5, <2>1, <2>2 DEF WaiterDies
<1> QED
  BY <1>2, <1>3, <1>4, <1>5 DEF WaiterStep

-----------------------------------------------------------------------------
(* The broker answers *)

LEMMA OneExec ==
    ASSUME TaskInv, TableMoves, NEW e \in Executors, UNCHANGED calls,
           execs' \in [Executors -> Exec],
           \A f \in Executors \ {e} : execs'[f] = execs[f],
           HolderOK(e)',
           \/ execs'[e].phase = "idle"
           \/ /\ execs[e].phase # "idle"
              /\ execs'[e].task = execs[e].task /\ execs'[e].token = execs[e].token
           \/ execs'[e].task \in Tasks /\ execs'[e].token > tasks[execs'[e].task].leases,
           execs'[e].phase \in {"starting", "permitted"} =>
              calls[execs'[e].task] # 1 \/ execs'[e].token # tasks'[execs'[e].task].leases
    PROVE  Holders' /\ Called'
<1> USE DEF TaskInv
<1>1. \A t \in Tasks : /\ tasks[t].leases <= tasks'[t].leases
                       /\ tasks[t].started => tasks'[t].started
                                              /\ tasks'[t].leases = tasks[t].leases
                       /\ tasks[t].leases \in Nat /\ tasks'[t].leases \in Nat
  BY DEF TableMoves, Advances, TypeOK, TaskRow
<1>2. ASSUME NEW f \in Executors PROVE HolderOK(f)'
  <2>1. CASE f = e
    BY <2>1
  <2>2. CASE f # e
    <3>1. HolderOK(f) /\ execs[f].token \in Nat /\ execs'[f] = execs[f]
      BY <2>2 DEF Holders, TypeOK, Exec
    <3> QED
      BY <1>1, <3>1 DEF HolderOK
  <2> QED
    BY <2>1, <2>2
<1>3. ASSUME NEW f \in Executors \ {e}, execs'[e].phase # "idle", execs[f].phase # "idle",
             execs'[e].task = execs[f].task
      PROVE  execs'[e].token # execs[f].token
  <2>1. CASE /\ execs[e].phase # "idle"
             /\ execs'[e].task = execs[e].task /\ execs'[e].token = execs[e].token
    BY <1>3, <2>1 DEF Holders, Alone
  <2>2. CASE execs'[e].task \in Tasks /\ execs'[e].token > tasks[execs'[e].task].leases
    <3>1. execs[f].token \in Nat /\ execs[f].token <= tasks[execs[f].task].leases
      BY <1>3 DEF Holders, HolderOK, TypeOK, Exec
    <3>2. tasks[execs'[e].task].leases \in Nat /\ execs'[e].token \in Nat
      BY <1>1, <2>2 DEF Exec
    <3> QED
      BY <1>3, <2>2, <3>1, <3>2
  <2> QED
    BY <1>3, <2>1, <2>2
<1>4. Alone'
  BY <1>3 DEF Alone, Holders
<1>5. Called'
  <2> SUFFICES ASSUME NEW t \in Tasks, calls[t] = 1
               PROVE  /\ tasks'[t].started
                      /\ \A f \in Executors : execs'[f].phase \in {"starting", "permitted"}
                             /\ execs'[f].task = t => execs'[f].token # tasks'[t].leases
    BY DEF Called
  <2>1. tasks[t].started /\ tasks'[t].leases = tasks[t].leases /\ tasks'[t].started
    BY <1>1 DEF Called
  <2>2. ASSUME NEW f \in Executors, execs'[f].phase \in {"starting", "permitted"},
               execs'[f].task = t
        PROVE  execs'[f].token # tasks'[t].leases
    <3>1. CASE f = e
      BY <2>2, <3>1
    <3>2. CASE f # e
      BY <2>1, <2>2, <3>2 DEF Called
    <3> QED
      BY <3>1, <3>2
  <2> QED
    BY <2>1, <2>2
<1> QED
  BY <1>2, <1>4, <1>5 DEF Holders

LEMMA BrokerTypes ==
    ASSUME TaskInv, TableMoves, UNCHANGED <<waits, calls, now>>,
           execs' \in [Executors -> Exec], net' \subseteq Requests,
           Holders', Called', Reports'
    PROVE  TaskInv'
<1>1. Rows' /\ Verdicts'
  BY TableKeeps
<1> QED
  BY <1>1, TypeRows DEF TaskInv, TypeOK, TableMoves

LEMMA ClaimKeeps ==
    ASSUME TaskInv, NEW e \in Executors, NEW m \in Moments, NEW heard \in BOOLEAN,
           ClaimNext(e, m, heard)
    PROVE  TaskInv'
<1> DEFINE table == Expired(m)
<1> USE DEF TaskInv
<1>0. /\ execs \in [Executors -> Exec] /\ net \subseteq Requests /\ m \in Nat /\ Lease \in Nat
      /\ UNCHANGED <<waits, calls, now>>
  <2>1. UNCHANGED <<waits, calls, now>>
    BY DEF ClaimNext
  <2> QED
    BY <2>1, ProviderTasksAssumption DEF TypeOK, Moments
<1>1. CASE tasks' = table /\ UNCHANGED <<execs, net>>
  <2>1. TableMoves
    BY <1>1, ExpiryMoves
  <2> QED
    BY <1>0, <1>1, <2>1, TableKeeps, BrokerTypes
<1>2. ASSUME NEW t \in Offered(e, table),
             tasks' = [table EXCEPT ![t].state = "leased", ![t].token = table[t].leases + 1,
                                    ![t].leases = table[t].leases + 1, ![t].lease = m + Lease],
             \/ UNCHANGED <<execs, net>>
             \/ /\ execs' = [execs EXCEPT ![e] = [phase |-> "starting", task |-> t,
                                 token |-> table[t].leases + 1, attempt |-> 1, report |-> "none"]]
                /\ net' = net \cup {Start(e, t, table[t].leases + 1, 1)}
      PROVE  TaskInv'
  <2> DEFINE n == table[t].leases + 1
             row == [table[t] EXCEPT !.state = "leased", !.token = n, !.leases = n,
                                     !.lease = m + Lease]
  <2>1. t \in Tasks /\ table[t].state = "queued"
    BY ProviderTasksAssumption DEF Offered
  <2>2. /\ table[t] \in TaskRow /\ RowOK(table[t]) /\ table \in [Tasks -> TaskRow]
        /\ Advances(tasks[t], table[t])
    BY <2>1, ExpiryMoves DEF Advances
  <2>3. /\ table[t].leases = tasks[t].leases /\ tasks[t].leases \in Nat /\ n \in Nat
        /\ ~table[t].started /\ ~tasks[t].started
    <3>1. Expires(tasks[t], table[t])
      BY <2>1, ExpiryRows
    <3>2. tasks[t] \in TaskRow /\ RowOK(tasks[t])
      BY <2>1 DEF TypeOK, Rows
    <3>3. table[t].started = tasks[t].started /\ table[t].leases = tasks[t].leases
      BY <3>1, <3>2, ExpiresAdvances
    <3> QED
      BY <2>1, <2>2, <3>2, <3>3 DEF RowOK, TaskRow
  <2>4. /\ row \in TaskRow /\ row.state = "leased" /\ row.token = n /\ row.leases = n
        /\ row.lease = m + Lease /\ row.started = table[t].started /\ row.error = table[t].error
    <3>1. m + Lease \in Nat /\ "leased" \in TaskStates
      BY <1>0 DEF TaskStates, TaskActive
    <3> HIDE DEF n, table
    <3> QED
      BY <2>2, <2>3, <3>1 DEF TaskRow
  <2>5. tasks' = [table EXCEPT ![t] = row]
    BY <1>2, <2>1, <2>2
  <2> HIDE DEF row
  <2>6. Advances(table[t], row)
    BY <1>0, <2>1, <2>2, <2>3, <2>4 DEF Advances, RowOK, TaskActive, TaskTerminal, NoLease
  <2>7. TableMoves /\ tasks'[t] = row
    BY <2>1, <2>5, <2>6, OneRow
  <2>8. CASE UNCHANGED <<execs, net>>
    BY <1>0, <2>7, <2>8, TableKeeps, BrokerTypes
  <2>9. CASE /\ execs' = [execs EXCEPT ![e] = [phase |-> "starting", task |-> t,
                              token |-> n, attempt |-> 1, report |-> "none"]]
             /\ net' = net \cup {Start(e, t, n, 1)}
    <3>1. /\ execs' \in [Executors -> Exec]
          /\ execs'[e].phase = "starting" /\ execs'[e].task = t /\ execs'[e].token = n
          /\ \A f \in Executors \ {e} : execs'[f] = execs[f]
      BY <1>0, <2>1, <2>3, <2>9 DEF Exec
    <3>2. net' \subseteq Requests
      BY <1>0, <2>1, <2>3, <2>9 DEF Start, Requests
    <3>3. HolderOK(e)'
      BY <2>1, <2>3, <2>4, <2>7, <3>1 DEF HolderOK
    <3>4. calls[t] # 1
      BY <2>1, <2>3 DEF Called
    <3>5. Holders' /\ Called'
      BY <1>0, <2>1, <2>3, <2>7, <3>1, <3>3, <3>4, OneExec
    <3>6. Reports'
      <4>1. \A r \in net' : r.kind \in TaskTerminal => r \in net
        BY <2>9 DEF Start, TaskTerminal
      <4>2. \A r \in net : tasks[r.task].started => tasks'[r.task].started
        BY <2>7 DEF TableMoves, Advances, TypeOK, Requests
      <4> QED
        BY <1>0, <4>1, <4>2 DEF Reports
    <3> QED
      BY <1>0, <2>7, <3>1, <3>2, <3>5, <3>6, BrokerTypes
  <2> QED
    BY <1>2, <2>8, <2>9
<1>3. \/ tasks' = table /\ UNCHANGED <<execs, net>>
      \/ \E t \in Offered(e, table) :
           /\ tasks' = [table EXCEPT ![t].state = "leased", ![t].token = table[t].leases + 1,
                                    ![t].leases = table[t].leases + 1, ![t].lease = m + Lease]
           /\ \/ UNCHANGED <<execs, net>>
              \/ /\ execs' = [execs EXCEPT ![e] = [phase |-> "starting", task |-> t,
                                 token |-> table[t].leases + 1, attempt |-> 1, report |-> "none"]]
                 /\ net' = net \cup {Start(e, t, table[t].leases + 1, 1)}
  BY DEF ClaimNext
<1> QED
  BY <1>1, <1>2, <1>3

(* The answer moves nobody but the executor that asked. *)
LEMMA AnswerKeeps ==
    ASSUME TaskInv, TableMoves, NEW r \in net, NEW next \in Exec, NEW heard \in BOOLEAN,
           UNCHANGED <<waits, calls, now>>, net' = net \ {r}, Answered(r, heard, next),
           \/ next.phase = "idle"
           \/ /\ next = [execs[r.from] EXCEPT !.phase = "permitted"] /\ r.kind = "start"
              /\ Awaits(r.from, r) => tasks'[r.task].started /\ tasks'[r.task].leases = r.token
                                      /\ tasks[r.task].leases = r.token
    PROVE  TaskInv'
<1> DEFINE e == r.from
<1> USE DEF TaskInv
<1>1. /\ execs \in [Executors -> Exec] /\ net \subseteq Requests /\ e \in Executors
      /\ r.task \in Tasks /\ r.token \in Nat
  BY DEF TypeOK, Requests
<1>2. net' \subseteq net /\ net' \subseteq Requests
  BY <1>1
<1>3. Reports'
  BY <1>2, TableKeeps
<1>4. CASE UNCHANGED execs
  BY <1>1, <1>2, <1>3, <1>4, TableKeeps, BrokerTypes
<1>5. CASE heard /\ Awaits(e, r)
  <2>1. /\ execs' \in [Executors -> Exec] /\ execs'[e] = next
        /\ \A f \in Executors \ {e} : execs'[f] = execs[f]
    BY <1>1, <1>5 DEF Answered
  <2>2. CASE next.phase = "idle"
    <3>1. HolderOK(e)'
      BY <2>1, <2>2 DEF HolderOK
    <3> QED
      BY <1>1, <1>2, <1>3, <2>1, <2>2, <3>1, OneExec, BrokerTypes
  <2>3. CASE /\ next = [execs[e] EXCEPT !.phase = "permitted"] /\ r.kind = "start"
             /\ tasks'[r.task].started /\ tasks'[r.task].leases = r.token
             /\ tasks[r.task].leases = r.token
    <3>1. /\ execs[e].phase = "starting" /\ execs[e].task = r.task /\ execs[e].token = r.token
      BY <1>5, <2>3 DEF Awaits
    <3>2. next.phase = "permitted" /\ next.task = r.task /\ next.token = r.token
      BY <1>1, <2>3, <3>1 DEF Exec
    <3>3. HolderOK(e)'
      BY <1>1, <2>1, <2>3, <3>2 DEF HolderOK
    <3>4. calls[r.task] # 1
      BY <1>1, <2>3, <3>1 DEF Called
    <3>5. Holders' /\ Called'
      BY <1>1, <2>1, <3>1, <3>2, <3>3, <3>4, OneExec
    <3> QED
      BY <1>2, <1>3, <2>1, <3>5, BrokerTypes
  <2> QED
    BY <1>5, <2>2, <2>3
<1> QED
  BY <1>4, <1>5 DEF Answered

LEMMA StartKeeps ==
    ASSUME TaskInv, NEW r \in net, NEW m \in Moments, NEW heard \in BOOLEAN,
           HandleStart(r, m, heard)
    PROVE  TaskInv'
<1> DEFINE table == Expired(m)
           row == table[r.task]
           next == [execs[r.from] EXCEPT !.phase = "permitted"]
<1> USE DEF TaskInv
<1>0. /\ execs[r.from] \in Exec /\ r.task \in Tasks /\ m \in Nat /\ Lease \in Nat
      /\ UNCHANGED <<waits, calls, now>> /\ net' = net \ {r} /\ r.kind = "start"
      /\ Idle \in Exec /\ Idle.phase = "idle" /\ next \in Exec
  BY ProviderTasksAssumption DEF TypeOK, Requests, Moments, HandleStart, Exec, Idle
<1>1. CASE tasks' = tasks /\ Answered(r, heard, Idle)
  <2>1. TableMoves
    BY <1>1, SameRows DEF TableMoves, TypeOK
  <2> QED
    BY <1>0, <1>1, <2>1, AnswerKeeps
<1>2. ASSUME row.state \in TaskActive, LeaseMatches(row, r.token, m),
             Answered(r, heard, next),
             tasks' = IF row.state = "running" THEN table
                      ELSE [table EXCEPT ![r.task] =
                              [@ EXCEPT !.state = "running", !.started = TRUE, !.lease = m + Lease]]
      PROVE  TaskInv'
  <2>1. /\ row = tasks[r.task] /\ row \in TaskRow /\ RowOK(row) /\ row.leases = r.token
        /\ table \in [Tasks -> TaskRow]
    <3>1. tasks[r.task] \in TaskRow /\ RowOK(tasks[r.task]) /\ Expires(tasks[r.task], row)
      BY <1>0, ExpiryRows DEF TypeOK, Rows
    <3>2. row = tasks[r.task]
      BY <1>2, <3>1, ExpiresAdvances
    <3> QED
      BY <1>2, <3>1, <3>2, ExpiryMoves DEF LeaseMatches, RowOK
  <2>2. TableMoves /\ tasks'[r.task].started /\ tasks'[r.task].leases = row.leases
    <3>1. CASE row.state = "running" /\ tasks' = table
      BY <2>1, <3>1, ExpiryMoves DEF RowOK
    <3>2. CASE row.state = "leased" /\ tasks' = [table EXCEPT ![r.task] =
                 [row EXCEPT !.state = "running", !.started = TRUE, !.lease = m + Lease]]
      <4> DEFINE new == [row EXCEPT !.state = "running", !.started = TRUE, !.lease = m + Lease]
      <4>1. /\ new \in TaskRow /\ new.state = "running" /\ new.started /\ new.lease = m + Lease
            /\ new.token = row.token /\ new.leases = row.leases /\ new.error = row.error
            /\ row.leases \in Nat /\ new.lease \in Nat
        <5>1. m + Lease \in Nat /\ "running" \in TaskStates
          BY <1>0 DEF TaskStates, TaskActive
        <5> HIDE DEF row
        <5> QED
          BY <2>1, <5>1 DEF TaskRow
      <4>2. tasks' = [table EXCEPT ![r.task] = new]
        BY <3>2
      <4> HIDE DEF new
      <4>3. Advances(row, new)
        BY <2>1, <3>2, <4>1 DEF Advances, RowOK, TaskActive, TaskTerminal, NoLease
      <4>4. PICK t \in Tasks : t = r.task
        BY <1>0
      <4>5. TableMoves /\ tasks'[r.task] = new
        <5>1. tasks' = [Expired(m) EXCEPT ![t] = new] /\ Advances(Expired(m)[t], new)
          BY <4>2, <4>3, <4>4
        <5>2. TableMoves /\ tasks'[t] = new
          BY <5>1, OneRow
        <5> QED
          BY <4>4, <5>2
      <4> QED
        BY <4>1, <4>5
    <3> QED
      BY <1>2, <3>1, <3>2 DEF TaskActive
  <2> QED
    BY <1>0, <1>2, <2>1, <2>2, AnswerKeeps
<1> QED
  BY <1>1, <1>2 DEF HandleStart

LEMMA ReportKeeps ==
    ASSUME TaskInv, NEW r \in net, NEW m \in Moments, NEW heard \in BOOLEAN,
           HandleReport(r, m, heard)
    PROVE  TaskInv'
<1> DEFINE table == Expired(m)
           row == table[r.task]
<1> USE DEF TaskInv
<1>0. /\ r.task \in Tasks /\ UNCHANGED <<waits, calls, now>> /\ net' = net \ {r}
      /\ r.kind \in TaskTerminal /\ Idle \in Exec /\ Idle.phase = "idle"
      /\ Answered(r, heard, Idle)
  BY DEF TypeOK, Requests, HandleReport, Exec, Idle
<1>1. TableMoves
  <2>1. CASE tasks' = tasks
    BY <2>1, SameRows DEF TableMoves, TypeOK
  <2>2. CASE tasks' = table
    BY <2>2, ExpiryMoves
  <2>3. CASE row.state \in TaskActive /\ tasks' = [table EXCEPT ![r.task] = Ended(row, r.kind, "reported")]
    <3>1. Advances(row, Ended(row, r.kind, "reported"))
      <4>1. row \in TaskRow /\ RowOK(row)
        BY <1>0, ExpiryMoves DEF Advances
      <4> QED
        BY <1>0, <2>3, <4>1, EndedAdvances DEF TaskActive, TaskTerminal, Errors
    <3> QED
      BY <1>0, <2>3, <3>1, OneRow
  <2> QED
    BY <2>1, <2>2, <2>3 DEF HandleReport, TaskActive
<1> QED
  BY <1>0, <1>1, AnswerKeeps

LEMMA HeartbeatKeeps ==
    ASSUME TaskInv, NEW e \in Executors, NEW m \in Moments, Heartbeat(e, m)
    PROVE  TaskInv'
<1> DEFINE table == Expired(m)
           t == execs[e].task
           row == table[t]
           new == [row EXCEPT !.lease = m + Lease]
<1> USE DEF TaskInv
<1>0. /\ t \in Tasks /\ m \in Nat /\ Lease \in Nat /\ UNCHANGED <<waits, execs, net, calls, now>>
      /\ row.state \in TaskActive /\ tasks' = [table EXCEPT ![t].lease = m + Lease]
  BY ProviderTasksAssumption DEF Holders, HolderOK, Moments, Heartbeat
<1>1. row \in TaskRow /\ RowOK(row) /\ table \in [Tasks -> TaskRow]
  BY <1>0, ExpiryMoves DEF Advances
<1>2. tasks' = [table EXCEPT ![t] = new]
  BY <1>0, <1>1
<1>3. /\ new \in TaskRow /\ new.state = row.state /\ new.started = row.started
      /\ new.lease = m + Lease /\ new.token = row.token /\ new.leases = row.leases
      /\ new.error = row.error /\ row.leases \in Nat /\ new.lease \in Nat
  <2> HIDE DEF row
  <2> QED
    BY <1>0, <1>1 DEF TaskRow
<1> HIDE DEF new
<1>4. Advances(row, new)
  BY <1>0, <1>1, <1>3 DEF Advances, RowOK, TaskActive, TaskTerminal, NoLease
<1>5. TableMoves
  BY <1>0, <1>2, <1>4, OneRow
<1> QED
  BY <1>0, <1>5, TableKeeps, BrokerTypes DEF TypeOK

-----------------------------------------------------------------------------
(* The executor and the network *)

(* Steps that leave the rows and the waiters alone *)
LEMMA RowsAlone ==
    ASSUME TaskInv, UNCHANGED <<tasks, waits>>, now' \in Nat,
           execs' \in [Executors -> Exec], net' \subseteq Requests, calls' \in [Tasks -> Nat],
           Holders', Called', Reports'
    PROVE  TaskInv'
  BY DEF TaskInv, TypeOK, Rows, RowOK, Verdicts

(* An executor changes its phase, never its lease. *)
LEMMA SameLease ==
    ASSUME TaskInv, UNCHANGED <<tasks, waits, calls, now>>, NEW e \in Executors, NEW x \in Exec,
           execs' = [execs EXCEPT ![e] = x], net' \subseteq Requests, Reports',
           HolderOK(e)',
           \/ x.phase = "idle"
           \/ /\ execs[e].phase # "idle" /\ x.task = execs[e].task /\ x.token = execs[e].token
              /\ x.phase \in {"starting", "permitted"} =>
                    execs[e].phase \in {"starting", "permitted"}
    PROVE  TaskInv'
<1> USE DEF TaskInv
<1>1. /\ execs' \in [Executors -> Exec] /\ execs'[e] = x
      /\ \A f \in Executors \ {e} : execs'[f] = execs[f]
  BY DEF TypeOK
<1>2. TableMoves
  BY SameRows DEF TableMoves, TypeOK
<1>3. x.phase \in {"starting", "permitted"} => calls[x.task] # 1 \/ x.token # tasks[x.task].leases
  BY DEF Called, Holders, HolderOK
<1>4. Holders' /\ Called'
  BY <1>1, <1>2, <1>3, OneExec
<1> QED
  BY <1>1, <1>4, RowsAlone DEF TypeOK

LEMMA LoseKeeps == ASSUME TaskInv, NEW r \in net, Lose(r) PROVE TaskInv'
<1> USE DEF TaskInv, Lose
<1>1. TableMoves
  BY SameRows DEF TableMoves, TypeOK
<1>2. Rows' /\ Holders' /\ Called' /\ Reports'
  BY <1>1, TableKeeps
<1> QED
  BY <1>2, RowsAlone DEF TypeOK

LEMMA DiesKeeps == ASSUME TaskInv, NEW e \in Executors, ExecutorDies(e) PROVE TaskInv'
<1> USE DEF TaskInv, ExecutorDies
<1>1. Idle \in Exec /\ Idle.phase = "idle" /\ execs' = [execs EXCEPT ![e] = Idle]
  BY DEF Idle, Exec
<1>2. HolderOK(e)'
  BY <1>1 DEF HolderOK, TypeOK
<1>3. Reports'
  BY DEF Reports
<1> QED
  BY <1>1, <1>2, <1>3, SameLease DEF TypeOK

(* A request of an executor is about a lease it has been given. *)
LEMMA Asked ==
    ASSUME TaskInv, NEW e \in Executors, NEW x \in Exec, NEW n \in Nat,
           UNCHANGED <<tasks, calls>>, net' = net \cup {Request(x, e, n)}, x.task \in Tasks,
           \/ x.phase = "starting"
           \/ /\ x.phase = "reporting" /\ x.report \in TaskTerminal /\ tasks[x.task].started
              /\ x.report \in {"completed", "failed"} => calls[x.task] = 1
    PROVE  net' \subseteq Requests /\ Reports'
<1> DEFINE q == Request(x, e, n)
<1>1. /\ q.kind = IF x.phase = "starting" THEN "start" ELSE x.report
      /\ q.task = x.task /\ q \in Requests
  BY DEF Request, Requests, Exec
<1> HIDE DEF q
<1>2. net' = net \cup {q}
  BY DEF q
<1>3. net' \subseteq Requests
  BY <1>1, <1>2 DEF TaskInv, TypeOK
<1>4. Reports'
  BY <1>1, <1>2 DEF TaskInv, Reports, TaskTerminal
<1> QED
  BY <1>3, <1>4

LEMMA TimeOutKeeps == ASSUME TaskInv, NEW e \in Executors, TimeOut(e) PROVE TaskInv'
<1> DEFINE x == execs[e]
           y == [x EXCEPT !.attempt = x.attempt + 1]
<1> USE DEF TaskInv
<1>0. /\ UNCHANGED <<tasks, waits, calls, now>> /\ x \in Exec /\ HolderOK(e)
      /\ x.phase \in {"starting", "reporting"} /\ execs \in [Executors -> Exec]
  BY DEF TimeOut, TypeOK, Holders
<1>1. CASE execs' = [execs EXCEPT ![e] = Idle] /\ UNCHANGED net
  <2>1. Idle \in Exec /\ Idle.phase = "idle"
    BY DEF Idle, Exec
  <2>2. HolderOK(e)'
    BY <1>0, <1>1, <2>1 DEF HolderOK
  <2>3. Reports'
    BY <1>0, <1>1 DEF Reports
  <2> QED
    BY <1>0, <1>1, <2>1, <2>2, <2>3, SameLease DEF TypeOK
<1>2. CASE /\ execs' = [execs EXCEPT ![e].attempt = x.attempt + 1]
           /\ net' = net \cup {Request(x, e, x.attempt + 1)}
  <2>1. /\ y \in Exec /\ y.phase = x.phase /\ y.task = x.task /\ y.token = x.token
        /\ y.report = x.report /\ x.attempt + 1 \in Nat
    BY <1>0 DEF Exec
  <2>2. execs' = [execs EXCEPT ![e] = y] /\ execs'[e] = y
    BY <1>0, <1>2
  <2> HIDE DEF y
  <2>3. HolderOK(e)'
    BY <1>0, <2>1, <2>2 DEF HolderOK
  <2>4. net' \subseteq Requests /\ Reports'
    <3>1. /\ x.task \in Tasks
          /\ \/ x.phase = "starting"
             \/ /\ x.phase = "reporting" /\ x.report \in TaskTerminal /\ tasks[x.task].started
                /\ x.report \in {"completed", "failed"} => calls[x.task] = 1
      BY <1>0 DEF HolderOK
    <3> QED
      BY <1>0, <1>2, <2>1, <3>1, Asked
  <2> QED
    BY <1>0, <2>1, <2>2, <2>3, <2>4, SameLease
<1> QED
  BY <1>1, <1>2 DEF TimeOut, Resigned

LEMMA CallKeeps == ASSUME TaskInv, NEW e \in Executors, CallProvider(e) PROVE TaskInv'
<1> DEFINE x == execs[e]
           t == execs[e].task
           y == [x EXCEPT !.phase = "calling"]
<1> USE DEF TaskInv
<1>0. /\ UNCHANGED <<tasks, waits, net, now>> /\ x \in Exec /\ x.phase = "permitted"
      /\ t \in Tasks /\ tasks[t].started /\ x.token = tasks[t].leases
      /\ execs \in [Executors -> Exec] /\ calls \in [Tasks -> Nat]
      /\ calls' = [calls EXCEPT ![t] = @ + 1]
  BY DEF CallProvider, TypeOK, Holders, HolderOK
<1>1. calls[t] = 0
  BY <1>0 DEF Called
<1>2. /\ y \in Exec /\ y.phase = "calling" /\ y.task = t /\ y.token = x.token
      /\ execs' = [execs EXCEPT ![e] = y]
  BY <1>0 DEF CallProvider, Exec
<1> HIDE DEF y
<1>3. /\ execs' \in [Executors -> Exec] /\ execs'[e] = y
      /\ \A f \in Executors \ {e} : execs'[f] = execs[f]
  BY <1>0, <1>2
<1>4. /\ calls' \in [Tasks -> Nat] /\ calls'[t] = 1
      /\ \A u \in Tasks \ {t} : calls'[u] = calls[u]
  BY <1>0, <1>1
<1>5. ASSUME NEW f \in Executors PROVE HolderOK(f)'
  <2>1. CASE f = e
    <3>1. tasks[t].leases \in Nat
      BY <1>0 DEF TypeOK, TaskRow
    <3> QED
      BY <1>0, <1>2, <1>3, <1>4, <2>1, <3>1 DEF HolderOK
  <2>2. CASE f # e
    <3>1. HolderOK(f) /\ execs'[f] = execs[f]
      BY <1>3, <2>2 DEF Holders
    <3> QED
      BY <1>0, <1>1, <1>4, <3>1 DEF HolderOK
  <2> QED
    BY <2>1, <2>2
<1>6. Alone'
  <2>1. \A f \in Executors : /\ execs'[f].task = execs[f].task
                             /\ execs'[f].token = execs[f].token
                             /\ execs'[f].phase # "idle" <=> execs[f].phase # "idle"
    BY <1>0, <1>2, <1>3
  <2> QED
    BY <2>1 DEF Holders, Alone
<1>7. Called'
  <2> SUFFICES ASSUME NEW u \in Tasks
               PROVE  /\ calls'[u] <= 1
                      /\ calls'[u] = 1 =>
                           /\ tasks[u].started
                           /\ \A f \in Executors : execs'[f].phase \in {"starting", "permitted"}
                                 /\ execs'[f].task = u => execs'[f].token # tasks[u].leases
    BY <1>0 DEF Called
  <2>1. CASE u = t
    <3>1. ASSUME NEW f \in Executors, execs'[f].phase \in {"starting", "permitted"},
                 execs'[f].task = t
          PROVE  execs'[f].token # tasks[t].leases
      <4>1. f # e /\ execs'[f] = execs[f]
        BY <1>2, <1>3, <3>1
      <4> QED
        BY <1>0, <3>1, <4>1 DEF Holders, Alone
    <3> QED
      BY <1>0, <1>4, <2>1, <3>1
  <2>2. CASE u # t
    BY <1>2, <1>3, <1>4, <2>2 DEF Called
  <2> QED
    BY <2>1, <2>2
<1>8. Reports'
  BY <1>0, <1>1, <1>4 DEF Reports, TypeOK, Requests
<1> QED
  BY <1>0, <1>3, <1>4, <1>5, <1>6, <1>7, <1>8, RowsAlone DEF Holders, TypeOK

LEMMA ReportSent ==
    ASSUME TaskInv, NEW e \in Executors, NEW kind \in TaskTerminal, Report(e, kind)
    PROVE  TaskInv'
<1> DEFINE x == execs[e]
           y == [x EXCEPT !.phase = "reporting", !.report = kind, !.attempt = 1]
<1> USE DEF TaskInv
<1>0. /\ UNCHANGED <<tasks, waits, calls, now>> /\ x \in Exec /\ HolderOK(e)
      /\ execs \in [Executors -> Exec]
      /\ x.phase = "calling" \/ (x.phase = "permitted" /\ kind = "unknown")
      /\ execs' = [execs EXCEPT ![e] = y] /\ net' = net \cup {Request(y, e, 1)}
  BY DEF Report, TypeOK, Holders
<1>1. /\ y \in Exec /\ y.phase = "reporting" /\ y.task = x.task /\ y.token = x.token
      /\ y.report = kind
  BY <1>0 DEF Exec
<1> HIDE DEF y
<1>2. execs'[e] = y
  BY <1>0
<1>3. /\ x.task \in Tasks /\ tasks[x.task].started
      /\ kind \in {"completed", "failed"} => calls[x.task] = 1
  BY <1>0 DEF HolderOK
<1>4. HolderOK(e)'
  BY <1>0, <1>1, <1>2, <1>3 DEF HolderOK
<1>5. net' \subseteq Requests /\ Reports'
  BY <1>0, <1>1, <1>3, Asked
<1> QED
  BY <1>0, <1>1, <1>4, <1>5, SameLease

LEMMA TickKeeps == ASSUME TaskInv, Tick \/ UNCHANGED vars PROVE TaskInv'
<1> USE DEF TaskInv
<1>1. UNCHANGED <<tasks, waits, execs, net, calls>> /\ now' \in Nat
  BY DEF Tick, vars, TypeOK
<1>2. Holders' /\ Called' /\ Reports'
  BY <1>1 DEF Holders, Alone, HolderOK, Called, Reports
<1> QED
  BY <1>1, <1>2, RowsAlone DEF TypeOK

-----------------------------------------------------------------------------
(* The theorems *)

LEMMA TaskInit == Init => TaskInv
<1> SUFFICES ASSUME Init PROVE TaskInv
  OBVIOUS
<1>1. TypeOK
  <2>1. \A t \in Tasks : tasks[t] \in TaskRow
    BY DEF Init, TaskRow, TaskStates, Errors
  <2>2. \A t \in Tasks : tasks[t].state = "absent" /\ tasks[t].token = 0 /\ tasks[t].lease = NoLease
    BY DEF Init
  <2>3. tasks \in [Tasks -> TaskRow] /\ waits \in [Tasks -> Waits] /\ execs \in [Executors -> Exec]
    BY <2>1 DEF Init, Waits, Exec, Idle
  <2> QED
    BY <2>2, <2>3 DEF Init, TypeOK, TaskActive
<1>2. Rows
  BY DEF Init, Rows, RowOK, TaskActive, NoLease
<1>3. Holders
  BY DEF Init, Holders, Alone, HolderOK, Idle
<1> QED
  BY <1>1, <1>2, <1>3 DEF TaskInv, Init, Called, Reports, Verdicts

LEMMA TaskStep == TaskInv /\ [Next]_vars => TaskInv'
<1> SUFFICES ASSUME TaskInv, [Next]_vars PROVE TaskInv'
  OBVIOUS
<1>1. CASE WaiterStep
  BY <1>1, WaiterKeeps
<1>2. CASE BrokerStep
  BY <1>2, ClaimKeeps, StartKeeps, ReportKeeps, HeartbeatKeeps DEF BrokerStep
<1>3. CASE ExecutorStep
  BY <1>3, LoseKeeps, TimeOutKeeps, CallKeeps, DiesKeeps, ReportSent DEF ExecutorStep
<1>4. CASE Tick \/ UNCHANGED vars
  BY <1>4, TickKeeps
<1> QED
  BY <1>1, <1>2, <1>3, <1>4 DEF Next

LEMMA TaskAlways == Spec => []TaskInv
<1> QED
  BY TaskInit, TaskStep, PTL DEF Spec

(* The types, and a token and an expiry for exactly the leased rows. *)
THEOREM TaskTypes == Spec => []TypeOK
<1>1. TaskInv => TypeOK
  BY DEF TaskInv
<1> QED
  BY <1>1, TaskAlways, PTL

(* The provider is called at most once for a task, with any number of      *)
(* executors, over a network that loses, repeats and delays requests.      *)
THEOREM AtMostOnce == Spec => []AtMostOneCall
<1>1. TaskInv => AtMostOneCall
  BY DEF TaskInv, Called, AtMostOneCall
<1> QED
  BY <1>1, TaskAlways, PTL

(* No late report, expiry or second waiter changes what a waiter was told. *)
THEOREM VerdictsHold == Spec => []VerdictStands
<1>1. TaskInv => VerdictStands
  BY DEF TaskInv, Verdicts, VerdictStands
<1> QED
  BY <1>1, TaskAlways, PTL

-----------------------------------------------------------------------------
(* The broker keeps the promise of OneCall. *)

CardOf(row, n) == [announced |-> row.started, calls |-> n, answer |-> AnswerOf(row)]

Keeps(old, new, n) ==
    CardOf(new, n) = CardOf(old, n) \/ Promise!Moves(CardOf(old, n), CardOf(new, n))

LEMMA NoAnswer ==
    ASSUME NEW row \in TaskRow, RowOK(row), row.state \notin TaskTerminal
    PROVE  AnswerOf(row) = "none"
  BY DEF AnswerOf, RowOK

(* A row that stays without an answer and is not started *)
LEMMA QuietKeeps ==
    ASSUME NEW old \in TaskRow, NEW new \in TaskRow, RowOK(old), RowOK(new), NEW n,
           old.state \notin TaskTerminal, new.state \notin TaskTerminal, old.started = new.started
    PROVE  Keeps(old, new, n)
  BY NoAnswer DEF Keeps, CardOf

(* A row that is given an answer *)
LEMMA AnswerGiven ==
    ASSUME NEW row \in TaskRow, RowOK(row), row.state \notin TaskTerminal, NEW n,
           NEW state \in TaskTerminal, NEW error \in Errors,
           error = "unavailable" => state = "failed" /\ ~row.started,
           error # "unavailable" /\ state \in {"completed", "failed"} => n = 1
    PROVE  Keeps(row, Ended(row, state, error), n)
<1> DEFINE new == Ended(row, state, error)
           c == CardOf(row, n)
           d == CardOf(new, n)
<1>1. new.state = state /\ new.error = error /\ new.started = row.started
  BY EndedAdvances
<1> HIDE DEF new
<1>2. AnswerOf(row) = "none"
  BY NoAnswer
<1>3. AnswerOf(new) = IF error = "unavailable" THEN "unavailable" ELSE state
  BY <1>1 DEF AnswerOf
<1>4. c.announced = row.started /\ c.calls = n /\ c.answer = "none"
  BY <1>2 DEF CardOf
<1>5. d = [c EXCEPT !.answer = AnswerOf(new)] /\ d.answer = AnswerOf(new)
  BY <1>1 DEF CardOf
<1>6. /\ AnswerOf(new) \in Promise!Answers \ {"none"}
      /\ AnswerOf(new) \in {"completed", "failed"} => n = 1
      /\ AnswerOf(new) = "unavailable" => ~row.started
  BY <1>3 DEF TaskTerminal, Promise!Answers
<1>7. Promise!IsAnswered(c, d)
  BY <1>4, <1>5, <1>6 DEF Promise!IsAnswered
<1> QED
  BY <1>7 DEF Keeps, Promise!Moves, new

LEMMA ExpiryKeeps ==
    ASSUME NEW old \in TaskRow, RowOK(old), NEW new, Expires(old, new), NEW n
    PROVE  Keeps(old, new, n)
<1>1. CASE new = old
  BY <1>1 DEF Keeps
<1>2. CASE old.state = "leased" /\ new = [old EXCEPT !.state = "queued", !.token = 0, !.lease = NoLease]
  <2>1. new \in TaskRow /\ RowOK(new) /\ new.started = old.started
    BY ExpiresAdvances DEF Advances
  <2>2. new.state = "queued"
    BY <1>2 DEF TaskRow
  <2> QED
    BY <1>2, <2>1, <2>2, QuietKeeps DEF TaskTerminal
<1>3. CASE old.state = "running" /\ new = Ended(old, "unknown", "expired")
  BY <1>3, AnswerGiven DEF TaskTerminal, Errors
<1> QED
  BY <1>1, <1>2, <1>3 DEF Expires

LEMMA ExpiryOf ==
    ASSUME TaskInv, NEW m, NEW t \in Tasks
    PROVE  /\ tasks[t] \in TaskRow /\ RowOK(tasks[t])
           /\ Expired(m)[t] \in TaskRow /\ RowOK(Expired(m)[t])
           /\ Expired(m)[t].started = tasks[t].started
           /\ Expired(m)[t].state \in TaskActive => Expired(m)[t] = tasks[t]
           /\ Keeps(tasks[t], Expired(m)[t], calls[t])
           /\ Expired(m)[t].state = "queued" => tasks[t].state \notin TaskTerminal
<1>1. tasks[t] \in TaskRow /\ RowOK(tasks[t])
  BY DEF TaskInv, TypeOK, Rows
<1>2. Expires(tasks[t], Expired(m)[t])
  BY ExpiryRows DEF TaskInv
<1>3. /\ Advances(tasks[t], Expired(m)[t]) /\ Expired(m)[t].started = tasks[t].started
      /\ Expired(m)[t].state \in TaskActive => Expired(m)[t] = tasks[t]
  BY <1>1, <1>2, ExpiresAdvances
<1>4. Keeps(tasks[t], Expired(m)[t], calls[t])
  BY <1>1, <1>2, ExpiryKeeps
<1>5. Expired(m)[t].state = "queued" => tasks[t].state \notin TaskTerminal
  BY <1>3 DEF Advances, TaskTerminal
<1> QED
  BY <1>1, <1>3, <1>4, <1>5 DEF Advances

(* What a table may do that differs from the expired one in one row *)
LEMMA OneCard ==
    ASSUME TaskInv, NEW m, NEW t \in Tasks, NEW row, tasks' = [Expired(m) EXCEPT ![t] = row],
           Keeps(tasks[t], row, calls[t])
    PROVE  \A u \in Tasks : Keeps(tasks[u], tasks'[u], calls[u])
<1> SUFFICES ASSUME NEW u \in Tasks PROVE Keeps(tasks[u], tasks'[u], calls[u])
  OBVIOUS
<1>1. Expired(m) \in [Tasks -> TaskRow]
  BY ExpiryMoves DEF TaskInv
<1>2. CASE u = t
  <2>1. tasks'[t] = row
    BY <1>1
  <2> QED
    BY <1>2, <2>1
<1>3. CASE u # t
  <2>1. tasks'[u] = Expired(m)[u]
    BY <1>1, <1>3
  <2>2. Keeps(tasks[u], Expired(m)[u], calls[u])
    BY ExpiryOf
  <2> QED
    BY <2>1, <2>2
<1> QED
  BY <1>2, <1>3

CardsKeep == UNCHANGED calls /\ \A u \in Tasks : Keeps(tasks[u], tasks'[u], calls[u])

LEMMA WaiterCards == ASSUME TaskInv, WaiterStep PROVE CardsKeep
<1> USE DEF TaskInv
<1>0. tasks \in [Tasks -> TaskRow] /\ \A t \in Tasks : tasks[t] \in TaskRow /\ RowOK(tasks[t])
  BY DEF TypeOK, Rows
<1>1. \A u \in Tasks : Keeps(tasks[u], tasks[u], calls[u])
  BY DEF Keeps
<1>2. ASSUME NEW t \in Tasks, Create(t) PROVE CardsKeep
  <2>1. CASE UNCHANGED tasks
    BY <1>1, <1>2, <2>1 DEF CardsKeep, Create
  <2>2. CASE tasks[t].state = "absent" /\ tasks' = [tasks EXCEPT ![t].state = "queued", ![t].created = now]
    <3> DEFINE new == tasks'[t]
    <3>1. new = [tasks[t] EXCEPT !.state = "queued", !.created = now]
      BY <1>0, <2>2
    <3>2. \A u \in Tasks \ {t} : tasks'[u] = tasks[u]
      BY <1>0, <2>2
    <3>3. /\ new \in TaskRow /\ new.state = "queued" /\ new.started = tasks[t].started
          /\ RowOK(new)
      <4>1. WaiterStep
        BY <1>2 DEF WaiterStep
      <4>2. Rows' /\ TypeOK'
        BY <4>1, WaiterKeeps
      <4>3. new \in TaskRow /\ RowOK(new)
        BY <4>2 DEF TypeOK, Rows
      <4> QED
        BY <1>0, <3>1, <4>3 DEF TaskRow
    <3>4. Keeps(tasks[t], new, calls[t])
      BY <1>0, <2>2, <3>3, QuietKeeps DEF TaskTerminal
    <3> QED
      BY <1>1, <1>2, <3>2, <3>4 DEF CardsKeep, Create
  <2> QED
    BY <1>2, <2>1, <2>2 DEF Create
<1>3. ASSUME NEW t \in Tasks, NEW m, Poll(t, m) PROVE CardsKeep
  <2>1. tasks' = Expired(m) /\ UNCHANGED calls
    BY <1>3 DEF Poll
  <2>2. \A u \in Tasks : Keeps(tasks[u], Expired(m)[u], calls[u])
    BY ExpiryOf
  <2> QED
    BY <2>1, <2>2 DEF CardsKeep
<1>4. ASSUME NEW t \in Tasks, GiveUp(t) PROVE CardsKeep
  <2>1. CASE UNCHANGED tasks
    BY <1>1, <1>4, <2>1 DEF CardsKeep, GiveUp
  <2>2. CASE ~Terminal(t) /\ tasks' = [tasks EXCEPT ![t] = Abandoned(tasks[t])]
    <3>1. Keeps(tasks[t], Abandoned(tasks[t]), calls[t])
      <4>1. CASE tasks[t].state = "queued"
        <5>1. ~tasks[t].started /\ tasks[t].state \notin TaskTerminal
          BY <1>0, <4>1 DEF RowOK, TaskTerminal
        <5> QED
          BY <1>0, <4>1, <5>1, AnswerGiven DEF Abandoned, TaskTerminal, Errors
      <4>2. CASE tasks[t].state # "queued"
        BY <1>0, <2>2, <4>2, AnswerGiven DEF Abandoned, Terminal, TaskTerminal, Errors
      <4> QED
        BY <4>1, <4>2
    <3>2. \A u \in Tasks : tasks'[u] = IF u = t THEN Abandoned(tasks[t]) ELSE tasks[u]
      BY <1>0, <2>2
    <3> QED
      BY <1>1, <1>4, <3>1, <3>2 DEF CardsKeep, GiveUp
  <2> QED
    BY <1>4, <2>1, <2>2 DEF GiveUp
<1>5. ASSUME NEW t \in Tasks, WaiterDies(t) PROVE CardsKeep
  BY <1>1, <1>5 DEF CardsKeep, WaiterDies
<1> QED
  BY <1>2, <1>3, <1>4, <1>5 DEF WaiterStep

LEMMA ClaimCards ==
    ASSUME TaskInv, NEW e \in Executors, NEW m \in Moments, NEW heard \in BOOLEAN,
           ClaimNext(e, m, heard)
    PROVE  CardsKeep
<1> DEFINE table == Expired(m)
<1>0. UNCHANGED calls /\ table \in [Tasks -> TaskRow]
  BY ExpiryMoves DEF ClaimNext, TaskInv
<1>1. CASE tasks' = table
  <2>1. \A u \in Tasks : Keeps(tasks[u], table[u], calls[u])
    BY ExpiryOf
  <2> QED
    BY <1>0, <1>1, <2>1 DEF CardsKeep
<1>2. ASSUME NEW t \in Offered(e, table),
             tasks' = [table EXCEPT ![t].state = "leased", ![t].token = table[t].leases + 1,
                                    ![t].leases = table[t].leases + 1, ![t].lease = m + Lease]
      PROVE  CardsKeep
  <2> DEFINE row == tasks'[t]
  <2>1. t \in Tasks /\ table[t].state = "queued"
    BY ProviderTasksAssumption DEF Offered
  <2>2. /\ row = [table[t] EXCEPT !.state = "leased", !.token = table[t].leases + 1,
                                  !.leases = table[t].leases + 1, !.lease = m + Lease]
        /\ \A u \in Tasks \ {t} : tasks'[u] = table[u]
    BY <1>0, <1>2, <2>1
  <2>3. row \in TaskRow /\ RowOK(row)
    BY <2>1, ClaimKeeps DEF TaskInv, TypeOK, Rows
  <2>4. row.state = "leased" /\ row.started = table[t].started
    <3>1. table[t] \in TaskRow
      BY <1>0, <2>1
    <3> QED
      BY <2>2, <3>1 DEF TaskRow
  <2>5. /\ tasks[t] \in TaskRow /\ RowOK(tasks[t]) /\ table[t].started = tasks[t].started
        /\ tasks[t].state \notin TaskTerminal
    BY <2>1, ExpiryOf
  <2>6. Keeps(tasks[t], row, calls[t])
    BY <2>3, <2>4, <2>5, QuietKeeps DEF TaskTerminal
  <2>7. \A u \in Tasks : Keeps(tasks[u], table[u], calls[u])
    BY ExpiryOf
  <2> QED
    BY <1>0, <2>2, <2>6, <2>7 DEF CardsKeep
<1>3. \/ tasks' = table
      \/ \E t \in Offered(e, table) :
           tasks' = [table EXCEPT ![t].state = "leased", ![t].token = table[t].leases + 1,
                                  ![t].leases = table[t].leases + 1, ![t].lease = m + Lease]
  BY DEF ClaimNext
<1> QED
  BY <1>1, <1>2, <1>3

(* The broker announces a call before the executor may make it. *)
LEMMA StartCards ==
    ASSUME TaskInv, NEW r \in net, NEW m \in Moments, NEW heard \in BOOLEAN,
           HandleStart(r, m, heard)
    PROVE  CardsKeep
<1> DEFINE table == Expired(m)
           t == r.task
<1>0. UNCHANGED calls /\ table \in [Tasks -> TaskRow] /\ t \in Tasks
  BY ExpiryMoves DEF HandleStart, TaskInv, TypeOK, Requests
<1>1. \A u \in Tasks : Keeps(tasks[u], tasks[u], calls[u]) /\ Keeps(tasks[u], table[u], calls[u])
  BY ExpiryOf DEF Keeps
<1>2. CASE tasks' = tasks \/ tasks' = table
  BY <1>0, <1>1, <1>2 DEF CardsKeep
<1>3. CASE /\ table[t].state \in TaskActive /\ table[t].state # "running"
           /\ tasks' = [table EXCEPT ![t] = [@ EXCEPT !.state = "running", !.started = TRUE,
                                                      !.lease = m + Lease]]
  <2> DEFINE new == tasks'[t]
             c == CardOf(tasks[t], calls[t])
             d == CardOf(new, calls[t])
  <2>1. /\ table[t] = tasks[t] /\ tasks[t] \in TaskRow /\ RowOK(tasks[t])
        /\ tasks[t].state = "leased" /\ ~tasks[t].started
    <3>1. table[t] = tasks[t] /\ tasks[t] \in TaskRow /\ RowOK(tasks[t])
      BY <1>0, <1>3, ExpiryOf
    <3> QED
      BY <1>3, <3>1 DEF RowOK, TaskActive
  <2>2. /\ new = [table[t] EXCEPT !.state = "running", !.started = TRUE, !.lease = m + Lease]
        /\ \A u \in Tasks \ {t} : tasks'[u] = table[u]
    BY <1>0, <1>3
  <2>3. new \in TaskRow /\ RowOK(new)
    BY <1>0, StartKeeps DEF TaskInv, TypeOK, Rows
  <2>4. new.state = "running" /\ new.started = TRUE
    BY <2>1, <2>2 DEF TaskRow
  <2>5. AnswerOf(tasks[t]) = "none" /\ AnswerOf(new) = "none"
    BY <2>1, <2>3, <2>4, NoAnswer DEF TaskTerminal
  <2> HIDE DEF new
  <2>6. Promise!Announces(c, d)
    <3>1. c.answer = "none" /\ c.announced = tasks[t].started
      BY <2>5 DEF CardOf
    <3>2. d = [c EXCEPT !.announced = new.started]
      BY <2>5 DEF CardOf
    <3>3. d = [c EXCEPT !.announced = TRUE]
      <4> HIDE DEF c, d
      <4> QED
        BY <2>4, <3>2, Zenon
    <3> QED
      BY <2>1, <3>1, <3>3, Zenon DEF Promise!Announces
  <2>7. Keeps(tasks[t], new, calls[t])
    BY <2>6 DEF Keeps, Promise!Moves
  <2> QED
    BY <1>0, <1>1, <2>2, <2>7 DEF CardsKeep, new
<1> QED
  BY <1>2, <1>3 DEF HandleStart

LEMMA ReportCards ==
    ASSUME TaskInv, NEW r \in net, NEW m \in Moments, NEW heard \in BOOLEAN,
           HandleReport(r, m, heard)
    PROVE  CardsKeep
<1> DEFINE table == Expired(m)
           t == r.task
<1>0. /\ UNCHANGED calls /\ table \in [Tasks -> TaskRow] /\ t \in Tasks /\ r.kind \in TaskTerminal
      /\ r.kind \in {"completed", "failed"} => calls[t] = 1
  BY ExpiryMoves DEF HandleReport, TaskInv, TypeOK, Requests, Reports
<1>1. \A u \in Tasks : Keeps(tasks[u], tasks[u], calls[u]) /\ Keeps(tasks[u], table[u], calls[u])
  BY ExpiryOf DEF Keeps
<1>2. CASE tasks' = tasks \/ tasks' = table
  BY <1>0, <1>1, <1>2 DEF CardsKeep
<1>3. CASE /\ table[t].state \in TaskActive
           /\ tasks' = [table EXCEPT ![t] = Ended(@, r.kind, "reported")]
  <2>1. table[t] = tasks[t] /\ tasks[t] \in TaskRow /\ RowOK(tasks[t])
    BY <1>0, <1>3, ExpiryOf
  <2>2. /\ tasks'[t] = Ended(tasks[t], r.kind, "reported")
        /\ \A u \in Tasks \ {t} : tasks'[u] = table[u]
    BY <1>0, <1>3, <2>1
  <2>3. Keeps(tasks[t], Ended(tasks[t], r.kind, "reported"), calls[t])
    BY <1>0, <1>3, <2>1, AnswerGiven DEF TaskActive, TaskTerminal, Errors
  <2> QED
    BY <1>0, <1>1, <2>2, <2>3 DEF CardsKeep
<1> QED
  BY <1>2, <1>3 DEF HandleReport, TaskActive

LEMMA HeartbeatCards ==
    ASSUME TaskInv, NEW e \in Executors, NEW m \in Moments, Heartbeat(e, m)
    PROVE  CardsKeep
<1> DEFINE table == Expired(m)
           t == execs[e].task
<1>0. /\ UNCHANGED calls /\ table \in [Tasks -> TaskRow] /\ t \in Tasks
      /\ table[t].state \in TaskActive /\ tasks' = [table EXCEPT ![t].lease = m + Lease]
  BY ExpiryMoves DEF Heartbeat, TaskInv, Holders, HolderOK
<1>1. \A u \in Tasks : Keeps(tasks[u], table[u], calls[u])
  BY ExpiryOf
<1>2. table[t] = tasks[t] /\ tasks[t] \in TaskRow /\ RowOK(tasks[t])
  BY <1>0, ExpiryOf
<1>3. tasks'[t] = [tasks[t] EXCEPT !.lease = m + Lease] /\ \A u \in Tasks \ {t} : tasks'[u] = table[u]
  BY <1>0, <1>2
<1>4. tasks'[t] \in TaskRow /\ RowOK(tasks'[t])
  BY <1>0, HeartbeatKeeps DEF TaskInv, TypeOK, Rows
<1>5. tasks'[t].state = tasks[t].state /\ tasks'[t].started = tasks[t].started
  BY <1>2, <1>3 DEF TaskRow
<1>6. Keeps(tasks[t], tasks'[t], calls[t])
  BY <1>0, <1>2, <1>4, <1>5, QuietKeeps DEF TaskActive, TaskTerminal
<1> QED
  BY <1>0, <1>1, <1>3, <1>6 DEF CardsKeep

LEMMA CallCards ==
    ASSUME TaskInv, NEW e \in Executors, CallProvider(e)
    PROVE  \A u \in Tasks : \/ CardOf(tasks'[u], calls'[u]) = CardOf(tasks[u], calls[u])
                            \/ Promise!Calls(CardOf(tasks[u], calls[u]), CardOf(tasks'[u], calls'[u]))
<1> DEFINE t == execs[e].task
<1>0. /\ UNCHANGED tasks /\ calls \in [Tasks -> Nat] /\ t \in Tasks
      /\ tasks[t].started /\ tasks[t] \in TaskRow
      /\ execs[e].token = tasks[t].leases /\ execs[e].phase = "permitted"
      /\ calls' = [calls EXCEPT ![t] = @ + 1]
  BY DEF CallProvider, TaskInv, TypeOK, Holders, HolderOK
<1>1. calls[t] = 0
  BY <1>0 DEF TaskInv, Called
<1>2. calls'[t] = 1 /\ \A u \in Tasks \ {t} : calls'[u] = calls[u]
  BY <1>0, <1>1
<1>3. tasks[t].started = TRUE
  BY <1>0 DEF TaskRow
<1>4. Promise!Calls(CardOf(tasks[t], 0), CardOf(tasks[t], 1))
  BY <1>3 DEF Promise!Calls, CardOf
<1> QED
  BY <1>0, <1>1, <1>2, <1>4

CardsMove ==
    \A u \in Tasks :
        \/ CardOf(tasks'[u], calls'[u]) = CardOf(tasks[u], calls[u])
        \/ Promise!Moves(CardOf(tasks[u], calls[u]), CardOf(tasks'[u], calls'[u]))

(* Every behaviour of the broker, its waiters, its executors and the       *)
(* network is a behaviour of OneCall: a call is announced before it is     *)
(* made, is made at most once, and a task is answered once, "unavailable"  *)
(* only if it was never announced, "completed" or "failed" only after the  *)
(* call.                                                                   *)
THEOREM KeepsItsPromise == Spec => KeepsPromise
<1> DEFINE Card(u) == [announced |-> tasks[u].started, calls |-> calls[u],
                       answer |-> AnswerOf(tasks[u])]
<1>1. Init => Promise!Init
  <2> SUFFICES ASSUME Init PROVE Promise!Init
    OBVIOUS
  <2>1. \A t \in Tasks : Card(t) = [announced |-> FALSE, calls |-> 0, answer |-> "none"]
    BY DEF Init, AnswerOf, TaskTerminal
  <2> QED
    BY <2>1 DEF Promise!Init
<1>2. TaskInv /\ TaskInv' /\ [Next]_vars => [Promise!Next]_[t \in Tasks |-> Card(t)]
  <2> SUFFICES ASSUME TaskInv, TaskInv', [Next]_vars
               PROVE  [Promise!Next]_[t \in Tasks |-> Card(t)]
    OBVIOUS
  <2>1. CardsMove
    <3>1. CASE CardsKeep
      BY <3>1 DEF CardsKeep, Keeps, CardsMove
    <3>2. CASE UNCHANGED <<tasks, calls>>
      BY <3>2 DEF CardsMove
    <3>3. ASSUME NEW e \in Executors, CallProvider(e) PROVE CardsMove
      BY <3>3, CallCards DEF Promise!Moves, CardsMove
    <3>4. CASE WaiterStep
      BY <3>1, <3>4, WaiterCards
    <3>5. CASE BrokerStep
      BY <3>1, <3>5, ClaimCards, StartCards, ReportCards, HeartbeatCards DEF BrokerStep
    <3>6. CASE ExecutorStep
      BY <3>2, <3>3, <3>6 DEF ExecutorStep, Lose, TimeOut, ExecutorDies, Report
    <3>7. CASE Tick \/ UNCHANGED vars
      BY <3>2, <3>7 DEF Tick, vars
    <3> QED
      BY <3>4, <3>5, <3>6, <3>7 DEF Next
  <2>2. \A u \in Tasks : CardOf(tasks'[u], calls'[u]) \in Promise!Card
    <3> SUFFICES ASSUME NEW u \in Tasks PROVE CardOf(tasks'[u], calls'[u]) \in Promise!Card
      OBVIOUS
    <3>1. tasks'[u] \in TaskRow /\ calls'[u] \in Nat
      BY DEF TaskInv, TypeOK
    <3>2. tasks'[u].started \in BOOLEAN /\ AnswerOf(tasks'[u]) \in Promise!Answers
      BY <3>1 DEF TaskRow, AnswerOf, TaskTerminal, Promise!Answers
    <3> QED
      BY <3>1, <3>2 DEF CardOf, Promise!Card
  <2> QED
    BY <2>1, <2>2 DEF Promise!Next, CardOf, CardsMove
<1> QED
  BY <1>1, <1>2, TaskAlways, PTL DEF Spec, KeepsPromise, Promise!Spec
=============================================================================
