SPECIFICATION FairSpec
CONSTANTS
  t1 = t1  e1 = e1  e2 = e2  NoTask = NoTask
  Tasks = {t1}  Executors = {e1, e2}  Serves <- ServeAll
  Lease = 1  Patience = 1  LockWait = 1  Attempts = 2
  MaxClaims = 2  MaxTime = 2
INVARIANTS TypeOK AtMostOneCall VerdictStands
PROPERTIES KeepsPromise WaiterReturns
CHECK_DEADLOCK FALSE
