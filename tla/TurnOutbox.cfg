SPECIFICATION FairSpec
CONSTANTS
  t1 = t1  t2 = t2  p1 = p1  p2 = p2  a = a  s1 = s1  s2 = s2
  NoTurn = NoTurn
  Turns = {t1, t2}  Procs = {p1}  Projects = {a}  Sessions = {s1, s2}
  ProcOf <- OneProcess  ProjectOf <- OneProject  SessionOf <- TwoSessions
  WaitForIngest = TRUE  MaxSwitches = 2  MaxCrashes = 1
INVARIANTS TypeOK NothingLost NoBackfill
PROPERTIES RecallAfterWriteback
CHECK_DEADLOCK FALSE
