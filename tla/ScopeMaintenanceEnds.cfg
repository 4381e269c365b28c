SPECIFICATION FairSpec
CONSTANTS
  p1 = p1  p2 = p2  Worker = Worker  NoKey = NoKey
  Schedulers = {p1}  MaxSource = 1  MaxFaults = 1
PROPERTIES JobsEnd
CHECK_DEADLOCK FALSE
