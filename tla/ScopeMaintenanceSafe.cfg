SPECIFICATION Spec
CONSTANTS
  p1 = p1  p2 = p2  Worker = Worker  NoKey = NoKey
  Schedulers = {p1}  MaxSource = 2  MaxFaults = 2
CONSTRAINT FewJobs
INVARIANTS TypeOK WatermarkOrder
PROPERTIES DerivedAfterIngests MovedByRunningJob
CHECK_DEADLOCK FALSE
