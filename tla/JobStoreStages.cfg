\* An ingest and a scope deletion with one stage each, and a recall stage.
SPECIFICATION Spec
CONSTANTS
  a = a  b = b  s1 = s1  w1 = w1  w2 = w2
  plan = plan  write = write  index = index  call = call
  NoJob = NoJob  NoWorker = NoWorker
  Jobs = {a, b}  Scopes = {s1}  Workers = {w1}
  Stages = {write, index, plan}  Calls = {}  Kinds = {}  Closable = {}
  JobScope <- OneScope  JobType <- IngestAndDelete
  StageJob <- StageOwner  StageScope <- AllInOneScope  StageSeq <- StageOrder
  CallJob <- NoCalls
  Lease = 1  LockWait = 0  QueueLimit = 2  MaxTime = 2  MaxVersion = 3
INVARIANTS TypeOK CancelledRunsNothing StageExclusion
CHECK_DEADLOCK FALSE
