\* An ingest with a provider call, and the consolidation derived from it.
SPECIFICATION Spec
CONSTANTS
  a = a  b = b  s1 = s1  w1 = w1  w2 = w2
  plan = plan  write = write  index = index  call = call
  NoJob = NoJob  NoWorker = NoWorker
  Jobs = {a, b}  Scopes = {s1}  Workers = {w1}
  Stages = {}  Calls = {call}  Kinds = {"evolution", "index"}  Closable = {s1}
  JobScope <- OneScope  JobType <- Derived
  StageJob <- NoStages  StageScope <- NoStageScope  StageSeq <- NoStageSeq
  CallJob <- CallOfIngest
  Lease = 1  LockWait = 1  QueueLimit = 2  MaxTime = 2  MaxVersion = 4
INVARIANTS ClaimHeldByActiveJob
PROPERTIES ClaimGranted
CHECK_DEADLOCK FALSE
