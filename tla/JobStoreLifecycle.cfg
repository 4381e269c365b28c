\* Two jobs of one scope, two workers, no stages, calls or scope claims.
SPECIFICATION Spec
CONSTANTS
  a = a  b = b  s1 = s1  w1 = w1  w2 = w2
  plan = plan  write = write  index = index  call = call
  NoJob = NoJob  NoWorker = NoWorker
  Jobs = {a, b}  Scopes = {s1}  Workers = {w1, w2}
  Stages = {}  Calls = {}  Kinds = {}  Closable = {}
  JobScope <- OneScope  JobType <- AllIngests
  StageJob <- NoStages  StageScope <- NoStageScope  StageSeq <- NoStageSeq
  CallJob <- NoCalls
  Lease = 1  LockWait = 1  QueueLimit = 2  MaxTime = 4  MaxVersion = 7
SYMMETRY WorkerSymmetry
INVARIANTS LaneExclusion StartOrder OutcomeOfLastAttempt
CHECK_DEADLOCK FALSE
