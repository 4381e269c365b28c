\* A rebuild that has failed is retried after the deletion.
SPECIFICATION Spec
CONSTANTS
  i1 = i1  i2 = i2  r1 = r1  d1 = d1  NoJob = NoJob
  Ingests = {i1, i2}  Rebuilds = {r1}  Purges = {d1}  Retryable = {r1}
  Retention = 2  MaxFaults = 1  MaxRequests = 1
INVARIANTS DeletedStaysGone
CHECK_DEADLOCK FALSE
