\* Two ingests, a rebuild and a deletion, all of which may be retried.
SPECIFICATION FairSpec
CONSTANTS
  i1 = i1  i2 = i2  r1 = r1  d1 = d1  NoJob = NoJob
  Ingests = {i1, i2}  Rebuilds = {r1}  Purges = {d1}  Retryable = {i1, i2, r1, d1}
  Retention = 1  MaxFaults = 1  MaxRequests = 2
INVARIANTS TypeOK DeletedUnlessStale LagIsHonest AuditPasses PointersNameSealed
PROPERTIES DeletionEnds
CHECK_DEADLOCK FALSE
