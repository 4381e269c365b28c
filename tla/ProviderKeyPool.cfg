SPECIFICATION FairSpec
CONSTANTS
  w1 = w1  w2 = w2  k1 = k1  k2 = k2  NoKey = NoKey
  Keys = {k1, k2}  Workers = {w1, w2}  KeysOf <- Rotation
  Cap = 1  Lease = 2  Patience = 1  BillingPause = 1  AuthPause = 2
  Backoffs <- FlatBackoff  RetryAfters = {0, 2}
INVARIANTS TypeOK LeaseCap CircuitCovers
PROPERTIES CapacityReturns
