\* Two threads that ask for the same request, two workers and their replacements.
SPECIFICATION FairSpec
CONSTANTS
  w1 = w1  w2 = w2  w3 = w3  w4 = w4  w5 = w5  c1 = c1  c2 = c2  r1 = r1
  Monitor = Monitor  Nobody = Nobody
  Size = 2  First <- TwoFirst  Workers = {w1, w2, w3, w4, w5}  Outcomes = {"succeeded"}
  Callers = {c1, c2}  Requests = {r1}  MaxFaults = 1
INVARIANTS TypeOK RunsOnce ToldIsRecorded
PROPERTIES ReceiptStands CapacityReturns
CHECK_DEADLOCK FALSE
