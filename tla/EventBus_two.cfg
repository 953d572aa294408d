\* Two servers and somebody calling retry_failed, on the same tables.
SPECIFICATION FairSpec
CONSTANTS
  k1 = k1
  p1 = p1
  p2 = p2
  c1 = c1
  Keys = {k1}
  Processors = {p1, p2}
  Callers = {c1}
  NHandlers = 1
  MaxRetries = 3
  RetryBatch = 1
  FullBatch = 1
  MaxEvents = 1
  MaxFaults = 1
  MaxOperations = 0
INVARIANTS
  ClaimedByOne
PROPERTIES
  EventuallySettled
