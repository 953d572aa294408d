\* One server: the deployment of abt-web.
SPECIFICATION Spec
CHECK_DEADLOCK FALSE
CONSTANTS
  k1 = k1
  k2 = k2
  p1 = p1
  Keys = {k1, k2}
  Processors = {p1}
  Callers = {}
  NHandlers = 2
  MaxRetries = 2
  RetryBatch = 1
  FullBatch = 2
  MaxEvents = 2
  MaxFaults = 1
  MaxOperations = 2
INVARIANTS
  TypeOK
  NothingAckedUndelivered
  DeliveredInOrder
  DeadLetterEarned
  RepeatedForCause
  NoEventStranded
PROPERTIES
  ProcessedIsFinal
  ImplementsDelivery
