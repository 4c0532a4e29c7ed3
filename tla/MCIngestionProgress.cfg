SPECIFICATION FairSpec
CONSTANTS
  t1 = t1  k1 = k1  k2 = k2  w1 = w1  w2 = w2  o1 = o1  l1 = l1  l2 = l2  l3 = l3
  Tasks = {t1}
  Workers = {w1, w2}
  Operators = {}
  Tokens = {k1}
  TaskOf <- SoloTaskOf
  Leases = {l1, l2, l3}
  NoToken = NoToken  NoLease = NoLease  NoRequest = NoRequest
  MAX_INGESTION_RETRIES = 1
  WORKER_LEASE_DURATION = 1
  VISIBILITY_TIMEOUT = 2
  FaultKinds = {"worker_lost", "duplicate", "cache"}
  MaxFaults = 1
  MaxTime = 3
INVARIANTS NothingIsForgotten
PROPERTIES EveryTaskEnds SuccessClearsCache
CHECK_DEADLOCK FALSE
