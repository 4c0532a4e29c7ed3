SPECIFICATION Spec
CONSTANTS
  t1 = t1  k1 = k1  k2 = k2  w1 = w1  w2 = w2  o1 = o1  l1 = l1  l2 = l2  l3 = l3
  Tasks = {t1}
  Workers = {w1, w2}
  Operators = {o1}
  Tokens = {k1, k2}
  TaskOf <- OneTaskOf
  Leases = {l1, l2, l3}
  NoToken = NoToken  NoLease = NoLease  NoRequest = NoRequest
  MAX_INGESTION_RETRIES = 2
  WORKER_LEASE_DURATION = 1
  VISIBILITY_TIMEOUT = 2
  FaultKinds <- AnyFault
  MaxFaults = 1
  MaxTime = 2
INVARIANTS AuditTrail SuccessIsIndexed LeaseExclusion RetryBudget
PROPERTIES ImplementsLifecycle
SYMMETRY SymmetricIds
CHECK_DEADLOCK FALSE
