SPECIFICATION Spec
CONSTANTS
  s1 = s1  s2 = s2  n1 = n1  n2 = n2  n3 = n3  n4 = n4  r1 = r1  r2 = r2  r3 = r3
  Sessions = {s1, s2}
  Nonces = {n1, n2, n3, n4}
  References = {r1, r2, r3}
  MAX_TOTAL_TOOL_CALLS = 3
  MAX_CALLS = 2
  MAX_BATCH = 2
INVARIANTS BudgetBalances EvidenceIsBacked
PROPERTIES ImplementsExecutions
SYMMETRY Symmetric
CHECK_DEADLOCK FALSE
