SPECIFICATION FairSpec
CONSTANTS
  p1 = p1  p2 = p2  p3 = p3  i1 = i1  i2 = i2  i3 = i3
  n1 = n1  n2 = n2  n3 = n3  r1 = r1  r2 = r2
  Requests = {p1, p2, p3}
  Questions <- MixedQuestions
  RunIds = {i1, i2, i3}
  Nonces = {n1, n2, n3}
  References = {r1, r2}
  MAX_TOTAL_TOOL_CALLS = 6
  MAX_CALLS = 2
  MAX_BATCH = 2
  MAX_ENTRIES = 2
  MaxCollisions = 1
  None = None
INVARIANTS AnswersAreBacked ChargesAreTraced StoreKeepsLatest
PROPERTIES ResultsStayPut EverySubmissionCompletes
CHECK_DEADLOCK FALSE
