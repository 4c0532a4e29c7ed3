SPECIFICATION Spec
CONSTANTS
  c1 = c1  c2 = c2  c3 = c3  c4 = c4  q1 = q1  q2 = q2  q3 = q3  secret = secret
  ChunkIds = {c1, c2, c3, c4}
  Bodies = {"text", "other", "malformed"}
  RRF_K = 60
  LONGEST = 4
  Scale = 15249024
  Malformed = "malformed"
  Corpus <- MCCorpus
  Queries = {q1, q2, q3, secret}
  PrivateQueries = {secret}
  MAX_QUERY_CACHE = 2
  CANDIDATE_LIMIT = 3
  RERANK_LIMIT = 3
  SINGLE_LIMIT = 4
  Worlds <- AnyWorld
  CaseWorlds <- SomeWorlds
  CaseIds = {1, 2, 3}
  Datasets <- MixedDatasets
  MIN_ORDINARY = 1
  MIN_REFUSAL = 1
  MAX_CASES = 3
  TOP = 2
  ANSWER_LIMIT = 3
  PERCENT = 60
  Durations = {1, 2}
  None = None
INVARIANTS CacheIsRecent EvidenceIsRetrieved FusionIsFair ReportAddsUp EvaluatorsAgree
CHECK_DEADLOCK FALSE
