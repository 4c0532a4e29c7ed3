SPECIFICATION Spec
CONSTANTS
  s1 = s1  s2 = s2  s3 = s3  c1 = c1  c2 = c2  c3 = c3  c4 = c4
  Stores = {s1, s2, s3}
  Chunks = {c1, c2, c3, c4}
  ValidChunks = {c1, c2, c3}
  Batch <- SharedBatches
  FieldCount = 6
  ForeignIndexes <- SomeSchemas
  None = None
INVARIANTS InitializedMeansPrepared RefusalsAreJust AcknowledgedIsStored
PROPERTIES IncompatibleStays
CHECK_DEADLOCK FALSE
