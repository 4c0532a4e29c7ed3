SPECIFICATION FairSpec
CONSTANTS
  a1 = a1  a2 = a2  s1 = s1  s2 = s2  s3 = s3  s4 = s4  x = x  y = y  z = z
  Acquirers = {a1, a2}
  Sources = {s1, s2, s3, s4}
  EligibleSources = {s1, s2, s3}
  Paths = {x, y, z}
  Entries <- MixedEntries
  PermittedPaths <- MixedPermissions
  _ATOMIC_COMMIT_ATTEMPTS = 4
  None = None
INVARIANTS PublishedIsComplete ReportsAreTrue
PROPERTIES EveryAcquisitionEnds ImplementsPublication
CHECK_DEADLOCK FALSE
