SPECIFICATION Spec
CONSTANTS
  Indicators = {"nh4", "q"}
  PRECISION = 3
  MAX_EXPONENT = 6
  UNIT = 8
  MAX_HOURS = 5
  MIN_HISTORY_POINTS = 2
  Null = Null  Blank = Blank  Invalid = Invalid  Unavailable = Unavailable  None = None
  Corpus <- Constants3
  Drafts <- OtherVersion
  Requests <- AllRequests
INVARIANTS ProfileAccepted
CHECK_DEADLOCK FALSE
