SPECIFICATION Spec
CONSTANTS
  Indicators = {"nh4", "q"}
  PRECISION = 6
  MAX_EXPONENT = 3
  UNIT = 8
  MAX_HOURS = 5
  MIN_HISTORY_POINTS = 2
  Null = Null  Blank = Blank  Invalid = Invalid  Unavailable = Unavailable  None = None
  Corpus <- SmallHistories
  Drafts <- OtherVersion
  Requests <- AllRequests
INVARIANTS AnswersAreRegistered WindowsCompose ScreeningIsCoherent OwnScreensAccepted ProfileAgrees MeansFit
CHECK_DEADLOCK FALSE
