CONSTANTS
  None = None
  Thresholds <- MCThresholds
  MaxEvents = 7
SPECIFICATION HistorySpec
INVARIANTS
  VerdictMatchesHistory
  OutageStart
PROPERTIES
  OutageEnd
CHECK_DEADLOCK FALSE
