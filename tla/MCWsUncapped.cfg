SPECIFICATION FairSpec
CONSTANTS
  SessionCap = 0
  Uptime = 1
  MaxSecs = 7
  DebugLog = FALSE
  MaxFrame = 3
  MaxBytes = 5
  MaxWords = 2
INVARIANTS UnlimitedSessionRuns
CHECK_DEADLOCK FALSE
