SPECIFICATION FairSpec
CONSTANTS
  SessionCap = 2
  Uptime = 1
  MaxSecs = 7
  DebugLog = TRUE
  MaxFrame = 3
  MaxBytes = 5
  MaxWords = 2
INVARIANTS WsTypeOK EachWordFinalOnce CloseIsComplete SamplesAligned ResamplerMatchesRate TripletReturned
PROPERTIES EveryLossAnnounced EndsWhenTold ImplementsLoop
CHECK_DEADLOCK FALSE
