CONSTANTS
  NumMsgs = 2
  CheckEvery = 2
  ReachesTarget = TRUE
  TerminateChild = FALSE
  Faults <- Punctual
  MaxRuns = 2
  MaxMoves = 2
SPECIFICATION Spec
INVARIANTS CleanChannels OneUnreadPacket AnnouncedResponses StateSample
PROPERTIES InOrderDelivery
