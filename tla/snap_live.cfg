CONSTANTS
  NumMsgs = 1
  CheckEvery = 2
  ReachesTarget = FALSE
  TerminateChild = TRUE
  Faults <- Adverse
  MaxRuns = 1
  MaxMoves = 1
SPECIFICATION FairSpec
PROPERTIES RunsEnd
