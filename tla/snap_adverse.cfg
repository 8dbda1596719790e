CONSTANTS
  NumMsgs = 1
  CheckEvery = 2
  ReachesTarget = FALSE
  TerminateChild = TRUE
  Faults <- Adverse
  MaxRuns = 2
  MaxMoves = 1
SPECIFICATION Spec
INVARIANTS ResponseBytes VerdictFaithful PipeInStep
PROPERTIES OneChild ImplementsTestCase
