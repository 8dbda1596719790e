SPECIFICATION FairSpec
CONSTANTS
  States = {1}
  StateMode = "RESPONSE_CODE"
  StateAlgo = "ROUND_ROBIN"
  SeedAlgo = "ROUND_ROBIN"
  FewSeeds = 2
  Hash <- Injective
  Word = 1000
  InitialSeeds = 1
  MaxQueue = 2
  MaxMsgs = 2
INVARIANTS SplitAtTarget
PROPERTIES SeedsTried
CHECK_DEADLOCK FALSE
