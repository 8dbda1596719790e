SPECIFICATION Spec
CONSTANTS
  States = {1, 2}
  StateMode = "ENUM_VALUE"
  StateAlgo = "FAVOR"
  SeedAlgo = "FAVOR"
  FewSeeds = 2
  Hash <- Colliding
  Word = 1000
  InitialSeeds = 2
  MaxQueue = 3
  MaxMsgs = 1
INVARIANTS TableCovers PendingExact IndexesPoint StatesAgree SeedsMarked
CHECK_DEADLOCK FALSE
