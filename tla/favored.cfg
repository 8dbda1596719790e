SPECIFICATION Spec
CONSTANTS
  MapSize = 2
  States = {0, 1}
  Costs = {1}
  Counts = {1, 2}
  InitialSeeds = 2
  MaxQueue = 3
  Word = 16
INVARIANTS RefsExact FavoredCover MostStatesWin
