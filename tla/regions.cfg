SPECIFICATION Spec
CONSTANTS
    MAX_KEY_REGIONS_COUNT = 2
    WeakAt = 1
    Floor = 1
    MaxSize = 3
    MaxQueue = 4
INVARIANTS TypeOK GapsExact Bounded RegionsOfTarget
PROPERTIES StartsKept
CHECK_DEADLOCK FALSE
