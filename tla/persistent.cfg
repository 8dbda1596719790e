SPECIFICATION FairSpec
CONSTANTS
    Dialogues = {"sbr", "plain"}
    MaxRuns = 4
    MaxCnt = 2
INVARIANTS WakesTheLiving MapQuiet
PROPERTIES RunsEnd
CHECK_DEADLOCK FALSE
