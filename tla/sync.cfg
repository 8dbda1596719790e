SPECIFICATION FairSpec
CONSTANTS
    F1 = F1
    F2 = F2
    Fuzzer = {F1, F2}
    Cases <- CasesDef
    FirstBits <- FirstDef
    MaxCrashes <- CrashesDef
    MaxSaved <- SavedDef
    MaxAtWork <- AtWorkDef
    Flaky <- FlakyDef
    Mute <- MuteDef
INVARIANTS NothingSkipped QueueProgress
PROPERTIES Convergence
CHECK_DEADLOCK FALSE
