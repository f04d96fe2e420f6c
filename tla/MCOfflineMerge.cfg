\* Every run of six events of up to two words, cleaned and merged.
CONSTANTS
    EvidMod = 4
    CountMod = 16
    CountLimit = 3
    HighCount = 12
    Sizes = {0, 1, 2}
    MaxEvents = 6
    RunNumbers <- MCRunNumbers
    OtherFiles <- MCOtherFiles
SPECIFICATION Spec
INVARIANTS CleanExact FinishesUnlessDamaged MergeExact
CHECK_DEADLOCK FALSE
