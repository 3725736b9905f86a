\* Two calls in flight on one manager, under five configurations.
SPECIFICATION Spec
CONSTANTS
    p1 = p1  p2 = p2
    Process <- TwoCalls
    Configs <- SomeConfigs
    Extractor = TRUE
    Floor = 2
    SoftRetain = 2
    HardRetain = 1
    FailureThreshold = 1
    ResetTimeout = 1
    MaxTurns = 3
    MaxLogs = 3
SYMMETRY Symmetry
INVARIANTS NothingLost LatestStayActive SummarizedOnce SettledIsCurrent
\* once no turn is left to insert and no compaction to commit, nothing moves
CHECK_DEADLOCK FALSE
