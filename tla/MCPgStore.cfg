SPECIFICATION Spec
CONSTANTS
    p1 = p1  p2 = p2
    Process <- TwoProcesses
    Texts <- OneText
    Work <- AllWork
    Free = Free
    Later <- Third
    MaxTx = 3
INVARIANTS CountersExact DeadlockNeedsSeveral PromotedOrExpired
PROPERTIES KeepsRecord ExpectedVersionHeld
SYMMETRY Symmetry
CHECK_DEADLOCK FALSE
