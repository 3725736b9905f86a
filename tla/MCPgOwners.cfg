\* A release or renewal that was checked before the lease changed hands.
SPECIFICATION Spec
CONSTANTS
    a1 = a1  a2 = a2  h1 = h1  p1 = p1  p2 = p2
    Actor <- TwoActors
    HandoffId <- OneHandoff
    Process <- TwoProcesses
    Operations <- AllOperations
    LeaseLength = 1
    From <- FromA1
    To <- ToA2
    Deadline <- AtTwo
    Free = Free
    NoRow = NoRow
    MaxTime = 2
    MaxOps = 4
PROPERTY OwnersActOnly
CHECK_DEADLOCK FALSE
