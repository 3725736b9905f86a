\* Every operation, on two connections.
SPECIFICATION FairSpec
CONSTANTS
    a1 = a1  a2 = a2  h1 = h1  p1 = p1  p2 = p2
    Actor <- TwoActors
    HandoffId <- OneHandoff
    Process <- TwoProcesses
    Operations <- AllOperations
    LeaseLength = 1
    From <- FromA1
    To <- ToA2
    Deadline <- AtOne
    Free = Free
    NoRow = NoRow
    MaxTime = 1
    MaxOps = 3
INVARIANTS OneExpiryEach DeadlockNeedsAccept
PROPERTIES ClaimNeverSteals AllReturn
CHECK_DEADLOCK FALSE
