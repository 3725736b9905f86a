\* SQLite and memory: one synchronous write; two handlers, every fault.
SPECIFICATION FairSpec
CONSTANTS
    w1 = w1  w2 = w2  p1 = p1  p2 = p2
    Writer <- TwoWriters
    Handlers = 2
    Poll <- TwoPolls
    Kinds <- BothKinds
    Faults <- AllFaults
    Adapters <- AnyAdapter
    Backdating = TRUE
    Limit = 1
    MaxEvents = 3
    MaxPgEvents = 2
    MaxTime = 1
INVARIANTS FeedComplete DeliveredOnce SinceComplete SnapshotPinned
PROPERTY FeedReaches
CHECK_DEADLOCK FALSE
