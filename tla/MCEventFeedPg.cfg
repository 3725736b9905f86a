\* Postgres: two transactions that overlap.
SPECIFICATION Spec
CONSTANTS
    w1 = w1  w2 = w2  p1 = p1  p2 = p2
    Writer <- TwoWriters
    Handlers = 1
    Poll <- TwoPolls
    Kinds <- ChangesOnly
    Faults <- NoFaults
    Adapters <- OnlyPostgres
    Backdating = FALSE
    Limit = 2
    MaxEvents = 2
    MaxPgEvents = 2
    MaxTime = 1
INVARIANT FeedSkipsNothing
CHECK_DEADLOCK FALSE
