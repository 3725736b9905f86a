\* One item, two actors, up to three claims in a row, one handoff.
SPECIFICATION FairSpec
CONSTANTS
    a1 = a1  a2 = a2  i1 = i1
    Actor <- TwoActors
    Item <- OneItem
    Lease <- OneTick
    DefaultLease = 2
    Deadline <- SomeDeadlines
    NoDeadline = NoDeadline
    NoRow = NoRow
    MaxTime = 2
    MaxExpiry = 3
    MaxClaims = 3
    MaxHandoffs = 1
    MaxEvents = 5
INVARIANTS ReplayExact
PROPERTIES AcceptKeepsOrMoves KeepsContract RefusalEnds
CHECK_DEADLOCK FALSE
