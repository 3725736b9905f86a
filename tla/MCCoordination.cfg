\* One work item, two actors: two claims in a row, two handoffs that compete for it, and the reapers.
SPECIFICATION FairSpec
CONSTANTS
    a1 = a1  a2 = a2  i1 = i1
    Actor <- TwoActors
    Item <- OneItem
    Lease <- OneTick
    DefaultLease = 2
    Deadline <- SomeDeadlines
    NoDeadline = NoDeadline
    NoRow = NoRow
    MaxTime = 2
    MaxExpiry = 2
    MaxClaims = 2
    MaxHandoffs = 2
INVARIANTS OneRowPerItem ReplayAgrees ExpiryRecordedOnce
PROPERTIES OverStaysOver KeepsContract LapsesRecorded
\* once every id is used, the item deleted and time at its bound, nothing is left to do
CHECK_DEADLOCK FALSE
