\* Extraction, learnFact, verification and maintenance side by side.
SPECIFICATION Spec
CONSTANTS
    e1 = e1  e2 = e2  v1 = v1  editor = editor  rule = rule  x = x  y = y  z = z
    Extraction <- TwoExtractions
    Verify <- OneVerifier
    Fact <- Facts
    Protected <- Rules
    Evidence <- SomeEvidence
    Strategies <- BothStrategies
    History <- Histories
    MaxActive = 1
    Overlap = 2
    MaxCalls = 5
    MaxRows = 3
SYMMETRY Interchangeable
INVARIANTS DuplicatesAreBlind SupersededInSlot PassesSettle
CHECK_DEADLOCK FALSE
