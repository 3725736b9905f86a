\* Three calls in flight.
SPECIFICATION FairSpec
CONSTANTS
    c1 = c1  c2 = c2  c3 = c3
    Call <- ThreeCalls
    FailureThreshold = 3
    ResetTimeout = 2
    MaxRunning = 3
INVARIANTS ClosedBelowThreshold
PROPERTY ProbesAgain
