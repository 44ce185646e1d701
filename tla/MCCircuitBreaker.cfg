\* Three calls in flight, more than a threshold of them.
SPECIFICATION FairSpec
CONSTANTS
    c1 = c1
    c2 = c2
    c3 = c3
    Calls = {c1, c2, c3}
    FailureThreshold = 2
    ResetTimeout = 3
    CallTimeout = 2
INVARIANTS TypeOK ClosedWhileFew ShutIsBounded
PROPERTY OutageEnds
