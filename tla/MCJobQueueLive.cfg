\* Two workers with one slot each, one job, one retry request, two faults of any
\* kind, under fairness.
SPECIFICATION FairSpec
CONSTANTS
    w1 = w1
    w2 = w2
    s1 = s1
    s2 = s2
    j1 = j1
    j2 = j2
    c1 = c1
    c2 = c2
    Null = Null
    Jobs = {j1}
    Workers = {w1, w2}
    Slots = {s1}
    Clients = {c1}
    MaxAttempts = 2
    MaxFaults = 2
    FaultKinds <- AllFaults
    SerialRetries = FALSE
    Grain = 10
    Settings <- MCSettings
    Ahead = 4
INVARIANT BackoffIsOrdered
PROPERTIES Settles DrainEnds
