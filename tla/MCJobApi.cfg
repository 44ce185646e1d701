\* Two create requests with one key, three workers with one slot each, two racing
\* retry requests, one fault of the queue of any kind or one request ended by an
\* error.
SPECIFICATION ApiSpec
CONSTANTS
    w1 = w1
    w2 = w2
    w3 = w3
    s1 = s1
    j1 = j1
    c1 = c1
    c2 = c2
    q1 = q1
    q2 = q2
    Null = Null
    Jobs = {j1}
    Workers = {w1, w2, w3}
    Slots = {s1}
    Clients = {c1, c2}
    Requests = {q1, q2}
    MaxAttempts = 2
    MaxFaults = 1
    MaxMishaps = 1
    FaultKinds <- AllFaults
    SerialRetries = FALSE
SYMMETRY Symmetry
INVARIANTS ApiTypeOK SameRecord OnlyErrorsFail AuditAccounts
INVARIANTS TypeOK LeaseMatchesStatus AttemptsBounded ProcessorsBounded GracefulExit
CONSTRAINTS OneMisfortune OneCallUntilAnswered OneStops
