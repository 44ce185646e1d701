\* One job, a crash: is there a ceiling to the attempts?
SPECIFICATION Spec
CONSTANTS
    w1 = w1
    w2 = w2
    s1 = s1
    s2 = s2
    j1 = j1
    j2 = j2
    c1 = c1
    c2 = c2
    Null = Null
    Jobs = {j1}
    Workers = {w1, w2}
    Slots = {s1}
    Clients = {c1}
    MaxAttempts = 2
    MaxFaults = 1
    FaultKinds <- CrashesOnly
    SerialRetries = FALSE
INVARIANT AttemptCeiling
