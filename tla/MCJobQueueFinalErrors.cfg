\* One job, no fault: does a final error of the engine end the job?
SPECIFICATION Spec
CONSTANTS
    w1 = w1
    w2 = w2
    s1 = s1
    s2 = s2
    j1 = j1
    j2 = j2
    c1 = c1
    c2 = c2
    Null = Null
    Jobs = {j1}
    Workers = {w1, w2}
    Slots = {s1}
    Clients = {c1}
    MaxAttempts = 2
    MaxFaults = 0
    FaultKinds <- CrashesOnly
    SerialRetries = FALSE
PROPERTY FinalErrorsSkipRetry
