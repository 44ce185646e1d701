\* One plan with two actions on one resource, one request at a time, no fault.
SPECIFICATION Spec
CONSTANTS
    f1 = f1
    f2 = f2
    f3 = f3
    r1 = r1
    p1 = p1
    p2 = p2
    k1 = k1
    k2 = k2
    t1 = t1
    t2 = t2
    c1 = c1
    c2 = c2
    Null = Null
    Findings = {f1, f2, f3}
    Resources = {r1}
    ActionOf <- MCActionOf
    ResourceOf <- MCResourceOf
    PlanInputs <- MCPlanInputs
    Plans = {p2}
    Keys = {k1, k2}
    Tokens = {t1, t2}
    Clients = {c1}
    Contended = {}
    CloudProvider = "mock"
    EnableAwsMutations = FALSE
    MaxFaults = 0
CHECK_DEADLOCK FALSE
INVARIANT BeforeStateIsBefore
