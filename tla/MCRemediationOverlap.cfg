\* Two requests in flight at a time, one plan whose requests overlap and one
\* whose requests do not, and any one fault.
SPECIFICATION Spec
CONSTANTS
    f1 = f1
    f2 = f2
    f3 = f3
    r1 = r1
    p1 = p1
    p2 = p2
    k1 = k1
    k2 = k2
    t1 = t1
    t2 = t2
    c1 = c1
    c2 = c2
    Null = Null
    Findings = {f1, f2, f3}
    Resources = {r1}
    ActionOf <- MCActionOf
    ResourceOf <- MCResourceOf
    PlanInputs <- MCPlanInputs
    Plans = {p1, p2}
    Keys = {k1, k2}
    Tokens = {t1, t2}
    Clients = {c1, c2}
    Contended = {p1}
    CloudProvider = "mock"
    EnableAwsMutations = FALSE
    MaxFaults = 1
\* Requests may end for good: a replay, or a refused request, changes nothing.
CHECK_DEADLOCK FALSE
SYMMETRY Symmetry
INVARIANTS TypeOK ApprovedHasToken CompletedIsRecorded RecordedUsedItsToken AuditAccounts AfterStateIsComplete OneExecution StuckOnlyByKeyClash FixesAreAccountable OneTokenSpent
PROPERTIES RecordsAreFinal StatusAdvances ImplementsLifecycle
