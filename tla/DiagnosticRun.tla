--------------------------- MODULE DiagnosticRun ---------------------------
(***************************************************************************)
(* What a diagnostic job leaves behind: JobProcessor.run (apps/worker/src/ *)
(* processor.ts), attempt after attempt, over an inventory that syncs and  *)
(* remediations change meanwhile.                                          *)
(*                                                                         *)
(* A run that times out is abandoned and not stopped: it goes on writing   *)
(* while the next attempt does.  Findings and recommendations are upserted *)
(* under unique indexes, health checks are inserted.  Each database call   *)
(* is one step; the analysis, which keeps nothing, is one with its answer. *)
(*                                                                         *)
(* The queue is reduced to what it does with one job (see JobQueue): a     *)
(* failed attempt is followed by another while there are some left.        *)
(***************************************************************************)
EXTENDS PolicyEngine, FiniteSets

CONSTANTS
    Inventory,          \* the resources as the first sync has stored them
    Descriptions,       \* what the provider may say of each from then on
    Order,              \* their names, in the order find() returns them
    Scopes,             \* what a job may be submitted for
    MaxAttempts,
    MaxFixes            \* bound on the remediations

ASSUME InventoryAssumption ==
    /\ Inventory \in [DOMAIN Inventory -> ResourceType]
    /\ Descriptions \in [DOMAIN Inventory -> SUBSET ResourceType]
    /\ Order \in Seq(DOMAIN Inventory)
    /\ \A r \in DOMAIN Inventory : \E i \in DOMAIN Order : Order[i] = r
    /\ \A i, j \in DOMAIN Order : Order[i] = Order[j] => i = j
    /\ Scopes \subseteq SUBSET DOMAIN Inventory
ASSUME BoundAssumption == MaxAttempts \in Nat \ {0} /\ MaxFixes \in Nat

Attempts == 1 .. MaxAttempts

\* A finding is a place in the order of evaluation: a rule on a resource.
Last == Len(Order) * Len(Rules)
Places == 1 .. Last
ResourceAt(p) == Order[((p - 1) \div Len(Rules)) + 1]
RuleAt(p) == Rules[((p - 1) % Len(Rules)) + 1]

VARIABLES
    resource,           \* CloudResource documents
    finding,            \* Finding documents of the job
    recommendation,     \* Recommendation documents of the job
    checks,             \* number of HealthCheck documents for each finding
    job,                \* the DiagnosticJob document
    run,                \* the attempts
    fixes               \* remediations so far

vars == <<resource, finding, recommendation, checks, job, run, fixes>>

\* What each pc has behind it:
\*   waiting      nothing: the attempt has not begun
\*   claimed      the claim
\*   analyzing    ... and the resources are loaded
\*   finding      the findings before at are stored with all that belongs to
\*   recommending    them ... and the finding at at
\*   checking        ... and its recommendation
\*   over         the run has settled
RunType == [pc : {"waiting", "claimed", "analyzing", "finding", "recommending",
                  "checking", "over"},
            report : SUBSET Places,     \* the findings of the analysis
            at : Places \cup {Last + 1},
            abandoned : BOOLEAN]        \* the attempt has timed out

\* scope: resourceIds and resourceTypes, as the resources they select.
\* resultSummary: resourcesScanned, findingsCreated; by which attempt.
JobType == [scope : Scopes, status : {"pending", "running", "completed", "dead_lettered"},
            attempts : 0 .. MaxAttempts, scanned : 0 .. Len(Order),
            created : 0 .. Last, by : 0 .. MaxAttempts]

TypeOK ==
    /\ resource \in [DOMAIN Inventory -> ResourceType]
    /\ finding \subseteq Places
    /\ recommendation \subseteq Places
    /\ checks \in [Places -> Nat]
    /\ job \in JobType
    /\ run \in [Attempts -> RunType]
    /\ fixes \in 0 .. MaxFixes

Init ==
    /\ resource = Inventory
    /\ finding = {}
    /\ recommendation = {}
    /\ checks = [p \in Places |-> 0]
    /\ \E scope \in Scopes :
          job = [scope |-> scope, status |-> "pending", attempts |-> 0,
                 scanned |-> 0, created |-> 0, by |-> 0]
    /\ run = [n \in Attempts |-> [pc |-> "waiting", report |-> {}, at |-> 1,
                                  abandoned |-> FALSE]]
    /\ fixes = 0

At(n, pc) == run[n].pc = pc

Goto(n, pc) == run' = [run EXCEPT ![n].pc = pc]

\* The first finding of attempt n from place p on, or the place after the last.
From(n, p) ==
    LET rest == {q \in run[n].report : q >= p}
    IN  IF rest = {} THEN Last + 1
        ELSE CHOOSE q \in rest : \A o \in rest : q <= o

AllStored(n) == run[n].at > Last

\* A slip of the definition below: the status that fail() never sets.
JobFailsAsFailed(n) ==
    job' = IF run[n].abandoned THEN job
           ELSE [job EXCEPT !.status = IF job.attempts < MaxAttempts
                                       THEN "pending" ELSE "failed"]

\* The attempt fails: the job waits for the next, or is dead-lettered.
JobFails(n) ==
    job' = IF run[n].abandoned THEN job
           ELSE [job EXCEPT !.status = IF job.attempts < MaxAttempts
                                       THEN "pending" ELSE "dead_lettered"]

-----------------------------------------------------------------------------
(* More slips; Spec uses none of them.                                     *)

\* The recommendation is not stored.
RecommendNothing(n) ==
    /\ At(n, "recommending")
    /\ Goto(n, "checking")
    /\ UNCHANGED <<resource, finding, recommendation, checks, job, fixes>>

\* The job is completed when the analysis has come back.
AnalyzeAndComplete(n) ==
    /\ At(n, "analyzing")
    /\ run' = [run EXCEPT ![n].pc = "finding", ![n].at = From(n, 1)]
    /\ job' = IF run[n].abandoned THEN job
              ELSE [job EXCEPT !.status = "completed", !.scanned = Cardinality(job.scope),
                               !.created = Cardinality(run[n].report), !.by = n]
    /\ UNCHANGED <<resource, finding, recommendation, checks, fixes>>

\* The health check is inserted twice.
CheckTwice(n) ==
    /\ At(n, "checking")
    /\ checks' = [checks EXCEPT ![run[n].at] = @ + 2]
    /\ run' = [run EXCEPT ![n].pc = "finding", ![n].at = From(n, run[n].at + 1)]
    /\ UNCHANGED <<resource, finding, recommendation, job, fixes>>

-----------------------------------------------------------------------------
Claim(n) ==
    /\ job.status = "pending"
    /\ n = job.attempts + 1
    /\ job' = [job EXCEPT !.status = "running", !.attempts = n]
    /\ Goto(n, "claimed")
    /\ UNCHANGED <<resource, finding, recommendation, checks, fixes>>

\* CloudResourceModel.find: what the analysis will find is settled by it.
Load(n) ==
    /\ At(n, "claimed")
    /\ run' = [run EXCEPT ![n].pc = "analyzing",
                          ![n].report = {p \in Places :
                               /\ ResourceAt(p) \in job.scope
                               /\ Fires(RuleAt(p), resource[ResourceAt(p)])}]
    /\ UNCHANGED <<resource, finding, recommendation, checks, job, fixes>>

Analyze(n) ==
    /\ At(n, "analyzing")
    /\ run' = [run EXCEPT ![n].pc = "finding", ![n].at = From(n, 1)]
    /\ UNCHANGED <<resource, finding, recommendation, checks, job, fixes>>

StoreFinding(n) ==
    /\ At(n, "finding")
    /\ ~AllStored(n)
    /\ finding' = finding \cup {run[n].at}
    /\ Goto(n, "recommending")
    /\ UNCHANGED <<resource, recommendation, checks, job, fixes>>

StoreRecommendation(n) ==
    /\ At(n, "recommending")
    /\ recommendation' = recommendation \cup {run[n].at}
    /\ Goto(n, "checking")
    /\ UNCHANGED <<resource, finding, checks, job, fixes>>

StoreCheck(n) ==
    /\ At(n, "checking")
    /\ checks' = [checks EXCEPT ![run[n].at] = @ + 1]
    /\ run' = [run EXCEPT ![n].pc = "finding", ![n].at = From(n, run[n].at + 1)]
    /\ UNCHANGED <<resource, finding, recommendation, job, fixes>>

\* run() returns and, unless the attempt has timed out, the job is completed.
Finish(n) ==
    /\ At(n, "finding")
    /\ AllStored(n)
    /\ Goto(n, "over")
    /\ job' = IF run[n].abandoned THEN job
              ELSE [job EXCEPT !.status = "completed", !.scanned = Cardinality(job.scope),
                               !.created = Cardinality(run[n].report), !.by = n]
    /\ UNCHANGED <<resource, finding, recommendation, checks, fixes>>

\* A call rejects, or the worker dies and its lease runs out.
Break(n) ==
    /\ run[n].pc \notin {"waiting", "over"}
    /\ Goto(n, "over")
    /\ JobFails(n)
    /\ UNCHANGED <<resource, finding, recommendation, checks, fixes>>

\* withTimeout rejects; the run goes on.
TimeOut(n) ==
    /\ run[n].pc \notin {"waiting", "over"}
    /\ ~run[n].abandoned
    /\ run' = [run EXCEPT ![n].abandoned = TRUE]
    /\ JobFails(n)
    /\ UNCHANGED <<resource, finding, recommendation, checks, fixes>>

-----------------------------------------------------------------------------
\* A plan for a stored finding is executed, maybe long after it was found: an
\* execution that writes what applySimulatedAction makes of the resource.  A
\* dry run, or one under CLOUD_PROVIDER=aws, writes nothing (Applies in
\* Remediation); load and save, apart there, are one step here.
Remediate(p) ==
    /\ p \in finding
    /\ ActionOf[RuleAt(p)] # "manual_review"
    /\ fixes < MaxFixes
    /\ fixes' = fixes + 1
    /\ resource' = [resource EXCEPT ![ResourceAt(p)] =
                       Applied(ActionOf[RuleAt(p)], @)]
    /\ UNCHANGED <<finding, recommendation, checks, job, run>>

\* A sync sets a resource to what the provider has said of it.  It ends
\* anywhere: each upsert is a call of its own.
Sync(r) ==
    /\ \E d \in Descriptions[r] \ {resource[r]} :
          resource' = [resource EXCEPT ![r] = d]
    /\ UNCHANGED <<finding, recommendation, checks, job, run, fixes>>

Next ==
    \/ \E n \in Attempts :
          \/ Claim(n) \/ Load(n) \/ Analyze(n)
          \/ StoreFinding(n) \/ StoreRecommendation(n) \/ StoreCheck(n)
          \/ Finish(n) \/ Break(n) \/ TimeOut(n)
    \/ \E p \in Places : Remediate(p)
    \/ \E r \in DOMAIN Inventory : Sync(r)

Spec == Init /\ [][Next]_vars

-----------------------------------------------------------------------------
\* run stores a finding, its recommendation and its check in three calls and
\* complete comes last: a completed job has everything its summary counts,
\* whatever earlier attempts left half done and whoever still writes.
ReportIsWhole ==
    job.status = "completed" =>
        LET report == run[job.by].report
        IN  /\ job.created = Cardinality(report)
            /\ report \subseteq finding \cap recommendation
            /\ \A p \in report : checks[p] > 0

\* A finding without its recommendation is one that a run has yet to
\* recommend on, or broke off at: each attempt leaves at most one behind.
GapsAreBreaks ==
    Cardinality(finding \ recommendation) <=
        Cardinality({n \in Attempts : \/ At(n, "recommending")
                                      \/ At(n, "over") /\ job.by # n})

\* Repeated processing adds health checks and nothing else, one for each
\* attempt that found what they report.
ChecksAreAttempts ==
    \A p \in Places : checks[p] > 0 =>
        checks[p] <= Cardinality({n \in Attempts : p \in run[n].report})

\* The first sync was one of the mock provider, which says the same each time.
MockFilled ==
    \A r \in DOMAIN MockInventory :
        /\ r \in DOMAIN Inventory
        /\ Inventory[r] = MockInventory[r]
        /\ Descriptions[r] \subseteq {MockInventory[r]}

\* "13 mock resources, diagnostic job completed with 21 findings / 21
\* recommendations" (README.md:169), and a fixture for every rule
\* (testing-strategy.md:13): of a job over an inventory nobody has changed.
DemoReport ==
    job.status = "completed" /\ job.scope = DOMAIN MockInventory /\ fixes = 0 =>
        /\ job.scanned = 13
        /\ job.created = 21
        /\ Cardinality(finding) = 21
        /\ Cardinality(recommendation) = 21
        /\ \A i \in 1 .. Len(Rules) : \E p \in finding : RuleAt(p) = Rules[i]

\* The findings whose recommended action does away with their reason.  (An
\* alarm changes no latency and no failure rate, an owner no other tag.)
Curable == {"s3.public_access", "cloudwatch.missing_alarms", "service.unhealthy",
            "resource.missing_backup", "app.repeated_errors"}

\* The rules read what the actions write: a simulated execution, no dry run, of
\* what such a finding recommends clears it, on whatever the resource has become
\* since, and no action on a resource makes another rule fire.
RemediationHelps ==
    [][\A p \in Places : Remediate(p) =>
          LET r == ResourceAt(p)
          IN  /\ RuleAt(p) \in Curable => ~Fires(RuleAt(p), resource'[r])
              /\ \A i \in 1 .. Len(Rules) :
                    Fires(Rules[i], resource'[r]) => Fires(Rules[i], resource[r])]_vars

-----------------------------------------------------------------------------
(* A claim that the code does not keep.                                    *)

\* "Add missing tags {missing} using the allowlisted tagging action"
\* (engine.py:66): executing it adds the missing tags and changes no other.
TagsAreAdded ==
    [][\A p \in Places : Remediate(p) /\ RuleAt(p) = "resource.missing_tags" =>
          LET r == ResourceAt(p)
          IN  \A t \in RequiredTags :
                 IF resource[r].tags[t] = "" THEN resource'[r].tags[t] # ""
                 ELSE resource'[r].tags[t] = resource[r].tags[t]]_vars

=============================================================================
