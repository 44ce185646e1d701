# CloudOps Sentinel: specifications, model checking and proofs

TLA+ specifications of the parts of CloudOps Sentinel whose correctness depends
on the order in which things happen, the TLC configurations that check them on
small instances, and TLAPS proofs of their main properties for every instance.
Every definition is translated from the TypeScript source; `PROJECT.json` gives
the lines each one stands for.

## The system

CloudOps Sentinel inventories cloud resources, runs a policy engine over them
and applies allowlisted, so far simulated, remediations. All state is in
MongoDB; the API (two replicas), the workers (two replicas, each with
`WORKER_CONCURRENCY` slots) and the operators' requests meet nowhere else. A
single-document update is atomic; nothing in the code spans two documents with a
transaction or checks a version before it writes.

| Component | State it keeps | Operations | Meets |
| --- | --- | --- | --- |
| Job queue (`shared/jobs/queue.ts`) | `DiagnosticJob`: status, lease, owner, attempts, next run | claim, heartbeat, complete, fail, recoverAbandoned | workers, job API |
| Worker (`apps/worker`) | running flag, calls in flight, heartbeat intervals | loop, processNext, shutdown | job queue, diagnostic run |
| Diagnostic run (`processor.ts: run`) | `Finding`, `Recommendation` (upserted), `HealthCheck` (inserted) | run, abandoned by a timeout but not stopped | inventory, diagnostics client |
| Job API (`job-service.ts`) | none of its own | create (idempotent), retry, list, get | job queue, audit |
| Remediation (`remediation-service.ts`) | `RemediationPlan`, `ApprovalToken`, `RemediationExecution` | createPlan, approve, execute | findings, inventory, audit |
| Actions (`shared/remediation/engine.ts`) | none | applySimulatedAction, allowlist | remediation |
| Diagnostics client (`client.ts`, `circuit-breaker.ts`, `retry.ts`) | breaker state, failures, opening time (per process) | analyze, exec, withTimeout, backoff | worker slots, policy engine |
| Policy engine (`services/diagnostics`) | none | nine rules over one resource | diagnostics client |
| Inventory (`resource-service.ts`, `providers/`) | `CloudResource` with a version | sync (from the mock provider or AWS), list | remediation, diagnostic run |
| Auth, HTTP layer, queries, audit, observability | audit records (appended last) | stateless checks and reads | all services |

### What is hard

* **Interleaving.** Claims by several workers and by several slots of one;
  requests of several operators and API replicas. Services read a document,
  decide, and write it back by id (`complete`, `fail`, `JobService.retry`,
  `approve`, `execute`): whatever happened in between is overwritten.
* **Failure.** A worker dies with what it holds; a reply of the database is lost
  though its write was applied; a stall outlasts a lease; an execution dies
  between changing resources and recording that it did.
* **Timeouts.** A run that times out is not stopped; a lease that runs out does
  not stop its holder.
* **Progress.** Every path of failures, backoffs, recoveries and retries must
  lead back to a claim or to an end.

`PROJECT.json` lists each hazard at its line with the properties that watch it.

### What makes each component correct

* Job queue and worker: one holder per job; a completed job is final; attempts
  have a ceiling; nothing is ever out of reach of recovery; every submitted job
  ends; a graceful stop loses nothing.
* Diagnostic run: a completed job's findings are whole; repeated processing adds
  nothing but repeated health checks.
* Job API, plans, executions: one document per idempotency key, and the same
  answer to every request that carries it.
* Remediation: nothing executes unapproved; a token pays for one execution;
  every change of a resource has its execution record.
* Circuit breaker: closed exactly while failures are few; shut for a bounded time,
  whatever is still in flight; an outage leaves no trace.
* Policy engine and actions: executing what a finding recommends clears the
  finding.
* Inventory: a provider call that fails makes no resource look clean.

## Modules

| Module | What it is |
| --- | --- |
| `JobQueue` | job documents, worker processes, calls of `processNext`, retry requests |
| `JobLifecycle` | what the queue promises a submitter: the abstract specification |
| `MCJobQueue` + `MCJobQueue*.cfg` | instances for TLC |
| `JobQueueProofs` | type correctness, exclusive claims, leases, single holder, completed is final; the queue implements `JobLifecycle` |
| `JobQueueAttempts` | how far attempts overrun their ceiling, how many processors a job can have; graceful stops; the delays of `Backoff` |
| `Backoff` | the delays that `fail` puts jobs off by, over `JobQueue` |
| `MCJobQueueLive` + `MCJobQueueLive.cfg` | the queue under fairness with its delays, for TLC |
| `JobApi` | create and retry requests with their audit events, composed with the whole of `JobQueue` |
| `MCJobApi` + `MCJobApi.cfg` | instance for TLC, which checks the queue's own safety too |
| `JobApiProofs` | one record per key, no race fails a request, complete audits; the composition keeps the queue's theorems |
| `Remediation` | plans, approval tokens, execution records and resources; requests that create, approve and execute; `sync` |
| `PlanLifecycle` | what remediation promises of a plan: the abstract specification |
| `MCRemediation` + `MCRemediation*.cfg` | instances for TLC |
| `RemediationProofs` | type correctness, statuses backed by documents, final records, one execution per plan |
| `RemediationEffects` | changes with their plans and tokens, complete after-states, stuck plans, complete audits |
| `RemediationRefinement` | remediation implements `PlanLifecycle`; a plan spends one token |
| `PolicyEngine` | the nine rules, the actions, the mock inventory: operators, no state |
| `DiagnosticRun` | what the attempts of a job write, over an inventory that remediations and syncs change |
| `AwsInventory` | what the AWS provider says of an account when calls for single items fail, over `DiagnosticRun` |
| `MCDiagnosticRun` + `MCDiagnosticRun*.cfg` | instances for TLC |
| `DiagnosticRunProofs` | type correctness, whole reports, gaps, health checks, remediations that help, what is found in an account and in the demonstration |
| `CircuitBreaker` | the breaker of a worker process and the calls that pass through it |
| `MCCircuitBreaker` + `MCCircuitBreaker.cfg` | instance for TLC |
| `CircuitBreakerProofs` | type correctness, closed exactly while failures are few, bounded shutting |

### JobQueue

`job` is the collection, one record per document. `exec` has a record for every
slot of every worker: one call of `processNext`, whose `pc` says which await it
is at (`claiming`, `running`, `completing`, `failing`, `deciding`). `retry` has a
record for every operator request, between its `findOne` and its `save`. `mode`
is the life of each worker process.

Each database call is one action, with its filter as guard and its update as
primed record: `Claim` (findOneAndUpdate), `Complete`, `FailRead` and
`FailWrite` (the two calls of `fail`), `Heartbeat`, `RecoverAbandoned` (one
action per document that its updateMany matches, since updateMany is atomic per
document only), `RetryLoad` and `RetrySave` (mongoose's `save` writes, by id,
the fields that differ from the loaded document).

Time is reduced to what the filters compare: a lease is `null`, `live` or
`expired`, a job is due or not. A lease that a call under way renews does not
expire by itself (`WORKER_HEARTBEAT_MS` is well below `WORKER_LEASE_MS`);
`Stall` is the fault by which it does all the same. A heartbeat that leaves a
worker just before its call returns and arrives after it is not modelled: its
filter asks for the worker and the status `running`, so it could only lengthen
once a lease that the same worker has just taken.

Faults are counted, and a constant says which kinds may happen: `crash` of a
worker process (also what an unhandled heartbeat rejection does to it), `stall`,
and `lost`, a database call that rejects before or after it was applied: of a claim,
`CallErrs` and `ClaimReplyLost`.

Left out: error texts, result summaries, metrics, logs, the audit record of a
retry, and the fields no decision reads.

### JobLifecycle

Phases `absent`, `queued`, `processing`, `orphaned`, `completed`, `dead` and the
tries of each job. The mapping (`Phase` in `JobQueue`): `pending` and
`retry_wait` are queued; a running document is processing if some call of
`processNext` holds it and orphaned if its process is gone. `Requeue` needs
tries left and `GiveUp` none; `Find` (recovery) looks at nothing.

### Backoff

`Step` and `Jittered` are the two halves of `exponentialBackoffWithJitter`, in
integers: `Math.random()` is one of `Grain` equal parts, and `Math.round` rounds a
half up. `TwoToThe` is the `2 **` of `Step`, defined so that something can be proved
of it. In `JobQueue` a job that waits is just not due. `BackoffIsOrdered` joins
the two: it looks at the delay for the attempts that a call of `fail` has read,
and at those of the failures that may follow.

### JobApi

`JobApi` extends `JobQueue`: its next-state relation is the queue's, with
submissions made by requests. `post` has a record for every `POST /diagnostics`
request: `Lookup` is the `findOne` by idempotency key, `Insert` the insertion,
which the unique index refuses when another request was faster, `FindWinner` the
`findOne` of the catch block, `RecordCreation` the audit event and the answer.
`RecordRetry` is the audit event of a retry whose `save` is the queue's
`RetrySave`. `CreateErrs` and `RetryErrs` are a database call that rejects, before
or after it was applied, and the death of the API process; `mishaps` counts them.
A document is named by its key, and `origin` remembers whose input it was made
from. Requests with one key and different inputs are therefore different requests
to one document. Left out: the contents of the input, versions, `list` and `get`.

### Remediation

`plan`, `token`, `record` and `resource` are the collections. Plans and
execution records have a unique index on their idempotency key, so a plan is
named by its key and a record stored under its own. `PlanInputs` says what is
asked with each key: which findings, and whether as a dry run. `audit` is the
audit log, reduced to what its events are about.

`req` has a record for every request in flight. A request runs from one database
call to the next; its `pc` says what it has behind it, its other fields what it
remembers: the status it loaded (`was`), the resource documents (`docs`), the
actions still to do (`todo`), and the snapshots it collects. One action is one
database call with the checks and assignments that follow its answer:
`PlanLookup`, `PlanCreate`, `PlanKeyTaken`; `ApproveLoad`, `ApproveIssue`,
`ApproveSave`; `ExecuteLookup`, `ExecuteLoadPlan`, `ExecuteCheckToken`,
`ExecuteLoadResources`, `ExecuteMarkPlan`, `ExecuteUseToken`, `ExecuteAction` (a
round of the loop, with its `resource.save()`), `ExecuteRecord`,
`ExecuteComplete`; and `Audit`, the last call of each. `Abort` ends a request at
any of its calls. `Expire` is a token's time running out, `Sync` a resource
taking over what the provider's inventory says.

A resource is the set of actions whose effect its `tags`, `config` and `metrics`
show. `save()` writes the fields that differ from the loaded document
(`Save`), so what is written between a load and a save is kept or lost field by
field, as in the code.

`Contended` names the plans whose approvals and executions may overlap. What
holds for those is stated for all plans; what holds only when the requests of a
plan come one after the other is stated for the others, whose requests still
break off anywhere and overlap with those of other plans and with `sync`.

Left out: replays and refused requests, which change nothing; the branches for a
resource that is not found and the statuses behind them (`failed`,
`partial_failure`, `rejected`, `draft`), since nothing in the program deletes a
resource, and every simulated action reports success; versions, correlation ids,
times and messages.

### PlanLifecycle

A plan goes through `absent`, `proposed`, `approved`, `cleared`, `begun`, `applying`,
`recorded` and `completed`; from the last three before completion it may become
`broken`, for good. Each plan has `approval`, the states of the tokens issued for it,
`under`, the token it is being executed under, `left`, the actions still to do, and
`records`, the tokens under which executions of it are recorded. No request,
document, key or fault is in sight, nor another plan.

The mapping (`Phase`, `Left`, `Under`, `Approval`, `RecordedUnder` in `Remediation`)
shows the plans that are not contended. Statuses map to phases of their own name;
between `approved` and `executing`, and within `executing`, the phase is what the
request that executes the plan has behind it: `cleared` once the token is checked,
`begun` once the plan is saved as executing, `applying` once the token is saved as
used, `recorded` once the record is stored. A plan stored as executing that no
request works on is `broken`. A request that dies before it has saved the plan
withdraws: the plan is `approved` again. A token that expires after it was checked
lapses like any other and is spent all the same, which the code allows: `execute`
looks at the time once. The steps of what requests only read, of resources, of the
audit log and of contended plans are stutters.

### DiagnosticRun and PolicyEngine

`PolicyEngine` has one operator per rule of `engine.py`, `Applied` for what
`applySimulatedAction` does to a resource, `ActionOf` for the action a rule
recommends, and the mock provider's inventory. A resource is the fields rules
read, with the defaults the rules give to absent ones; rates are in thousandths.

In `DiagnosticRun` a finding is a rule on a resource, which is what the unique
index of `Finding` (job, resource, rule) makes of it: a place in the order in
which `evaluate` finds them. `finding`, `recommendation` and `checks` are the
documents of one job; `run` has a record per attempt: `pc` is the next database
call, `report` the analysis, `at` the place it has come to, `abandoned` that
`withTimeout` gave it up while it goes on. `Claim`, `Load`, `Analyze`,
`StoreFinding`, `StoreRecommendation`, `StoreCheck` and `Finish` are the calls of
an attempt; `Break` is one that rejects (or a worker that dies) and `TimeOut` the
timer. `Remediate` is a simulated execution, no dry run, of what a stored finding
recommends, its load and save in one step (executions that write nothing, and what
happens between the two calls, are in `Remediation`), and `Sync` sets a
resource to one of the things the provider may say of it (`Descriptions`). `Scopes`
are the selections that a job may be submitted with.

The queue is reduced to one job's attempts, each following the failure of the one
before (`JobQueue` has the rest). The analysis depends only on the resources the
run loaded, so `Load` settles it. What documents say besides which finding they
are about (severity, evidence, texts, results) is left out.

### AwsInventory

`Item` is what AWS holds: instances, buckets, functions. `Described(c, failed)` is
the resource that `listResources` stores for item `c` when the calls in `failed`
reject: the listing of a type is one call whose failure ends the sync with nothing
stored, but tags, the access block of a bucket and the CPU average are asked item
by item, and each has a default. `AccountAssumption` says that these are the
`Descriptions` of an item. A sync may fail differently each time and for each item.

Left out: alarms (`listAlarms` stores resources of which no rule reads anything but
their missing tags), the bounded first page of every listing, and the filters of
a query.

### CircuitBreaker

`state`, `failures` and `openedAgo` are the fields of `CircuitBreaker`; the last
two stop counting where no comparison can tell (the threshold, the reset
timeout), so nothing is cut off. `call` has a record for every call of `analyze`
in flight: awaiting the headers (`fetching`, or `lost` when they will not come),
with `left` ticks of `withTimeout`, or the body (`reading`, or `broken`), which
`withTimeout` no longer covers. `Begin` is `exec` up to its first await with
`maybeHalfOpen`; `Succeed` and `Fail` are the rest of it with `onSuccess` and
`onFailure`. A status of 4xx fails like any other. `shut` is a history variable:
for how many ticks no call could have passed.

`Toggle` and `Drop` are the service and the network. A call that is refused
changes nothing and is not an action. Left out: metrics and the request's contents.

## Runs

| Run | Instance | Shows |
| --- | --- | --- |
| `job_queue_faults` | 2 create requests with 1 key, 2 overlapping retries, 3 workers, 1 job; 1 fault of any kind or 1 request ended by an error | `SameRecord`, `OnlyErrorsFail`, `AuditAccounts`; `LeaseMatchesStatus`, `AttemptsBounded`, `ProcessorsBounded`, `GracefulExit`; types |
| `job_queue_crashes` | 2 workers with 2 slots, 2 jobs, 1 retry, 2 crashes | `SingleHolder`, `CompletedIsFinal`, refinement of `JobLifecycle` |
| `job_queue_live` | 2 workers, 1 job, 1 retry, 2 faults of any kind, fairness; 4 settings of the backoff | `Settles`, `DrainEnds`, `BackoffIsOrdered` |
| `attempt_ceiling` | 1 crash | violated: the ceiling of README.md:73 |
| `final_errors` | no fault | violated: README.md:74, final errors skip retry |
| `duplicate_processing` | no fault, 2 overlapping retries | violated: README.md:71, no duplicate processing |
| `remediation_overlap` | 2 requests in flight, 2 plans (1 contended), 2 keys, 2 tokens, 1 resource, 1 fault | statuses backed by tokens and records, final records, audit, complete after-states; for the serial plan one execution, statuses that advance, one token spent, refinement of `PlanLifecycle`; changes accounted for by plans and their used tokens |
| `token_single_use` | 1 plan, 2 overlapping executions, no fault | violated: threat-model.md:30, tokens are single-use |
| `diagnostic_run` | the 13 mock resources or 2 of an account, 2 attempts, 1 remediation, any syncs with failing calls | whole reports, gaps, health checks, the documented 21 findings, remediations that help, failures that are seen, only configuration found |
| `missing_tags` | the same with 1 attempt | violated: engine.py:66, missing tags are added |
| `circuit_breaker` | 3 calls in flight, threshold 2, reset after 3 ticks, timeout 2 ticks, fairness | `ClosedWhileFew`, `ShutIsBounded`, `OutageEnds` |
| `before_state` | 1 plan with 2 actions on one resource, 1 request at a time | violated: README.md:89, the state before is stored |

**Bounds of the queue.** `MaxAttempts` is 2: a first, a last, and (past the
ceiling) further attempts. Two crashes, or two faults of any kind under fairness, allow one while
what the other left is being recovered. `job_queue_faults` has the requests of the
API in it and one misfortune instead (constraint `OneMisfortune`: a fault of the
queue or a request ended by an error, and the step that makes a second); what any
number of faults together can do to its properties is proved. It has three workers,
so that `ProcessorsBounded` could fail: two processors after one fault or one later
retry, and three after one of each, meet it with equality. Until every create request
has its answer one call of `processNext` at a time is at work (constraint
`OneCallUntilAnswered`; create requests change no job that exists), and one worker of three
is told to stop (`OneStops`). Two retry requests are the smallest number that overlap;
each client sends one.
Attempts and versions need no bound: faults and retries, which are bounded, are
all that can keep a job going. Workers, slots, jobs and clients are
interchangeable, so the safety runs use symmetry; the liveness run does
not. Delays are looked at for an attempt and the four after it (`Ahead`), by which the settings with a low
cap have met it, with random numbers in tenths (`Grain`).

**Bounds of remediation.** Two requests in flight are the smallest number that
overlap; there is no bound on how many follow one another but the keys and
tokens they use up. Two tokens and two keys give one plan two approvals and two
executions, or let one plan take the key of another. The contended plan `p1` has
one action, the serial plan `p2` two on the same resource (one of the tags, one
of the configuration), a finding nobody automates, or a dry run of one action.
Its resource is shared with `p1` and with `sync`. One fault shows every place
where a request may break off. Keys, tokens and clients are interchangeable;
plans and findings are not. Requests may all have ended, so deadlock is not
checked.

**Bounds of diagnostic runs.** The workspace has been filled by the mock provider,
whose inventory has a resource for every rule, and is now synced with an account of
AWS: an exposed bucket and a stopped instance, both in production by their tags
alone, so that failing calls hide as much as they can. The job asks for one or the
other. Resources outside its scope stay as they are (constraint `OutsideStays`),
since no job reads them. Two attempts are the smallest number that overlap: the
first times out and writes on while the second runs, or breaks off anywhere. One
remediation, at any moment and of any stored finding, changes what is found next.
The long job of the demonstration has a remediation or a second attempt, that of
the account both (constraint `FixedOrRetried`). A job that is done stays done, so
deadlock is not checked.

**Bounds of the breaker.** Three calls are one more than the threshold, so one is
left to fail when the breaker is open, and `ShutIsBounded` is met with equality:
each call in flight fails just before the reset timeout. The call timeout is
shorter than the reset timeout, as in the configuration's defaults; late failures
come from bodies.

**Fairness.** Weak fairness for what the code's runtime owes: timers fire
(`BackoffElapses`, `LeaseExpires`), awaited promises settle and the loop spawns
(`ExecStep`), the loop of every living worker recovers what it finds
(`RecoverAbandoned`), a drained worker exits, a crashed container is restarted.
A run always settles since `withTimeout` bounds it. None for clients, operators,
deployments and faults. Remediation has no liveness property: a request that breaks
off is never resumed, and the code does not promise that it is. For the breaker:
the clock runs, responses come while the service is up, timers fire and rejected
promises settle. None for bodies, which may hang for ever, and none for callers:
that calls would pass does not need anybody to call.

**Slips.** Each property of a passing run is shown to notice a plausible mistake
in one of the definitions it watches (section "Slips" of the module, and
"mutants" in `PROJECT.json`).

## What is proved

### Job queue

For every number of jobs, workers, slots, clients, attempts and faults, from the
named assumptions on constants in `JobQueue` (`Null` is no worker, `MaxAttempts`
is positive, fault kinds are those listed).

*Under every kind of fault:* `TypeCorrect`, `ClaimsAreExclusive` (which no run checks),
`LeasesMatchStatuses`. The first needs `TypeInv`, which adds that calls and
requests under way name a submitted document. Exclusive claims follow from one
observation (`ClaimsOrKeeps`): a step either is a claim, which takes a version
beyond all held ones, or leaves what is held as it is and lets no version go
back.

*With crashes but neither stalls nor lost replies, and without overlapping
retries:* `OneHolderPerJob`, `CompletedJobsAreFinal`,
`QueueImplementsLifecycle`. These conditions are hypotheses of the theorems; the
violated runs and `job_queue_faults` show what is lost without them.
`SingleHolder` is not inductive by itself: the unguarded writes of `complete`,
`fail` and `save` are harmless only because nobody else has touched what they
read. `HolderInv` says so: a holder's document is running, names it and has a
live lease; the attempts `fail` read are still the document's; a loaded retry
still sees the dead-lettered document it loaded, and is alone. The refinement
maps each action by one lemma (`ClaimMaps`, `FailWriteMaps`, `CrashMaps`, ...).

*Attempts and stops*, under every kind of fault and any retries:
`AttemptsAreBounded` and `ProcessorsAreBounded` are one accounting. `Slack` is
what has been spent: faults and the retries saved after the first. (A retry saved
over the document it loaded is counted like one saved over another state, so where
retries come in turn the bounds are not the tightest.) Besides the call a document
belongs to, every call still at work on it was paid for (`Crowd`); and once the ceiling is reached, so is every claim to
come (`Overrun`), which counts a document that is free to be claimed and the
calls that have decided to requeue it. Each action keeps, leaves, joins or saves
over the crowd of a job (`KeepsCrowd`, ...) at the price it takes.
`StoppedWorkersOwnNothing` needs that without a fault a running document is held
by a slot of the worker it names (`OwnedIsHeld`).

*Delays*, for every setting of base and cap and any `Grain` and `Ahead`
(`GrainAssumption`, `SettingsAssumption`): `DelaysAreOrdered`. What a step draws is
bounded by the step (`JitteredBounds`), and of two steps the second of which is at
least twice the first no draw reorders the delays (`JitteredOrdered`); until the cap
is met steps are such (`StepBounds`). That a power of two is a number and the next
one its double (`TwoToTheDoubles`) is shown by a function that agrees with the
recursive definition up to any point, and a least point at which there would be none.

*Model-checked only:* the liveness properties `Settles` and `DrainEnds`, which
TLAPS does not prove.

### Job API

For every number of requests with any keys, over any queue, from
`RequestAssumption` (`Null` is no request) and `MishapsAssumption`.
`RequestsKeepTheQueue` (`ApiSpec => Spec`) says that requests make no step on jobs
that the queue lacks, so that all theorems above hold of the composition.
`ApiTypeCorrect` and `OneRecordPerKey` rest on `PostInv`: a document has one
origin from its insertion on, only its origin comes to `created`, and whoever the
index refused finds a document. `NoRaceFailsARequest` and `AuditsAreComplete` are
accounts (`Costs`): a step adds to the failed requests, the creations and the
retries without event nothing, or pays a mishap for one element (`StepCosts`).

### Remediation

For every set of findings, resources, plans, keys, tokens and requests in flight,
every configuration and any number of faults, from `FindingAssumption`,
`ConfigAssumption`, `NullAssumption` and `BoundAssumption`.

*Whatever requests overlap:* `TypeCorrect`, `ApprovedPlansHaveTokens`,
`CompletedPlansAreRecorded`, `RecordsUseTheirTokens`, `RecordsAreNeverReplaced`.
The inductive invariant `Inv` adds to the properties what each `pc` has behind it
(`Grounded`: from `issued` on the token is stored for the request's plan, from
`applying` on it is used, from `recorded` on the record is the plan's) and that a
token not yet inserted is its request's own (`Reserved`). It is preserved because
tokens, their use and records only accumulate (`Monotone`).

*For plans that are not contended:* `PlansExecuteOnce`, `StatusesAdvance`. No save
checks a status, so the invariant has to say that none needs to: one request at a
time works on such a plan (`Alone`), what it has read of the plan is still so
(`UpToDate`), and a plan with a record is past the point where a request could
execute it again (`RecordsOfPlans`). An execution that breaks off leaves its plan
`executing`, a status from which nothing starts, so there is no second one.

*What is left behind* (`RemediationEffects`), whatever requests overlap or break off,
except that the third is of plans that are not contended. `FixesHavePlans`: a
resource shows an action only if a plan that was executed, under a token now used,
asks for it; as a request
saves again what it saw, this must hold of the documents requests carry too
(`SeenAccounted`), and as plans never fall back behind their approval
(`Followed`), what was accounted for stays so. `AfterStatesAreComplete`: of the
actions a request is done with, the effects are in its after-state and in the
document from which the next one makes its own (`Progress`).
`PlansGetStuckByKeyClash`: a plan left executing has lost its request to a fault or
to a record under its key (`Stuck`). `AuditsAreComplete` counts: plans, approvals
and executions that are done, not in the log, and of no request that will still
write them, are no more than the faults (`Missing`).

*Refinement* (`RemediationRefinement`): `RemediationImplementsLifecycle`, for the plans
that are not contended, beside any that are. What `PlanLifecycle` shows of a plan is
determined by the plan, its tokens, its records and the one request that executes it
(`Views`: for each `pc`, the phase, the token and the actions left; for none, what the
status says). So a step that leaves these alone is a stutter of the plan (`Keeps`), and each
action that does not is one step of `PlanLifecycle`, by a lemma of its own
(`ClearMaps`, `SpendMaps`, `EndMaps`, ...). Two facts are added to the invariant of the
effects: no token of the plan is used before the request that marked it saves its own
(`SpentOnce`), and an execution that is about to begin has all the actions of its plan
before it (`Todos`). `PlansSpendOneToken` follows from the same invariant: two approvals
give a plan two tokens, and only one of them is ever used or recorded under.

### Diagnostic runs

For every inventory, scope, number of attempts and of remediations, from
`InventoryAssumption` (`find` returns each document once) and `BoundAssumption`.

`TypeCorrect` rests on `AtPlaces`: whoever stores is at a place. `ReportsAreWhole`
needs three facts (`WholeInv`): a run has stored everything before its place, and
of its place what its `pc` says (`RunsStore`); only the last attempt can be
running and not given up, so a late run never completes the job (`OneAwaited`);
and the run that completed it is over, with its report stored (`CompletedBy`).
Documents are only added, so other runs disturb none of this. `GapsComeFromBreaks`
adds that somebody owes each missing recommendation (`GapsOwed`) and counts by a
surjection; `ChecksCountAttempts` that a check is inserted by a run as it passes
the finding (`ChecksCounted`). `RemediationsHelp` is a fact about rules and
actions: no field an action writes moves towards a rule's condition
(`AppliedHarmless`), and each curable rule reads the field its action writes
(`AppliedClears`).

*In an account of AWS*, for any items and also from `AccountAssumption`.
`AccountsShowConfiguration`: on what is described only four rules fire
(`DescribedConfig`), on what is remediated since no others (`AppliedHarmless`), so
no run reports others and none is stored (`ConfigInv`). `FailedCallsShow`: until a
remediation, each run that has loaded the resources reports on each of the account
what some description of it shows, and so does the one that completed the job
(`SeenSoFar`), whose report is stored; what any description loses against the full
one is settled field by field (`DescribedLosses`).

*In the demonstration.* `DemoReports` has the hypothesis `MockFilled`: the inventory
was filled by the mock provider, which says the same at every sync. The instance of
the run satisfies it (`MCFilled`), and there may be other resources beside. One lemma
per resource says which rules fire on it (`WebFires`, `ApiFires`, ...); together they
are the list `DemoFirings` of 21 pairs of a resource and a rule. In any order of the
resources each pair has exactly one place (`PlaceExists`, `PlaceUnique`), so there are
21 places (`DemoSize`), and until a remediation every run that has loaded the
resources reports these and no others (`DemoSoFar`).

### Circuit breaker

For every number of calls and all timeouts, from `CallsAssumption` and
`BreakerAssumption`: `TypeCorrect`, `ClosedMeansFewFailures` (inductive with the
types) and `BreakerReopensInTime`. For the last, `ShutInv` trades calls for time:
while nothing can pass, the ticks since then are at most `ResetTimeout - 1` for
each call that is not in flight any more, and the age of the breaker. A failure
sets the age to 0 and takes one call; no call begins.

*Model-checked only:* `OutageEnds`, a liveness property.

## What the checks found

1. **The attempt ceiling does not hold across crashes** (`attempt_ceiling`).
   `recoverAbandoned` requeues whatever has an expired lease; a job that kills
   its worker is never dead-lettered. `AttemptsBounded` says how far it goes:
   one attempt per fault, plus one per retry saved after the first.
2. **Final errors are retried** (`final_errors`). `processNext` looks for the
   words "not retryable" in the message; the flag the client sets on an HTTP 4xx
   is never read.
3. **Overlapping retries cause duplicate processing** (`duplicate_processing`).
   The second `save` turns the running job back to `pending`; its holder cannot
   renew the lease and does not notice. `ProcessorsBounded` says how far it goes.
4. **A token pays for two executions** (`token_single_use`). `execute` checks the
   token and stores its use in different calls: two requests that overlap pass
   the check together. With one idempotency key the second has applied its
   actions when the unique index refuses its record.
5. **The state before is lost when two actions share a resource**
   (`before_state`). Each round of the loop sets the resource's entry of
   `beforeState` again.
6. **Missing tags stay missing** (`missing_tags`). The plan made from a finding
   of missing tags always sets `Owner=platform`: a missing `CostCenter`, `Service`
   or `Environment` stays missing, the finding comes back, and an owner the
   resource had is replaced.

Seen while modelling and covered by no property, since nothing in the repository
promises otherwise: an execution that breaks off leaves its plan `executing` for
good; two plans that write one field of one resource overwrite each other; the
preview of a dry run with several actions on a resource shows the last one only;
findings of an attempt that did not complete the job stay beside those of the one
that did, and a late run may overwrite their evidence with older readings. The
breaker may be shut for longer than `CB_RESET_TIMEOUT_MS`, by one reset timeout
per call in flight. With the default configuration the backoffs of a job's attempts add
up to less than that timeout, so a job that comes upon an open breaker may be
dead-lettered without a request being sent. The breaker that the API reports is
one no call passes through, so it is always closed.

Read in the code and checked by no run: of two create-plan requests that race with one
key, the loser is answered with the error of the unique index, where
architecture.md:42 says that the original record is returned; only
`JobService.create` catches that error. And a tag call of AWS that fails stores a
resource without tags: until the next sync its findings are those of an untagged
one (`FailuresAreSeen` says what is lost, and that the loss shows).

## Plan

Done, in this order: `JobQueue` with `JobLifecycle` and `Remediation`, where
concurrent writers meet; `DiagnosticRun` with `PolicyEngine`; `CircuitBreaker`;
the idempotent intake of jobs composed with the queue (`JobApi`); the proofs of what
was model-checked only (`JobQueueAttempts`, `RemediationEffects`); the delays of
retries (`Backoff`); the accounts that AWS describes (`AwsInventory`); the abstract
specification of remediation (`PlanLifecycle`) with the proof that it is implemented, and
the proofs of the delays and of the demonstration. Left, in the
order of importance:

1. The breaker under the retries of several jobs: how many attempts an outage
   uses up before the breaker lets one through.
2. The audit event of `sync`, and syncs of two providers that run at once.

## Not modelled

Authentication and roles, request validation, queries, metrics, logging, API
documentation and the seed script, which keep no state that a sequence of steps could
break. Of the AWS provider, the alarms, the first-page limit and the filters (see
`AwsInventory`); of `sync`, its audit event. `withRetry` is used once, to connect to
MongoDB at the start.
