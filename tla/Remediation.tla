---------------------------- MODULE Remediation ----------------------------
(***************************************************************************)
(* Remediation of findings: RemediationService.createPlan, approve and     *)
(* execute (apps/api/src/services/remediation-service.ts), the simulated   *)
(* actions of packages/shared/src/remediation/engine.ts, and the sync of   *)
(* ResourceService, which writes the same resource documents.              *)
(*                                                                         *)
(* A request runs from one call to MongoDB to the next; each call is one   *)
(* step, taken with the checks and assignments that follow its answer.  A  *)
(* request that a check refuses changes nothing and is left out; so are    *)
(* replays, which return what an earlier request stored.                   *)
(*                                                                         *)
(* Plans and execution records have unique idempotency keys in their       *)
(* collection, so plans are named by theirs, and records are stored under  *)
(* theirs.  Resources are never deleted: every action finds its resource   *)
(* and is simulated with ok = true, so no execution fails.  Fields nobody  *)
(* reads (correlation ids, times, versions of documents) are left out.     *)
(***************************************************************************)
EXTENDS Naturals, FiniteSets

CONSTANTS
    Findings,           \* findings of the workspace
    Resources,          \* its resource documents
    ActionOf,           \* the action type of each finding's recommendation
    ResourceOf,         \* the resource each finding is about
    Plans,              \* plans, by the idempotency key of their request
    PlanInputs,         \* what is asked with each key: findings and dryRun
    Keys,               \* idempotency keys of execute requests
    Tokens,             \* approval tokens that may be generated
    Clients,            \* places for requests in flight
    Contended,          \* plans whose approvals and executions may overlap
    CloudProvider,      \* "mock" or "aws"
    EnableAwsMutations,
    Null,
    MaxFaults           \* bound on the faults of a behaviour

\* ALLOWLISTED_ACTIONS
Allowlisted == {"add_missing_tag", "create_alarm", "enable_backup_policy",
                "restart_unhealthy_service", "restrict_public_storage"}

ASSUME FindingAssumption ==
    /\ ActionOf \in [Findings -> Allowlisted \cup {"manual_review"}]
    /\ ResourceOf \in [Findings -> Resources]
    /\ PlanInputs \in [Plans -> SUBSET (((SUBSET Findings) \ {{}}) \X BOOLEAN)]
ASSUME ConfigAssumption ==
    /\ CloudProvider \in {"mock", "aws"}
    /\ EnableAwsMutations \in BOOLEAN
ASSUME NullAssumption == Null \notin Plans \cup Keys \cup Tokens
ASSUME BoundAssumption == MaxFaults \in Nat /\ Contended \subseteq Plans

VARIABLES
    plan,      \* RemediationPlan documents
    token,     \* ApprovalToken documents
    record,    \* RemediationExecution documents
    resource,  \* CloudResource documents: what the actions changed in them
    audit,     \* audit events, by the plan, token or record they are about
    req,       \* the requests in flight
    faults     \* faults so far

vars == <<plan, token, record, resource, audit, req, faults>>

\* PLAN_STATUSES without those no execution reaches ('draft', 'rejected',
\* 'failed'), and with one for a document that does not exist yet.
Statuses == {"absent", "awaiting_approval", "approved", "executing", "completed"}

PlanType == [status : Statuses, findings : SUBSET Findings, dryRun : BOOLEAN]

TokenType == [plan : Plans \cup {Null}, used : BOOLEAN, expired : BOOLEAN]

\* The parts of a resource that the actions write, each as the set of actions
\* whose effect it shows.
Fields == {"tags", "config", "metrics"}
Content == [Fields -> SUBSET Allowlisted]
Clean == [f \in Fields |-> {}]

\* beforeState and afterState; Clean stands for a resource without an entry.
Snapshot == [Resources -> Content]
NoSnapshot == [r \in Resources |-> Clean]

RecordType == [plan : Plans \cup {Null}, token : Tokens \cup {Null},
               beforeState : Snapshot, afterState : Snapshot]

\* What each pc has behind it:
\*   planning   createPlan found no plan with its key
\*   created    ... and has inserted one
\*   approving  approve loaded the plan, with status was
\*   issued     ... and has inserted a token
\*   approved   ... and has saved the plan
\*   keyed      execute found no record with its key
\*   planned    ... and has loaded an approved plan
\*   checked    ... and has matched a token, neither used nor expired
\*   loaded     ... and has loaded the resources, as docs
\*   marked     ... and has saved the plan as executing
\*   applying   ... and has saved the token as used
\*   recorded   ... and has inserted its record
\*   executed   ... and has saved the plan as completed
ReqType == [pc : {"idle", "planning", "created", "approving", "issued",
                  "approved", "keyed", "planned", "checked", "loaded",
                  "marked", "applying", "recorded", "executed"},
            plan : Plans \cup {Null}, key : Keys \cup {Null},
            token : Tokens \cup {Null}, was : Statuses,
            todo : SUBSET Findings, dryRun : BOOLEAN, docs : Snapshot,
            beforeState : Snapshot, afterState : Snapshot]

AuditType == [plan : SUBSET Plans, approve : SUBSET Tokens,
              execute : SUBSET Keys]

TypeOK ==
    /\ plan \in [Plans -> PlanType]
    /\ token \in [Tokens -> TokenType]
    /\ record \in [Keys -> RecordType]
    /\ resource \in [Resources -> Content]
    /\ audit \in AuditType
    /\ req \in [Clients -> ReqType]
    /\ faults \in 0 .. MaxFaults

-----------------------------------------------------------------------------
NoPlan == [status |-> "absent", findings |-> {}, dryRun |-> FALSE]
NoToken == [plan |-> Null, used |-> FALSE, expired |-> FALSE]
NoRecord == [plan |-> Null, token |-> Null, beforeState |-> NoSnapshot,
             afterState |-> NoSnapshot]
Idle == [pc |-> "idle", plan |-> Null, key |-> Null, token |-> Null,
         was |-> "absent", todo |-> {}, dryRun |-> FALSE, docs |-> NoSnapshot,
         beforeState |-> NoSnapshot, afterState |-> NoSnapshot]

Init ==
    /\ plan = [p \in Plans |-> NoPlan]
    /\ token = [t \in Tokens |-> NoToken]
    /\ record = [k \in Keys |-> NoRecord]
    /\ resource = [r \in Resources |-> Clean]
    /\ audit = [plan |-> {}, approve |-> {}, execute |-> {}]
    /\ req = [c \in Clients |-> Idle]
    /\ faults = 0

At(c, pc) == req[c].pc = pc

Goto(c, pc) == req' = [req EXCEPT ![c] = [@ EXCEPT !.pc = pc]]

Return(c) == req' = [req EXCEPT ![c] = Idle]

\* A request that approves or executes p is in flight.
InFlight(p) == \E c \in Clients : /\ req[c].plan = p
                                  /\ req[c].pc \notin {"planning", "created"}

\* The requests of the model's environment: those about a plan that is not
\* Contended come one after the other.
MayStart(c, p) == At(c, "idle") /\ (p \in Contended \/ ~InFlight(p))

Recorded(k) == record[k].plan # Null
Issued(t) == token[t].plan # Null

\* The findings of a plan that have an action; the others need a person.
Actionable(fs) == {f \in fs : ActionOf[f] # "manual_review"}

\* rejectMutationsIfDisabled
MutationsRejected == CloudProvider = "aws" /\ ~EnableAwsMutations

\* A slip of the definition below, like those that follow: no look at dryRun.
AppliesAlways(p) == CloudProvider = "mock" \/ ~EnableAwsMutations

\* Whether execute writes what it simulated (with a provider of its own that
\* mutates, it would write nothing).
Applies(p) == ~plan[p].dryRun /\ (CloudProvider = "mock" \/ ~EnableAwsMutations)

\* The fields of the resource applySimulatedAction changes.
Changes(action) ==
    IF action = "add_missing_tag" THEN {"tags"}
    ELSE IF action = "restart_unhealthy_service" THEN {"config", "metrics"}
    ELSE {"config"}

\* applySimulatedAction
Apply(action, content) ==
    [f \in Fields |-> IF f \in Changes(action) THEN content[f] \cup {action}
                                               ELSE content[f]]

\* resource.save(): mongoose writes the fields that differ from those loaded.
Save(stored, loaded, new) ==
    [f \in Fields |-> IF new[f] # loaded[f] THEN new[f] ELSE stored[f]]

\* What beforeState and afterState keep of a resource; a dry run's preview
\* keeps all of it.
Noted(content) == [content EXCEPT !["metrics"] = {}]

-----------------------------------------------------------------------------
(* Slips: what one of the operations below would be with a mistake in it.  *)
(* Spec uses none of them; each shows that a property would notice.        *)

\* The plan takes over the execution's status.
CompleteAsSucceeded(c) ==
    /\ At(c, "recorded")
    /\ plan' = [plan EXCEPT ![req[c].plan] = [@ EXCEPT !.status = "succeeded"]]
    /\ Goto(c, "executed")
    /\ UNCHANGED <<token, record, resource, audit, faults>>

\* The request returns without its audit event.
CompleteAndReturn(c) ==
    /\ At(c, "recorded")
    /\ plan' = [plan EXCEPT ![req[c].plan] = [@ EXCEPT !.status = "completed"]]
    /\ Return(c)
    /\ UNCHANGED <<token, record, resource, audit, faults>>

\* The plan is saved before its token is created.
ApproveFirst(c, p, t) ==
    /\ MayStart(c, p)
    /\ plan[p].status \in {"awaiting_approval", "approved"}
    /\ ~Issued(t)
    /\ \A d \in Clients : req[d].token # t
    /\ plan' = [plan EXCEPT ![p] = [@ EXCEPT !.status = "approved"]]
    /\ req' = [req EXCEPT ![c] = [Idle EXCEPT !.pc = "approving", !.plan = p,
                                              !.token = t, !.was = "approved"]]
    /\ UNCHANGED <<token, record, resource, audit, faults>>

\* Any plan can be approved.
ApproveAnyStatus(c, p, t) ==
    /\ MayStart(c, p)
    /\ plan[p].status # "absent"
    /\ ~Issued(t)
    /\ \A d \in Clients : req[d].token # t
    /\ req' = [req EXCEPT ![c] = [Idle EXCEPT !.pc = "approving", !.plan = p,
                                              !.token = t,
                                              !.was = plan[p].status]]
    /\ UNCHANGED <<plan, token, record, resource, audit, faults>>

\* Any plan can be executed.
ExecuteAnyStatus(c) ==
    /\ At(c, "keyed")
    /\ Goto(c, "planned")
    /\ UNCHANGED <<plan, token, record, resource, audit, faults>>

\* The plan is marked before its token is checked.
MarkEarly(c) ==
    /\ At(c, "keyed")
    /\ plan[req[c].plan].status = "approved"
    /\ plan' = [plan EXCEPT ![req[c].plan] = [@ EXCEPT !.status = "executing"]]
    /\ Goto(c, "planned")
    /\ UNCHANGED <<token, record, resource, audit, faults>>

\* usedAt is set and not saved.
UseTokenUnsaved(c) ==
    /\ At(c, "marked")
    /\ Goto(c, "applying")
    /\ UNCHANGED <<plan, token, record, resource, audit, faults>>

\* Every action starts from the resource as it was loaded.
ActionOnOriginal(c, f) ==
    LET r == ResourceOf[f]
        loaded == req[c].docs[r]
        applied == Apply(ActionOf[f], loaded)
        new == IF Applies(req[c].plan) THEN applied ELSE loaded
        shown == IF plan[req[c].plan].dryRun THEN applied ELSE Noted(new)
    IN  /\ At(c, "applying")
        /\ f \in req[c].todo
        /\ resource' = [resource EXCEPT ![r] = Save(@, loaded, new)]
        /\ req' = [req EXCEPT ![c] =
                      [@ EXCEPT !.todo = @ \ {f},
                                !.beforeState = [@ EXCEPT ![r] = Noted(loaded)],
                                !.afterState = [@ EXCEPT ![r] = shown]]]
        /\ UNCHANGED <<plan, token, record, audit, faults>>

\* No unique index on the records' keys.
RecordOver(c) ==
    /\ At(c, "applying")
    /\ req[c].todo = {}
    /\ record' = [record EXCEPT ![req[c].key] =
                     [plan |-> req[c].plan, token |-> req[c].token,
                      beforeState |-> req[c].beforeState,
                      afterState |-> req[c].afterState]]
    /\ Goto(c, "recorded")
    /\ UNCHANGED <<plan, token, resource, audit, faults>>

\* The error of a taken key is caught and the plan completed.
RecordOrGoOn(c) ==
    LET k == req[c].key
    IN  /\ At(c, "applying")
        /\ req[c].todo = {}
        /\ record' = [record EXCEPT ![k] =
                         IF Recorded(k) THEN @
                         ELSE [plan |-> req[c].plan, token |-> req[c].token,
                               beforeState |-> req[c].beforeState,
                               afterState |-> req[c].afterState]]
        /\ Goto(c, "recorded")
        /\ UNCHANGED <<plan, token, resource, audit, faults>>

-----------------------------------------------------------------------------
(* createPlan                                                              *)

\* findOne by idempotency key, and the findings and recommendations, which
\* never change here.
PlanLookup(c, p, input) ==
    /\ At(c, "idle")
    /\ plan[p].status = "absent"
    /\ req' = [req EXCEPT ![c] = [Idle EXCEPT !.pc = "planning", !.plan = p,
                                              !.todo = input[1],
                                              !.dryRun = input[2]]]
    /\ UNCHANGED <<plan, token, record, resource, audit, faults>>

PlanCreate(c) ==
    LET p == req[c].plan
    IN  /\ At(c, "planning")
        /\ plan[p].status = "absent"
        /\ plan' = [plan EXCEPT ![p] = [status |-> "awaiting_approval",
                                        findings |-> req[c].todo,
                                        dryRun |-> req[c].dryRun]]
        /\ Goto(c, "created")
        /\ UNCHANGED <<token, record, resource, audit, faults>>

\* The unique index refuses the insertion: nothing catches the error.
PlanKeyTaken(c) ==
    /\ At(c, "planning")
    /\ plan[req[c].plan].status # "absent"
    /\ Return(c)
    /\ UNCHANGED <<plan, token, record, resource, audit, faults>>

-----------------------------------------------------------------------------
(* approve                                                                 *)

\* findOne, the check of the status, and the generation of a token.
ApproveLoad(c, p, t) ==
    /\ MayStart(c, p)
    /\ plan[p].status \in {"awaiting_approval", "approved"}
    /\ ~Issued(t)
    /\ \A d \in Clients : req[d].token # t
    /\ req' = [req EXCEPT ![c] = [Idle EXCEPT !.pc = "approving", !.plan = p,
                                              !.token = t,
                                              !.was = plan[p].status]]
    /\ UNCHANGED <<plan, token, record, resource, audit, faults>>

ApproveIssue(c) ==
    /\ At(c, "approving")
    /\ token' = [token EXCEPT ![req[c].token] = [plan |-> req[c].plan,
                                                 used |-> FALSE,
                                                 expired |-> FALSE]]
    /\ Goto(c, "issued")
    /\ UNCHANGED <<plan, record, resource, audit, faults>>

\* plan.save() writes the status when it differs from the one loaded.
ApproveSave(c) ==
    /\ At(c, "issued")
    /\ plan' = [plan EXCEPT ![req[c].plan] =
                   IF req[c].was # "approved"
                   THEN [@ EXCEPT !.status = "approved"] ELSE @]
    /\ Goto(c, "approved")
    /\ UNCHANGED <<token, record, resource, audit, faults>>

-----------------------------------------------------------------------------
(* execute                                                                 *)

\* findOne by idempotency key: there is no record to replay.
ExecuteLookup(c, p, t, k) ==
    /\ MayStart(c, p)
    /\ ~Recorded(k)
    /\ Issued(t)
    /\ req' = [req EXCEPT ![c] = [Idle EXCEPT !.pc = "keyed", !.plan = p,
                                              !.token = t, !.key = k]]
    /\ UNCHANGED <<plan, token, record, resource, audit, faults>>

\* A check that fails ends the request.
CheckOrReturn(c, ok, pc) ==
    /\ IF ok THEN Goto(c, pc) ELSE Return(c)
    /\ UNCHANGED <<plan, token, record, resource, audit, faults>>

ExecuteLoadPlan(c) ==
    /\ At(c, "keyed")
    /\ CheckOrReturn(c, plan[req[c].plan].status = "approved", "planned")

\* The plan's tokens are read and the one presented is checked.
Accepts(c) ==
    LET t == req[c].token
    IN  /\ token[t].plan = req[c].plan
        /\ ~token[t].used
        /\ ~token[t].expired
        /\ ~(MutationsRejected /\ ~plan[req[c].plan].dryRun)

ExecuteCheckToken(c) ==
    /\ At(c, "planned")
    /\ CheckOrReturn(c, Accepts(c), "checked")

ExecuteLoadResources(c) ==
    /\ At(c, "checked")
    /\ req' = [req EXCEPT ![c] =
                  [@ EXCEPT !.pc = "loaded", !.docs = resource,
                            !.todo = Actionable(plan[req[c].plan].findings)]]
    /\ UNCHANGED <<plan, token, record, resource, audit, faults>>

ExecuteMarkPlan(c) ==
    /\ At(c, "loaded")
    /\ plan' = [plan EXCEPT ![req[c].plan] = [@ EXCEPT !.status = "executing"]]
    /\ Goto(c, "marked")
    /\ UNCHANGED <<token, record, resource, audit, faults>>

ExecuteUseToken(c) ==
    /\ At(c, "marked")
    /\ token' = [token EXCEPT ![req[c].token] = [@ EXCEPT !.used = TRUE]]
    /\ Goto(c, "applying")
    /\ UNCHANGED <<plan, record, resource, audit, faults>>

\* One round of the loop over the plan's actions.  A dry run leaves the
\* loaded document alone and notes the preview.
ExecuteAction(c, f) ==
    LET r == ResourceOf[f]
        q == req[c]
        applied == Apply(ActionOf[f], q.docs[r])
        new == IF Applies(q.plan) THEN applied ELSE q.docs[r]
        shown == IF plan[q.plan].dryRun THEN applied ELSE Noted(new)
    IN  /\ At(c, "applying")
        /\ f \in q.todo
        /\ resource' = [resource EXCEPT ![r] = Save(@, q.docs[r], new)]
        /\ req' = [req EXCEPT ![c] =
                      [q EXCEPT !.todo = q.todo \ {f},
                                !.docs = [q.docs EXCEPT ![r] = new],
                                !.beforeState = [q.beforeState EXCEPT ![r] = Noted(q.docs[r])],
                                !.afterState = [q.afterState EXCEPT ![r] = shown]]]
        /\ UNCHANGED <<plan, token, record, audit, faults>>

\* The record is inserted unless its key has been taken: then nothing catches
\* the error, and the plan stays as it is.
ExecuteRecord(c) ==
    LET k == req[c].key
    IN  /\ At(c, "applying")
        /\ req[c].todo = {}
        /\ IF Recorded(k)
           THEN Return(c) /\ UNCHANGED record
           ELSE /\ record' = [record EXCEPT ![k] =
                                 [plan |-> req[c].plan, token |-> req[c].token,
                                  beforeState |-> req[c].beforeState,
                                  afterState |-> req[c].afterState]]
                /\ Goto(c, "recorded")
        /\ UNCHANGED <<plan, token, resource, audit, faults>>

ExecuteComplete(c) ==
    /\ At(c, "recorded")
    /\ plan' = [plan EXCEPT ![req[c].plan] = [@ EXCEPT !.status = "completed"]]
    /\ Goto(c, "executed")
    /\ UNCHANGED <<token, record, resource, audit, faults>>

-----------------------------------------------------------------------------
\* recordAudit, the last call of each operation.
Audit(c) ==
    /\ req[c].pc \in {"created", "approved", "executed"}
    /\ audit' =
         IF At(c, "created") THEN [audit EXCEPT !.plan = @ \cup {req[c].plan}]
         ELSE IF At(c, "approved")
              THEN [audit EXCEPT !.approve = @ \cup {req[c].token}]
              ELSE [audit EXCEPT !.execute = @ \cup {req[c].key}]
    /\ Return(c)
    /\ UNCHANGED <<plan, token, record, resource, faults>>

\* A call to MongoDB rejects, or the API process dies: the request ends where
\* it is.
Abort(c) ==
    /\ ~At(c, "idle")
    /\ faults < MaxFaults
    /\ faults' = faults + 1
    /\ Return(c)
    /\ UNCHANGED <<plan, token, record, resource, audit>>

\* APPROVAL_TTL_MS elapses (of a token stored as used it changes nothing more).
Expire(t) ==
    /\ Issued(t)
    /\ ~token[t].used
    /\ ~token[t].expired
    /\ token' = [token EXCEPT ![t] = [@ EXCEPT !.expired = TRUE]]
    /\ UNCHANGED <<plan, record, resource, audit, req, faults>>

\* ResourceService.sync, for one of the resources it upserts: the provider's
\* inventory knows nothing of simulated actions.
Sync(r) ==
    /\ resource[r] # Clean
    /\ resource' = [resource EXCEPT ![r] = Clean]
    /\ UNCHANGED <<plan, token, record, audit, req, faults>>

-----------------------------------------------------------------------------
CreatePlanStep(c) ==
    \/ \E p \in Plans : \E input \in PlanInputs[p] : PlanLookup(c, p, input)
    \/ PlanCreate(c)
    \/ PlanKeyTaken(c)

ApproveStep(c) ==
    \/ \E p \in Plans, t \in Tokens : ApproveLoad(c, p, t)
    \/ ApproveIssue(c)
    \/ ApproveSave(c)

ExecuteStep(c) ==
    \/ \E p \in Plans, t \in Tokens, k \in Keys : ExecuteLookup(c, p, t, k)
    \/ ExecuteLoadPlan(c)
    \/ ExecuteCheckToken(c)
    \/ ExecuteLoadResources(c)
    \/ ExecuteMarkPlan(c)
    \/ ExecuteUseToken(c)
    \/ \E f \in Findings : ExecuteAction(c, f)
    \/ ExecuteRecord(c)
    \/ ExecuteComplete(c)

Next ==
    \/ \E c \in Clients :
          CreatePlanStep(c) \/ ApproveStep(c) \/ ExecuteStep(c) \/ Audit(c) \/ Abort(c)
    \/ \E t \in Tokens : Expire(t)
    \/ \E r \in Resources : Sync(r)

Spec == Init /\ [][Next]_vars

-----------------------------------------------------------------------------
(* Properties whatever requests overlap.                                   *)

\* approve creates the token before it saves the plan: however its requests
\* overlap or break off, an approved plan has a token document.  (Used or
\* expired, perhaps: then another approval is needed.)
ApprovedHasToken ==
    \A p \in Plans : plan[p].status = "approved" =>
        \E t \in Tokens : token[t].plan = p

\* execute stores its record before it completes the plan, and the plan stays
\* uncompleted when the record's key is taken: a completed plan has a record
\* of its own.
CompletedIsRecorded ==
    \A p \in Plans : plan[p].status = "completed" =>
        \E k \in Keys : record[k].plan = p

\* A record stands for an execution under a token of its own plan, which can
\* open no later request: it was stored as used before the first action.
RecordedUsedItsToken ==
    \A k \in Keys : Recorded(k) =>
        /\ token[record[k].token].plan = record[k].plan
        /\ token[record[k].token].used

\* "Replays return the original record" (api-design.md:34): two requests with
\* one key may both pass the lookup; the one that records last leaves the
\* record that the other has answered with alone.
RecordsAreFinal ==
    [][\A k \in Keys : Recorded(k) => record'[k] = record[k]]_vars

\* What has been done and is not in the audit log: each operation writes its
\* event last, in a call of its own, so a fault may leave one out, and
\* nothing else does.
Finished(pc, field, x) == \E c \in Clients : req[c].pc \in pc /\ req[c][field] = x

AuditAccounts ==
    LET plans == {p \in Plans : /\ plan[p].status # "absent"
                                /\ ~Finished({"created"}, "plan", p)}
        tokens == {t \in Tokens : /\ Issued(t)
                                  /\ ~Finished({"issued", "approved"}, "token", t)}
        keys == {k \in Keys : /\ Recorded(k)
                              /\ ~Finished({"recorded", "executed"}, "key", k)}
    IN  Cardinality(plans \ audit.plan) + Cardinality(tokens \ audit.approve)
            + Cardinality(keys \ audit.execute) <= faults

\* The afterState of an execution that changed resources shows the effect of
\* every action of its plan, those of several actions on one resource too.
AfterStateIsComplete ==
    \A k \in Keys : Recorded(k) /\ Applies(record[k].plan) =>
        \A f \in Actionable(plan[record[k].plan].findings) :
            \A field \in Changes(ActionOf[f]) \ {"metrics"} :
                ActionOf[f] \in record[k].afterState[ResourceOf[f]][field]

-----------------------------------------------------------------------------
(* Properties of the plans that are not Contended: their approvals and     *)
(* executions come one after the other, break off anywhere, and overlap    *)
(* with those of other plans and with syncs.                               *)

\* "Idempotency key prevents duplicate execution" (README.md:87), and the
\* plan's status does with different keys and several tokens: a plan is
\* executed to a record once at most.
OneExecution ==
    \A p \in Plans \ Contended, k1, k2 \in Keys :
        record[k1].plan = p /\ record[k2].plan = p => k1 = k2

Rank(status) ==
    IF status = "absent" THEN 0 ELSE IF status = "awaiting_approval" THEN 1
    ELSE IF status = "approved" THEN 2 ELSE IF status = "executing" THEN 3 ELSE 4

\* A plan goes from proposal to completion one status at a time and never
\* back, though each save writes by id whatever the document holds by then.
StatusAdvances ==
    [][\A p \in Plans \ Contended :
          plan'[p].status = plan[p].status
          \/ Rank(plan'[p].status) = Rank(plan[p].status) + 1]_vars

\* Without a fault, a plan is left executing when no request executes it only
\* because the key of its record went to another plan's execution.
StuckOnlyByKeyClash ==
    \A p \in Plans \ Contended :
        plan[p].status = "executing" /\ ~InFlight(p) /\ faults = 0 =>
            \E k \in Keys : Recorded(k) /\ record[k].plan # p

\* No silent mutation: whatever an action changed in a resource is the work
\* of a plan that is no dry run, contains that action, has a status that says
\* so, and has had a token spent on it.  (A Contended plan may have been set
\* back to approved.)
FixesAreAccountable ==
    \A r \in Resources, field \in Fields : \A a \in resource[r][field] :
        \E p \in Plans :
            /\ ~plan[p].dryRun
            /\ plan[p].status \in {"executing", "completed"}
                                 \cup (IF p \in Contended THEN {"approved"} ELSE {})
            /\ \E t \in Tokens : token[t].plan = p /\ token[t].used
            /\ \E f \in plan[p].findings : ActionOf[f] = a /\ ResourceOf[f] = r

-----------------------------------------------------------------------------
(* What those plans look like to whoever proposes and approves them.       *)

\* The requests on p that are at one of these pcs.
Doing(p, pcs) == {c \in Clients : req[c].plan = p /\ req[c].pc \in pcs}

Phase(p) ==
    IF plan[p].status = "absent" THEN "absent"
    ELSE IF plan[p].status = "awaiting_approval" THEN "proposed"
    ELSE IF plan[p].status = "approved"
         THEN IF Doing(p, {"checked", "loaded"}) # {} THEN "cleared" ELSE "approved"
    ELSE IF plan[p].status = "completed" THEN "completed"
    ELSE IF Doing(p, {"marked"}) # {} THEN "begun"
    ELSE IF Doing(p, {"applying"}) # {} THEN "applying"
    ELSE IF Doing(p, {"recorded"}) # {} THEN "recorded" ELSE "broken"

Left(p) == UNION {req[c].todo : c \in Doing(p, {"applying"})}

Under(p) ==
    {req[c].token : c \in Doing(p, {"checked", "loaded", "marked", "applying", "recorded"})}

Approval(p, t) ==
    IF token[t].plan # p THEN "none"
    ELSE IF token[t].used THEN "spent"
    ELSE IF token[t].expired THEN "expired" ELSE "open"

RecordedUnder(p) == {record[k].token : k \in {k \in Keys : record[k].plan = p}}

Lifecycle == INSTANCE PlanLifecycle
    WITH Plans <- Plans \ Contended,
         phase <- [p \in Plans \ Contended |-> Phase(p)],
         actions <- [p \in Plans \ Contended |-> Actionable(plan[p].findings)],
         left <- [p \in Plans \ Contended |-> Left(p)],
         under <- [p \in Plans \ Contended |-> Under(p)],
         approval <- [p \in Plans \ Contended |-> [t \in Tokens |-> Approval(p, t)]],
         records <- [p \in Plans \ Contended |-> RecordedUnder(p)]

\* The calls of createPlan, approve and execute, wherever they break off and
\* whatever the requests of other plans do, come to PlanLifecycle: execute
\* spends one open token of the plan before it acts on anything, acts on each
\* finding once, and completes the plan only after it has recorded that.
ImplementsLifecycle == Lifecycle!Spec

\* However often a plan is approved and executions of it break off, execute
\* spends one of its tokens at most, and records what it did under that one.
OneTokenSpent == Lifecycle!OneTokenSpent

-----------------------------------------------------------------------------
(* Claims of the documentation that the code does not keep.                *)

\* "Approval tokens are SHA-256 hashed, single-use, and TTL-bound"
\* (threat-model.md:30): no two executions are recorded under one token.
SingleUse ==
    \A k1, k2 \in Keys :
        Recorded(k1) /\ Recorded(k2) /\ record[k1].token = record[k2].token => k1 = k2

\* "Before/after state is stored" (README.md:89): the beforeState of an
\* execution shows nothing that only this execution's own plan can have done.
BeforeStateIsBefore ==
    \A k \in Keys, r \in Resources, field \in Fields : Recorded(k) =>
        \A a \in record[k].beforeState[r][field] :
            \E p \in Plans \ {record[k].plan} :
                \E f \in plan[p].findings : ActionOf[f] = a /\ ResourceOf[f] = r

=============================================================================
