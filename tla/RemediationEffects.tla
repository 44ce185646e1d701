------------------------- MODULE RemediationEffects -------------------------
(***************************************************************************)
(* Theorems about what remediation leaves behind: the changed resources,   *)
(* the states its records keep, the plans that stay executing, and the     *)
(* audit log; for any findings, resources, plans, keys, tokens, clients    *)
(* and faults.                                                             *)
(***************************************************************************)
EXTENDS RemediationProofs, FiniteSetTheorems

-----------------------------------------------------------------------------
(* Plans that are left executing.                                          *)

\* A request that has marked p and not completed it.
Busy(c, p) == req[c].plan = p /\ req[c].pc \in {"marked", "applying", "recorded"}

KeyGone(p) == \E k \in Keys : Recorded(k) /\ record[k].plan # p

\* StuckOnlyByKeyClash of every plan that no request has marked: those whose
\* request has yet to look at it are included.
Stuck ==
    \A p \in Plans \ Contended :
        plan[p].status = "executing" /\ faults = 0 /\ ~(\E c \in Clients : Busy(c, p)) =>
            KeyGone(p)

Does(c) ==
    CreatePlanStep(c) \/ ApproveStep(c) \/ ExecuteStep(c) \/ Audit(c) \/ Abort(c)

\* A request moves by a step of its own only.
LEMMA OwnSteps ==
  ASSUME TypeInv, Next, NEW c \in Clients, req'[c] # req[c]
  PROVE  Does(c)
  <1>1. ASSUME NEW d \in Clients, CreatePlanStep(d), d # c PROVE FALSE
    BY <1>1
    DEF CreatePlanStep, PlanLookup, PlanCreate, PlanKeyTaken, Goto, Return, TypeInv, TypeOK
  <1>2. ASSUME NEW d \in Clients, ApproveStep(d), d # c PROVE FALSE
    BY <1>2
    DEF ApproveStep, ApproveLoad, ApproveIssue, ApproveSave, Goto, TypeInv, TypeOK
  <1>3. ASSUME NEW d \in Clients, ExecuteStep(d), d # c PROVE FALSE
    BY <1>3
    DEF ExecuteStep, ExecuteLookup, ExecuteLoadPlan, ExecuteCheckToken, CheckOrReturn,
        ExecuteLoadResources, ExecuteMarkPlan, ExecuteUseToken, ExecuteAction,
        ExecuteRecord, ExecuteComplete, Goto, Return, TypeInv, TypeOK
  <1>4. ASSUME NEW d \in Clients, Audit(d) \/ Abort(d), d # c PROVE FALSE
    BY <1>4 DEF Audit, Abort, Return, TypeInv, TypeOK
  <1>5. ASSUME NEW t \in Tokens, Expire(t) PROVE FALSE
    BY <1>5 DEF Expire
  <1>6. ASSUME NEW r \in Resources, Sync(r) PROVE FALSE
    BY <1>6 DEF Sync
  <1> QED
    BY <1>1, <1>2, <1>3, <1>4, <1>5, <1>6 DEF Next, Does

\* Only a request that breaks off is a fault.
LEMMA FaultsGrow ==
  ASSUME Next
  PROVE  faults' = faults \/ \E c \in Clients : Abort(c)
  <1>1. ASSUME NEW c \in Clients, CreatePlanStep(c) \/ ApproveStep(c) PROVE faults' = faults
    BY <1>1 DEF CreatePlanStep, PlanLookup, PlanCreate, PlanKeyTaken, ApproveStep,
                ApproveLoad, ApproveIssue, ApproveSave
  <1>2. ASSUME NEW c \in Clients, ExecuteStep(c) PROVE faults' = faults
    BY <1>2 DEF ExecuteStep, ExecuteLookup, ExecuteLoadPlan, ExecuteCheckToken,
                CheckOrReturn, ExecuteLoadResources, ExecuteMarkPlan, ExecuteUseToken,
                ExecuteAction, ExecuteRecord, ExecuteComplete
  <1>3. ASSUME NEW c \in Clients, Audit(c) PROVE faults' = faults
    BY <1>3 DEF Audit
  <1>4. ASSUME NEW t \in Tokens, Expire(t) PROVE faults' = faults
    BY <1>4 DEF Expire
  <1>5. ASSUME NEW r \in Resources, Sync(r) PROVE faults' = faults
    BY <1>5 DEF Sync
  <1> QED
    BY <1>1, <1>2, <1>3, <1>4, <1>5 DEF Next

\* How a request leaves the plan it has marked.
LEMMA BusyEnds ==
  ASSUME TypeInv, Next, NEW c \in Clients, NEW p \in Plans, Busy(c, p), ~Busy(c, p)'
  PROVE  \/ ExecuteComplete(c)
         \/ ExecuteRecord(c) /\ Recorded(req[c].key)
         \/ Abort(c)
  <1>1. Does(c)
    BY OwnSteps DEF Busy
  <1>2. req[c].plan = p /\ req[c].pc \in {"marked", "applying", "recorded"}
    BY DEF Busy
  <1>3. ~CreatePlanStep(c) /\ ~ApproveStep(c) /\ ~Audit(c)
    BY <1>2
    DEF CreatePlanStep, PlanLookup, PlanCreate, PlanKeyTaken, ApproveStep, ApproveLoad,
        MayStart, ApproveIssue, ApproveSave, Audit, At
  <1>4. CASE ExecuteUseToken(c)
    <2>1. req'[c].plan = req[c].plan /\ req'[c].pc = "applying"
      BY <1>4, GotoMoves DEF ExecuteUseToken, TypeInv, TypeOK
    <2> QED
      BY <1>2, <2>1 DEF Busy
  <1>5. ASSUME NEW f \in Findings, ExecuteAction(c, f) PROVE FALSE
    <2>1. f \in Actionable(Findings)
      BY <1>5 DEF ExecuteAction, At, TypeInv, WellFormed
    <2>2. req'[c].plan = req[c].plan /\ req'[c].pc = "applying"
      BY <1>5, <2>1, ActionMoves DEF TypeInv
    <2> QED
      BY <1>2, <2>2 DEF Busy
  <1>6. CASE ExecuteRecord(c) /\ ~Recorded(req[c].key)
    <2>1. req'[c].plan = req[c].plan /\ req'[c].pc = "recorded"
      BY <1>6, GotoMoves DEF ExecuteRecord, TypeInv, TypeOK
    <2> QED
      BY <1>2, <2>1 DEF Busy
  <1>7. ASSUME ExecuteStep(c), ~ExecuteUseToken(c), ~ExecuteRecord(c), ~ExecuteComplete(c),
               ~(\E f \in Findings : ExecuteAction(c, f))
        PROVE  FALSE
    BY <1>2, <1>7
    DEF ExecuteStep, ExecuteLookup, MayStart, ExecuteLoadPlan, ExecuteCheckToken,
        ExecuteLoadResources, ExecuteMarkPlan, At
  <1> QED
    BY <1>1, <1>3, <1>4, <1>5, <1>6, <1>7 DEF Does

LEMMA InitStuck == Init => Stuck
  BY DEF Init, Stuck, NoPlan

\* Only a step that marks the plan makes it executing; the request that did
\* leaves it with a fault, with the key of its record taken, or completed.
LEMMA NextStuck ==
  ASSUME Inv, SerialInv, Stuck, Next
  PROVE  Stuck'
  <1>0. TypeInv /\ TypeInv'
    BY NextTypeInv DEF Inv
  <1> SUFFICES ASSUME NEW p \in Plans \ Contended, plan'[p].status = "executing",
                      faults' = 0, ~(\E c \in Clients : Busy(c, p)'), ~KeyGone(p)'
               PROVE  FALSE
    BY DEF Stuck
  <1>1. faults = 0
    <2>1. faults' = faults \/ faults' = faults + 1
      BY FaultsGrow DEF Abort
    <2> QED
      BY <1>0, <2>1 DEF TypeInv, TypeOK
  <1>2. ~KeyGone(p)
    <2>1. \A k \in Keys : Recorded(k) => record'[k] = record[k]
      BY Monotone DEF Inv
    <2> QED
      BY <2>1 DEF KeyGone, Recorded
  <1>3. CASE plan[p].status # "executing"
    <2>1. PICK c \in Clients : PlanCreate(c) \/ ApproveSave(c) \/ ExecuteMarkPlan(c)
                                 \/ ExecuteComplete(c)
      BY <1>0, <1>3, PlanWrites
    <2>2. ExecuteMarkPlan(c) /\ req[c].plan = p
      BY <1>0, <1>3, <2>1
      DEF PlanCreate, ApproveSave, ExecuteMarkPlan, ExecuteComplete, TypeInv, TypeOK, PlanType
    <2>3. req'[c].plan = p /\ req'[c].pc = "marked"
      BY <1>0, <2>2, GotoMoves DEF ExecuteMarkPlan, TypeInv, TypeOK
    <2> QED
      BY <2>3 DEF Busy
  <1>4. CASE plan[p].status = "executing"
    <2>1. PICK c \in Clients : Busy(c, p)
      BY <1>1, <1>2, <1>4 DEF Stuck
    <2>2. CASE ExecuteComplete(c)
      <3>1. plan'[p].status = "completed"
        BY <1>0, <2>1, <2>2 DEF ExecuteComplete, Busy, TypeInv, TypeOK, PlanType
      <3> QED
        BY <3>1
    <2>3. CASE ExecuteRecord(c) /\ Recorded(req[c].key)
      <3>1. req[c].key \in Keys /\ req[c].pc = "applying" /\ req[c].plan = p
        BY <1>0, <2>1, <2>3 DEF ExecuteRecord, At, Busy, TypeInv, WellFormed, Executing
      <3>2. record[req[c].key].plan # p
        BY <3>1 DEF SerialInv, RecordsOfPlans
      <3> QED
        BY <1>2, <2>3, <3>1, <3>2 DEF KeyGone
    <2>4. CASE Abort(c)
      BY <1>0, <1>1, <2>4 DEF Abort, TypeInv, TypeOK
    <2> QED
      BY <1>0, <2>1, <2>2, <2>3, <2>4, BusyEnds
  <1> QED
    BY <1>3, <1>4

-----------------------------------------------------------------------------
(* Plans that are past their approval.                                     *)

Past(p) == plan[p].status \in {"approved", "executing", "completed"}

\* A request past its first check works on such a plan, and has left of it
\* what it has not done; a record is one of such a plan.
Followed ==
    /\ \A c \in Clients :
          /\ req[c].pc \in {"planned", "checked", "loaded", "marked", "applying",
                            "recorded", "executed"} => Past(req[c].plan)
          /\ req[c].pc \in {"approving", "issued"} =>
                plan[req[c].plan].status # "absent"
          /\ req[c].pc \in {"loaded", "marked", "applying"} =>
                req[c].todo \subseteq Actionable(plan[req[c].plan].findings)
    /\ \A k \in Keys : Recorded(k) => record[k].plan \in Plans /\ Past(record[k].plan)

\* What a plan holds is fixed by its creation, and it never falls back behind
\* its approval.
LEMMA PlansKept ==
  ASSUME TypeInv, Followed, Next, NEW p \in Plans, plan[p].status # "absent"
  PROVE  /\ plan'[p].status # "absent"
         /\ plan'[p].findings = plan[p].findings
         /\ plan'[p].dryRun = plan[p].dryRun
         /\ Past(p) => Past(p)'
  <1> USE DEF TypeInv, TypeOK, PlanType, Past
  <1>1. ASSUME NEW c \in Clients, PlanCreate(c) PROVE plan'[p] = plan[p]
    BY <1>1 DEF PlanCreate
  <1>2. ASSUME NEW c \in Clients, ApproveSave(c)
        PROVE  plan'[p] = plan[p] \/ plan'[p] = [plan[p] EXCEPT !.status = "approved"]
    BY <1>2 DEF ApproveSave
  <1>3. ASSUME NEW c \in Clients, ExecuteMarkPlan(c)
        PROVE  plan'[p] = plan[p] \/ plan'[p] = [plan[p] EXCEPT !.status = "executing"]
    BY <1>3 DEF ExecuteMarkPlan
  <1>4. ASSUME NEW c \in Clients, ExecuteComplete(c)
        PROVE  plan'[p] = plan[p] \/ plan'[p] = [plan[p] EXCEPT !.status = "completed"]
    BY <1>4 DEF ExecuteComplete
  <1>5. \/ plan'[p] = plan[p]
        \/ \E s \in {"approved", "executing", "completed"} :
              plan'[p] = [plan[p] EXCEPT !.status = s]
    BY <1>1, <1>2, <1>3, <1>4, PlanWrites
  <1> QED
    BY <1>5

LEMMA NextFollowed ==
  ASSUME TypeInv, Reserved, Grounded, Followed, Next
  PROVE  Followed'
  <1>1. \A p \in Plans : plan[p].status # "absent" =>
           /\ plan'[p].status # "absent"
           /\ plan'[p].findings = plan[p].findings
           /\ Past(p) => Past(p)'
    BY PlansKept
  <1>2. \A p \in Plans : Past(p) => plan[p].status # "absent"
    BY DEF Past
  <1> DEFINE Fine(c) == /\ req[c].pc \in {"planned", "checked", "loaded", "marked",
                                         "applying", "recorded", "executed"} =>
                              Past(req[c].plan)
                        /\ req[c].pc \in {"approving", "issued"} =>
                              plan[req[c].plan].status # "absent"
                        /\ req[c].pc \in {"loaded", "marked", "applying"} =>
                              req[c].todo \subseteq Actionable(plan[req[c].plan].findings)
  <1>3. ASSUME NEW c \in Clients, req[c].pc # "idle" PROVE req[c].plan \in Plans
    BY <1>3 DEF TypeInv, WellFormed
  <1>4. ASSUME NEW c \in Clients, req'[c] = req[c] PROVE Fine(c)'
    <2>1. CASE req[c].pc = "idle"
      BY <1>4, <2>1
    <2>2. CASE req[c].pc # "idle"
      BY <1>1, <1>2, <1>3, <1>4, <2>2 DEF Followed
    <2> QED
      BY <2>1, <2>2
  <1>5. ASSUME NEW c \in Clients, Starts(c) PROVE Fine(c)'
    <2>1. ASSUME NEW p \in Plans, NEW input \in PlanInputs[p], PlanLookup(c, p, input),
                 req'[c].pc = "planning"
          PROVE  Fine(c)'
      BY <2>1
    <2>2. ASSUME NEW p \in Plans, NEW t \in Tokens, ApproveLoad(c, p, t),
                 req'[c].pc = "approving", req'[c].plan = p
          PROVE  Fine(c)'
      BY <2>2 DEF ApproveLoad
    <2>3. ASSUME NEW p \in Plans, NEW t \in Tokens, NEW k \in Keys,
                 ExecuteLookup(c, p, t, k), req'[c].pc = "keyed"
          PROVE  Fine(c)'
      BY <2>3
    <2> QED
      BY <1>5, <2>1, <2>2, <2>3 DEF Starts
  <1>6. ASSUME NEW c \in Clients, Ends(c) PROVE Fine(c)'
    BY <1>6 DEF Ends, Idle
  <1>7. ASSUME NEW c \in Clients, GoesOn(c) PROVE Fine(c)'
    <2>0. req'[c].plan = req[c].plan
      BY <1>7 DEF GoesOn
    <2>1. CASE \/ PlanCreate(c) /\ req'[c].pc = "created"
               \/ ApproveSave(c) /\ req'[c].pc = "approved"
      BY <2>1
    <2>2. CASE ApproveIssue(c) /\ req'[c].pc = "issued"
      <3>1. req[c].pc = "approving" /\ plan' = plan
        BY <2>2 DEF ApproveIssue, At
      <3> QED
        BY <2>0, <2>2, <3>1 DEF Followed
    <2>3. CASE /\ ExecuteLoadPlan(c) /\ req'[c].pc = "planned"
               /\ plan[req[c].plan].status = "approved"
      <3>1. plan' = plan
        BY <2>3 DEF ExecuteLoadPlan, CheckOrReturn
      <3> QED
        BY <2>0, <2>3, <3>1 DEF Past
    <2>4. CASE ExecuteCheckToken(c) /\ req'[c].pc = "checked"
      <3>1. req[c].pc = "planned" /\ plan' = plan
        BY <2>4 DEF ExecuteCheckToken, CheckOrReturn, At
      <3> QED
        BY <2>0, <2>4, <3>1 DEF Followed, Past
    <2>5. CASE ExecuteLoadResources(c) /\ req'[c].pc = "loaded"
      <3>1. req[c].pc = "checked" /\ plan' = plan
        BY <2>5 DEF ExecuteLoadResources, At
      <3>2. req'[c].todo = Actionable(plan[req[c].plan].findings)
        BY <2>5 DEF ExecuteLoadResources, TypeInv, TypeOK, ReqType
      <3> QED
        BY <2>0, <2>5, <3>1, <3>2 DEF Followed, Past
    <2>6. CASE ExecuteMarkPlan(c) \/ ExecuteUseToken(c) \/ ExecuteComplete(c)
               \/ (ExecuteRecord(c) /\ ~Recorded(req[c].key))
      <3>1. /\ req'[c].todo = req[c].todo
            /\ req'[c].pc \in {"marked", "applying", "recorded", "executed"}
        BY <2>6, GotoMoves
        DEF ExecuteMarkPlan, ExecuteUseToken, ExecuteComplete, ExecuteRecord, TypeInv, TypeOK
      <3>2. /\ req[c].pc \in {"loaded", "marked", "applying", "recorded"}
            /\ req'[c].pc \in {"marked", "applying"} => req[c].pc \in {"loaded", "marked"}
        BY <2>6, GotoMoves
        DEF ExecuteMarkPlan, ExecuteUseToken, ExecuteComplete, ExecuteRecord, At, TypeInv, TypeOK
      <3>3. req[c].plan \in Plans /\ Past(req[c].plan)
        BY <1>3, <3>2 DEF Followed
      <3> QED
        BY <1>1, <1>2, <2>0, <3>1, <3>2, <3>3 DEF Followed
    <2>7. ASSUME NEW f \in Findings, ExecuteAction(c, f) PROVE Fine(c)'
      <3>1. f \in Actionable(Findings)
        BY <2>7 DEF ExecuteAction, At, TypeInv, WellFormed
      <3>2. /\ req'[c].pc = "applying"
            /\ req'[c].todo = req[c].todo \ {f}
        BY <2>7, <3>1, ActionMoves DEF TypeInv
      <3>3. req[c].pc = "applying" /\ plan' = plan
        BY <2>7 DEF ExecuteAction, At
      <3> QED
        BY <2>0, <3>2, <3>3 DEF Followed, Past
    <2> QED
      BY <1>7, <2>1, <2>2, <2>3, <2>4, <2>5, <2>6, <2>7 DEF GoesOn
  <1>8. ASSUME NEW k \in Keys, Recorded(k)'
        PROVE  (record[k].plan \in Plans /\ Past(record[k].plan))'
    <2>1. CASE Recorded(k)
      <3>1. record'[k] = record[k]
        BY <2>1, Monotone
      <3>2. record[k].plan \in Plans /\ Past(record[k].plan)
        BY <2>1 DEF Followed
      <3> QED
        BY <1>1, <1>2, <3>1, <3>2 DEF Past
    <2>2. CASE ~Recorded(k)
      <3>1. PICK c \in Clients : ExecuteRecord(c) /\ ~Recorded(req[c].key)
        BY <1>8, <2>2, RecordWrites DEF Recorded
      <3>2. record'[k].plan = req[c].plan
        <4>1. record' = [record EXCEPT ![req[c].key] =
                           [plan |-> req[c].plan, token |-> req[c].token,
                            beforeState |-> req[c].beforeState,
                            afterState |-> req[c].afterState]]
          BY <3>1 DEF ExecuteRecord
        <4> QED
          BY <1>8, <2>2, <4>1 DEF Recorded, TypeInv, TypeOK
      <3>3. req[c].pc = "applying" /\ plan' = plan
        BY <3>1 DEF ExecuteRecord, At
      <3> QED
        BY <1>3, <3>2, <3>3 DEF Followed, Past
    <2> QED
      BY <2>1, <2>2
  <1>9. \A c \in Clients : Fine(c)'
    BY <1>4, <1>5, <1>6, <1>7, StepsOfRequests DEF Expire, Sync
  <1> QED
    BY <1>8, <1>9 DEF Followed

-----------------------------------------------------------------------------
(* What actions change.                                                    *)

\* The document that the action of f makes of the one its request has.
Made(c, f) ==
    IF Applies(req[c].plan)
    THEN Apply(ActionOf[f], req[c].docs[ResourceOf[f]])
    ELSE req[c].docs[ResourceOf[f]]

LEMMA MadeShows ==
  ASSUME NEW c \in Clients, NEW f \in Findings, NEW field \in Fields
  PROVE  /\ \A a \in Made(c, f)[field] :
               \/ a \in req[c].docs[ResourceOf[f]][field]
               \/ Applies(req[c].plan) /\ a = ActionOf[f]
         /\ req[c].docs[ResourceOf[f]][field] \subseteq Made(c, f)[field]
         /\ Applies(req[c].plan) /\ field \in Changes(ActionOf[f]) =>
               ActionOf[f] \in Made(c, f)[field]
  BY DEF Made, Apply

\* What a round of the loop stores, and keeps in its request.
LEMMA ActionResult ==
  ASSUME TypeOK, NEW c \in Clients, NEW f \in Findings,
         f \in Actionable(Findings), ExecuteAction(c, f)
  PROVE  /\ resource' = [resource EXCEPT ![ResourceOf[f]] =
                            Save(resource[ResourceOf[f]], req[c].docs[ResourceOf[f]], Made(c, f))]
         /\ req'[c].docs = [req[c].docs EXCEPT ![ResourceOf[f]] = Made(c, f)]
         /\ Applies(req[c].plan) =>
               req'[c].afterState = [req[c].afterState EXCEPT ![ResourceOf[f]] = Noted(Made(c, f))]
  <1> DEFINE r == ResourceOf[f]
             applied == Apply(ActionOf[f], req[c].docs[r])
             new == Made(c, f)
             before == Noted(req[c].docs[r])
             shown == IF plan[req[c].plan].dryRun THEN applied ELSE Noted(new)
             docs == [req[c].docs EXCEPT ![r] = new]
             befores == [req[c].beforeState EXCEPT ![r] = before]
             afters == [req[c].afterState EXCEPT ![r] = shown]
             next == [req[c] EXCEPT !.todo = req[c].todo \ {f}, !.docs = docs,
                                    !.beforeState = befores, !.afterState = afters]
  <1>1. /\ resource' = [resource EXCEPT ![r] = Save(resource[r], req[c].docs[r], new)]
        /\ req' = [req EXCEPT ![c] = next]
    BY DEF ExecuteAction, Made
  <1>2. Applies(req[c].plan) => shown = Noted(new)
    BY DEF Applies
  <1>3. req \in [Clients -> ReqType]
    BY DEF TypeOK
  <1> HIDE DEF docs, befores, afters
  <1>4. next.docs = docs /\ next.afterState = afters
    BY <1>3 DEF ReqType
  <1> HIDE DEF next
  <1>5. req'[c] = next
    BY <1>1, <1>3
  <1>6. req'[c].docs = docs /\ req'[c].afterState = afters
    BY <1>4, <1>5
  <1> QED
    BY <1>1, <1>2, <1>6 DEF docs, afters

Accounted(r, a) ==
    \E p \in Plans :
        /\ ~plan[p].dryRun
        /\ plan[p].status \in {"executing", "completed"}
                             \cup (IF p \in Contended THEN {"approved"} ELSE {})
        /\ \E t \in Tokens : token[t].plan = p /\ token[t].used
        /\ \E f \in plan[p].findings : ActionOf[f] = a /\ ResourceOf[f] = r

\* A request saves again what it saw: that must be accounted for too.
SeenAccounted ==
    \A c \in Clients : req[c].pc \in {"loaded", "marked", "applying"} =>
        \A r \in Resources, field \in Fields : \A a \in req[c].docs[r][field] :
            Accounted(r, a)

LEMMA AccountedKept ==
  ASSUME TypeInv, Reserved, UpToDate, Followed, Next, NEW r, NEW a, Accounted(r, a)
  PROVE  Accounted(r, a)'
  <1>1. PICK p \in Plans :
           /\ ~plan[p].dryRun
           /\ plan[p].status \in {"executing", "completed"}
                                \cup (IF p \in Contended THEN {"approved"} ELSE {})
           /\ \E t \in Tokens : token[t].plan = p /\ token[t].used
           /\ \E f \in plan[p].findings : ActionOf[f] = a /\ ResourceOf[f] = r
    BY DEF Accounted
  <1>2. /\ plan'[p].findings = plan[p].findings
        /\ plan'[p].dryRun = plan[p].dryRun
        /\ plan'[p].status \in {"approved", "executing", "completed"}
    BY <1>1, PlansKept DEF Past
  <1>3. p \notin Contended => plan'[p].status \in {"executing", "completed"}
    BY <1>1, NextStatus
  <1>4. \E t \in Tokens : token'[t].plan = p /\ token'[t].used
    BY <1>1, Monotone, NullAssumption DEF Issued
  <1> QED
    BY <1>1, <1>2, <1>3, <1>4 DEF Accounted

\* The request of an action accounts for it.
LEMMA ActionAccounted ==
  ASSUME TypeInv, Grounded, UpToDate, Followed, NEW c \in Clients, NEW f \in Findings,
         ExecuteAction(c, f), Applies(req[c].plan)
  PROVE  Accounted(ResourceOf[f], ActionOf[f])
  <1>1. /\ req[c].pc = "applying" /\ f \in req[c].todo
        /\ req[c].plan \in Plans /\ req[c].token \in Tokens
    BY DEF ExecuteAction, At, TypeInv, WellFormed, Executing
  <1>2. f \in plan[req[c].plan].findings /\ Past(req[c].plan)
    BY <1>1 DEF Followed, Actionable
  <1>3. req[c].plan \notin Contended => plan[req[c].plan].status = "executing"
    BY <1>1 DEF UpToDate
  <1>4. ~plan[req[c].plan].dryRun
    BY DEF Applies
  <1>5. token[req[c].token].plan = req[c].plan /\ token[req[c].token].used
    BY <1>1 DEF Grounded
  <1> QED
    BY <1>1, <1>2, <1>3, <1>4, <1>5 DEF Accounted, Past

LEMMA NextAccounted ==
  ASSUME TypeInv, Reserved, Grounded, UpToDate, Followed, FixesAreAccountable,
         SeenAccounted, Next
  PROVE  FixesAreAccountable' /\ SeenAccounted'
  <1>1. \A r, a : Accounted(r, a) => Accounted(r, a)'
    BY AccountedKept
  <1>2. \A r \in Resources, field \in Fields : \A a \in resource[r][field] : Accounted(r, a)
    BY DEF FixesAreAccountable, Accounted
  <1>3. ASSUME NEW c \in Clients, NEW f \in Findings, ExecuteAction(c, f),
               NEW field \in Fields, NEW a \in Made(c, f)[field]
        PROVE  Accounted(ResourceOf[f], a)
    <2>1. CASE a \in req[c].docs[ResourceOf[f]][field]
      BY <1>3, <2>1, FindingAssumption DEF ExecuteAction, At, SeenAccounted
    <2>2. CASE Applies(req[c].plan) /\ a = ActionOf[f]
      BY <1>3, <2>2, ActionAccounted
    <2> QED
      BY <1>3, <2>1, <2>2, MadeShows
  <1>4. ASSUME NEW c \in Clients, NEW f \in Findings, ExecuteAction(c, f)
        PROVE  f \in Actionable(Findings) /\ TypeOK
    BY <1>4 DEF ExecuteAction, At, TypeInv, WellFormed
  <1>5. ASSUME NEW r \in Resources, NEW field \in Fields, NEW a \in resource'[r][field]
        PROVE  Accounted(r, a)
    <2>1. CASE resource' = resource
      BY <1>2, <1>5, <2>1
    <2>2. ASSUME NEW c \in Clients, NEW f \in Findings, ExecuteAction(c, f)
          PROVE  Accounted(r, a)
      <3>1. resource' = [resource EXCEPT ![ResourceOf[f]] =
                Save(resource[ResourceOf[f]], req[c].docs[ResourceOf[f]], Made(c, f))]
        BY <1>4, <2>2, ActionResult
      <3>2. CASE r = ResourceOf[f] /\ a \notin resource[r][field]
        <4>1. resource'[r] = Save(resource[r], req[c].docs[r], Made(c, f))
          BY <1>4, <2>2, <3>1, <3>2 DEF TypeOK
        <4>2. a \in Made(c, f)[field]
          BY <1>5, <3>2, <4>1, SaveShows
        <4> QED
          BY <1>3, <2>2, <3>2, <4>2
      <3>3. CASE r # ResourceOf[f] \/ a \in resource[r][field]
        <4>1. a \in resource[r][field]
          BY <1>4, <1>5, <2>2, <3>1, <3>3 DEF TypeOK
        <4> QED
          BY <1>2, <4>1
      <3> QED
        BY <3>2, <3>3
    <2>3. ASSUME NEW s \in Resources, Sync(s) PROVE Accounted(r, a)
      <3>1. r # s
        BY <1>5, <2>3 DEF Sync, Clean, TypeInv, TypeOK
      <3> QED
        BY <1>2, <1>5, <2>3, <3>1 DEF Sync, TypeInv, TypeOK
    <2>4. ASSUME NEW c \in Clients, ~(\E f \in Findings : ExecuteAction(c, f)), Does(c)
          PROVE  resource' = resource
      BY <2>4
      DEF Does, CreatePlanStep, PlanLookup, PlanCreate, PlanKeyTaken, ApproveStep,
          ApproveLoad, ApproveIssue, ApproveSave, ExecuteStep, ExecuteLookup,
          ExecuteLoadPlan, ExecuteCheckToken, CheckOrReturn, ExecuteLoadResources,
          ExecuteMarkPlan, ExecuteUseToken, ExecuteRecord, ExecuteComplete, Audit, Abort
    <2>5. ASSUME NEW t \in Tokens, Expire(t) PROVE resource' = resource
      BY <2>5 DEF Expire
    <2> QED
      BY <2>1, <2>2, <2>3, <2>4, <2>5 DEF Next, Does
  <1>6. ASSUME NEW c \in Clients, req'[c].pc \in {"loaded", "marked", "applying"},
               NEW r \in Resources, NEW field \in Fields, NEW a \in req'[c].docs[r][field]
        PROVE  Accounted(r, a)
    <2>1. CASE req'[c] = req[c]
      BY <1>6, <2>1 DEF SeenAccounted
    <2>2. CASE Starts(c) \/ Ends(c)
      BY <1>6, <2>2 DEF Starts, Ends, Idle
    <2>3. CASE ExecuteLoadResources(c)
      <3>1. req'[c].docs = resource
        BY <2>3 DEF ExecuteLoadResources, TypeInv, TypeOK, ReqType
      <3> QED
        BY <1>2, <1>6, <3>1
    <2>4. CASE ExecuteMarkPlan(c) \/ ExecuteUseToken(c)
      <3>1. req'[c].docs = req[c].docs /\ req[c].pc \in {"loaded", "marked"}
        BY <2>4, GotoMoves DEF ExecuteMarkPlan, ExecuteUseToken, At, TypeInv, TypeOK
      <3> QED
        BY <1>6, <3>1 DEF SeenAccounted
    <2>5. ASSUME NEW f \in Findings, ExecuteAction(c, f) PROVE Accounted(r, a)
      <3>1. req'[c].docs = [req[c].docs EXCEPT ![ResourceOf[f]] = Made(c, f)]
        BY <1>4, <2>5, ActionResult
      <3>2. req[c].docs \in Snapshot /\ req[c].pc = "applying"
        BY <2>5 DEF ExecuteAction, At, TypeInv, TypeOK, ReqType
      <3>3. CASE r = ResourceOf[f]
        <4>1. a \in Made(c, f)[field]
          BY <1>6, <3>1, <3>2, <3>3 DEF Snapshot
        <4> QED
          BY <1>3, <2>5, <3>3, <4>1
      <3>4. CASE r # ResourceOf[f]
        <4>1. a \in req[c].docs[r][field]
          BY <1>6, <3>1, <3>2, <3>4 DEF Snapshot
        <4> QED
          BY <3>2, <4>1 DEF SeenAccounted
      <3> QED
        BY <3>3, <3>4
    <2> QED
      BY <1>6, <2>1, <2>2, <2>3, <2>4, <2>5, StepsOfRequests DEF GoesOn, Expire, Sync
  <1>7. FixesAreAccountable'
    <2>1. \A r \in Resources, field \in Fields : \A a \in resource'[r][field] : Accounted(r, a)'
      BY <1>1, <1>5
    <2> QED
      BY <2>1 DEF FixesAreAccountable, Accounted
  <1> QED
    BY <1>1, <1>6, <1>7 DEF SeenAccounted

-----------------------------------------------------------------------------
(* What records show.                                                      *)

\* The parts of a resource that the action of f changes and afterState keeps.
Shown(f) == (Changes(ActionOf[f]) \cap Fields) \ {"metrics"}

\* The effects of the actions a request is done with are in its afterState,
\* and in its document, from which the next action makes the next afterState.
Progress ==
    \A c \in Clients :
        req[c].pc \in {"loaded", "marked", "applying"} /\ Applies(req[c].plan) =>
            \A f \in Actionable(plan[req[c].plan].findings) \ req[c].todo :
                \A field \in Shown(f) :
                    /\ ActionOf[f] \in req[c].afterState[ResourceOf[f]][field]
                    /\ ActionOf[f] \in req[c].docs[ResourceOf[f]][field]

LEMMA ChangesAreFields ==
  ASSUME NEW action PROVE Changes(action) \subseteq Fields
  BY DEF Changes, Fields

\* Whether a plan applies its actions is settled with its creation.
LEMMA AppliesKept ==
  ASSUME TypeInv, Followed, Next, NEW p \in Plans, plan[p].status # "absent"
  PROVE  Applies(p)' <=> Applies(p)
  BY PlansKept DEF Applies

LEMMA NextProgress ==
  ASSUME TypeInv, Followed, Progress, Next
  PROVE  Progress'
  <1> SUFFICES ASSUME NEW c \in Clients, req'[c].pc \in {"loaded", "marked", "applying"},
                      Applies(req[c].plan)',
                      NEW f \in Actionable(plan'[req'[c].plan].findings) \ req'[c].todo,
                      NEW field \in Shown(f)
               PROVE  /\ ActionOf[f] \in req'[c].afterState[ResourceOf[f]][field]
                      /\ ActionOf[f] \in req'[c].docs[ResourceOf[f]][field]
    BY DEF Progress
  <1>0. TypeOK /\ field \in Fields /\ field # "metrics"
    BY DEF TypeInv, Shown
  <1>1. ASSUME req'[c].plan = req[c].plan,
               req[c].pc \in {"checked", "loaded", "marked", "applying"}
        PROVE  /\ Applies(req[c].plan)
               /\ f \in Actionable(plan[req[c].plan].findings)
    <2>1. req[c].plan \in Plans /\ plan[req[c].plan].status # "absent"
      BY <1>1 DEF TypeInv, WellFormed, Followed, Past
    <2>2. PICK p \in Plans : p = req[c].plan /\ plan[p].status # "absent"
      BY <2>1
    <2>3. Applies(p)' /\ plan'[p].findings = plan[p].findings
      <3>1. Applies(p)'
        BY <1>1, <2>2 DEF Applies
      <3> QED
        BY <2>2, <3>1, PlansKept
    <2> QED
      BY <1>1, <2>2, <2>3, AppliesKept
  <1>2. ASSUME req'[c].plan = req[c].plan, req'[c].todo = req[c].todo,
               req'[c].docs = req[c].docs, req'[c].afterState = req[c].afterState,
               req[c].pc \in {"loaded", "marked", "applying"}
        PROVE  /\ ActionOf[f] \in req'[c].afterState[ResourceOf[f]][field]
               /\ ActionOf[f] \in req'[c].docs[ResourceOf[f]][field]
    BY <1>1, <1>2 DEF Progress
  <1>3. CASE req'[c] = req[c]
    BY <1>2, <1>3
  <1>4. CASE Starts(c) \/ Ends(c)
    BY <1>4 DEF Starts, Ends, Idle
  <1>5. CASE ExecuteLoadResources(c)
    <2>1. /\ req'[c].todo = Actionable(plan[req[c].plan].findings)
          /\ req'[c].plan = req[c].plan
          /\ plan' = plan
      BY <1>0, <1>5 DEF ExecuteLoadResources, TypeOK, ReqType
    <2> QED
      BY <2>1
  <1>6. CASE ExecuteMarkPlan(c) \/ ExecuteUseToken(c)
    <2>1. /\ req'[c].plan = req[c].plan /\ req'[c].todo = req[c].todo
          /\ req'[c].docs = req[c].docs /\ req'[c].afterState = req[c].afterState
          /\ req[c].pc \in {"loaded", "marked"}
      BY <1>0, <1>6, GotoMoves DEF ExecuteMarkPlan, ExecuteUseToken, At, TypeOK
    <2> QED
      BY <1>2, <2>1
  <1>7. ASSUME NEW g \in Findings, ExecuteAction(c, g)
        PROVE  /\ ActionOf[f] \in req'[c].afterState[ResourceOf[f]][field]
               /\ ActionOf[f] \in req'[c].docs[ResourceOf[f]][field]
    <2>1. g \in Actionable(Findings) /\ req[c].pc = "applying" /\ ResourceOf[g] \in Resources
      BY <1>7, FindingAssumption DEF ExecuteAction, At, TypeInv, WellFormed
    <2>2. req'[c].plan = req[c].plan /\ req'[c].todo = req[c].todo \ {g}
      BY <1>0, <1>7, <2>1, ActionMoves
    <2>3. Applies(req[c].plan) /\ f \in Actionable(plan[req[c].plan].findings)
      BY <1>1, <2>1, <2>2
    <2>4. /\ req'[c].docs = [req[c].docs EXCEPT ![ResourceOf[g]] = Made(c, g)]
          /\ req'[c].afterState = [req[c].afterState EXCEPT ![ResourceOf[g]] = Noted(Made(c, g))]
      BY <1>0, <1>7, <2>1, <2>3, ActionResult
    <2>5. req[c].docs \in Snapshot /\ req[c].afterState \in Snapshot
      BY <1>0 DEF TypeOK, ReqType
    <2>6. CASE ResourceOf[f] # ResourceOf[g]
      <3>1. f \notin req[c].todo
        BY <2>2, <2>6
      <3>2. /\ ActionOf[f] \in req[c].afterState[ResourceOf[f]][field]
            /\ ActionOf[f] \in req[c].docs[ResourceOf[f]][field]
        BY <2>1, <2>3, <3>1 DEF Progress
      <3>3. f \in Findings /\ ResourceOf[f] \in Resources
        <4>1. req[c].plan \in Plans
          BY <2>1 DEF TypeInv, WellFormed
        <4>2. f \in Findings
          BY <1>0, <2>3, <4>1 DEF Actionable, TypeOK, PlanType
        <4> QED
          BY <4>2, FindingAssumption
      <3> QED
        BY <2>4, <2>5, <2>6, <3>2, <3>3 DEF Snapshot
    <2>7. CASE ResourceOf[f] = ResourceOf[g]
      <3>1. ActionOf[f] \in Made(c, g)[field]
        <4>1. CASE f = g
          BY <1>0, <2>3, <4>1, MadeShows DEF Shown
        <4>2. CASE f # g
          <5>1. f \notin req[c].todo
            BY <2>2, <4>2
          <5>2. ActionOf[f] \in req[c].docs[ResourceOf[g]][field]
            BY <2>1, <2>3, <2>7, <5>1 DEF Progress
          <5> QED
            BY <1>0, <5>2, MadeShows
        <4> QED
          BY <4>1, <4>2
      <3>2. Made(c, g) \in Content
        <4>1. req[c].docs[ResourceOf[g]] \in Content /\ ActionOf[g] \in Allowlisted
          BY <2>1, <2>5, FindingAssumption DEF Snapshot, Actionable
        <4> QED
          BY <4>1, ApplyTyped DEF Made
      <3>3. ActionOf[f] \in Noted(Made(c, g))[field]
        BY <1>0, <3>1, <3>2 DEF Noted, Content
      <3> QED
        BY <2>1, <2>4, <2>5, <2>7, <3>1, <3>3 DEF Snapshot
    <2> QED
      BY <2>6, <2>7
  <1>8. TypeInv /\ Next
    OBVIOUS
  <1>9. req'[c] = req[c] \/ Starts(c) \/ GoesOn(c) \/ Ends(c)
    BY <1>8, StepsOfRequests DEF Expire, Sync
  <1> QED
    BY <1>3, <1>4, <1>5, <1>6, <1>7, <1>9 DEF GoesOn

\* A record keeps the afterState its request ended with, and its plan does not
\* change any more.
LEMMA NextAfterState ==
  ASSUME TypeInv, Reserved, Followed, Progress, AfterStateIsComplete, Next
  PROVE  AfterStateIsComplete'
  <1> SUFFICES ASSUME NEW k \in Keys, Recorded(k)', Applies(record[k].plan)',
                      NEW f \in Actionable(plan'[record'[k].plan].findings),
                      NEW field \in Changes(ActionOf[f]) \ {"metrics"}
               PROVE  ActionOf[f] \in record'[k].afterState[ResourceOf[f]][field]
    BY DEF AfterStateIsComplete
  <1>1. CASE Recorded(k)
    <2>1. record'[k] = record[k]
      BY <1>1, Monotone
    <2>2. PICK p \in Plans : p = record[k].plan /\ plan[p].status # "absent"
      BY <1>1 DEF Followed, Past
    <2>3. Applies(p)' /\ plan'[p].findings = plan[p].findings
      <3>1. Applies(p)'
        BY <2>1, <2>2 DEF Applies
      <3> QED
        BY <2>2, <3>1, PlansKept
    <2>4. Applies(p)
      BY <2>2, <2>3, AppliesKept
    <2> QED
      BY <1>1, <2>1, <2>2, <2>3, <2>4 DEF AfterStateIsComplete
  <1>2. CASE ~Recorded(k)
    <2>1. PICK c \in Clients : ExecuteRecord(c) /\ ~Recorded(req[c].key)
      BY <1>2, RecordWrites DEF Recorded
    <2>2. /\ req[c].pc = "applying" /\ req[c].todo = {} /\ plan' = plan
          /\ req[c].plan \in Plans
      BY <2>1 DEF ExecuteRecord, At, TypeInv, WellFormed
    <2>3. record'[k].plan = req[c].plan /\ record'[k].afterState = req[c].afterState
      <3>1. record' = [record EXCEPT ![req[c].key] =
                         [plan |-> req[c].plan, token |-> req[c].token,
                          beforeState |-> req[c].beforeState,
                          afterState |-> req[c].afterState]]
        BY <2>1 DEF ExecuteRecord
      <3> QED
        BY <1>2, <3>1 DEF Recorded, TypeInv, TypeOK
    <2>4. Applies(req[c].plan)
      BY <2>2, <2>3 DEF Applies
    <2> QED
      BY <2>2, <2>3, <2>4, ChangesAreFields DEF Progress, Shown
  <1> QED
    BY <1>1, <1>2

-----------------------------------------------------------------------------
(* The audit log.                                                          *)

LEMMA Shrinks ==
  ASSUME NEW S, IsFiniteSet(S), NEW T, T \subseteq S
  PROVE  /\ IsFiniteSet(T)
         /\ Cardinality(S) \in Nat
         /\ Cardinality(T) \in Nat
         /\ Cardinality(T) <= Cardinality(S)
  BY FS_Subset, FS_CardinalityType

LEMMA GrowsByOne ==
  ASSUME NEW S, IsFiniteSet(S), NEW x, NEW T, T \subseteq S \cup {x}
  PROVE  /\ IsFiniteSet(T)
         /\ Cardinality(S) \in Nat
         /\ Cardinality(T) \in Nat
         /\ Cardinality(T) <= Cardinality(S) + 1
  <1>1. /\ IsFiniteSet(S \cup {x})
        /\ Cardinality(S) \in Nat
        /\ \/ Cardinality(S \cup {x}) = Cardinality(S)
           \/ Cardinality(S \cup {x}) = Cardinality(S) + 1
    BY FS_AddElement, FS_CardinalityType
  <1>2. /\ IsFiniteSet(T)
        /\ Cardinality(T) \in Nat
        /\ Cardinality(T) <= Cardinality(S \cup {x})
    BY <1>1, Shrinks
  <1> QED
    BY <1>1, <1>2

\* What is done, not in the audit log, and of no request that will write it.
PlansMissed ==
    {p \in Plans : plan[p].status # "absent" /\ ~Finished({"created"}, "plan", p)} \ audit.plan
TokensMissed ==
    {t \in Tokens : Issued(t) /\ ~Finished({"issued", "approved"}, "token", t)} \ audit.approve
KeysMissed ==
    {k \in Keys : Recorded(k) /\ ~Finished({"recorded", "executed"}, "key", k)} \ audit.execute

Missing ==
    /\ IsFiniteSet(PlansMissed) /\ IsFiniteSet(TokensMissed) /\ IsFiniteSet(KeysMissed)
    /\ Cardinality(PlansMissed) + Cardinality(TokensMissed) + Cardinality(KeysMissed) <= faults

LEMMA InitMissing == Init => Missing
  <1> SUFFICES ASSUME Init PROVE Missing
    OBVIOUS
  <1>1. PlansMissed = {} /\ TokensMissed = {} /\ KeysMissed = {}
    BY DEF Init, PlansMissed, TokensMissed, KeysMissed, NoPlan, NoToken, NoRecord, Issued, Recorded
  <1>2. faults = 0
    BY DEF Init
  <1> QED
    BY <1>1, <1>2, FS_EmptySet DEF Missing

\* The audit log only grows, and a request that returns without a fault has
\* written its event.
LEMMA AuditGrows ==
  ASSUME TypeInv, Next
  PROVE  /\ audit.plan \subseteq audit'.plan
         /\ audit.approve \subseteq audit'.approve
         /\ audit.execute \subseteq audit'.execute
  <1> USE DEF TypeInv, TypeOK, AuditType
  <1>1. ASSUME NEW c \in Clients, CreatePlanStep(c) \/ ApproveStep(c) PROVE audit' = audit
    BY <1>1 DEF CreatePlanStep, PlanLookup, PlanCreate, PlanKeyTaken, ApproveStep,
                ApproveLoad, ApproveIssue, ApproveSave
  <1>2. ASSUME NEW c \in Clients, ExecuteStep(c) PROVE audit' = audit
    BY <1>2 DEF ExecuteStep, ExecuteLookup, ExecuteLoadPlan, ExecuteCheckToken,
                CheckOrReturn, ExecuteLoadResources, ExecuteMarkPlan, ExecuteUseToken,
                ExecuteAction, ExecuteRecord, ExecuteComplete
  <1>3. ASSUME NEW c \in Clients, Abort(c) PROVE audit' = audit
    BY <1>3 DEF Abort
  <1>4. ASSUME NEW t \in Tokens, Expire(t) PROVE audit' = audit
    BY <1>4 DEF Expire
  <1>5. ASSUME NEW r \in Resources, Sync(r) PROVE audit' = audit
    BY <1>5 DEF Sync
  <1>6. ASSUME NEW c \in Clients, Audit(c)
        PROVE  /\ audit.plan \subseteq audit'.plan
               /\ audit.approve \subseteq audit'.approve
               /\ audit.execute \subseteq audit'.execute
    BY <1>6 DEF Audit
  <1> QED
    BY <1>1, <1>2, <1>3, <1>4, <1>5, <1>6 DEF Next

\* A request that will write an event goes on until it has, or breaks off.
LEMMA FinishedKept ==
  ASSUME TypeInv, Next, NEW c \in Clients, ~Abort(c), ~Audit(c),
         req[c].pc \in {"created", "issued", "approved", "recorded", "executed"}
  PROVE  /\ req'[c].plan = req[c].plan
         /\ req'[c].token = req[c].token
         /\ req'[c].key = req[c].key
         /\ req[c].pc = "created" => req'[c].pc = "created"
         /\ req[c].pc \in {"issued", "approved"} => req'[c].pc \in {"issued", "approved"}
         /\ req[c].pc \in {"recorded", "executed"} => req'[c].pc \in {"recorded", "executed"}
  <1>1. CASE req'[c] = req[c]
    BY <1>1
  <1>2. CASE req'[c] # req[c]
    <2>1. CreatePlanStep(c) \/ ApproveStep(c) \/ ExecuteStep(c)
      BY <1>2, OwnSteps DEF Does
    <2>2. CASE ApproveSave(c)
      BY <2>2, GotoMoves DEF ApproveSave, At, TypeInv, TypeOK
    <2>3. CASE ExecuteComplete(c)
      BY <2>3, GotoMoves DEF ExecuteComplete, At, TypeInv, TypeOK
    <2>4. CASE CreatePlanStep(c)
      BY <2>4 DEF CreatePlanStep, PlanLookup, PlanCreate, PlanKeyTaken, At
    <2>5. CASE ApproveStep(c) /\ ~ApproveSave(c)
      BY <2>5 DEF ApproveStep, ApproveLoad, MayStart, ApproveIssue, At
    <2>6. CASE ExecuteStep(c) /\ ~ExecuteComplete(c)
      BY <2>6
      DEF ExecuteStep, ExecuteLookup, MayStart, ExecuteLoadPlan, ExecuteCheckToken,
          ExecuteLoadResources, ExecuteMarkPlan, ExecuteUseToken, ExecuteAction,
          ExecuteRecord, At
    <2> QED
      BY <2>1, <2>2, <2>3, <2>4, <2>5, <2>6
  <1> QED
    BY <1>1, <1>2

\* What the request of an Audit step has finished is in the log.
LEMMA AuditWrites ==
  ASSUME TypeInv, NEW c \in Clients, Audit(c)
  PROVE  /\ req[c].pc \in {"created", "approved", "executed"}
         /\ req[c].pc = "created" => req[c].plan \in audit'.plan
         /\ req[c].pc = "approved" => req[c].token \in audit'.approve
         /\ req[c].pc = "executed" => req[c].key \in audit'.execute
  BY DEF Audit, At, TypeInv, TypeOK, AuditType

\* The three kinds of what is missing grow by a fault only.
LEMMA PlanMissed ==
  ASSUME TypeInv, Followed, Next, NEW p \in PlansMissed'
  PROVE  \/ p \in PlansMissed
         \/ \E c \in Clients : Abort(c) /\ req[c].pc = "created" /\ req[c].plan = p
  <1>1. /\ p \in Plans /\ plan'[p].status # "absent" /\ p \notin audit'.plan
        /\ \A c \in Clients : ~(req'[c].pc = "created" /\ req'[c].plan = p)
    BY DEF PlansMissed, Finished
  <1>2. plan[p].status # "absent"
    <2>1. ASSUME NEW c \in Clients, PlanCreate(c), req[c].plan = p PROVE FALSE
      BY <1>1, <2>1, GotoMoves DEF PlanCreate, TypeInv, TypeOK
    <2>2. ASSUME NEW c \in Clients, PlanCreate(c), req[c].plan # p
          PROVE  plan'[p] = plan[p]
      BY <1>1, <2>2 DEF PlanCreate, TypeInv, TypeOK
    <2>3. ASSUME NEW c \in Clients, ApproveSave(c) \/ ExecuteMarkPlan(c) \/ ExecuteComplete(c),
                 req[c].plan = p
          PROVE  plan[p].status # "absent"
      BY <2>3 DEF ApproveSave, ExecuteMarkPlan, ExecuteComplete, At, Followed, Past
    <2>4. ASSUME NEW c \in Clients, ApproveSave(c) \/ ExecuteMarkPlan(c) \/ ExecuteComplete(c),
                 req[c].plan # p
          PROVE  plan'[p] = plan[p]
      BY <1>1, <2>4 DEF ApproveSave, ExecuteMarkPlan, ExecuteComplete, TypeInv, TypeOK
    <2> QED
      BY <1>1, <2>1, <2>2, <2>3, <2>4, PlanWrites
  <1>3. p \notin audit.plan
    BY <1>1, AuditGrows
  <1>4. ASSUME NEW c \in Clients, req[c].pc = "created", req[c].plan = p
        PROVE  Abort(c)
    <2>1. CASE Audit(c)
      BY <1>1, <1>4, <2>1, AuditWrites
    <2>2. CASE ~Audit(c) /\ ~Abort(c)
      BY <1>1, <1>4, <2>2, FinishedKept
    <2> QED
      BY <2>1, <2>2
  <1> QED
    BY <1>1, <1>2, <1>3, <1>4 DEF PlansMissed, Finished

LEMMA TokenMissed ==
  ASSUME TypeInv, Next, NEW t \in TokensMissed'
  PROVE  \/ t \in TokensMissed
         \/ \E c \in Clients : /\ Abort(c) /\ req[c].pc \in {"issued", "approved"}
                               /\ req[c].token = t
  <1>1. /\ t \in Tokens /\ token'[t].plan # Null /\ t \notin audit'.approve
        /\ \A c \in Clients : ~(req'[c].pc \in {"issued", "approved"} /\ req'[c].token = t)
    BY DEF TokensMissed, Finished, Issued
  <1>2. token[t].plan # Null
    <2>1. ASSUME NEW c \in Clients, ApproveIssue(c) PROVE token'[t] = token[t]
      <3>1. req'[c].pc = "issued" /\ req'[c].token = req[c].token
        BY <2>1, GotoMoves DEF ApproveIssue, TypeInv, TypeOK
      <3> QED
        BY <1>1, <2>1, <3>1 DEF ApproveIssue, TypeInv, TypeOK
    <2>2. ASSUME NEW c \in Clients, ExecuteUseToken(c) PROVE token'[t].plan = token[t].plan
      BY <1>1, <2>2 DEF ExecuteUseToken, TypeInv, TypeOK, TokenType
    <2>3. ASSUME NEW s \in Tokens, Expire(s) PROVE token'[t].plan = token[t].plan
      BY <1>1, <2>3 DEF Expire, TypeInv, TypeOK, TokenType
    <2>4. ASSUME NEW c \in Clients, Does(c), ~ApproveIssue(c), ~ExecuteUseToken(c)
          PROVE  token' = token
      BY <2>4
      DEF Does, CreatePlanStep, PlanLookup, PlanCreate, PlanKeyTaken, ApproveStep,
          ApproveLoad, ApproveSave, ExecuteStep, ExecuteLookup, ExecuteLoadPlan,
          ExecuteCheckToken, CheckOrReturn, ExecuteLoadResources, ExecuteMarkPlan,
          ExecuteAction, ExecuteRecord, ExecuteComplete, Audit, Abort
    <2>5. ASSUME NEW r \in Resources, Sync(r) PROVE token' = token
      BY <2>5 DEF Sync
    <2> QED
      BY <1>1, <2>1, <2>2, <2>3, <2>4, <2>5 DEF Next, Does
  <1>3. t \notin audit.approve
    BY <1>1, AuditGrows
  <1>4. ASSUME NEW c \in Clients, req[c].pc \in {"issued", "approved"}, req[c].token = t
        PROVE  Abort(c)
    <2>1. CASE Audit(c)
      BY <1>1, <1>4, <2>1, AuditWrites
    <2>2. CASE ~Audit(c) /\ ~Abort(c)
      BY <1>1, <1>4, <2>2, FinishedKept
    <2> QED
      BY <2>1, <2>2
  <1> QED
    BY <1>1, <1>2, <1>3, <1>4 DEF TokensMissed, Finished, Issued

LEMMA KeyMissed ==
  ASSUME TypeInv, Next, NEW k \in KeysMissed'
  PROVE  \/ k \in KeysMissed
         \/ \E c \in Clients : /\ Abort(c) /\ req[c].pc \in {"recorded", "executed"}
                               /\ req[c].key = k
  <1>1. /\ k \in Keys /\ record'[k].plan # Null /\ k \notin audit'.execute
        /\ \A c \in Clients : ~(req'[c].pc \in {"recorded", "executed"} /\ req'[c].key = k)
    BY DEF KeysMissed, Finished, Recorded
  <1>2. record[k].plan # Null
    <2>1. ASSUME NEW c \in Clients, ExecuteRecord(c), ~Recorded(req[c].key)
          PROVE  record'[k] = record[k]
      <3>1. req'[c].pc = "recorded" /\ req'[c].key = req[c].key
        BY <2>1, GotoMoves DEF ExecuteRecord, TypeInv, TypeOK
      <3> QED
        BY <1>1, <2>1, <3>1 DEF ExecuteRecord, TypeInv, TypeOK
    <2> QED
      BY <1>1, <2>1, RecordWrites
  <1>3. k \notin audit.execute
    BY <1>1, AuditGrows
  <1>4. ASSUME NEW c \in Clients, req[c].pc \in {"recorded", "executed"}, req[c].key = k
        PROVE  Abort(c)
    <2>1. CASE Audit(c)
      BY <1>1, <1>4, <2>1, AuditWrites
    <2>2. CASE ~Audit(c) /\ ~Abort(c)
      BY <1>1, <1>4, <2>2, FinishedKept
    <2> QED
      BY <2>1, <2>2
  <1> QED
    BY <1>1, <1>2, <1>3, <1>4 DEF KeysMissed, Finished, Recorded

LEMMA NextMissing ==
  ASSUME TypeInv, Followed, Missing, Next
  PROVE  Missing'
  <1>0. /\ IsFiniteSet(PlansMissed) /\ IsFiniteSet(TokensMissed) /\ IsFiniteSet(KeysMissed)
        /\ Cardinality(PlansMissed) + Cardinality(TokensMissed) + Cardinality(KeysMissed)
              <= faults
        /\ faults \in Nat
    BY BoundAssumption DEF Missing, TypeInv, TypeOK
  <1>1. CASE ~(\E c \in Clients : Abort(c))
    <2>1. /\ PlansMissed' \subseteq PlansMissed
          /\ TokensMissed' \subseteq TokensMissed
          /\ KeysMissed' \subseteq KeysMissed
      BY <1>1, PlanMissed, TokenMissed, KeyMissed
    <2>2. faults' = faults
      BY <1>1, FaultsGrow
    <2>3. /\ IsFiniteSet(PlansMissed') /\ Cardinality(PlansMissed') \in Nat
          /\ Cardinality(PlansMissed) \in Nat
          /\ Cardinality(PlansMissed') <= Cardinality(PlansMissed)
      BY <1>0, <2>1, Shrinks
    <2>4. /\ IsFiniteSet(TokensMissed') /\ Cardinality(TokensMissed') \in Nat
          /\ Cardinality(TokensMissed) \in Nat
          /\ Cardinality(TokensMissed') <= Cardinality(TokensMissed)
      BY <1>0, <2>1, Shrinks
    <2>5. /\ IsFiniteSet(KeysMissed') /\ Cardinality(KeysMissed') \in Nat
          /\ Cardinality(KeysMissed) \in Nat
          /\ Cardinality(KeysMissed') <= Cardinality(KeysMissed)
      BY <1>0, <2>1, Shrinks
    <2> QED
      BY <1>0, <2>2, <2>3, <2>4, <2>5 DEF Missing
  <1>2. CASE \E c \in Clients : Abort(c)
    <2>1. PICK c \in Clients : Abort(c)
      BY <1>2
    <2>2. ASSUME NEW d \in Clients, Abort(d) PROVE d = c
      BY <2>1, <2>2 DEF Abort, Return, At, Idle, TypeInv, TypeOK
    <2>3. faults' = faults + 1
      BY <2>1 DEF Abort
    <2>4. /\ PlansMissed' \subseteq PlansMissed \cup {req[c].plan}
          /\ req[c].pc # "created" => PlansMissed' \subseteq PlansMissed
      BY <2>2, PlanMissed
    <2>5. /\ TokensMissed' \subseteq TokensMissed \cup {req[c].token}
          /\ req[c].pc \notin {"issued", "approved"} => TokensMissed' \subseteq TokensMissed
      BY <2>2, TokenMissed
    <2>6. /\ KeysMissed' \subseteq KeysMissed \cup {req[c].key}
          /\ req[c].pc \notin {"recorded", "executed"} => KeysMissed' \subseteq KeysMissed
      BY <2>2, KeyMissed
    <2>7. /\ IsFiniteSet(PlansMissed') /\ Cardinality(PlansMissed') \in Nat
          /\ Cardinality(PlansMissed) \in Nat
          /\ Cardinality(PlansMissed') <= Cardinality(PlansMissed) + 1
      BY <1>0, <2>4, GrowsByOne
    <2>8. /\ IsFiniteSet(TokensMissed') /\ Cardinality(TokensMissed') \in Nat
          /\ Cardinality(TokensMissed) \in Nat
          /\ Cardinality(TokensMissed') <= Cardinality(TokensMissed) + 1
      BY <1>0, <2>5, GrowsByOne
    <2>9. /\ IsFiniteSet(KeysMissed') /\ Cardinality(KeysMissed') \in Nat
          /\ Cardinality(KeysMissed) \in Nat
          /\ Cardinality(KeysMissed') <= Cardinality(KeysMissed) + 1
      BY <1>0, <2>6, GrowsByOne
    <2>10. /\ req[c].pc # "created" => Cardinality(PlansMissed') <= Cardinality(PlansMissed)
           /\ req[c].pc \notin {"issued", "approved"} =>
                 Cardinality(TokensMissed') <= Cardinality(TokensMissed)
           /\ req[c].pc \notin {"recorded", "executed"} =>
                 Cardinality(KeysMissed') <= Cardinality(KeysMissed)
      <3>1. req[c].pc # "created" => Cardinality(PlansMissed') <= Cardinality(PlansMissed)
        BY <1>0, <2>4, Shrinks
      <3>2. req[c].pc \notin {"issued", "approved"} =>
              Cardinality(TokensMissed') <= Cardinality(TokensMissed)
        BY <1>0, <2>5, Shrinks
      <3>3. req[c].pc \notin {"recorded", "executed"} =>
              Cardinality(KeysMissed') <= Cardinality(KeysMissed)
        BY <1>0, <2>6, Shrinks
      <3> QED
        BY <3>1, <3>2, <3>3
    <2>11. Cardinality(PlansMissed') + Cardinality(TokensMissed') + Cardinality(KeysMissed')
             <= Cardinality(PlansMissed) + Cardinality(TokensMissed) + Cardinality(KeysMissed) + 1
      BY <2>7, <2>8, <2>9, <2>10
    <2> QED
      BY <1>0, <2>3, <2>7, <2>8, <2>9, <2>11 DEF Missing
  <1> QED
    BY <1>1, <1>2

-----------------------------------------------------------------------------
(* The theorems.                                                           *)

EffectsInv ==
    /\ Inv /\ SerialInv
    /\ Stuck
    /\ Followed
    /\ FixesAreAccountable /\ SeenAccounted
    /\ Progress /\ AfterStateIsComplete
    /\ Missing

LEMMA InitEffectsInv == Init => EffectsInv
  <1> SUFFICES ASSUME Init PROVE EffectsInv
    OBVIOUS
  <1>1. \A c \in Clients : req[c].pc = "idle"
    BY DEF Init, Idle
  <1>2. \A k \in Keys : ~Recorded(k)
    BY DEF Init, NoRecord, Recorded
  <1>3. Followed /\ SeenAccounted /\ Progress /\ AfterStateIsComplete
    BY <1>1, <1>2 DEF Followed, SeenAccounted, Progress, AfterStateIsComplete
  <1>4. FixesAreAccountable
    BY DEF Init, FixesAreAccountable, Clean
  <1> QED
    BY <1>3, <1>4, InitInv, InitSerialInv, InitStuck, InitMissing DEF EffectsInv

LEMMA StepEffectsInv ==
  ASSUME EffectsInv, Next
  PROVE  EffectsInv'
  <1>1. TypeInv /\ Reserved /\ Grounded /\ Alone /\ UpToDate
    BY DEF EffectsInv, Inv, SerialInv
  <1>2. Inv' /\ SerialInv'
    BY <1>1, NextInv, NextAlone, NextUpToDate, NextRecords DEF EffectsInv, SerialInv
  <1>3. Stuck' /\ Followed'
    BY <1>1, NextStuck, NextFollowed DEF EffectsInv
  <1>4. FixesAreAccountable' /\ SeenAccounted'
    BY <1>1, NextAccounted DEF EffectsInv
  <1>5. Progress' /\ AfterStateIsComplete'
    BY <1>1, NextProgress, NextAfterState DEF EffectsInv
  <1>6. Missing'
    BY <1>1, NextMissing DEF EffectsInv
  <1> QED
    BY <1>2, <1>3, <1>4, <1>5, <1>6 DEF EffectsInv

LEMMA StutterEffectsInv ==
  ASSUME EffectsInv, UNCHANGED vars
  PROVE  EffectsInv'
  <1>1. /\ plan' = plan /\ token' = token /\ record' = record /\ resource' = resource
        /\ audit' = audit /\ req' = req /\ faults' = faults
    BY DEF vars
  <1>2. Inv'
    BY NextInv DEF EffectsInv
  <1>3. SerialInv'
    BY <1>1
    DEF EffectsInv, SerialInv, Alone, WorksOn, UpToDate, RecordsOfPlans, OneExecution
  <1>4. Stuck' /\ Followed'
    BY <1>1 DEF EffectsInv, Stuck, Busy, KeyGone, Followed, Past, Recorded
  <1>5. FixesAreAccountable' /\ SeenAccounted'
    BY <1>1 DEF EffectsInv, FixesAreAccountable, SeenAccounted, Accounted
  <1>6. Progress' /\ AfterStateIsComplete'
    BY <1>1 DEF EffectsInv, Progress, AfterStateIsComplete, Applies, Recorded
  <1>7. /\ PlansMissed' = PlansMissed /\ TokensMissed' = TokensMissed
        /\ KeysMissed' = KeysMissed
    BY <1>1 DEF PlansMissed, TokensMissed, KeysMissed, Finished, Issued, Recorded
  <1>8. Missing'
    BY <1>1, <1>7 DEF EffectsInv, Missing
  <1> QED
    BY <1>2, <1>3, <1>4, <1>5, <1>6, <1>8 DEF EffectsInv

LEMMA SpecEffectsInv == Spec => []EffectsInv
  <1>1. Init => EffectsInv
    BY InitEffectsInv
  <1>2. EffectsInv /\ [Next]_vars => EffectsInv'
    BY StepEffectsInv, StutterEffectsInv
  <1> QED
    BY <1>1, <1>2, PTL DEF Spec

\* No silent mutation: whatever requests overlap or break off, and whatever
\* syncs and other plans do to the resources in between, each change is the
\* work of an executed plan that contains it and is no dry run.
THEOREM FixesHavePlans == Spec => []FixesAreAccountable
  <1>1. EffectsInv => FixesAreAccountable
    BY DEF EffectsInv
  <1> QED
    BY <1>1, SpecEffectsInv, PTL

\* The afterState of a record shows the effect of every action of its plan,
\* several on one resource too, in whatever order the loop takes them.
THEOREM AfterStatesAreComplete == Spec => []AfterStateIsComplete
  <1>1. EffectsInv => AfterStateIsComplete
    BY DEF EffectsInv
  <1> QED
    BY <1>1, SpecEffectsInv, PTL

\* Without a fault, a plan whose requests come one after the other is left
\* executing by nothing but the insertion of a record whose key is taken.
THEOREM PlansGetStuckByKeyClash == Spec => []StuckOnlyByKeyClash
  <1>1. EffectsInv => StuckOnlyByKeyClash
    <2> SUFFICES ASSUME EffectsInv, NEW p \in Plans \ Contended,
                        plan[p].status = "executing", ~InFlight(p), faults = 0
                 PROVE  \E k \in Keys : Recorded(k) /\ record[k].plan # p
      BY DEF StuckOnlyByKeyClash
    <2>1. \A c \in Clients : ~Busy(c, p)
      BY DEF Busy, InFlight
    <2> QED
      BY <2>1 DEF EffectsInv, Stuck, KeyGone
  <1> QED
    BY <1>1, SpecEffectsInv, PTL

\* Plans, approvals and executions without an audit event are no more than
\* the faults so far.
THEOREM AuditsAreComplete == Spec => []AuditAccounts
  <1>1. EffectsInv => AuditAccounts
    BY DEF EffectsInv, Missing, AuditAccounts, PlansMissed, TokensMissed, KeysMissed
  <1> QED
    BY <1>1, SpecEffectsInv, PTL

=============================================================================
