------------------------- MODULE RemediationProofs -------------------------
(***************************************************************************)
(* Theorems about Remediation, for any findings, resources, plans, keys,   *)
(* tokens, clients and faults.                                             *)
(***************************************************************************)
EXTENDS Remediation, TLAPS

-----------------------------------------------------------------------------
(* The contents of resources and what the actions make of them.            *)

LEMMA CleanTyped == Clean \in Content /\ NoSnapshot \in Snapshot
  BY DEF Clean, Content, NoSnapshot, Snapshot

LEMMA ApplyTyped ==
  ASSUME NEW a \in Allowlisted, NEW content \in Content
  PROVE  Apply(a, content) \in Content
  BY DEF Apply, Content

LEMMA NotedTyped ==
  ASSUME NEW content \in Content
  PROVE  Noted(content) \in Content
  BY DEF Noted, Content, Fields

LEMMA SaveTyped ==
  ASSUME NEW stored \in Content, NEW loaded \in Content, NEW new \in Content
  PROVE  Save(stored, loaded, new) \in Content
  BY DEF Save, Content

\* A save adds to what is stored only what the new document shows.
LEMMA SaveShows ==
  ASSUME NEW stored, NEW loaded, NEW new, NEW field \in Fields
  PROVE  \/ Save(stored, loaded, new)[field] = stored[field]
         \/ Save(stored, loaded, new)[field] = new[field]
  BY DEF Save

-----------------------------------------------------------------------------
(* Requests name what they are about.                                      *)

Approving == {"approving", "issued", "approved"}
Executing == {"keyed", "planned", "checked", "loaded", "marked", "applying",
              "recorded", "executed"}

WellFormed ==
    \A c \in Clients :
        /\ req[c].pc # "idle" => req[c].plan \in Plans
        /\ req[c].pc \in Approving \cup Executing => req[c].token \in Tokens
        /\ req[c].pc \in Executing => req[c].key \in Keys
        /\ req[c].pc \in {"loaded", "marked", "applying"} =>
              req[c].todo \subseteq Actionable(Findings)

TypeInv == TypeOK /\ WellFormed

LEMMA IdleTyped == Idle \in ReqType
  BY CleanTyped DEF Idle, ReqType, Statuses

LEMMA InitTypeInv == Init => TypeInv
  BY CleanTyped, IdleTyped, BoundAssumption
  DEF Init, TypeInv, TypeOK, WellFormed, Approving, Executing, NoPlan, NoToken,
      NoRecord, PlanType, TokenType, RecordType, AuditType, Statuses, Idle

\* A save of a plan writes a status.
LEMMA StatusTyped ==
  ASSUME plan \in [Plans -> PlanType], NEW p, NEW s \in Statuses
  PROVE  [plan EXCEPT ![p] = [plan[p] EXCEPT !.status = s]] \in [Plans -> PlanType]
  <1>1. ASSUME NEW q \in Plans PROVE [plan[q] EXCEPT !.status = s] \in PlanType
    BY DEF PlanType
  <1> QED
    BY <1>1

\* What a step makes of the requests: one of them moves on or returns.
LEMMA GotoMoves ==
  ASSUME req \in [Clients -> ReqType], NEW c \in Clients,
         NEW pc \in {"idle", "planning", "created", "approving", "issued",
                     "approved", "keyed", "planned", "checked", "loaded",
                     "marked", "applying", "recorded", "executed"},
         Goto(c, pc)
  PROVE  /\ req' \in [Clients -> ReqType]
         /\ req'[c].pc = pc
         /\ req'[c].plan = req[c].plan
         /\ req'[c].key = req[c].key
         /\ req'[c].token = req[c].token
         /\ req'[c].was = req[c].was
         /\ req'[c].todo = req[c].todo
         /\ req'[c].docs = req[c].docs
         /\ req'[c].beforeState = req[c].beforeState
         /\ req'[c].afterState = req[c].afterState
         /\ \A d \in Clients \ {c} : req'[d] = req[d]
  <1>1. req[c] \in ReqType
    OBVIOUS
  <1>2. req' = [req EXCEPT ![c] = [req[c] EXCEPT !.pc = pc]]
    BY DEF Goto
  <1>3. [req[c] EXCEPT !.pc = pc] \in ReqType
    BY <1>1 DEF ReqType
  <1>4. req'[c] = [req[c] EXCEPT !.pc = pc]
    BY <1>2
  <1> QED
    BY <1>1, <1>2, <1>3, <1>4 DEF ReqType

LEMMA ReturnMoves ==
  ASSUME req \in [Clients -> ReqType], NEW c \in Clients, Return(c)
  PROVE  /\ req' \in [Clients -> ReqType]
         /\ req'[c] = Idle
         /\ \A d \in Clients \ {c} : req'[d] = req[d]
  BY IdleTyped DEF Return

\* What one round of the loop makes of its request and of the resource.
LEMMA ActionMoves ==
  ASSUME TypeOK, NEW c \in Clients, NEW f \in Findings,
         f \in Actionable(Findings), ExecuteAction(c, f)
  PROVE  /\ req' \in [Clients -> ReqType]
         /\ req'[c].pc = "applying"
         /\ req'[c].plan = req[c].plan
         /\ req'[c].key = req[c].key
         /\ req'[c].token = req[c].token
         /\ req'[c].was = req[c].was
         /\ req'[c].todo = req[c].todo \ {f}
         /\ \A d \in Clients \ {c} : req'[d] = req[d]
  <1> DEFINE r == ResourceOf[f]
             loaded == req[c].docs[r]
             applied == Apply(ActionOf[f], loaded)
             new == IF Applies(req[c].plan) THEN applied ELSE loaded
             before == Noted(loaded)
             shown == IF plan[req[c].plan].dryRun THEN applied ELSE Noted(new)
             next == [req[c] EXCEPT !.todo = req[c].todo \ {f},
                                    !.docs = [req[c].docs EXCEPT ![r] = new],
                                    !.beforeState = [req[c].beforeState EXCEPT ![r] = before],
                                    !.afterState = [req[c].afterState EXCEPT ![r] = shown]]
  <1>1. req[c] \in ReqType
    BY DEF TypeOK
  <1>2. req[c].docs \in Snapshot /\ req[c].beforeState \in Snapshot
          /\ req[c].afterState \in Snapshot
    BY <1>1 DEF ReqType
  <1>3. r \in Resources /\ ActionOf[f] \in Allowlisted
    BY FindingAssumption DEF Actionable
  <1>4. loaded \in Content
    BY <1>2, <1>3 DEF Snapshot
  <1>5. applied \in Content
    BY <1>3, <1>4, ApplyTyped
  <1>6. new \in Content /\ before \in Content /\ shown \in Content
    BY <1>4, <1>5, NotedTyped
  <1>7. req' = [req EXCEPT ![c] = next]
    BY DEF ExecuteAction
  <1> HIDE DEF new, before, shown, loaded, applied, r
  <1>8. /\ [req[c].docs EXCEPT ![r] = new] \in Snapshot
        /\ [req[c].beforeState EXCEPT ![r] = before] \in Snapshot
        /\ [req[c].afterState EXCEPT ![r] = shown] \in Snapshot
    BY <1>2, <1>3, <1>4, <1>6 DEF Snapshot
  <1>9. next \in ReqType
    BY <1>1, <1>8 DEF ReqType
  <1>10. /\ next.pc = req[c].pc
         /\ next.plan = req[c].plan
         /\ next.key = req[c].key
         /\ next.token = req[c].token
         /\ next.was = req[c].was
         /\ next.todo = req[c].todo \ {f}
    BY <1>1 DEF ReqType
  <1>11. req[c].pc = "applying"
    BY DEF ExecuteAction, At
  <1> HIDE DEF next
  <1>12. req \in [Clients -> ReqType]
    BY DEF TypeOK
  <1> QED
    BY <1>7, <1>9, <1>10, <1>11, <1>12

LEMMA ActionStores ==
  ASSUME TypeOK, NEW c \in Clients, NEW f \in Findings,
         f \in Actionable(Findings), ExecuteAction(c, f)
  PROVE  resource' \in [Resources -> Content]
  <1> DEFINE r == ResourceOf[f]
             loaded == req[c].docs[r]
             applied == Apply(ActionOf[f], loaded)
             new == IF Applies(req[c].plan) THEN applied ELSE loaded
  <1>1. req[c].docs \in Snapshot /\ resource \in [Resources -> Content]
    BY DEF TypeOK, ReqType
  <1>2. r \in Resources /\ ActionOf[f] \in Allowlisted
    BY FindingAssumption DEF Actionable
  <1>3. loaded \in Content
    BY <1>1, <1>2 DEF Snapshot
  <1>4. new \in Content
    BY <1>2, <1>3, ApplyTyped
  <1>5. Save(resource[r], loaded, new) \in Content
    BY <1>1, <1>2, <1>3, <1>4, SaveTyped
  <1>6. resource' = [resource EXCEPT ![r] = Save(resource[r], loaded, new)]
    BY DEF ExecuteAction
  <1> QED
    BY <1>1, <1>5, <1>6

LEMMA NextTypeInv == TypeInv /\ [Next]_vars => TypeInv'
  <1> SUFFICES ASSUME TypeInv, [Next]_vars PROVE TypeInv'
    OBVIOUS
  <1> USE DEF TypeInv, TypeOK
  <1>1. ASSUME NEW c \in Clients, NEW p \in Plans, NEW input \in PlanInputs[p],
               PlanLookup(c, p, input)
        PROVE  TypeInv'
    <2>1. input[1] \in SUBSET Findings /\ input[2] \in BOOLEAN
      BY FindingAssumption
    <2>2. [Idle EXCEPT !.pc = "planning", !.plan = p, !.todo = input[1],
                       !.dryRun = input[2]] \in ReqType
      BY <2>1, IdleTyped DEF ReqType
    <2>3. req' \in [Clients -> ReqType]
      BY <1>1, <2>2 DEF PlanLookup
    <2>4. WellFormed'
      BY <1>1 DEF PlanLookup, WellFormed, Idle, Approving, Executing
    <2> QED
      BY <1>1, <2>3, <2>4 DEF PlanLookup
  <1>2. ASSUME NEW c \in Clients, PlanCreate(c) PROVE TypeInv'
    <2>1. plan' \in [Plans -> PlanType]
      BY <1>2 DEF PlanCreate, PlanType, Statuses, ReqType
    <2>2. req' \in [Clients -> ReqType] /\ WellFormed'
      BY <1>2, GotoMoves DEF PlanCreate, At, WellFormed, Approving, Executing
    <2> QED
      BY <1>2, <2>1, <2>2 DEF PlanCreate
  <1>3. ASSUME NEW c \in Clients, PlanKeyTaken(c) PROVE TypeInv'
    BY <1>3, ReturnMoves DEF PlanKeyTaken, WellFormed, Idle, Approving, Executing
  <1>4. ASSUME NEW c \in Clients, NEW p \in Plans, NEW t \in Tokens,
               ApproveLoad(c, p, t)
        PROVE  TypeInv'
    <2>1. plan[p].status \in Statuses
      BY DEF PlanType
    <2>2. [Idle EXCEPT !.pc = "approving", !.plan = p, !.token = t,
                       !.was = plan[p].status] \in ReqType
      BY <2>1, IdleTyped DEF ReqType
    <2>3. req' \in [Clients -> ReqType]
      BY <1>4, <2>2 DEF ApproveLoad
    <2>4. WellFormed'
      BY <1>4 DEF ApproveLoad, WellFormed, Idle, Approving, Executing
    <2> QED
      BY <1>4, <2>3, <2>4 DEF ApproveLoad
  <1>5. ASSUME NEW c \in Clients, ApproveIssue(c) PROVE TypeInv'
    <2>1. req[c].plan \in Plans
      BY <1>5 DEF ApproveIssue, At, WellFormed
    <2>2. token' \in [Tokens -> TokenType]
      BY <1>5, <2>1 DEF ApproveIssue, TokenType
    <2>3. req' \in [Clients -> ReqType] /\ WellFormed'
      BY <1>5, GotoMoves DEF ApproveIssue, At, WellFormed, Approving, Executing
    <2> QED
      BY <1>5, <2>2, <2>3 DEF ApproveIssue
  <1>6. ASSUME NEW c \in Clients, ApproveSave(c) PROVE TypeInv'
    <2>1. plan' \in [Plans -> PlanType]
      <3>1. "approved" \in Statuses
        BY DEF Statuses
      <3>2. \/ plan' = [plan EXCEPT ![req[c].plan] =
                           [plan[req[c].plan] EXCEPT !.status = "approved"]]
            \/ plan' = plan
        BY <1>6 DEF ApproveSave
      <3> QED
        BY <3>1, <3>2, StatusTyped
    <2>2. req' \in [Clients -> ReqType] /\ WellFormed'
      BY <1>6, GotoMoves DEF ApproveSave, At, WellFormed, Approving, Executing
    <2> QED
      BY <1>6, <2>1, <2>2 DEF ApproveSave
  <1>7. ASSUME NEW c \in Clients, NEW p \in Plans, NEW t \in Tokens, NEW k \in Keys,
               ExecuteLookup(c, p, t, k)
        PROVE  TypeInv'
    <2>1. [Idle EXCEPT !.pc = "keyed", !.plan = p, !.token = t, !.key = k] \in ReqType
      BY IdleTyped DEF ReqType
    <2>2. req' \in [Clients -> ReqType]
      BY <1>7, <2>1 DEF ExecuteLookup
    <2>3. WellFormed'
      BY <1>7 DEF ExecuteLookup, WellFormed, Idle, Approving, Executing
    <2> QED
      BY <1>7, <2>2, <2>3 DEF ExecuteLookup
  <1>8. ASSUME NEW c \in Clients, ExecuteLoadPlan(c) PROVE TypeInv'
    <2>1. CASE Goto(c, "planned")
      BY <1>8, <2>1, GotoMoves
      DEF ExecuteLoadPlan, CheckOrReturn, At, WellFormed, Approving, Executing
    <2>2. CASE Return(c)
      BY <1>8, <2>2, ReturnMoves
      DEF ExecuteLoadPlan, CheckOrReturn, WellFormed, Idle, Approving, Executing
    <2> QED
      BY <1>8, <2>1, <2>2 DEF ExecuteLoadPlan, CheckOrReturn
  <1>9. ASSUME NEW c \in Clients, ExecuteCheckToken(c) PROVE TypeInv'
    <2>1. CASE Goto(c, "checked")
      BY <1>9, <2>1, GotoMoves
      DEF ExecuteCheckToken, CheckOrReturn, At, WellFormed, Approving, Executing
    <2>2. CASE Return(c)
      BY <1>9, <2>2, ReturnMoves
      DEF ExecuteCheckToken, CheckOrReturn, WellFormed, Idle, Approving, Executing
    <2> QED
      BY <1>9, <2>1, <2>2 DEF ExecuteCheckToken, CheckOrReturn
  <1>10. ASSUME NEW c \in Clients, ExecuteLoadResources(c) PROVE TypeInv'
    <2>1. plan[req[c].plan].findings \subseteq Findings
      BY <1>10 DEF ExecuteLoadResources, At, WellFormed, Executing, PlanType
    <2>2. Actionable(plan[req[c].plan].findings) \subseteq Actionable(Findings)
      BY <2>1 DEF Actionable
    <2>3. Actionable(plan[req[c].plan].findings) \in SUBSET Findings
      BY <2>1 DEF Actionable
    <2>4. req[c] \in ReqType /\ resource \in Snapshot
      BY DEF Snapshot
    <2>5. DEFINE new == [req[c] EXCEPT !.pc = "loaded", !.docs = resource,
                                       !.todo = Actionable(plan[req[c].plan].findings)]
    <2>6. new \in ReqType
      BY <2>3, <2>4 DEF ReqType
    <2>7. /\ new.pc = "loaded"
          /\ new.plan = req[c].plan
          /\ new.token = req[c].token
          /\ new.key = req[c].key
          /\ new.todo = Actionable(plan[req[c].plan].findings)
      BY <2>4 DEF ReqType
    <2>8. req' = [req EXCEPT ![c] = new]
      BY <1>10 DEF ExecuteLoadResources
    <2> HIDE DEF new
    <2>9. req' \in [Clients -> ReqType]
      BY <2>6, <2>8
    <2>10. WellFormed'
      BY <1>10, <2>2, <2>7, <2>8
      DEF ExecuteLoadResources, At, WellFormed, Approving, Executing
    <2> QED
      BY <1>10, <2>9, <2>10 DEF ExecuteLoadResources
  <1>11. ASSUME NEW c \in Clients, ExecuteMarkPlan(c) PROVE TypeInv'
    <2>1. plan' \in [Plans -> PlanType]
      <3>1. "executing" \in Statuses
        BY DEF Statuses
      <3> QED
        BY <1>11, <3>1, StatusTyped DEF ExecuteMarkPlan
    <2>2. req' \in [Clients -> ReqType] /\ WellFormed'
      BY <1>11, GotoMoves DEF ExecuteMarkPlan, At, WellFormed, Approving, Executing
    <2> QED
      BY <1>11, <2>1, <2>2 DEF ExecuteMarkPlan
  <1>12. ASSUME NEW c \in Clients, ExecuteUseToken(c) PROVE TypeInv'
    <2>1. token' \in [Tokens -> TokenType]
      BY <1>12 DEF ExecuteUseToken, TokenType
    <2>2. req' \in [Clients -> ReqType] /\ WellFormed'
      BY <1>12, GotoMoves DEF ExecuteUseToken, At, WellFormed, Approving, Executing
    <2> QED
      BY <1>12, <2>1, <2>2 DEF ExecuteUseToken
  <1>13. ASSUME NEW c \in Clients, NEW f \in Findings, ExecuteAction(c, f)
         PROVE  TypeInv'
    <2>1. f \in Actionable(Findings)
      BY <1>13 DEF ExecuteAction, At, WellFormed
    <2>2. resource' \in [Resources -> Content]
      BY <1>13, <2>1, ActionStores
    <2>3. req' \in [Clients -> ReqType] /\ WellFormed'
      <3>1. At(c, "applying")
        BY <1>13 DEF ExecuteAction
      <3> QED
        BY <1>13, <2>1, <3>1, ActionMoves DEF At, WellFormed, Approving, Executing
    <2>4. UNCHANGED <<plan, token, record, audit, faults>>
      BY <1>13 DEF ExecuteAction
    <2> QED
      BY <2>2, <2>3, <2>4
  <1>14. ASSUME NEW c \in Clients, ExecuteRecord(c) PROVE TypeInv'
    <2>1. CASE Recorded(req[c].key)
      BY <1>14, <2>1, ReturnMoves
      DEF ExecuteRecord, WellFormed, Idle, Approving, Executing
    <2>2. CASE ~Recorded(req[c].key)
      <3>1. req[c] \in ReqType
        OBVIOUS
      <3>2. [plan |-> req[c].plan, token |-> req[c].token,
             beforeState |-> req[c].beforeState,
             afterState |-> req[c].afterState] \in RecordType
        BY <3>1 DEF ReqType, RecordType
      <3>3. record' \in [Keys -> RecordType]
        BY <1>14, <2>2, <3>2 DEF ExecuteRecord
      <3>4. req' \in [Clients -> ReqType] /\ WellFormed'
        BY <1>14, <2>2, GotoMoves
        DEF ExecuteRecord, At, WellFormed, Approving, Executing
      <3> QED
        BY <1>14, <3>3, <3>4 DEF ExecuteRecord
    <2> QED
      BY <2>1, <2>2
  <1>15. ASSUME NEW c \in Clients, ExecuteComplete(c) PROVE TypeInv'
    <2>1. plan' \in [Plans -> PlanType]
      <3>1. "completed" \in Statuses
        BY DEF Statuses
      <3> QED
        BY <1>15, <3>1, StatusTyped DEF ExecuteComplete
    <2>2. req' \in [Clients -> ReqType] /\ WellFormed'
      BY <1>15, GotoMoves DEF ExecuteComplete, At, WellFormed, Approving, Executing
    <2> QED
      BY <1>15, <2>1, <2>2 DEF ExecuteComplete
  <1>16. ASSUME NEW c \in Clients, Audit(c) PROVE TypeInv'
    <2>1. /\ At(c, "created") => req[c].plan \in Plans
          /\ At(c, "approved") => req[c].token \in Tokens
          /\ At(c, "executed") => req[c].key \in Keys
      BY DEF At, WellFormed, Approving, Executing
    <2>2. audit' \in AuditType
      BY <1>16, <2>1 DEF Audit, At, AuditType
    <2> QED
      BY <1>16, <2>2, ReturnMoves
      DEF Audit, WellFormed, Idle, Approving, Executing
  <1>17. ASSUME NEW c \in Clients, Abort(c) PROVE TypeInv'
    <2>1. faults' \in 0 .. MaxFaults
      BY <1>17, BoundAssumption DEF Abort
    <2> QED
      BY <1>17, <2>1, ReturnMoves
      DEF Abort, WellFormed, Idle, Approving, Executing
  <1>18. ASSUME NEW t \in Tokens, Expire(t) PROVE TypeInv'
    BY <1>18 DEF Expire, TokenType, WellFormed
  <1>19. ASSUME NEW r \in Resources, Sync(r) PROVE TypeInv'
    BY <1>19, CleanTyped DEF Sync, WellFormed
  <1>20. CASE UNCHANGED vars
    BY <1>20 DEF vars, WellFormed
  <1> QED
    BY <1>1, <1>2, <1>3, <1>4, <1>5, <1>6, <1>7, <1>8, <1>9, <1>10, <1>11, <1>12,
       <1>13, <1>14, <1>15, <1>16, <1>17, <1>18, <1>19, <1>20
    DEF Next, CreatePlanStep, ApproveStep, ExecuteStep

\* Every document, request and audit event is well typed, whatever requests
\* overlap or break off.
THEOREM TypeCorrect == Spec => []TypeOK
  <1>1. Init => TypeInv
    BY InitTypeInv
  <1>2. TypeInv /\ [Next]_vars => TypeInv'
    BY NextTypeInv
  <1>3. TypeInv => TypeOK
    BY DEF TypeInv
  <1> QED
    BY <1>1, <1>2, <1>3, PTL DEF Spec

-----------------------------------------------------------------------------
(* Part 1: whatever requests overlap.                                      *)

\* The token of an approval that has not inserted it is its own.
Reserved ==
    \A c \in Clients : req[c].pc = "approving" =>
        /\ ~Issued(req[c].token)
        /\ \A d \in Clients \ {c} : req[d].token # req[c].token

\* What a request has behind it is in the collections.
Grounded ==
    \A c \in Clients :
        /\ req[c].pc \in {"issued", "approved", "checked", "loaded", "marked",
                         "applying", "recorded", "executed"} =>
              token[req[c].token].plan = req[c].plan
        /\ req[c].pc \in {"applying", "recorded", "executed"} =>
              token[req[c].token].used
        /\ req[c].pc \in {"recorded", "executed"} =>
              record[req[c].key].plan = req[c].plan

RecordsNameTokens ==
    \A k \in Keys : Recorded(k) => record[k].token \in Tokens

Inv ==
    /\ TypeInv
    /\ Reserved
    /\ Grounded
    /\ RecordsNameTokens
    /\ ApprovedHasToken
    /\ CompletedIsRecorded
    /\ RecordedUsedItsToken

\* No step takes back a token, its use, or a record.
LEMMA Monotone ==
  ASSUME TypeInv, Reserved, Next
  PROVE  /\ \A t \in Tokens : Issued(t) =>
               /\ token'[t].plan = token[t].plan
               /\ token[t].used => token'[t].used
         /\ \A k \in Keys : Recorded(k) => record'[k] = record[k]
  <1> DEFINE Kept == /\ \A t \in Tokens : Issued(t) =>
                           /\ token'[t].plan = token[t].plan
                           /\ token[t].used => token'[t].used
                     /\ \A k \in Keys : Recorded(k) => record'[k] = record[k]
  <1> USE DEF TypeInv, TypeOK
  <1>1. ASSUME NEW c \in Clients, CreatePlanStep(c) PROVE Kept
    BY <1>1 DEF CreatePlanStep, PlanLookup, PlanCreate, PlanKeyTaken
  <1>2. ASSUME NEW c \in Clients, ApproveStep(c) PROVE Kept
    <2>1. CASE ApproveIssue(c)
      BY <2>1 DEF ApproveIssue, At, Reserved
    <2>2. CASE ~ApproveIssue(c)
      BY <1>2, <2>2 DEF ApproveStep, ApproveLoad, ApproveSave
    <2> QED
      BY <2>1, <2>2
  <1>3. ASSUME NEW c \in Clients, ExecuteStep(c) PROVE Kept
    <2>1. CASE ExecuteUseToken(c)
      BY <2>1 DEF ExecuteUseToken, TokenType
    <2>2. CASE ExecuteRecord(c)
      BY <2>2 DEF ExecuteRecord
    <2>3. ASSUME NEW f \in Findings, ExecuteAction(c, f) PROVE Kept
      BY <2>3 DEF ExecuteAction
    <2>4. CASE ExecuteLoadPlan(c) \/ ExecuteCheckToken(c) \/ ExecuteLoadResources(c)
      BY <2>4 DEF ExecuteLoadPlan, ExecuteCheckToken, CheckOrReturn, ExecuteLoadResources
    <2>5. CASE ExecuteMarkPlan(c) \/ ExecuteComplete(c)
      BY <2>5 DEF ExecuteMarkPlan, ExecuteComplete
    <2>6. ASSUME NEW p \in Plans, NEW t \in Tokens, NEW k \in Keys,
                 ExecuteLookup(c, p, t, k)
          PROVE  Kept
      BY <2>6 DEF ExecuteLookup
    <2> QED
      BY <1>3, <2>1, <2>2, <2>3, <2>4, <2>5, <2>6 DEF ExecuteStep
  <1>4. ASSUME NEW c \in Clients, Audit(c) \/ Abort(c) PROVE Kept
    BY <1>4 DEF Audit, Abort
  <1>5. ASSUME NEW t \in Tokens, Expire(t) PROVE Kept
    BY <1>5 DEF Expire, TokenType
  <1>6. ASSUME NEW r \in Resources, Sync(r) PROVE Kept
    BY <1>6 DEF Sync
  <1> QED
    BY <1>1, <1>2, <1>3, <1>4, <1>5, <1>6 DEF Next

LEMMA InitInv == Init => Inv
  <1> SUFFICES ASSUME Init PROVE Inv
    OBVIOUS
  <1>1. TypeInv
    BY InitTypeInv
  <1> QED
    BY <1>1 DEF Init, Inv, Reserved, Grounded, RecordsNameTokens, ApprovedHasToken,
                CompletedIsRecorded, RecordedUsedItsToken, Idle, NoPlan, NoToken,
                NoRecord, Recorded

\* What a step makes of the requests, whichever it is: one request, if any,
\* starts, ends, or goes on about the same plan with the same token and key.
Starts(c) ==
    \/ \E p \in Plans : \E input \in PlanInputs[p] :
          PlanLookup(c, p, input) /\ req'[c].pc = "planning"
            /\ req'[c].plan = p /\ req'[c].token = Null
    \/ \E p \in Plans, t \in Tokens :
          ApproveLoad(c, p, t) /\ req'[c].pc = "approving"
            /\ req'[c].plan = p /\ req'[c].token = t /\ req'[c].was = plan[p].status
    \/ \E p \in Plans, t \in Tokens, k \in Keys :
          ExecuteLookup(c, p, t, k) /\ req'[c].pc = "keyed"
            /\ req'[c].plan = p /\ req'[c].token = t /\ req'[c].key = k

GoesOn(c) ==
    /\ req'[c].plan = req[c].plan
    /\ req'[c].key = req[c].key
    /\ req'[c].token = req[c].token
    /\ req'[c].was = req[c].was
    /\ \/ PlanCreate(c) /\ req'[c].pc = "created"
       \/ ApproveIssue(c) /\ req'[c].pc = "issued"
       \/ ApproveSave(c) /\ req'[c].pc = "approved"
       \/ /\ ExecuteLoadPlan(c) /\ req'[c].pc = "planned"
          /\ plan[req[c].plan].status = "approved"
       \/ ExecuteCheckToken(c) /\ req'[c].pc = "checked" /\ Accepts(c)
       \/ ExecuteLoadResources(c) /\ req'[c].pc = "loaded"
       \/ ExecuteMarkPlan(c) /\ req'[c].pc = "marked"
       \/ ExecuteUseToken(c) /\ req'[c].pc = "applying"
       \/ \E f \in Findings : ExecuteAction(c, f) /\ req'[c].pc = "applying"
       \/ ExecuteRecord(c) /\ req'[c].pc = "recorded" /\ ~Recorded(req[c].key)
       \/ ExecuteComplete(c) /\ req'[c].pc = "executed"

Ends(c) ==
    /\ req'[c] = Idle
    /\ UNCHANGED <<plan, token, record, resource>>

LEMMA StepsOfRequests ==
  ASSUME TypeInv, Next
  PROVE  \/ \E c \in Clients :
               /\ Starts(c) \/ GoesOn(c) \/ Ends(c)
               /\ \A d \in Clients \ {c} : req'[d] = req[d]
         \/ (\E t \in Tokens : Expire(t)) \/ (\E r \in Resources : Sync(r))
  <1> DEFINE Step(c) == /\ Starts(c) \/ GoesOn(c) \/ Ends(c)
                        /\ \A d \in Clients \ {c} : req'[d] = req[d]
  <1> USE DEF TypeInv, TypeOK
  <1>1. ASSUME NEW c \in Clients, NEW p \in Plans, NEW input \in PlanInputs[p],
               PlanLookup(c, p, input)
        PROVE  Step(c)
    <2>1. req'[c].pc = "planning" /\ req'[c].plan = p /\ req'[c].token = Null
      BY <1>1 DEF PlanLookup, Idle
    <2>2. \A d \in Clients \ {c} : req'[d] = req[d]
      BY <1>1 DEF PlanLookup
    <2> QED
      BY <1>1, <2>1, <2>2 DEF Starts
  <1>2. ASSUME NEW c \in Clients, NEW p \in Plans, NEW t \in Tokens,
               ApproveLoad(c, p, t)
        PROVE  Step(c)
    <2>1. /\ req'[c].pc = "approving" /\ req'[c].plan = p /\ req'[c].token = t
          /\ req'[c].was = plan[p].status
      BY <1>2 DEF ApproveLoad, Idle
    <2>2. \A d \in Clients \ {c} : req'[d] = req[d]
      BY <1>2 DEF ApproveLoad
    <2> QED
      BY <1>2, <2>1, <2>2 DEF Starts
  <1>3. ASSUME NEW c \in Clients, NEW p \in Plans, NEW t \in Tokens, NEW k \in Keys,
               ExecuteLookup(c, p, t, k)
        PROVE  Step(c)
    <2>1. /\ req'[c].pc = "keyed" /\ req'[c].plan = p /\ req'[c].token = t
          /\ req'[c].key = k
      BY <1>3 DEF ExecuteLookup, Idle
    <2>2. \A d \in Clients \ {c} : req'[d] = req[d]
      BY <1>3 DEF ExecuteLookup
    <2> QED
      BY <1>3, <2>1, <2>2 DEF Starts
  <1>4. ASSUME NEW c \in Clients, PlanCreate(c) PROVE Step(c)
    BY <1>4, GotoMoves DEF PlanCreate, GoesOn
  <1>5. ASSUME NEW c \in Clients, PlanKeyTaken(c) PROVE Step(c)
    BY <1>5, ReturnMoves DEF PlanKeyTaken, Ends
  <1>6. ASSUME NEW c \in Clients, ApproveIssue(c) PROVE Step(c)
    BY <1>6, GotoMoves DEF ApproveIssue, GoesOn
  <1>7. ASSUME NEW c \in Clients, ApproveSave(c) PROVE Step(c)
    BY <1>7, GotoMoves DEF ApproveSave, GoesOn
  <1>8. ASSUME NEW c \in Clients, ExecuteLoadPlan(c) PROVE Step(c)
    <2>1. CASE plan[req[c].plan].status = "approved"
      BY <1>8, <2>1, GotoMoves DEF ExecuteLoadPlan, CheckOrReturn, GoesOn
    <2>2. CASE plan[req[c].plan].status # "approved"
      BY <1>8, <2>2, ReturnMoves DEF ExecuteLoadPlan, CheckOrReturn, Ends
    <2> QED
      BY <2>1, <2>2
  <1>9. ASSUME NEW c \in Clients, ExecuteCheckToken(c) PROVE Step(c)
    <2>1. CASE Accepts(c)
      BY <1>9, <2>1, GotoMoves DEF ExecuteCheckToken, CheckOrReturn, GoesOn
    <2>2. CASE ~Accepts(c)
      BY <1>9, <2>2, ReturnMoves DEF ExecuteCheckToken, CheckOrReturn, Ends
    <2> QED
      BY <2>1, <2>2
  <1>10. ASSUME NEW c \in Clients, ExecuteLoadResources(c) PROVE Step(c)
    <2>1. req[c] \in ReqType
      OBVIOUS
    <2>2. /\ req'[c] = [req[c] EXCEPT !.pc = "loaded", !.docs = resource,
                             !.todo = Actionable(plan[req[c].plan].findings)]
          /\ \A d \in Clients \ {c} : req'[d] = req[d]
      BY <1>10 DEF ExecuteLoadResources
    <2> QED
      BY <1>10, <2>1, <2>2 DEF GoesOn, ReqType
  <1>11. ASSUME NEW c \in Clients, ExecuteMarkPlan(c) PROVE Step(c)
    BY <1>11, GotoMoves DEF ExecuteMarkPlan, GoesOn
  <1>12. ASSUME NEW c \in Clients, ExecuteUseToken(c) PROVE Step(c)
    BY <1>12, GotoMoves DEF ExecuteUseToken, GoesOn
  <1>13. ASSUME NEW c \in Clients, NEW f \in Findings, ExecuteAction(c, f) PROVE Step(c)
    <2>1. f \in Actionable(Findings)
      BY <1>13 DEF ExecuteAction, At, WellFormed
    <2> QED
      BY <1>13, <2>1, ActionMoves DEF GoesOn
  <1>14. ASSUME NEW c \in Clients, ExecuteRecord(c) PROVE Step(c)
    <2>1. CASE Recorded(req[c].key)
      BY <1>14, <2>1, ReturnMoves DEF ExecuteRecord, Ends
    <2>2. CASE ~Recorded(req[c].key)
      BY <1>14, <2>2, GotoMoves DEF ExecuteRecord, GoesOn
    <2> QED
      BY <2>1, <2>2
  <1>15. ASSUME NEW c \in Clients, ExecuteComplete(c) PROVE Step(c)
    BY <1>15, GotoMoves DEF ExecuteComplete, GoesOn
  <1>16. ASSUME NEW c \in Clients, Audit(c) PROVE Step(c)
    BY <1>16, ReturnMoves DEF Audit, Ends
  <1>17. ASSUME NEW c \in Clients, Abort(c) PROVE Step(c)
    BY <1>17, ReturnMoves DEF Abort, Ends
  <1> QED
    BY <1>1, <1>2, <1>3, <1>4, <1>5, <1>6, <1>7, <1>8, <1>9, <1>10, <1>11, <1>12,
       <1>13, <1>14, <1>15, <1>16, <1>17
    DEF Next, CreatePlanStep, ApproveStep, ExecuteStep

LEMMA NextReserved ==
  ASSUME TypeInv, Reserved, Next
  PROVE  Reserved'
  <1> USE NullAssumption DEF TypeInv, TypeOK
  <1>1. \A c \in Clients : req[c].pc = "approving" => req[c].token \in Tokens
    BY DEF WellFormed, Approving
  <1>2. ASSUME NEW c \in Clients, Starts(c) \/ GoesOn(c) \/ Ends(c),
               \A d \in Clients \ {c} : req'[d] = req[d]
        PROVE  Reserved'
    <2>1. ASSUME NEW p \in Plans, NEW input \in PlanInputs[p],
                 PlanLookup(c, p, input), req'[c].pc = "planning", req'[c].token = Null
          PROVE  Reserved'
      BY <1>1, <1>2, <2>1 DEF PlanLookup, Reserved, Issued
    <2>2. ASSUME NEW p \in Plans, NEW t \in Tokens, ApproveLoad(c, p, t),
                 req'[c].token = t
          PROVE  Reserved'
      BY <1>2, <2>2 DEF ApproveLoad, Reserved, Issued
    <2>3. ASSUME NEW p \in Plans, NEW t \in Tokens, NEW k \in Keys,
                 ExecuteLookup(c, p, t, k), req'[c].pc = "keyed", req'[c].token = t
          PROVE  Reserved'
      BY <1>2, <2>3 DEF ExecuteLookup, Reserved, Issued
    <2>4. CASE GoesOn(c)
      <3>1. req'[c].pc # "approving" /\ req'[c].token = req[c].token
        BY <2>4 DEF GoesOn
      <3>2. \A t \in Tokens : Issued(t)' => Issued(t) \/ (ApproveIssue(c) /\ t = req[c].token)
        <4>1. CASE ApproveIssue(c)
          BY <4>1 DEF ApproveIssue, Issued
        <4>2. CASE ExecuteUseToken(c)
          BY <4>2 DEF ExecuteUseToken, Issued, TokenType
        <4>3. CASE ~ApproveIssue(c) /\ ~ExecuteUseToken(c)
          <5>1. token' = token
            BY <2>4, <4>3 DEF GoesOn, PlanCreate, ApproveSave, ExecuteLoadPlan,
                 ExecuteCheckToken, CheckOrReturn, ExecuteLoadResources,
                 ExecuteMarkPlan, ExecuteAction, ExecuteRecord, ExecuteComplete
          <5> QED
            BY <5>1 DEF Issued
        <4> QED
          BY <4>1, <4>2, <4>3
      <3>3. ApproveIssue(c) => req[c].pc = "approving"
        BY DEF ApproveIssue, At
      <3> QED
        BY <1>1, <1>2, <3>1, <3>2, <3>3 DEF Reserved
    <2>5. CASE Ends(c)
      BY <1>1, <1>2, <2>5 DEF Ends, Reserved, Issued, Idle
    <2> QED
      BY <1>2, <2>1, <2>2, <2>3, <2>4, <2>5 DEF Starts
  <1>3. ASSUME NEW t \in Tokens, Expire(t) PROVE Reserved'
    BY <1>1, <1>3 DEF Expire, Reserved, Issued, TokenType
  <1>4. ASSUME NEW r \in Resources, Sync(r) PROVE Reserved'
    BY <1>4 DEF Sync, Reserved, Issued
  <1> QED
    BY <1>2, <1>3, <1>4, StepsOfRequests

LEMMA NextGrounded ==
  ASSUME TypeInv, Reserved, Grounded, Next
  PROVE  Grounded'
  <1> USE NullAssumption DEF TypeInv, TypeOK
  <1> DEFINE HasToken(c) == token[req[c].token].plan = req[c].plan
             HasUsed(c) == token[req[c].token].used
             HasRecord(c) == record[req[c].key].plan = req[c].plan
  <1>1. /\ \A t \in Tokens : token[t].plan # Null =>
             /\ token'[t].plan = token[t].plan
             /\ token[t].used => token'[t].used
        /\ \A k \in Keys : record[k].plan # Null => record'[k] = record[k]
    BY Monotone DEF Issued, Recorded
  <1>2. ASSUME NEW c \in Clients, req'[c].plan = req[c].plan,
               req'[c].token = req[c].token, req'[c].key = req[c].key
        PROVE  /\ req[c].pc \in {"issued", "approved", "checked", "loaded", "marked",
                         "applying", "recorded", "executed"} => HasToken(c)'
               /\ req[c].pc \in {"applying", "recorded", "executed"} => HasUsed(c)'
               /\ req[c].pc \in {"recorded", "executed"} => HasRecord(c)'
    <2>1. /\ req[c].pc # "idle" => req[c].plan # Null
          /\ req[c].pc \in Approving \cup Executing => req[c].token \in Tokens
          /\ req[c].pc \in Executing => req[c].key \in Keys
      BY DEF WellFormed
    <2> QED
      BY <1>1, <1>2, <2>1 DEF Grounded, Approving, Executing
  <1>3. ASSUME NEW c \in Clients, Starts(c) \/ GoesOn(c) \/ Ends(c),
               \A d \in Clients \ {c} : req'[d] = req[d]
        PROVE  Grounded'
    <2>1. \A d \in Clients \ {c} :
             /\ req[d].pc \in {"issued", "approved", "checked", "loaded", "marked",
                         "applying", "recorded", "executed"} => HasToken(d)'
             /\ req[d].pc \in {"applying", "recorded", "executed"} => HasUsed(d)'
             /\ req[d].pc \in {"recorded", "executed"} => HasRecord(d)'
      BY <1>2, <1>3
    <2>2. SUFFICES
             /\ req'[c].pc \in {"issued", "approved", "checked", "loaded", "marked",
                         "applying", "recorded", "executed"} => HasToken(c)'
             /\ req'[c].pc \in {"applying", "recorded", "executed"} => HasUsed(c)'
             /\ req'[c].pc \in {"recorded", "executed"} => HasRecord(c)'
      BY <1>3, <2>1 DEF Grounded
    <2>3. CASE Starts(c)
      BY <2>3 DEF Starts
    <2>4. CASE Ends(c)
      BY <2>4 DEF Ends, Idle
    <2>5. CASE GoesOn(c)
      <3>0. /\ req'[c].plan = req[c].plan /\ req'[c].token = req[c].token
            /\ req'[c].key = req[c].key
        BY <2>5 DEF GoesOn
      <3>1. CASE ApproveIssue(c)
        <4>1. req[c].token \in Tokens
          BY <3>1 DEF ApproveIssue, At, WellFormed, Approving
        <4>2. token'[req[c].token].plan = req[c].plan /\ req'[c].pc = "issued"
          BY <2>5, <3>1, <4>1, GotoMoves DEF ApproveIssue
        <4> QED
          BY <3>0, <4>2
      <3>2. CASE ExecuteCheckToken(c) /\ Accepts(c)
        <4>1. req'[c].pc = "checked" /\ token' = token
          BY <2>5, <3>2, GotoMoves DEF ExecuteCheckToken, CheckOrReturn
        <4> QED
          BY <3>0, <3>2, <4>1 DEF Accepts
      <3>3. CASE ExecuteUseToken(c)
        <4>1. req[c].token \in Tokens /\ req[c].pc = "marked"
          BY <3>3 DEF ExecuteUseToken, At, WellFormed, Executing
        <4>2. token'[req[c].token].used /\ req'[c].pc = "applying"
          BY <3>3, <4>1, GotoMoves DEF ExecuteUseToken, TokenType
        <4> QED
          BY <1>2, <3>0, <4>1, <4>2
      <3>4. CASE ExecuteRecord(c) /\ ~Recorded(req[c].key)
        <4>1. req[c].key \in Keys /\ req[c].pc = "applying"
          BY <3>4 DEF ExecuteRecord, At, WellFormed, Executing
        <4>2. record'[req[c].key].plan = req[c].plan /\ req'[c].pc = "recorded"
          BY <3>4, <4>1, GotoMoves DEF ExecuteRecord
        <4> QED
          BY <1>2, <3>0, <4>1, <4>2
      <3>5. CASE \/ PlanCreate(c) /\ req'[c].pc = "created"
                 \/ ExecuteLoadPlan(c) /\ req'[c].pc = "planned"
        BY <3>5
      <3>6. CASE \/ ApproveSave(c) /\ req'[c].pc = "approved"
                 \/ ExecuteLoadResources(c) /\ req'[c].pc = "loaded"
                 \/ ExecuteMarkPlan(c) /\ req'[c].pc = "marked"
        BY <1>2, <3>0, <3>6 DEF ApproveSave, ExecuteLoadResources, ExecuteMarkPlan, At
      <3>7. ASSUME NEW f \in Findings, ExecuteAction(c, f), req'[c].pc = "applying"
            PROVE  /\ req'[c].pc = "applying"
                   /\ HasToken(c)' /\ HasUsed(c)'
        BY <1>2, <3>0, <3>7 DEF ExecuteAction, At
      <3>8. CASE ExecuteComplete(c) /\ req'[c].pc = "executed"
        BY <1>2, <3>0, <3>8 DEF ExecuteComplete, At
      <3> QED
        BY <2>5, <3>1, <3>2, <3>3, <3>4, <3>5, <3>6, <3>7, <3>8 DEF GoesOn
    <2> QED
      BY <1>3, <2>3, <2>4, <2>5
  <1>4. ASSUME req' = req PROVE Grounded'
    BY <1>2, <1>4 DEF Grounded
  <1> QED
    BY <1>3, <1>4, StepsOfRequests DEF Expire, Sync

\* Only four calls write a plan, and only one a record.
LEMMA PlanWrites ==
  ASSUME TypeInv, Next
  PROVE  \/ plan' = plan
         \/ \E c \in Clients :
               \/ PlanCreate(c)
               \/ ApproveSave(c)
               \/ ExecuteMarkPlan(c)
               \/ ExecuteComplete(c)
  <1>1. ASSUME NEW c \in Clients, Starts(c) PROVE plan' = plan
    BY <1>1 DEF Starts, PlanLookup, ApproveLoad, ExecuteLookup
  <1>2. ASSUME NEW c \in Clients, GoesOn(c)
        PROVE  \/ plan' = plan \/ PlanCreate(c) \/ ApproveSave(c)
               \/ ExecuteMarkPlan(c) \/ ExecuteComplete(c)
    BY <1>2
    DEF GoesOn, ApproveIssue, ExecuteLoadPlan, ExecuteCheckToken, CheckOrReturn,
        ExecuteLoadResources, ExecuteUseToken, ExecuteAction, ExecuteRecord
  <1>3. ASSUME NEW c \in Clients, Ends(c) PROVE plan' = plan
    BY <1>3 DEF Ends
  <1>4. ASSUME NEW t \in Tokens, Expire(t) PROVE plan' = plan
    BY <1>4 DEF Expire
  <1>5. ASSUME NEW r \in Resources, Sync(r) PROVE plan' = plan
    BY <1>5 DEF Sync
  <1> QED
    BY <1>1, <1>2, <1>3, <1>4, <1>5, StepsOfRequests

LEMMA RecordWrites ==
  ASSUME TypeInv, Next
  PROVE  record' = record \/ \E c \in Clients : ExecuteRecord(c) /\ ~Recorded(req[c].key)
  <1>1. ASSUME NEW c \in Clients, Starts(c) PROVE record' = record
    BY <1>1 DEF Starts, PlanLookup, ApproveLoad, ExecuteLookup
  <1>2. ASSUME NEW c \in Clients, GoesOn(c)
        PROVE  record' = record \/ (ExecuteRecord(c) /\ ~Recorded(req[c].key))
    BY <1>2
    DEF GoesOn, PlanCreate, ApproveIssue, ApproveSave, ExecuteLoadPlan,
        ExecuteCheckToken, CheckOrReturn, ExecuteLoadResources, ExecuteMarkPlan,
        ExecuteUseToken, ExecuteAction, ExecuteComplete
  <1>3. ASSUME NEW c \in Clients, Ends(c) PROVE record' = record
    BY <1>3 DEF Ends
  <1>4. ASSUME NEW t \in Tokens, Expire(t) PROVE record' = record
    BY <1>4 DEF Expire
  <1>5. ASSUME NEW r \in Resources, Sync(r) PROVE record' = record
    BY <1>5 DEF Sync
  <1> QED
    BY <1>1, <1>2, <1>3, <1>4, <1>5, StepsOfRequests

LEMMA NextInv == Inv /\ [Next]_vars => Inv'
  <1> SUFFICES ASSUME Inv, Next PROVE Inv'
    <2>1. ASSUME Inv, UNCHANGED vars PROVE Inv'
      BY <2>1 DEF Inv, TypeInv, TypeOK, WellFormed, Reserved, Grounded, RecordsNameTokens,
           ApprovedHasToken, CompletedIsRecorded, RecordedUsedItsToken, Issued,
           Recorded, vars
    <2> QED
      BY <2>1
  <1> USE NullAssumption
  <1>1. TypeInv /\ TypeInv'
    BY NextTypeInv DEF Inv
  <1>2. Reserved' /\ Grounded'
    BY NextReserved, NextGrounded DEF Inv
  <1>3. /\ \A t \in Tokens : Issued(t) =>
             /\ token'[t].plan = token[t].plan
             /\ token[t].used => token'[t].used
        /\ \A k \in Keys : Recorded(k) => record'[k] = record[k]
    BY Monotone DEF Inv
  <1>4. ASSUME NEW c \in Clients, ExecuteRecord(c), ~Recorded(req[c].key)
        PROVE  /\ req[c].token \in Tokens /\ req[c].plan \in Plans /\ req[c].key \in Keys
               /\ token[req[c].token].plan = req[c].plan /\ token[req[c].token].used
               /\ record'[req[c].key].plan = req[c].plan
               /\ record'[req[c].key].token = req[c].token
               /\ \A k \in Keys \ {req[c].key} : record'[k] = record[k]
    <2>1. req[c].token \in Tokens /\ req[c].plan \in Plans /\ req[c].key \in Keys
      BY <1>4 DEF ExecuteRecord, At, Inv, TypeInv, WellFormed, Executing
    <2>2. token[req[c].token].plan = req[c].plan /\ token[req[c].token].used
      BY <1>4 DEF ExecuteRecord, At, Inv, Grounded
    <2>3. record' = [record EXCEPT ![req[c].key] =
                       [plan |-> req[c].plan, token |-> req[c].token,
                        beforeState |-> req[c].beforeState,
                        afterState |-> req[c].afterState]]
      BY <1>4 DEF ExecuteRecord
    <2> QED
      BY <1>1, <2>1, <2>2, <2>3 DEF TypeInv, TypeOK
  <1>5. RecordsNameTokens' /\ RecordedUsedItsToken'
    <2>1. ASSUME NEW k \in Keys, Recorded(k)
          PROVE  /\ record'[k].token \in Tokens
                 /\ token'[record'[k].token].plan = record'[k].plan
                 /\ token'[record'[k].token].used
      BY <1>3, <2>1 DEF Inv, RecordsNameTokens, RecordedUsedItsToken, Recorded, Issued
    <2>2. ASSUME NEW k \in Keys, ~Recorded(k), Recorded(k)'
          PROVE  /\ record'[k].token \in Tokens
                 /\ token'[record'[k].token].plan = record'[k].plan
                 /\ token'[record'[k].token].used
      <3>1. PICK c \in Clients : ExecuteRecord(c) /\ ~Recorded(req[c].key)
        BY <1>1, <2>2, RecordWrites DEF Recorded
      <3>2. k = req[c].key
        BY <1>4, <2>2, <3>1 DEF Recorded
      <3>3. record'[k].plan = req[c].plan /\ record'[k].token = req[c].token
        BY <1>4, <3>1, <3>2
      <3>4. Issued(req[c].token)
        BY <1>4, <3>1 DEF Issued
      <3> QED
        BY <1>3, <1>4, <3>1, <3>3, <3>4
    <2> QED
      BY <2>1, <2>2 DEF RecordsNameTokens, RecordedUsedItsToken
  <1>6. ApprovedHasToken'
    <2> SUFFICES ASSUME NEW p \in Plans, plan'[p].status = "approved"
                 PROVE  \E t \in Tokens : token'[t].plan = p
      BY DEF ApprovedHasToken
    <2>1. CASE \E t \in Tokens : token[t].plan = p
      BY <1>3, <2>1 DEF Issued
    <2>2. CASE plan[p].status # "approved"
      <3>1. PICK c \in Clients : \/ PlanCreate(c) \/ ApproveSave(c)
                                 \/ ExecuteMarkPlan(c) \/ ExecuteComplete(c)
        BY <1>1, <2>2, PlanWrites
      <3>2. ApproveSave(c) /\ req[c].plan = p
        BY <1>1, <2>2, <3>1
        DEF PlanCreate, ApproveSave, ExecuteMarkPlan, ExecuteComplete, TypeInv, TypeOK,
            PlanType
      <3>3. req[c].token \in Tokens /\ token[req[c].token].plan = p
        BY <3>2 DEF ApproveSave, At, Inv, TypeInv, WellFormed, Approving, Grounded
      <3> QED
        BY <2>1, <3>3
    <2> QED
      BY <2>1, <2>2 DEF Inv, ApprovedHasToken
  <1>7. CompletedIsRecorded'
    <2> SUFFICES ASSUME NEW p \in Plans, plan'[p].status = "completed"
                 PROVE  \E k \in Keys : record'[k].plan = p
      BY DEF CompletedIsRecorded
    <2>1. CASE \E k \in Keys : record[k].plan = p
      BY <1>3, <2>1 DEF Recorded
    <2>2. CASE plan[p].status # "completed"
      <3>1. PICK c \in Clients : \/ PlanCreate(c) \/ ApproveSave(c)
                                 \/ ExecuteMarkPlan(c) \/ ExecuteComplete(c)
        BY <1>1, <2>2, PlanWrites
      <3>2. ExecuteComplete(c) /\ req[c].plan = p
        BY <1>1, <2>2, <3>1
        DEF PlanCreate, ApproveSave, ExecuteMarkPlan, ExecuteComplete, TypeInv, TypeOK,
            PlanType
      <3>3. req[c].key \in Keys /\ record[req[c].key].plan = p
        BY <3>2 DEF ExecuteComplete, At, Inv, TypeInv, WellFormed, Executing, Grounded
      <3> QED
        BY <2>1, <3>3
    <2> QED
      BY <2>1, <2>2 DEF Inv, CompletedIsRecorded
  <1> QED
    BY <1>1, <1>2, <1>5, <1>6, <1>7 DEF Inv

LEMMA SpecInv == Spec => []Inv
  BY InitInv, NextInv, PTL DEF Spec

\* approve creates the token before it saves the plan: an approved plan has a
\* token document, wherever its requests break off.
THEOREM ApprovedPlansHaveTokens == Spec => []ApprovedHasToken
  <1>1. Inv => ApprovedHasToken
    BY DEF Inv
  <1> QED
    BY <1>1, SpecInv, PTL

\* execute stores its record before it completes the plan: a completed plan
\* has a record of its own.
THEOREM CompletedPlansAreRecorded == Spec => []CompletedIsRecorded
  <1>1. Inv => CompletedIsRecorded
    BY DEF Inv
  <1> QED
    BY <1>1, SpecInv, PTL

\* execute stores a token as used before it applies an action under it: the
\* token of a record is one of its own plan, and opens no later request.
THEOREM RecordsUseTheirTokens == Spec => []RecordedUsedItsToken
  <1>1. Inv => RecordedUsedItsToken
    BY DEF Inv
  <1> QED
    BY <1>1, SpecInv, PTL

\* The unique index keeps a record as the first execution with its key wrote
\* it: a replay returns the original.
THEOREM RecordsAreNeverReplaced == Spec => RecordsAreFinal
  <1>1. Inv /\ [Next]_vars =>
           [\A k \in Keys : Recorded(k) => record'[k] = record[k]]_vars
    BY Monotone DEF Inv
  <1> QED
    BY <1>1, SpecInv, PTL DEF Spec, RecordsAreFinal

-----------------------------------------------------------------------------
(* Part 2: plans whose own approvals and executions do not overlap.        *)

WorksOn(c, p) == req[c].plan = p /\ req[c].pc \in Approving \cup Executing

Alone ==
    \A c, d \in Clients, p \in Plans \ Contended :
        WorksOn(c, p) /\ WorksOn(d, p) => c = d

\* What a request knows of its plan is still so.
UpToDate ==
    \A c \in Clients, p \in Plans \ Contended : req[c].plan = p =>
        /\ req[c].pc \in {"approving", "issued"} =>
              /\ plan[p].status = req[c].was
              /\ req[c].was \in {"awaiting_approval", "approved"}
        /\ req[c].pc \in {"planned", "checked", "loaded"} =>
              plan[p].status = "approved"
        /\ req[c].pc \in {"marked", "applying", "recorded"} =>
              plan[p].status = "executing"

\* A plan with a record is past execution, and the request that executes a
\* plan finds none of its records.
RecordsOfPlans ==
    \A k \in Keys, p \in Plans \ Contended : record[k].plan = p =>
        /\ plan[p].status \in {"executing", "completed"}
        /\ \A c \in Clients : req[c].plan = p => req[c].pc \notin {"marked", "applying"}

SerialInv == Alone /\ UpToDate /\ RecordsOfPlans /\ OneExecution

LEMMA InitSerialInv == Init => SerialInv
  <1> SUFFICES ASSUME Init PROVE SerialInv
    OBVIOUS
  <1>1. \A c \in Clients : req[c].pc = "idle" /\ req[c].plan = Null
    BY DEF Init, Idle
  <1>2. \A k \in Keys : record[k].plan = Null
    BY DEF Init, NoRecord
  <1> QED
    BY <1>1, <1>2, NullAssumption
    DEF SerialInv, Alone, WorksOn, Approving, Executing, UpToDate, RecordsOfPlans, OneExecution

\* The part of a step that moves requests keeps them apart.
LEMMA NextAlone ==
  ASSUME TypeInv, Alone, Next
  PROVE  Alone'
  <1>1. ASSUME NEW c \in Clients, Starts(c) \/ GoesOn(c) \/ Ends(c),
               \A d \in Clients \ {c} : req'[d] = req[d]
        PROVE  Alone'
    <2>1. ASSUME NEW p \in Plans \ Contended, WorksOn(c, p)'
          PROVE  WorksOn(c, p) \/ \A d \in Clients : ~WorksOn(d, p)
      <3>1. ASSUME NEW q \in Plans, MayStart(c, q), req'[c].plan = q
            PROVE  \A d \in Clients : ~WorksOn(d, p)
        BY <2>1, <3>1 DEF WorksOn, MayStart, InFlight, Approving, Executing
      <3>2. CASE Starts(c)
        BY <2>1, <3>1, <3>2
        DEF Starts, ApproveLoad, ExecuteLookup, WorksOn, Approving, Executing
      <3>3. CASE GoesOn(c)
        BY <2>1, <3>3
        DEF GoesOn, WorksOn, Approving, Executing, At, PlanCreate, ApproveIssue,
            ApproveSave, ExecuteLoadPlan, ExecuteCheckToken, ExecuteLoadResources,
            ExecuteMarkPlan, ExecuteUseToken, ExecuteAction, ExecuteRecord,
            ExecuteComplete
      <3>4. CASE Ends(c)
        BY <2>1, <3>4 DEF Ends, Idle, WorksOn, Approving, Executing
      <3> QED
        BY <1>1, <3>2, <3>3, <3>4
    <2>2. \A d \in Clients \ {c}, p \in Plans : WorksOn(d, p)' = WorksOn(d, p)
      BY <1>1 DEF WorksOn
    <2> QED
      BY <2>1, <2>2 DEF Alone
  <1>2. ASSUME req' = req PROVE Alone'
    BY <1>2 DEF Alone, WorksOn
  <1> QED
    BY <1>1, <1>2, StepsOfRequests DEF Expire, Sync

\* No request that works on a serial plan has it changed by another one.
LEMMA OwnPlan ==
  ASSUME TypeInv, Alone, UpToDate, Next,
         NEW c \in Clients, NEW d \in Clients \ {c}, NEW p \in Plans \ Contended,
         Starts(c) \/ GoesOn(c) \/ Ends(c),
         req[d].plan = p,
         req[d].pc \in {"approving", "issued", "planned", "checked", "loaded",
                        "marked", "applying", "recorded"}
  PROVE  plan'[p] = plan[p]
  <1> USE DEF TypeInv, TypeOK
  <1>1. WorksOn(d, p) /\ plan[p].status # "absent"
    BY DEF WorksOn, Approving, Executing, UpToDate
  <1>2. ~WorksOn(c, p)
    BY <1>1 DEF Alone
  <1>3. CASE ApproveSave(c) \/ ExecuteMarkPlan(c) \/ ExecuteComplete(c)
    <2>1. req[c].plan # p
      BY <1>2, <1>3
      DEF WorksOn, Approving, Executing, At, ApproveSave, ExecuteMarkPlan, ExecuteComplete
    <2> QED
      BY <1>3, <2>1 DEF ApproveSave, ExecuteMarkPlan, ExecuteComplete
  <1>4. CASE PlanCreate(c)
    BY <1>1, <1>4 DEF PlanCreate
  <1>5. CASE Starts(c)
    BY <1>5 DEF Starts, PlanLookup, ApproveLoad, ExecuteLookup
  <1>6. CASE Ends(c)
    BY <1>6 DEF Ends
  <1>7. CASE GoesOn(c) /\ ~(ApproveSave(c) \/ ExecuteMarkPlan(c) \/ ExecuteComplete(c)
                             \/ PlanCreate(c))
    BY <1>7
    DEF GoesOn, ApproveIssue, ExecuteLoadPlan, ExecuteCheckToken, CheckOrReturn,
        ExecuteLoadResources, ExecuteUseToken, ExecuteAction, ExecuteRecord
  <1> QED
    BY <1>3, <1>4, <1>5, <1>6, <1>7

LEMMA NextUpToDate ==
  ASSUME TypeInv, Alone, UpToDate, Next
  PROVE  UpToDate'
  <1> USE DEF TypeInv, TypeOK
  <1> DEFINE Knows(c, p) ==
               /\ req[c].pc \in {"approving", "issued"} =>
                     /\ plan[p].status = req[c].was
                     /\ req[c].was \in {"awaiting_approval", "approved"}
               /\ req[c].pc \in {"planned", "checked", "loaded"} =>
                     plan[p].status = "approved"
               /\ req[c].pc \in {"marked", "applying", "recorded"} =>
                     plan[p].status = "executing"
  <1>1. ASSUME NEW c \in Clients, Starts(c) \/ GoesOn(c) \/ Ends(c),
               \A d \in Clients \ {c} : req'[d] = req[d]
        PROVE  UpToDate'
    <2>1. ASSUME NEW d \in Clients \ {c}, NEW p \in Plans \ Contended, req[d].plan = p
          PROVE  Knows(d, p)'
      <3>1. req'[d] = req[d] /\ Knows(d, p)
        BY <1>1, <2>1 DEF UpToDate
      <3>2. CASE req[d].pc \in {"approving", "issued", "planned", "checked", "loaded",
                                "marked", "applying", "recorded"}
        BY <1>1, <2>1, <3>1, <3>2, OwnPlan
      <3> QED
        BY <3>1, <3>2
    <2>2. ASSUME NEW p \in Plans \ Contended, req'[c].plan = p
          PROVE  Knows(c, p)'
      <3>1. CASE Starts(c)
        BY <2>2, <3>1 DEF Starts, PlanLookup, ApproveLoad, ExecuteLookup
      <3>2. CASE Ends(c)
        BY <3>2 DEF Ends, Idle
      <3>3. CASE GoesOn(c)
        <4>1. req[c].plan = p /\ req'[c].was = req[c].was /\ Knows(c, p)
          BY <2>2, <3>3 DEF GoesOn, UpToDate
        <4>2. CASE PlanCreate(c) /\ req'[c].pc = "created"
          BY <4>2
        <4>3. CASE ApproveSave(c) /\ req'[c].pc = "approved"
          BY <4>3
        <4>4. CASE ExecuteComplete(c) /\ req'[c].pc = "executed"
          BY <4>4
        <4>5. CASE ExecuteMarkPlan(c) /\ req'[c].pc = "marked"
          BY <4>1, <4>5 DEF ExecuteMarkPlan, PlanType
        <4>6. CASE ApproveIssue(c) /\ req'[c].pc = "issued"
          BY <4>1, <4>6 DEF ApproveIssue, At
        <4>7. CASE /\ ExecuteLoadPlan(c) /\ req'[c].pc = "planned"
                   /\ plan[req[c].plan].status = "approved"
          BY <4>1, <4>7 DEF ExecuteLoadPlan, CheckOrReturn
        <4>8. CASE ExecuteCheckToken(c) /\ req'[c].pc = "checked"
          BY <4>1, <4>8 DEF ExecuteCheckToken, CheckOrReturn, At
        <4>9. CASE ExecuteLoadResources(c) /\ req'[c].pc = "loaded"
          BY <4>1, <4>9 DEF ExecuteLoadResources, At
        <4>10. CASE ExecuteUseToken(c) /\ req'[c].pc = "applying"
          BY <4>1, <4>10 DEF ExecuteUseToken, At
        <4>11. ASSUME NEW f \in Findings, ExecuteAction(c, f), req'[c].pc = "applying"
               PROVE  Knows(c, p)'
          BY <4>1, <4>11 DEF ExecuteAction, At
        <4>12. CASE ExecuteRecord(c) /\ req'[c].pc = "recorded"
          BY <4>1, <4>12 DEF ExecuteRecord, At
        <4> QED
          BY <3>3, <4>2, <4>3, <4>4, <4>5, <4>6, <4>7, <4>8, <4>9, <4>10, <4>11, <4>12
          DEF GoesOn
      <3> QED
        BY <1>1, <3>1, <3>2, <3>3
    <2> QED
      BY <1>1, <2>1, <2>2 DEF UpToDate
  <1>2. ASSUME req' = req, plan' = plan PROVE UpToDate'
    BY <1>2 DEF UpToDate
  <1> QED
    BY <1>1, <1>2, StepsOfRequests DEF Expire, Sync

\* The status of a serial plan moves forward.
LEMMA NextStatus ==
  ASSUME TypeInv, UpToDate, Next, NEW p \in Plans \ Contended
  PROVE  \/ plan'[p].status = plan[p].status
         \/ plan[p].status = "absent" /\ plan'[p].status = "awaiting_approval"
         \/ plan[p].status = "awaiting_approval" /\ plan'[p].status = "approved"
         \/ plan[p].status = "approved" /\ plan'[p].status = "executing"
         \/ plan[p].status = "executing" /\ plan'[p].status = "completed"
  <1> USE DEF TypeInv, TypeOK, PlanType
  <1>1. ASSUME NEW c \in Clients, PlanCreate(c), plan'[p].status # plan[p].status
        PROVE  plan[p].status = "absent" /\ plan'[p].status = "awaiting_approval"
    BY <1>1 DEF PlanCreate
  <1>2. ASSUME NEW c \in Clients, ApproveSave(c), plan'[p].status # plan[p].status
        PROVE  plan[p].status = "awaiting_approval" /\ plan'[p].status = "approved"
    <2>1. req[c].plan = p /\ plan'[p].status = "approved"
      BY <1>2 DEF ApproveSave
    <2> QED
      BY <1>2, <2>1 DEF ApproveSave, At, UpToDate
  <1>3. ASSUME NEW c \in Clients, ExecuteMarkPlan(c), plan'[p].status # plan[p].status
        PROVE  plan[p].status = "approved" /\ plan'[p].status = "executing"
    <2>1. req[c].plan = p /\ plan'[p].status = "executing"
      BY <1>3 DEF ExecuteMarkPlan
    <2> QED
      BY <1>3, <2>1 DEF ExecuteMarkPlan, At, UpToDate
  <1>4. ASSUME NEW c \in Clients, ExecuteComplete(c), plan'[p].status # plan[p].status
        PROVE  plan[p].status = "executing" /\ plan'[p].status = "completed"
    <2>1. req[c].plan = p /\ plan'[p].status = "completed"
      BY <1>4 DEF ExecuteComplete
    <2> QED
      BY <1>4, <2>1 DEF ExecuteComplete, At, UpToDate
  <1> QED
    BY <1>1, <1>2, <1>3, <1>4, PlanWrites

LEMMA NextRecords ==
  ASSUME TypeInv, Reserved, SerialInv, Next
  PROVE  RecordsOfPlans' /\ OneExecution'
  <1> USE NullAssumption DEF TypeInv, TypeOK
  <1>1. \A k \in Keys : record[k].plan # Null => record'[k] = record[k]
    BY Monotone DEF Recorded
  <1>2. ASSUME NEW k \in Keys, NEW p \in Plans \ Contended, record'[k].plan = p,
               record[k].plan # p
        PROVE  \E c \in Clients : /\ ExecuteRecord(c) /\ ~Recorded(req[c].key)
                                  /\ req[c].plan = p /\ req[c].key = k
    <2>1. PICK c \in Clients : ExecuteRecord(c) /\ ~Recorded(req[c].key)
      BY <1>2, RecordWrites
    <2>2. record' = [record EXCEPT ![req[c].key] =
                       [plan |-> req[c].plan, token |-> req[c].token,
                        beforeState |-> req[c].beforeState,
                        afterState |-> req[c].afterState]]
      BY <2>1 DEF ExecuteRecord
    <2> QED
      BY <1>2, <2>1, <2>2
  <1>3. ASSUME NEW c \in Clients, ExecuteRecord(c), ~Recorded(req[c].key),
               req[c].plan \in Plans \ Contended
        PROVE  /\ plan' = plan
               /\ plan[req[c].plan].status = "executing"
               /\ WorksOn(c, req[c].plan)
               /\ \A k \in Keys : record[k].plan # req[c].plan
               /\ req'[c].pc = "recorded"
               /\ \A d \in Clients \ {c} : req'[d] = req[d]
    <2>1. plan' = plan /\ req[c].pc = "applying"
      BY <1>3 DEF ExecuteRecord, At
    <2>2. req'[c].pc = "recorded" /\ \A d \in Clients \ {c} : req'[d] = req[d]
      BY <1>3, GotoMoves DEF ExecuteRecord
    <2> QED
      BY <1>3, <2>1, <2>2
      DEF SerialInv, UpToDate, RecordsOfPlans, WorksOn, Executing
  <1>4. ASSUME NEW k \in Keys, NEW p \in Plans \ Contended, record'[k].plan = p
        PROVE  /\ plan'[p].status \in {"executing", "completed"}
               /\ \A d \in Clients : req'[d].plan = p => req'[d].pc \notin {"marked", "applying"}
    <2>1. CASE record[k].plan = p
      <3>1. /\ plan[p].status \in {"executing", "completed"}
            /\ \A d \in Clients : req[d].plan = p =>
                  req[d].pc \notin {"loaded", "marked", "applying"}
        BY <2>1 DEF SerialInv, UpToDate, RecordsOfPlans
      <3>2. plan'[p].status \in {"executing", "completed"}
        BY <3>1, NextStatus DEF SerialInv
      <3>3. ASSUME NEW d \in Clients, req'[d].plan = p, req'[d].pc \in {"marked", "applying"},
                   req'[d] # req[d]
            PROVE  FALSE
        <4>1. Starts(d) \/ GoesOn(d) \/ Ends(d)
          BY <3>3, StepsOfRequests DEF Expire, Sync
        <4>2. GoesOn(d) /\ req[d].plan = p
          BY <3>3, <4>1 DEF Starts, Ends, Idle, GoesOn
        <4>3. req[d].pc \in {"loaded", "marked", "applying"}
          BY <3>3, <4>2
          DEF GoesOn, ExecuteMarkPlan, ExecuteUseToken, ExecuteAction, At
        <4> QED
          BY <3>1, <4>2, <4>3
      <3> QED
        BY <3>1, <3>2, <3>3
    <2>2. CASE record[k].plan # p
      <3>1. PICK c \in Clients : /\ ExecuteRecord(c) /\ ~Recorded(req[c].key)
                                 /\ req[c].plan = p /\ req[c].key = k
        BY <1>2, <1>4, <2>2
      <3>2. \A d \in Clients \ {c} : ~WorksOn(d, p) /\ req'[d] = req[d]
        BY <1>3, <3>1 DEF SerialInv, Alone
      <3> QED
        BY <1>3, <3>1, <3>2 DEF WorksOn, Executing
    <2> QED
      BY <2>1, <2>2
  <1>5. ASSUME NEW p \in Plans \ Contended, NEW k1 \in Keys, NEW k2 \in Keys,
               record'[k1].plan = p, record'[k2].plan = p, record[k1].plan # p
        PROVE  k1 = k2
    <2>1. PICK c \in Clients : /\ ExecuteRecord(c) /\ ~Recorded(req[c].key)
                               /\ req[c].plan = p /\ req[c].key = k1
      BY <1>2, <1>5
    <2>2. WorksOn(c, p) /\ record[k2].plan # p
      BY <1>3, <2>1
    <2>3. PICK d \in Clients : /\ ExecuteRecord(d) /\ ~Recorded(req[d].key)
                               /\ req[d].plan = p /\ req[d].key = k2
      BY <1>2, <1>5, <2>2
    <2>4. WorksOn(d, p)
      BY <1>3, <2>3
    <2>5. c = d
      BY <2>2, <2>4 DEF SerialInv, Alone
    <2> QED
      BY <2>1, <2>3, <2>5
  <1>6. ASSUME NEW p \in Plans \ Contended, NEW k1 \in Keys, NEW k2 \in Keys,
               record'[k1].plan = p, record'[k2].plan = p
        PROVE  k1 = k2
    <2>1. CASE record[k1].plan = p /\ record[k2].plan = p
      BY <2>1 DEF SerialInv, OneExecution
    <2>2. CASE record[k1].plan # p \/ record[k2].plan # p
      BY <1>5, <1>6, <2>2
    <2> QED
      BY <2>1, <2>2
  <1> QED
    BY <1>4, <1>6 DEF RecordsOfPlans, OneExecution

LEMMA SpecSerialInv == Spec => [](Inv /\ SerialInv)
  <1>1. Init => Inv /\ SerialInv
    BY InitInv, InitSerialInv
  <1>2. Inv /\ SerialInv /\ [Next]_vars => (Inv /\ SerialInv)'
    <2> SUFFICES ASSUME Inv, SerialInv, [Next]_vars PROVE Inv' /\ SerialInv'
      OBVIOUS
    <2>1. Inv'
      BY NextInv
    <2>2. CASE Next
      BY <2>1, <2>2, NextAlone, NextUpToDate, NextRecords DEF Inv, SerialInv
    <2>3. CASE UNCHANGED vars
      BY <2>1, <2>3
      DEF vars, SerialInv, Alone, WorksOn, UpToDate, RecordsOfPlans, OneExecution
    <2> QED
      BY <2>1, <2>2, <2>3
  <1> QED
    BY <1>1, <1>2, PTL DEF Spec

\* The status of a plan works as its lock once its requests come one after the
\* other: however many tokens and keys it is given, wherever its requests break
\* off, and whatever other plans do, it is executed to a record once at most.
THEOREM PlansExecuteOnce == Spec => []OneExecution
  <1>1. SerialInv => OneExecution
    BY DEF SerialInv
  <1> QED
    BY <1>1, SpecSerialInv, PTL

\* Under the same condition the saves of approve and execute, which check no
\* status, never set one back.
THEOREM StatusesAdvance == Spec => StatusAdvances
  <1>1. Inv /\ SerialInv /\ [Next]_vars =>
          [\A p \in Plans \ Contended :
              plan'[p].status = plan[p].status
              \/ Rank(plan'[p].status) = Rank(plan[p].status) + 1]_vars
    <2> SUFFICES ASSUME Inv, SerialInv, Next, NEW p \in Plans \ Contended
                 PROVE  \/ plan'[p].status = plan[p].status
                        \/ Rank(plan'[p].status) = Rank(plan[p].status) + 1
      OBVIOUS
    <2> QED
      BY NextStatus DEF Inv, SerialInv, Rank
  <1> QED
    BY <1>1, SpecSerialInv, PTL DEF Spec, StatusAdvances

=============================================================================
