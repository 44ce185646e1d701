----------------------- MODULE RemediationRefinement -----------------------
(***************************************************************************)
(* Remediation implements PlanLifecycle, for any numbers of plans, tokens, *)
(* keys, clients and faults, and of the tokens of a plan it spends one.    *)
(***************************************************************************)
EXTENDS RemediationEffects

Serial == Plans \ Contended

-----------------------------------------------------------------------------
(* One token is spent.                                                     *)

\* The tokens of p that are stored as used.
Spent(p) == {t \in Tokens : token[t].plan = p /\ token[t].used}

\* None before an execution of the plan spends one, and that one only.
SpentOnce ==
    \A p \in Serial :
        /\ plan[p].status \in {"absent", "awaiting_approval", "approved"} => Spent(p) = {}
        /\ \A c \in Clients : req[c].plan = p /\ req[c].pc = "marked" => Spent(p) = {}
        /\ \A t, u \in Spent(p) : t = u

LEMMA SpentKept ==
  ASSUME TypeInv, Reserved, Grounded, Next, NEW p \in Serial,
         \A c \in Clients : ExecuteUseToken(c) => req[c].plan # p
  PROVE  Spent(p)' \subseteq Spent(p)
  <1> SUFFICES ASSUME NEW t \in Tokens, token'[t].plan = p, token'[t].used
               PROVE  token[t].plan = p /\ token[t].used
    BY DEF Spent
  <1>1. p # Null
    BY NullAssumption DEF Serial
  <1>2. CASE token'[t] = token[t]
    BY <1>2
  <1>3. CASE token'[t] # token[t]
    <2>1. \/ \E c \in Clients : ApproveIssue(c) \/ ExecuteUseToken(c)
          \/ \E u \in Tokens : Expire(u)
      <3>1. token' # token
        BY <1>3
      <3>2. ASSUME NEW c \in Clients, CreatePlanStep(c)
            PROVE  FALSE
        BY <3>1, <3>2 DEF CreatePlanStep, PlanLookup, PlanCreate, PlanKeyTaken
      <3>3. ASSUME NEW c \in Clients, ApproveStep(c)
            PROVE  ApproveIssue(c)
        BY <3>1, <3>3 DEF ApproveStep, ApproveLoad, ApproveSave
      <3>4. ASSUME NEW c \in Clients, ExecuteStep(c)
            PROVE  ExecuteUseToken(c)
        BY <3>1, <3>4
        DEF ExecuteStep, ExecuteLookup, ExecuteLoadPlan, ExecuteCheckToken, CheckOrReturn,
            ExecuteLoadResources, ExecuteMarkPlan, ExecuteAction, ExecuteRecord,
            ExecuteComplete
      <3> QED
        BY <3>1, <3>2, <3>3, <3>4 DEF Next, Audit, Abort, Sync
    <2>2. ASSUME NEW c \in Clients, ApproveIssue(c)
          PROVE  FALSE
      BY <1>3, <2>2 DEF ApproveIssue, TypeInv, TypeOK
    <2>3. ASSUME NEW c \in Clients, ExecuteUseToken(c)
          PROVE  FALSE
      <3>1. t = req[c].token
        BY <1>3, <2>3 DEF ExecuteUseToken, TypeInv, TypeOK
      <3>2. token[t].plan = req[c].plan
        BY <2>3, <3>1 DEF ExecuteUseToken, Grounded, At
      <3>3. token'[t].plan = token[t].plan
        BY <2>3, <3>1 DEF ExecuteUseToken, TypeInv, TypeOK, TokenType
      <3> QED
        BY <2>3, <3>2, <3>3
    <2>4. ASSUME NEW u \in Tokens, Expire(u)
          PROVE  FALSE
      BY <1>3, <2>4 DEF Expire, TypeInv, TypeOK, TokenType
    <2> QED
      BY <2>1, <2>2, <2>3, <2>4
  <1> QED
    BY <1>2, <1>3

LEMMA NextSpentOnce ==
  ASSUME TypeInv, Reserved, Grounded, SerialInv, SpentOnce, Next
  PROVE  SpentOnce'
  <1> SUFFICES ASSUME NEW p \in Serial
               PROVE  /\ plan'[p].status \in {"absent", "awaiting_approval", "approved"} =>
                            Spent(p)' = {}
                      /\ \A c \in Clients : req'[c].plan = p /\ req'[c].pc = "marked" =>
                            Spent(p)' = {}
                      /\ \A t, u \in Spent(p)' : t = u
    BY DEF SpentOnce
  <1>0. p \in Plans \ Contended
    BY DEF Serial
  <1>1. ASSUME NEW c \in Clients, ExecuteUseToken(c), req[c].plan = p
        PROVE  Spent(p)' = {req[c].token}
    <2>1. Spent(p) = {} /\ req[c].token \in Tokens
      BY <1>1 DEF SpentOnce, ExecuteUseToken, At, TypeInv, WellFormed, Executing
    <2>2. token[req[c].token].plan = p
      BY <1>1 DEF ExecuteUseToken, At, Grounded
    <2>3. /\ \A t \in Tokens \ {req[c].token} : token'[t] = token[t]
          /\ token'[req[c].token].plan = p
          /\ token'[req[c].token].used
      BY <1>1, <2>1, <2>2 DEF ExecuteUseToken, TypeInv, TypeOK, TokenType
    <2> QED
      BY <2>1, <2>3 DEF Spent
  <1>2. CASE \E c \in Clients : ExecuteUseToken(c) /\ req[c].plan = p
    <2> PICK c \in Clients : ExecuteUseToken(c) /\ req[c].plan = p
      BY <1>2
    <2>1. req[c].pc = "marked" /\ plan[p].status = "executing" /\ plan'[p] = plan[p]
      BY <1>0 DEF ExecuteUseToken, At, SerialInv, UpToDate
    <2>2. req'[c].pc = "applying" /\ \A d \in Clients \ {c} : req'[d] = req[d]
      BY GotoMoves DEF ExecuteUseToken, TypeInv, TypeOK
    <2>3. \A d \in Clients : ~(req'[d].plan = p /\ req'[d].pc = "marked")
      BY <1>0, <2>1, <2>2 DEF SerialInv, Alone, WorksOn, Executing
    <2> QED
      BY <1>1, <2>1, <2>3
  <1>3. CASE \A c \in Clients : ExecuteUseToken(c) => req[c].plan # p
    <2>1. Spent(p)' \subseteq Spent(p)
      BY <1>3, SpentKept
    <2>2. plan'[p].status \in {"absent", "awaiting_approval", "approved"} =>
             plan[p].status \in {"absent", "awaiting_approval", "approved"}
      BY <1>0, NextStatus DEF SerialInv
    <2>3. ASSUME NEW c \in Clients, req'[c].plan = p, req'[c].pc = "marked"
          PROVE  Spent(p) = {}
      <3>1. CASE req'[c] = req[c]
        BY <2>3, <3>1 DEF SpentOnce
      <3>2. CASE req'[c] # req[c]
        <4>1. Starts(c) \/ GoesOn(c) \/ Ends(c)
          BY <3>2, StepsOfRequests DEF Expire, Sync
        <4>2. req[c].plan = p /\ req[c].pc = "loaded"
          BY <2>3, <4>1 DEF Starts, GoesOn, Ends, Idle, ExecuteMarkPlan, At
        <4> QED
          BY <1>0, <4>2 DEF SerialInv, UpToDate, SpentOnce
      <3> QED
        BY <3>1, <3>2
    <2> QED
      BY <2>1, <2>2, <2>3 DEF SpentOnce
  <1> QED
    BY <1>2, <1>3

-----------------------------------------------------------------------------
(* How the state of the code determines what PlanLifecycle shows of a plan. *)

Acting == {"checked", "loaded", "marked", "applying", "recorded"}

Executes(c, p) == req[c].plan = p /\ req[c].pc \in Acting

\* What a plan shows while a request is at pc, and while none executes it.
PhaseAt(pc) ==
    IF pc \in {"checked", "loaded"} THEN "cleared"
    ELSE IF pc = "marked" THEN "begun" ELSE pc

PhaseOf(status) ==
    IF status = "awaiting_approval" THEN "proposed"
    ELSE IF status = "executing" THEN "broken" ELSE status

Views ==
    \A p \in Serial :
        /\ \A c \in Clients : Executes(c, p) =>
              /\ Phase(p) = PhaseAt(req[c].pc)
              /\ Left(p) = IF req[c].pc = "applying" THEN req[c].todo ELSE {}
              /\ Under(p) = {req[c].token}
        /\ (\A c \in Clients : ~Executes(c, p)) =>
              /\ Phase(p) = PhaseOf(plan[p].status)
              /\ Left(p) = {}
              /\ Under(p) = {}

LEMMA DoingAlone ==
  ASSUME Alone, NEW p \in Serial, NEW c \in Clients, Executes(c, p),
         NEW pcs \in SUBSET Acting
  PROVE  Doing(p, pcs) = IF req[c].pc \in pcs THEN {c} ELSE {}
  <1>1. \A d \in Clients : req[d].plan = p /\ req[d].pc \in pcs => d = c
    BY DEF Alone, WorksOn, Executes, Acting, Executing, Serial
  <1> QED
    BY <1>1 DEF Doing, Executes

LEMMA DoingNothing ==
  ASSUME NEW p \in Serial, \A c \in Clients : ~Executes(c, p), NEW pcs \in SUBSET Acting
  PROVE  Doing(p, pcs) = {}
  BY DEF Doing, Executes

LEMMA StateHasViews == TypeInv /\ Alone /\ UpToDate => Views
  <1> SUFFICES ASSUME TypeInv, Alone, UpToDate, NEW p \in Serial
               PROVE  /\ \A c \in Clients : Executes(c, p) =>
                           /\ Phase(p) = PhaseAt(req[c].pc)
                           /\ Left(p) = IF req[c].pc = "applying" THEN req[c].todo ELSE {}
                           /\ Under(p) = {req[c].token}
                      /\ (\A c \in Clients : ~Executes(c, p)) =>
                           /\ Phase(p) = PhaseOf(plan[p].status)
                           /\ Left(p) = {}
                           /\ Under(p) = {}
    BY DEF Views
  <1>1. p \in Plans \ Contended /\ plan[p].status \in Statuses
    BY DEF Serial, TypeInv, TypeOK, PlanType
  <1>2. ASSUME NEW c \in Clients, Executes(c, p)
        PROVE  /\ Phase(p) = PhaseAt(req[c].pc)
               /\ Left(p) = IF req[c].pc = "applying" THEN req[c].todo ELSE {}
               /\ Under(p) = {req[c].token}
    <2> DEFINE pc == req[c].pc
    <2>1. /\ Doing(p, {"checked", "loaded"}) = IF pc \in {"checked", "loaded"} THEN {c} ELSE {}
          /\ Doing(p, {"marked"}) = IF pc \in {"marked"} THEN {c} ELSE {}
          /\ Doing(p, {"applying"}) = IF pc \in {"applying"} THEN {c} ELSE {}
          /\ Doing(p, {"recorded"}) = IF pc \in {"recorded"} THEN {c} ELSE {}
          /\ Doing(p, Acting) = IF pc \in Acting THEN {c} ELSE {}
      BY <1>2, DoingAlone DEF Acting
    <2>2. /\ pc \in Acting
          /\ pc \in {"checked", "loaded"} => plan[p].status = "approved"
          /\ pc \in {"marked", "applying", "recorded"} => plan[p].status = "executing"
      BY <1>1, <1>2 DEF UpToDate, Executes
    <2>3. Phase(p) = PhaseAt(pc)
      BY <2>1, <2>2 DEF Phase, PhaseAt, Acting
    <2>4. Left(p) = IF pc = "applying" THEN req[c].todo ELSE {}
      BY <2>1 DEF Left
    <2>5. Under(p) = {req[c].token}
      BY <2>1, <2>2 DEF Under, Acting
    <2> QED
      BY <2>3, <2>4, <2>5
  <1>3. ASSUME \A c \in Clients : ~Executes(c, p)
        PROVE  Phase(p) = PhaseOf(plan[p].status) /\ Left(p) = {} /\ Under(p) = {}
    <2>1. /\ Doing(p, {"checked", "loaded"}) = {}
          /\ Doing(p, {"marked"}) = {}
          /\ Doing(p, {"applying"}) = {}
          /\ Doing(p, {"recorded"}) = {}
          /\ Doing(p, Acting) = {}
      BY <1>3, DoingNothing DEF Acting
    <2>2. Phase(p) = PhaseOf(plan[p].status)
      BY <1>1, <2>1 DEF Phase, PhaseOf, Statuses
    <2>3. Left(p) = {} /\ Under(p) = {}
      BY <2>1 DEF Left, Under, Acting
    <2> QED
      BY <2>2, <2>3
  <1> QED
    BY <1>2, <1>3

\* What is true in every reachable state is true after each step.
LEMMA NextHasViews == (TypeInv /\ Alone /\ UpToDate)' => Views'
  BY StateHasViews, PTL

-----------------------------------------------------------------------------
(* Steps that no reader of the plan sees.                                  *)

\* An execution that has loaded its plan's documents or is about to begin has
\* all of the plan's actions before it.
Todos ==
    \A c \in Clients : req[c].pc \in {"loaded", "marked"} =>
        req[c].todo = Actionable(plan[req[c].plan].findings)

RefinementInv == EffectsInv /\ SpentOnce /\ Todos

LEMMA NextTodos ==
  ASSUME TypeInv, Followed, Todos, Next
  PROVE  Todos'
  <1> SUFFICES ASSUME NEW c \in Clients, req'[c].pc \in {"loaded", "marked"}
               PROVE  req'[c].todo = Actionable(plan'[req'[c].plan].findings)
    BY DEF Todos, Actionable
  <1>1. ASSUME req[c].pc \in {"checked", "loaded", "marked"}, req'[c].plan = req[c].plan
        PROVE  plan'[req'[c].plan].findings = plan[req[c].plan].findings
    <2>1. req[c].plan \in Plans /\ plan[req[c].plan].status # "absent"
      BY <1>1 DEF Followed, Past, TypeInv, WellFormed
    <2> QED
      BY <1>1, <2>1, PlansKept
  <1>2. CASE req'[c] = req[c]
    BY <1>1, <1>2 DEF Todos
  <1>3. CASE req'[c] # req[c]
    <2>1. Starts(c) \/ GoesOn(c) \/ Ends(c)
      BY <1>3, StepsOfRequests DEF Expire, Sync
    <2>2. \/ ExecuteLoadResources(c) /\ req'[c].plan = req[c].plan
          \/ ExecuteMarkPlan(c) /\ req'[c].plan = req[c].plan
      BY <2>1 DEF Starts, GoesOn, Ends, Idle
    <2>3. CASE ExecuteLoadResources(c)
      <3>1. req'[c].todo = Actionable(plan[req[c].plan].findings)
        BY <2>3 DEF ExecuteLoadResources, TypeInv, TypeOK, ReqType
      <3> QED
        BY <1>1, <2>2, <2>3, <3>1 DEF ExecuteLoadResources, At
    <2>4. CASE ExecuteMarkPlan(c)
      <3>1. req'[c].todo = req[c].todo
        BY <2>4, GotoMoves DEF ExecuteMarkPlan, TypeInv, TypeOK
      <3> QED
        BY <1>1, <2>2, <2>4, <3>1 DEF ExecuteMarkPlan, At, Todos
    <2> QED
      BY <2>2, <2>3, <2>4
  <1> QED
    BY <1>2, <1>3

LEMMA InitRefinementInv == Init => RefinementInv
  BY InitEffectsInv, NullAssumption
  DEF Init, RefinementInv, SpentOnce, Spent, Todos, Idle, NoPlan, NoToken, Serial

LEMMA NextRefinementInv == RefinementInv /\ [Next]_vars => RefinementInv'
  <1>1. ASSUME RefinementInv, Next
        PROVE  RefinementInv'
    BY <1>1, StepEffectsInv, NextSpentOnce, NextTodos
    DEF RefinementInv, EffectsInv, Inv
  <1>2. ASSUME RefinementInv, UNCHANGED vars
        PROVE  RefinementInv'
    <2>1. EffectsInv'
      BY <1>2, StutterEffectsInv DEF RefinementInv
    <2>2. SpentOnce' /\ Todos'
      BY <1>2 DEF RefinementInv, SpentOnce, Spent, Todos, Actionable, vars
    <2> QED
      BY <2>1, <2>2 DEF RefinementInv
  <1> QED
    BY <1>1, <1>2

\* Everything PlanLifecycle shows of q stays.
Keeps(q) ==
    /\ Phase(q)' = Phase(q)
    /\ Actionable(plan'[q].findings) = Actionable(plan[q].findings)
    /\ Left(q)' = Left(q)
    /\ Under(q)' = Under(q)
    /\ \A t \in Tokens : Approval(q, t)' = Approval(q, t)
    /\ RecordedUnder(q)' = RecordedUnder(q)

LEMMA KeepsAllMaps == (\A q \in Serial : Keeps(q)) => UNCHANGED Lifecycle!lifecycle
  BY DEF Keeps, Serial, Lifecycle!lifecycle

\* What is shown of the execution of q stays while its request stays within
\* one phase, and with no request before and after.
LEMMA ExecutionKept ==
  ASSUME Views, Views', NEW q \in Serial, NEW c \in Clients,
         \A d \in Clients \ {c} : req'[d] = req[d],
         plan'[q].status = plan[q].status,
         \/ ~Executes(c, q) /\ ~Executes(c, q)'
         \/ /\ Executes(c, q) /\ Executes(c, q)'
            /\ PhaseAt(req'[c].pc) = PhaseAt(req[c].pc)
            /\ req'[c].token = req[c].token
            /\ req[c].pc = "applying" => req'[c].todo = req[c].todo
  PROVE  Phase(q)' = Phase(q) /\ Left(q)' = Left(q) /\ Under(q)' = Under(q)
  <1>1. \A d \in Clients \ {c} : Executes(d, q)' <=> Executes(d, q)
    BY DEF Executes
  <1>2. CASE \E d \in Clients \ {c} : Executes(d, q)
    <2> PICK d \in Clients \ {c} : Executes(d, q)
      BY <1>2
    <2>1. Executes(d, q)' /\ req'[d] = req[d]
      BY <1>1
    <2>2. /\ Phase(q) = PhaseAt(req[d].pc)
          /\ Left(q) = IF req[d].pc = "applying" THEN req[d].todo ELSE {}
          /\ Under(q) = {req[d].token}
      BY DEF Views
    <2>3. /\ Phase(q)' = PhaseAt(req'[d].pc)
          /\ Left(q)' = IF req'[d].pc = "applying" THEN req'[d].todo ELSE {}
          /\ Under(q)' = {req'[d].token}
      BY <2>1 DEF Views
    <2> QED
      BY <2>1, <2>2, <2>3
  <1>3. CASE Executes(c, q)
    <2>1. /\ Phase(q) = PhaseAt(req[c].pc)
          /\ Left(q) = IF req[c].pc = "applying" THEN req[c].todo ELSE {}
          /\ Under(q) = {req[c].token}
      BY <1>3 DEF Views
    <2>2. /\ Phase(q)' = PhaseAt(req'[c].pc)
          /\ Left(q)' = IF req'[c].pc = "applying" THEN req'[c].todo ELSE {}
          /\ Under(q)' = {req'[c].token}
      BY <1>3 DEF Views
    <2>3. req'[c].pc = "applying" <=> req[c].pc = "applying"
      BY <1>3 DEF Executes, Acting, PhaseAt
    <2> QED
      BY <1>3, <2>1, <2>2, <2>3
  <1>4. CASE \A d \in Clients : ~Executes(d, q)
    <2>1. \A d \in Clients : ~Executes(d, q)'
      BY <1>1, <1>4
    <2> QED
      BY <1>4, <2>1 DEF Views
  <1> QED
    BY <1>2, <1>3, <1>4

\* Steps of other plans' requests write no document of q and issue or spend
\* no token of it.
LEMMA DocumentsKept ==
  ASSUME TypeInv, Reserved, Grounded, NEW q \in Serial, NEW c \in Clients,
         GoesOn(c), req[c].plan # q
  PROVE  /\ plan'[q] = plan[q]
         /\ \A t \in Tokens : Approval(q, t)' = Approval(q, t)
         /\ RecordedUnder(q)' = RecordedUnder(q)
  <1>0. q \in Plans /\ q # Null /\ plan \in [Plans -> PlanType]
    BY NullAssumption DEF Serial, TypeInv, TypeOK
  <1>1. plan'[q] = plan[q]
    BY <1>0 DEF GoesOn, PlanCreate, ApproveIssue, ApproveSave, ExecuteLoadPlan,
       ExecuteCheckToken, CheckOrReturn, ExecuteLoadResources, ExecuteMarkPlan,
       ExecuteUseToken, ExecuteAction, ExecuteRecord, ExecuteComplete
  <1>2. \A t \in Tokens : \/ token'[t] = token[t]
                          \/ token[t].plan # q /\ token'[t].plan # q
    <2>1. CASE ApproveIssue(c)
      BY <1>0, <2>1 DEF ApproveIssue, At, Reserved, Issued, TypeInv, TypeOK
    <2>2. CASE ExecuteUseToken(c)
      <3>1. token[req[c].token].plan = req[c].plan
        BY <2>2 DEF ExecuteUseToken, At, Grounded
      <3> QED
        BY <2>2, <3>1 DEF ExecuteUseToken, TypeInv, TypeOK, TokenType
    <2>3. CASE token' = token
      BY <2>3
    <2> QED
      BY <2>1, <2>2, <2>3 DEF GoesOn, PlanCreate, ApproveSave, ExecuteLoadPlan,
         ExecuteCheckToken, CheckOrReturn, ExecuteLoadResources, ExecuteMarkPlan,
         ExecuteAction, ExecuteRecord, ExecuteComplete
  <1>3. \A k \in Keys : \/ record'[k] = record[k]
                        \/ record[k].plan # q /\ record'[k].plan # q
    <2>1. CASE ExecuteRecord(c)
      BY <1>0, <2>1 DEF ExecuteRecord, Recorded, TypeInv, TypeOK
    <2>2. CASE record' = record
      BY <2>2
    <2> QED
      BY <2>1, <2>2 DEF GoesOn, PlanCreate, ApproveIssue, ApproveSave, ExecuteLoadPlan,
         ExecuteCheckToken, CheckOrReturn, ExecuteLoadResources, ExecuteMarkPlan,
         ExecuteUseToken, ExecuteAction, ExecuteComplete
  <1>4. \A t \in Tokens : Approval(q, t)' = Approval(q, t)
    BY <1>2 DEF Approval
  <1>5. RecordedUnder(q)' = RecordedUnder(q)
    BY <1>3 DEF RecordedUnder
  <1> QED
    BY <1>1, <1>4, <1>5

LEMMA OthersKeep ==
  ASSUME RefinementInv, Views, Views', NEW c \in Clients,
         \A d \in Clients \ {c} : req'[d] = req[d], GoesOn(c) \/ Ends(c)
  PROVE  \A q \in Serial : q # req[c].plan => Keeps(q)
  <1> SUFFICES ASSUME NEW q \in Serial, q # req[c].plan
               PROVE  Keeps(q)
    OBVIOUS
  <1>0. /\ q # Null /\ q \in Plans
        /\ TypeInv /\ Reserved /\ Grounded
    BY NullAssumption DEF Serial, RefinementInv, EffectsInv, Inv
  <1>1. ~Executes(c, q) /\ ~Executes(c, q)'
    BY <1>0 DEF Executes, GoesOn, Ends, Idle
  <1>2. /\ plan'[q] = plan[q]
        /\ \A t \in Tokens : Approval(q, t)' = Approval(q, t)
        /\ RecordedUnder(q)' = RecordedUnder(q)
    <2>1. CASE GoesOn(c)
      BY <1>0, <2>1, DocumentsKept
    <2>2. CASE Ends(c)
      BY <2>2 DEF Ends, Approval, RecordedUnder
    <2> QED
      BY <2>1, <2>2
  <1>3. Phase(q)' = Phase(q) /\ Left(q)' = Left(q) /\ Under(q)' = Under(q)
    BY <1>1, <1>2, ExecutionKept
  <1> QED
    BY <1>2, <1>3 DEF Keeps

\* Steps before a token is checked, and steps that only an auditor sees.
LEMMA StartKeeps ==
  ASSUME Views, Views', NEW c \in Clients,
         \A d \in Clients \ {c} : req'[d] = req[d], Starts(c)
  PROVE  \A q \in Serial : Keeps(q)
  <1> SUFFICES ASSUME NEW q \in Serial
               PROVE  Keeps(q)
    OBVIOUS
  <1>1. UNCHANGED <<plan, token, record>>
    BY DEF Starts, PlanLookup, ApproveLoad, ExecuteLookup
  <1>2. ~Executes(c, q) /\ ~Executes(c, q)'
    BY DEF Starts, PlanLookup, ApproveLoad, ExecuteLookup, MayStart, At, Executes, Acting
  <1> QED
    BY <1>1, <1>2, ExecutionKept DEF Keeps, Approval, RecordedUnder

\* A request's own plan, when the step leaves its documents as they are and
\* the execution of it in the phase it was in.
LEMMA StepKeeps ==
  ASSUME RefinementInv, Views, Views', NEW c \in Clients,
         \A d \in Clients \ {c} : req'[d] = req[d], GoesOn(c) \/ Ends(c),
         UNCHANGED <<plan, token, record>>,
         \A q \in Serial :
            \/ ~Executes(c, q) /\ ~Executes(c, q)'
            \/ /\ Executes(c, q) /\ Executes(c, q)'
               /\ PhaseAt(req'[c].pc) = PhaseAt(req[c].pc)
               /\ req'[c].token = req[c].token
               /\ req[c].pc = "applying" => req'[c].todo = req[c].todo
  PROVE  \A q \in Serial : Keeps(q)
  <1> SUFFICES ASSUME NEW q \in Serial
               PROVE  Keeps(q)
    OBVIOUS
  <1>1. Phase(q)' = Phase(q) /\ Left(q)' = Left(q) /\ Under(q)' = Under(q)
    BY ExecutionKept
  <1> QED
    BY <1>1 DEF Keeps, Approval, RecordedUnder

-----------------------------------------------------------------------------
(* Steps that are steps of PlanLifecycle.                                  *)

\* The parts of what PlanLifecycle shows, each under the step of one plan.
LEMMA PartsMove ==
  ASSUME NEW p \in Serial, \A q \in Serial : q # p => Keeps(q)
  PROVE  /\ \A from, to : Phase(p) = from /\ Phase(p)' = to => Lifecycle!Move(p, from, to)
         /\ Phase(p)' = Phase(p) =>
               UNCHANGED [q \in Plans \ Contended |-> Phase(q)]
         /\ Actionable(plan'[p].findings) = Actionable(plan[p].findings) =>
               UNCHANGED [q \in Plans \ Contended |-> Actionable(plan[q].findings)]
         /\ Left(p)' = Left(p) =>
               UNCHANGED [q \in Plans \ Contended |-> Left(q)]
         /\ Under(p)' = Under(p) =>
               UNCHANGED [q \in Plans \ Contended |-> Under(q)]
         /\ (\A t \in Tokens : Approval(p, t)' = Approval(p, t)) =>
               UNCHANGED [q \in Plans \ Contended |-> [t \in Tokens |-> Approval(q, t)]]
         /\ RecordedUnder(p)' = RecordedUnder(p) =>
               UNCHANGED [q \in Plans \ Contended |-> RecordedUnder(q)]
         /\ \A new : Left(p)' = new =>
               [q \in Plans \ Contended |-> Left(q)]'
                  = [[q \in Plans \ Contended |-> Left(q)] EXCEPT ![p] = new]
         /\ \A new : Under(p)' = new =>
               [q \in Plans \ Contended |-> Under(q)]'
                  = [[q \in Plans \ Contended |-> Under(q)] EXCEPT ![p] = new]
         /\ \A t \in Tokens : \A new :
               /\ Approval(p, t)' = new
               /\ \A u \in Tokens \ {t} : Approval(p, u)' = Approval(p, u)
               => Lifecycle!SetToken(p, t, new)
  <1>0. p \in Plans \ Contended /\ Serial = Plans \ Contended
    BY DEF Serial
  <1>1. \A from, to : Phase(p) = from /\ Phase(p)' = to => Lifecycle!Move(p, from, to)
    BY <1>0 DEF Keeps, Lifecycle!Move
  <1>2. Phase(p)' = Phase(p) =>
               UNCHANGED [q \in Plans \ Contended |-> Phase(q)]
    BY <1>0 DEF Keeps
  <1>3. Actionable(plan'[p].findings) = Actionable(plan[p].findings) =>
               UNCHANGED [q \in Plans \ Contended |-> Actionable(plan[q].findings)]
    BY <1>0 DEF Keeps
  <1>4. Left(p)' = Left(p) =>
               UNCHANGED [q \in Plans \ Contended |-> Left(q)]
    BY <1>0 DEF Keeps
  <1>5. Under(p)' = Under(p) =>
               UNCHANGED [q \in Plans \ Contended |-> Under(q)]
    BY <1>0 DEF Keeps
  <1>6. (\A t \in Tokens : Approval(p, t)' = Approval(p, t)) =>
               UNCHANGED [q \in Plans \ Contended |-> [t \in Tokens |-> Approval(q, t)]]
    BY <1>0 DEF Keeps
  <1>7. RecordedUnder(p)' = RecordedUnder(p) =>
               UNCHANGED [q \in Plans \ Contended |-> RecordedUnder(q)]
    BY <1>0 DEF Keeps
  <1>8. \A new : Left(p)' = new =>
               [q \in Plans \ Contended |-> Left(q)]'
                  = [[q \in Plans \ Contended |-> Left(q)] EXCEPT ![p] = new]
    BY <1>0 DEF Keeps
  <1>9. \A new : Under(p)' = new =>
               [q \in Plans \ Contended |-> Under(q)]'
                  = [[q \in Plans \ Contended |-> Under(q)] EXCEPT ![p] = new]
    BY <1>0 DEF Keeps
  <1>10. ASSUME NEW t \in Tokens, NEW new, Approval(p, t)' = new,
                \A u \in Tokens \ {t} : Approval(p, u)' = Approval(p, u)
         PROVE  Lifecycle!SetToken(p, t, new)
    BY <1>0, <1>10 DEF Keeps, Lifecycle!SetToken
  <1> QED
    BY <1>1, <1>2, <1>3, <1>4, <1>5, <1>6, <1>7, <1>8, <1>9, <1>10

\* A step of c's request, and what is known before and after it.
StepOf(c) ==
    /\ RefinementInv /\ Views /\ Views'
    /\ \A d \in Clients \ {c} : req'[d] = req[d]
    /\ GoesOn(c) \/ Ends(c)

LEMMA StepFacts ==
  ASSUME NEW c \in Clients, StepOf(c)
  PROVE  /\ TypeInv /\ Reserved /\ Grounded /\ Alone /\ UpToDate
         /\ req \in [Clients -> ReqType]
  BY DEF StepOf, RefinementInv, EffectsInv, Inv, SerialInv, TypeInv, TypeOK

LEMMA OwnStep ==
  ASSUME NEW c \in Clients, StepOf(c), NEW p \in Serial, req[c].plan = p
  PROVE  /\ \A q \in Serial : q # p => Keeps(q)
         /\ p \in Plans \ Contended /\ p \in Plans /\ p # Null
         /\ req[c].pc \in Approving \cup Executing =>
               \A d \in Clients \ {c} : ~Executes(d, p) /\ ~Executes(d, p)'
  <1>1. /\ \A q \in Serial : q # p => Keeps(q)
        /\ p \in Plans \ Contended /\ p # Null
    BY OthersKeep, NullAssumption DEF StepOf, Serial
  <1>2. ASSUME req[c].pc \in Approving \cup Executing, NEW d \in Clients \ {c}
        PROVE  ~Executes(d, p) /\ ~Executes(d, p)'
    <2>1. ~Executes(d, p)
      BY <1>1, <1>2, StepFacts DEF Alone, WorksOn, Executes, Executing, Acting
    <2>2. req'[d] = req[d]
      BY DEF StepOf
    <2> QED
      BY <2>1, <2>2 DEF Executes
  <1> QED
    BY <1>1, <1>2

\* What PlanLifecycle shows before and after a step on a plan's own execution.
LEMMA OwnView ==
  ASSUME NEW c \in Clients, StepOf(c), NEW p \in Serial, req[c].plan = p,
         req[c].pc \in Approving \cup Executing
  PROVE  /\ IF req[c].pc \in Acting
            THEN /\ Phase(p) = PhaseAt(req[c].pc)
                 /\ Left(p) = IF req[c].pc = "applying" THEN req[c].todo ELSE {}
                 /\ Under(p) = {req[c].token}
            ELSE /\ Phase(p) = PhaseOf(plan[p].status)
                 /\ Left(p) = {} /\ Under(p) = {}
         /\ IF req'[c].plan = p /\ req'[c].pc \in Acting
            THEN /\ Phase(p)' = PhaseAt(req'[c].pc)
                 /\ Left(p)' = IF req'[c].pc = "applying" THEN req'[c].todo ELSE {}
                 /\ Under(p)' = {req'[c].token}
            ELSE /\ Phase(p)' = PhaseOf(plan'[p].status)
                 /\ Left(p)' = {} /\ Under(p)' = {}
  <1>1. \A d \in Clients \ {c} : ~Executes(d, p) /\ ~Executes(d, p)'
    BY OwnStep
  <1>2. Executes(c, p) <=> req[c].pc \in Acting
    BY DEF Executes
  <1>3. Executes(c, p)' <=> req'[c].plan = p /\ req'[c].pc \in Acting
    BY DEF Executes
  <1>4. IF req[c].pc \in Acting
        THEN /\ Phase(p) = PhaseAt(req[c].pc)
             /\ Left(p) = IF req[c].pc = "applying" THEN req[c].todo ELSE {}
             /\ Under(p) = {req[c].token}
        ELSE /\ Phase(p) = PhaseOf(plan[p].status)
             /\ Left(p) = {} /\ Under(p) = {}
    <2>1. Views
      BY DEF StepOf
    <2> QED
      BY <1>1, <1>2, <2>1 DEF Views
  <1>5. IF req'[c].plan = p /\ req'[c].pc \in Acting
        THEN /\ Phase(p)' = PhaseAt(req'[c].pc)
             /\ Left(p)' = IF req'[c].pc = "applying" THEN req'[c].todo ELSE {}
             /\ Under(p)' = {req'[c].token}
        ELSE /\ Phase(p)' = PhaseOf(plan'[p].status)
             /\ Left(p)' = {} /\ Under(p)' = {}
    <2>1. Views'
      BY DEF StepOf
    <2> QED
      BY <1>1, <1>3, <2>1 DEF Views
  <1> QED
    BY <1>4, <1>5

LEMMA ProposeMaps ==
  ASSUME NEW c \in Clients, StepOf(c), NEW p \in Serial, req[c].plan = p,
         PlanCreate(c), req'[c].pc = "created"
  PROVE  \E findings \in SUBSET Findings : Lifecycle!Propose(p, findings)
  <1> PICK findings \in SUBSET Findings : findings = Actionable(req[c].todo)
    BY StepFacts DEF Actionable, ReqType
  <1>1. /\ plan[p].status = "absent"
        /\ plan'[p].status = "awaiting_approval" /\ plan'[p].findings = req[c].todo
        /\ UNCHANGED <<token, record>>
        /\ p \in Plans \ Contended
    BY StepFacts, OwnStep DEF PlanCreate, TypeInv, TypeOK
  <1>2. \A d \in Clients : ~Executes(d, p)
    BY <1>1, StepFacts DEF Executes, Acting, UpToDate
  <1>3. \A d \in Clients : ~Executes(d, p)'
    <2>1. ~Executes(c, p)'
      BY DEF Executes, Acting
    <2>2. \A d \in Clients \ {c} : ~Executes(d, p)'
      BY <1>2 DEF StepOf, Executes
    <2> QED
      BY <2>1, <2>2
  <1>4. /\ Phase(p) = "absent" /\ Left(p) = {} /\ Under(p) = {}
        /\ Phase(p)' = "proposed" /\ Left(p)' = {} /\ Under(p)' = {}
    <2>1. Phase(p) = "absent" /\ Left(p) = {} /\ Under(p) = {}
      BY <1>1, <1>2 DEF StepOf, Views, PhaseOf
    <2>2. Views'
      BY DEF StepOf
    <2>3. Phase(p)' = "proposed" /\ Left(p)' = {} /\ Under(p)' = {}
      BY <1>1, <1>3, <2>2 DEF Views, PhaseOf
    <2> QED
      BY <2>1, <2>3
  <1>5. /\ RecordedUnder(p)' = RecordedUnder(p)
        /\ \A t \in Tokens : Approval(p, t)' = Approval(p, t)
    BY <1>1 DEF RecordedUnder, Approval
  <1>6. \A q \in Serial : q # p => Keeps(q)
    BY OwnStep
  <1>7. [q \in Plans \ Contended |-> Actionable(plan[q].findings)]'
           = [[q \in Plans \ Contended |-> Actionable(plan[q].findings)] EXCEPT ![p] = findings]
    BY <1>1, <1>6 DEF Keeps, Serial, Actionable
  <1>8. Lifecycle!Propose(p, findings)
    BY <1>4, <1>5, <1>6, <1>7, PartsMove DEF Lifecycle!Propose
  <1> QED
    BY <1>8

LEMMA IssueMaps ==
  ASSUME NEW c \in Clients, StepOf(c), NEW p \in Serial, req[c].plan = p,
         ApproveIssue(c), req'[c].plan = p, req'[c].pc = "issued"
  PROVE  \E t \in Tokens : Lifecycle!Issue(p, t)
  <1>1. /\ TypeInv /\ p \in Plans \ Contended /\ p # Null
        /\ req[c].pc = "approving" /\ req[c].token \in Tokens
        /\ \A q \in Serial : q # p => Keeps(q)
    BY StepFacts, OwnStep DEF ApproveIssue, At, TypeInv, WellFormed, Approving
  <1> PICK t \in Tokens : t = req[c].token
    BY <1>1
  <1>2. token[t].plan = Null
    BY <1>1, StepFacts DEF Reserved, Issued
  <1>3. /\ token'[t] = [plan |-> p, used |-> FALSE, expired |-> FALSE]
        /\ \A u \in Tokens \ {t} : token'[u] = token[u]
        /\ UNCHANGED <<plan, record>>
    BY <1>1 DEF ApproveIssue, TypeInv, TypeOK
  <1>4. /\ Approval(p, t) = "none" /\ Approval(p, t)' = "open"
        /\ \A u \in Tokens \ {t} : Approval(p, u)' = Approval(p, u)
    BY <1>1, <1>2, <1>3 DEF Approval
  <1>5. plan[p].status \in {"awaiting_approval", "approved"}
    BY <1>1, StepFacts DEF UpToDate
  <1>6. /\ Phase(p) = PhaseOf(plan[p].status) /\ Left(p) = {} /\ Under(p) = {}
        /\ Phase(p)' = PhaseOf(plan'[p].status) /\ Left(p)' = {} /\ Under(p)' = {}
    BY <1>1, OwnView DEF Acting, Approving
  <1>7. Phase(p) \in {"proposed", "approved"} /\ Phase(p)' = Phase(p)
    BY <1>3, <1>5, <1>6 DEF PhaseOf
  <1>8. RecordedUnder(p)' = RecordedUnder(p)
    BY <1>3 DEF RecordedUnder
  <1>9. Lifecycle!Issue(p, t)
    BY <1>1, <1>3, <1>4, <1>6, <1>7, <1>8, PartsMove DEF Lifecycle!Issue
  <1> QED
    BY <1>9

\* A step that issues no token for p, spends none of them and records no
\* execution of it.
LEMMA SameDocuments ==
  ASSUME UNCHANGED <<token, record>>, NEW p
  PROVE  /\ \A t \in Tokens : Approval(p, t)' = Approval(p, t)
         /\ RecordedUnder(p)' = RecordedUnder(p)
  BY DEF Approval, RecordedUnder

LEMMA DocumentsStay ==
  ASSUME NEW p \in Serial, \A q \in Serial : q # p => Keeps(q),
         UNCHANGED <<token, record>>, plan'[p].findings = plan[p].findings
  PROVE  /\ UNCHANGED [q \in Plans \ Contended |-> Actionable(plan[q].findings)]
         /\ UNCHANGED [q \in Plans \ Contended |-> [t \in Tokens |-> Approval(q, t)]]
         /\ UNCHANGED [q \in Plans \ Contended |-> RecordedUnder(q)]
  BY PartsMove, SameDocuments DEF Actionable

\* The status that a step of p's own request writes.
LEMMA StatusWritten ==
  ASSUME TypeInv, NEW p \in Plans, NEW status,
         plan' = [plan EXCEPT ![p] = [@ EXCEPT !.status = status]]
  PROVE  plan'[p].status = status /\ plan'[p].findings = plan[p].findings
  BY DEF TypeInv, TypeOK, PlanType

LEMMA ApproveMaps ==
  ASSUME NEW c \in Clients, StepOf(c), NEW p \in Serial, req[c].plan = p,
         ApproveSave(c), req'[c].plan = p, req'[c].pc = "approved"
  PROVE  Lifecycle!Approve(p) \/ \A q \in Serial : Keeps(q)
  <1>1. /\ TypeInv /\ p \in Plans \ Contended /\ p \in Plans /\ p # Null
        /\ req[c].pc = "issued" /\ req[c].token \in Tokens
        /\ \A q \in Serial : q # p => Keeps(q)
        /\ UNCHANGED <<token, record>>
    BY StepFacts, OwnStep DEF ApproveSave, At, TypeInv, WellFormed, Approving
  <1>2. /\ plan[p].status = req[c].was
        /\ req[c].was \in {"awaiting_approval", "approved"}
    BY <1>1, StepFacts DEF UpToDate
  <1>3. /\ Phase(p) = PhaseOf(plan[p].status) /\ Left(p) = {} /\ Under(p) = {}
        /\ Phase(p)' = PhaseOf(plan'[p].status) /\ Left(p)' = {} /\ Under(p)' = {}
    BY <1>1, OwnView DEF Acting, Approving
  <1>4. CASE req[c].was = "approved"
    <2>1. plan'[p] = plan[p]
      BY <1>1, <1>4 DEF ApproveSave, TypeInv, TypeOK
    <2>2. Keeps(p)
      BY <1>1, <1>3, <2>1, SameDocuments DEF Keeps
    <2> QED
      BY <1>1, <2>2
  <1>5. CASE req[c].was = "awaiting_approval"
    <2>1. plan' = [plan EXCEPT ![p] = [@ EXCEPT !.status = "approved"]]
      BY <1>5 DEF ApproveSave
    <2>2. Phase(p) = "proposed" /\ Phase(p)' = "approved"
      <3>1. plan'[p].status = "approved"
        BY <1>1, <2>1, StatusWritten
      <3> QED
        BY <1>2, <1>3, <1>5, <3>1 DEF PhaseOf
    <2>3. \E t \in Tokens : Approval(p, t) # "none"
      <3>1. token[req[c].token].plan = p
        BY <1>1, StepFacts DEF Grounded
      <3> QED
        BY <1>1, <3>1 DEF Approval
    <2>4. \E t \in Tokens :
             [q \in Plans \ Contended |-> [u \in Tokens |-> Approval(q, u)]][p][t] # "none"
      BY <1>1, <2>3
    <2>5. Lifecycle!Approve(p)
      BY <1>1, <1>3, <2>1, <2>2, <2>4, PartsMove, SameDocuments, StatusWritten
      DEF Lifecycle!Approve
    <2> QED
      BY <2>5
  <1> QED
    BY <1>2, <1>4, <1>5

LEMMA ClearMaps ==
  ASSUME NEW c \in Clients, StepOf(c), NEW p \in Serial, req[c].plan = p,
         ExecuteCheckToken(c), Accepts(c), req'[c].plan = p, req'[c].pc = "checked",
         req'[c].token = req[c].token
  PROVE  \E t \in Tokens : Lifecycle!Clear(p, t)
  <1>1. /\ TypeInv /\ p \in Plans \ Contended
        /\ req[c].pc = "planned" /\ req[c].token \in Tokens
        /\ \A q \in Serial : q # p => Keeps(q)
        /\ UNCHANGED <<plan, token, record>>
    BY StepFacts, OwnStep
    DEF ExecuteCheckToken, CheckOrReturn, At, TypeInv, WellFormed, Executing
  <1> PICK t \in Tokens : t = req[c].token
    BY <1>1
  <1>2. plan[p].status = "approved"
    BY <1>1, StepFacts DEF UpToDate
  <1>3. /\ Phase(p) = "approved" /\ Left(p) = {}
        /\ Phase(p)' = "cleared" /\ Left(p)' = {} /\ Under(p)' = {t}
    BY <1>1, <1>2, OwnView DEF Acting, Executing, PhaseOf, PhaseAt
  <1>4. Approval(p, t) = "open"
    BY DEF Accepts, Approval
  <1>5. Lifecycle!Clear(p, t)
    BY <1>1, <1>3, <1>4, PartsMove, SameDocuments DEF Lifecycle!Clear
  <1> QED
    BY <1>5

LEMMA BeginMaps ==
  ASSUME NEW c \in Clients, StepOf(c), NEW p \in Serial, req[c].plan = p,
         ExecuteMarkPlan(c), req'[c].plan = p, req'[c].pc = "marked",
         req'[c].token = req[c].token
  PROVE  Lifecycle!Begin(p)
  <1>1. /\ TypeInv /\ p \in Plans \ Contended /\ p \in Plans
        /\ req[c].pc = "loaded"
        /\ \A q \in Serial : q # p => Keeps(q)
        /\ UNCHANGED <<token, record>>
        /\ plan' = [plan EXCEPT ![p] = [@ EXCEPT !.status = "executing"]]
    BY StepFacts, OwnStep DEF ExecuteMarkPlan, At
  <1>2. /\ Phase(p) = "cleared" /\ Left(p) = {} /\ Under(p) = {req[c].token}
        /\ Phase(p)' = "begun" /\ Left(p)' = {} /\ Under(p)' = {req[c].token}
    BY <1>1, OwnView DEF Acting, Executing, PhaseAt
  <1>3. plan'[p].findings = plan[p].findings
    BY <1>1, StatusWritten
  <1>4. Lifecycle!Move(p, "cleared", "begun")
    BY <1>1, <1>2, PartsMove
  <1>5. /\ UNCHANGED [q \in Plans \ Contended |-> Left(q)]
        /\ UNCHANGED [q \in Plans \ Contended |-> Under(q)]
    BY <1>1, <1>2, PartsMove
  <1> QED
    BY <1>1, <1>3, <1>4, <1>5, DocumentsStay DEF Lifecycle!Begin

LEMMA SpendMaps ==
  ASSUME NEW c \in Clients, StepOf(c), NEW p \in Serial, req[c].plan = p,
         ExecuteUseToken(c), req'[c].plan = p, req'[c].pc = "applying",
         req'[c].token = req[c].token
  PROVE  \E t \in Tokens : Lifecycle!Spend(p, t)
  <1>1. /\ TypeInv /\ p \in Plans \ Contended
        /\ req[c].pc = "marked" /\ req[c].token \in Tokens
        /\ \A q \in Serial : q # p => Keeps(q)
        /\ UNCHANGED <<plan, record>>
    BY StepFacts, OwnStep DEF ExecuteUseToken, At, TypeInv, WellFormed, Executing
  <1> PICK t \in Tokens : t = req[c].token
    BY <1>1
  <1>2. req'[c].todo = Actionable(plan[p].findings)
    <2>1. req'[c].todo = req[c].todo
      BY GotoMoves, StepFacts DEF ExecuteUseToken
    <2> QED
      BY <1>1, <2>1 DEF StepOf, RefinementInv, Todos
  <1>3. /\ Phase(p) = "begun" /\ Left(p) = {} /\ Under(p) = {t}
        /\ Phase(p)' = "applying" /\ Under(p)' = {t}
        /\ Left(p)' = Actionable(plan[p].findings)
    BY <1>1, <1>2, OwnView DEF Acting, Executing, PhaseAt
  <1>4. token[t].plan = p
    BY <1>1, StepFacts DEF Grounded
  <1>5. /\ token'[t].plan = p /\ token'[t].used
        /\ \A u \in Tokens \ {t} : token'[u] = token[u]
    BY <1>1, <1>4 DEF ExecuteUseToken, TypeInv, TypeOK, TokenType
  <1>6. /\ Approval(p, t)' = "spent"
        /\ \A u \in Tokens \ {t} : Approval(p, u)' = Approval(p, u)
    BY <1>5 DEF Approval
  <1>7. RecordedUnder(p)' = RecordedUnder(p)
    BY <1>1 DEF RecordedUnder
  <1>8. Lifecycle!Spend(p, t)
    BY <1>1, <1>3, <1>6, <1>7, PartsMove DEF Lifecycle!Spend
  <1> QED
    BY <1>8

LEMMA ActMaps ==
  ASSUME NEW c \in Clients, StepOf(c), NEW p \in Serial, req[c].plan = p,
         NEW f \in Findings, ExecuteAction(c, f), req'[c].plan = p,
         req'[c].pc = "applying", req'[c].token = req[c].token
  PROVE  Lifecycle!Act(p, f)
  <1>1. /\ TypeInv /\ p \in Plans \ Contended
        /\ req[c].pc = "applying" /\ f \in req[c].todo
        /\ \A q \in Serial : q # p => Keeps(q)
        /\ UNCHANGED <<plan, token, record>>
    BY StepFacts, OwnStep DEF ExecuteAction, At
  <1>2. req'[c].todo = req[c].todo \ {f}
    <2>1. f \in Actionable(Findings)
      BY <1>1 DEF TypeInv, WellFormed
    <2> QED
      BY <1>1, <2>1, ActionMoves DEF TypeInv
  <1>3. /\ Phase(p) = "applying" /\ Left(p) = req[c].todo /\ Under(p) = {req[c].token}
        /\ Phase(p)' = "applying" /\ Under(p)' = {req[c].token}
        /\ Left(p)' = req[c].todo \ {f}
    BY <1>1, <1>2, OwnView DEF Acting, Executing, PhaseAt
  <1>4. /\ [q \in Plans \ Contended |-> Phase(q)][p] = "applying"
        /\ [q \in Plans \ Contended |-> Left(q)][p] = req[c].todo
    BY <1>1, <1>3
  <1>5. [q \in Plans \ Contended |-> Left(q)]'
           = [[q \in Plans \ Contended |-> Left(q)] EXCEPT ![p] = req[c].todo \ {f}]
    BY <1>1, <1>3, PartsMove
  <1>6. /\ UNCHANGED [q \in Plans \ Contended |-> Phase(q)]
        /\ UNCHANGED [q \in Plans \ Contended |-> Under(q)]
    BY <1>1, <1>3, PartsMove
  <1>7. /\ UNCHANGED [q \in Plans \ Contended |-> Actionable(plan[q].findings)]
        /\ UNCHANGED [q \in Plans \ Contended |-> [t \in Tokens |-> Approval(q, t)]]
        /\ UNCHANGED [q \in Plans \ Contended |-> RecordedUnder(q)]
    BY <1>1, DocumentsStay
  <1> QED
    BY <1>1, <1>4, <1>5, <1>6, <1>7 DEF Lifecycle!Act

LEMMA RecordMaps ==
  ASSUME NEW c \in Clients, StepOf(c), NEW p \in Serial, req[c].plan = p,
         ExecuteRecord(c), ~Recorded(req[c].key), req'[c].plan = p,
         req'[c].pc = "recorded", req'[c].token = req[c].token
  PROVE  Lifecycle!Record(p)
  <1>1. /\ TypeInv /\ p \in Plans \ Contended /\ p # Null
        /\ req[c].pc = "applying" /\ req[c].todo = {} /\ req[c].key \in Keys
        /\ \A q \in Serial : q # p => Keeps(q)
        /\ UNCHANGED <<plan, token>>
    BY StepFacts, OwnStep DEF ExecuteRecord, At, TypeInv, WellFormed, Executing
  <1>2. /\ Phase(p) = "applying" /\ Left(p) = {} /\ Under(p) = {req[c].token}
        /\ Phase(p)' = "recorded" /\ Left(p)' = {} /\ Under(p)' = {req[c].token}
    BY <1>1, OwnView DEF Acting, Executing, PhaseAt
  <1>3. /\ record[req[c].key].plan = Null
        /\ record'[req[c].key].plan = p /\ record'[req[c].key].token = req[c].token
        /\ \A k \in Keys \ {req[c].key} : record'[k] = record[k]
    BY <1>1 DEF ExecuteRecord, Recorded, TypeInv, TypeOK
  <1>4. RecordedUnder(p)' = RecordedUnder(p) \cup {req[c].token}
    BY <1>1, <1>3 DEF RecordedUnder
  <1>5. [q \in Plans \ Contended |-> RecordedUnder(q)]'
           = [[q \in Plans \ Contended |-> RecordedUnder(q)]
                 EXCEPT ![p] = @ \cup [q \in Plans \ Contended |-> Under(q)][p]]
    BY <1>1, <1>2, <1>4 DEF Keeps, Serial
  <1>6. \A t \in Tokens : Approval(p, t)' = Approval(p, t)
    BY <1>1 DEF Approval
  <1>7. [q \in Plans \ Contended |-> Left(q)][p] = {}
    BY <1>1, <1>2
  <1> QED
    BY <1>1, <1>2, <1>5, <1>6, <1>7, PartsMove DEF Lifecycle!Record

LEMMA CompleteMaps ==
  ASSUME NEW c \in Clients, StepOf(c), NEW p \in Serial, req[c].plan = p,
         ExecuteComplete(c), req'[c].plan = p, req'[c].pc = "executed"
  PROVE  Lifecycle!Complete(p)
  <1>1. /\ TypeInv /\ p \in Plans \ Contended /\ p \in Plans
        /\ req[c].pc = "recorded"
        /\ \A q \in Serial : q # p => Keeps(q)
        /\ UNCHANGED <<token, record>>
        /\ plan' = [plan EXCEPT ![p] = [@ EXCEPT !.status = "completed"]]
    BY StepFacts, OwnStep DEF ExecuteComplete, At
  <1>2. plan'[p].status = "completed" /\ plan'[p].findings = plan[p].findings
    BY <1>1, StatusWritten
  <1>3. /\ Phase(p) = "recorded" /\ Left(p) = {}
        /\ Phase(p)' = "completed" /\ Left(p)' = {} /\ Under(p)' = {}
    BY <1>1, <1>2, OwnView DEF Acting, Executing, PhaseAt, PhaseOf
  <1>4. Lifecycle!Move(p, "recorded", "completed")
    BY <1>1, <1>3, PartsMove
  <1>5. /\ UNCHANGED [q \in Plans \ Contended |-> Left(q)]
        /\ [q \in Plans \ Contended |-> Under(q)]'
              = [[q \in Plans \ Contended |-> Under(q)] EXCEPT ![p] = {}]
    BY <1>1, <1>3, PartsMove
  <1> QED
    BY <1>1, <1>2, <1>4, <1>5, DocumentsStay DEF Lifecycle!Complete

\* A request ends, wherever it is: between the check of its token and its
\* first write this is a withdrawal, after that it breaks the execution off.
LEMMA EndMaps ==
  ASSUME NEW c \in Clients, StepOf(c), Ends(c)
  PROVE  \/ \E p \in Plans \ Contended : Lifecycle!Withdraw(p) \/ Lifecycle!BreakOff(p)
         \/ \A q \in Serial : Keeps(q)
  <1>1. CASE \A q \in Serial : ~Executes(c, q)
    <2>1. \A q \in Serial : ~Executes(c, q)'
      BY DEF Ends, Executes, Idle, Acting
    <2> QED
      BY <1>1, <2>1, StepKeeps DEF StepOf, Ends
  <1>2. ASSUME NEW p \in Serial, Executes(c, p)
        PROVE  Lifecycle!Withdraw(p) \/ Lifecycle!BreakOff(p)
    <2>1. /\ TypeInv /\ p \in Plans \ Contended /\ req[c].plan = p
          /\ \A q \in Serial : q # p => Keeps(q)
          /\ UNCHANGED <<plan, token, record>>
          /\ req'[c].pc = "idle"
          /\ req[c].pc \in Acting
      BY <1>2, StepFacts, OwnStep DEF Ends, Idle, Executes
    <2>2. /\ req[c].pc \in {"checked", "loaded"} => plan[p].status = "approved"
          /\ req[c].pc \in {"marked", "applying", "recorded"} => plan[p].status = "executing"
      BY <2>1, StepFacts DEF UpToDate
    <2>3. /\ Phase(p) = PhaseAt(req[c].pc)
          /\ Left(p) = IF req[c].pc = "applying" THEN req[c].todo ELSE {}
          /\ Phase(p)' = PhaseOf(plan[p].status) /\ Left(p)' = {} /\ Under(p)' = {}
      BY <2>1, OwnView DEF Acting, Executing
    <2>4. /\ [q \in Plans \ Contended |-> Left(q)]'
                = [[q \in Plans \ Contended |-> Left(q)] EXCEPT ![p] = {}]
          /\ [q \in Plans \ Contended |-> Under(q)]'
                = [[q \in Plans \ Contended |-> Under(q)] EXCEPT ![p] = {}]
      BY <2>1, <2>3, PartsMove
    <2>5. CASE req[c].pc \in {"checked", "loaded"}
      <3>1. Phase(p) = "cleared" /\ Phase(p)' = "approved" /\ Left(p) = {}
        BY <2>2, <2>3, <2>5 DEF PhaseAt, PhaseOf
      <3>2. Lifecycle!Move(p, "cleared", "approved")
        BY <2>1, <3>1, PartsMove
      <3>3. UNCHANGED [q \in Plans \ Contended |-> Left(q)]
        BY <2>1, <2>3, <3>1, PartsMove
      <3>4. Lifecycle!Withdraw(p)
        BY <2>1, <2>4, <3>2, <3>3, DocumentsStay DEF Lifecycle!Withdraw
      <3> QED
        BY <3>4
    <2>6. CASE req[c].pc \in {"marked", "applying", "recorded"}
      <3>1. Phase(p) \in {"begun", "applying", "recorded"} /\ Phase(p)' = "broken"
        BY <2>2, <2>3, <2>6 DEF PhaseAt, PhaseOf
      <3>2. Lifecycle!Move(p, Phase(p), "broken")
        BY <2>1, <3>1, PartsMove
      <3>3. [q \in Plans \ Contended |-> Phase(q)][p] \in {"begun", "applying", "recorded"}
        BY <2>1, <3>1
      <3>4. Lifecycle!BreakOff(p)
        BY <2>1, <2>4, <3>2, <3>3, DocumentsStay DEF Lifecycle!BreakOff, Lifecycle!Move
      <3> QED
        BY <3>4
    <2> QED
      BY <2>1, <2>5, <2>6 DEF Acting
  <1> QED
    BY <1>1, <1>2 DEF Serial

LEMMA GoesOnMaps ==
  ASSUME NEW c \in Clients, StepOf(c), GoesOn(c)
  PROVE  Lifecycle!Next \/ \A q \in Serial : Keeps(q)
  <1>1. CASE req[c].plan \notin Serial
    BY <1>1, OthersKeep DEF StepOf
  <1>2. ASSUME NEW p \in Serial, req[c].plan = p
        PROVE  Lifecycle!Next \/ \A q \in Serial : Keeps(q)
    <2>1. p \in Plans \ Contended
      BY DEF Serial
    <2>2. /\ req'[c].plan = p
          /\ req'[c].token = req[c].token
      BY <1>2 DEF GoesOn
    <2>3. CASE PlanCreate(c) /\ req'[c].pc = "created"
      BY <1>2, <2>1, <2>3, ProposeMaps DEF Lifecycle!Next
    <2>4. CASE ApproveIssue(c) /\ req'[c].pc = "issued"
      BY <1>2, <2>1, <2>2, <2>4, IssueMaps DEF Lifecycle!Next
    <2>5. CASE ApproveSave(c) /\ req'[c].pc = "approved"
      BY <1>2, <2>1, <2>2, <2>5, ApproveMaps DEF Lifecycle!Next
    <2>6. CASE ExecuteCheckToken(c) /\ req'[c].pc = "checked" /\ Accepts(c)
      BY <1>2, <2>1, <2>2, <2>6, ClearMaps DEF Lifecycle!Next
    <2>7. CASE ExecuteMarkPlan(c) /\ req'[c].pc = "marked"
      BY <1>2, <2>1, <2>2, <2>7, BeginMaps DEF Lifecycle!Next
    <2>8. CASE ExecuteUseToken(c) /\ req'[c].pc = "applying"
      BY <1>2, <2>1, <2>2, <2>8, SpendMaps DEF Lifecycle!Next
    <2>9. CASE \E f \in Findings : ExecuteAction(c, f) /\ req'[c].pc = "applying"
      BY <1>2, <2>1, <2>2, <2>9, ActMaps DEF Lifecycle!Next
    <2>10. CASE ExecuteRecord(c) /\ req'[c].pc = "recorded" /\ ~Recorded(req[c].key)
      BY <1>2, <2>1, <2>2, <2>10, RecordMaps DEF Lifecycle!Next
    <2>11. CASE ExecuteComplete(c) /\ req'[c].pc = "executed"
      BY <1>2, <2>1, <2>2, <2>11, CompleteMaps DEF Lifecycle!Next
    <2>12. CASE ExecuteLoadPlan(c) /\ req'[c].pc = "planned"
      <3>1. UNCHANGED <<plan, token, record>> /\ req[c].pc = "keyed"
        BY <2>12 DEF ExecuteLoadPlan, CheckOrReturn, At
      <3>2. \A q \in Serial : ~Executes(c, q) /\ ~Executes(c, q)'
        BY <2>12, <3>1 DEF Executes, Acting
      <3> QED
        BY <3>1, <3>2, StepKeeps DEF StepOf
    <2>13. CASE ExecuteLoadResources(c) /\ req'[c].pc = "loaded"
      <3>1. UNCHANGED <<plan, token, record>> /\ req[c].pc = "checked"
        BY <2>13 DEF ExecuteLoadResources, At
      <3>2. \A q \in Serial :
               \/ ~Executes(c, q) /\ ~Executes(c, q)'
               \/ Executes(c, q) /\ Executes(c, q)'
        BY <1>2, <2>2, <2>13, <3>1 DEF Executes, Acting
      <3>3. PhaseAt(req'[c].pc) = PhaseAt(req[c].pc)
        BY <2>13, <3>1 DEF PhaseAt
      <3> QED
        BY <2>2, <3>1, <3>2, <3>3, StepKeeps DEF StepOf
    <2> QED
      BY <2>3, <2>4, <2>5, <2>6, <2>7, <2>8, <2>9, <2>10, <2>11, <2>12, <2>13 DEF GoesOn
  <1> QED
    BY <1>1, <1>2

LEMMA ExpireMaps ==
  ASSUME RefinementInv, Views, Views', NEW t \in Tokens, Expire(t)
  PROVE  Lifecycle!Next \/ \A q \in Serial : Keeps(q)
  <1>1. /\ UNCHANGED <<plan, record, req>>
        /\ token[t].plan # Null /\ ~token[t].used /\ ~token[t].expired
        /\ token'[t].plan = token[t].plan /\ ~token'[t].used /\ token'[t].expired
        /\ \A u \in Tokens \ {t} : token'[u] = token[u]
    BY DEF Expire, Issued, RefinementInv, EffectsInv, Inv, TypeInv, TypeOK, TokenType
  <1>2. \A q \in Serial : /\ Phase(q)' = Phase(q) /\ Left(q)' = Left(q) /\ Under(q)' = Under(q)
                          /\ RecordedUnder(q)' = RecordedUnder(q)
                          /\ Actionable(plan'[q].findings) = Actionable(plan[q].findings)
    BY <1>1 DEF Phase, Left, Under, Doing, RecordedUnder
  <1>3. \A q \in Serial : q # token[t].plan => Keeps(q)
    BY <1>1, <1>2 DEF Keeps, Approval
  <1>4. CASE token[t].plan \notin Serial
    BY <1>3, <1>4
  <1>5. ASSUME NEW p \in Serial, token[t].plan = p
        PROVE  Lifecycle!Lapse(p, t)
    <2>1. /\ Approval(p, t) = "open" /\ Approval(p, t)' = "expired"
          /\ \A u \in Tokens \ {t} : Approval(p, u)' = Approval(p, u)
      BY <1>1, <1>5 DEF Approval
    <2>2. p \in Plans \ Contended
      BY DEF Serial
    <2>3. [q \in Plans \ Contended |-> [u \in Tokens |-> Approval(q, u)]][p][t] = "open"
      BY <2>1, <2>2
    <2>4. Lifecycle!SetToken(p, t, "expired")
      BY <1>3, <1>5, <2>1, PartsMove
    <2>5. /\ UNCHANGED [q \in Plans \ Contended |-> Phase(q)]
          /\ UNCHANGED [q \in Plans \ Contended |-> Actionable(plan[q].findings)]
          /\ UNCHANGED [q \in Plans \ Contended |-> Left(q)]
          /\ UNCHANGED [q \in Plans \ Contended |-> Under(q)]
          /\ UNCHANGED [q \in Plans \ Contended |-> RecordedUnder(q)]
      BY <1>2 DEF Serial
    <2> QED
      BY <2>3, <2>4, <2>5 DEF Lifecycle!Lapse
  <1> QED
    BY <1>4, <1>5 DEF Lifecycle!Next, Serial

\* Every step is a step of PlanLifecycle or shows in no plan.
LEMMA NextMaps ==
  ASSUME RefinementInv, RefinementInv', [Next]_vars
  PROVE  [Lifecycle!Next]_Lifecycle!lifecycle
  <1>1. Views /\ Views'
    BY StateHasViews, NextHasViews DEF RefinementInv, EffectsInv, Inv, SerialInv
  <1>2. CASE Next
    <2>1. ASSUME NEW c \in Clients, Starts(c) \/ GoesOn(c) \/ Ends(c),
                 \A d \in Clients \ {c} : req'[d] = req[d]
          PROVE  Lifecycle!Next \/ \A q \in Serial : Keeps(q)
      <3>1. CASE Starts(c)
        BY <1>1, <2>1, <3>1, StartKeeps
      <3>2. CASE GoesOn(c)
        BY <1>1, <2>1, <3>2, GoesOnMaps DEF StepOf
      <3>3. CASE Ends(c)
        <4>1. StepOf(c)
          BY <1>1, <2>1, <3>3 DEF StepOf
        <4> QED
          BY <3>3, <4>1, EndMaps DEF Lifecycle!Next
      <3> QED
        BY <2>1, <3>1, <3>2, <3>3
    <2>2. ASSUME NEW t \in Tokens, Expire(t)
          PROVE  Lifecycle!Next \/ \A q \in Serial : Keeps(q)
      BY <1>1, <2>2, ExpireMaps
    <2>3. ASSUME NEW r \in Resources, Sync(r)
          PROVE  \A q \in Serial : Keeps(q)
      BY <2>3 DEF Sync, Keeps, Phase, Left, Under, Doing, Approval, RecordedUnder
    <2>4. TypeInv
      BY DEF RefinementInv, EffectsInv, Inv
    <2>5. Lifecycle!Next \/ \A q \in Serial : Keeps(q)
      BY <1>2, <2>1, <2>2, <2>3, <2>4, StepsOfRequests
    <2> QED
      BY <2>5, KeepsAllMaps
  <1>3. CASE UNCHANGED vars
    <2>1. \A q \in Serial : Keeps(q)
      BY <1>3 DEF vars, Keeps, Phase, Left, Under, Doing, Approval, RecordedUnder
    <2> QED
      BY <2>1, KeepsAllMaps
  <1> QED
    BY <1>2, <1>3

LEMMA InitMaps == Init => Lifecycle!Init
  <1> SUFFICES ASSUME Init PROVE Lifecycle!Init
    OBVIOUS
  <1>1. \A p, pcs : "idle" \notin pcs => Doing(p, pcs) = {}
    BY DEF Init, Idle, Doing
  <1>2. \A p \in Plans \ Contended : p # Null
    BY NullAssumption
  <1>3. \A p \in Plans \ Contended : Phase(p) = "absent"
    BY DEF Init, NoPlan, Phase
  <1>4. \A p \in Plans \ Contended : Actionable(plan[p].findings) = {}
    BY DEF Init, NoPlan, Actionable
  <1>5. \A p \in Plans \ Contended : Left(p) = {} /\ Under(p) = {}
    BY <1>1 DEF Left, Under
  <1>6. \A p \in Plans \ Contended, t \in Tokens : Approval(p, t) = "none"
    BY <1>2 DEF Init, NoToken, Approval
  <1>7. \A p \in Plans \ Contended : RecordedUnder(p) = {}
    BY <1>2 DEF Init, NoRecord, RecordedUnder
  <1> QED
    BY <1>3, <1>4, <1>5, <1>6, <1>7 DEF Lifecycle!Init

LEMMA SpecRefinementInv == Spec => []RefinementInv
  BY InitRefinementInv, NextRefinementInv, PTL DEF Spec

\* Remediation keeps the promise of PlanLifecycle for every plan whose
\* requests come one after the other, wherever they break off and whatever
\* the requests of other plans do: an execution begins once, under an open
\* token, which is spent before the first action; it acts on each finding of
\* the plan once, is recorded under that token, and completes the plan last.
THEOREM RemediationImplementsLifecycle == Spec => ImplementsLifecycle
  <1>1. Init => Lifecycle!Init
    BY InitMaps
  <1>2. RefinementInv /\ RefinementInv' /\ [Next]_vars => [Lifecycle!Next]_Lifecycle!lifecycle
    BY NextMaps
  <1> QED
    BY <1>1, <1>2, SpecRefinementInv, PTL DEF Spec, ImplementsLifecycle, Lifecycle!Spec

LEMMA SpentOnceShows ==
  ASSUME TypeInv, RecordedUsedItsToken, SpentOnce
  PROVE  OneTokenSpent
  <1> SUFFICES ASSUME NEW p \in Plans \ Contended, NEW t \in Tokens, NEW u \in Tokens
               PROVE  /\ Approval(p, t) = "spent" /\ Approval(p, u) = "spent" => t = u
                      /\ t \in RecordedUnder(p) => Approval(p, t) = "spent"
    BY DEF OneTokenSpent, Lifecycle!OneTokenSpent
  <1>1. Approval(p, t) = "spent" <=> t \in Spent(p)
    BY DEF Approval, Spent
  <1>2. Approval(p, u) = "spent" <=> u \in Spent(p)
    BY DEF Approval, Spent
  <1>3. ASSUME t \in RecordedUnder(p)
        PROVE  t \in Spent(p)
    <2> PICK k \in Keys : record[k].plan = p /\ record[k].token = t
      BY <1>3 DEF RecordedUnder
    <2> QED
      BY NullAssumption DEF RecordedUsedItsToken, Recorded, Spent
  <1> QED
    BY <1>1, <1>2, <1>3 DEF SpentOnce, Serial

\* Of all the tokens issued for a plan, whether its executions break off or
\* not, at most one is ever spent, and only under that one is an execution of
\* the plan recorded: a token that UseToken saves as used is the plan's last.
THEOREM PlansSpendOneToken == Spec => []OneTokenSpent
  <1>1. RefinementInv => OneTokenSpent
    BY SpentOnceShows DEF RefinementInv, EffectsInv, Inv
  <1> QED
    BY <1>1, SpecRefinementInv, PTL

=============================================================================
