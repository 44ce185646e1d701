--------------------------- MODULE PlanLifecycle ---------------------------
(***************************************************************************)
(* What remediation promises to whoever proposes and approves a plan, with *)
(* no request, document or idempotency key in sight.  A plan is approved   *)
(* only once there is a token for it; it is cleared for execution under    *)
(* one of its tokens that is open, and begun once; that token is spent     *)
(* before the first action, each action is carried out once, and the       *)
(* execution is recorded under that token before the plan is completed.    *)
(* An execution that breaks off leaves its plan broken for good.           *)
(***************************************************************************)
EXTENDS Naturals

CONSTANTS Plans, Findings, Tokens

VARIABLES
    phase,      \* the phase of each plan
    actions,    \* the findings it acts on
    left,       \* those an execution has yet to act on
    under,      \* the token under which the plan is cleared or executed, if any
    approval,   \* for each plan, the state of the tokens issued for it
    records     \* the tokens under which executions of the plan are recorded

lifecycle == <<phase, actions, left, under, approval, records>>

Phases == {"absent", "proposed", "approved", "cleared", "begun", "applying",
           "recorded", "completed", "broken"}

TypeOK ==
    /\ phase \in [Plans -> Phases]
    /\ actions \in [Plans -> SUBSET Findings]
    /\ left \in [Plans -> SUBSET Findings]
    /\ under \in [Plans -> SUBSET Tokens]
    /\ approval \in [Plans -> [Tokens -> {"none", "open", "expired", "spent"}]]
    /\ records \in [Plans -> SUBSET Tokens]

Init ==
    /\ phase = [p \in Plans |-> "absent"]
    /\ actions = [p \in Plans |-> {}]
    /\ left = [p \in Plans |-> {}]
    /\ under = [p \in Plans |-> {}]
    /\ approval = [p \in Plans |-> [t \in Tokens |-> "none"]]
    /\ records = [p \in Plans |-> {}]

Move(p, from, to) == /\ phase[p] = from
                     /\ phase' = [phase EXCEPT ![p] = to]

SetToken(p, t, state) == approval' = [approval EXCEPT ![p][t] = state]

Propose(p, findings) ==
    /\ Move(p, "absent", "proposed")
    /\ actions' = [actions EXCEPT ![p] = findings]
    /\ UNCHANGED <<left, under, approval, records>>

\* A token is issued for a plan that is not being executed, a second one too.
Issue(p, t) ==
    /\ phase[p] \in {"proposed", "approved"}
    /\ approval[p][t] = "none"
    /\ SetToken(p, t, "open")
    /\ UNCHANGED <<phase, actions, left, under, records>>

Approve(p) ==
    /\ Move(p, "proposed", "approved")
    /\ \E t \in Tokens : approval[p][t] # "none"
    /\ UNCHANGED <<actions, left, under, approval, records>>

\* The time of a token runs out, which is of no interest once it is cleared.
Lapse(p, t) ==
    /\ approval[p][t] = "open"
    /\ SetToken(p, t, "expired")
    /\ UNCHANGED <<phase, actions, left, under, records>>

Clear(p, t) ==
    /\ Move(p, "approved", "cleared")
    /\ approval[p][t] = "open"
    /\ under' = [under EXCEPT ![p] = {t}]
    /\ UNCHANGED <<actions, left, approval, records>>

\* Nothing has been done yet: the plan can be cleared again.
Withdraw(p) ==
    /\ Move(p, "cleared", "approved")
    /\ under' = [under EXCEPT ![p] = {}]
    /\ UNCHANGED <<actions, left, approval, records>>

Begin(p) ==
    /\ Move(p, "cleared", "begun")
    /\ UNCHANGED <<actions, left, under, approval, records>>

Spend(p, t) ==
    /\ Move(p, "begun", "applying")
    /\ under[p] = {t}
    /\ SetToken(p, t, "spent")
    /\ left' = [left EXCEPT ![p] = actions[p]]
    /\ UNCHANGED <<actions, under, records>>

Act(p, f) ==
    /\ phase[p] = "applying"
    /\ f \in left[p]
    /\ left' = [left EXCEPT ![p] = @ \ {f}]
    /\ UNCHANGED <<phase, actions, under, approval, records>>

Record(p) ==
    /\ Move(p, "applying", "recorded")
    /\ left[p] = {}
    /\ records' = [records EXCEPT ![p] = @ \cup under[p]]
    /\ UNCHANGED <<actions, left, under, approval>>

Complete(p) ==
    /\ Move(p, "recorded", "completed")
    /\ under' = [under EXCEPT ![p] = {}]
    /\ UNCHANGED <<actions, left, approval, records>>

BreakOff(p) ==
    /\ phase[p] \in {"begun", "applying", "recorded"}
    /\ phase' = [phase EXCEPT ![p] = "broken"]
    /\ left' = [left EXCEPT ![p] = {}]
    /\ under' = [under EXCEPT ![p] = {}]
    /\ UNCHANGED <<actions, approval, records>>

Next ==
    \E p \in Plans :
        \/ \E findings \in SUBSET Findings : Propose(p, findings)
        \/ \E t \in Tokens : Issue(p, t) \/ Lapse(p, t) \/ Clear(p, t) \/ Spend(p, t)
        \/ \E f \in Findings : Act(p, f)
        \/ Approve(p) \/ Withdraw(p) \/ Begin(p)
        \/ Record(p) \/ Complete(p) \/ BreakOff(p)

Spec == Init /\ [][Next]_lifecycle

-----------------------------------------------------------------------------
\* However often a plan is approved and executions of it break off, one of its
\* tokens is spent at most, and what is recorded is recorded under that one.
OneTokenSpent ==
    \A p \in Plans, t, u \in Tokens :
        /\ approval[p][t] = "spent" /\ approval[p][u] = "spent" => t = u
        /\ t \in records[p] => approval[p][t] = "spent"

=============================================================================
