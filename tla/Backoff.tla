------------------------------- MODULE Backoff -------------------------------
(***************************************************************************)
(* exponentialBackoffWithJitter (packages/shared/src/observability/        *)
(* retry.ts): how long JobQueue.fail puts a job off, in milliseconds.      *)
(*                                                                         *)
(* Math.random() is n / Grain with n < Grain; jitterRatio is its default,  *)
(* a fifth, which no caller changes.                                       *)
(***************************************************************************)
EXTENDS JobQueue, Integers

CONSTANTS
    Grain,              \* how finely Math.random() is told apart
    Settings,           \* the configured [base, max] of the delays
    Ahead               \* bound on the failures to come that are looked at

ASSUME GrainAssumption == Grain \in Nat \ {0} /\ Ahead \in Nat
ASSUME SettingsAssumption == Settings \subseteq [base : Nat, max : Nat]

Draws == 0 .. Grain - 1

Least(a, b) == IF a < b THEN a ELSE b

Greatest(a, b) == IF a > b THEN a ELSE b

\* 2 ** n
TwoToThe[n \in Nat] == IF n = 0 THEN 1 ELSE 2 * TwoToThe[n - 1]

\* The delay before jitter.
Step(s, attempt) == Least(s.max, s.base * TwoToThe[Greatest(0, attempt - 1)])

\* A slip of the definition below: the jitter is as large as the step.
FullJitter(step, n) == (2 * step * (Grain + n) + Grain) \div (2 * Grain)

\* Math.round(exp + exp * 0.2 * Math.random()), which rounds a half up.
Jittered(step, n) == (2 * step * (5 * Grain + n) + 5 * Grain) \div (10 * Grain)

Delay(s, attempt, n) == Jittered(Step(s, attempt), n)

-----------------------------------------------------------------------------

\* Whenever fail() puts a job off, then for this delay and those of the
\* failures to come: jitter is added to what the cap has already cut, so a
\* delay may exceed the cap, by a fifth at most; it never undercuts the step;
\* and as long as the steps double it is too small for a failure to be waited
\* for less than the one before.  An attempt that a retry request has set back
\* to 0 before fail() reads it waits like a first.
BackoffIsOrdered ==
    \A e \in Execs : exec[e].pc = "deciding" /\ ~GivesUp(e) =>
        \A s \in Settings, attempt \in exec[e].seen .. exec[e].seen + Ahead, n \in Draws :
            /\ Delay(s, attempt, n) >= Step(s, Greatest(1, attempt))
            /\ 10 * Delay(s, attempt, n) <= 12 * s.max + 5
            /\ attempt > 0 /\ 2 * Step(s, attempt) <= s.max =>
                  \A later \in Draws :
                      Delay(s, attempt, n) <= Delay(s, attempt + 1, later)

=============================================================================
