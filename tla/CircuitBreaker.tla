--------------------------- MODULE CircuitBreaker ---------------------------
(***************************************************************************)
(* The circuit breaker of one worker process and the calls of the          *)
(* diagnostics service that pass through it: CircuitBreaker.exec           *)
(* (packages/shared/src/observability/circuit-breaker.ts),                 *)
(* DiagnosticsClient.analyze and withTimeout.                              *)
(*                                                                         *)
(* A process runs several calls at once: WORKER_CONCURRENCY jobs, and the  *)
(* runs of jobs that timed out, which go on behind.  Their results come in *)
(* any order, and long after the breaker has changed its mind.             *)
(*                                                                         *)
(* Time passes in ticks; a timer that is due fires before the next.        *)
(***************************************************************************)
EXTENDS Naturals, FiniteSets

CONSTANTS
    Calls,              \* places for calls of the service in flight
    FailureThreshold,
    ResetTimeout,       \* CB_RESET_TIMEOUT_MS, in ticks
    CallTimeout         \* DIAGNOSTICS_TIMEOUT_MS, in ticks

ASSUME CallsAssumption == IsFiniteSet(Calls)
ASSUME BreakerAssumption ==
    /\ FailureThreshold \in Nat \ {0}
    /\ ResetTimeout \in Nat \ {0}
    /\ CallTimeout \in Nat \ {0}

VARIABLES
    state,      \* of the breaker
    failures,   \* since the last success; counted no further than the threshold
    openedAgo,  \* Date.now() - openedAt; counted no further than ResetTimeout
    call,       \* the calls
    service,    \* whether requests are answered with a success
    shut        \* ticks for which no call could have passed

vars == <<state, failures, openedAgo, call, service, shut>>

\* What a call waits for:
\*   fetching   the response, for left ticks at most
\*   lost       a response that will not come
\*   reading    the body: withTimeout ends with the headers, so for any time
\*   broken     a body that will not be whole
CallType == [pc : {"idle", "fetching", "lost", "reading", "broken"},
             left : 0 .. CallTimeout]

\* The ticks of ShutIsBounded below; they are counted one further.
ShutBound == Cardinality(Calls) * (ResetTimeout - 1)

TypeOK ==
    /\ state \in {"closed", "open", "half_open"}
    /\ failures \in 0 .. FailureThreshold
    /\ openedAgo \in 0 .. ResetTimeout
    /\ call \in [Calls -> CallType]
    /\ service \in {"up", "down"}
    /\ shut \in 0 .. ShutBound + 1

Init ==
    /\ state = "closed"
    /\ failures = 0
    /\ openedAgo = ResetTimeout
    /\ call = [c \in Calls |-> [pc |-> "idle", left |-> 0]]
    /\ service = "up"
    /\ shut = 0

At(c, pc) == call[c].pc = pc

Moves(c, pc) == call' = [call EXCEPT ![c].pc = pc]

Ends(c) == call' = [call EXCEPT ![c] = [pc |-> "idle", left |-> 0]]

\* Two slips of the definition below: another spelling of the state, and a
\* look only when no call is in flight.
LookedOtherwise == IF state = "open" /\ openedAgo = ResetTimeout THEN "half-open" ELSE state

LookedWhenQuiet ==
    IF state = "open" /\ openedAgo = ResetTimeout /\ \A c \in Calls : At(c, "idle")
    THEN "half_open" ELSE state

\* The state that maybeHalfOpen leaves.
Looked == IF state = "open" /\ openedAgo = ResetTimeout THEN "half_open" ELSE state

\* A call would pass.
Admits == Looked # "open"

\* No call can pass, and no time has passed.
SameTick == shut' = IF Admits' THEN 0 ELSE shut

-----------------------------------------------------------------------------
(* More slips; Spec uses none of them.                                     *)

\* The count of failures survives a success.
OnSuccessKeeps ==
    /\ state' = "closed"
    /\ UNCHANGED <<failures, openedAgo>>

\* Whoever is refused counts as failed.
RefusalFails(c) ==
    /\ At(c, "idle")
    /\ IF Admits
       THEN /\ state' = Looked
            /\ call' = [call EXCEPT ![c] = [pc |-> "fetching", left |-> CallTimeout]]
            /\ UNCHANGED <<failures, openedAgo>>
       ELSE /\ openedAgo' = 0
            /\ UNCHANGED <<state, failures, call>>
    /\ SameTick
    /\ UNCHANGED service

-----------------------------------------------------------------------------
OnSuccess ==
    /\ failures' = 0
    /\ state' = "closed"
    /\ UNCHANGED openedAgo

OnFailure ==
    /\ failures' = IF failures < FailureThreshold THEN failures + 1 ELSE failures
    /\ IF state = "half_open" \/ failures' = FailureThreshold
       THEN state' = "open" /\ openedAgo' = 0
       ELSE UNCHANGED <<state, openedAgo>>

\* exec, up to the first await.  A call that is refused changes nothing.
Begin(c) ==
    /\ At(c, "idle")
    /\ Admits
    /\ state' = Looked
    /\ call' = [call EXCEPT ![c] = [pc |-> "fetching", left |-> CallTimeout]]
    /\ SameTick
    /\ UNCHANGED <<failures, openedAgo, service>>

\* The headers of a 2xx response arrive.
Respond(c) ==
    /\ At(c, "fetching")
    /\ service = "up"
    /\ Moves(c, "reading")
    /\ UNCHANGED <<state, failures, openedAgo, service, shut>>

Succeed(c) ==
    /\ At(c, "reading")
    /\ OnSuccess
    /\ Ends(c)
    /\ SameTick
    /\ UNCHANGED service

\* fetch rejects, the response has another status (a 4xx counts like a 5xx),
\* the timer fires, or the body cannot be read.
Fail(c) ==
    /\ \/ At(c, "fetching") /\ service = "down"
       \/ At(c, "lost") /\ call[c].left = 0
       \/ At(c, "broken")
    /\ OnFailure
    /\ Ends(c)
    /\ SameTick
    /\ UNCHANGED service

\* The service, or the network, drops what it has been sent.
Drop(c) ==
    /\ service = "down"
    /\ \/ At(c, "fetching") /\ Moves(c, "lost")
       \/ At(c, "reading") /\ Moves(c, "broken")
    /\ UNCHANGED <<state, failures, openedAgo, service, shut>>

Toggle ==
    /\ service' = IF service = "up" THEN "down" ELSE "up"
    /\ UNCHANGED <<state, failures, openedAgo, call, shut>>

Timed(c) == call[c].pc \in {"fetching", "lost"}

Tick ==
    /\ \A c \in Calls : Timed(c) => call[c].left > 0
    /\ openedAgo' = IF openedAgo < ResetTimeout THEN openedAgo + 1 ELSE openedAgo
    /\ call' = [c \in Calls |-> IF Timed(c) THEN [call[c] EXCEPT !.left = @ - 1]
                                            ELSE call[c]]
    /\ UNCHANGED <<state, failures, service>>
    /\ shut' = IF Admits' THEN 0 ELSE IF shut > ShutBound THEN shut ELSE shut + 1

Next ==
    \/ \E c \in Calls : Begin(c) \/ Respond(c) \/ Succeed(c) \/ Fail(c) \/ Drop(c)
    \/ Toggle
    \/ Tick

Spec == Init /\ [][Next]_vars

\* Clocks run, responses come while the service is up, timers fire and
\* promises settle.  Bodies may hang for ever, and nobody need call.
Fairness ==
    /\ WF_vars(Tick)
    /\ \A c \in Calls : /\ WF_vars(Respond(c))
                        /\ WF_vars(Fail(c) /\ ~At(c, "broken"))

FairSpec == Spec /\ Fairness

-----------------------------------------------------------------------------
\* exec reads the state and onFailure the count, and each is set where the
\* other is not looked at: whatever the order of results, the breaker is
\* closed exactly while the failures since the last success are too few.  (So
\* the half-open case of onFailure decides nothing.)
ClosedWhileFew == state = "closed" <=> failures < FailureThreshold

\* Every late failure of an open breaker moves openedAt: ResetTimeout after it
\* opened, a call may still be refused.  The calls in flight when it opens are
\* all that can fail, so it is never shut for longer than this.
ShutIsBounded == shut <= ShutBound

\* An outage leaves no trace: when requests are answered with a success from
\* some time on, calls pass from some time on, whatever is still in flight.
OutageEnds == <>[](service = "up") => <>[]Admits

=============================================================================
