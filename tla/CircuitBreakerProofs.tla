------------------------ MODULE CircuitBreakerProofs ------------------------
(***************************************************************************)
(* Theorems about CircuitBreaker, for any number of calls in flight, any   *)
(* threshold and any timeouts.                                             *)
(***************************************************************************)
EXTENDS CircuitBreaker, FiniteSetTheorems, TLAPS

-----------------------------------------------------------------------------
(* Arithmetic.                                                             *)

LEMMA Distributes ==
  ASSUME NEW a \in Nat, NEW k \in Nat
  PROVE  /\ a * k \in Nat
         /\ (a + 1) * k = a * k + k
  OBVIOUS

LEMMA Monotone ==
  ASSUME NEW a \in Nat, NEW b \in Nat, NEW k \in Nat, a <= b
  PROVE  a * k <= b * k
  <1>1. PICK d \in Nat : b = a + d
    <2>1. b - a \in Nat /\ b = a + (b - a)
      OBVIOUS
    <2> QED
      BY <2>1
  <1>2. d * k \in Nat /\ a * k \in Nat /\ b * k = a * k + d * k
    BY <1>1
  <1> QED
    BY <1>2

LEMMA BoundsTyped ==
  /\ Cardinality(Calls) \in Nat
  /\ ResetTimeout - 1 \in Nat
  /\ ShutBound \in Nat
  <1>1. Cardinality(Calls) \in Nat
    BY CallsAssumption, FS_CardinalityType
  <1>2. ResetTimeout - 1 \in Nat
    BY BreakerAssumption
  <1> QED
    BY <1>1, <1>2, Distributes DEF ShutBound

-----------------------------------------------------------------------------
(* Type correctness.                                                       *)

LEMMA InitTyped == Init => TypeOK
  BY BoundsTyped, BreakerAssumption DEF Init, TypeOK, CallType

LEMMA EndsTyped ==
  ASSUME call \in [Calls -> CallType], NEW c \in Calls, Ends(c)
  PROVE  call' \in [Calls -> CallType]
  BY BreakerAssumption DEF Ends, CallType

LEMMA MovesTyped ==
  ASSUME call \in [Calls -> CallType], NEW c \in Calls,
         NEW pc \in {"reading", "lost", "broken"}, Moves(c, pc)
  PROVE  call' \in [Calls -> CallType]
  BY DEF Moves, CallType

LEMMA ResultTyped ==
  ASSUME TypeOK, OnSuccess \/ OnFailure
  PROVE  /\ state' \in {"closed", "open", "half_open"}
         /\ failures' \in 0 .. FailureThreshold
         /\ openedAgo' \in 0 .. ResetTimeout
  BY BreakerAssumption DEF TypeOK, OnSuccess, OnFailure

LEMMA SameTickTyped ==
  ASSUME shut \in 0 .. ShutBound + 1, SameTick
  PROVE  shut' \in 0 .. ShutBound + 1
  BY BoundsTyped DEF SameTick

LEMMA NextTyped == TypeOK /\ [Next]_vars => TypeOK'
  <1> SUFFICES ASSUME TypeOK, [Next]_vars
               PROVE  TypeOK'
    OBVIOUS
  <1> USE DEF TypeOK
  <1>1. CASE UNCHANGED vars
    BY <1>1 DEF vars
  <1>2. ASSUME NEW c \in Calls, Begin(c)
        PROVE  TypeOK'
    <2>1. call' \in [Calls -> CallType]
      BY <1>2, BreakerAssumption DEF Begin, CallType
    <2> QED
      BY <1>2, <2>1, SameTickTyped DEF Begin, Looked
  <1>3. ASSUME NEW c \in Calls, Respond(c)
        PROVE  TypeOK'
    BY <1>3, MovesTyped DEF Respond
  <1>4. ASSUME NEW c \in Calls, Succeed(c)
        PROVE  TypeOK'
    BY <1>4, EndsTyped, ResultTyped, SameTickTyped DEF Succeed
  <1>5. ASSUME NEW c \in Calls, Fail(c)
        PROVE  TypeOK'
    BY <1>5, EndsTyped, ResultTyped, SameTickTyped DEF Fail
  <1>6. ASSUME NEW c \in Calls, Drop(c)
        PROVE  TypeOK'
    BY <1>6, MovesTyped DEF Drop
  <1>7. CASE Toggle
    BY <1>7 DEF Toggle
  <1>8. CASE Tick
    <2>1. call' \in [Calls -> CallType]
      <3>1. ASSUME NEW c \in Calls
            PROVE  (IF Timed(c) THEN [call[c] EXCEPT !.left = @ - 1] ELSE call[c])
                      \in CallType
        BY <1>8, BreakerAssumption DEF Tick, Timed, CallType
      <3> QED
        BY <1>8, <3>1 DEF Tick
    <2>2. openedAgo' \in 0 .. ResetTimeout
      BY <1>8, BreakerAssumption DEF Tick
    <2>3. shut' \in 0 .. ShutBound + 1
      BY <1>8, BoundsTyped DEF Tick
    <2> QED
      BY <1>8, <2>1, <2>2, <2>3 DEF Tick
  <1> QED
    BY <1>1, <1>2, <1>3, <1>4, <1>5, <1>6, <1>7, <1>8 DEF Next

\* Every variable keeps its type: the breaker has the three states of
\* circuit-breaker.ts, counts within their caps, and calls that are in time.
THEOREM TypeCorrect == Spec => []TypeOK
  <1> QED
    BY InitTyped, NextTyped, PTL DEF Spec

-----------------------------------------------------------------------------
(* The state of the breaker and its count of failures.                     *)

LEMMA FewStep == TypeOK /\ ClosedWhileFew /\ [Next]_vars => ClosedWhileFew'
  <1> SUFFICES ASSUME TypeOK, ClosedWhileFew, [Next]_vars
               PROVE  ClosedWhileFew'
    OBVIOUS
  <1> USE BreakerAssumption DEF TypeOK, ClosedWhileFew
  <1>1. CASE UNCHANGED <<state, failures>>
    BY <1>1
  <1>2. ASSUME NEW c \in Calls, Begin(c)
        PROVE  ClosedWhileFew'
    BY <1>2 DEF Begin, Looked
  <1>3. CASE OnSuccess
    BY <1>3 DEF OnSuccess
  <1>4. CASE OnFailure
    BY <1>4 DEF OnFailure
  <1> QED
    BY <1>1, <1>2, <1>3, <1>4
    DEF Next, vars, Respond, Succeed, Fail, Drop, Toggle, Tick

\* However results are ordered, and whatever the breaker was when their calls
\* began, exec lets everybody pass (closed) exactly while onFailure has counted
\* fewer failures than the threshold since the last onSuccess.
THEOREM ClosedMeansFewFailures == Spec => []ClosedWhileFew
  <1>1. Init => ClosedWhileFew
    BY BreakerAssumption DEF Init, ClosedWhileFew
  <1> QED
    BY <1>1, FewStep, TypeCorrect, PTL DEF Spec

-----------------------------------------------------------------------------
(* How long the breaker is shut.  Each failure that moves openedAt uses up *)
(* a call in flight, and none begins while the breaker is shut.            *)

InFlight == {c \in Calls : ~At(c, "idle")}

ShutInv ==
    IF Admits THEN shut = 0
    ELSE shut + (Cardinality(InFlight) + 1) * (ResetTimeout - 1)
             <= ShutBound + openedAgo

LEMMA InFlightFinite ==
  /\ IsFiniteSet(InFlight)
  /\ Cardinality(InFlight) \in Nat
  /\ Cardinality(InFlight) <= Cardinality(Calls)
  <1>1. InFlight \subseteq Calls
    BY DEF InFlight
  <1> QED
    BY <1>1, CallsAssumption, FS_Subset, FS_CardinalityType

\* A call that ends is one less in flight.
LEMMA EndsOneLess ==
  ASSUME call \in [Calls -> CallType], NEW c \in Calls, ~At(c, "idle"), Ends(c)
  PROVE  /\ Cardinality(InFlight') \in Nat
         /\ Cardinality(InFlight) = Cardinality(InFlight') + 1
  <1>1. c \in InFlight /\ InFlight' = InFlight \ {c}
    BY DEF InFlight, At, Ends
  <1>2. Cardinality(InFlight') = Cardinality(InFlight) - 1
          /\ IsFiniteSet(InFlight')
    BY <1>1, InFlightFinite, FS_RemoveElement
  <1> QED
    BY <1>2, InFlightFinite, FS_CardinalityType

\* Nothing that keeps the set of calls in flight, the state and the clock
\* matters.
LEMMA ShutKept ==
  ASSUME ShutInv, UNCHANGED <<state, openedAgo, shut>>, InFlight' = InFlight
  PROVE  ShutInv'
  BY DEF ShutInv, Admits, Looked

LEMMA MovesInFlight ==
  ASSUME call \in [Calls -> CallType], NEW c \in Calls, ~At(c, "idle"),
         NEW pc \in {"reading", "lost", "broken"}, Moves(c, pc)
  PROVE  InFlight' = InFlight
  BY DEF Moves, CallType, InFlight, At

LEMMA FailKeepsShutInv ==
  ASSUME TypeOK, ShutInv, NEW c \in Calls, Fail(c)
  PROVE  ShutInv'
  <1> DEFINE k == ResetTimeout - 1
             i == Cardinality(InFlight)
             j == Cardinality(InFlight')
             n == Cardinality(Calls)
  <1>1. k \in Nat /\ n \in Nat /\ i \in Nat /\ i <= n
    BY BoundsTyped, InFlightFinite
  <1>2. j \in Nat /\ i = j + 1
    BY EndsOneLess DEF Fail, At, TypeOK
  <1>3. i * k \in Nat /\ (i + 1) * k = i * k + k /\ i * k <= n * k
    BY <1>1, Distributes, Monotone
  <1>4. openedAgo' \in Nat
    BY ResultTyped DEF Fail
  <1>5. shut \in Nat /\ ShutBound = n * k
    BY DEF TypeOK, ShutBound
  <1>6. CASE Admits'
    BY <1>6 DEF Fail, SameTick, ShutInv
  <1>7. CASE ~Admits' /\ Admits
    <2>1. shut' = 0
      BY <1>7 DEF Fail, SameTick, ShutInv
    <2>2. 0 + i * k <= ShutBound + openedAgo'
      BY <1>1, <1>3, <1>4, <1>5
    <2> QED
      BY <1>2, <1>7, <2>1, <2>2 DEF ShutInv, ShutBound
  <1>8. CASE ~Admits' /\ ~Admits
    <2>1. shut' = shut
      BY <1>8 DEF Fail, SameTick
    <2>2. shut + (i + 1) * k <= ShutBound + openedAgo
      BY <1>8 DEF ShutInv
    <2>3. openedAgo \in Nat /\ openedAgo <= k
      BY <1>8, BreakerAssumption DEF Admits, Looked, TypeOK
    <2>4. shut + i * k <= ShutBound + openedAgo'
      BY <1>1, <1>3, <1>4, <1>5, <2>2, <2>3
    <2> QED
      BY <1>2, <1>8, <2>1, <2>4 DEF ShutInv, ShutBound
  <1> QED
    BY <1>6, <1>7, <1>8

LEMMA TickKeepsShutInv ==
  ASSUME TypeOK, ShutInv, Tick
  PROVE  ShutInv'
  <1>1. InFlight' = InFlight
    <2>1. ASSUME NEW c \in Calls
          PROVE  call'[c].pc = call[c].pc
      BY DEF Tick, TypeOK, CallType
    <2> QED
      BY <2>1 DEF InFlight, At
  <1>2. CASE Admits'
    BY <1>2 DEF Tick, ShutInv
  <1>3. CASE ~Admits'
    <2>1. ~Admits /\ openedAgo' = openedAgo + 1
      BY <1>3, BreakerAssumption DEF Admits, Looked, Tick, TypeOK
    <2>2. PICK z \in Nat : shut' = z /\ z <= shut + 1
      BY <1>3, BoundsTyped DEF Tick, TypeOK
    <2> DEFINE m == (Cardinality(InFlight) + 1) * (ResetTimeout - 1)
    <2>3. m \in Nat /\ shut + m <= ShutBound + openedAgo
      BY <2>1, InFlightFinite, BoundsTyped, Distributes DEF ShutInv
    <2>4. shut \in Nat /\ openedAgo \in Nat /\ ShutBound \in Nat
      BY BoundsTyped, BreakerAssumption DEF TypeOK
    <2> HIDE DEF m
    <2>5. shut' + m <= ShutBound + openedAgo'
      BY <2>1, <2>2, <2>3, <2>4
    <2> QED
      BY <1>1, <1>3, <2>5 DEF ShutInv, ShutBound, m
  <1> QED
    BY <1>2, <1>3

LEMMA ShutStep == TypeOK /\ ShutInv /\ [Next]_vars => ShutInv'
  <1> SUFFICES ASSUME TypeOK, ShutInv, [Next]_vars
               PROVE  ShutInv'
    OBVIOUS
  <1>1. CASE UNCHANGED vars
    BY <1>1, ShutKept DEF vars, InFlight, At
  <1>2. ASSUME NEW c \in Calls, Begin(c)
        PROVE  ShutInv'
    <2>1. Admits'
      BY <1>2 DEF Begin, Admits, Looked
    <2> QED
      BY <1>2, <2>1 DEF Begin, SameTick, ShutInv
  <1>3. ASSUME NEW c \in Calls, Respond(c)
        PROVE  ShutInv'
    <2>1. InFlight' = InFlight
      BY <1>3, MovesInFlight DEF Respond, At, TypeOK
    <2> QED
      BY <1>3, <2>1, ShutKept DEF Respond
  <1>4. ASSUME NEW c \in Calls, Succeed(c)
        PROVE  ShutInv'
    <2>1. Admits'
      BY <1>4 DEF Succeed, OnSuccess, Admits, Looked
    <2> QED
      BY <1>4, <2>1 DEF Succeed, SameTick, ShutInv
  <1>5. ASSUME NEW c \in Calls, Fail(c)
        PROVE  ShutInv'
    BY <1>5, FailKeepsShutInv
  <1>6. ASSUME NEW c \in Calls, Drop(c)
        PROVE  ShutInv'
    <2>1. InFlight' = InFlight
      BY <1>6, MovesInFlight DEF Drop, At, TypeOK
    <2> QED
      BY <1>6, <2>1, ShutKept DEF Drop
  <1>7. CASE Toggle
    BY <1>7, ShutKept DEF Toggle, InFlight, At
  <1>8. CASE Tick
    BY <1>8, TickKeepsShutInv
  <1> QED
    BY <1>1, <1>2, <1>3, <1>4, <1>5, <1>6, <1>7, <1>8 DEF Next

LEMMA ShutInvBounds == TypeOK /\ ShutInv => ShutIsBounded
  <1> SUFFICES ASSUME TypeOK, ShutInv
               PROVE  shut <= ShutBound
    BY DEF ShutIsBounded
  <1>1. CASE Admits
    BY <1>1, BoundsTyped DEF ShutInv
  <1>2. CASE ~Admits
    <2> DEFINE k == ResetTimeout - 1
               i == Cardinality(InFlight)
    <2>1. i \in Nat /\ k \in Nat /\ i * k \in Nat /\ (i + 1) * k = i * k + k
      BY InFlightFinite, BoundsTyped, Distributes
    <2>2. shut + (i + 1) * k <= ShutBound + openedAgo
      BY <1>2 DEF ShutInv
    <2>3. openedAgo \in Nat /\ openedAgo <= k
      BY <1>2, BreakerAssumption DEF Admits, Looked, TypeOK
    <2> QED
      BY <2>1, <2>2, <2>3, BoundsTyped DEF TypeOK
  <1> QED
    BY <1>1, <1>2

\* Late failures move openedAt, but only calls that were in flight can fail:
\* exec lets a call pass again after less than ResetTimeout for each of them.
THEOREM BreakerReopensInTime == Spec => []ShutIsBounded
  <1>1. Init => ShutInv
    BY DEF Init, ShutInv, Admits, Looked
  <1> QED
    BY <1>1, ShutStep, ShutInvBounds, TypeCorrect, PTL DEF Spec

=============================================================================
