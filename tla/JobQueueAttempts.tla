-------------------------- MODULE JobQueueAttempts --------------------------
(***************************************************************************)
(* How far attempts overrun their ceiling, and what a worker that stopped  *)
(* leaves behind: theorems about JobQueue under every kind of fault.  And  *)
(* how long failed attempts are put off: about Backoff, whatever happens.  *)
(***************************************************************************)
EXTENDS JobQueueProofs, Backoff, FiniteSetTheorems, WellFoundedInduction

-----------------------------------------------------------------------------
(* A worker that exits leaves no running job of its own.                   *)

\* Without a fault, the document a worker owns while it runs is held by one of
\* its slots, and a stopped worker has no slot at work.
OwnedIsHeld ==
    /\ faults = 0 =>
          \A w \in Workers, j \in Jobs :
              job[j].status = "running" /\ job[j].claimedBy = w =>
                  \E s \in Slots : Holds(<<w, s>>, j)
    /\ \A e \in Execs : mode[e[1]] = "stopped" => exec[e].pc = "idle"

LEMMA NextOwnedIsHeld == TypeInv /\ OwnedIsHeld /\ [Next]_vars => OwnedIsHeld'
  <1> SUFFICES ASSUME TypeInv, OwnedIsHeld, [Next]_vars PROVE OwnedIsHeld'
    OBVIOUS
  <1>0. /\ job \in [Jobs -> JobType]
        /\ mode \in [Workers -> {"up", "draining", "stopped", "crashed"}]
        /\ exec \in [Execs -> ExecType]
        /\ faults \in Nat
        /\ \A e \in Execs : e = <<e[1], e[2]>> /\ e[1] \in Workers /\ e[2] \in Slots
        /\ Null \notin Workers
        /\ \A e \in Execs : Busy(e) => exec[e].job \in Jobs
    BY NullAssumption, FaultsAssumption DEF TypeInv, TypeOK, WellFormed, Execs
  <1> USE DEF OwnedIsHeld
  \* Steps that break no holder's claim and add no owner.
  <1>1. ASSUME faults' = faults,
               \A w \in Workers, j \in Jobs :
                   job'[j].status = "running" /\ job'[j].claimedBy = w =>
                       /\ job[j].status = "running" /\ job[j].claimedBy = w
                       /\ \A s \in Slots : Holds(<<w, s>>, j) => Holds(<<w, s>>, j)'
        PROVE  faults' = 0 =>
                 \A w \in Workers, j \in Jobs :
                     job'[j].status = "running" /\ job'[j].claimedBy = w =>
                         \E s \in Slots : Holds(<<w, s>>, j)'
    BY <1>1
  <1>2. ASSUME NEW j \in Jobs,
               \/ Create(j) \/ BackoffElapses(j) \/ LeaseExpires(j)
               \/ \E e \in Execs : Heartbeat(e, j)
               \/ \E w \in Workers : RecoverAbandoned(w, j)
        PROVE  OwnedIsHeld'
    <2>1. /\ exec' = exec /\ mode' = mode /\ faults' = faults
          /\ \A k \in Jobs : job'[k].status = "running" =>
                job[k].status = "running" /\ job'[k].claimedBy = job[k].claimedBy
      <3>1. CASE Create(j)
        BY <1>0, <3>1 DEF Create, StoreJob
      <3>2. CASE BackoffElapses(j) \/ LeaseExpires(j)
        BY <1>0, <3>2 DEF BackoffElapses, LeaseExpires, JobType
      <3>3. ASSUME NEW e \in Execs, Heartbeat(e, j)
            PROVE  /\ exec' = exec /\ mode' = mode /\ faults' = faults
                   /\ \A k \in Jobs : job'[k].status = "running" =>
                        job[k].status = "running" /\ job'[k].claimedBy = job[k].claimedBy
        BY <1>0, <3>3 DEF Heartbeat, JobType
      <3>4. ASSUME NEW w \in Workers, RecoverAbandoned(w, j)
            PROVE  /\ exec' = exec /\ mode' = mode /\ faults' = faults
                   /\ \A k \in Jobs : job'[k].status = "running" =>
                        job[k].status = "running" /\ job'[k].claimedBy = job[k].claimedBy
        BY <1>0, <3>4 DEF RecoverAbandoned
      <3> QED
        BY <1>2, <3>1, <3>2, <3>3, <3>4
    <2> QED
      BY <1>1, <2>1 DEF Holds, Busy
  <1>3. ASSUME NEW e \in Execs, NEW j \in Jobs, Claim(e, j) PROVE OwnedIsHeld'
    <2>1. /\ job' = [job EXCEPT ![j] = job'[j]]
          /\ job'[j].claimedBy = e[1]
          /\ exec' = [exec EXCEPT ![e] = exec'[e]]
          /\ exec[e].pc = "claiming"
          /\ exec'[e].pc = "running" /\ exec'[e].job = j
          /\ mode' = mode /\ faults' = faults
      BY <1>0, <1>3 DEF Claim, TakeJob
    <2>2. Holds(<<e[1], e[2]>>, j)'
      BY <1>0, <2>1 DEF Holds, Busy
    <2>3. \A k \in Jobs, f \in Execs : Holds(f, k) => Holds(f, k)'
      BY <1>0, <2>1 DEF Holds, Busy
    <2>4. \A k \in Jobs \ {j} : job'[k] = job[k]
      BY <1>0, <2>1
    <2>5. faults' = 0 =>
            \A w \in Workers, k \in Jobs :
                job'[k].status = "running" /\ job'[k].claimedBy = w =>
                    \E s \in Slots : Holds(<<w, s>>, k)'
      <3> SUFFICES ASSUME faults' = 0, NEW w \in Workers, NEW k \in Jobs,
                          job'[k].status = "running", job'[k].claimedBy = w
                   PROVE  \E s \in Slots : Holds(<<w, s>>, k)'
        OBVIOUS
      <3>1. CASE k = j
        BY <1>0, <2>1, <2>2, <3>1
      <3>2. CASE k # j
        <4>1. PICK s \in Slots : Holds(<<w, s>>, k)
          BY <2>1, <2>4, <3>2
        <4> QED
          BY <2>3, <4>1 DEF Execs
      <3> QED
        BY <3>1, <3>2
    <2>6. \A f \in Execs : mode'[f[1]] = "stopped" => exec'[f].pc = "idle"
      BY <1>0, <2>1
    <2> QED
      BY <2>5, <2>6
  <1>4. ASSUME NEW e \in Execs, Complete(e) \/ FailWrite(e) PROVE OwnedIsHeld'
    <2>1. /\ exec[e].job \in Jobs
          /\ job'[exec[e].job].status # "running"
          /\ \A k \in Jobs \ {exec[e].job} : job'[k] = job[k]
          /\ exec' = [exec EXCEPT ![e] = IdleExec]
          /\ mode' = mode /\ faults' = faults
      <3>1. CASE Complete(e)
        BY <1>0, <3>1 DEF Complete, MarkCompleted, Return, Busy, JobType
      <3>2. CASE FailWrite(e)
        BY <1>0, <3>2 DEF FailWrite, Return, Busy, JobType
      <3> QED
        BY <1>4, <3>1, <3>2
    <2>2. \A f \in Execs, k \in Jobs \ {exec[e].job} : Holds(f, k) => Holds(f, k)'
      BY <1>0, <2>1 DEF Holds, Busy
    <2> QED
      BY <1>0, <1>1, <2>1, <2>2 DEF IdleExec, Execs
  <1>5. ASSUME NEW e \in Execs,
               Spawn(e) \/ ClaimNothing(e) \/ RunResolves(e) \/ RunRejects(e) \/ FailRead(e)
        PROVE  OwnedIsHeld'
    <2>1. /\ job' = job /\ mode' = mode /\ faults' = faults
          /\ exec' = [exec EXCEPT ![e] = exec'[e]]
          /\ Busy(e) => Busy(e)' /\ exec'[e].job = exec[e].job
          /\ exec[e].pc = "idle" => mode[e[1]] = "up"
      <3>1. CASE Spawn(e)
        BY <1>0, <3>1 DEF Spawn, Goto, Busy
      <3>2. CASE ClaimNothing(e)
        BY <1>0, <3>2 DEF ClaimNothing, Return, Busy
      <3>3. CASE RunResolves(e)
        BY <1>0, <3>3 DEF RunResolves, Goto, Busy, ExecType
      <3>4. CASE RunRejects(e)
        BY <1>0, <3>4 DEF RunRejects, Busy, ExecType
      <3>5. CASE FailRead(e)
        BY <1>0, <3>5 DEF FailRead, Busy, ExecType
      <3> QED
        BY <1>5, <3>1, <3>2, <3>3, <3>4, <3>5
    <2>2. \A f \in Execs, k \in Jobs : Holds(f, k) => Holds(f, k)'
      BY <1>0, <2>1 DEF Holds, Busy
    <2> QED
      BY <1>0, <1>1, <2>1, <2>2 DEF Execs
  <1>6. ASSUME faults' # 0,
               \A e \in Execs : mode'[e[1]] = "stopped" => exec'[e].pc = "idle"
        PROVE  OwnedIsHeld'
    BY <1>6
  <1>7. ASSUME NEW e \in Execs,
               \/ CompleteErrs(e) \/ CallErrs(e)
               \/ \E j \in Jobs : ClaimReplyLost(e, j)
        PROVE  OwnedIsHeld'
    <2>1. /\ faults' = faults + 1 /\ mode' = mode
          /\ exec[e].pc # "idle"
          /\ exec' = [exec EXCEPT ![e] = exec'[e]]
      BY <1>0, <1>7
      DEF CompleteErrs, CallErrs, ClaimReplyLost, Fault, Return
    <2> QED
      BY <1>0, <1>6, <2>1
  <1>8. ASSUME NEW j \in Jobs, Stall(j) PROVE OwnedIsHeld'
    BY <1>0, <1>6, <1>8 DEF Stall, Fault
  <1>9. ASSUME NEW w \in Workers, Crash(w) PROVE OwnedIsHeld'
    BY <1>0, <1>6, <1>9 DEF Crash, Fault, IdleExec
  <1>10. ASSUME NEW w \in Workers, Shutdown(w) \/ Exit(w) \/ Restart(w)
         PROVE  OwnedIsHeld'
    <2>1. /\ job' = job /\ exec' = exec /\ faults' = faults
          /\ \A e \in Execs : mode'[e[1]] = "stopped" => exec[e].pc = "idle"
      BY <1>0, <1>10 DEF Shutdown, Exit, Restart
    <2> QED
      BY <1>1, <2>1 DEF Holds, Busy
  <1>11. ASSUME NEW c \in Clients, NEW j \in Jobs, RetryLoad(c, j) PROVE OwnedIsHeld'
    BY <1>11 DEF RetryLoad, Holds, Busy
  <1>12. ASSUME NEW c \in Clients, RetrySave(c) PROVE OwnedIsHeld'
    <2>1. /\ exec' = exec /\ mode' = mode /\ faults' = faults
          /\ \A k \in Jobs : job'[k].status = "running" => job'[k] = job[k]
      BY <1>0, <1>12 DEF RetrySave
    <2> QED
      BY <1>1, <2>1 DEF Holds, Busy
  <1>13. CASE UNCHANGED vars
    BY <1>13 DEF vars, Holds, Busy
  <1> QED
    BY <1>2, <1>3, <1>4, <1>5, <1>7, <1>8, <1>9, <1>10, <1>11, <1>12, <1>13
    DEF Next, Serve, ExecStep

\* A worker that stops has waited for its calls: without a fault, no running
\* document names it.
THEOREM StoppedWorkersOwnNothing == Spec => []GracefulExit
  <1>1. Init => OwnedIsHeld
    BY DEF Init, NoJob, IdleExec, OwnedIsHeld
  <1>2. OwnedIsHeld => GracefulExit
    BY DEF OwnedIsHeld, GracefulExit, Holds, Busy, Execs
  <1> QED
    BY <1>1, <1>2, InitTypeInv, NextTypeInv, NextOwnedIsHeld, PTL DEF Spec

-----------------------------------------------------------------------------
(* What a fault or a later save buys.  A job may be claimed once more for   *)
(* each call that can still requeue it, besides the one it belongs to.     *)

Holders(j) == {e \in Execs : Holds(e, j)}

\* The calls that have decided to requeue j.
Requeuers(j) == {e \in Holders(j) : exec[e].pc = "deciding" /\ exec[e].seen < MaxAttempts}

\* Recovery cannot take the job from the worker that runs it.
Safe(j) == job[j].status = "running" /\ job[j].lease = "live" /\ Renewed(j)

\* Nothing but time stands between the job and its next claim.
Loose(j) == \/ job[j].status \in {"pending", "retry_wait"}
            \/ job[j].status = "running" /\ ~Safe(j)

Saved == {c \in Clients : retry[c].pc = "done"}

\* The first retry to be saved will hit a document that has moved on.
Outdated(j) ==
    /\ Saved = {}
    /\ job[j].status # "dead_lettered"
    /\ \E c \in Clients : retry[c].pc = "loaded" /\ retry[c].job = j

One(b) == IF b THEN 1 ELSE 0

Slack == faults + LaterSaves

\* Besides the call that j belongs to, faults and later saves account for
\* every holder.
Crowd(j) ==
    /\ IsFiniteSet(Holders(j))
    /\ Cardinality(Holders(j)) + One(Outdated(j)) <= Slack + One(Safe(j))

\* Once the ceiling is reached, every claim to come is paid for.
Overrun(j) ==
    job[j].attempts >= MaxAttempts =>
        job[j].attempts + One(Loose(j)) + Cardinality(Requeuers(j)) <= MaxAttempts + Slack

\* A job that was processed has been attempted, until a retry resets it.
Tried ==
    Saved = {} =>
        /\ \A e \in Execs : Busy(e) => job[exec[e].job].attempts >= 1
        /\ \A j \in Jobs : job[j].status = "dead_lettered" => job[j].attempts >= 1
        /\ \A c \in Clients : retry[c].pc = "loaded" => retry[c].doc.attempts >= 1

Fresh == \A j \in Jobs : job[j].status = "absent" => job[j].attempts = 0

AttemptsInv ==
    /\ Tried
    /\ Fresh
    /\ IsFiniteSet(Saved)
    /\ \A j \in Jobs : Crowd(j) /\ Overrun(j)

\* What a step may do to the holders of j, and at what price.
KeepsCrowd(j) ==
    /\ Holders(j)' \subseteq Holders(j)
    /\ Outdated(j)' => Outdated(j) \/ (~Safe(j) /\ Slack' >= Slack + 1)
    /\ Safe(j) /\ ~Safe(j)' => Slack' >= Slack + 1

LeavesCrowd(j) ==
    /\ \E e \in Holders(j) : Holders(j)' \subseteq Holders(j) \ {e}
    /\ Safe(j) => (Outdated(j)' => Outdated(j))

JoinsCrowd(j) ==
    /\ \E e : Holders(j)' \subseteq Holders(j) \cup {e}
    /\ Outdated(j)' => Outdated(j)
    /\ ~Safe(j) /\ Safe(j)'

SavesOver(j) ==
    /\ Holders(j)' \subseteq Holders(j)
    /\ ~Outdated(j)'
    /\ Safe(j) => Outdated(j) \/ Slack' >= Slack + 1

LEMMA CrowdStep ==
  ASSUME NEW j, Crowd(j), Slack \in Nat, Slack' \in Nat, Slack' >= Slack,
         KeepsCrowd(j) \/ LeavesCrowd(j) \/ JoinsCrowd(j) \/ SavesOver(j)
  PROVE  Crowd(j)'
  <1>1. IsFiniteSet(Holders(j)) /\ Cardinality(Holders(j)) \in Nat
    BY FS_CardinalityType DEF Crowd
  <1>2. ASSUME Holders(j)' \subseteq Holders(j)
        PROVE  /\ IsFiniteSet(Holders(j)')
               /\ Cardinality(Holders(j)') \in Nat
               /\ Cardinality(Holders(j)') <= Cardinality(Holders(j))
    BY <1>1, <1>2, FS_Subset, FS_CardinalityType
  <1>3. CASE KeepsCrowd(j) \/ SavesOver(j)
    BY <1>1, <1>2, <1>3 DEF KeepsCrowd, SavesOver, Crowd, One
  <1>4. CASE LeavesCrowd(j)
    <2>1. PICK e \in Holders(j) : Holders(j)' \subseteq Holders(j) \ {e}
      BY <1>4 DEF LeavesCrowd
    <2>2. /\ IsFiniteSet(Holders(j) \ {e})
          /\ Cardinality(Holders(j) \ {e}) = Cardinality(Holders(j)) - 1
      BY <1>1, FS_RemoveElement
    <2>3. /\ IsFiniteSet(Holders(j)')
          /\ Cardinality(Holders(j)') \in Nat
          /\ Cardinality(Holders(j)') <= Cardinality(Holders(j)) - 1
      BY <2>1, <2>2, FS_Subset, FS_CardinalityType
    <2> QED
      BY <1>1, <1>4, <2>3 DEF LeavesCrowd, Crowd, One
  <1>5. CASE JoinsCrowd(j)
    <2>1. PICK e : Holders(j)' \subseteq Holders(j) \cup {e}
      BY <1>5 DEF JoinsCrowd
    <2>2. /\ IsFiniteSet(Holders(j) \cup {e})
          /\ Cardinality(Holders(j) \cup {e}) \in Nat
          /\ Cardinality(Holders(j) \cup {e}) <= Cardinality(Holders(j)) + 1
      BY <1>1, FS_AddElement, FS_CardinalityType
    <2>3. /\ IsFiniteSet(Holders(j)')
          /\ Cardinality(Holders(j)') \in Nat
          /\ Cardinality(Holders(j)') <= Cardinality(Holders(j)) + 1
      BY <1>1, <2>1, <2>2, FS_Subset, FS_CardinalityType
    <2> QED
      BY <1>1, <1>5, <2>3 DEF JoinsCrowd, Crowd, One
  <1> QED
    BY <1>3, <1>4, <1>5

\* What a step may do to the attempts on j.
KeepsAttempts(j) ==
    /\ job'[j].attempts = job[j].attempts
    /\ Requeuers(j)' \subseteq Requeuers(j)
    /\ Loose(j)' /\ ~Loose(j) => Slack' >= Slack + 1

Requeues(j) ==
    /\ job'[j].attempts = job[j].attempts
    /\ \E e \in Requeuers(j) : Requeuers(j)' \subseteq Requeuers(j) \ {e}

Attempts(j) ==
    /\ job'[j].attempts = job[j].attempts + 1
    /\ Requeuers(j)' \subseteq Requeuers(j)
    /\ Loose(j) /\ ~Safe(j)
    /\ Loose(j)' => Slack' >= Slack + 1

StaysBelow(j) == job'[j].attempts < MaxAttempts

LEMMA OverrunStep ==
  ASSUME NEW j, Crowd(j), Overrun(j), Slack \in Nat, Slack' \in Nat, Slack' >= Slack,
         job[j].attempts \in Nat, job'[j].attempts \in Nat,
         KeepsAttempts(j) \/ Requeues(j) \/ Attempts(j) \/ StaysBelow(j)
  PROVE  Overrun(j)'
  <1>0. MaxAttempts \in Nat
    BY AttemptsAssumption
  <1>1. /\ IsFiniteSet(Holders(j)) /\ Cardinality(Holders(j)) \in Nat
        /\ IsFiniteSet(Requeuers(j)) /\ Cardinality(Requeuers(j)) \in Nat
        /\ Cardinality(Requeuers(j)) <= Cardinality(Holders(j))
    BY FS_CardinalityType, FS_Subset DEF Crowd, Requeuers
  <1>2. ASSUME Requeuers(j)' \subseteq Requeuers(j)
        PROVE  /\ Cardinality(Requeuers(j)') \in Nat
               /\ Cardinality(Requeuers(j)') <= Cardinality(Requeuers(j))
    BY <1>1, <1>2, FS_Subset, FS_CardinalityType
  <1>3. CASE KeepsAttempts(j)
    BY <1>0, <1>1, <1>2, <1>3 DEF KeepsAttempts, Overrun, One
  <1>4. CASE Requeues(j)
    <2>1. PICK e \in Requeuers(j) : Requeuers(j)' \subseteq Requeuers(j) \ {e}
      BY <1>4 DEF Requeues
    <2>2. /\ IsFiniteSet(Requeuers(j) \ {e})
          /\ Cardinality(Requeuers(j) \ {e}) = Cardinality(Requeuers(j)) - 1
      BY <1>1, FS_RemoveElement
    <2>3. /\ Cardinality(Requeuers(j)') \in Nat
          /\ Cardinality(Requeuers(j)') <= Cardinality(Requeuers(j)) - 1
      BY <2>1, <2>2, FS_Subset, FS_CardinalityType
    <2> QED
      BY <1>0, <1>1, <1>4, <2>3 DEF Requeues, Overrun, One
  <1>5. CASE Attempts(j)
    <2>1. Cardinality(Requeuers(j)) <= Slack
      BY <1>1, <1>5 DEF Crowd, Attempts, One
    <2> QED
      BY <1>0, <1>1, <1>2, <1>5, <2>1 DEF Attempts, Overrun, One
  <1>6. CASE StaysBelow(j)
    BY <1>0, <1>6 DEF StaysBelow, Overrun
  <1> QED
    BY <1>3, <1>4, <1>5, <1>6

Fine(j) ==
    /\ KeepsCrowd(j) \/ LeavesCrowd(j) \/ JoinsCrowd(j) \/ SavesOver(j)
    /\ KeepsAttempts(j) \/ Requeues(j) \/ Attempts(j) \/ StaysBelow(j)

-----------------------------------------------------------------------------
(* Faults and saves.                                                       *)

LEMMA SlackTyped ==
  ASSUME faults \in Nat, IsFiniteSet(Saved)
  PROVE  Slack \in Nat /\ LaterSaves \in Nat
  BY FS_CardinalityType DEF Slack, LaterSaves, Saved

\* A step that leaves the retry requests alone.
LEMMA RetriesStay ==
  ASSUME faults \in Nat, IsFiniteSet(Saved), faults' \in Nat, faults' >= faults,
         retry' = retry
  PROVE  /\ Saved' = Saved
         /\ Slack' \in Nat
         /\ Slack' >= Slack
         /\ faults' = faults + 1 => Slack' >= Slack + 1
  <1>1. Saved' = Saved /\ LaterSaves' = LaterSaves
    BY DEF Saved, LaterSaves
  <1> QED
    BY <1>1, SlackTyped DEF Slack

\* The save of a retry: stale, unless it is the first.
LEMMA SaveIsStale ==
  ASSUME faults \in Nat, IsFiniteSet(Saved), retry \in [Clients -> RetryType],
         NEW c \in Clients, RetrySave(c)
  PROVE  /\ Saved' = Saved \cup {c}
         /\ IsFiniteSet(Saved')
         /\ Saved' # {}
         /\ Slack' \in Nat
         /\ Slack' >= Slack
         /\ Saved # {} => Slack' >= Slack + 1
  <1>1. Saved' = Saved \cup {c} /\ c \notin Saved
    BY DEF RetrySave, IdleRetry, Saved
  <1>2. /\ IsFiniteSet(Saved')
        /\ Cardinality(Saved) \in Nat
        /\ Cardinality(Saved') = Cardinality(Saved) + 1
        /\ Saved # {} => Cardinality(Saved) # 0
    BY <1>1, FS_AddElement, FS_CardinalityType, FS_EmptySet
  <1>3. /\ LaterSaves = IF Cardinality(Saved) = 0 THEN 0 ELSE Cardinality(Saved) - 1
        /\ LaterSaves' = IF Cardinality(Saved') = 0 THEN 0 ELSE Cardinality(Saved') - 1
    BY DEF LaterSaves, Saved
  <1>4. faults' = faults
    BY DEF RetrySave
  <1> QED
    BY <1>1, <1>2, <1>3, <1>4 DEF Slack

-----------------------------------------------------------------------------
(* Steps that do not concern a job.                                        *)

LEMMA Elsewhere ==
  ASSUME NEW k, job'[k] = job[k],
         \A e \in Execs : exec'[e] = exec[e] \/ (~Holds(e, k) /\ ~Holds(e, k)'),
         Outdated(k)' => Outdated(k)
  PROVE  Fine(k)
  <1>1. Holders(k)' = Holders(k)
    BY DEF Holders, Holds, Busy
  <1>2. Requeuers(k)' = Requeuers(k)
    BY <1>1 DEF Requeuers, Holders, Holds, Busy
  <1>3. (Renewed(k)' <=> Renewed(k))
    BY DEF Renewed, Holds, Busy
  <1>4. (Safe(k)' <=> Safe(k)) /\ (Loose(k)' <=> Loose(k))
    BY <1>3 DEF Safe, Loose
  <1> QED
    BY <1>1, <1>2, <1>4 DEF Fine, KeepsCrowd, KeepsAttempts

\* A call moves on and leaves the documents alone.
LEMMA CallStays ==
  ASSUME NEW e \in Execs, NEW j \in Jobs, job' = job, retry' = retry,
         job[j].attempts \in Nat,
         \A f \in Execs \ {e} : exec'[f] = exec[f],
         Busy(e)' <=> Busy(e),
         Busy(e) => exec'[e].job = exec[e].job,
         exec'[e].pc = "deciding" => exec'[e].seen = job[exec'[e].job].attempts
  PROVE  Fine(j)
  <1>1. Holders(j)' = Holders(j)
    BY DEF Holders, Holds, Busy
  <1>2. Renewed(j)' <=> Renewed(j)
    BY DEF Renewed, Holds, Busy
  <1>3. (Safe(j)' <=> Safe(j)) /\ (Loose(j)' <=> Loose(j))
    BY <1>2 DEF Safe, Loose
  <1>4. Outdated(j)' => Outdated(j)
    BY DEF Outdated, Saved
  <1>5. KeepsCrowd(j)
    BY <1>1, <1>3, <1>4 DEF KeepsCrowd
  <1>6. CASE job[j].attempts < MaxAttempts
    BY <1>5, <1>6 DEF Fine, StaysBelow
  <1>7. CASE ~(job[j].attempts < MaxAttempts)
    <2>1. Requeuers(j)' \subseteq Requeuers(j)
      BY <1>1, <1>7 DEF Requeuers, Holders, Holds
    <2> QED
      BY <1>3, <1>5, <2>1 DEF Fine, KeepsAttempts
  <1> QED
    BY <1>6, <1>7

\* A call ends, and job j is out of the hands of whoever had it.
LEMMA CallEnds ==
  ASSUME NEW e \in Execs, NEW j \in Jobs, Holds(e, j), Return(e), retry' = retry,
         exec \in [Execs -> ExecType],
         job'[j].attempts = job[j].attempts,
         \/ ~Loose(j)'
         \/ e \in Requeuers(j)
         \/ job[j].attempts < MaxAttempts
         \/ Slack' >= Slack + 1
  PROVE  Fine(j)
  <1>1. Holders(j)' \subseteq Holders(j) \ {e} /\ e \in Holders(j)
    BY DEF Holders, Holds, Busy, Return, IdleExec
  <1>2. Requeuers(j)' \subseteq Requeuers(j) \ {e}
    BY DEF Requeuers, Holders, Holds, Busy, Return, IdleExec
  <1>3. Safe(j) => (Outdated(j)' => Outdated(j))
    BY DEF Outdated, Saved, Safe
  <1> QED
    BY <1>1, <1>2, <1>3
    DEF Fine, LeavesCrowd, KeepsAttempts, Requeues, StaysBelow

-----------------------------------------------------------------------------
(* The steps of Next.                                                      *)

\* The state before a step.
Before ==
    /\ job \in [Jobs -> JobType]
    /\ exec \in [Execs -> ExecType]
    /\ retry \in [Clients -> RetryType]
    /\ faults \in Nat
    /\ \A e \in Execs : Busy(e) => exec[e].job \in Jobs
    /\ \A c \in Clients : retry[c].pc = "loaded" => retry[c].job \in Jobs
    /\ MaxAttempts \in Nat /\ MaxAttempts >= 1
    /\ AttemptsInv

LEMMA BeforeHolds == TypeInv /\ AttemptsInv => Before
  BY FaultsAssumption, AttemptsAssumption DEF Before, TypeInv, TypeOK, WellFormed

\* What remains to be shown of a step.
After ==
    /\ Slack' \in Nat /\ Slack' >= Slack
    /\ IsFiniteSet(Saved')
    /\ \A j \in Jobs : Fine(j)
    /\ Tried'
    /\ Fresh'

LEMMA FineIsEnough ==
  ASSUME Before, After, job' \in [Jobs -> JobType]
  PROVE  AttemptsInv'
  <1>1. Slack \in Nat
    BY SlackTyped DEF Before, AttemptsInv
  <1>2. ASSUME NEW j \in Jobs PROVE Crowd(j)' /\ Overrun(j)'
    <2>1. Crowd(j) /\ Overrun(j) /\ Fine(j) /\ Slack' \in Nat /\ Slack' >= Slack
      BY DEF Before, After, AttemptsInv
    <2>2. job[j].attempts \in Nat /\ job'[j].attempts \in Nat
      BY DEF Before, JobType
    <2> QED
      BY <1>1, <2>1, <2>2, CrowdStep, OverrunStep DEF Fine
  <1> QED
    BY <1>2 DEF After, AttemptsInv

\* A step that leaves the retry requests alone keeps Tried when the attempts
\* on no job decrease and every new call, and dead job, has one.
LEMMA TriedStays ==
  ASSUME Before, retry' = retry,
         \A j \in Jobs : job'[j].attempts \in Nat /\ job'[j].attempts >= job[j].attempts,
         \A e \in Execs : Busy(e)' =>
             \/ Busy(e) /\ exec'[e].job = exec[e].job
             \/ job'[exec'[e].job].attempts >= 1,
         \A j \in Jobs : job'[j].status = "dead_lettered" =>
             \/ job[j].status = "dead_lettered"
             \/ \E e \in Execs : Holds(e, j)
  PROVE  Tried'
  <1> SUFFICES ASSUME Saved' = {} PROVE
          /\ \A e \in Execs : Busy(e)' => job'[exec'[e].job].attempts >= 1
          /\ \A j \in Jobs : job'[j].status = "dead_lettered" => job'[j].attempts >= 1
          /\ \A c \in Clients : retry'[c].pc = "loaded" => retry'[c].doc.attempts >= 1
    BY DEF Tried
  <1>1. /\ \A e \in Execs : Busy(e) => job[exec[e].job].attempts >= 1
        /\ \A j \in Jobs : job[j].status = "dead_lettered" => job[j].attempts >= 1
        /\ \A c \in Clients : retry[c].pc = "loaded" => retry[c].doc.attempts >= 1
    BY DEF Before, AttemptsInv, Tried, Saved
  <1>2. \A j \in Jobs : job[j].attempts \in Nat
    BY DEF Before, JobType
  <1>3. ASSUME NEW e \in Execs, Busy(e)' PROVE job'[exec'[e].job].attempts >= 1
    <2>1. CASE Busy(e) /\ exec'[e].job = exec[e].job
      <3>1. exec[e].job \in Jobs /\ job[exec[e].job].attempts >= 1
        BY <1>1, <2>1 DEF Before
      <3> QED
        BY <1>2, <2>1, <3>1
    <2> QED
      BY <1>3, <2>1
  <1>4. ASSUME NEW j \in Jobs, job'[j].status = "dead_lettered"
        PROVE  job'[j].attempts >= 1
    <2>1. job[j].attempts >= 1
      BY <1>1, <1>4 DEF Holds
    <2> QED
      BY <1>2, <2>1
  <1> QED
    BY <1>1, <1>3, <1>4

LEMMA SlackStays ==
  ASSUME Before, retry' = retry, faults' \in Nat, faults' >= faults
  PROVE  /\ Slack' \in Nat /\ Slack' >= Slack
         /\ IsFiniteSet(Saved')
         /\ faults' = faults + 1 => Slack' >= Slack + 1
  BY RetriesStay DEF Before, AttemptsInv

\* One document is written, and no call or request moves.
LEMMA DocumentWritten ==
  ASSUME Before, NEW j \in Jobs, exec' = exec, retry' = retry,
         faults' = faults \/ faults' = faults + 1,
         \A k \in Jobs \ {j} : job'[k] = job[k],
         job'[j].attempts = job[j].attempts,
         job'[j].status # "absent",
         job[j].status = "dead_lettered" <=> job'[j].status = "dead_lettered",
         Safe(j) /\ ~Safe(j)' => faults' = faults + 1,
         Loose(j)' /\ ~Loose(j) => faults' = faults + 1 \/ job[j].status = "absent"
  PROVE  After
  <1>0. /\ faults \in Nat /\ faults' \in Nat /\ faults' >= faults
        /\ \A k \in Jobs : job[k].attempts \in Nat
        /\ MaxAttempts \in Nat /\ MaxAttempts >= 1
        /\ Fresh
    BY DEF Before, JobType, AttemptsInv
  <1>1. /\ Slack' \in Nat /\ Slack' >= Slack
        /\ IsFiniteSet(Saved')
        /\ faults' = faults + 1 => Slack' >= Slack + 1
    BY <1>0, SlackStays
  <1>2. Fine(j)
    <2>1. Holders(j)' = Holders(j) /\ Requeuers(j)' = Requeuers(j)
      BY DEF Holders, Requeuers, Holds, Busy
    <2>2. Outdated(j)' => Outdated(j)
      BY DEF Outdated, Saved
    <2>3. KeepsCrowd(j)
      BY <1>1, <2>1, <2>2 DEF KeepsCrowd
    <2>4. CASE job[j].status = "absent"
      BY <1>0, <2>3, <2>4 DEF Fresh, Fine, StaysBelow
    <2>5. CASE job[j].status # "absent"
      BY <1>1, <2>1, <2>3, <2>5 DEF Fine, KeepsAttempts
    <2> QED
      BY <2>4, <2>5
  <1>3. ASSUME NEW k \in Jobs \ {j} PROVE Fine(k)
    <2>1. Outdated(k)' => Outdated(k)
      BY DEF Outdated, Saved
    <2> QED
      BY <2>1, Elsewhere
  <1>4. Tried'
    <2>1. \A k \in Jobs : job'[k].attempts = job[k].attempts
      OBVIOUS
    <2>2. \A k \in Jobs : job'[k].attempts \in Nat /\ job'[k].attempts >= job[k].attempts
      BY <1>0, <2>1
    <2>3. \A e \in Execs : Busy(e)' => Busy(e) /\ exec'[e].job = exec[e].job
      BY DEF Busy
    <2>4. \A k \in Jobs : job'[k].status = "dead_lettered" => job[k].status = "dead_lettered"
      OBVIOUS
    <2> QED
      BY <2>2, <2>3, <2>4, TriedStays
  <1>5. Fresh'
    BY <1>0 DEF Fresh
  <1> QED
    BY <1>1, <1>2, <1>3, <1>4, <1>5 DEF After

\* A call of processNext moves on and leaves the documents alone.
LEMMA CallMovesOn ==
  ASSUME Before, NEW e \in Execs, job' = job, retry' = retry,
         faults' = faults \/ faults' = faults + 1,
         \A f \in Execs \ {e} : exec'[f] = exec[f],
         Busy(e)' <=> Busy(e),
         Busy(e) => exec'[e].job = exec[e].job,
         exec'[e].pc = "deciding" => exec'[e].seen = job[exec'[e].job].attempts
  PROVE  After
  <1>0. faults \in Nat /\ Fresh /\ \A k \in Jobs : job[k].attempts \in Nat
    BY DEF Before, JobType, AttemptsInv
  <1>1. Slack' \in Nat /\ Slack' >= Slack /\ IsFiniteSet(Saved')
    BY <1>0, SlackStays
  <1>2. \A k \in Jobs : Fine(k)
    BY <1>0, CallStays
  <1>3. Tried'
    <2>1. \A f \in Execs : Busy(f)' => Busy(f) /\ exec'[f].job = exec[f].job
      BY DEF Busy
    <2>2. \A k \in Jobs : job'[k].attempts \in Nat /\ job'[k].attempts >= job[k].attempts
      BY <1>0
    <2> QED
      BY <2>1, <2>2, TriedStays
  <1>4. Fresh'
    BY <1>0 DEF Fresh
  <1> QED
    BY <1>1, <1>2, <1>3, <1>4 DEF After

\* A call of processNext writes its document, or leaves it, and ends.
LEMMA CallEndsWith ==
  ASSUME Before, NEW e \in Execs, NEW j \in Jobs, Holds(e, j), Return(e), retry' = retry,
         faults' = faults \/ faults' = faults + 1,
         \A k \in Jobs \ {j} : job'[k] = job[k],
         job'[j].attempts = job[j].attempts,
         job'[j].status = "absent" => job[j].status = "absent",
         \/ ~Loose(j)'
         \/ e \in Requeuers(j)
         \/ faults' = faults + 1
  PROVE  After
  <1>0. /\ faults \in Nat /\ faults' \in Nat /\ faults' >= faults
        /\ \A k \in Jobs : job[k].attempts \in Nat
        /\ exec \in [Execs -> ExecType]
        /\ Fresh
        /\ exec[e].job = j
    BY DEF Before, JobType, AttemptsInv, Holds
  <1>1. /\ Slack' \in Nat /\ Slack' >= Slack
        /\ IsFiniteSet(Saved')
        /\ faults' = faults + 1 => Slack' >= Slack + 1
    BY <1>0, SlackStays
  <1>2. Fine(j)
    BY <1>0, <1>1, CallEnds
  <1>3. ASSUME NEW k \in Jobs \ {j} PROVE Fine(k)
    <2>1. Outdated(k)' => Outdated(k)
      BY DEF Outdated, Saved
    <2>2. \A f \in Execs : exec'[f] = exec[f] \/ (~Holds(f, k) /\ ~Holds(f, k)')
      BY <1>0 DEF Return, IdleExec, Holds, Busy
    <2> QED
      BY <2>1, <2>2, Elsewhere
  <1>4. Tried'
    <2>1. \A f \in Execs : Busy(f)' => Busy(f) /\ exec'[f].job = exec[f].job
      BY <1>0 DEF Return, IdleExec, Busy
    <2>2. \A k \in Jobs : job'[k].attempts \in Nat /\ job'[k].attempts >= job[k].attempts
      <3>1. \A k \in Jobs : job'[k].attempts = job[k].attempts
        OBVIOUS
      <3> QED
        BY <1>0, <3>1
    <2>3. \A k \in Jobs : job'[k].status = "dead_lettered" =>
            job[k].status = "dead_lettered" \/ \E f \in Execs : Holds(f, k)
      BY <1>0
    <2> QED
      BY <2>1, <2>2, <2>3, TriedStays
  <1>5. Fresh'
    BY <1>0 DEF Fresh
  <1> QED
    BY <1>1, <1>2, <1>3, <1>4, <1>5 DEF After

\* A claim is granted; its answer may get lost.
LEMMA ClaimGranted ==
  ASSUME Before, NEW e \in Execs, NEW j \in Jobs,
         Claim(e, j) \/ ClaimReplyLost(e, j)
  PROVE  After
  <1>0. /\ faults \in Nat /\ faults' \in Nat /\ faults' >= faults
        /\ \A k \in Jobs : job[k].attempts \in Nat
        /\ exec \in [Execs -> ExecType] /\ job \in [Jobs -> JobType]
        /\ Fresh
    BY DEF Before, JobType, AttemptsInv, Claim, ClaimReplyLost, Fault
  <1>1. /\ Claimable(j)
        /\ job' = [job EXCEPT ![j] = job'[j]]
        /\ job'[j].status = "running" /\ job'[j].lease = "live"
        /\ job'[j].claimedBy = e[1]
        /\ job'[j].attempts = job[j].attempts + 1
        /\ retry' = retry
        /\ exec[e].pc = "claiming"
        /\ \A f \in Execs \ {e} : exec'[f] = exec[f]
    BY <1>0 DEF Claim, ClaimReplyLost, TakeJob, Return
  <1>2. /\ Slack' \in Nat /\ Slack' >= Slack
        /\ IsFiniteSet(Saved')
        /\ faults' = faults + 1 => Slack' >= Slack + 1
    BY <1>0, <1>1, SlackStays
  <1>3. \/ /\ exec'[e].pc = "running" /\ exec'[e].job = j
        \/ /\ exec'[e] = IdleExec /\ faults' = faults + 1
    BY <1>0 DEF Claim, ClaimReplyLost, Return, Fault
  <1>4. /\ ~Busy(e)
        /\ \A f \in Execs, k \in Jobs : f # e => (Holds(f, k)' <=> Holds(f, k))
    BY <1>1 DEF Holds, Busy
  <1>5. Fine(j)
    <2>1. /\ Holders(j)' \subseteq Holders(j) \cup {e}
          /\ exec'[e] = IdleExec => Holders(j)' \subseteq Holders(j)
      BY <1>4 DEF Holders, Holds, Busy, IdleExec
    <2>2. Requeuers(j)' \subseteq Requeuers(j)
      BY <1>1, <1>3, <1>4 DEF Requeuers, Holders, IdleExec
    <2>3. Loose(j) /\ ~Safe(j) /\ job[j].status # "dead_lettered"
      BY <1>1 DEF Claimable, Loose, Safe
    <2>4. Outdated(j)' => Outdated(j)
      BY <1>1, <2>3 DEF Outdated, Saved
    <2>5. CASE exec'[e].pc = "running" /\ exec'[e].job = j
      <3>1. Safe(j)'
        BY <1>1, <2>5 DEF Safe, Renewed, Holds, Busy
      <3>2. ~Loose(j)'
        BY <1>1, <3>1 DEF Loose
      <3> QED
        BY <1>1, <2>1, <2>2, <2>3, <2>4, <3>1, <3>2 DEF Fine, JoinsCrowd, Attempts
    <2>6. CASE exec'[e] = IdleExec /\ faults' = faults + 1
      BY <1>1, <1>2, <2>1, <2>2, <2>3, <2>4, <2>6 DEF Fine, KeepsCrowd, Attempts
    <2> QED
      BY <1>3, <2>5, <2>6
  <1>6. ASSUME NEW k \in Jobs \ {j} PROVE Fine(k)
    <2>1. Outdated(k)' => Outdated(k)
      BY <1>0, <1>1 DEF Outdated, Saved
    <2>2. \A f \in Execs : exec'[f] = exec[f] \/ (~Holds(f, k) /\ ~Holds(f, k)')
      BY <1>1, <1>3, <1>4 DEF Holds, Busy, IdleExec
    <2>3. job'[k] = job[k]
      BY <1>0, <1>1
    <2> QED
      BY <2>1, <2>2, <2>3, Elsewhere
  <1>7. Tried'
    <2>1. \A k \in Jobs : job'[k].attempts \in Nat /\ job'[k].attempts >= job[k].attempts
      <3>1. \A k \in Jobs \ {j} : job'[k] = job[k]
        BY <1>0, <1>1
      <3> QED
        BY <1>0, <1>1, <3>1
    <2>2. job'[j].attempts >= 1
      BY <1>0, <1>1
    <2>3. \A f \in Execs : Busy(f)' =>
            (Busy(f) /\ exec'[f].job = exec[f].job) \/ job'[exec'[f].job].attempts >= 1
      BY <1>1, <1>3, <2>2 DEF Busy, IdleExec
    <2>4. \A k \in Jobs : job'[k].status = "dead_lettered" => job[k].status = "dead_lettered"
      BY <1>0, <1>1
    <2> QED
      BY <1>1, <2>1, <2>3, <2>4, TriedStays
  <1>8. Fresh'
    BY <1>0, <1>1 DEF Fresh
  <1> QED
    BY <1>2, <1>5, <1>6, <1>7, <1>8 DEF After

\* complete rejects: the job may be completed, and its call runs fail.
LEMMA CompletionErrs ==
  ASSUME Before, NEW e \in Execs, CompleteErrs(e)
  PROVE  After
  <1> DEFINE j == exec[e].job
  <1>0. /\ faults \in Nat /\ faults' = faults + 1
        /\ \A k \in Jobs : job[k].attempts \in Nat
        /\ exec \in [Execs -> ExecType] /\ job \in [Jobs -> JobType]
        /\ Fresh
        /\ j \in Jobs
        /\ retry' = retry
    BY DEF Before, JobType, AttemptsInv, CompleteErrs, Fault, Busy
  <1>1. /\ \A k \in Jobs \ {j} : job'[k] = job[k]
        /\ \/ job'[j] = job[j]
           \/ /\ job'[j].status = "completed"
              /\ job'[j].attempts = job[j].attempts
    BY <1>0 DEF CompleteErrs, MarkCompleted, JobType
  <1>2. /\ Slack' \in Nat /\ Slack' >= Slack /\ Slack' >= Slack + 1
        /\ IsFiniteSet(Saved')
    BY <1>0, SlackStays
  <1>3. /\ exec' = [exec EXCEPT ![e] = exec'[e]]
        /\ exec[e].pc = "completing"
        /\ exec'[e].pc = "failing" /\ exec'[e].job = exec[e].job
    BY <1>0 DEF CompleteErrs, ExecType
  <1>4. \A f \in Execs, k \in Jobs : Holds(f, k)' <=> Holds(f, k)
    BY <1>0, <1>3 DEF Holds, Busy
  <1>5. ASSUME NEW k \in Jobs PROVE Fine(k)
    <2>1. Holders(k)' = Holders(k)
      BY <1>4 DEF Holders
    <2>2. Requeuers(k)' \subseteq Requeuers(k)
      BY <1>0, <1>3, <2>1 DEF Requeuers, Holders
    <2>3. Outdated(k)' => Outdated(k) \/ ~Safe(k)
      BY <1>0, <1>1 DEF Outdated, Saved, Safe
    <2>4. job'[k].attempts = job[k].attempts
      BY <1>1
    <2> QED
      BY <1>2, <2>1, <2>2, <2>3, <2>4 DEF Fine, KeepsCrowd, KeepsAttempts
  <1>6. Tried'
    <2>1. \A f \in Execs : Busy(f)' => Busy(f) /\ exec'[f].job = exec[f].job
      BY <1>0, <1>3 DEF Busy
    <2>2. \A k \in Jobs : job'[k].attempts = job[k].attempts
      BY <1>1
    <2>3. \A k \in Jobs : job'[k].attempts \in Nat /\ job'[k].attempts >= job[k].attempts
      BY <1>0, <2>2
    <2>4. \A k \in Jobs : job'[k].status = "dead_lettered" => job[k].status = "dead_lettered"
      BY <1>1
    <2> QED
      BY <1>0, <2>1, <2>3, <2>4, TriedStays
  <1>7. Fresh'
    BY <1>0, <1>1 DEF Fresh
  <1> QED
    BY <1>2, <1>5, <1>6, <1>7 DEF After

\* The calls of a worker die with it.
LEMMA WorkerCrashes ==
  ASSUME Before, NEW w \in Workers, Crash(w)
  PROVE  After
  <1>0. /\ faults \in Nat /\ faults' = faults + 1
        /\ \A k \in Jobs : job[k].attempts \in Nat
        /\ exec' = [e \in Execs |-> IF e[1] = w THEN IdleExec ELSE exec[e]]
        /\ job' = job /\ retry' = retry
        /\ Fresh
    BY DEF Before, JobType, AttemptsInv, Crash, Fault
  <1>1. /\ Slack' \in Nat /\ Slack' >= Slack /\ Slack' >= Slack + 1
        /\ IsFiniteSet(Saved')
    BY <1>0, SlackStays
  <1>2. ASSUME NEW k \in Jobs PROVE Fine(k)
    <2>1. Holders(k)' \subseteq Holders(k) /\ Requeuers(k)' \subseteq Requeuers(k)
      BY <1>0 DEF Holders, Requeuers, Holds, Busy, IdleExec
    <2>2. Outdated(k)' => Outdated(k)
      BY <1>0 DEF Outdated, Saved
    <2> QED
      BY <1>0, <1>1, <2>1, <2>2 DEF Fine, KeepsCrowd, KeepsAttempts
  <1>3. Tried'
    <2>1. \A f \in Execs : Busy(f)' => Busy(f) /\ exec'[f].job = exec[f].job
      BY <1>0 DEF Busy, IdleExec
    <2>2. \A k \in Jobs : job'[k].attempts \in Nat /\ job'[k].attempts >= job[k].attempts
      BY <1>0
    <2> QED
      BY <1>0, <2>1, <2>2, TriedStays
  <1>4. Fresh'
    BY <1>0 DEF Fresh
  <1> QED
    BY <1>1, <1>2, <1>3, <1>4 DEF After

\* A retry request loads a dead-lettered document.
LEMMA RetryLoads ==
  ASSUME Before, NEW c \in Clients, NEW j \in Jobs, RetryLoad(c, j)
  PROVE  After
  <1>0. /\ faults \in Nat /\ faults' = faults
        /\ retry \in [Clients -> RetryType]
        /\ job' = job /\ exec' = exec
        /\ job[j].status = "dead_lettered"
        /\ retry' = [retry EXCEPT ![c] = retry'[c]]
        /\ retry[c].pc = "idle"
        /\ retry'[c].pc = "loaded" /\ retry'[c].job = j /\ retry'[c].doc = job[j]
        /\ Fresh /\ Tried /\ IsFiniteSet(Saved)
    BY DEF Before, AttemptsInv, RetryLoad
  <1>1. Saved' = Saved
    BY <1>0 DEF Saved
  <1>2. Slack' = Slack /\ Slack \in Nat /\ IsFiniteSet(Saved')
    <2>1. LaterSaves' = LaterSaves
      BY <1>1 DEF LaterSaves, Saved
    <2> QED
      BY <1>0, <1>1, <2>1, SlackTyped DEF Slack
  <1>3. ASSUME NEW k \in Jobs PROVE Fine(k)
    <2>1. Outdated(k)' => Outdated(k)
      BY <1>0, <1>1 DEF Outdated
    <2> QED
      BY <1>0, <2>1, Elsewhere
  <1>4. Tried'
    BY <1>0, <1>1 DEF Tried, Busy
  <1>5. Fresh'
    BY <1>0 DEF Fresh
  <1> QED
    BY <1>2, <1>3, <1>4, <1>5 DEF After

\* A retry request saves what it loaded.
LEMMA RetrySaves ==
  ASSUME Before, NEW c \in Clients, RetrySave(c)
  PROVE  After
  <1>j. PICK j \in Jobs : j = retry[c].job
    BY DEF Before, RetrySave
  <1>0. /\ faults \in Nat
        /\ retry \in [Clients -> RetryType]
        /\ job \in [Jobs -> JobType]
        /\ MaxAttempts \in Nat /\ MaxAttempts >= 1
        /\ Fresh /\ Tried /\ IsFiniteSet(Saved)
        /\ exec' = exec
        /\ retry[c].pc = "loaded"
    BY DEF Before, AttemptsInv, RetrySave
  <1>1. /\ \A k \in Jobs \ {j} : job'[k] = job[k]
        /\ job'[j].status = "pending"
        /\ job'[j].attempts = IF retry[c].doc.attempts # 0 THEN 0 ELSE job[j].attempts
    BY <1>j, <1>0 DEF RetrySave
  <1>2. /\ IsFiniteSet(Saved')
        /\ Saved' # {}
        /\ Slack' \in Nat
        /\ Slack' >= Slack
        /\ Saved # {} => Slack' >= Slack + 1
    BY <1>0, SaveIsStale
  <1>3. Fine(j)
    <2>1. Holders(j)' = Holders(j) /\ Requeuers(j)' = Requeuers(j)
      BY <1>0 DEF Holders, Requeuers, Holds, Busy
    <2>2. Safe(j) => Outdated(j) \/ Slack' >= Slack + 1
      BY <1>j, <1>0, <1>2 DEF Safe, Outdated
    <2>3. SavesOver(j)
      BY <1>2, <2>1, <2>2 DEF SavesOver, Outdated
    <2>4. CASE retry[c].doc.attempts # 0
      BY <1>0, <1>1, <2>3, <2>4 DEF Fine, StaysBelow
    <2>5. CASE retry[c].doc.attempts = 0
      <3>1. Saved # {}
        BY <1>0, <2>5 DEF Tried
      <3> QED
        BY <1>1, <1>2, <2>1, <2>3, <2>5, <3>1 DEF Fine, KeepsAttempts
    <2> QED
      BY <2>4, <2>5
  <1>4. ASSUME NEW k \in Jobs \ {j} PROVE Fine(k)
    <2>1. ~Outdated(k)'
      BY <1>2 DEF Outdated
    <2> QED
      BY <1>0, <1>1, <2>1, Elsewhere
  <1>5. Tried'
    BY <1>2 DEF Tried
  <1>6. Fresh'
    BY <1>0, <1>1 DEF Fresh
  <1> QED
    BY <1>2, <1>3, <1>4, <1>5, <1>6 DEF After

LEMMA StepIsFine ==
  ASSUME Before, LeaseMatchesStatus, [Next]_vars
  PROVE  After
  <1>0. /\ job \in [Jobs -> JobType]
        /\ exec \in [Execs -> ExecType]
        /\ faults \in Nat
        /\ \A e \in Execs : Busy(e) => exec[e].job \in Jobs
    BY DEF Before
  <1>1. ASSUME NEW j \in Jobs, Create(j) PROVE After
    <2>1. /\ exec' = exec /\ retry' = retry /\ faults' = faults
          /\ \A k \in Jobs \ {j} : job'[k] = job[k]
          /\ job'[j].attempts = job[j].attempts
          /\ job[j].status = "absent" /\ job'[j].status = "pending"
      BY <1>0, <1>1 DEF Create, StoreJob, JobType
    <2> QED
      BY <2>1, DocumentWritten DEF Safe
  <1>2. ASSUME NEW j \in Jobs, BackoffElapses(j) PROVE After
    <2>1. /\ exec' = exec /\ retry' = retry /\ faults' = faults
          /\ \A k \in Jobs \ {j} : job'[k] = job[k]
          /\ job'[j].attempts = job[j].attempts
          /\ job[j].status # "absent" /\ job'[j].status = job[j].status
          /\ job'[j].lease = job[j].lease /\ job'[j].claimedBy = job[j].claimedBy
      BY <1>0, <1>2 DEF BackoffElapses, JobType
    <2>2. (Safe(j)' <=> Safe(j)) /\ (Loose(j)' <=> Loose(j))
      BY <2>1 DEF Safe, Loose, Renewed, Holds, Busy
    <2> QED
      BY <2>1, <2>2, DocumentWritten
  <1>3. ASSUME NEW j \in Jobs, LeaseExpires(j) PROVE After
    <2>1. /\ exec' = exec /\ retry' = retry /\ faults' = faults
          /\ \A k \in Jobs \ {j} : job'[k] = job[k]
          /\ job'[j].attempts = job[j].attempts
          /\ job[j].status # "absent" /\ job'[j].status = job[j].status
      BY <1>0, <1>3 DEF LeaseExpires, JobType, LeaseMatchesStatus
    <2>2. ~Safe(j)
      BY <1>3 DEF LeaseExpires, Safe
    <2>3. Loose(j)' => Loose(j)
      BY <2>1, <2>2 DEF Loose
    <2> QED
      BY <2>1, <2>2, <2>3, DocumentWritten
  <1>4. ASSUME NEW j \in Jobs, Stall(j) PROVE After
    <2>1. /\ exec' = exec /\ retry' = retry /\ faults' = faults + 1
          /\ \A k \in Jobs \ {j} : job'[k] = job[k]
          /\ job'[j].attempts = job[j].attempts
          /\ job[j].status # "absent" /\ job'[j].status = job[j].status
      BY <1>0, <1>4 DEF Stall, Fault, JobType, Renewed
    <2> QED
      BY <2>1, DocumentWritten
  <1>5. ASSUME NEW e \in Execs, NEW j \in Jobs, Heartbeat(e, j) PROVE After
    <2>1. /\ exec' = exec /\ retry' = retry /\ faults' = faults
          /\ \A k \in Jobs \ {j} : job'[k] = job[k]
          /\ job'[j].attempts = job[j].attempts
          /\ job[j].status = "running" /\ job'[j].status = "running"
          /\ job'[j].lease = "live" /\ job'[j].claimedBy = job[j].claimedBy
          /\ Holds(e, j) /\ job[j].claimedBy = e[1]
      BY <1>0, <1>5 DEF Heartbeat, JobType
    <2>2. Safe(j)' /\ ~Loose(j)'
      BY <2>1 DEF Safe, Loose, Renewed, Holds, Busy
    <2> QED
      BY <2>1, <2>2, DocumentWritten
  <1>6. ASSUME NEW w \in Workers, NEW j \in Jobs, RecoverAbandoned(w, j) PROVE After
    <2>1. /\ exec' = exec /\ retry' = retry /\ faults' = faults
          /\ \A k \in Jobs \ {j} : job'[k] = job[k]
          /\ job'[j].attempts = job[j].attempts
          /\ job[j].status = "running" /\ job'[j].status = "retry_wait"
          /\ job[j].lease = "expired"
      BY <1>0, <1>6 DEF RecoverAbandoned, JobType
    <2>2. ~Safe(j) /\ Loose(j)
      BY <2>1 DEF Safe, Loose
    <2> QED
      BY <2>1, <2>2, DocumentWritten
  <1>7. ASSUME NEW e \in Execs,
               \/ Spawn(e) \/ ClaimNothing(e) \/ RunResolves(e) \/ RunRejects(e)
               \/ FailRead(e)
               \/ CallErrs(e) /\ ~Busy(e)
        PROVE  After
    <2>1. /\ job' = job /\ retry' = retry
          /\ faults' = faults \/ faults' = faults + 1
          /\ \A f \in Execs \ {e} : exec'[f] = exec[f]
          /\ Busy(e)' <=> Busy(e)
          /\ Busy(e) => exec'[e].job = exec[e].job
          /\ exec'[e].pc = "deciding" => exec'[e].seen = job[exec'[e].job].attempts
      <3>1. CASE Spawn(e)
        BY <1>0, <3>1 DEF Spawn, Goto, Busy
      <3>2. CASE ClaimNothing(e)
        BY <1>0, <3>2 DEF ClaimNothing, Return, IdleExec, Busy
      <3>3. CASE RunResolves(e)
        BY <1>0, <3>3 DEF RunResolves, Goto, Busy, ExecType
      <3>4. CASE RunRejects(e)
        BY <1>0, <3>4 DEF RunRejects, Busy, ExecType
      <3>5. CASE FailRead(e)
        BY <1>0, <3>5 DEF FailRead, Busy, ExecType
      <3>6. CASE CallErrs(e) /\ ~Busy(e)
        BY <1>0, <3>6 DEF CallErrs, Fault, Return, IdleExec, Busy
      <3> QED
        BY <1>7, <3>1, <3>2, <3>3, <3>4, <3>5, <3>6
    <2> QED
      BY <2>1, CallMovesOn
  <1>8. ASSUME NEW e \in Execs, Complete(e) \/ FailWrite(e) \/ (CallErrs(e) /\ Busy(e))
        PROVE  After
    <2>1. PICK j \in Jobs : j = exec[e].job
      BY <1>0, <1>8 DEF Complete, FailWrite, CallErrs, Busy
    <2>2. Holds(e, j) /\ Return(e) /\ retry' = retry
      BY <1>8, <2>1 DEF Complete, FailWrite, CallErrs, Holds, Busy
    <2>3. /\ faults' = faults \/ faults' = faults + 1
          /\ \A k \in Jobs \ {j} : job'[k] = job[k]
          /\ job'[j].attempts = job[j].attempts
          /\ job'[j].status = "absent" => job[j].status = "absent"
          /\ \/ job'[j].status \in {"completed", "dead_lettered"}
             \/ e \in Requeuers(j)
             \/ faults' = faults + 1
      <3>1. CASE Complete(e)
        BY <1>0, <2>1, <3>1 DEF Complete, MarkCompleted, JobType
      <3>2. CASE CallErrs(e)
        BY <3>2 DEF CallErrs, Fault
      <3>3. CASE FailWrite(e) /\ GivesUp(e)
        BY <1>0, <2>1, <3>3 DEF FailWrite, JobType
      <3>4. CASE FailWrite(e) /\ ~GivesUp(e)
        <4>1. e \in Requeuers(j)
          <5>1. exec[e].seen \in Nat /\ MaxAttempts \in Nat
            BY <1>0 DEF ExecType, Before
          <5> QED
            BY <2>2, <3>4, <5>1 DEF FailWrite, GivesUp, Requeuers, Holders
        <4> QED
          BY <1>0, <2>1, <3>4, <4>1 DEF FailWrite, JobType
      <3> QED
        BY <1>8, <3>1, <3>2, <3>3, <3>4
    <2>4. job'[j].status \in {"completed", "dead_lettered"} => ~Loose(j)'
      BY DEF Loose
    <2> QED
      BY <2>2, <2>3, <2>4, CallEndsWith
  <1>9. ASSUME job' = job, exec' = exec, retry' = retry, faults' = faults PROVE After
    <2>1. \A j \in Jobs : Outdated(j)' => Outdated(j)
      BY <1>9 DEF Outdated, Saved
    <2>2. \A j \in Jobs : Fine(j)
      BY <1>9, <2>1, Elsewhere
    <2>3. Slack' \in Nat /\ Slack' >= Slack /\ IsFiniteSet(Saved')
      BY <1>0, <1>9, SlackStays
    <2>4. Tried' /\ Fresh'
      BY <1>9 DEF Before, AttemptsInv, Tried, Fresh, Saved, Busy
    <2> QED
      BY <2>2, <2>3, <2>4 DEF After
  <1>10. ASSUME NEW w \in Workers, Shutdown(w) \/ Exit(w) \/ Restart(w) PROVE After
    BY <1>9, <1>10 DEF Shutdown, Exit, Restart
  <1>11. CASE UNCHANGED vars
    BY <1>9, <1>11 DEF vars
  <1> QED
    BY <1>1, <1>2, <1>3, <1>4, <1>5, <1>6, <1>7, <1>8, <1>10, <1>11,
       ClaimGranted, CompletionErrs, WorkerCrashes, RetryLoads, RetrySaves
    DEF Next, Serve, ExecStep

LEMMA InitAttemptsInv == Init => AttemptsInv
  <1> SUFFICES ASSUME Init PROVE AttemptsInv
    OBVIOUS
  <1>1. Saved = {} /\ \A j \in Jobs : Holders(j) = {} /\ Requeuers(j) = {}
    BY DEF Init, IdleExec, IdleRetry, Saved, Holders, Requeuers, Holds, Busy
  <1>2. faults = 0 /\ LaterSaves = 0
    BY <1>1, FS_EmptySet DEF Init, LaterSaves, Saved
  <1>3. Tried /\ Fresh
    BY DEF Init, IdleExec, IdleRetry, NoJob, Tried, Fresh, Busy
  <1>4. ASSUME NEW j \in Jobs PROVE Crowd(j) /\ Overrun(j)
    <2>1. ~Outdated(j) /\ ~Safe(j)
      BY DEF Init, IdleRetry, NoJob, Outdated, Safe
    <2>2. Crowd(j)
      BY <1>1, <1>2, <2>1, FS_EmptySet DEF Crowd, Slack, One
    <2>3. job[j].attempts = 0 /\ MaxAttempts \in Nat /\ MaxAttempts >= 1
      BY AttemptsAssumption DEF Init, NoJob
    <2> QED
      BY <2>2, <2>3 DEF Overrun
  <1> QED
    BY <1>1, <1>3, <1>4, FS_EmptySet DEF AttemptsInv

LEMMA NextAttemptsInv ==
  TypeInv /\ LeaseMatchesStatus /\ AttemptsInv /\ [Next]_vars => AttemptsInv'
  <1> SUFFICES ASSUME TypeInv, LeaseMatchesStatus, AttemptsInv, [Next]_vars
               PROVE  AttemptsInv'
    OBVIOUS
  <1>1. Before
    BY BeforeHolds
  <1>2. After
    BY <1>1, StepIsFine
  <1>3. job' \in [Jobs -> JobType]
    BY NextTypeInv DEF TypeInv, TypeOK
  <1> QED
    BY <1>1, <1>2, <1>3, FineIsEnough

\* However often workers crash and stall, replies get lost and operators save
\* stale documents, each of them lets a job be attempted once more than
\* maxAttempts allows, at most.
THEOREM AttemptsAreBounded == Spec => []AttemptsBounded
  <1>1. TypeInv /\ AttemptsInv => AttemptsBounded
    <2> SUFFICES ASSUME TypeInv, AttemptsInv, NEW j \in Jobs
                 PROVE  job[j].attempts <= MaxAttempts + faults + LaterSaves
      BY DEF AttemptsBounded
    <2>1. /\ job[j].attempts \in Nat /\ MaxAttempts \in Nat
          /\ faults \in Nat /\ LaterSaves \in Nat
      BY BeforeHolds, SlackTyped DEF Before, JobType, AttemptsInv
    <2>2. IsFiniteSet(Requeuers(j)) /\ Cardinality(Requeuers(j)) \in Nat
      BY FS_Subset, FS_CardinalityType DEF AttemptsInv, Crowd, Requeuers
    <2>3. job[j].attempts >= MaxAttempts =>
            job[j].attempts + One(Loose(j)) + Cardinality(Requeuers(j))
                <= MaxAttempts + (faults + LaterSaves)
      BY DEF AttemptsInv, Overrun, Slack
    <2> QED
      BY <2>1, <2>2, <2>3 DEF One
  <1>2. Init => LeaseMatchesStatus
    BY DEF Init, NoJob, LeaseMatchesStatus
  <1> QED
    BY <1>1, <1>2, InitTypeInv, NextTypeInv, NextLeaseMatchesStatus,
       InitAttemptsInv, NextAttemptsInv, PTL
    DEF Spec

\* However leases are lost and documents written by id behind a holder's back,
\* each call of processNext at work on a job besides one has been paid for.
THEOREM ProcessorsAreBounded == Spec => []ProcessorsBounded
  <1>1. TypeInv /\ AttemptsInv => ProcessorsBounded
    <2> SUFFICES ASSUME TypeInv, AttemptsInv, NEW j \in Jobs
                 PROVE  Cardinality(Holders(j)) <= 1 + faults + LaterSaves
      BY DEF ProcessorsBounded, Holders
    <2>1. faults \in Nat /\ LaterSaves \in Nat
      BY BeforeHolds, SlackTyped DEF Before, AttemptsInv
    <2>2. /\ Cardinality(Holders(j)) \in Nat
          /\ Cardinality(Holders(j)) + One(Outdated(j)) <= (faults + LaterSaves) + One(Safe(j))
      BY FS_CardinalityType DEF AttemptsInv, Crowd, Slack
    <2> QED
      BY <2>1, <2>2 DEF One
  <1>2. Init => LeaseMatchesStatus
    BY DEF Init, NoJob, LeaseMatchesStatus
  <1> QED
    BY <1>1, <1>2, InitTypeInv, NextTypeInv, NextLeaseMatchesStatus,
       InitAttemptsInv, NextAttemptsInv, PTL
    DEF Spec

-----------------------------------------------------------------------------
(* How long an attempt that failed is put off.                             *)

LEMMA LeastExists ==
  ASSUME NEW S, S \subseteq Nat, S # {}
  PROVE  \E q \in S : \A o \in S : q <= o
  <1>1. PICK q \in S : \A o \in S : ~(<<o, q>> \in OpToRel(<, Nat))
    BY NatLessThanWellFounded, WFMin
  <1>2. ASSUME NEW o \in S
        PROVE  q <= o
    <2>1. <<o, q>> \in Nat \X Nat /\ <<o, q>>[1] = o /\ <<o, q>>[2] = q
      OBVIOUS
    <2>2. ~(o < q)
      BY <1>1, <2>1 DEF OpToRel
    <2> QED
      BY <2>1, <2>2
  <1> QED
    BY <1>2

\* The powers of two up to n.
Doubles(n, f) ==
    /\ f \in [0 .. n -> Nat]
    /\ f[0] = 1
    /\ \A i \in 0 .. n - 1 : f[i + 1] = 2 * f[i]

LEMMA DoublesExist ==
  ASSUME NEW n \in Nat
  PROVE  \E f : Doubles(n, f)
  <1> DEFINE S == {m \in Nat : ~\E f : Doubles(m, f)}
  <1>1. ASSUME S # {}
        PROVE  FALSE
    <2> HIDE DEF S
    <2>1. S \subseteq Nat
      BY DEF S
    <2> PICK m \in S : \A o \in S : m <= o
      BY <1>1, <2>1, LeastExists
    <2>2. m \in Nat /\ ~\E f : Doubles(m, f)
      BY DEF S
    <2>3. CASE m = 0
      <3>1. Doubles(0, [i \in 0 .. 0 |-> 1])
        BY DEF Doubles
      <3> QED
        BY <2>2, <2>3, <3>1
    <2>4. CASE m # 0
      <3>1. m - 1 \in Nat /\ m - 1 \notin S
        BY <2>2, <2>4
      <3> PICK g : Doubles(m - 1, g)
        BY <3>1 DEF S
      <3> DEFINE f == [i \in 0 .. m |-> IF i = m THEN 2 * g[m - 1] ELSE g[i]]
      <3>2. g \in [0 .. m - 1 -> Nat] /\ g[0] = 1 /\ \A i \in 0 .. m - 2 : g[i + 1] = 2 * g[i]
        BY <3>1, <2>2 DEF Doubles
      <3>3. f \in [0 .. m -> Nat] /\ f[0] = 1
        BY <2>2, <2>4, <3>2
      <3>4. ASSUME NEW i \in 0 .. m - 1
            PROVE  f[i + 1] = 2 * f[i]
        <4>1. CASE i = m - 1
          BY <2>2, <2>4, <4>1
        <4>2. CASE i # m - 1
          BY <2>2, <2>4, <3>2, <4>2
        <4> QED
          BY <4>1, <4>2
      <3>5. Doubles(m, f)
        <4> HIDE DEF f
        <4> QED
          BY <3>3, <3>4 DEF Doubles
      <3> QED
        BY <2>2, <3>5
    <2> QED
      BY <2>3, <2>4
  <1> QED
    BY <1>1

LEMMA DoublesAgree ==
  ASSUME NEW n \in Nat, NEW f, NEW g, Doubles(n, f), Doubles(n + 1, g)
  PROVE  g[n] = f[n]
  <1> DEFINE S == {i \in 0 .. n : g[i] # f[i]}
  <1>1. ASSUME S # {}
        PROVE  FALSE
    <2> HIDE DEF S
    <2>1. S \subseteq Nat
      BY DEF S
    <2> PICK i \in S : \A o \in S : i <= o
      BY <1>1, <2>1, LeastExists
    <2>2. i \in 0 .. n /\ g[i] # f[i]
      BY DEF S
    <2>3. i # 0
      BY <2>2 DEF Doubles
    <2>4. i - 1 \in 0 .. n - 1 /\ i - 1 \notin S
      BY <2>2, <2>3
    <2>5. g[i - 1] = f[i - 1]
      BY <2>4 DEF S
    <2>6. f[(i - 1) + 1] = 2 * f[i - 1]
      BY <2>4 DEF Doubles
    <2>7. g[(i - 1) + 1] = 2 * g[i - 1]
      <3>1. i - 1 \in 0 .. (n + 1) - 1
        BY <2>4
      <3> QED
        BY <3>1 DEF Doubles
    <2> QED
      BY <2>2, <2>5, <2>6, <2>7
  <1> QED
    BY <1>1

\* 2 ** n is what it should be, for every n.
LEMMA TwoToTheDoubles ==
  /\ TwoToThe \in [Nat -> Nat]
  /\ TwoToThe[0] = 1
  /\ \A n \in Nat : TwoToThe[n + 1] = 2 * TwoToThe[n]
  <1> DEFINE upTo(n) == CHOOSE f : Doubles(n, f)
             D == [n \in Nat |-> upTo(n)[n]]
  <1>1. \A n \in Nat : Doubles(n, upTo(n))
    BY DoublesExist
  <1> HIDE DEF upTo
  <1>2. D \in [Nat -> Nat] /\ D[0] = 1
    BY <1>1 DEF Doubles
  <1>3. ASSUME NEW n \in Nat
        PROVE  D[n + 1] = 2 * D[n]
    <2>1. Doubles(n, upTo(n)) /\ Doubles(n + 1, upTo(n + 1))
      BY <1>1
    <2>2. upTo(n + 1)[n] = upTo(n)[n]
      BY <2>1, DoublesAgree
    <2>3. upTo(n + 1)[n + 1] = 2 * upTo(n + 1)[n]
      BY <2>1 DEF Doubles
    <2> QED
      BY <2>2, <2>3
  <1> HIDE DEF D
  <1>4. D = [n \in Nat |-> IF n = 0 THEN 1 ELSE 2 * D[n - 1]]
    <2>1. \A n \in Nat : D[n] = IF n = 0 THEN 1 ELSE 2 * D[n - 1]
      <3> TAKE n \in Nat
      <3>1. CASE n = 0
        BY <1>2, <3>1
      <3>2. CASE n # 0
        <4>1. n - 1 \in Nat /\ (n - 1) + 1 = n
          BY <3>2
        <4> QED
          BY <1>3, <3>2, <4>1
      <3> QED
        BY <3>1, <3>2
    <2> QED
      BY <1>2, <2>1
  <1>5. \E f : f = [n \in Nat |-> IF n = 0 THEN 1 ELSE 2 * f[n - 1]]
    BY <1>4
  <1>6. TwoToThe = [n \in Nat |-> IF n = 0 THEN 1 ELSE 2 * TwoToThe[n - 1]]
    BY <1>5 DEF TwoToThe
  <1>7. TwoToThe[0] = 1 /\ \A n \in Nat : TwoToThe[n + 1] = 2 * TwoToThe[n]
    BY <1>6
  <1>8. \A n \in Nat : TwoToThe[n] \in Nat
    <2> DEFINE S == {m \in Nat : TwoToThe[m] \notin Nat}
    <2>1. ASSUME S # {}
          PROVE  FALSE
      <3> HIDE DEF S
      <3>1. S \subseteq Nat
        BY DEF S
      <3> PICK m \in S : \A o \in S : m <= o
        BY <2>1, <3>1, LeastExists
      <3>2. m \in Nat /\ TwoToThe[m] \notin Nat
        BY DEF S
      <3>3. m # 0
        BY <1>7, <3>2
      <3>4. m - 1 \in Nat /\ m - 1 \notin S
        BY <3>2, <3>3
      <3>5. TwoToThe[m - 1] \in Nat
        BY <3>4 DEF S
      <3>6. TwoToThe[(m - 1) + 1] = 2 * TwoToThe[m - 1]
        BY <1>7, <3>4
      <3> QED
        BY <3>2, <3>5, <3>6
    <2> QED
      BY <2>1
  <1> QED
    BY <1>6, <1>7, <1>8

\* Rounding with Grain parts: what is divided, and by what.
LEMMA JitteredBounds ==
  ASSUME NEW x \in Nat, NEW n \in Draws
  PROVE  /\ Jittered(x, n) \in Nat
         /\ Jittered(x, n) >= x
         /\ 10 * Jittered(x, n) <= 12 * x + 5
  <1> DEFINE num == 2 * x * (5 * Grain + n) + 5 * Grain
             den == 10 * Grain
             q == num \div den
  <1>1. Grain \in Nat /\ Grain > 0 /\ n \in Nat /\ n <= Grain - 1
    BY GrainAssumption DEF Draws
  <1>2. num = 10 * (x * Grain) + 2 * (x * n) + 5 * Grain
    BY <1>1
  <1>3. x * Grain \in Nat /\ x * n \in Nat
    BY <1>1
  <1>4. x * n <= x * Grain
    BY <1>1
  <1> HIDE DEF num
  <1>5. num \in Nat /\ den \in Nat /\ den > 0
    BY <1>1, <1>2, <1>3
  <1>6. num >= x * den
    BY <1>1, <1>2, <1>3
  <1>7. num < (x + x) * den + den
    BY <1>1, <1>2, <1>3, <1>4
  <1> HIDE DEF den
  <1>8. q \in Nat /\ q * den <= num /\ num < (q + 1) * den
    BY <1>5
  <1>9. q >= x
    BY <1>5, <1>6, <1>8
  <1>10. 10 * q <= 12 * x + 5
    <2>1. q * (10 * Grain) <= 10 * (x * Grain) + 2 * (x * Grain) + 5 * Grain
      BY <1>1, <1>2, <1>3, <1>4, <1>8 DEF den
    <2>2. (10 * q) * Grain <= (12 * x + 5) * Grain
      BY <1>1, <1>3, <1>8, <2>1
    <2> QED
      BY <1>1, <1>8, <2>2
  <1> QED
    BY <1>8, <1>9, <1>10 DEF Jittered, num, den

\* Jitter never makes up for a step that is twice as long.
LEMMA JitteredOrdered ==
  ASSUME NEW x \in Nat, NEW y \in Nat, 2 * x <= y, NEW n \in Draws, NEW m \in Draws
  PROVE  Jittered(x, n) <= Jittered(y, m)
  <1>1. /\ 10 * Jittered(x, n) <= 12 * x + 5 /\ Jittered(x, n) \in Nat
        /\ Jittered(y, m) >= y /\ Jittered(y, m) \in Nat
    BY JitteredBounds
  <1> QED
    BY <1>1

LEMMA StepBounds ==
  ASSUME NEW s \in Settings, NEW attempt \in Nat
  PROVE  /\ Step(s, attempt) \in Nat /\ Step(s, attempt) <= s.max
         /\ Step(s, Greatest(1, attempt)) = Step(s, attempt)
         /\ attempt > 0 /\ 2 * Step(s, attempt) <= s.max =>
               2 * Step(s, attempt) <= Step(s, attempt + 1)
  <1>1. s.base \in Nat /\ s.max \in Nat
    BY SettingsAssumption
  <1>2. Greatest(0, attempt - 1) \in Nat
    BY DEF Greatest
  <1>3. s.base * TwoToThe[Greatest(0, attempt - 1)] \in Nat
    BY <1>1, <1>2, TwoToTheDoubles
  <1>4. Step(s, attempt) \in Nat /\ Step(s, attempt) <= s.max
    BY <1>1, <1>3 DEF Step, Least
  <1>5. Step(s, Greatest(1, attempt)) = Step(s, attempt)
    <2>1. Greatest(0, Greatest(1, attempt) - 1) = Greatest(0, attempt - 1)
      BY DEF Greatest
    <2> QED
      BY <2>1 DEF Step
  <1>6. ASSUME attempt > 0, 2 * Step(s, attempt) <= s.max
        PROVE  2 * Step(s, attempt) <= Step(s, attempt + 1)
    <2>1. /\ Greatest(0, attempt - 1) = attempt - 1
          /\ Greatest(0, (attempt + 1) - 1) = (attempt - 1) + 1
      BY <1>6 DEF Greatest
    <2>2. /\ attempt - 1 \in Nat /\ TwoToThe[attempt - 1] \in Nat
          /\ TwoToThe[(attempt - 1) + 1] = 2 * TwoToThe[attempt - 1]
      BY <1>6, TwoToTheDoubles
    <2>3. s.base * TwoToThe[(attempt - 1) + 1] = 2 * (s.base * TwoToThe[attempt - 1])
      BY <1>1, <2>2
    <2>4. /\ Step(s, attempt) = Least(s.max, s.base * TwoToThe[attempt - 1])
          /\ Step(s, attempt + 1) = Least(s.max, 2 * (s.base * TwoToThe[attempt - 1]))
      BY <2>1, <2>3 DEF Step
    <2>5. s.base * TwoToThe[attempt - 1] \in Nat
      BY <1>1, <2>2
    <2> QED
      BY <1>1, <1>6, <2>4, <2>5 DEF Least
  <1> QED
    BY <1>4, <1>5, <1>6

\* For every setting of base and cap, however finely Math.random() is told
\* apart and however far one looks ahead: fail() never puts a job off for less
\* than the step, nor for more than the cap and a fifth, and for no longer
\* than after a later failure as long as the steps double.
THEOREM DelaysAreOrdered == Spec => []BackoffIsOrdered
  <1>1. TypeOK => BackoffIsOrdered
    <2> SUFFICES ASSUME TypeOK, NEW e \in Execs, exec[e].pc = "deciding",
                        NEW s \in Settings,
                        NEW attempt \in exec[e].seen .. exec[e].seen + Ahead,
                        NEW n \in Draws
                 PROVE  /\ Delay(s, attempt, n) >= Step(s, Greatest(1, attempt))
                        /\ 10 * Delay(s, attempt, n) <= 12 * s.max + 5
                        /\ attempt > 0 /\ 2 * Step(s, attempt) <= s.max =>
                              \A later \in Draws :
                                 Delay(s, attempt, n) <= Delay(s, attempt + 1, later)
      BY DEF BackoffIsOrdered
    <2>1. attempt \in Nat /\ attempt + 1 \in Nat
      BY GrainAssumption DEF TypeOK, ExecType
    <2>2. s.max \in Nat
      BY SettingsAssumption
    <2>3. /\ Step(s, attempt) \in Nat /\ Step(s, attempt) <= s.max
          /\ Step(s, Greatest(1, attempt)) = Step(s, attempt)
          /\ Step(s, attempt + 1) \in Nat
      BY <2>1, StepBounds
    <2>4. Delay(s, attempt, n) >= Step(s, Greatest(1, attempt))
      BY <2>3, JitteredBounds DEF Delay
    <2>5. 10 * Delay(s, attempt, n) <= 12 * s.max + 5
      <3>1. /\ 10 * Delay(s, attempt, n) <= 12 * Step(s, attempt) + 5
            /\ Delay(s, attempt, n) \in Nat
        BY <2>3, JitteredBounds DEF Delay
      <3> QED
        BY <2>2, <2>3, <3>1
    <2>6. ASSUME attempt > 0, 2 * Step(s, attempt) <= s.max, NEW later \in Draws
          PROVE  Delay(s, attempt, n) <= Delay(s, attempt + 1, later)
      BY <2>1, <2>3, <2>6, StepBounds, JitteredOrdered DEF Delay
    <2> QED
      BY <2>4, <2>5, <2>6
  <1> QED
    BY <1>1, TypeCorrect, PTL

=============================================================================
