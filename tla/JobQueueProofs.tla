-------------------------- MODULE JobQueueProofs --------------------------
(***************************************************************************)
(* Theorems about JobQueue, for any numbers of jobs, workers, slots,       *)
(* clients, attempts and faults.                                           *)
(***************************************************************************)
EXTENDS JobQueue, TLAPS

-----------------------------------------------------------------------------
(* Part 1: under every kind of fault.                                      *)

\* A call that is under way, and a retry request that is, name a document
\* that was submitted.
WellFormed ==
    /\ \A e \in Execs : Busy(e) =>
          /\ exec[e].job \in Jobs
          /\ job[exec[e].job].status # "absent"
    /\ \A c \in Clients : retry[c].pc = "loaded" =>
          /\ retry[c].job \in Jobs
          /\ job[retry[c].job].status # "absent"

TypeInv == TypeOK /\ WellFormed

LEMMA InitTypeInv == Init => TypeInv
  BY NullAssumption, FaultsAssumption
  DEF Init, TypeInv, TypeOK, WellFormed, NoJob, IdleExec, IdleRetry, JobType,
      ExecType, RetryType, Statuses, Leases, Errors, Busy, Execs

\* What the updates write has the type of a document, and no document goes.
Documented ==
    /\ job' \in [Jobs -> JobType]
    /\ \A j \in Jobs : job[j].status # "absent" => job'[j].status # "absent"

LEMMA UpdateTyped ==
  ASSUME job \in [Jobs -> JobType], NEW j \in Jobs, NEW doc \in JobType,
         doc.status # "absent", job' = [job EXCEPT ![j] = doc]
  PROVE  Documented
  BY DEF Documented

LEMMA TakeJobTyped ==
  ASSUME job \in [Jobs -> JobType], NEW w \in Workers, NEW j \in Jobs, TakeJob(w, j)
  PROVE  Documented /\ job'[j].status # "absent"
  <1> DEFINE doc == [status |-> "running", lease |-> "live", claimedBy |-> w,
                     attempts |-> job[j].attempts + 1, due |-> job[j].due,
                     version |-> job[j].version + 1]
  <1>1. job[j] \in JobType
    OBVIOUS
  <1>2. doc \in JobType
    BY <1>1 DEF JobType, Statuses, Leases
  <1>3. job' = [job EXCEPT ![j] = doc]
    BY DEF TakeJob
  <1>4. doc.status # "absent"
    OBVIOUS
  <1> HIDE DEF doc
  <1> QED
    BY <1>2, <1>3, <1>4, UpdateTyped

LEMMA MarkCompletedTyped ==
  ASSUME job \in [Jobs -> JobType], NEW j \in Jobs, MarkCompleted(j)
  PROVE  Documented
  <1> DEFINE doc == [job[j] EXCEPT !.status = "completed", !.lease = "null"]
  <1>1. doc \in JobType /\ doc.status # "absent"
    BY DEF JobType, Statuses, Leases
  <1>2. job' = [job EXCEPT ![j] = doc]
    BY DEF MarkCompleted
  <1> HIDE DEF doc
  <1> QED
    BY <1>1, <1>2, UpdateTyped

\* The two documents fail writes.
Dead(d) == [d EXCEPT !.status = "dead_lettered", !.lease = "null"]
Waiting(d) == [d EXCEPT !.status = "retry_wait", !.lease = "null", !.due = FALSE]

LEMMA FailedDocument ==
  ASSUME NEW d \in JobType
  PROVE  /\ Dead(d) \in JobType /\ Dead(d).status # "absent"
         /\ Waiting(d) \in JobType /\ Waiting(d).status # "absent"
  BY DEF Dead, Waiting, JobType, Statuses, Leases

LEMMA FailWriteTyped ==
  ASSUME job \in [Jobs -> JobType], NEW e \in Execs, exec[e].job \in Jobs, FailWrite(e)
  PROVE  Documented
  <1>1. PICK j \in Jobs : j = exec[e].job
    OBVIOUS
  <1>2. job' = [job EXCEPT ![j] = Dead(job[j])] \/ job' = [job EXCEPT ![j] = Waiting(job[j])]
    <2>1. CASE GivesUp(e)
      BY <1>1, <2>1 DEF FailWrite, Dead
    <2>2. CASE ~GivesUp(e)
      BY <1>1, <2>2 DEF FailWrite, Waiting
    <2> QED
      BY <2>1, <2>2
  <1>3. job[j] \in JobType
    OBVIOUS
  <1> QED
    BY <1>2, <1>3, FailedDocument, UpdateTyped

LEMMA RetrySaveTyped ==
  ASSUME job \in [Jobs -> JobType], NEW c \in Clients, retry[c].job \in Jobs,
         RetrySave(c)
  PROVE  Documented
  <1> DEFINE j == retry[c].job
  <1> DEFINE was == retry[c].doc
  <1> DEFINE doc == [status    |-> "pending",
                     lease     |-> IF was.lease # "null" THEN "null" ELSE job[j].lease,
                     claimedBy |-> IF was.claimedBy # Null THEN Null ELSE job[j].claimedBy,
                     attempts  |-> IF was.attempts # 0 THEN 0 ELSE job[j].attempts,
                     due       |-> TRUE,
                     version   |-> job[j].version]
  <1>1. job[j] \in JobType
    OBVIOUS
  <1>2. doc \in JobType
    BY <1>1 DEF JobType, Statuses, Leases
  <1>3. job' = [job EXCEPT ![j] = doc]
    BY DEF RetrySave
  <1>4. doc.status # "absent"
    OBVIOUS
  <1> HIDE DEF doc
  <1> QED
    BY <1>2, <1>3, <1>4, UpdateTyped

\* The updates of a single field or two, which leave the calls alone.
LEMMA TouchTyped ==
  ASSUME job \in [Jobs -> JobType], NEW j \in Jobs,
         \/ Create(j) \/ BackoffElapses(j) \/ LeaseExpires(j) \/ Stall(j)
         \/ \E e \in Execs : Heartbeat(e, j)
         \/ \E w \in Workers : RecoverAbandoned(w, j)
  PROVE  Documented /\ UNCHANGED <<mode, exec, retry>>
  <1> DEFINE d == job[j]
  <1>0. d \in JobType
    OBVIOUS
  <1>1. CASE Create(j)
    <2> DEFINE doc == [d EXCEPT !.status = "pending", !.due = TRUE, !.version = 1]
    <2>1. doc \in JobType /\ doc.status # "absent"
      BY <1>0 DEF JobType, Statuses
    <2>2. job' = [job EXCEPT ![j] = doc]
      BY <1>1 DEF Create, StoreJob
    <2> HIDE DEF doc
    <2> QED
      BY <1>1, <2>1, <2>2, UpdateTyped DEF Create, StoreJob
  <1>2. CASE BackoffElapses(j)
    <2> DEFINE doc == [d EXCEPT !.due = TRUE]
    <2>1. doc \in JobType /\ doc.status # "absent"
      BY <1>0, <1>2 DEF JobType, BackoffElapses
    <2>2. job' = [job EXCEPT ![j] = doc]
      BY <1>2 DEF BackoffElapses
    <2> HIDE DEF doc
    <2> QED
      BY <1>2, <2>1, <2>2, UpdateTyped DEF BackoffElapses
  <1>3. CASE LeaseExpires(j) \/ Stall(j)
    <2> DEFINE doc == [d EXCEPT !.lease = "expired"]
    <2>1. doc \in JobType /\ doc.status = d.status
      BY <1>0 DEF JobType, Leases
    <2>2. job' = [job EXCEPT ![j] = doc] /\ UNCHANGED <<mode, exec, retry>>
      BY <1>3 DEF LeaseExpires, Stall
    <2> HIDE DEF doc
    <2> QED
      BY <2>1, <2>2 DEF Documented
  <1>4. CASE \E e \in Execs : Heartbeat(e, j)
    <2> DEFINE doc == [d EXCEPT !.lease = "live"]
    <2>1. doc \in JobType /\ doc.status = d.status
      BY <1>0 DEF JobType, Leases
    <2>2. job' = [job EXCEPT ![j] = doc] /\ UNCHANGED <<mode, exec, retry>>
      BY <1>4 DEF Heartbeat
    <2> HIDE DEF doc
    <2> QED
      BY <2>1, <2>2 DEF Documented
  <1>5. CASE \E w \in Workers : RecoverAbandoned(w, j)
    <2> DEFINE doc == [d EXCEPT !.status = "retry_wait", !.due = TRUE,
                                !.lease = "null", !.claimedBy = Null]
    <2>1. doc \in JobType /\ doc.status # "absent"
      BY <1>0 DEF JobType, Statuses, Leases
    <2>2. job' = [job EXCEPT ![j] = doc] /\ UNCHANGED <<mode, exec, retry>>
      BY <1>5 DEF RecoverAbandoned
    <2> HIDE DEF doc
    <2> QED
      BY <2>1, <2>2, UpdateTyped
  <1> QED
    BY <1>1, <1>2, <1>3, <1>4, <1>5

\* What a step leaves of the calls and requests under way still names a
\* submitted document.
LEMMA StaysWellFormed ==
  ASSUME TypeInv, Documented,
         \A e \in Execs : Busy(e)' => Busy(e) /\ exec'[e].job = exec[e].job,
         \A c \in Clients : retry'[c].pc = "loaded" =>
             retry[c].pc = "loaded" /\ retry'[c].job = retry[c].job
  PROVE  WellFormed'
  BY DEF TypeInv, WellFormed, Documented

\* A call that moves on stays with its job, and one that returns has none.
LEMMA CallMoves ==
  ASSUME TypeOK, NEW e \in Execs, Busy(e), NEW x \in ExecType, x.job = exec[e].job,
         exec' = [exec EXCEPT ![e] = x]
  PROVE  /\ exec' \in [Execs -> ExecType]
         /\ \A f \in Execs : Busy(f)' => Busy(f) /\ exec'[f].job = exec[f].job
  BY DEF TypeOK, Busy

LEMMA CallReturns ==
  ASSUME TypeOK, NEW e \in Execs, Return(e)
  PROVE  /\ exec' \in [Execs -> ExecType]
         /\ \A f \in Execs : Busy(f)' => Busy(f) /\ exec'[f].job = exec[f].job
  <1>1. IdleExec \in ExecType /\ IdleExec.pc = "idle"
    BY DEF IdleExec, ExecType, Errors
  <1> QED
    BY <1>1 DEF TypeOK, Return, Busy

LEMMA NextTypeInv == TypeInv /\ [Next]_vars => TypeInv'
  <1> SUFFICES ASSUME TypeInv, [Next]_vars PROVE TypeInv'
    OBVIOUS
  <1> DEFINE Kept(f) == Busy(f)' => Busy(f) /\ exec'[f].job = exec[f].job
  <1>a. /\ TypeOK
        /\ job \in [Jobs -> JobType]
        /\ mode \in [Workers -> {"up", "draining", "stopped", "crashed"}]
        /\ exec \in [Execs -> ExecType]
        /\ retry \in [Clients -> RetryType]
        /\ faults \in 0 .. MaxFaults
    BY DEF TypeInv, TypeOK
  <1>b. job' = job => Documented
    BY <1>a DEF Documented
  <1>c. exec' = exec => \A f \in Execs : Kept(f)
    BY DEF Busy
  <1>d. \A kind : Fault(kind) => faults' \in 0 .. MaxFaults
    BY <1>a, FaultsAssumption DEF Fault
  <1>e. \A f \in Execs : Busy(f) => exec[f].job \in Jobs
    BY DEF TypeInv, WellFormed
  <1>f. ASSUME Documented, retry' = retry, \A f \in Execs : Kept(f),
               mode' \in [Workers -> {"up", "draining", "stopped", "crashed"}],
               exec' \in [Execs -> ExecType], faults' \in 0 .. MaxFaults
        PROVE  TypeInv'
    <2>1. WellFormed'
      BY <1>f, StaysWellFormed
    <2> QED
      BY <1>a, <1>f, <2>1 DEF TypeInv, TypeOK, Documented
  <1>1. ASSUME NEW j \in Jobs,
               \/ Create(j) \/ BackoffElapses(j) \/ LeaseExpires(j) \/ Stall(j)
               \/ \E e \in Execs : Heartbeat(e, j)
               \/ \E w \in Workers : RecoverAbandoned(w, j)
        PROVE  TypeInv'
    <2>1. Documented /\ UNCHANGED <<mode, exec, retry>>
      BY <1>1, <1>a, TouchTyped
    <2>2. faults' \in 0 .. MaxFaults
      BY <1>1, <1>a, <1>d
      DEF Create, StoreJob, BackoffElapses, LeaseExpires, Stall, Heartbeat, RecoverAbandoned
    <2> QED
      BY <2>1, <2>2, <1>a, <1>c, <1>f
  <1>2. ASSUME NEW e \in Execs, Spawn(e) PROVE TypeInv'
    <2> DEFINE x == [exec[e] EXCEPT !.pc = "claiming"]
    <2>1. x \in ExecType /\ x.pc = "claiming"
      BY <1>a DEF ExecType
    <2>2. exec' = [exec EXCEPT ![e] = x] /\ UNCHANGED <<job, mode, retry, faults>>
      BY <1>2 DEF Spawn, Goto
    <2> HIDE DEF x
    <2>3. exec' \in [Execs -> ExecType] /\ \A f \in Execs : Kept(f)
      BY <2>1, <2>2, <1>a DEF Busy
    <2> QED
      BY <2>2, <2>3, <1>a, <1>b, <1>f
  <1>3. ASSUME NEW e \in Execs, NEW j \in Jobs, Claim(e, j) PROVE TypeInv'
    <2> DEFINE x == [pc |-> "running", job |-> j, ver |-> job[j].version + 1,
                     err |-> "transient", seen |-> 0]
    <2>1. e[1] \in Workers
      BY DEF Execs
    <2>2. Documented /\ job'[j].status # "absent"
      BY <1>3, <1>a, <2>1, TakeJobTyped DEF Claim
    <2>3. job[j].version \in Nat
      BY <1>a DEF JobType
    <2>4. x \in ExecType /\ x.job = j
      BY <2>3 DEF ExecType, Errors
    <2>5. exec' = [exec EXCEPT ![e] = x] /\ UNCHANGED <<mode, retry, faults>>
      BY <1>3 DEF Claim
    <2> HIDE DEF x
    <2>6. exec' \in [Execs -> ExecType]
      BY <2>4, <2>5, <1>a
    <2>7. WellFormed'
      BY <2>2, <2>4, <2>5, <1>a DEF TypeInv, WellFormed, Documented, Busy
    <2> QED
      BY <1>a, <2>2, <2>5, <2>6, <2>7 DEF TypeInv, TypeOK, Documented
  <1>4. ASSUME NEW e \in Execs, NEW j \in Jobs, ClaimReplyLost(e, j) PROVE TypeInv'
    <2>1. e[1] \in Workers
      BY DEF Execs
    <2>2. Documented
      BY <1>4, <1>a, <2>1, TakeJobTyped DEF ClaimReplyLost
    <2> QED
      BY <1>4, <2>2, <1>a, <1>d, <1>f, CallReturns DEF ClaimReplyLost
  <1>5. ASSUME NEW e \in Execs, ClaimNothing(e) \/ CallErrs(e) PROVE TypeInv'
    <2>1. Return(e) /\ UNCHANGED <<job, mode, retry>> /\ faults' \in 0 .. MaxFaults
      BY <1>5, <1>a, <1>d DEF ClaimNothing, CallErrs
    <2> QED
      BY <2>1, <1>a, <1>b, <1>f, CallReturns
  <1>6. ASSUME NEW e \in Execs, RunResolves(e) PROVE TypeInv'
    <2> DEFINE x == [exec[e] EXCEPT !.pc = "completing"]
    <2>1. x \in ExecType /\ x.job = exec[e].job
      BY <1>a DEF ExecType
    <2>2. /\ Busy(e)
          /\ exec' = [exec EXCEPT ![e] = x]
          /\ UNCHANGED <<job, mode, retry, faults>>
      BY <1>6 DEF RunResolves, Goto, Busy
    <2> HIDE DEF x
    <2> QED
      BY <2>1, <2>2, <1>a, <1>b, <1>f, CallMoves
  <1>7. ASSUME NEW e \in Execs, RunRejects(e) PROVE TypeInv'
    <2>1. PICK err \in Errors : exec' = [exec EXCEPT ![e] =
                                    [@ EXCEPT !.pc = "failing", !.err = err]]
      BY <1>7 DEF RunRejects
    <2> DEFINE x == [exec[e] EXCEPT !.pc = "failing", !.err = err]
    <2>2. x \in ExecType /\ x.job = exec[e].job
      BY <1>a DEF ExecType
    <2>3. Busy(e) /\ exec' = [exec EXCEPT ![e] = x] /\ UNCHANGED <<job, mode, retry, faults>>
      BY <1>7, <2>1 DEF RunRejects, Busy
    <2> HIDE DEF x
    <2> QED
      BY <2>2, <2>3, <1>a, <1>b, <1>f, CallMoves
  <1>8. ASSUME NEW e \in Execs, Complete(e) PROVE TypeInv'
    <2>1. Busy(e)
      BY <1>8 DEF Complete, Busy
    <2>2. Documented
      BY <1>8, <2>1, <1>a, <1>e, MarkCompletedTyped DEF Complete
    <2> QED
      BY <1>8, <2>2, <1>a, <1>f, CallReturns DEF Complete
  <1>9. ASSUME NEW e \in Execs, CompleteErrs(e) PROVE TypeInv'
    <2> DEFINE x == [exec[e] EXCEPT !.pc = "failing", !.err = "transient"]
    <2>1. x \in ExecType /\ x.job = exec[e].job
      BY <1>a DEF ExecType, Errors
    <2>2. Busy(e) /\ exec' = [exec EXCEPT ![e] = x] /\ UNCHANGED <<mode, retry>>
      BY <1>9 DEF CompleteErrs, Busy
    <2>3. Documented
      BY <1>9, <2>2, <1>a, <1>b, <1>e, MarkCompletedTyped DEF CompleteErrs
    <2>4. faults' \in 0 .. MaxFaults
      BY <1>9, <1>d DEF CompleteErrs
    <2> HIDE DEF x
    <2> QED
      BY <2>1, <2>2, <2>3, <2>4, <1>a, <1>f, CallMoves
  <1>10. ASSUME NEW e \in Execs, FailRead(e) PROVE TypeInv'
    <2> DEFINE x == [exec[e] EXCEPT !.pc = "deciding",
                                    !.seen = job[exec[e].job].attempts]
    <2>1. Busy(e) /\ exec' = [exec EXCEPT ![e] = x] /\ UNCHANGED <<job, mode, retry, faults>>
      BY <1>10 DEF FailRead, Busy
    <2>2. job[exec[e].job].attempts \in Nat
      BY <2>1, <1>a, <1>e DEF JobType
    <2>3. x \in ExecType /\ x.job = exec[e].job
      BY <2>2, <1>a DEF ExecType
    <2> HIDE DEF x
    <2> QED
      BY <2>1, <2>3, <1>a, <1>b, <1>f, CallMoves
  <1>11. ASSUME NEW e \in Execs, FailWrite(e) PROVE TypeInv'
    <2>1. Busy(e)
      BY <1>11 DEF FailWrite, Busy
    <2>2. Documented
      BY <1>11, <2>1, <1>a, <1>e, FailWriteTyped
    <2> QED
      BY <1>11, <2>2, <1>a, <1>f, CallReturns DEF FailWrite
  <1>12. ASSUME NEW w \in Workers, Shutdown(w) \/ Exit(w) \/ Restart(w)
         PROVE  TypeInv'
    <2>1. UNCHANGED <<job, exec, retry, faults>>
      BY <1>12 DEF Shutdown, Exit, Restart
    <2>2. mode' \in [Workers -> {"up", "draining", "stopped", "crashed"}]
      BY <1>12, <1>a DEF Shutdown, Exit, Restart
    <2> QED
      BY <2>1, <2>2, <1>a, <1>b, <1>c, <1>f
  <1>13. ASSUME NEW w \in Workers, Crash(w) PROVE TypeInv'
    <2>1. IdleExec \in ExecType /\ IdleExec.pc = "idle"
      BY DEF IdleExec, ExecType, Errors
    <2>2. exec' = [e \in Execs |-> IF e[1] = w THEN IdleExec ELSE exec[e]]
      BY <1>13 DEF Crash
    <2>3. exec' \in [Execs -> ExecType]
      BY <2>1, <2>2, <1>a
    <2>4. \A f \in Execs : Kept(f)
      BY <2>1, <2>2 DEF Busy
    <2>5. mode' \in [Workers -> {"up", "draining", "stopped", "crashed"}]
      BY <1>13, <1>a DEF Crash
    <2>6. faults' \in 0 .. MaxFaults /\ UNCHANGED <<job, retry>>
      BY <1>13, <1>d DEF Crash
    <2> QED
      BY <2>3, <2>4, <2>5, <2>6, <1>b, <1>f
  <1>14. ASSUME NEW c \in Clients, NEW j \in Jobs, RetryLoad(c, j) PROVE TypeInv'
    <2> DEFINE x == [pc |-> "loaded", job |-> j, doc |-> job[j]]
    <2>1. x \in RetryType /\ x.job = j
      BY <1>a DEF RetryType
    <2>2. /\ retry' = [retry EXCEPT ![c] = x]
          /\ UNCHANGED <<job, mode, exec, faults>>
          /\ job[j].status # "absent"
      BY <1>14 DEF RetryLoad
    <2> HIDE DEF x
    <2>3. retry' \in [Clients -> RetryType]
      BY <2>1, <2>2, <1>a
    <2>4. WellFormed'
      BY <2>1, <2>2, <1>a DEF TypeInv, WellFormed, Busy
    <2> QED
      BY <2>2, <2>3, <2>4, <1>a DEF TypeInv, TypeOK
  <1>15. ASSUME NEW c \in Clients, RetrySave(c) PROVE TypeInv'
    <2> DEFINE x == [IdleRetry EXCEPT !.pc = "done"]
    <2>1. x \in RetryType /\ x.pc = "done"
      BY DEF IdleRetry, NoJob, RetryType, JobType, Statuses, Leases
    <2>2. retry' = [retry EXCEPT ![c] = x] /\ UNCHANGED <<mode, exec, faults>>
      BY <1>15 DEF RetrySave
    <2> HIDE DEF x
    <2>3. retry[c].job \in Jobs
      BY <1>15 DEF RetrySave, TypeInv, WellFormed
    <2>4. Documented
      BY <1>15, <2>3, <1>a, RetrySaveTyped
    <2>5. retry' \in [Clients -> RetryType]
      BY <2>1, <2>2, <1>a
    <2>6. \A d \in Clients : retry'[d].pc = "loaded" =>
             retry[d].pc = "loaded" /\ retry'[d].job = retry[d].job
      BY <2>1, <2>2, <1>a
    <2>7. WellFormed'
      BY <2>2, <2>4, <2>6, <1>c, StaysWellFormed
    <2> QED
      BY <2>2, <2>4, <2>5, <2>7, <1>a DEF TypeInv, TypeOK, Documented
  <1>16. CASE UNCHANGED vars
    BY <1>16, <1>a, <1>b, <1>c, <1>f DEF vars
  <1>17. QED
    BY <1>1, <1>2, <1>3, <1>4, <1>5, <1>6, <1>7, <1>8, <1>9, <1>10, <1>11,
       <1>12, <1>13, <1>14, <1>15, <1>16
    DEF Next, Serve, ExecStep

\* Every document and call is well typed throughout: no write of a worker or
\* of an operator leaves the schema of diagnostic-job.ts.
THEOREM TypeCorrect == Spec => []TypeOK
  <1>1. TypeInv => TypeOK
    BY DEF TypeInv
  <1> QED
    BY InitTypeInv, NextTypeInv, <1>1, PTL DEF Spec

-----------------------------------------------------------------------------
\* A step that claims nothing leaves what the calls under way hold as it is,
\* and no document's version goes back.
CallsKept ==
    \A e \in Execs : Busy(e)' =>
        Busy(e) /\ exec'[e].job = exec[e].job /\ exec'[e].ver = exec[e].ver

KeepsClaims ==
    /\ CallsKept
    /\ \A j \in Jobs :
          job[j].status # "absent" => job'[j].version >= job[j].version

LEMMA ClaimsOrKeeps ==
  ASSUME TypeInv, [Next]_vars
  PROVE  (\E e \in Execs, j \in Jobs : Claim(e, j)) \/ KeepsClaims
  <1> USE DEF Busy, CallsKept, KeepsClaims
  <1>0. /\ \A j \in Jobs : job[j].version \in Nat
        /\ job \in [Jobs -> JobType]
        /\ exec \in [Execs -> ExecType]
    BY DEF TypeInv, TypeOK, JobType
  <1>1. ASSUME NEW j \in Jobs,
               \/ Create(j) \/ BackoffElapses(j) \/ LeaseExpires(j) \/ Stall(j)
               \/ \E e \in Execs : Heartbeat(e, j)
               \/ \E w \in Workers : RecoverAbandoned(w, j)
        PROVE  KeepsClaims
    <2>1. exec' = exec
      BY <1>1
      DEF Create, StoreJob, BackoffElapses, LeaseExpires, Stall, Heartbeat, RecoverAbandoned
    <2>2. CASE Create(j)
      BY <1>0, <2>1, <2>2 DEF Create, StoreJob
    <2>3. CASE BackoffElapses(j) \/ LeaseExpires(j) \/ Stall(j)
      BY <1>0, <2>1, <2>3 DEF BackoffElapses, LeaseExpires, Stall, JobType
    <2>4. CASE \E e \in Execs : Heartbeat(e, j)
      BY <1>0, <2>1, <2>4 DEF Heartbeat, JobType
    <2>5. CASE \E w \in Workers : RecoverAbandoned(w, j)
      BY <1>0, <2>1, <2>5 DEF RecoverAbandoned, JobType
    <2> QED
      BY <1>1, <2>2, <2>3, <2>4, <2>5
  <1>2. ASSUME NEW e \in Execs, NEW j \in Jobs, ClaimReplyLost(e, j)
        PROVE  KeepsClaims
    <2>1. CallsKept
      BY <1>0, <1>2 DEF ClaimReplyLost, Return, IdleExec
    <2>2. \A k \in Jobs : job'[k].version >= job[k].version
      BY <1>0, <1>2 DEF ClaimReplyLost, TakeJob
    <2> QED
      BY <2>1, <2>2
  <1>3. ASSUME NEW e \in Execs,
               \/ Spawn(e) \/ ClaimNothing(e) \/ RunResolves(e) \/ RunRejects(e)
               \/ FailRead(e) \/ CallErrs(e)
        PROVE  KeepsClaims
    <2>1. job' = job
      BY <1>3 DEF Spawn, ClaimNothing, RunResolves, RunRejects, FailRead, CallErrs
    <2>2. CASE Spawn(e) \/ ClaimNothing(e) \/ CallErrs(e)
      BY <1>0, <2>1, <2>2 DEF Spawn, Goto, ClaimNothing, CallErrs, Return, IdleExec, ExecType
    <2>3. CASE RunResolves(e)
      BY <1>0, <2>1, <2>3 DEF RunResolves, Goto, ExecType
    <2>4. CASE RunRejects(e)
      BY <1>0, <2>1, <2>4 DEF RunRejects, ExecType
    <2>5. CASE FailRead(e)
      BY <1>0, <2>1, <2>5 DEF FailRead, ExecType
    <2> QED
      BY <1>3, <2>2, <2>3, <2>4, <2>5
  <1>4. ASSUME NEW e \in Execs, Complete(e) \/ CompleteErrs(e) \/ FailWrite(e)
        PROVE  KeepsClaims
    <2>1. CASE Complete(e)
      <3>1. CallsKept
        BY <1>0, <2>1 DEF Complete, Return, IdleExec
      <3>2. \A j \in Jobs : job'[j].version = job[j].version
        BY <1>0, <2>1 DEF Complete, MarkCompleted, JobType
      <3> QED
        BY <1>0, <3>1, <3>2
    <2>2. CASE CompleteErrs(e)
      <3>1. CallsKept
        BY <1>0, <2>2 DEF CompleteErrs, ExecType
      <3>2. \A j \in Jobs : job'[j].version = job[j].version
        <4>1. MarkCompleted(exec[e].job) \/ job' = job
          BY <2>2 DEF CompleteErrs
        <4>2. CASE MarkCompleted(exec[e].job)
          BY <1>0, <4>2 DEF MarkCompleted, JobType
        <4> QED
          BY <4>1, <4>2
      <3> QED
        BY <1>0, <3>1, <3>2
    <2>3. CASE FailWrite(e)
      <3>1. CallsKept
        BY <1>0, <2>3 DEF FailWrite, Return, IdleExec
      <3>2. \A j \in Jobs : job'[j].version = job[j].version
        BY <1>0, <2>3 DEF FailWrite, JobType
      <3> QED
        BY <1>0, <3>1, <3>2
    <2> QED
      BY <1>4, <2>1, <2>2, <2>3
  <1>5. ASSUME NEW w \in Workers, Shutdown(w) \/ Exit(w) \/ Crash(w) \/ Restart(w)
        PROVE  KeepsClaims
    BY <1>0, <1>5 DEF Shutdown, Exit, Crash, Restart, IdleExec
  <1>6. ASSUME NEW c \in Clients, (\E j \in Jobs : RetryLoad(c, j)) \/ RetrySave(c)
        PROVE  KeepsClaims
    BY <1>0, <1>6 DEF RetryLoad, RetrySave, JobType
  <1>7. CASE UNCHANGED vars
    BY <1>0, <1>7 DEF vars
  <1> QED
    BY <1>1, <1>2, <1>3, <1>4, <1>5, <1>6, <1>7 DEF Next, Serve, ExecStep

LEMMA NextClaimIsExclusive ==
  TypeInv /\ ClaimIsExclusive /\ [Next]_vars => ClaimIsExclusive'
  <1> SUFFICES ASSUME TypeInv, ClaimIsExclusive, [Next]_vars
               PROVE  ClaimIsExclusive'
    OBVIOUS
  <1>0. /\ \A j \in Jobs : job[j].version \in Nat
        /\ \A e \in Execs : exec[e].ver \in Nat
        /\ job \in [Jobs -> JobType]
        /\ exec \in [Execs -> ExecType]
    BY DEF TypeInv, TypeOK, JobType, ExecType
  <1>1. ASSUME NEW e \in Execs, NEW j \in Jobs, Claim(e, j)
        PROVE  ClaimIsExclusive'
    <2>1. /\ job'[j].version = job[j].version + 1
          /\ \A k \in Jobs \ {j} : job'[k] = job[k]
      BY <1>0, <1>1 DEF Claim, TakeJob
    <2>2. /\ exec'[e].pc = "running" /\ exec'[e].job = j
          /\ exec'[e].ver = job[j].version + 1
          /\ \A f \in Execs \ {e} : exec'[f] = exec[f]
      BY <1>0, <1>1 DEF Claim
    <2>3. \A f \in Execs : Busy(f) /\ exec[f].job = j => exec[f].ver < job[j].version + 1
      BY <1>0 DEF ClaimIsExclusive
    <2>4. \A f \in Execs : Busy(f) => exec[f].job \in Jobs
      BY DEF TypeInv, WellFormed
    <2> QED
      BY <1>0, <2>1, <2>2, <2>3, <2>4 DEF ClaimIsExclusive, Holds, Busy
  <1>2. ASSUME KeepsClaims PROVE ClaimIsExclusive'
    <2>1. \A e \in Execs : Busy(e) =>
            exec[e].job \in Jobs /\ job'[exec[e].job].version >= job[exec[e].job].version
      BY <1>2 DEF KeepsClaims, TypeInv, WellFormed
    <2>2. \A j \in Jobs : job'[j].version \in Nat
      BY NextTypeInv DEF TypeInv, TypeOK, JobType
    <2>3. \A e \in Execs : Busy(e)' =>
            Busy(e) /\ exec'[e].job = exec[e].job /\ exec'[e].ver = exec[e].ver
      BY <1>2 DEF KeepsClaims, CallsKept
    <2> QED
      BY <1>0, <2>1, <2>2, <2>3 DEF ClaimIsExclusive, Holds
  <1> QED
    BY <1>1, <1>2, ClaimsOrKeeps

\* claim's atomic findOneAndUpdate gives a version to one caller, whatever
\* crashes, stalls, is lost or is retried afterwards.
THEOREM ClaimsAreExclusive == Spec => []ClaimIsExclusive
  <1>1. Init => ClaimIsExclusive
    BY DEF Init, IdleExec, ClaimIsExclusive, Busy
  <1> QED
    BY <1>1, InitTypeInv, NextTypeInv, NextClaimIsExclusive, PTL DEF Spec

-----------------------------------------------------------------------------
LEMMA NextLeaseMatchesStatus ==
  TypeInv /\ LeaseMatchesStatus /\ [Next]_vars => LeaseMatchesStatus'
  <1> SUFFICES ASSUME TypeInv, LeaseMatchesStatus, [Next]_vars
               PROVE  LeaseMatchesStatus'
    OBVIOUS
  <1>0. /\ job \in [Jobs -> JobType]
        /\ Null \notin Workers
        /\ \A e \in Execs : e[1] \in Workers
    BY NullAssumption DEF TypeInv, TypeOK, Execs
  <1> USE DEF LeaseMatchesStatus
  <1>1. ASSUME NEW j \in Jobs, Create(j) PROVE LeaseMatchesStatus'
    BY <1>0, <1>1 DEF Create, StoreJob, JobType
  <1>2. ASSUME NEW j \in Jobs, BackoffElapses(j) PROVE LeaseMatchesStatus'
    BY <1>0, <1>2 DEF BackoffElapses, JobType
  <1>3. ASSUME NEW j \in Jobs, LeaseExpires(j) \/ Stall(j) PROVE LeaseMatchesStatus'
    BY <1>0, <1>3 DEF LeaseExpires, Stall, JobType
  <1>4. ASSUME NEW e \in Execs, NEW j \in Jobs, Claim(e, j) \/ ClaimReplyLost(e, j)
        PROVE  LeaseMatchesStatus'
    <2>1. TakeJob(e[1], j)
      BY <1>4 DEF Claim, ClaimReplyLost
    <2> QED
      BY <1>0, <2>1 DEF TakeJob
  <1>5. ASSUME NEW e \in Execs, Complete(e) \/ CompleteErrs(e)
        PROVE  LeaseMatchesStatus'
    <2>1. MarkCompleted(exec[e].job) \/ job' = job
      BY <1>5 DEF Complete, CompleteErrs
    <2>2. CASE MarkCompleted(exec[e].job)
      BY <1>0, <2>2 DEF MarkCompleted, JobType
    <2> QED
      BY <2>1, <2>2
  <1>6. ASSUME NEW e \in Execs, FailWrite(e) PROVE LeaseMatchesStatus'
    BY <1>0, <1>6 DEF FailWrite, JobType
  <1>7. ASSUME NEW e \in Execs, NEW j \in Jobs, Heartbeat(e, j)
        PROVE  LeaseMatchesStatus'
    BY <1>0, <1>7 DEF Heartbeat, JobType
  <1>8. ASSUME NEW w \in Workers, NEW j \in Jobs, RecoverAbandoned(w, j)
        PROVE  LeaseMatchesStatus'
    BY <1>0, <1>8 DEF RecoverAbandoned, JobType
  <1>9. ASSUME NEW c \in Clients, RetrySave(c) PROVE LeaseMatchesStatus'
    BY <1>0, <1>9 DEF RetrySave, JobType
  <1>10. ASSUME job' = job PROVE LeaseMatchesStatus'
    BY <1>10
  <1>11. ASSUME NEW e \in Execs,
                \/ Spawn(e) \/ ClaimNothing(e) \/ RunResolves(e) \/ RunRejects(e)
                \/ FailRead(e) \/ CallErrs(e)
         PROVE  job' = job
    BY <1>11 DEF Spawn, ClaimNothing, RunResolves, RunRejects, FailRead, CallErrs
  <1>12. ASSUME NEW w \in Workers, Shutdown(w) \/ Exit(w) \/ Crash(w) \/ Restart(w)
         PROVE  job' = job
    BY <1>12 DEF Shutdown, Exit, Crash, Restart
  <1>13. ASSUME NEW c \in Clients, NEW j \in Jobs, RetryLoad(c, j) PROVE job' = job
    BY <1>13 DEF RetryLoad
  <1>14. CASE UNCHANGED vars
    BY <1>10, <1>14 DEF vars
  <1> QED
    BY <1>1, <1>2, <1>3, <1>4, <1>5, <1>6, <1>7, <1>8, <1>9, <1>10, <1>11,
       <1>12, <1>13, <1>14
    DEF Next, Serve, ExecStep

\* No running job ever escapes recoverAbandoned for want of a lease, and no
\* finished one keeps a lease.
THEOREM LeasesMatchStatuses == Spec => []LeaseMatchesStatus
  <1>1. Init => LeaseMatchesStatus
    BY DEF Init, NoJob, LeaseMatchesStatus
  <1> QED
    BY <1>1, InitTypeInv, NextTypeInv, NextLeaseMatchesStatus, PTL DEF Spec

-----------------------------------------------------------------------------
(* Part 2: as long as heartbeats keep leases (processes may crash) and      *)
(* retry requests do not overlap.                                          *)

\* What keeps every unguarded write of complete, fail and save from hitting a
\* document that has moved on: the one that writes is the one that holds the
\* job, and nobody else changes the attempts it read or the document it
\* loaded in between.
HolderInv ==
    /\ SingleHolder
    /\ \A e \in Execs : exec[e].pc = "deciding" =>
          exec[e].seen = job[exec[e].job].attempts
    /\ \A c \in Clients : retry[c].pc = "loaded" =>
          /\ job[retry[c].job].status = "dead_lettered"
          /\ retry[c].doc.attempts = job[retry[c].job].attempts
          /\ \A d \in Clients : retry[d].pc = "loaded" => d = c

QuietInv == TypeInv /\ HolderInv

\* The step writes document j alone, and nothing of it that its holder or a
\* loaded retry request relies on.
WritesAround(j) ==
    /\ exec' = exec
    /\ retry' = retry
    /\ \A k \in Jobs \ {j} : job'[k] = job[k]
    /\ \A e \in Execs : Holds(e, j) =>
          /\ job'[j].status = "running"
          /\ job'[j].claimedBy = job[j].claimedBy
          /\ job'[j].lease = "live"
          /\ job'[j].attempts = job[j].attempts
    /\ job[j].status = "dead_lettered" =>
          /\ job'[j].status = "dead_lettered"
          /\ job'[j].attempts = job[j].attempts

LEMMA WriteAroundKeepsHolders ==
  ASSUME QuietInv, NEW j \in Jobs, WritesAround(j)
  PROVE  HolderInv'
  <1>1. /\ \A e \in Execs : Busy(e) => exec[e].job \in Jobs
        /\ \A c \in Clients : retry[c].pc = "loaded" => retry[c].job \in Jobs
    BY DEF QuietInv, TypeInv, WellFormed
  <1>2. SingleHolder'
    BY DEF QuietInv, HolderInv, SingleHolder, OneProcessor, Holds, Busy, WritesAround
  <1>3. \A e \in Execs : exec'[e].pc = "deciding" =>
            exec'[e].seen = job'[exec'[e].job].attempts
    BY <1>1 DEF QuietInv, HolderInv, Holds, Busy, WritesAround
  <1>4. \A c \in Clients : retry'[c].pc = "loaded" =>
          /\ job'[retry'[c].job].status = "dead_lettered"
          /\ retry'[c].doc.attempts = job'[retry'[c].job].attempts
          /\ \A d \in Clients : retry'[d].pc = "loaded" => d = c
    BY <1>1 DEF QuietInv, HolderInv, WritesAround
  <1> QED
    BY <1>2, <1>3, <1>4 DEF HolderInv

\* The holder e writes the document it holds and returns.
LEMMA ReturnKeepsHolders ==
  ASSUME QuietInv, NEW e \in Execs, Busy(e), Return(e), retry' = retry,
         \A k \in Jobs \ {exec[e].job} : job'[k] = job[k]
  PROVE  HolderInv'
  <1>1. /\ \A f \in Execs : Busy(f) => exec[f].job \in Jobs
        /\ \A c \in Clients : retry[c].pc = "loaded" =>
              retry[c].job \in Jobs /\ retry[c].job # exec[e].job
        /\ exec \in [Execs -> ExecType]
    BY DEF QuietInv, TypeInv, TypeOK, WellFormed, HolderInv, SingleHolder, Holds
  <1>2. /\ ~Busy(e)'
        /\ \A f \in Execs \ {e} : exec'[f] = exec[f]
    BY <1>1 DEF Return, IdleExec, Busy
  <1>3. \A f \in Execs \ {e} : Busy(f) => exec[f].job # exec[e].job
    BY <1>1 DEF QuietInv, HolderInv, SingleHolder, OneProcessor, Holds
  <1>4. SingleHolder'
    BY <1>1, <1>2, <1>3
    DEF QuietInv, HolderInv, SingleHolder, OneProcessor, Holds, Busy
  <1>5. \A f \in Execs : exec'[f].pc = "deciding" =>
            exec'[f].seen = job'[exec'[f].job].attempts
    BY <1>1, <1>2, <1>3 DEF QuietInv, HolderInv, Busy
  <1>6. \A c \in Clients : retry'[c].pc = "loaded" =>
          /\ job'[retry'[c].job].status = "dead_lettered"
          /\ retry'[c].doc.attempts = job'[retry'[c].job].attempts
          /\ \A d \in Clients : retry'[d].pc = "loaded" => d = c
    BY <1>1 DEF QuietInv, HolderInv
  <1> QED
    BY <1>4, <1>5, <1>6 DEF HolderInv

\* The step moves calls along without touching a document or a request.
LEMMA CallStepKeepsHolders ==
  ASSUME QuietInv, job' = job, retry' = retry,
         \A e \in Execs : Busy(e)' => Busy(e) /\ exec'[e].job = exec[e].job,
         \A e \in Execs : exec'[e].pc = "deciding" =>
             exec'[e].seen = job[exec'[e].job].attempts
  PROVE  HolderInv'
  <1>1. SingleHolder'
    BY DEF QuietInv, HolderInv, SingleHolder, OneProcessor, Holds
  <1> QED
    BY <1>1 DEF QuietInv, HolderInv

LEMMA NextHolderInv ==
  ASSUME FaultKinds \subseteq {"crash"}, SerialRetries, QuietInv, [Next]_vars
  PROVE  HolderInv'
  <1>0. /\ job \in [Jobs -> JobType]
        /\ exec \in [Execs -> ExecType]
        /\ retry \in [Clients -> RetryType]
        /\ \A e \in Execs : Busy(e) => exec[e].job \in Jobs
        /\ \A c \in Clients : retry[c].pc = "loaded" => retry[c].job \in Jobs
        /\ \A e \in Execs, j \in Jobs : Holds(e, j) =>
              /\ job[j].status = "running"
              /\ job[j].claimedBy = e[1]
              /\ job[j].lease = "live"
    BY DEF QuietInv, TypeInv, TypeOK, WellFormed, HolderInv, SingleHolder
  <1>1. ASSUME NEW j \in Jobs,
               Create(j) \/ BackoffElapses(j) \/ LeaseExpires(j) \/ Stall(j)
        PROVE  HolderInv'
    <2>1. CASE Create(j)
      BY <1>0, <2>1, WriteAroundKeepsHolders DEF Create, StoreJob, WritesAround
    <2>2. CASE BackoffElapses(j)
      BY <1>0, <2>2, WriteAroundKeepsHolders DEF BackoffElapses, WritesAround, JobType
    <2>3. CASE LeaseExpires(j)
      <3>1. \A e \in Execs : ~Holds(e, j)
        BY <1>0, <2>3 DEF LeaseExpires, Renewed
      <3> QED
        BY <1>0, <2>3, <3>1, WriteAroundKeepsHolders
        DEF LeaseExpires, WritesAround, JobType
    <2>4. CASE Stall(j)
      BY <2>4 DEF Stall, Fault
    <2> QED
      BY <1>1, <2>1, <2>2, <2>3, <2>4
  <1>2. ASSUME NEW e \in Execs, NEW j \in Jobs, Claim(e, j) PROVE HolderInv'
    <2>1. /\ job'[j].status = "running" /\ job'[j].claimedBy = e[1]
          /\ job'[j].lease = "live"
          /\ \A k \in Jobs \ {j} : job'[k] = job[k]
      BY <1>0, <1>2 DEF Claim, TakeJob
    <2>2. /\ exec'[e].pc = "running" /\ exec'[e].job = j
          /\ \A f \in Execs \ {e} : exec'[f] = exec[f]
      BY <1>0, <1>2 DEF Claim
    <2>3. /\ \A f \in Execs : ~Holds(f, j)
          /\ job[j].status # "dead_lettered"
      BY <1>0, <1>2 DEF Claim, Claimable
    <2>4. SingleHolder'
      BY <1>0, <2>1, <2>2, <2>3
      DEF QuietInv, HolderInv, SingleHolder, OneProcessor, Holds, Busy
    <2>5. \A f \in Execs : exec'[f].pc = "deciding" =>
            exec'[f].seen = job'[exec'[f].job].attempts
      BY <1>0, <2>1, <2>2, <2>3 DEF QuietInv, HolderInv, Holds, Busy
    <2>6. \A c \in Clients : retry'[c].pc = "loaded" =>
            /\ job'[retry'[c].job].status = "dead_lettered"
            /\ retry'[c].doc.attempts = job'[retry'[c].job].attempts
            /\ \A d \in Clients : retry'[d].pc = "loaded" => d = c
      BY <1>0, <1>2, <2>1, <2>3 DEF QuietInv, HolderInv, Claim
    <2> QED
      BY <2>4, <2>5, <2>6 DEF HolderInv
  <1>3. ASSUME NEW e \in Execs, Spawn(e) \/ ClaimNothing(e) PROVE HolderInv'
    <2>1. /\ \A f \in Execs : Busy(f)' => Busy(f) /\ exec'[f] = exec[f]
          /\ job' = job /\ retry' = retry
      <3>1. CASE Spawn(e)
        BY <1>0, <3>1 DEF Spawn, Goto, Busy, ExecType
      <3>2. CASE ClaimNothing(e)
        BY <1>0, <3>2 DEF ClaimNothing, Return, IdleExec, Busy
      <3> QED
        BY <1>3, <3>1, <3>2
    <2> QED
      BY <2>1, CallStepKeepsHolders DEF QuietInv, HolderInv, Busy
  <1>4. ASSUME NEW e \in Execs, RunResolves(e) \/ RunRejects(e) PROVE HolderInv'
    <2>1. exec[e].pc = "running" /\ job' = job /\ retry' = retry
      BY <1>4 DEF RunResolves, RunRejects
    <2>2. /\ exec'[e].job = exec[e].job /\ exec'[e].pc \in {"completing", "failing"}
          /\ \A f \in Execs \ {e} : exec'[f] = exec[f]
      <3>1. CASE RunResolves(e)
        BY <1>0, <3>1 DEF RunResolves, Goto, ExecType
      <3>2. CASE RunRejects(e)
        BY <1>0, <3>2 DEF RunRejects, ExecType
      <3> QED
        BY <1>4, <3>1, <3>2
    <2> QED
      BY <2>1, <2>2, CallStepKeepsHolders DEF QuietInv, HolderInv, Busy
  <1>5. ASSUME NEW e \in Execs, FailRead(e) PROVE HolderInv'
    <2>1. exec[e].pc = "failing" /\ job' = job /\ retry' = retry
      BY <1>5 DEF FailRead
    <2>2. /\ exec'[e].job = exec[e].job
          /\ exec'[e].seen = job[exec[e].job].attempts
          /\ \A f \in Execs \ {e} : exec'[f] = exec[f]
      BY <1>0, <1>5 DEF FailRead, ExecType
    <2> QED
      BY <2>1, <2>2, CallStepKeepsHolders DEF QuietInv, HolderInv, Busy
  <1>6. ASSUME NEW e \in Execs, Complete(e) \/ FailWrite(e) PROVE HolderInv'
    <2>1. Busy(e) /\ Return(e) /\ retry' = retry
      BY <1>6 DEF Complete, FailWrite, Busy
    <2>2. \A k \in Jobs \ {exec[e].job} : job'[k] = job[k]
      <3>1. CASE Complete(e)
        BY <1>0, <3>1 DEF Complete, MarkCompleted
      <3>2. CASE FailWrite(e)
        BY <1>0, <3>2 DEF FailWrite
      <3> QED
        BY <1>6, <3>1, <3>2
    <2> QED
      BY <2>1, <2>2, ReturnKeepsHolders
  <1>7. ASSUME NEW e \in Execs,
               CompleteErrs(e) \/ CallErrs(e) \/ \E j \in Jobs : ClaimReplyLost(e, j)
        PROVE  HolderInv'
    BY <1>7 DEF CompleteErrs, CallErrs, ClaimReplyLost, Fault
  <1>8. ASSUME NEW e \in Execs, NEW j \in Jobs, Heartbeat(e, j) PROVE HolderInv'
    BY <1>0, <1>8, WriteAroundKeepsHolders DEF Heartbeat, WritesAround, JobType
  <1>9. ASSUME NEW w \in Workers, NEW j \in Jobs, RecoverAbandoned(w, j)
        PROVE  HolderInv'
    <2>1. \A e \in Execs : ~Holds(e, j)
      BY <1>0, <1>9 DEF RecoverAbandoned
    <2> QED
      BY <1>0, <1>9, <2>1, WriteAroundKeepsHolders DEF RecoverAbandoned, WritesAround
  <1>10. ASSUME NEW w \in Workers, Shutdown(w) \/ Exit(w) \/ Restart(w)
         PROVE  HolderInv'
    <2>1. job' = job /\ retry' = retry /\ exec' = exec
      BY <1>10 DEF Shutdown, Exit, Restart
    <2> QED
      BY <2>1, CallStepKeepsHolders DEF QuietInv, HolderInv, Busy
  <1>11. ASSUME NEW w \in Workers, Crash(w) PROVE HolderInv'
    <2>1. /\ job' = job /\ retry' = retry
          /\ \A f \in Execs : exec'[f] = exec[f] \/ exec'[f].pc = "idle"
      BY <1>0, <1>11 DEF Crash, IdleExec
    <2> QED
      BY <2>1, CallStepKeepsHolders DEF QuietInv, HolderInv, Busy
  <1>12. ASSUME NEW c \in Clients, NEW j \in Jobs, RetryLoad(c, j) PROVE HolderInv'
    <2>1. /\ job' = job /\ exec' = exec
          /\ job[j].status = "dead_lettered"
          /\ \A d \in Clients : retry[d].pc # "loaded"
      BY <1>12 DEF RetryLoad
    <2>2. /\ retry'[c].job = j /\ retry'[c].doc = job[j]
          /\ \A d \in Clients \ {c} : retry'[d] = retry[d]
      BY <1>0, <1>12 DEF RetryLoad
    <2>3. SingleHolder'
      BY <2>1 DEF QuietInv, HolderInv, SingleHolder, OneProcessor, Holds, Busy
    <2> QED
      BY <2>1, <2>2, <2>3 DEF QuietInv, HolderInv
  <1>13. ASSUME NEW c \in Clients, RetrySave(c) PROVE HolderInv'
    <2> DEFINE j == retry[c].job
    <2>1. /\ j \in Jobs
          /\ \A e \in Execs : ~Holds(e, j)
          /\ \A d \in Clients : retry[d].pc = "loaded" => d = c
      BY <1>0, <1>13 DEF RetrySave, QuietInv, HolderInv
    <2>2. /\ exec' = exec
          /\ \A k \in Jobs \ {j} : job'[k] = job[k]
          /\ retry'[c].pc = "done"
          /\ \A d \in Clients \ {c} : retry'[d] = retry[d]
      BY <1>0, <1>13, <2>1 DEF RetrySave, IdleRetry
    <2>3. SingleHolder'
      BY <1>0, <2>1, <2>2 DEF QuietInv, HolderInv, SingleHolder, OneProcessor, Holds, Busy
    <2>4. \A e \in Execs : exec'[e].pc = "deciding" =>
            exec'[e].seen = job'[exec'[e].job].attempts
      BY <1>0, <2>1, <2>2 DEF QuietInv, HolderInv, Holds, Busy
    <2>5. \A d \in Clients : retry'[d].pc # "loaded"
      BY <2>1, <2>2
    <2> QED
      BY <2>3, <2>4, <2>5 DEF HolderInv
  <1>14. CASE UNCHANGED vars
    <2>1. job' = job /\ retry' = retry /\ exec' = exec
      BY <1>14 DEF vars
    <2> QED
      BY <2>1, CallStepKeepsHolders DEF QuietInv, HolderInv, Busy
  <1> QED
    BY <1>1, <1>2, <1>3, <1>4, <1>5, <1>6, <1>7, <1>8, <1>9, <1>10, <1>11,
       <1>12, <1>13, <1>14
    DEF Next, Serve, ExecStep

LEMMA InitQuietInv == Init => QuietInv
  BY InitTypeInv
  DEF Init, IdleExec, IdleRetry, QuietInv, HolderInv, SingleHolder, OneProcessor,
      Holds, Busy

LEMMA NextQuietInv ==
  ASSUME FaultKinds \subseteq {"crash"}, SerialRetries
  PROVE  QuietInv /\ [Next]_vars => QuietInv'
  BY NextTypeInv, NextHolderInv DEF QuietInv

\* "Job leases and heartbeats prevent duplicate processing": as long as the
\* heartbeats of a living worker keep its leases, no answer of the database
\* is lost and retry requests do not overlap, a job has one processor, which
\* its document names, however many workers crash and come back.
THEOREM OneHolderPerJob ==
  ASSUME FaultKinds \subseteq {"crash"}, SerialRetries
  PROVE  Spec => []SingleHolder
  <1>1. Init => QuietInv
    BY InitQuietInv
  <1>2. QuietInv /\ [Next]_vars => QuietInv'
    BY NextQuietInv
  <1>3. QuietInv => SingleHolder
    BY DEF QuietInv, HolderInv
  <1> QED
    BY <1>1, <1>2, <1>3, PTL DEF Spec

\* Under the same conditions a completed job stays completed.
THEOREM CompletedJobsAreFinal ==
  ASSUME FaultKinds \subseteq {"crash"}, SerialRetries
  PROVE  Spec => CompletedIsFinal
  <1>1. Init => QuietInv
    BY InitQuietInv
  <1>2. QuietInv /\ [Next]_vars => QuietInv'
    BY NextQuietInv
  <1>3. ASSUME QuietInv, [Next]_vars, NEW k \in Jobs, job[k].status = "completed"
        PROVE  job'[k].status = "completed"
    <2>0. /\ job \in [Jobs -> JobType]
          /\ \A e \in Execs : Busy(e) => exec[e].job \in Jobs /\ exec[e].job # k
          /\ \A c \in Clients : retry[c].pc = "loaded" => retry[c].job # k
      BY <1>3
      DEF QuietInv, TypeInv, TypeOK, WellFormed, HolderInv, SingleHolder, Holds
    <2>1. ASSUME NEW j \in Jobs,
                 \/ Create(j) \/ BackoffElapses(j) \/ LeaseExpires(j) \/ Stall(j)
                 \/ \E e \in Execs : Heartbeat(e, j)
                 \/ \E w \in Workers : RecoverAbandoned(w, j)
          PROVE  job'[k].status = "completed"
      BY <1>3, <2>0, <2>1
      DEF Create, StoreJob, BackoffElapses, LeaseExpires, Stall, Heartbeat, RecoverAbandoned,
          JobType
    <2>2. ASSUME NEW e \in Execs, NEW j \in Jobs, Claim(e, j) \/ ClaimReplyLost(e, j)
          PROVE  job'[k] = job[k]
      <3>1. j # k /\ TakeJob(e[1], j)
        BY <1>3, <2>2 DEF Claim, ClaimReplyLost, Claimable
      <3> QED
        BY <2>0, <3>1 DEF TakeJob
    <2>3. ASSUME NEW e \in Execs, Complete(e) \/ CompleteErrs(e) \/ FailWrite(e)
          PROVE  job'[k] = job[k]
      <3>1. exec[e].job # k
        BY <2>0, <2>3 DEF Complete, CompleteErrs, FailWrite, Busy
      <3>2. CASE Complete(e) \/ CompleteErrs(e)
        <4>1. MarkCompleted(exec[e].job) \/ job' = job
          BY <3>2 DEF Complete, CompleteErrs
        <4> QED
          BY <2>0, <3>1, <4>1 DEF MarkCompleted
      <3>3. CASE FailWrite(e)
        BY <2>0, <3>1, <3>3 DEF FailWrite
      <3> QED
        BY <2>3, <3>2, <3>3
    <2>4. ASSUME NEW c \in Clients, RetrySave(c) PROVE job'[k] = job[k]
      <3>1. retry[c].job # k
        BY <2>0, <2>4 DEF RetrySave
      <3> QED
        BY <2>0, <2>4, <3>1 DEF RetrySave
    <2>5. ASSUME NEW e \in Execs,
                 \/ Spawn(e) \/ ClaimNothing(e) \/ RunResolves(e) \/ RunRejects(e)
                 \/ FailRead(e) \/ CallErrs(e)
          PROVE  job' = job
      BY <2>5 DEF Spawn, ClaimNothing, RunResolves, RunRejects, FailRead, CallErrs
    <2>6. ASSUME NEW w \in Workers, Shutdown(w) \/ Exit(w) \/ Crash(w) \/ Restart(w)
          PROVE  job' = job
      BY <2>6 DEF Shutdown, Exit, Crash, Restart
    <2>7. ASSUME NEW c \in Clients, NEW j \in Jobs, RetryLoad(c, j) PROVE job' = job
      BY <2>7 DEF RetryLoad
    <2>8. CASE UNCHANGED vars
      BY <1>3, <2>8 DEF vars
    <2> QED
      BY <1>3, <2>1, <2>2, <2>3, <2>4, <2>5, <2>6, <2>7, <2>8 DEF Next, Serve, ExecStep
  <1>4. QuietInv /\ [Next]_vars =>
          [\A j \in Jobs : job[j].status = "completed" => job'[j].status = "completed"]_vars
    BY <1>3
  <1> QED
    BY <1>1, <1>2, <1>4, PTL DEF Spec, CompletedIsFinal

-----------------------------------------------------------------------------
(* Part 3: the queue implements JobLifecycle, as long as heartbeats keep   *)
(* leases and retry requests do not overlap.  Each lemma maps one kind of  *)
(* step of the queue.                                                      *)

Held(j) == \E e \in Execs : Holds(e, j)

\* The refinement mapping, as Lifecycle's substitution has it.
phases == [j \in Jobs |-> Phase(j)]
tries == [j \in Jobs |-> job[j].attempts]

\* Steps that a submitter does not see.
Unseen == /\ \A k \in Jobs : Phase(k)' = Phase(k)
          /\ \A k \in Jobs : job'[k].attempts = job[k].attempts

\* Steps that a submitter sees as job j, and no other, moving on.
Seen(j, from, to) ==
    /\ Phase(j) = from
    /\ Phase(j)' = to
    /\ \A k \in Jobs \ {j} : /\ Phase(k)' = Phase(k)
                             /\ job'[k].attempts = job[k].attempts

LEMMA UnseenMaps == Unseen => UNCHANGED Lifecycle!lifecycle
  BY DEF Unseen, Lifecycle!lifecycle

LEMMA SeenMaps ==
  ASSUME NEW j \in Jobs, NEW from, NEW to, Seen(j, from, to)
  PROVE  Lifecycle!Move(j, from, to)
  BY DEF Seen, Lifecycle!Move

LEMMA SamePhase ==
  ASSUME NEW k \in Jobs, job'[k].status = job[k].status, Held(k)' <=> Held(k)
  PROVE  Phase(k)' = Phase(k)
  BY DEF Phase, Held

\* What QuietInv says of documents, calls and requests, in the form the
\* lemmas below use it.
Facts ==
    /\ job \in [Jobs -> JobType]
    /\ exec \in [Execs -> ExecType]
    /\ \A e \in Execs : Busy(e) => exec[e].job \in Jobs
    /\ \A e \in Execs, j \in Jobs : Holds(e, j) =>
          /\ job[j].status = "running"
          /\ job[j].claimedBy = e[1]
          /\ job[j].lease = "live"

LEMMA QuietFacts == QuietInv => Facts
  BY DEF QuietInv, TypeInv, TypeOK, WellFormed, HolderInv, SingleHolder, Facts

\* Steps of the calls and the processes that move no document and no holder.
LEMMA CallStepMaps ==
  ASSUME job' = job, \A k \in Jobs : Held(k)' <=> Held(k)
  PROVE  Unseen
  BY SamePhase DEF Unseen

LEMMA DocumentStepMaps ==
  ASSUME Facts, NEW j \in Jobs,
         \/ BackoffElapses(j) \/ LeaseExpires(j)
         \/ \E e \in Execs : Heartbeat(e, j)
  PROVE  Unseen
  <1>1. exec' = exec
    BY DEF BackoffElapses, LeaseExpires, Heartbeat
  <1>2. \A k \in Jobs :
          job'[k].status = job[k].status /\ job'[k].attempts = job[k].attempts
    BY DEF Facts, BackoffElapses, LeaseExpires, Heartbeat, JobType
  <1>3. \A k \in Jobs : Held(k)' <=> Held(k)
    BY <1>1 DEF Held, Holds, Busy
  <1> QED
    BY <1>2, <1>3, SamePhase DEF Unseen

\* A write of document j under which holders stay as they are.
LEMMA WriteMaps ==
  ASSUME Facts, NEW j \in Jobs, NEW from, NEW to,
         \A k \in Jobs \ {j} : job'[k] = job[k] /\ (Held(k)' <=> Held(k)),
         Phase(j) = from, Phase(j)' = to
  PROVE  Seen(j, from, to)
  BY SamePhase DEF Seen

LEMMA CreateMaps ==
  ASSUME Facts, NEW j \in Jobs, Create(j)
  PROVE  Lifecycle!Submit(j)
  <1>1. exec' = exec
    BY DEF Create, StoreJob
  <1>2. \A k \in Jobs : Held(k)' <=> Held(k)
    BY <1>1 DEF Held, Holds, Busy
  <1>3. /\ job[j].status = "absent" /\ job'[j].status = "pending"
        /\ \A k \in Jobs \ {j} : job'[k] = job[k]
        /\ job'[j].attempts = job[j].attempts
    BY DEF Create, StoreJob, Facts, JobType
  <1>4. Phase(j) = "absent" /\ Phase(j)' = "queued"
    BY <1>3 DEF Phase
  <1>5. Seen(j, "absent", "queued")
    BY <1>2, <1>3, <1>4, WriteMaps
  <1> QED
    BY <1>3, <1>5, SeenMaps DEF Lifecycle!Submit

LEMMA ClaimMaps ==
  ASSUME Facts, NEW e \in Execs, NEW j \in Jobs, Claim(e, j)
  PROVE  Lifecycle!Start(j)
  <1>1. /\ ~Busy(e)
        /\ exec'[e].pc = "running" /\ exec'[e].job = j
        /\ \A f \in Execs \ {e} : exec'[f] = exec[f]
    BY DEF Claim, Facts, Busy
  <1>2. /\ job[j].status \in {"pending", "retry_wait"}
        /\ job'[j].status = "running"
        /\ job'[j].attempts = job[j].attempts + 1
        /\ \A k \in Jobs \ {j} : job'[k] = job[k]
    BY DEF Claim, Claimable, TakeJob, Facts
  <1>3. \A k \in Jobs \ {j} : Held(k)' <=> Held(k)
    BY <1>1 DEF Held, Holds, Busy
  <1>4. Held(j)'
    BY <1>1 DEF Held, Holds, Busy
  <1>5. Phase(j) = "queued"
    BY <1>2 DEF Phase
  <1>6. Phase(j)' = "processing"
    BY <1>2, <1>4 DEF Phase, Held
  <1>7. Seen(j, "queued", "processing")
    BY <1>2, <1>3, <1>5, <1>6, WriteMaps
  <1>8. tries' = [tries EXCEPT ![j] = @ + 1]
    BY <1>2 DEF tries
  <1> QED
    BY <1>7, <1>8, SeenMaps DEF Lifecycle!Start, tries

\* The holder's call ends with its write: nobody holds its job any more, and
\* every other job is held as before.
LEMMA ReturnReleases ==
  ASSUME QuietInv, NEW e \in Execs, NEW j \in Jobs, Holds(e, j), Return(e)
  PROVE  \A k \in Jobs \ {j} : Held(k)' <=> Held(k)
  <1>1. /\ exec'[e].pc = "idle"
        /\ \A f \in Execs \ {e} : exec'[f] = exec[f]
    BY QuietFacts DEF Facts, Return, IdleExec
  <1> QED
    BY <1>1 DEF Held, Holds, Busy

LEMMA CompleteMaps ==
  ASSUME QuietInv, NEW e \in Execs, Complete(e)
  PROVE  \E j \in Jobs : Lifecycle!Finish(j)
  <1> PICK j \in Jobs : Holds(e, j)
    BY QuietFacts DEF Complete, Busy, Facts, Holds
  <1>1. Holds(e, j) /\ Return(e) /\ exec[e].job = j /\ job[j].status = "running" /\ Facts
    BY QuietFacts DEF Complete, Busy, Facts, Holds
  <1>2. /\ job'[j].status = "completed" /\ job'[j].attempts = job[j].attempts
        /\ \A k \in Jobs \ {j} : job'[k] = job[k]
    BY <1>1 DEF Complete, MarkCompleted, Facts, JobType
  <1>3. Phase(j) = "processing"
    BY <1>1 DEF Phase
  <1>4. Phase(j)' = "completed"
    BY <1>2 DEF Phase
  <1>5. Seen(j, "processing", "completed")
    BY <1>1, <1>2, <1>3, <1>4, ReturnReleases, WriteMaps
  <1>6. Lifecycle!Finish(j)
    BY <1>1, <1>2, <1>5, SeenMaps DEF Lifecycle!Finish
  <1> QED
    BY <1>1, <1>6

LEMMA FailWriteMaps ==
  ASSUME QuietInv, NEW e \in Execs, FailWrite(e)
  PROVE  \E j \in Jobs : Lifecycle!Requeue(j) \/ Lifecycle!GiveUp(j)
  <1> PICK j \in Jobs : Holds(e, j)
    BY QuietFacts DEF FailWrite, Busy, Facts, Holds
  <1>1. /\ Holds(e, j) /\ Return(e) /\ Facts
        /\ exec[e].job = j /\ job[j].status = "running"
        /\ exec[e].seen = job[j].attempts /\ job[j].attempts \in Nat
    BY QuietFacts DEF FailWrite, Busy, Facts, Holds, JobType, QuietInv, HolderInv
  <1>2. /\ job'[j].attempts = job[j].attempts
        /\ \A k \in Jobs \ {j} : job'[k] = job[k]
    BY <1>1 DEF FailWrite, Facts, JobType
  <1>3. Phase(j) = "processing"
    BY <1>1 DEF Phase
  <1>4. CASE GivesUp(e)
    <2>1. job'[j].status = "dead_lettered"
      BY <1>1, <1>4 DEF FailWrite, Facts, JobType
    <2>2. Phase(j)' = "dead"
      BY <2>1 DEF Phase
    <2>3. Seen(j, "processing", "dead")
      BY <1>1, <1>2, <1>3, <2>2, ReturnReleases, WriteMaps
    <2>4. job[j].attempts >= MaxAttempts
      BY <1>1, <1>4 DEF GivesUp, SaysNotRetryable
    <2>5. Lifecycle!GiveUp(j)
      BY <1>1, <1>2, <2>3, <2>4, SeenMaps DEF Lifecycle!GiveUp
    <2> QED
      BY <1>1, <2>5
  <1>5. CASE ~GivesUp(e)
    <2>1. job'[j].status = "retry_wait"
      BY <1>1, <1>5 DEF FailWrite, Facts, JobType
    <2>2. Phase(j)' = "queued"
      BY <2>1 DEF Phase
    <2>3. Seen(j, "processing", "queued")
      BY <1>1, <1>2, <1>3, <2>2, ReturnReleases, WriteMaps
    <2>4. job[j].attempts < MaxAttempts
      BY <1>1, <1>5, AttemptsAssumption DEF GivesUp
    <2>5. Lifecycle!Requeue(j)
      BY <1>1, <1>2, <2>3, <2>4, SeenMaps DEF Lifecycle!Requeue
    <2> QED
      BY <1>1, <2>5
  <1> QED
    BY <1>4, <1>5

LEMMA RecoverMaps ==
  ASSUME QuietInv, NEW w \in Workers, NEW j \in Jobs, RecoverAbandoned(w, j)
  PROVE  Lifecycle!Find(j)
  <1>1. Facts /\ exec' = exec
    BY QuietFacts DEF RecoverAbandoned
  <1>2. /\ job[j].status = "running" /\ job[j].lease = "expired"
        /\ job'[j].status = "retry_wait" /\ job'[j].attempts = job[j].attempts
        /\ \A k \in Jobs \ {j} : job'[k] = job[k]
    BY <1>1 DEF RecoverAbandoned, Facts, JobType
  <1>3. \A k \in Jobs : Held(k)' <=> Held(k)
    BY <1>1 DEF Held, Holds, Busy
  <1>4. Phase(j) = "orphaned"
    BY <1>1, <1>2 DEF Phase, Facts
  <1>5. Phase(j)' = "queued"
    BY <1>2 DEF Phase
  <1>6. Seen(j, "orphaned", "queued")
    BY <1>1, <1>2, <1>3, <1>4, <1>5, WriteMaps
  <1> QED
    BY <1>2, <1>6, SeenMaps DEF Lifecycle!Find

LEMMA RetrySaveMaps ==
  ASSUME QuietInv, NEW c \in Clients, RetrySave(c)
  PROVE  \E j \in Jobs : Lifecycle!Revive(j)
  <1> PICK j \in Jobs : j = retry[c].job
    BY DEF RetrySave, QuietInv, TypeInv, WellFormed
  <1>1. /\ Facts /\ exec' = exec /\ retry[c].job = j
        /\ job[j].status = "dead_lettered"
        /\ retry[c].doc.attempts = job[j].attempts
    BY QuietFacts DEF RetrySave, QuietInv, TypeInv, WellFormed, HolderInv
  <1>2. /\ job'[j].status = "pending" /\ job'[j].attempts = 0
        /\ \A k \in Jobs \ {j} : job'[k] = job[k]
    BY <1>1 DEF RetrySave, Facts
  <1>3. \A k \in Jobs : Held(k)' <=> Held(k)
    BY <1>1 DEF Held, Holds, Busy
  <1>4. Phase(j) = "dead" /\ Phase(j)' = "queued"
    BY <1>1, <1>2 DEF Phase
  <1>5. Seen(j, "dead", "queued")
    BY <1>1, <1>2, <1>3, <1>4, WriteMaps
  <1>6. Lifecycle!Revive(j)
    BY <1>1, <1>2, <1>5, SeenMaps DEF Lifecycle!Revive
  <1> QED
    BY <1>1, <1>6

LEMMA CrashMaps ==
  ASSUME QuietInv, NEW w \in Workers, Crash(w)
  PROVE  \E lost \in SUBSET Jobs : Lifecycle!Lose(lost)
  <1> PICK lost \in SUBSET Jobs :
             lost = {k \in Jobs : \E e \in Execs : e[1] = w /\ Holds(e, k)}
    OBVIOUS
  <1>1. /\ Facts /\ job' = job
        /\ \A e \in Execs : IF e[1] = w THEN exec'[e].pc = "idle" ELSE exec'[e] = exec[e]
    BY QuietFacts DEF Crash, IdleExec
  <1>2. \A k \in lost : Phase(k) = "processing" /\ Phase(k)' = "orphaned"
    <2> TAKE k \in lost
    <2>1. job[k].status = "running" /\ Held(k)
      BY <1>1 DEF Facts, Held
    <2>2. ~Held(k)'
      BY <1>1 DEF Facts, Held, Holds, Busy
    <2> QED
      BY <1>1, <2>1, <2>2 DEF Phase, Held
  <1>3. \A k \in Jobs \ lost : Phase(k)' = Phase(k)
    <2>1. \A k \in Jobs \ lost : Held(k)' <=> Held(k)
      BY <1>1 DEF Held, Holds, Busy
    <2> QED
      BY <1>1, <2>1, SamePhase
  <1>4. Lifecycle!Lose(lost)
    BY <1>1, <1>2, <1>3 DEF Lifecycle!Lose
  <1> QED
    BY <1>4

\* Every step of the queue is a step of the lifecycle or one no submitter sees.
LEMMA NextMaps ==
  ASSUME FaultKinds \subseteq {"crash"}, SerialRetries, QuietInv, [Next]_vars
  PROVE  [Lifecycle!Next]_Lifecycle!lifecycle
  <1>0. Facts
    BY QuietFacts
  <1>1. ASSUME NEW j \in Jobs,
               Create(j) \/ BackoffElapses(j) \/ LeaseExpires(j) \/ Stall(j)
        PROVE  Lifecycle!Next \/ Unseen
    BY <1>0, <1>1, CreateMaps, DocumentStepMaps DEF Lifecycle!Next, Stall, Fault
  <1>2. ASSUME NEW e \in Execs, NEW j \in Jobs, Claim(e, j)
        PROVE  Lifecycle!Next
    BY <1>0, <1>2, ClaimMaps DEF Lifecycle!Next
  <1>3. ASSUME NEW e \in Execs,
               \/ Spawn(e) \/ ClaimNothing(e) \/ RunResolves(e) \/ RunRejects(e)
               \/ FailRead(e)
        PROVE  Unseen
    <2>1. job' = job
      BY <1>3 DEF Spawn, ClaimNothing, RunResolves, RunRejects, FailRead
    <2>2. \A f \in Execs : /\ Busy(f)' <=> Busy(f)
                           /\ Busy(f) => exec'[f].job = exec[f].job
      <3>1. CASE Spawn(e)
        BY <1>0, <3>1 DEF Facts, Spawn, Goto, Busy, ExecType
      <3>2. CASE ClaimNothing(e)
        BY <1>0, <3>2 DEF Facts, ClaimNothing, Return, IdleExec, Busy
      <3>3. CASE RunResolves(e)
        BY <1>0, <3>3 DEF Facts, RunResolves, Goto, Busy, ExecType
      <3>4. CASE RunRejects(e)
        BY <1>0, <3>4 DEF Facts, RunRejects, Busy, ExecType
      <3>5. CASE FailRead(e)
        BY <1>0, <3>5 DEF Facts, FailRead, Busy, ExecType
      <3> QED
        BY <1>3, <3>1, <3>2, <3>3, <3>4, <3>5
    <2>3. \A k \in Jobs : Held(k)' <=> Held(k)
      BY <2>2 DEF Held, Holds
    <2> QED
      BY <2>1, <2>3, CallStepMaps
  <1>4. ASSUME NEW e \in Execs, Complete(e) \/ FailWrite(e)
        PROVE  Lifecycle!Next
    BY <1>4, CompleteMaps, FailWriteMaps DEF Lifecycle!Next
  <1>5. ASSUME NEW e \in Execs,
               CompleteErrs(e) \/ CallErrs(e) \/ \E j \in Jobs : ClaimReplyLost(e, j)
        PROVE  FALSE
    BY <1>5 DEF CompleteErrs, CallErrs, ClaimReplyLost, Fault
  <1>6. ASSUME NEW e \in Execs, NEW j \in Jobs, Heartbeat(e, j)
        PROVE  Unseen
    BY <1>0, <1>6, DocumentStepMaps
  <1>7. ASSUME NEW w \in Workers, NEW j \in Jobs, RecoverAbandoned(w, j)
        PROVE  Lifecycle!Next
    BY <1>7, RecoverMaps DEF Lifecycle!Next
  <1>8. ASSUME NEW w \in Workers, Crash(w)
        PROVE  Lifecycle!Next
    BY <1>8, CrashMaps DEF Lifecycle!Next
  <1>9. ASSUME NEW c \in Clients, RetrySave(c)
        PROVE  Lifecycle!Next
    BY <1>9, RetrySaveMaps DEF Lifecycle!Next
  <1>10. ASSUME \/ \E w \in Workers : Shutdown(w) \/ Exit(w) \/ Restart(w)
                \/ \E c \in Clients, j \in Jobs : RetryLoad(c, j)
                \/ UNCHANGED vars
         PROVE  Unseen
    <2>1. job' = job /\ exec' = exec
      BY <1>10 DEF Shutdown, Exit, Restart, RetryLoad, vars
    <2>2. \A k \in Jobs : Held(k)' <=> Held(k)
      BY <2>1 DEF Held, Holds, Busy
    <2> QED
      BY <2>1, <2>2, CallStepMaps
  <1>11. Lifecycle!Next \/ Unseen
    BY <1>1, <1>2, <1>3, <1>4, <1>5, <1>6, <1>7, <1>8, <1>9, <1>10
    DEF Next, Serve, ExecStep
  <1> QED
    BY <1>11, UnseenMaps

\* The queue keeps the promise of JobLifecycle: a job is processed by one
\* holder at a time, is given back by it only with attempts left and given up
\* only without, is found again when its holder's process dies, and starts
\* from zero when an operator revives it.
THEOREM QueueImplementsLifecycle ==
  ASSUME FaultKinds \subseteq {"crash"}, SerialRetries
  PROVE  Spec => ImplementsLifecycle
  <1>1. Init => QuietInv
    BY InitQuietInv
  <1>2. QuietInv /\ [Next]_vars => QuietInv'
    BY NextQuietInv
  <1>3. Init => Lifecycle!Init
    BY DEF Init, NoJob, Phase, Lifecycle!Init
  <1>4. QuietInv /\ [Next]_vars => [Lifecycle!Next]_Lifecycle!lifecycle
    BY NextMaps
  <1> QED
    BY <1>1, <1>2, <1>3, <1>4, PTL DEF Spec, ImplementsLifecycle, Lifecycle!Spec

=============================================================================
