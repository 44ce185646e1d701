------------------------------ MODULE JobQueue ------------------------------
(***************************************************************************)
(* The diagnostic job queue: documents of the DiagnosticJob collection,    *)
(* the worker processes that claim, run, complete, fail and recover them   *)
(* (packages/shared/src/jobs/queue.ts, apps/worker/src/processor.ts and    *)
(* index.ts) and the operator's request to retry a dead-lettered job       *)
(* (JobService.retry of the API).                                          *)
(*                                                                         *)
(* Every call to MongoDB is one atomic step; whatever happens between two  *)
(* awaits of the code happens between two steps here.  Time is reduced to  *)
(* the two comparisons the queries make: a lease is null, live (later than *)
(* now) or expired, and a job is due when nextRunAt is not in the future.  *)
(***************************************************************************)
EXTENDS Naturals, FiniteSets

CONSTANTS
    Jobs,           \* job documents that may be submitted
    Workers,        \* worker processes (WORKER_ID)
    Slots,          \* places of one worker, WORKER_CONCURRENCY of them
    Clients,        \* one element per POST /jobs/:id/retry request
    Null,           \* the null of a document's field
    MaxAttempts,    \* maxAttempts of every job
    MaxFaults,      \* bound on the faults of a behaviour
    FaultKinds,     \* which faults may happen: "crash", "stall", "lost"
    SerialRetries   \* TRUE: no two retry requests overlap

ASSUME NullAssumption == Null \notin Workers \cup Jobs
ASSUME AttemptsAssumption == MaxAttempts \in Nat \ {0}
ASSUME FaultsAssumption == /\ MaxFaults \in Nat
                           /\ FaultKinds \subseteq {"crash", "stall", "lost"}
ASSUME SerialAssumption == SerialRetries \in BOOLEAN

VARIABLES
    job,    \* the collection: one record per job
    mode,   \* what each worker process is doing
    exec,   \* one call of processNext per slot of a worker
    retry,  \* one call of JobService.retry per client
    faults  \* faults so far

vars == <<job, mode, exec, retry, faults>>

Execs == Workers \X Slots

\* JOB_STATUSES without those that no code sets ('failed', 'cancelled'), and
\* with one for a document that does not exist yet.
Statuses == {"absent", "pending", "running", "retry_wait", "completed",
             "dead_lettered"}
Leases == {"null", "live", "expired"}

JobType == [status : Statuses, lease : Leases, claimedBy : Workers \cup {Null},
            attempts : Nat, due : BOOLEAN, version : Nat]

\* What the diagnostic run can end with: an error worth another attempt
\* (timeout, engine unreachable), or an HTTP 4xx of the engine, which
\* DiagnosticsClient throws as DependencyError with retryable = false.
Errors == {"transient", "rejected"}

ExecType == [pc : {"idle", "claiming", "running", "completing", "failing",
                   "deciding"},
             job : Jobs \cup {Null}, ver : Nat, err : Errors, seen : Nat]

RetryType == [pc : {"idle", "loaded", "done"}, job : Jobs \cup {Null},
              doc : JobType]

TypeOK ==
    /\ job \in [Jobs -> JobType]
    /\ mode \in [Workers -> {"up", "draining", "stopped", "crashed"}]
    /\ exec \in [Execs -> ExecType]
    /\ retry \in [Clients -> RetryType]
    /\ faults \in 0 .. MaxFaults

-----------------------------------------------------------------------------
NoJob == [status |-> "absent", lease |-> "null", claimedBy |-> Null,
          attempts |-> 0, due |-> FALSE, version |-> 0]

IdleExec == [pc |-> "idle", job |-> Null, ver |-> 0, err |-> "transient",
             seen |-> 0]

IdleRetry == [pc |-> "idle", job |-> Null, doc |-> NoJob]

Init ==
    /\ job = [j \in Jobs |-> NoJob]
    /\ mode = [w \in Workers |-> "up"]
    /\ exec = [e \in Execs |-> IdleExec]
    /\ retry = [c \in Clients |-> IdleRetry]
    /\ faults = 0

Alive(w) == mode[w] \in {"up", "draining"}

\* processNext has its claim's answer and has not returned: its heartbeat
\* interval is set.
Busy(e) == exec[e].pc \in {"running", "completing", "failing", "deciding"}

Holds(e, j) == Busy(e) /\ exec[e].job = j

\* The heartbeat that matches the document's filter keeps its lease in the
\* future (WORKER_HEARTBEAT_MS is below WORKER_LEASE_MS).
Renewed(j) == /\ job[j].status = "running"
              /\ \E e \in Execs : Holds(e, j) /\ job[j].claimedBy = e[1]

Fault(kind) == /\ kind \in FaultKinds
               /\ faults < MaxFaults
               /\ faults' = faults + 1

Goto(e, pc) == exec' = [exec EXCEPT ![e] = [@ EXCEPT !.pc = pc]]

Return(e) == exec' = [exec EXCEPT ![e] = IdleExec]

\* processNext takes an error as final when its message contains 'not
\* retryable': no message of the program does, that of an HTTP 4xx included.
SaysNotRetryable(err) == FALSE

-----------------------------------------------------------------------------
(* Slips: what one of the operations below would be with a mistake in it.  *)
(* Spec uses none of them; each shows that a property would notice.        *)

\* The loop does not look at running.
SpawnWhileDraining(e) ==
    /\ Alive(e[1])
    /\ exec[e].pc = "idle"
    /\ Goto(e, "claiming")
    /\ UNCHANGED <<job, mode, retry, faults>>

\* The $or matches leaseUntil null only.
ClaimableUnleased(j) ==
    /\ job[j].status \in {"pending", "retry_wait"}
    /\ job[j].due
    /\ job[j].lease = "null"

\* > for >=.
GivesUpLate(e) ==
    exec[e].seen > MaxAttempts \/ SaysNotRetryable(exec[e].err)

\* No status in the filter.
HeartbeatAnyStatus(e, j) ==
    /\ Holds(e, j)
    /\ job[j].claimedBy = e[1]
    /\ job' = [job EXCEPT ![j] = [@ EXCEPT !.lease = "live"]]
    /\ UNCHANGED <<mode, exec, retry, faults>>

\* No leaseUntil in the filter.
RecoverAnyRunning(w, j) ==
    /\ Alive(w)
    /\ job[j].status = "running"
    /\ job' = [job EXCEPT ![j] = [@ EXCEPT !.status = "retry_wait", !.due = TRUE,
                                           !.lease = "null", !.claimedBy = Null]]
    /\ UNCHANGED <<mode, exec, retry, faults>>

\* NextRunAt cleared with the lease.
RecoverUnscheduled(w, j) ==
    /\ Alive(w)
    /\ job[j].status = "running"
    /\ job[j].lease = "expired"
    /\ job' = [job EXCEPT ![j] = [@ EXCEPT !.status = "retry_wait", !.due = Null,
                                           !.lease = "null", !.claimedBy = Null]]
    /\ UNCHANGED <<mode, exec, retry, faults>>

\* The calls in flight are not awaited.
ExitAtOnce(w) ==
    /\ mode[w] = "draining"
    /\ mode' = [mode EXCEPT ![w] = "stopped"]
    /\ exec' = [e \in Execs |-> IF e[1] = w THEN IdleExec ELSE exec[e]]
    /\ UNCHANGED <<job, retry, faults>>

\* Finished jobs can be retried too.
RetryLoadAnyStatus(c, j) ==
    /\ retry[c].pc = "idle"
    /\ SerialRetries => \A d \in Clients : retry[d].pc # "loaded"
    /\ job[j].status \in {"dead_lettered", "completed"}
    /\ retry' = [retry EXCEPT ![c] = [pc |-> "loaded", job |-> j,
                                      doc |-> job[j]]]
    /\ UNCHANGED <<job, mode, exec, faults>>

-----------------------------------------------------------------------------
(* JobService.create, reduced to the insertion of a new document.          *)
StoreJob(j) ==
    job' = [job EXCEPT ![j] = [@ EXCEPT !.status = "pending", !.due = TRUE,
                                        !.version = 1]]

Create(j) ==
    /\ job[j].status = "absent"
    /\ StoreJob(j)
    /\ UNCHANGED <<mode, exec, retry, faults>>

-----------------------------------------------------------------------------
(* The worker: JobQueue and JobProcessor.processNext.                      *)

\* The worker's loop fills its free slots while the process is running.
Spawn(e) ==
    /\ mode[e[1]] = "up"
    /\ exec[e].pc = "idle"
    /\ Goto(e, "claiming")
    /\ UNCHANGED <<job, mode, retry, faults>>

\* The filter of claim's findOneAndUpdate.
Claimable(j) ==
    /\ job[j].status \in {"pending", "retry_wait"}
    /\ job[j].due
    /\ job[j].lease # "live"

\* The update of claim's findOneAndUpdate.
TakeJob(w, j) ==
    job' = [job EXCEPT ![j] = [status |-> "running", lease |-> "live",
                               claimedBy |-> w, attempts |-> @.attempts + 1,
                               due |-> @.due, version |-> @.version + 1]]

Claim(e, j) ==
    /\ exec[e].pc = "claiming"
    /\ Claimable(j)
    /\ TakeJob(e[1], j)
    /\ exec' = [exec EXCEPT ![e] = [pc |-> "running", job |-> j,
                                    ver |-> job[j].version + 1,
                                    err |-> "transient", seen |-> 0]]
    /\ UNCHANGED <<mode, retry, faults>>

\* The claim is applied and its answer lost: processNext rejects and the
\* loop's catch logs it, so nobody processes the job the worker now owns.
ClaimReplyLost(e, j) ==
    /\ exec[e].pc = "claiming"
    /\ Claimable(j)
    /\ TakeJob(e[1], j)
    /\ Return(e)
    /\ Fault("lost")
    /\ UNCHANGED <<mode, retry>>

ClaimNothing(e) ==
    /\ exec[e].pc = "claiming"
    /\ \A j \in Jobs : ~Claimable(j)
    /\ Return(e)
    /\ UNCHANGED <<job, mode, retry, faults>>

\* withTimeout(run(...)) resolves.
RunResolves(e) ==
    /\ exec[e].pc = "running"
    /\ Goto(e, "completing")
    /\ UNCHANGED <<job, mode, retry, faults>>

\* withTimeout(run(...)) rejects: an error of the run, or the timeout.
RunRejects(e) ==
    /\ exec[e].pc = "running"
    /\ \E err \in Errors :
          exec' = [exec EXCEPT ![e] = [@ EXCEPT !.pc = "failing", !.err = err]]
    /\ UNCHANGED <<job, mode, retry, faults>>

\* complete's findByIdAndUpdate: its filter is the id alone.
MarkCompleted(j) ==
    job' = [job EXCEPT ![j] = [@ EXCEPT !.status = "completed",
                                        !.lease = "null"]]

Complete(e) ==
    /\ exec[e].pc = "completing"
    /\ MarkCompleted(exec[e].job)
    /\ Return(e)
    /\ UNCHANGED <<mode, retry, faults>>

\* complete rejects inside the try, before or after its write was applied,
\* and the catch block runs fail.
CompleteErrs(e) ==
    /\ exec[e].pc = "completing"
    /\ MarkCompleted(exec[e].job) \/ UNCHANGED job
    /\ exec' = [exec EXCEPT ![e] = [@ EXCEPT !.pc = "failing",
                                             !.err = "transient"]]
    /\ Fault("lost")
    /\ UNCHANGED <<mode, retry>>

\* fail's findById.
FailRead(e) ==
    /\ exec[e].pc = "failing"
    /\ exec' = [exec EXCEPT ![e] = [@ EXCEPT !.pc = "deciding",
                                             !.seen = job[exec[e].job].attempts]]
    /\ UNCHANGED <<job, mode, retry, faults>>

\* fail's decision over the attempts it read.
GivesUp(e) == exec[e].seen >= MaxAttempts \/ SaysNotRetryable(exec[e].err)

\* fail's findByIdAndUpdate: its filter is the id alone.
FailWrite(e) ==
    /\ exec[e].pc = "deciding"
    /\ job' = [job EXCEPT ![exec[e].job] =
                  IF GivesUp(e)
                  THEN [@ EXCEPT !.status = "dead_lettered", !.lease = "null"]
                  ELSE [@ EXCEPT !.status = "retry_wait", !.lease = "null",
                                 !.due = FALSE]]
    /\ Return(e)
    /\ UNCHANGED <<mode, retry, faults>>

\* A call of claim or fail rejects without having been applied, and
\* processNext with it.  (A write of fail that was applied all the same is
\* FailWrite, such a claim ClaimReplyLost.)
CallErrs(e) ==
    /\ exec[e].pc \in {"claiming", "failing", "deciding"}
    /\ Return(e)
    /\ Fault("lost")
    /\ UNCHANGED <<job, mode, retry>>

\* The interval of a processNext that is under way: it renews the lease of
\* a running job its worker owns, whoever of its slots claimed it.
Heartbeat(e, j) ==
    /\ Holds(e, j)
    /\ job[j].status = "running"
    /\ job[j].claimedBy = e[1]
    /\ job' = [job EXCEPT ![j] = [@ EXCEPT !.lease = "live"]]
    /\ UNCHANGED <<mode, exec, retry, faults>>

\* recoverAbandoned, for one of the documents its updateMany matches.  (The
\* call under way when a worker is told to stop still ends.)
RecoverAbandoned(w, j) ==
    /\ Alive(w)
    /\ job[j].status = "running"
    /\ job[j].lease = "expired"
    /\ job' = [job EXCEPT ![j] = [@ EXCEPT !.status = "retry_wait", !.due = TRUE,
                                           !.lease = "null", !.claimedBy = Null]]
    /\ UNCHANGED <<mode, exec, retry, faults>>

-----------------------------------------------------------------------------
(* Time passes.                                                            *)

BackoffElapses(j) ==
    /\ job[j].status # "absent"
    /\ ~job[j].due
    /\ job' = [job EXCEPT ![j] = [@ EXCEPT !.due = TRUE]]
    /\ UNCHANGED <<mode, exec, retry, faults>>

LeaseExpires(j) ==
    /\ job[j].lease = "live"
    /\ ~Renewed(j)
    /\ job' = [job EXCEPT ![j] = [@ EXCEPT !.lease = "expired"]]
    /\ UNCHANGED <<mode, exec, retry, faults>>

\* The holder's event loop or its connection is held up longer than the
\* lease: no heartbeat arrives in time.
Stall(j) ==
    /\ job[j].lease = "live"
    /\ Renewed(j)
    /\ job' = [job EXCEPT ![j] = [@ EXCEPT !.lease = "expired"]]
    /\ Fault("stall")
    /\ UNCHANGED <<mode, exec, retry>>

-----------------------------------------------------------------------------
(* The life of a worker process.                                           *)

\* SIGTERM.  A deployment stops a worker only while another one serves.
Shutdown(w) ==
    /\ mode[w] = "up"
    /\ \E v \in Workers \ {w} : mode[v] \in {"up", "crashed"}
    /\ mode' = [mode EXCEPT ![w] = "draining"]
    /\ UNCHANGED <<job, exec, retry, faults>>

\* Every call in flight has settled: process.exit.
Exit(w) ==
    /\ mode[w] = "draining"
    /\ \A s \in Slots : exec[<<w, s>>].pc = "idle"
    /\ mode' = [mode EXCEPT ![w] = "stopped"]
    /\ UNCHANGED <<job, exec, retry, faults>>

\* The process dies: killed, or by an unhandled rejection, for instance of
\* a heartbeat, whose promise nobody awaits.
Crash(w) ==
    /\ Alive(w)
    /\ mode' = [mode EXCEPT ![w] = "crashed"]
    /\ exec' = [e \in Execs |-> IF e[1] = w THEN IdleExec ELSE exec[e]]
    /\ Fault("crash")
    /\ UNCHANGED <<job, retry>>

\* The container is restarted under the same WORKER_ID.
Restart(w) ==
    /\ mode[w] = "crashed"
    /\ mode' = [mode EXCEPT ![w] = "up"]
    /\ UNCHANGED <<job, exec, retry, faults>>

-----------------------------------------------------------------------------
(* JobService.retry.                                                       *)

\* findOne, and the check of the status it returned.
RetryLoad(c, j) ==
    /\ retry[c].pc = "idle"
    /\ SerialRetries => \A d \in Clients : retry[d].pc # "loaded"
    /\ job[j].status = "dead_lettered"
    /\ retry' = [retry EXCEPT ![c] = [pc |-> "loaded", job |-> j,
                                      doc |-> job[j]]]
    /\ UNCHANGED <<job, mode, exec, faults>>

\* save: mongoose writes, by id, the fields that differ from what was loaded.
RetrySave(c) ==
    LET j == retry[c].job
        doc == retry[c].doc
    IN  /\ retry[c].pc = "loaded"
        /\ job' = [job EXCEPT ![j] =
              [status    |-> "pending",
               lease     |-> IF doc.lease # "null" THEN "null" ELSE @.lease,
               claimedBy |-> IF doc.claimedBy # Null THEN Null ELSE @.claimedBy,
               attempts  |-> IF doc.attempts # 0 THEN 0 ELSE @.attempts,
               due       |-> TRUE,
               version   |-> @.version]]
        /\ retry' = [retry EXCEPT ![c] = [IdleRetry EXCEPT !.pc = "done"]]
        /\ UNCHANGED <<mode, exec, faults>>

-----------------------------------------------------------------------------
ExecStep(e) ==
    \/ Spawn(e)
    \/ \E j \in Jobs : Claim(e, j)
    \/ ClaimNothing(e)
    \/ RunResolves(e)
    \/ RunRejects(e)
    \/ Complete(e)
    \/ FailRead(e)
    \/ FailWrite(e)

\* Whatever happens to the jobs that were submitted.
Serve ==
    \/ \E j \in Jobs : BackoffElapses(j) \/ LeaseExpires(j) \/ Stall(j)
    \/ \E e \in Execs :
          \/ ExecStep(e)
          \/ CompleteErrs(e)
          \/ CallErrs(e)
          \/ \E j \in Jobs : ClaimReplyLost(e, j) \/ Heartbeat(e, j)
    \/ \E w \in Workers :
          \/ Shutdown(w) \/ Exit(w) \/ Crash(w) \/ Restart(w)
          \/ \E j \in Jobs : RecoverAbandoned(w, j)
    \/ \E c \in Clients : (\E j \in Jobs : RetryLoad(c, j)) \/ RetrySave(c)

Next == Serve \/ \E j \in Jobs : Create(j)

Spec == Init /\ [][Next]_vars

\* Time passes, promises settle, the worker's loop goes round while the
\* process lives, and a crashed container is restarted.  Nothing obliges a
\* client, an operator, a deployment or a fault to act.
Fairness ==
    /\ \A j \in Jobs : WF_vars(BackoffElapses(j)) /\ WF_vars(LeaseExpires(j))
    /\ \A e \in Execs : WF_vars(ExecStep(e))
    /\ \A w \in Workers :
          /\ WF_vars(Exit(w))
          /\ WF_vars(Restart(w))
          /\ \A j \in Jobs : WF_vars(RecoverAbandoned(w, j))

FairSpec == Spec /\ Fairness

-----------------------------------------------------------------------------
(* Properties under every kind of fault.                                   *)

\* findOneAndUpdate hands a claim to one caller: two calls of processNext on
\* the same job, one of them abandoned perhaps, never hold the same version,
\* and none holds a version the document has not reached.  (claim's $inc of
\* version; it would serve as a fencing token, and no write checks it.)
ClaimIsExclusive ==
    \A e \in Execs : Busy(e) =>
        /\ exec[e].ver \in 1 .. job[exec[e].job].version
        /\ \A f \in Execs \ {e} :
              Holds(f, exec[e].job) => exec[e].ver # exec[f].ver

\* recoverAbandoned matches leaseUntil <= now, which a null never satisfies:
\* a running job without a lease or an owner would be out of its reach for
\* ever, and a finished job with a lease would be held back from the claim
\* that follows its retry.  Holds across the unguarded writes of complete and
\* fail, late heartbeats and the operator's save of a stale document.
LeaseMatchesStatus ==
    \A j \in Jobs :
        /\ job[j].status = "running" =>
              job[j].lease # "null" /\ job[j].claimedBy # Null
        /\ job[j].status \in {"absent", "retry_wait", "completed", "dead_lettered"} =>
              job[j].lease = "null"

\* The retries saved after the first, whether over a document that has moved on
\* since it was loaded or over one that has not.
LaterSaves ==
    LET saved == Cardinality({c \in Clients : retry[c].pc = "done"})
    IN  IF saved = 0 THEN 0 ELSE saved - 1

\* Recovery and stale writes requeue a job that has used up its attempts:
\* recoverAbandoned looks at no counter, and fail judges by the attempts it
\* read before.  Each fault, and each retry saved after the first, buys one
\* claim at most beyond the ceiling.
AttemptsBounded ==
    \A j \in Jobs : job[j].attempts <= MaxAttempts + faults + LaterSaves

\* A stall or a retry saved over a running job lets a second call of
\* processNext take a job that the first goes on with; a late complete or fail
\* of either puts it back in reach while the other is still at work.  Yet each
\* call at work on a job, besides one, has a fault or a retry saved after the
\* first to itself: no single misfortune makes processors pile up.
ProcessorsBounded ==
    \A j \in Jobs :
        Cardinality({e \in Execs : Holds(e, j)}) <= 1 + faults + LaterSaves

\* shutdown waits for the calls in flight: a worker that stopped leaves no
\* running job of its own behind for recovery to find.  (A fault may.)
GracefulExit ==
    faults = 0 =>
        \A w \in Workers, j \in Jobs :
            mode[w] = "stopped" =>
                ~(job[j].status = "running" /\ job[j].claimedBy = w)

-----------------------------------------------------------------------------
(* Properties as long as heartbeats keep leases: processes may crash.      *)

\* "Job leases and heartbeats prevent duplicate processing" (README.md:71):
\* at most one call of processNext is at work on a job.
OneProcessor ==
    \A e, f \in Execs, j \in Jobs : Holds(e, j) /\ Holds(f, j) => e = f

\* The one processNext at work on a job is the one its document names, and
\* recovery cannot take the job from it.
SingleHolder ==
    /\ OneProcessor
    /\ \A e \in Execs, j \in Jobs : Holds(e, j) =>
          /\ job[j].status = "running"
          /\ job[j].claimedBy = e[1]
          /\ job[j].lease = "live"

\* A completed job is never processed or changed again, though complete, fail
\* and the operator's save write by id alone.
CompletedIsFinal ==
    [][\A j \in Jobs : job[j].status = "completed" => job'[j].status = "completed"]_vars

\* The job as its submitter sees it: a running document that no processNext
\* holds has lost its process.
Phase(j) ==
    IF job[j].status = "absent" THEN "absent"
    ELSE IF job[j].status \in {"pending", "retry_wait"} THEN "queued"
    ELSE IF job[j].status = "completed" THEN "completed"
    ELSE IF job[j].status = "dead_lettered" THEN "dead"
    ELSE IF \E e \in Execs : Holds(e, j) THEN "processing" ELSE "orphaned"

Lifecycle == INSTANCE JobLifecycle
    WITH phase <- [j \in Jobs |-> Phase(j)],
         tries <- [j \in Jobs |-> job[j].attempts]

\* The queue implements JobLifecycle: in particular a job with no attempts
\* left is not requeued by its holder, and a retry starts from zero.
ImplementsLifecycle == Lifecycle!Spec

-----------------------------------------------------------------------------
(* Claims of the documentation that the code does not keep.                *)

\* "Exponential backoff with jitter and a max attempt ceiling" (README.md:73).
AttemptCeiling == \A j \in Jobs : job[j].attempts <= MaxAttempts

\* "Non-retryable failures skip retry and go to dead-letter" (README.md:74):
\* what fail writes after an error the engine client marked final.
FinalErrorsSkipRetry ==
    [][\A e \in Execs, j \in Jobs :
          (/\ Holds(e, j)
           /\ exec[e].pc = "deciding"
           /\ exec[e].err = "rejected"
           /\ job'[j] # job[j]
           /\ exec'[e].pc = "idle")
          => job'[j].status = "dead_lettered"]_vars

-----------------------------------------------------------------------------
(* Liveness.                                                               *)

\* Whatever crashes, stalls and replies are lost, every submitted job ends
\* completed or dead-lettered for good, once no operator retries it any more.
Settles ==
    \A j \in Jobs :
        <>[](job[j].status \in {"absent", "completed", "dead_lettered"})

\* A worker told to stop does stop (or crashes): no call keeps it draining.
DrainEnds == \A w \in Workers : mode[w] = "draining" ~> mode[w] # "draining"

=============================================================================
