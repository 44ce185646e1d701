--------------------------- MODULE JobLifecycle ---------------------------
(***************************************************************************)
(* What the job queue promises to whoever submits a diagnostic job, with   *)
(* no worker, lease, heartbeat or document in sight: a job is queued, one  *)
(* processing of it starts, and that one either finishes it, gives it back *)
(* to the queue while it has attempts left, or gives it up; processing may *)
(* also be lost with its process, and then found again.                    *)
(***************************************************************************)
EXTENDS Naturals

CONSTANTS Jobs, MaxAttempts

VARIABLES
    phase,  \* the phase of each job
    tries   \* attempts started since the job was submitted or revived

lifecycle == <<phase, tries>>

Phases == {"absent", "queued", "processing", "orphaned", "completed", "dead"}

Init == /\ phase = [j \in Jobs |-> "absent"]
        /\ tries = [j \in Jobs |-> 0]

Move(j, from, to) == /\ phase[j] = from
                     /\ phase' = [phase EXCEPT ![j] = to]

Submit(j) == Move(j, "absent", "queued") /\ UNCHANGED tries

Start(j) == /\ Move(j, "queued", "processing")
            /\ tries' = [tries EXCEPT ![j] = @ + 1]

Finish(j) == Move(j, "processing", "completed") /\ UNCHANGED tries

\* Only a job with attempts left goes back to the queue ...
Requeue(j) == /\ Move(j, "processing", "queued")
              /\ tries[j] < MaxAttempts
              /\ UNCHANGED tries

\* ... and only one without is given up.
GiveUp(j) == /\ Move(j, "processing", "dead")
             /\ tries[j] >= MaxAttempts
             /\ UNCHANGED tries

\* A process dies with what it was processing.
Lose(lost) ==
    /\ \A j \in lost : phase[j] = "processing"
    /\ phase' = [j \in Jobs |-> IF j \in lost THEN "orphaned" ELSE phase[j]]
    /\ UNCHANGED tries

Find(j) == Move(j, "orphaned", "queued") /\ UNCHANGED tries

\* An operator retries a job that was given up, from a fresh count.
Revive(j) == /\ Move(j, "dead", "queued")
             /\ tries' = [tries EXCEPT ![j] = 0]

Next ==
    \/ \E j \in Jobs : \/ Submit(j) \/ Start(j) \/ Finish(j) \/ Requeue(j)
                       \/ GiveUp(j) \/ Find(j) \/ Revive(j)
    \/ \E lost \in SUBSET Jobs : Lose(lost)

Spec == Init /\ [][Next]_lifecycle

=============================================================================
