------------------------------- MODULE JobApi -------------------------------
(***************************************************************************)
(* Requests to the Job API over the queue that serves them:                *)
(* JobService.create and the audit events of create and retry              *)
(* (apps/api/src/services/job-service.ts, packages/shared/src/audit).      *)
(*                                                                         *)
(* A document is named by its idempotency key, which the unique index of   *)
(* DiagnosticJob makes sound; so the input that a document was made from   *)
(* is that of the request that inserted it.  A client that gets no answer  *)
(* asks again: another request with the same key, before, during or after  *)
(* the first.  A call to MongoDB that rejects and an API process that dies *)
(* end the request with an error, which mishaps counts; the faults of the  *)
(* queue are counted apart.                                                *)
(***************************************************************************)
EXTENDS JobQueue

CONSTANTS
    Requests,       \* POST /diagnostics requests
    MaxMishaps      \* bound on the requests that errors end

ASSUME RequestAssumption == Null \notin Requests
ASSUME MishapsAssumption == MaxMishaps \in Nat

VARIABLES
    origin,  \* the request each document was made from
    post,    \* the requests and what they were answered
    closed,  \* retry requests that have ended: answered, or with an error
    audit,   \* audit events: jobs created, retry requests served
    mishaps  \* requests ended by an error so far

apiVars == <<vars, origin, post, closed, audit, mishaps>>

\* inserting: create found no document; created: it inserted one; refused:
\* the index did not let it; answered and failed: the response is out.
PostType == [pc : {"idle", "inserting", "created", "refused", "answered", "failed"},
             job : Jobs \cup {Null}, from : Requests \cup {Null},
             replayed : BOOLEAN]

ApiTypeOK ==
    /\ origin \in [Jobs -> Requests \cup {Null}]
    /\ post \in [Requests -> PostType]
    /\ closed \subseteq Clients
    /\ audit \in [create : SUBSET Jobs, retry : SUBSET Clients]
    /\ mishaps \in 0 .. MaxMishaps

-----------------------------------------------------------------------------
IdlePost == [pc |-> "idle", job |-> Null, from |-> Null, replayed |-> FALSE]

ApiInit ==
    /\ Init
    /\ origin = [j \in Jobs |-> Null]
    /\ post = [q \in Requests |-> IdlePost]
    /\ closed = {}
    /\ audit = [create |-> {}, retry |-> {}]
    /\ mishaps = 0

Mishap == mishaps < MaxMishaps /\ mishaps' = mishaps + 1

Stored(j) == job[j].status # "absent"

Step(q, pc) == post' = [post EXCEPT ![q] = [@ EXCEPT !.pc = pc]]

Answer(q, j, replayed) ==
    post' = [post EXCEPT ![q] = [pc |-> "answered", job |-> j, from |-> origin[j],
                                 replayed |-> replayed]]

\* A slip of the operation below: the catch block throws the index's error on.
InsertOrFail(q) ==
    LET j == post[q].job
    IN  /\ post[q].pc = "inserting"
        /\ IF Stored(j)
           THEN Step(q, "failed") /\ UNCHANGED <<vars, origin>>
           ELSE Create(j) /\ origin' = [origin EXCEPT ![j] = q] /\ Step(q, "created")
        /\ UNCHANGED <<closed, audit, mishaps>>

\* A slip: no unique index, the second document is the one found later.
InsertOver(q) ==
    LET j == post[q].job
    IN  /\ post[q].pc = "inserting"
        /\ IF Stored(j) THEN UNCHANGED vars ELSE Create(j)
        /\ origin' = [origin EXCEPT ![j] = q]
        /\ Step(q, "created")
        /\ UNCHANGED <<closed, audit, mishaps>>

\* A slip: the answer does not wait for the audit event.
RecordCreationLater(q) ==
    /\ post[q].pc = "created"
    /\ Answer(q, post[q].job, FALSE)
    /\ UNCHANGED <<vars, origin, closed, audit, mishaps>>

\* A slip: retry records the action that create does.
RecordRetryAsCreation(c) ==
    /\ retry[c].pc = "done"
    /\ c \notin closed
    /\ audit' = [audit EXCEPT !.create = @ \cup {c}]
    /\ closed' = closed \cup {c}
    /\ UNCHANGED <<vars, origin, post, mishaps>>

-----------------------------------------------------------------------------
(* create                                                                  *)

\* findOne: the document that is there is the answer.
Lookup(q, j) ==
    /\ post[q].pc = "idle"
    /\ IF Stored(j)
       THEN Answer(q, j, TRUE)
       ELSE post' = [post EXCEPT ![q] = [pc |-> "inserting", job |-> j, from |-> Null,
                                         replayed |-> FALSE]]
    /\ UNCHANGED <<vars, origin, closed, audit, mishaps>>

\* The insertion, which the unique index refuses when the key is taken.
Insert(q) ==
    LET j == post[q].job
    IN  /\ post[q].pc = "inserting"
        /\ IF Stored(j)
           THEN Step(q, "refused") /\ UNCHANGED <<vars, origin>>
           ELSE Create(j) /\ origin' = [origin EXCEPT ![j] = q] /\ Step(q, "created")
        /\ UNCHANGED <<closed, audit, mishaps>>

\* The catch block's findOne; the error is thrown on when it finds nothing.
FindWinner(q) ==
    LET j == post[q].job
    IN  /\ post[q].pc = "refused"
        /\ IF Stored(j) THEN Answer(q, j, TRUE) ELSE Step(q, "failed")
        /\ UNCHANGED <<vars, origin, closed, audit, mishaps>>

\* recordAudit, and the answer.
RecordCreation(q) ==
    LET j == post[q].job
    IN  /\ post[q].pc = "created"
        /\ audit' = [audit EXCEPT !.create = @ \cup {j}]
        /\ Answer(q, j, FALSE)
        /\ UNCHANGED <<vars, origin, closed, mishaps>>

\* A call of create rejects before it was applied, or after (the insertion,
\* the audit event).
CreateErrs(q) ==
    LET j == post[q].job
    IN  /\ post[q].pc \in {"idle", "inserting", "created", "refused"}
        /\ Step(q, "failed")
        /\ Mishap
        /\ \/ UNCHANGED <<vars, origin, audit>>
           \/ /\ post[q].pc = "inserting"
              /\ Create(j)
              /\ origin' = [origin EXCEPT ![j] = q]
              /\ UNCHANGED audit
           \/ /\ post[q].pc = "created"
              /\ audit' = [audit EXCEPT !.create = @ \cup {j}]
              /\ UNCHANGED <<vars, origin>>
        /\ UNCHANGED closed

-----------------------------------------------------------------------------
(* retry, after its save                                                   *)

RecordRetry(c) ==
    /\ retry[c].pc = "done"
    /\ c \notin closed
    /\ audit' = [audit EXCEPT !.retry = @ \cup {c}]
    /\ closed' = closed \cup {c}
    /\ UNCHANGED <<vars, origin, post, mishaps>>

\* Its audit event is not written, or its reply lost.
RetryErrs(c) ==
    /\ retry[c].pc = "done"
    /\ c \notin closed
    /\ Mishap
    /\ closed' = closed \cup {c}
    /\ \/ audit' = [audit EXCEPT !.retry = @ \cup {c}]
       \/ UNCHANGED audit
    /\ UNCHANGED <<vars, origin, post>>

-----------------------------------------------------------------------------
PostStep(q) == Insert(q) \/ FindWinner(q) \/ RecordCreation(q)

ApiNext ==
    \/ Serve /\ UNCHANGED <<origin, post, closed, audit, mishaps>>
    \/ \E q \in Requests :
          (\E j \in Jobs : Lookup(q, j)) \/ PostStep(q) \/ CreateErrs(q)
    \/ \E c \in Clients : RecordRetry(c) \/ RetryErrs(c)

ApiSpec == ApiInit /\ [][ApiNext]_apiVars

-----------------------------------------------------------------------------
(* Properties.                                                             *)

\* "Same idempotency key returns original record" (architecture.md:42): all
\* requests with one key are answered with the document of one of them, which
\* is stored, so that the queue settles it; and only that one is told that it
\* is new.  (Two requests race between the lookup and the insertion; the
\* document may come from a request that was answered with an error.)
Answered(q) == post[q].pc = "answered"

SameRecord ==
    \A q \in Requests : Answered(q) =>
        /\ Stored(post[q].job)
        /\ post[q].replayed <=> post[q].from # q
        /\ \A r \in Requests :
              Answered(r) /\ post[r].job = post[q].job => post[r].from = post[q].from

\* Nothing but an error of its own fails a request: not the index that
\* refuses its document.
Failed == {q \in Requests : post[q].pc = "failed"}

OnlyErrorsFail == Cardinality(Failed) <= mishaps

\* README.md:54 has the API audit what it does: a stored job or a saved retry
\* without its event is still to be recorded by the request that made it, or
\* ended with an error.
Creating(j) == \E q \in Requests : post[q].pc = "created" /\ post[q].job = j

CreationsMissed == {j \in Jobs : Stored(j) /\ ~Creating(j)} \ audit.create
RetriesMissed == closed \ audit.retry

AuditAccounts == Cardinality(CreationsMissed) + Cardinality(RetriesMissed) <= mishaps

=============================================================================
