---------------------------- MODULE JobApiProofs ----------------------------
(***************************************************************************)
(* Theorems about JobApi, for any numbers of jobs, requests, workers,      *)
(* slots, clients, faults and mishaps.                                     *)
(***************************************************************************)
EXTENDS JobApi, JobQueueProofs, FiniteSetTheorems

\* A request is at work on a document.
Engaged(q) == post[q].pc \in {"inserting", "created", "refused", "answered"}

\* What makes the answers of racing requests agree: a document has one origin
\* from its insertion on, and only its origin finds itself in created.
PostInv ==
    /\ \A q \in Requests : Engaged(q) => post[q].job \in Jobs
    /\ \A j \in Jobs : Stored(j) <=> origin[j] # Null
    /\ \A q \in Requests : post[q].pc = "created" => origin[post[q].job] = q
    /\ \A q \in Requests : post[q].pc = "refused" => Stored(post[q].job)
    /\ \A q \in Requests : Answered(q) =>
          /\ Stored(post[q].job)
          /\ post[q].from = origin[post[q].job]
          /\ post[q].replayed <=> origin[post[q].job] # q
    /\ \A q \in Requests, j \in Jobs : origin[j] = q =>
          post[q].pc \in {"created", "answered", "failed"}

ApiInv == ApiTypeOK /\ TypeInv /\ PostInv

LEMMA InitApiInv == ApiInit => ApiInv
  <1> SUFFICES ASSUME ApiInit PROVE ApiInv
    OBVIOUS
  <1>1. TypeInv
    BY InitTypeInv DEF ApiInit
  <1>2. ApiTypeOK
    BY MishapsAssumption DEF ApiInit, ApiTypeOK, IdlePost, PostType
  <1>3. PostInv
    BY RequestAssumption
    DEF ApiInit, Init, NoJob, PostInv, IdlePost, Engaged, Answered, Stored
  <1> QED
    BY <1>1, <1>2, <1>3 DEF ApiInv

-----------------------------------------------------------------------------
(* The requests keep the queue.                                            *)

\* Every step of the API is one of the queue, or none.
LEMMA ApiStepOfQueue ==
  ASSUME ApiInv, [ApiNext]_apiVars
  PROVE  [Next]_vars
  <1>1. CASE Serve /\ UNCHANGED <<origin, post, closed, audit, mishaps>>
    BY <1>1 DEF Next
  <1>2. ASSUME NEW q \in Requests, NEW j \in Jobs, Lookup(q, j) PROVE [Next]_vars
    BY <1>2 DEF Lookup
  <1>3. ASSUME NEW q \in Requests, Insert(q) \/ CreateErrs(q) PROVE [Next]_vars
    <2>1. (post[q].pc = "inserting" /\ Create(post[q].job)) \/ UNCHANGED vars
      BY <1>3 DEF Insert, CreateErrs
    <2>2. post[q].pc = "inserting" => post[q].job \in Jobs
      BY DEF ApiInv, PostInv, Engaged
    <2> QED
      BY <2>1, <2>2 DEF Next
  <1>4. ASSUME NEW q \in Requests, FindWinner(q) \/ RecordCreation(q) PROVE [Next]_vars
    BY <1>4 DEF FindWinner, RecordCreation
  <1>5. ASSUME NEW c \in Clients, RecordRetry(c) \/ RetryErrs(c) PROVE [Next]_vars
    BY <1>5 DEF RecordRetry, RetryErrs
  <1>6. CASE UNCHANGED apiVars
    BY <1>6 DEF apiVars
  <1> QED
    BY <1>1, <1>2, <1>3, <1>4, <1>5, <1>6 DEF ApiNext, PostStep

-----------------------------------------------------------------------------
(* What a step does to the documents.                                      *)

\* The worker and the retries insert no document and remove none.
LEMMA ServeStoresNone ==
  ASSUME TypeInv, Serve
  PROVE  \A k \in Jobs : Stored(k)' <=> Stored(k)
  <1>0. /\ job \in [Jobs -> JobType]
        /\ \A e \in Execs : Busy(e) =>
              exec[e].job \in Jobs /\ job[exec[e].job].status # "absent"
        /\ \A c \in Clients : retry[c].pc = "loaded" =>
              retry[c].job \in Jobs /\ job[retry[c].job].status # "absent"
    BY DEF TypeInv, TypeOK, WellFormed
  <1> DEFINE Same == \A k \in Jobs : Stored(k)' <=> Stored(k)
  <1>1. ASSUME NEW j \in Jobs, BackoffElapses(j) \/ LeaseExpires(j) \/ Stall(j)
        PROVE  Same
    BY <1>0, <1>1 DEF BackoffElapses, LeaseExpires, Stall, Stored, JobType
  <1>2. ASSUME NEW e \in Execs, NEW j \in Jobs, Claim(e, j) \/ ClaimReplyLost(e, j)
        PROVE  Same
    <2>1. Claimable(j) /\ TakeJob(e[1], j)
      BY <1>2 DEF Claim, ClaimReplyLost
    <2> QED
      BY <1>0, <2>1 DEF TakeJob, Claimable, Stored
  <1>3. ASSUME NEW e \in Execs, Complete(e) \/ CompleteErrs(e) PROVE Same
    <2>1. MarkCompleted(exec[e].job) \/ job' = job
      BY <1>3 DEF Complete, CompleteErrs
    <2>2. exec[e].job \in Jobs /\ Stored(exec[e].job)
      BY <1>0, <1>3 DEF Complete, CompleteErrs, Busy, Stored
    <2> QED
      BY <1>0, <2>1, <2>2 DEF MarkCompleted, Stored, JobType
  <1>4. ASSUME NEW e \in Execs, FailWrite(e) PROVE Same
    <2>1. exec[e].job \in Jobs /\ Stored(exec[e].job)
      BY <1>0, <1>4 DEF FailWrite, Busy, Stored
    <2> QED
      BY <1>0, <1>4, <2>1 DEF FailWrite, Stored, JobType
  <1>5. ASSUME NEW e \in Execs, NEW j \in Jobs, Heartbeat(e, j) PROVE Same
    BY <1>0, <1>5 DEF Heartbeat, Stored, JobType
  <1>6. ASSUME NEW w \in Workers, NEW j \in Jobs, RecoverAbandoned(w, j) PROVE Same
    BY <1>0, <1>6 DEF RecoverAbandoned, Stored, JobType
  <1>7. ASSUME NEW c \in Clients, RetrySave(c) PROVE Same
    BY <1>0, <1>7 DEF RetrySave, Stored
  <1>8. ASSUME NEW e \in Execs,
               \/ Spawn(e) \/ ClaimNothing(e) \/ RunResolves(e) \/ RunRejects(e)
               \/ FailRead(e) \/ CallErrs(e)
        PROVE  job' = job
    BY <1>8 DEF Spawn, ClaimNothing, RunResolves, RunRejects, FailRead, CallErrs
  <1>9. ASSUME NEW w \in Workers, Shutdown(w) \/ Exit(w) \/ Crash(w) \/ Restart(w)
        PROVE  job' = job
    BY <1>9 DEF Shutdown, Exit, Crash, Restart
  <1>10. ASSUME NEW c \in Clients, NEW j \in Jobs, RetryLoad(c, j) PROVE job' = job
    BY <1>10 DEF RetryLoad
  <1>11. job' = job => Same
    BY DEF Stored
  <1> QED
    BY <1>1, <1>2, <1>3, <1>4, <1>5, <1>6, <1>7, <1>8, <1>9, <1>10, <1>11
    DEF Serve, ExecStep

\* An insertion adds its document and no other.
LEMMA CreateStoresOne ==
  ASSUME TypeInv, NEW j \in Jobs, Create(j)
  PROVE  /\ ~Stored(j)
         /\ \A k \in Jobs : Stored(k)' <=> Stored(k) \/ k = j
  BY DEF Create, StoreJob, Stored, TypeInv, TypeOK, JobType

-----------------------------------------------------------------------------
(* Types.                                                                  *)

LEMMA StepTyped ==
  ASSUME ApiTypeOK, NEW q \in Requests, NEW pc, Step(q, pc),
         pc \in {"created", "refused", "failed"}
  PROVE  post' \in [Requests -> PostType]
  BY DEF ApiTypeOK, Step, PostType

LEMMA AnswerTyped ==
  ASSUME ApiTypeOK, NEW q \in Requests, NEW j \in Jobs, NEW replayed \in BOOLEAN,
         Answer(q, j, replayed)
  PROVE  post' \in [Requests -> PostType]
  BY DEF ApiTypeOK, Answer, PostType

LEMMA NextApiTypeOK == ApiInv /\ [ApiNext]_apiVars => ApiTypeOK'
  <1> SUFFICES ASSUME ApiInv, [ApiNext]_apiVars PROVE ApiTypeOK'
    OBVIOUS
  <1>0. ApiTypeOK /\ \A q \in Requests : Engaged(q) => post[q].job \in Jobs
    BY DEF ApiInv, PostInv
  <1>1. post' \in [Requests -> PostType]
    <2>1. ASSUME NEW q \in Requests, NEW j \in Jobs, Lookup(q, j)
          PROVE  post' \in [Requests -> PostType]
      <3>1. CASE Stored(j)
        BY <1>0, <2>1, <3>1, AnswerTyped DEF Lookup
      <3>2. CASE ~Stored(j)
        <4> DEFINE x == [pc |-> "inserting", job |-> j, from |-> Null,
                         replayed |-> FALSE]
        <4>1. x \in PostType
          BY DEF PostType
        <4>2. post' = [post EXCEPT ![q] = x]
          BY <2>1, <3>2 DEF Lookup
        <4> HIDE DEF x
        <4> QED
          BY <1>0, <4>1, <4>2 DEF ApiTypeOK
      <3> QED
        BY <3>1, <3>2
    <2>2. ASSUME NEW q \in Requests, Insert(q) \/ CreateErrs(q)
          PROVE  post' \in [Requests -> PostType]
      BY <1>0, <2>2, StepTyped DEF Insert, CreateErrs
    <2>3. ASSUME NEW q \in Requests, FindWinner(q) \/ RecordCreation(q)
          PROVE  post' \in [Requests -> PostType]
      <3>1. post[q].job \in Jobs
        BY <1>0, <2>3 DEF FindWinner, RecordCreation, Engaged
      <3> QED
        BY <1>0, <2>3, <3>1, StepTyped, AnswerTyped DEF FindWinner, RecordCreation
    <2>4. CASE UNCHANGED post
      BY <1>0, <2>4 DEF ApiTypeOK
    <2> QED
      BY <2>1, <2>2, <2>3, <2>4
      DEF ApiNext, PostStep, RecordRetry, RetryErrs, apiVars
  <1>2. origin' \in [Jobs -> Requests \cup {Null}]
    <2>1. ASSUME NEW q \in Requests, Insert(q) \/ CreateErrs(q)
          PROVE  origin' \in [Jobs -> Requests \cup {Null}]
      BY <1>0, <2>1 DEF Insert, CreateErrs, ApiTypeOK
    <2>2. CASE UNCHANGED origin
      BY <1>0, <2>2 DEF ApiTypeOK
    <2> QED
      BY <2>1, <2>2
      DEF ApiNext, PostStep, Lookup, FindWinner, RecordCreation, RecordRetry,
          RetryErrs, apiVars
  <1>3. audit' \in [create : SUBSET Jobs, retry : SUBSET Clients]
    <2>1. ASSUME NEW q \in Requests, RecordCreation(q) \/ CreateErrs(q)
          PROVE  audit' \in [create : SUBSET Jobs, retry : SUBSET Clients]
      BY <1>0, <2>1 DEF RecordCreation, CreateErrs, Engaged, ApiTypeOK
    <2>2. ASSUME NEW c \in Clients, RecordRetry(c) \/ RetryErrs(c)
          PROVE  audit' \in [create : SUBSET Jobs, retry : SUBSET Clients]
      BY <1>0, <2>2 DEF RecordRetry, RetryErrs, ApiTypeOK
    <2>3. CASE UNCHANGED audit
      BY <1>0, <2>3 DEF ApiTypeOK
    <2> QED
      BY <2>1, <2>2, <2>3 DEF ApiNext, PostStep, Lookup, Insert, FindWinner, apiVars
  <1>4. closed' \subseteq Clients
    BY <1>0
    DEF ApiTypeOK, ApiNext, PostStep, Lookup, Insert, FindWinner, RecordCreation,
        CreateErrs, RecordRetry, RetryErrs, apiVars
  <1>5. mishaps' \in 0 .. MaxMishaps
    <2>1. Mishap \/ UNCHANGED mishaps
      BY DEF ApiNext, PostStep, Lookup, Insert, FindWinner, RecordCreation,
             CreateErrs, RecordRetry, RetryErrs, apiVars
    <2> QED
      BY <1>0, <2>1, MishapsAssumption DEF ApiTypeOK, Mishap
  <1> QED
    BY <1>1, <1>2, <1>3, <1>4, <1>5 DEF ApiTypeOK

-----------------------------------------------------------------------------
(* The answers.                                                            *)

LEMMA NextPostInv == ApiInv /\ [ApiNext]_apiVars => PostInv'
  <1> SUFFICES ASSUME ApiInv, [ApiNext]_apiVars PROVE PostInv'
    OBVIOUS
  <1>0. /\ post \in [Requests -> PostType]
        /\ origin \in [Jobs -> Requests \cup {Null}]
        /\ TypeInv
        /\ PostInv
        /\ Null \notin Requests
    BY RequestAssumption DEF ApiInv, ApiTypeOK
  <1> USE DEF PostInv, Engaged, Answered
  \* A step that leaves the documents and their origins alone.
  <1>1. ASSUME UNCHANGED <<post, origin>>, \A k \in Jobs : Stored(k)' <=> Stored(k)
        PROVE  PostInv'
    BY <1>0, <1>1
  <1>2. ASSUME UNCHANGED vars PROVE \A k \in Jobs : Stored(k)' <=> Stored(k)
    BY <1>2 DEF vars, Stored
  <1>3. ASSUME NEW q \in Requests, NEW j \in Jobs, Lookup(q, j) PROVE PostInv'
    <2>1. \A k \in Jobs : Stored(k)' <=> Stored(k)
      BY <1>2, <1>3 DEF Lookup
    <2>2. CASE Stored(j)
      BY <1>0, <1>3, <2>1, <2>2 DEF Lookup, Answer
    <2>3. CASE ~Stored(j)
      BY <1>0, <1>3, <2>1, <2>3 DEF Lookup
    <2> QED
      BY <2>2, <2>3
  <1>4. ASSUME NEW q \in Requests, Insert(q) PROVE PostInv'
    <2>1. post[q].job \in Jobs
      BY <1>0, <1>4 DEF Insert
    <2>2. CASE Stored(post[q].job)
      <3>1. \A k \in Jobs : Stored(k)' <=> Stored(k)
        BY <1>2, <1>4, <2>2 DEF Insert
      <3> QED
        BY <1>0, <1>4, <2>1, <2>2, <3>1 DEF Insert, Step, PostType
    <2>3. CASE ~Stored(post[q].job)
      <3>1. \A k \in Jobs : Stored(k)' <=> Stored(k) \/ k = post[q].job
        BY <1>0, <1>4, <2>1, <2>3, CreateStoresOne DEF Insert
      <3> QED
        BY <1>0, <1>4, <2>1, <2>3, <3>1 DEF Insert, Step, PostType
    <2> QED
      BY <2>2, <2>3
  <1>5. ASSUME NEW q \in Requests, CreateErrs(q) PROVE PostInv'
    <2>1. CASE post[q].pc = "inserting" /\ Create(post[q].job)
               /\ origin' = [origin EXCEPT ![post[q].job] = q]
      <3>1. /\ post[q].job \in Jobs
            /\ ~Stored(post[q].job)
            /\ \A k \in Jobs : Stored(k)' <=> Stored(k) \/ k = post[q].job
        BY <1>0, <2>1, CreateStoresOne
      <3> QED
        BY <1>0, <1>5, <2>1, <3>1 DEF CreateErrs, Step, PostType
    <2>2. CASE UNCHANGED <<vars, origin>>
      <3>1. \A k \in Jobs : Stored(k)' <=> Stored(k)
        BY <1>2, <2>2
      <3> QED
        BY <1>0, <1>5, <2>2, <3>1 DEF CreateErrs, Step, PostType
    <2> QED
      BY <1>5, <2>1, <2>2 DEF CreateErrs
  <1>6. ASSUME NEW q \in Requests, FindWinner(q) \/ RecordCreation(q) PROVE PostInv'
    <2>1. /\ post[q].job \in Jobs
          /\ Stored(post[q].job)
          /\ \A k \in Jobs : Stored(k)' <=> Stored(k)
      BY <1>0, <1>2, <1>6 DEF FindWinner, RecordCreation
    <2>2. Answer(q, post[q].job, FALSE) \/ Answer(q, post[q].job, TRUE)
      BY <1>6, <2>1 DEF FindWinner, RecordCreation
    <2>3. Answer(q, post[q].job, TRUE) => origin[post[q].job] # q
      BY <1>0, <1>6, <2>1 DEF FindWinner, RecordCreation, Answer
    <2> QED
      BY <1>0, <1>6, <2>1, <2>2, <2>3 DEF FindWinner, RecordCreation, Answer
  <1>7. ASSUME NEW c \in Clients, RecordRetry(c) \/ RetryErrs(c) PROVE PostInv'
    BY <1>1, <1>2, <1>7 DEF RecordRetry, RetryErrs
  <1>8. CASE Serve /\ UNCHANGED <<origin, post, closed, audit, mishaps>>
    BY <1>0, <1>1, <1>8, ServeStoresNone
  <1>9. CASE UNCHANGED apiVars
    BY <1>1, <1>2, <1>9 DEF apiVars
  <1> QED
    BY <1>3, <1>4, <1>5, <1>6, <1>7, <1>8, <1>9 DEF ApiNext, PostStep

LEMMA NextApiInv == ApiInv /\ [ApiNext]_apiVars => ApiInv'
  BY NextApiTypeOK, NextPostInv, ApiStepOfQueue, NextTypeInv DEF ApiInv

LEMMA ApiInvHolds == ApiSpec => []ApiInv
  BY InitApiInv, NextApiInv, PTL DEF ApiSpec

\* The state of the requests is what the model says it is.
THEOREM ApiTypeCorrect == ApiSpec => []ApiTypeOK
  <1>1. ApiInv => ApiTypeOK
    BY DEF ApiInv
  <1> QED
    BY <1>1, ApiInvHolds, PTL

\* Requests to the API, their races and errors included, give the queue no
\* step that Spec lacks: every theorem of JobQueueProofs holds of the two
\* together.
THEOREM RequestsKeepTheQueue == ApiSpec => Spec
  <1>1. ApiInit => Init
    BY DEF ApiInit
  <1>2. ApiInv /\ [ApiNext]_apiVars => [Next]_vars
    BY ApiStepOfQueue
  <1> QED
    BY <1>1, <1>2, ApiInvHolds, PTL DEF ApiSpec, Spec

\* All requests with one idempotency key are answered with one stored
\* document, as new to the request that it was made from and as replayed to
\* all others (JobService.create).
THEOREM OneRecordPerKey == ApiSpec => []SameRecord
  <1>1. ApiInv => SameRecord
    BY DEF ApiInv, PostInv, SameRecord, Answered
  <1> QED
    BY <1>1, ApiInvHolds, PTL

-----------------------------------------------------------------------------
(* What errors cost.                                                       *)

LEMMA Shrinks ==
  ASSUME NEW S, IsFiniteSet(S), NEW T, T \subseteq S
  PROVE  /\ IsFiniteSet(T)
         /\ Cardinality(S) \in Nat
         /\ Cardinality(T) \in Nat
         /\ Cardinality(T) <= Cardinality(S)
  BY FS_Subset, FS_CardinalityType

LEMMA GrowsByOne ==
  ASSUME NEW S, IsFiniteSet(S), NEW x, NEW T, T \subseteq S \cup {x}
  PROVE  /\ IsFiniteSet(T)
         /\ Cardinality(S) \in Nat
         /\ Cardinality(T) \in Nat
         /\ Cardinality(T) <= Cardinality(S) + 1
  <1>1. /\ IsFiniteSet(S \cup {x})
        /\ Cardinality(S) \in Nat
        /\ \/ Cardinality(S \cup {x}) = Cardinality(S)
           \/ Cardinality(S \cup {x}) = Cardinality(S) + 1
    BY FS_AddElement, FS_CardinalityType
  <1>2. /\ IsFiniteSet(T)
        /\ Cardinality(T) \in Nat
        /\ Cardinality(T) <= Cardinality(S \cup {x})
    BY <1>1, Shrinks
  <1> QED
    BY <1>1, <1>2

\* One of two sets grows.
LEMMA OneOfTwoGrows ==
  ASSUME NEW S, IsFiniteSet(S), NEW T, IsFiniteSet(T), NEW n \in Nat,
         Cardinality(S) + Cardinality(T) <= n,
         NEW x, NEW U, U \subseteq S \cup {x}, NEW V, V \subseteq T
  PROVE  /\ IsFiniteSet(U) /\ IsFiniteSet(V)
         /\ Cardinality(U) + Cardinality(V) <= n + 1
         /\ Cardinality(V) + Cardinality(U) <= n + 1
  <1>1. /\ IsFiniteSet(U)
        /\ Cardinality(S) \in Nat /\ Cardinality(U) \in Nat
        /\ Cardinality(U) <= Cardinality(S) + 1
    BY GrowsByOne
  <1>2. /\ IsFiniteSet(V)
        /\ Cardinality(T) \in Nat /\ Cardinality(V) \in Nat
        /\ Cardinality(V) <= Cardinality(T)
    BY Shrinks
  <1> QED
    BY <1>1, <1>2

\* The three sets that only a mishap lets grow, and by one element.
Costs ==
    /\ IsFiniteSet(Failed) /\ Cardinality(Failed) <= mishaps
    /\ IsFiniteSet(CreationsMissed) /\ IsFiniteSet(RetriesMissed)
    /\ Cardinality(CreationsMissed) + Cardinality(RetriesMissed) <= mishaps

NoneMore ==
    /\ Failed' \subseteq Failed
    /\ CreationsMissed' \subseteq CreationsMissed
    /\ RetriesMissed' \subseteq RetriesMissed
    /\ mishaps' = mishaps

\* A mishap: of a create request, which may leave its document unrecorded, or
\* of a retry request.
OneMore ==
    /\ mishaps' = mishaps + 1
    /\ \/ /\ \E q : Failed' \subseteq Failed \cup {q}
          /\ \E j : CreationsMissed' \subseteq CreationsMissed \cup {j}
          /\ RetriesMissed' \subseteq RetriesMissed
       \/ /\ Failed' \subseteq Failed
          /\ CreationsMissed' \subseteq CreationsMissed
          /\ \E c : RetriesMissed' \subseteq RetriesMissed \cup {c}

LEMMA StepCosts == ApiInv /\ [ApiNext]_apiVars => NoneMore \/ OneMore
  <1> SUFFICES ASSUME ApiInv, [ApiNext]_apiVars PROVE NoneMore \/ OneMore
    OBVIOUS
  <1>0. /\ post \in [Requests -> PostType]
        /\ audit \in [create : SUBSET Jobs, retry : SUBSET Clients]
        /\ mishaps \in Nat
        /\ TypeInv
        /\ \A q \in Requests : Engaged(q) => post[q].job \in Jobs
        /\ \A q \in Requests : post[q].pc = "refused" => Stored(post[q].job)
    BY MishapsAssumption DEF ApiInv, ApiTypeOK, PostInv
  <1> USE DEF Failed, CreationsMissed, RetriesMissed, Creating
  <1>1. ASSUME UNCHANGED vars PROVE \A k \in Jobs : Stored(k)' <=> Stored(k)
    BY <1>1 DEF vars, Stored
  <1>2. ASSUME UNCHANGED <<post, audit, closed, mishaps>>,
               \A k \in Jobs : Stored(k)' <=> Stored(k)
        PROVE  NoneMore
    BY <1>2 DEF NoneMore
  <1>3. ASSUME NEW q \in Requests, NEW j \in Jobs, Lookup(q, j) PROVE NoneMore
    BY <1>0, <1>1, <1>3 DEF Lookup, Answer, NoneMore
  <1>4. ASSUME NEW q \in Requests, Insert(q) PROVE NoneMore
    <2>1. post[q].job \in Jobs
      BY <1>0, <1>4 DEF Insert, Engaged
    <2>2. CASE Stored(post[q].job)
      <3>1. \A k \in Jobs : Stored(k)' <=> Stored(k)
        BY <1>1, <1>4, <2>2 DEF Insert
      <3> QED
        BY <1>0, <1>4, <2>2, <3>1 DEF Insert, Step, PostType, NoneMore
    <2>3. CASE ~Stored(post[q].job)
      <3>1. \A k \in Jobs : Stored(k)' <=> Stored(k) \/ k = post[q].job
        BY <1>0, <1>4, <2>1, <2>3, CreateStoresOne DEF Insert
      <3> QED
        BY <1>0, <1>4, <2>1, <2>3, <3>1 DEF Insert, Step, PostType, NoneMore
    <2> QED
      BY <2>2, <2>3
  <1>5. ASSUME NEW q \in Requests, FindWinner(q) PROVE NoneMore
    <2>1. Stored(post[q].job) /\ \A k \in Jobs : Stored(k)' <=> Stored(k)
      BY <1>0, <1>1, <1>5 DEF FindWinner
    <2> QED
      BY <1>0, <1>5, <2>1 DEF FindWinner, Answer, NoneMore
  <1>6. ASSUME NEW q \in Requests, RecordCreation(q) PROVE NoneMore
    <2>1. \A k \in Jobs : Stored(k)' <=> Stored(k)
      BY <1>1, <1>6 DEF RecordCreation
    <2>2. /\ audit'.create = audit.create \cup {post[q].job}
          /\ audit'.retry = audit.retry
      BY <1>0, <1>6 DEF RecordCreation
    <2> QED
      BY <1>0, <1>6, <2>1, <2>2 DEF RecordCreation, Answer, NoneMore
  <1>7. ASSUME NEW q \in Requests, CreateErrs(q) PROVE OneMore
    <2>1. /\ \A k \in Jobs : Stored(k)' => Stored(k) \/ k = post[q].job
          /\ audit.create \subseteq audit'.create
          /\ audit'.retry = audit.retry
      <3>1. CASE UNCHANGED <<vars, origin, audit>>
        BY <1>1, <3>1
      <3>2. CASE /\ post[q].pc = "inserting" /\ Create(post[q].job)
                 /\ UNCHANGED audit
        <4>1. post[q].job \in Jobs
          BY <1>0, <3>2 DEF Engaged
        <4> QED
          BY <1>0, <3>2, <4>1, CreateStoresOne
      <3>3. CASE /\ audit' = [audit EXCEPT !.create = @ \cup {post[q].job}]
                 /\ UNCHANGED vars
        BY <1>0, <1>1, <3>3
      <3> QED
        BY <1>7, <3>1, <3>2, <3>3 DEF CreateErrs
    <2>2. post' = [post EXCEPT ![q] = [@ EXCEPT !.pc = "failed"]]
          /\ closed' = closed /\ mishaps' = mishaps + 1
      BY <1>7 DEF CreateErrs, Step, Mishap
    <2>3. Failed' \subseteq Failed \cup {q}
      BY <1>0, <2>2
    <2>4. CreationsMissed' \subseteq CreationsMissed \cup {post[q].job}
      BY <1>0, <2>1, <2>2
    <2>5. RetriesMissed' \subseteq RetriesMissed
      BY <2>1, <2>2
    <2> QED
      BY <2>2, <2>3, <2>4, <2>5 DEF OneMore
  <1>8. ASSUME NEW c \in Clients, RecordRetry(c) PROVE NoneMore
    BY <1>0, <1>1, <1>8 DEF RecordRetry, NoneMore
  <1>9. ASSUME NEW c \in Clients, RetryErrs(c) PROVE OneMore
    <2>1. /\ audit'.create = audit.create
          /\ audit.retry \subseteq audit'.retry
      BY <1>0, <1>9 DEF RetryErrs
    <2>2. /\ post' = post /\ closed' = closed \cup {c} /\ mishaps' = mishaps + 1
          /\ \A k \in Jobs : Stored(k)' <=> Stored(k)
      BY <1>1, <1>9 DEF RetryErrs, Mishap
    <2>3. RetriesMissed' \subseteq RetriesMissed \cup {c}
      BY <2>1, <2>2
    <2>4. Failed' \subseteq Failed /\ CreationsMissed' \subseteq CreationsMissed
      BY <2>1, <2>2
    <2> QED
      BY <2>2, <2>3, <2>4 DEF OneMore
  <1>10. CASE Serve /\ UNCHANGED <<origin, post, closed, audit, mishaps>>
    BY <1>0, <1>2, <1>10, ServeStoresNone
  <1>11. CASE UNCHANGED apiVars
    BY <1>1, <1>2, <1>11 DEF apiVars
  <1> HIDE DEF Failed, CreationsMissed, RetriesMissed, Creating
  <1> QED
    BY <1>3, <1>4, <1>5, <1>6, <1>7, <1>8, <1>9, <1>10, <1>11 DEF ApiNext, PostStep

LEMMA NextCosts == ApiInv /\ Costs /\ [ApiNext]_apiVars => Costs'
  <1> SUFFICES ASSUME ApiInv, Costs, [ApiNext]_apiVars PROVE Costs'
    OBVIOUS
  <1>0. mishaps \in Nat
    BY MishapsAssumption DEF ApiInv, ApiTypeOK
  <1>1. CASE NoneMore
    <2>1. IsFiniteSet(Failed') /\ Cardinality(Failed') <= mishaps
      BY <1>0, <1>1, Shrinks DEF Costs, NoneMore
    <2>2. /\ IsFiniteSet(CreationsMissed') /\ IsFiniteSet(RetriesMissed')
          /\ Cardinality(CreationsMissed') + Cardinality(RetriesMissed') <= mishaps
      BY <1>0, <1>1, Shrinks DEF Costs, NoneMore
    <2> QED
      BY <1>1, <2>1, <2>2 DEF Costs, NoneMore
  <1>2. CASE OneMore
    <2>1. /\ IsFiniteSet(Failed) /\ IsFiniteSet(CreationsMissed)
          /\ IsFiniteSet(RetriesMissed)
          /\ Cardinality(Failed) <= mishaps
          /\ Cardinality(CreationsMissed) + Cardinality(RetriesMissed) <= mishaps
          /\ mishaps' = mishaps + 1
      BY <1>2 DEF Costs, OneMore
    <2>2. /\ IsFiniteSet(Failed') /\ Cardinality(Failed') <= mishaps + 1
      <3>1. CASE Failed' \subseteq Failed
        BY <1>0, <2>1, <3>1, Shrinks
      <3>2. ASSUME NEW q, Failed' \subseteq Failed \cup {q}
            PROVE  IsFiniteSet(Failed') /\ Cardinality(Failed') <= mishaps + 1
        <4>1. /\ IsFiniteSet(Failed')
              /\ Cardinality(Failed) \in Nat /\ Cardinality(Failed') \in Nat
              /\ Cardinality(Failed') <= Cardinality(Failed) + 1
          BY <2>1, <3>2, GrowsByOne
        <4> QED
          BY <1>0, <2>1, <4>1
      <3> QED
        BY <1>2, <3>1, <3>2 DEF OneMore
    <2>3. /\ IsFiniteSet(CreationsMissed') /\ IsFiniteSet(RetriesMissed')
          /\ Cardinality(CreationsMissed') + Cardinality(RetriesMissed') <= mishaps + 1
      <3>1. ASSUME NEW j, CreationsMissed' \subseteq CreationsMissed \cup {j},
                   RetriesMissed' \subseteq RetriesMissed
            PROVE  /\ IsFiniteSet(CreationsMissed') /\ IsFiniteSet(RetriesMissed')
                   /\ Cardinality(CreationsMissed') + Cardinality(RetriesMissed')
                        <= mishaps + 1
        BY <1>0, <2>1, <3>1, OneOfTwoGrows
      <3>2. ASSUME NEW c, RetriesMissed' \subseteq RetriesMissed \cup {c},
                   CreationsMissed' \subseteq CreationsMissed
            PROVE  /\ IsFiniteSet(CreationsMissed') /\ IsFiniteSet(RetriesMissed')
                   /\ Cardinality(CreationsMissed') + Cardinality(RetriesMissed')
                        <= mishaps + 1
        <4>1. /\ Cardinality(CreationsMissed) \in Nat
              /\ Cardinality(RetriesMissed) \in Nat
          BY <2>1, FS_CardinalityType
        <4>2. Cardinality(RetriesMissed) + Cardinality(CreationsMissed) <= mishaps
          BY <1>0, <2>1, <4>1
        <4> QED
          BY <1>0, <2>1, <3>2, <4>2, OneOfTwoGrows
      <3> QED
        BY <1>2, <3>1, <3>2 DEF OneMore
    <2> QED
      BY <2>1, <2>2, <2>3 DEF Costs
  <1> QED
    BY <1>1, <1>2, StepCosts

LEMMA CostsHolds == ApiSpec => []Costs
  <1>1. ApiInit => Costs
    <2> SUFFICES ASSUME ApiInit PROVE Costs
      OBVIOUS
    <2>1. Failed = {} /\ CreationsMissed = {} /\ RetriesMissed = {} /\ mishaps = 0
      BY DEF ApiInit, Init, IdlePost, NoJob, Stored, Failed, CreationsMissed, RetriesMissed
    <2> QED
      BY <2>1, FS_EmptySet DEF Costs
  <1> QED
    BY <1>1, ApiInvHolds, NextCosts, PTL DEF ApiSpec

\* A create request fails by an error of its own call, never because another
\* request inserted its document first.
THEOREM NoRaceFailsARequest == ApiSpec => []OnlyErrorsFail
  <1>1. Costs => OnlyErrorsFail
    BY DEF Costs, OnlyErrorsFail
  <1> QED
    BY <1>1, CostsHolds, PTL

\* Every job stored and every retry saved has its audit event, is about to
\* get it, or lost it to an error that ended its request.
THEOREM AuditsAreComplete == ApiSpec => []AuditAccounts
  <1>1. Costs => AuditAccounts
    BY DEF Costs, AuditAccounts
  <1> QED
    BY <1>1, CostsHolds, PTL

=============================================================================
