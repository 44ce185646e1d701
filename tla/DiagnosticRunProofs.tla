------------------------ MODULE DiagnosticRunProofs ------------------------
(***************************************************************************)
(* Theorems about DiagnosticRun, for any inventory, scope and number of    *)
(* attempts and remediations, and about what it finds in any account of    *)
(* AWS.                                                                    *)
(***************************************************************************)
EXTENDS AwsInventory, Integers, FiniteSetTheorems, WellFoundedInduction, TLAPS

-----------------------------------------------------------------------------
(* Rules and actions.                                                      *)

RuleNames == {"ec2.low_utilization", "resource.missing_tags",
              "s3.public_access", "cloudwatch.missing_alarms",
              "service.unhealthy", "resource.missing_backup",
              "app.repeated_errors", "api.elevated_latency",
              "reliability.failure_rate_increase"}

LEMMA RulesNamed ==
  /\ Len(Rules) = 9
  /\ \A i \in 1 .. 9 : Rules[i] \in RuleNames
  /\ \A rule \in RuleNames : \E i \in 1 .. 9 : Rules[i] = rule
  BY DEF Rules, RuleNames

LEMMA ActionsNamed ==
  ASSUME NEW rule \in RuleNames
  PROVE  ActionOf[rule] =
           IF rule = "ec2.low_utilization" THEN "manual_review"
           ELSE IF rule = "resource.missing_tags" THEN "add_missing_tag"
           ELSE IF rule = "s3.public_access" THEN "restrict_public_storage"
           ELSE IF rule \in {"service.unhealthy", "app.repeated_errors"}
                THEN "restart_unhealthy_service"
           ELSE IF rule = "resource.missing_backup" THEN "enable_backup_policy"
           ELSE "create_alarm"
  <1>1. rule \in {Rules[i] : i \in 1 .. Len(Rules)}
    BY RulesNamed
  <1> QED
    BY <1>1 DEF ActionOf

LEMMA ActionsAllowed ==
  ASSUME NEW rule \in RuleNames, ActionOf[rule] # "manual_review"
  PROVE  ActionOf[rule] \in Allowlisted
  BY ActionsNamed DEF Allowlisted

LEMMA AppliedTyped ==
  ASSUME NEW a \in Allowlisted, NEW r \in ResourceType
  PROVE  Applied(a, r) \in ResourceType
  BY DEF Applied, ResourceType, Allowlisted, RequiredTags, TagValues

\* What the actions do to the fields that rules read.
LEMMA AppliedFields ==
  ASSUME NEW a \in Allowlisted, NEW r \in ResourceType
  PROVE  /\ Applied(a, r).type = r.type
         /\ Applied(a, r).prodName = r.prodName
         /\ Applied(a, r).cpu = r.cpu
         /\ Applied(a, r).lowPeriods = r.lowPeriods
         /\ Applied(a, r).errorCount = r.errorCount
         /\ Applied(a, r).p99 = r.p99
         /\ Applied(a, r).failureDelta = r.failureDelta
         /\ Applied(a, r).tags["Environment"] = r.tags["Environment"]
         /\ \A t \in RequiredTags : Applied(a, r).tags[t] = "" => r.tags[t] = ""
         /\ Applied(a, r).publicAccess \in {r.publicAccess, "no"}
         /\ Applied(a, r).backup \in {r.backup, "yes"}
         /\ r.alarms \subseteq Applied(a, r).alarms
         /\ Applied(a, r).health \in {r.health, "healthy"}
         /\ Applied(a, r).errorRate <= r.errorRate
  <1> DEFINE s == Applied(a, r)
  <1>1. /\ s.type = r.type /\ s.prodName = r.prodName /\ s.cpu = r.cpu
        /\ s.lowPeriods = r.lowPeriods /\ s.errorCount = r.errorCount
        /\ s.p99 = r.p99 /\ s.failureDelta = r.failureDelta
    BY DEF Applied, ResourceType, Allowlisted
  <1>2. /\ s.tags["Environment"] = r.tags["Environment"]
        /\ \A t \in RequiredTags : s.tags[t] = "" => r.tags[t] = ""
    <2>1. CASE a = "add_missing_tag"
      <3>1. s = [r EXCEPT !.tags = [r.tags EXCEPT !["Owner"] = "platform"]]
        BY <2>1 DEF Applied, ResourceType
      <3>2. r.tags \in [RequiredTags -> TagValues]
        BY DEF ResourceType
      <3>3. s.tags = [r.tags EXCEPT !["Owner"] = "platform"]
        BY <3>1 DEF ResourceType
      <3> QED
        BY <3>2, <3>3 DEF RequiredTags
    <2>2. CASE a # "add_missing_tag"
      <3>1. s.tags = r.tags
        BY <2>2 DEF Applied, ResourceType
      <3> QED
        BY <3>1
    <2> QED
      BY <2>1, <2>2
  <1>3. s.publicAccess \in {r.publicAccess, "no"}
    BY DEF Applied, ResourceType, Allowlisted
  <1>4. s.backup \in {r.backup, "yes"}
    BY DEF Applied, ResourceType, Allowlisted
  <1>5. s.health \in {r.health, "healthy"}
    BY DEF Applied, ResourceType, Allowlisted
  <1>6. r.alarms \subseteq s.alarms
    BY DEF Applied, ResourceType, Allowlisted
  <1>7. s.errorRate <= r.errorRate
    <2>1. r.errorRate \in Nat
      BY DEF ResourceType
    <2>2. s.errorRate = r.errorRate \/ (s.errorRate = 10 /\ r.errorRate > 10)
      BY <2>1 DEF Applied, ResourceType, Allowlisted
    <2> HIDE DEF s
    <2> QED
      BY <2>1, <2>2
  <1> QED
    BY <1>1, <1>2, <1>3, <1>4, <1>5, <1>6, <1>7

\* No action makes a rule fire that did not.
LEMMA AppliedHarmless ==
  ASSUME NEW a \in Allowlisted, NEW r \in ResourceType, NEW rule \in RuleNames,
         Fires(rule, Applied(a, r))
  PROVE  Fires(rule, r)
  <1> DEFINE s == Applied(a, r)
  <1>1. s \in ResourceType
    BY AppliedTyped
  <1>2. Fires(rule, s)
    OBVIOUS
  <1>3. /\ s.type = r.type /\ s.cpu = r.cpu /\ s.lowPeriods = r.lowPeriods
        /\ s.errorCount = r.errorCount /\ s.p99 = r.p99
        /\ s.failureDelta = r.failureDelta
        /\ s.publicAccess \in {r.publicAccess, "no"}
        /\ s.backup \in {r.backup, "yes"}
        /\ s.health \in {r.health, "healthy"}
        /\ r.alarms \subseteq s.alarms
    BY AppliedFields
  <1>4. IsProd(s) = IsProd(r)
    BY AppliedFields DEF IsProd
  <1>5. MissingTags(s) \subseteq MissingTags(r)
    BY AppliedFields DEF MissingTags
  <1>6. s.errorRate <= r.errorRate
    BY AppliedFields
  <1> HIDE DEF s
  <1>7. LowUtilization(s) => LowUtilization(r)
    BY <1>3 DEF LowUtilization
  <1>8. PublicS3(s) => PublicS3(r)
    BY <1>3 DEF PublicS3
  <1>9. MissingAlarms(s) => MissingAlarms(r)
    BY <1>3, <1>4 DEF MissingAlarms
  <1>10. UnhealthyService(s) => UnhealthyService(r)
    BY <1>3 DEF UnhealthyService
  <1>11. MissingBackup(s) => MissingBackup(r)
    BY <1>3, <1>4 DEF MissingBackup
  <1>12. RepeatedErrors(s) => RepeatedErrors(r)
    <2>1. s.errorRate \in Nat /\ r.errorRate \in Nat
      BY <1>1 DEF ResourceType
    <2> QED
      BY <1>3, <1>6, <2>1 DEF RepeatedErrors
  <1>13. ElevatedLatency(s) => ElevatedLatency(r)
    BY <1>3 DEF ElevatedLatency
  <1>14. FailureRateIncrease(s) => FailureRateIncrease(r)
    BY <1>3 DEF FailureRateIncrease
  <1> QED
    BY <1>2, <1>5, <1>7, <1>8, <1>9, <1>10, <1>11, <1>12, <1>13, <1>14 DEF Fires

\* The action of a curable finding removes its reason.
LEMMA AppliedClears ==
  ASSUME NEW rule \in Curable, NEW r \in ResourceType
  PROVE  ~Fires(rule, Applied(ActionOf[rule], r))
  <1> DEFINE s == Applied(ActionOf[rule], r)
  <1>1. rule \in RuleNames
    BY DEF Curable, RuleNames
  <1>2. CASE rule = "s3.public_access"
    <2>1. ActionOf[rule] = "restrict_public_storage"
      BY <1>1, <1>2, ActionsNamed
    <2>2. s.publicAccess = "no"
      BY <2>1 DEF Applied, ResourceType
    <2> HIDE DEF s
    <2>3. ~Fires(rule, s)
      BY <1>2, <2>2 DEF Fires, PublicS3
    <2> QED
      BY <2>3 DEF s
  <1>3. CASE rule = "cloudwatch.missing_alarms"
    <2>1. ActionOf[rule] = "create_alarm"
      BY <1>1, <1>3, ActionsNamed
    <2>2. "health" \in s.alarms
      BY <2>1 DEF Applied, ResourceType
    <2> HIDE DEF s
    <2>3. ~Fires(rule, s)
      BY <1>3, <2>2 DEF Fires, MissingAlarms
    <2> QED
      BY <2>3 DEF s
  <1>4. CASE rule = "service.unhealthy"
    <2>1. ActionOf[rule] = "restart_unhealthy_service"
      BY <1>1, <1>4, ActionsNamed
    <2>2. s.health = "healthy"
      BY <2>1 DEF Applied, ResourceType
    <2> HIDE DEF s
    <2>3. ~Fires(rule, s)
      BY <1>4, <2>2 DEF Fires, UnhealthyService
    <2> QED
      BY <2>3 DEF s
  <1>5. CASE rule = "resource.missing_backup"
    <2>1. ActionOf[rule] = "enable_backup_policy"
      BY <1>1, <1>5, ActionsNamed
    <2>2. s.backup = "yes"
      BY <2>1 DEF Applied, ResourceType
    <2> HIDE DEF s
    <2>3. ~Fires(rule, s)
      BY <1>5, <2>2 DEF Fires, MissingBackup
    <2> QED
      BY <2>3 DEF s
  <1>6. CASE rule = "app.repeated_errors"
    <2>1. ActionOf[rule] = "restart_unhealthy_service"
      BY <1>1, <1>6, ActionsNamed
    <2>2. s.errorRate \in Nat /\ s.errorRate <= 10
      BY <2>1 DEF Applied, ResourceType
    <2> HIDE DEF s
    <2>3. ~Fires(rule, s)
      BY <1>6, <2>2 DEF Fires, RepeatedErrors
    <2> QED
      BY <2>3 DEF s
  <1> QED
    BY <1>2, <1>3, <1>4, <1>5, <1>6 DEF Curable

-----------------------------------------------------------------------------
(* Places, and the order in which a run stores what it found.              *)

LEMMA LastTyped ==
  /\ Len(Order) \in Nat
  /\ Last \in Nat
  /\ Last = Len(Order) * 9
  /\ Places \subseteq Nat
  BY InventoryAssumption, RulesNamed DEF Last, Places

LEMMA PlaceTyped ==
  ASSUME NEW p \in Places
  PROVE  ResourceAt(p) \in DOMAIN Inventory /\ RuleAt(p) \in RuleNames
  <1>1. p \in Nat /\ 1 <= p /\ p <= Len(Order) * 9
    BY LastTyped DEF Places
  <1>2. ((p - 1) \div 9) + 1 \in 1 .. Len(Order) /\ ((p - 1) % 9) + 1 \in 1 .. 9
    BY <1>1, LastTyped
  <1>3. Order \in Seq(DOMAIN Inventory)
    BY InventoryAssumption
  <1>4. Order[((p - 1) \div 9) + 1] \in DOMAIN Inventory
    BY <1>2, <1>3
  <1> QED
    BY <1>2, <1>4, RulesNamed DEF ResourceAt, RuleAt

LEMMA LeastExists ==
  ASSUME NEW S, S \subseteq Nat, S # {}
  PROVE  \E q \in S : \A o \in S : q <= o
  <1>1. PICK q \in S : \A o \in S : ~(<<o, q>> \in OpToRel(<, Nat))
    BY NatLessThanWellFounded, WFMin
  <1>2. ASSUME NEW o \in S
        PROVE  q <= o
    <2>1. <<o, q>> \in Nat \X Nat /\ <<o, q>>[1] = o /\ <<o, q>>[2] = q
      OBVIOUS
    <2>2. ~(o < q)
      BY <1>1, <2>1 DEF OpToRel
    <2> QED
      BY <2>1, <2>2
  <1> QED
    BY <1>2

LEMMA FromIsNext ==
  ASSUME run \in [Attempts -> RunType], NEW n \in Attempts,
         NEW p \in Nat, p <= Last + 1
  PROVE  /\ From(n, p) \in Places \cup {Last + 1}
         /\ From(n, p) \in run[n].report \cup {Last + 1}
         /\ From(n, p) \in Nat
         /\ From(n, p) >= p
         /\ \A q \in run[n].report : q >= p => q >= From(n, p)
  <1> DEFINE rest == {q \in run[n].report : q >= p}
  <1>1. run[n].report \subseteq Places
    BY DEF RunType
  <1>2. CASE rest = {}
    BY <1>2, LastTyped DEF From
  <1>3. CASE rest # {}
    <2>1. rest \subseteq Nat
      BY <1>1, LastTyped
    <2>2. \E q \in rest : \A o \in rest : q <= o
      BY <1>3, <2>1, LeastExists
    <2>3. From(n, p) = CHOOSE q \in rest : \A o \in rest : q <= o
      BY <1>3 DEF From
    <2>4. From(n, p) \in rest /\ \A o \in rest : From(n, p) <= o
      BY <2>2, <2>3
    <2> QED
      BY <1>1, <2>1, <2>4
  <1> QED
    BY <1>2, <1>3

LEMMA IntervalSize ==
  ASSUME NEW k \in Nat
  PROVE  IsFiniteSet(1 .. k) /\ Cardinality(1 .. k) = k
  <1>1. 1 \in Int /\ k \in Int
    OBVIOUS
  <1>2. Cardinality(1 .. k) = IF 1 > k THEN 0 ELSE k - 1 + 1
    BY <1>1, FS_Interval
  <1>3. (IF 1 > k THEN 0 ELSE k - 1 + 1) = k
    OBVIOUS
  <1> QED
    BY <1>1, <1>2, <1>3, FS_Interval

LEMMA ReportSize ==
  ASSUME NEW R, R \subseteq Places
  PROVE  IsFiniteSet(R) /\ Cardinality(R) \in 0 .. Last
  <1>1. IsFiniteSet(Places) /\ Cardinality(Places) <= Last
    BY IntervalSize, LastTyped DEF Places
  <1>2. IsFiniteSet(R) /\ Cardinality(R) <= Cardinality(Places)
    BY <1>1, FS_Subset
  <1>3. Cardinality(R) \in Nat /\ Cardinality(Places) \in Nat
    BY <1>1, <1>2, FS_CardinalityType
  <1> QED
    BY <1>1, <1>2, <1>3, LastTyped

LEMMA ScopeSize ==
  ASSUME NEW scope \in Scopes
  PROVE  Cardinality(scope) \in 0 .. Len(Order)
  <1> DEFINE D == 1 .. Len(Order)
  <1>1. IsFiniteSet(D) /\ Cardinality(D) = Len(Order)
    BY LastTyped, IntervalSize
  <1>2. Order \in [D -> DOMAIN Inventory] /\ DOMAIN Order = D
    BY InventoryAssumption
  <1>3. Order \in Surjection(D, DOMAIN Inventory)
    BY <1>2, InventoryAssumption DEF Surjection
  <1>4. IsFiniteSet(DOMAIN Inventory)
          /\ Cardinality(DOMAIN Inventory) <= Len(Order)
    BY <1>1, <1>3, FS_Surjection DEF ExistsSurjection
  <1>5. IsFiniteSet(scope) /\ Cardinality(scope) <= Cardinality(DOMAIN Inventory)
    BY <1>4, InventoryAssumption, FS_Subset
  <1> QED
    BY <1>4, <1>5, FS_CardinalityType, LastTyped

-----------------------------------------------------------------------------
(* What the steps of an attempt make of the runs.                          *)

Pcs == {"waiting", "claimed", "analyzing", "finding", "recommending",
        "checking", "over"}

\* A step of attempt n leaves the others alone.
Others(n) == \A m \in Attempts \ {n} : run'[m] = run[m]

LEMMA GotoMoves ==
  ASSUME run \in [Attempts -> RunType], NEW n \in Attempts, NEW pc \in Pcs,
         Goto(n, pc)
  PROVE  /\ run' \in [Attempts -> RunType]
         /\ run'[n].pc = pc
         /\ run'[n].report = run[n].report
         /\ run'[n].at = run[n].at
         /\ run'[n].abandoned = run[n].abandoned
         /\ Others(n)
  BY DEF Goto, RunType, Pcs, Others

LEMMA LoadMoves ==
  ASSUME run \in [Attempts -> RunType], NEW n \in Attempts, Load(n)
  PROVE  /\ run' \in [Attempts -> RunType]
         /\ run'[n].pc = "analyzing"
         /\ run'[n].at = run[n].at
         /\ run'[n].abandoned = run[n].abandoned
         /\ Others(n)
  <1> DEFINE report == {p \in Places : /\ ResourceAt(p) \in job.scope
                                      /\ Fires(RuleAt(p), resource[ResourceAt(p)])}
  <1>1. report \subseteq Places
    OBVIOUS
  <1>2. run' = [run EXCEPT ![n] = [run[n] EXCEPT !.pc = "analyzing",
                                                 !.report = report]]
    BY DEF Load
  <1> HIDE DEF report
  <1> QED
    BY <1>1, <1>2 DEF RunType, Others

LEMMA FindMoves ==
  ASSUME run \in [Attempts -> RunType], NEW n \in Attempts,
         NEW p \in Nat, p <= Last + 1,
         run' = [run EXCEPT ![n].pc = "finding", ![n].at = From(n, p)]
  PROVE  /\ run' \in [Attempts -> RunType]
         /\ run'[n].pc = "finding"
         /\ run'[n].report = run[n].report
         /\ run'[n].at = From(n, p)
         /\ run'[n].abandoned = run[n].abandoned
         /\ Others(n)
  <1>1. From(n, p) \in Places \cup {Last + 1}
    BY FromIsNext
  <1>2. run' = [run EXCEPT ![n] = [run[n] EXCEPT !.pc = "finding", !.at = From(n, p)]]
    OBVIOUS
  <1> QED
    BY <1>1, <1>2 DEF RunType, Others

LEMMA TimeOutMoves ==
  ASSUME run \in [Attempts -> RunType], NEW n \in Attempts, TimeOut(n)
  PROVE  /\ run' \in [Attempts -> RunType]
         /\ run'[n].pc = run[n].pc
         /\ run'[n].report = run[n].report
         /\ run'[n].at = run[n].at
         /\ run'[n].abandoned = TRUE
         /\ Others(n)
  BY DEF TimeOut, RunType, Others

LEMMA JobFailsMoves ==
  ASSUME job \in JobType, NEW n \in Attempts, JobFails(n)
  PROVE  /\ job' \in JobType
         /\ job'.attempts = job.attempts
         /\ job'.created = job.created
         /\ job'.by = job.by
         /\ run[n].abandoned => job'.status = job.status
         /\ ~run[n].abandoned => job'.status \in {"pending", "dead_lettered"}
  BY DEF JobFails, JobType

LEMMA FinishMoves ==
  ASSUME TypeOK, NEW n \in Attempts, Finish(n)
  PROVE  /\ job' \in JobType
         /\ job'.attempts = job.attempts
         /\ run[n].abandoned => job' = job
         /\ ~run[n].abandoned => /\ job'.status = "completed"
                                 /\ job'.created = Cardinality(run[n].report)
                                 /\ job'.by = n
  <1>1. run[n].report \subseteq Places
    BY DEF TypeOK, RunType
  <1>2. Cardinality(run[n].report) \in 0 .. Last
    BY <1>1, ReportSize
  <1>3. n \in 0 .. MaxAttempts
    BY BoundAssumption DEF Attempts
  <1>4. job \in JobType /\ Cardinality(job.scope) \in 0 .. Len(Order)
    BY ScopeSize DEF TypeOK, JobType
  <1> QED
    BY <1>2, <1>3, <1>4 DEF JobType, Finish

-----------------------------------------------------------------------------
(* Type correctness.                                                       *)

\* Whoever stores something is at a place.
AtPlaces ==
    \A n \in Attempts :
        run[n].pc \in {"recommending", "checking"} => run[n].at \in Places

TypeInv == TypeOK /\ AtPlaces

LEMMA InitTypeInv == Init => TypeInv
  <1> SUFFICES ASSUME Init
               PROVE  TypeInv
    OBVIOUS
  <1>1. 1 \in Places \cup {Last + 1} /\ Last \in Nat
    BY LastTyped DEF Places
  <1>2. run \in [Attempts -> RunType]
    BY <1>1 DEF Init, RunType
  <1>3. job \in JobType
    BY <1>1, LastTyped, BoundAssumption DEF Init, JobType
  <1> QED
    BY <1>2, <1>3, InventoryAssumption, BoundAssumption
    DEF Init, TypeInv, TypeOK, AtPlaces

LEMMA NextTypeInv == TypeInv /\ [Next]_vars => TypeInv'
  <1> SUFFICES ASSUME TypeInv, [Next]_vars
               PROVE  TypeInv'
    OBVIOUS
  <1>0. TypeOK /\ AtPlaces /\ run \in [Attempts -> RunType] /\ job \in JobType
    BY DEF TypeInv, TypeOK
  <1>1. CASE UNCHANGED vars
    BY <1>0, <1>1 DEF vars, TypeInv, TypeOK, AtPlaces
  <1>2. ASSUME NEW n \in Attempts, Claim(n)
        PROVE  TypeInv'
    <2>1. job' \in JobType
      <3>1. n \in 0 .. MaxAttempts
        BY BoundAssumption DEF Attempts
      <3> QED
        BY <1>0, <1>2, <3>1 DEF Claim, JobType
    <2> QED
      BY <1>0, <1>2, <2>1, GotoMoves DEF Claim, Pcs, TypeInv, TypeOK, AtPlaces, Others
  <1>3. ASSUME NEW n \in Attempts, Load(n)
        PROVE  TypeInv'
    <2>1. UNCHANGED <<resource, finding, recommendation, checks, job, fixes>>
      BY <1>3 DEF Load
    <2> QED
      BY <1>0, <1>3, <2>1, LoadMoves DEF TypeInv, TypeOK, AtPlaces, Others
  <1>4. ASSUME NEW n \in Attempts, Analyze(n)
        PROVE  TypeInv'
    <2>1. 1 \in Nat /\ 1 <= Last + 1
      BY LastTyped
    <2> QED
      BY <1>0, <1>4, <2>1, FindMoves DEF Analyze, TypeInv, TypeOK, AtPlaces, Others
  <1>5. ASSUME NEW n \in Attempts, StoreFinding(n)
        PROVE  TypeInv'
    <2>1. run[n].at \in Places
      BY <1>0, <1>5, LastTyped DEF StoreFinding, AllStored, RunType
    <2> QED
      BY <1>0, <1>5, <2>1, GotoMoves
      DEF StoreFinding, Pcs, TypeInv, TypeOK, AtPlaces, Others
  <1>6. ASSUME NEW n \in Attempts, StoreRecommendation(n)
        PROVE  TypeInv'
    <2>1. run[n].at \in Places
      BY <1>0, <1>6 DEF StoreRecommendation, At, AtPlaces
    <2> QED
      BY <1>0, <1>6, <2>1, GotoMoves
      DEF StoreRecommendation, Pcs, TypeInv, TypeOK, AtPlaces, Others
  <1>7. ASSUME NEW n \in Attempts, StoreCheck(n)
        PROVE  TypeInv'
    <2>1. run[n].at \in Places
      BY <1>0, <1>7 DEF StoreCheck, At, AtPlaces
    <2>2. run[n].at + 1 \in Nat /\ run[n].at + 1 <= Last + 1
      BY <2>1, LastTyped DEF Places
    <2>3. checks' \in [Places -> Nat]
      BY <1>0, <1>7, <2>1 DEF StoreCheck, TypeOK
    <2> QED
      BY <1>0, <1>7, <2>2, <2>3, FindMoves
      DEF StoreCheck, TypeInv, TypeOK, AtPlaces, Others
  <1>8. ASSUME NEW n \in Attempts, Finish(n)
        PROVE  TypeInv'
    <2>1. UNCHANGED <<resource, finding, recommendation, checks, fixes>>
            /\ Goto(n, "over")
      BY <1>8 DEF Finish
    <2> QED
      BY <1>0, <1>8, <2>1, GotoMoves, FinishMoves
      DEF Pcs, TypeInv, TypeOK, AtPlaces, Others
  <1>9. ASSUME NEW n \in Attempts, Break(n)
        PROVE  TypeInv'
    BY <1>0, <1>9, GotoMoves, JobFailsMoves
    DEF Break, Pcs, TypeInv, TypeOK, AtPlaces, Others
  <1>10. ASSUME NEW n \in Attempts, TimeOut(n)
         PROVE  TypeInv'
    <2>1. UNCHANGED <<resource, finding, recommendation, checks, fixes>>
            /\ JobFails(n)
      BY <1>10 DEF TimeOut
    <2> QED
      BY <1>0, <1>10, <2>1, TimeOutMoves, JobFailsMoves
      DEF TypeInv, TypeOK, AtPlaces, Others
  <1>11. ASSUME NEW p \in Places, Remediate(p)
         PROVE  TypeInv'
    <2>1. ResourceAt(p) \in DOMAIN Inventory /\ RuleAt(p) \in RuleNames
      BY PlaceTyped
    <2>2. ActionOf[RuleAt(p)] \in Allowlisted
      BY <1>11, <2>1, ActionsAllowed DEF Remediate
    <2>3. resource[ResourceAt(p)] \in ResourceType
      BY <1>0, <2>1 DEF TypeOK
    <2>4. Applied(ActionOf[RuleAt(p)], resource[ResourceAt(p)]) \in ResourceType
      BY <2>2, <2>3, AppliedTyped
    <2>5. resource' \in [DOMAIN Inventory -> ResourceType]
      BY <1>0, <1>11, <2>1, <2>4 DEF Remediate, TypeOK
    <2>6. fixes' \in 0 .. MaxFixes
      BY <1>0, <1>11, BoundAssumption DEF Remediate, TypeOK
    <2> QED
      BY <1>0, <1>11, <2>5, <2>6 DEF Remediate, TypeInv, TypeOK, AtPlaces
  <1>12. ASSUME NEW r \in DOMAIN Inventory, Sync(r)
         PROVE  TypeInv'
    <2>1. resource' \in [DOMAIN Inventory -> ResourceType]
      <3>1. PICK d \in Descriptions[r] \ {resource[r]} : resource' = [resource EXCEPT ![r] = d]
        BY <1>12 DEF Sync
      <3>2. d \in ResourceType
        BY <3>1, InventoryAssumption
      <3> QED
        BY <1>0, <3>1, <3>2 DEF TypeOK
    <2> QED
      BY <1>0, <1>12, <2>1 DEF Sync, TypeInv, TypeOK, AtPlaces
  <1> QED
    BY <1>1, <1>2, <1>3, <1>4, <1>5, <1>6, <1>7, <1>8, <1>9, <1>10, <1>11, <1>12
    DEF Next

\* Every reachable state satisfies the inductive invariant of the types.
LEMMA TypeInvHolds == Spec => []TypeInv
  BY InitTypeInv, NextTypeInv, PTL DEF Spec

\* Every document and every run keeps its type; in particular the job has only
\* the statuses that claim, complete and fail give it, and the counts of its
\* summary are those of the inventory.
THEOREM TypeCorrect == Spec => []TypeOK
  <1>1. TypeInv => TypeOK
    BY DEF TypeInv
  <1> QED
    BY <1>1, TypeInvHolds, PTL

-----------------------------------------------------------------------------
(* Remediations.                                                           *)

LEMMA RemediateHelps ==
  ASSUME TypeOK, NEW p \in Places, Remediate(p)
  PROVE  /\ RuleAt(p) \in Curable => ~Fires(RuleAt(p), resource'[ResourceAt(p)])
         /\ \A i \in 1 .. Len(Rules) :
               Fires(Rules[i], resource'[ResourceAt(p)]) =>
                  Fires(Rules[i], resource[ResourceAt(p)])
  <1> DEFINE r == ResourceAt(p)
  <1>1. r \in DOMAIN Inventory /\ RuleAt(p) \in RuleNames
    BY PlaceTyped
  <1>2. resource[r] \in ResourceType
    BY <1>1 DEF TypeOK
  <1>3. ActionOf[RuleAt(p)] \in Allowlisted
    BY <1>1, ActionsAllowed DEF Remediate
  <1>4. resource'[r] = Applied(ActionOf[RuleAt(p)], resource[r])
    BY <1>1 DEF Remediate, TypeOK
  <1>5. RuleAt(p) \in Curable => ~Fires(RuleAt(p), resource'[r])
    BY <1>2, <1>4, AppliedClears
  <1>6. ASSUME NEW i \in 1 .. Len(Rules), Fires(Rules[i], resource'[r])
        PROVE  Fires(Rules[i], resource[r])
    <2>1. Rules[i] \in RuleNames
      BY RulesNamed
    <2> QED
      BY <1>2, <1>3, <1>4, <1>6, <2>1, AppliedHarmless
  <1> QED
    BY <1>5, <1>6

\* On any inventory, and however resources have changed since they were
\* analyzed: a simulated execution of what a curable finding recommends clears
\* it, and no action of applySimulatedAction makes a rule of engine.py fire.
THEOREM RemediationsHelp == Spec => RemediationHelps
  <1>1. TypeOK /\ [Next]_vars =>
          [\A p \in Places : Remediate(p) =>
             LET r == ResourceAt(p)
             IN  /\ RuleAt(p) \in Curable => ~Fires(RuleAt(p), resource'[r])
                 /\ \A i \in 1 .. Len(Rules) :
                       Fires(Rules[i], resource'[r]) => Fires(Rules[i], resource[r])]_vars
    BY RemediateHelps
  <1> QED
    BY <1>1, TypeCorrect, PTL DEF Spec, RemediationHelps

-----------------------------------------------------------------------------
(* Completed jobs.                                                         *)

\* All that belongs to a finding is there.
Stored(q) == q \in finding /\ q \in recommendation /\ checks[q] > 0

\* A run has stored what is before its place, and of its place what its pc says.
Stores(n) ==
    /\ run[n].pc \in {"finding", "recommending", "checking"} =>
          \A q \in run[n].report : q < run[n].at => Stored(q)
    /\ run[n].pc \in {"recommending", "checking"} => run[n].at \in finding
    /\ run[n].pc = "checking" => run[n].at \in recommendation

RunsStore == \A n \in Attempts : Stores(n)

\* The only run whose end the job still waits for is its last attempt's.
OneAwaited ==
    /\ \A n \in Attempts : n > job.attempts => run[n].pc = "waiting"
    /\ \A n \in Attempts :
          run[n].pc \notin {"waiting", "over"} /\ ~run[n].abandoned =>
             job.status = "running" /\ n = job.attempts

\* The job is completed by a run that came to its end.
CompletedBy ==
    /\ job.by \in Attempts => run[job.by].pc = "over" /\ AllStored(job.by)
    /\ job.status = "completed" =>
          /\ job.by \in Attempts
          /\ job.created = Cardinality(run[job.by].report)
          /\ \A q \in run[job.by].report : Stored(q)

WholeInv == TypeInv /\ RunsStore /\ OneAwaited /\ CompletedBy

LEMMA InitWholeInv == Init => WholeInv
  <1> SUFFICES ASSUME Init
               PROVE  WholeInv
    OBVIOUS
  <1>1. TypeInv
    BY InitTypeInv
  <1>2. RunsStore /\ OneAwaited
    BY DEF Init, RunsStore, Stores, OneAwaited
  <1>3. CompletedBy
    BY DEF Init, CompletedBy, Attempts
  <1> QED
    BY <1>1, <1>2, <1>3 DEF WholeInv

\* Documents are added and never taken away.
LEMMA DocumentsStay ==
  ASSUME [Next]_vars
  PROVE  finding \subseteq finding' /\ recommendation \subseteq recommendation'
  BY DEF Next, vars, Claim, Load, Analyze, StoreFinding, StoreRecommendation,
         StoreCheck, Finish, Break, TimeOut, Remediate, Sync

LEMMA StoredStays ==
  ASSUME TypeInv, [Next]_vars, NEW q \in Places, Stored(q)
  PROVE  Stored(q)'
  <1>1. finding \subseteq finding' /\ recommendation \subseteq recommendation'
    BY DocumentsStay
  <1>2. checks'[q] > 0
    <2>1. CASE UNCHANGED checks
      BY <2>1 DEF Stored
    <2>2. ASSUME NEW n \in Attempts, StoreCheck(n)
          PROVE  checks'[q] > 0
      BY <2>2 DEF StoreCheck, TypeInv, TypeOK, Stored
    <2> QED
      BY <2>1, <2>2
      DEF Next, vars, Claim, Load, Analyze, StoreFinding, StoreRecommendation,
          Finish, Break, TimeOut, Remediate, Sync
  <1> QED
    BY <1>1, <1>2 DEF Stored

\* A step of one run does not disturb the others.
LEMMA OthersStore ==
  ASSUME TypeInv, RunsStore, [Next]_vars, NEW n \in Attempts, Others(n),
         NEW m \in Attempts, m # n
  PROVE  Stores(m)'
  <1>1. run'[m] = run[m]
    BY DEF Others
  <1>2. finding \subseteq finding' /\ recommendation \subseteq recommendation'
    BY DocumentsStay
  <1>3. run[m].report \subseteq Places
    BY DEF TypeInv, TypeOK, RunType
  <1> QED
    BY <1>1, <1>2, <1>3, StoredStays DEF RunsStore, Stores

LEMMA RunsStoreStep == TypeInv /\ RunsStore /\ [Next]_vars => RunsStore'
  <1> SUFFICES ASSUME TypeInv, RunsStore, [Next]_vars
               PROVE  RunsStore'
    OBVIOUS
  <1>0. run \in [Attempts -> RunType]
    BY DEF TypeInv, TypeOK
  <1>1. CASE UNCHANGED <<finding, recommendation, checks, run>>
    BY <1>1 DEF RunsStore, Stores, Stored
  \* Of an attempt that steps only its own promise is left to show.
  <1>2. ASSUME NEW n \in Attempts, Others(n), Stores(n)'
        PROVE  RunsStore'
    BY <1>2, OthersStore DEF RunsStore
  <1>3. ASSUME NEW n \in Attempts, Goto(n, "claimed") \/ Goto(n, "over")
        PROVE  RunsStore'
    <2>1. run'[n].pc \in {"claimed", "over"} /\ Others(n)
      BY <1>0, <1>3, GotoMoves DEF Pcs
    <2> QED
      BY <1>2, <2>1 DEF Stores
  <1>4. ASSUME NEW n \in Attempts, Load(n)
        PROVE  RunsStore'
    <2>1. run'[n].pc = "analyzing" /\ Others(n)
      BY <1>0, <1>4, LoadMoves
    <2> QED
      BY <1>2, <2>1 DEF Stores
  <1>5. ASSUME NEW n \in Attempts, Analyze(n)
        PROVE  RunsStore'
    <2>1. 1 \in Nat /\ 1 <= Last + 1
      BY LastTyped
    <2>2. /\ run'[n].pc = "finding" /\ run'[n].report = run[n].report
          /\ run'[n].at = From(n, 1) /\ Others(n)
      BY <1>0, <1>5, <2>1, FindMoves DEF Analyze
    <2>3. ASSUME NEW q \in run[n].report
          PROVE  ~(q < From(n, 1))
      <3>1. q \in Places /\ q >= 1
        BY <1>0 DEF RunType, Places
      <3>2. q >= From(n, 1) /\ From(n, 1) \in Nat
        BY <1>0, <2>1, <3>1, FromIsNext
      <3> QED
        BY <3>1, <3>2, LastTyped
    <2> QED
      BY <1>2, <2>2, <2>3 DEF Stores
  <1>6. ASSUME NEW n \in Attempts, StoreFinding(n)
        PROVE  RunsStore'
    <2>1. /\ run'[n].pc = "recommending" /\ run'[n].report = run[n].report
          /\ run'[n].at = run[n].at /\ Others(n)
      BY <1>0, <1>6, GotoMoves DEF StoreFinding, Pcs
    <2>2. \A q \in run[n].report : q < run[n].at => Stored(q)
      BY <1>6 DEF StoreFinding, At, RunsStore, Stores
    <2>3. \A q \in run[n].report : q < run[n].at => Stored(q)'
      BY <1>0, <2>2, StoredStays DEF RunType
    <2>4. run[n].at \in finding'
      BY <1>6 DEF StoreFinding
    <2> QED
      BY <1>2, <2>1, <2>3, <2>4 DEF Stores
  <1>7. ASSUME NEW n \in Attempts, StoreRecommendation(n)
        PROVE  RunsStore'
    <2>1. /\ run'[n].pc = "checking" /\ run'[n].report = run[n].report
          /\ run'[n].at = run[n].at /\ Others(n)
      BY <1>0, <1>7, GotoMoves DEF StoreRecommendation, Pcs
    <2>2. /\ \A q \in run[n].report : q < run[n].at => Stored(q)
          /\ run[n].at \in finding
      BY <1>7 DEF StoreRecommendation, At, RunsStore, Stores
    <2>3. \A q \in run[n].report : q < run[n].at => Stored(q)'
      BY <1>0, <2>2, StoredStays DEF RunType
    <2>4. run[n].at \in finding' /\ run[n].at \in recommendation'
      BY <1>7, <2>2 DEF StoreRecommendation
    <2> QED
      BY <1>2, <2>1, <2>3, <2>4 DEF Stores
  <1>8. ASSUME NEW n \in Attempts, StoreCheck(n)
        PROVE  RunsStore'
    <2>1. PICK at \in Places : at = run[n].at
      BY <1>8 DEF StoreCheck, At, TypeInv, AtPlaces
    <2>2. at \in Nat /\ at + 1 \in Nat /\ at + 1 <= Last + 1
      BY LastTyped DEF Places
    <2>3. /\ run'[n].pc = "finding" /\ run'[n].report = run[n].report
          /\ run'[n].at = From(n, at + 1) /\ Others(n)
      BY <1>0, <1>8, <2>1, <2>2, FindMoves DEF StoreCheck
    <2>4. /\ \A q \in run[n].report : q < at => Stored(q)
          /\ at \in finding /\ at \in recommendation
      BY <1>8, <2>1 DEF StoreCheck, At, RunsStore, Stores
    <2>5. \A q \in run[n].report : q < at => Stored(q)'
      BY <1>0, <2>4, StoredStays DEF RunType
    <2>6. Stored(at)'
      <3>1. checks[at] \in Nat /\ checks'[at] = checks[at] + 1
        BY <1>8, <2>1 DEF StoreCheck, TypeInv, TypeOK
      <3>2. finding' = finding /\ recommendation' = recommendation
        BY <1>8 DEF StoreCheck
      <3> QED
        BY <2>4, <3>1, <3>2 DEF Stored
    <2>7. ASSUME NEW q \in run[n].report, q < From(n, at + 1)
          PROVE  q < at \/ q = at
      <3>1. q \in Nat
        BY <1>0, LastTyped DEF RunType
      <3>2. /\ From(n, at + 1) \in Nat
            /\ q >= at + 1 => q >= From(n, at + 1)
        BY <1>0, <2>2, FromIsNext
      <3> QED
        BY <2>2, <2>7, <3>1, <3>2
    <2> QED
      BY <1>2, <2>3, <2>5, <2>6, <2>7 DEF Stores
  <1>9. ASSUME NEW n \in Attempts, TimeOut(n)
        PROVE  RunsStore'
    <2>1. /\ run'[n].pc = run[n].pc /\ run'[n].report = run[n].report
          /\ run'[n].at = run[n].at /\ Others(n)
      BY <1>0, <1>9, TimeOutMoves
    <2>2. UNCHANGED <<finding, recommendation, checks>>
      BY <1>9 DEF TimeOut
    <2>3. Stores(n)
      BY DEF RunsStore
    <2> QED
      BY <1>2, <2>1, <2>2, <2>3 DEF Stores, Stored
  <1> QED
    BY <1>1, <1>3, <1>4, <1>5, <1>6, <1>7, <1>8, <1>9
    DEF Next, vars, Claim, Finish, Break, Remediate, Sync

\* A step between two calls of a run that goes on.
LEMMA GoesOn ==
  ASSUME TypeInv, NEW n \in Attempts,
         \/ Load(n) \/ Analyze(n) \/ StoreFinding(n)
         \/ StoreRecommendation(n) \/ StoreCheck(n)
  PROVE  /\ run[n].pc \notin {"waiting", "over"}
         /\ run'[n].pc \notin {"waiting", "over"}
         /\ run'[n].abandoned = run[n].abandoned
         /\ Others(n)
         /\ job' = job
  <1>0. run \in [Attempts -> RunType] /\ 1 \in Nat /\ 1 <= Last + 1
    BY LastTyped DEF TypeInv, TypeOK
  <1>1. CASE Load(n)
    BY <1>0, <1>1, LoadMoves DEF Load, At
  <1>2. CASE Analyze(n)
    BY <1>0, <1>2, FindMoves DEF Analyze, At
  <1>3. CASE StoreFinding(n)
    BY <1>0, <1>3, GotoMoves DEF StoreFinding, At, Pcs
  <1>4. CASE StoreRecommendation(n)
    BY <1>0, <1>4, GotoMoves DEF StoreRecommendation, At, Pcs
  <1>5. CASE StoreCheck(n)
    <2>1. run[n].at + 1 \in Nat /\ run[n].at + 1 <= Last + 1
      BY <1>5, LastTyped DEF StoreCheck, At, TypeInv, AtPlaces, Places
    <2> QED
      BY <1>0, <1>5, <2>1, FindMoves DEF StoreCheck, At
  <1> QED
    BY <1>1, <1>2, <1>3, <1>4, <1>5

\* A step that ends an attempt, or gives it up.
LEMMA GivesUp ==
  ASSUME TypeInv, NEW n \in Attempts, Finish(n) \/ Break(n) \/ TimeOut(n)
  PROVE  /\ run[n].pc \notin {"waiting", "over"}
         /\ run'[n].pc = "over" \/ (run'[n].pc = run[n].pc /\ run'[n].abandoned)
         /\ run'[n].report = run[n].report
         /\ run'[n].at = run[n].at
         /\ Others(n)
         /\ job'.attempts = job.attempts
         /\ run[n].abandoned => job'.status = job.status
  <1>0. TypeOK /\ run \in [Attempts -> RunType] /\ job \in JobType
    BY DEF TypeInv, TypeOK
  <1>1. CASE Finish(n)
    BY <1>0, <1>1, GotoMoves, FinishMoves DEF Finish, At, Pcs
  <1>2. CASE Break(n)
    BY <1>0, <1>2, GotoMoves, JobFailsMoves DEF Break, Pcs
  <1>3. CASE TimeOut(n)
    <2>1. JobFails(n) /\ run[n].pc \notin {"waiting", "over"}
      BY <1>3 DEF TimeOut
    <2> QED
      BY <1>0, <1>3, <2>1, TimeOutMoves, JobFailsMoves
  <1> QED
    BY <1>1, <1>2, <1>3

LEMMA OneAwaitedStep == TypeInv /\ OneAwaited /\ [Next]_vars => OneAwaited'
  <1> SUFFICES ASSUME TypeInv, OneAwaited, [Next]_vars
               PROVE  OneAwaited'
    OBVIOUS
  <1>0. run \in [Attempts -> RunType] /\ job \in JobType /\ Attempts \subseteq Nat
    BY DEF TypeInv, TypeOK, Attempts
  <1>1. CASE UNCHANGED <<job, run>>
    BY <1>1 DEF OneAwaited
  <1>2. ASSUME NEW n \in Attempts, Claim(n)
        PROVE  OneAwaited'
    <2>1. run'[n].pc = "claimed" /\ Others(n)
      BY <1>0, <1>2, GotoMoves DEF Claim, Pcs
    <2>2. job'.status = "running" /\ job'.attempts = n
      BY <1>0, <1>2 DEF Claim, JobType
    <2>3. ASSUME NEW m \in Attempts
          PROVE  run[m].pc \in {"waiting", "over"} \/ run[m].abandoned
      BY <1>2 DEF Claim, OneAwaited
    <2>4. ASSUME NEW m \in Attempts, m > n
          PROVE  run'[m].pc = "waiting"
      <3>1. m # n /\ m > job.attempts
        BY <1>0, <1>2, <2>4 DEF Claim, JobType
      <3> QED
        BY <2>1, <3>1 DEF Others, OneAwaited
    <2> QED
      BY <2>1, <2>2, <2>3, <2>4 DEF Others, OneAwaited
  <1>3. ASSUME NEW n \in Attempts,
               \/ Load(n) \/ Analyze(n) \/ StoreFinding(n)
               \/ StoreRecommendation(n) \/ StoreCheck(n)
        PROVE  OneAwaited'
    BY <1>3, GoesOn DEF OneAwaited, Others
  <1>4. ASSUME NEW n \in Attempts, Finish(n) \/ Break(n) \/ TimeOut(n)
        PROVE  OneAwaited'
    <2>1. CASE run[n].abandoned
      <3>1. run'[n].abandoned \/ run'[n].pc = "over"
        BY <1>4, GivesUp
      <3> QED
        BY <1>4, <2>1, <3>1, GivesUp DEF OneAwaited, Others
    <2>2. CASE ~run[n].abandoned
      <3>1. n = job.attempts
        BY <1>4, <2>2, GivesUp DEF OneAwaited
      <3>2. ASSUME NEW m \in Attempts, m # n
            PROVE  run'[m].pc \in {"waiting", "over"} \/ run'[m].abandoned
        BY <1>4, <3>1, <3>2, GivesUp DEF OneAwaited, Others
      <3>3. run'[n].pc = "over" \/ run'[n].abandoned
        BY <1>4, GivesUp
      <3>4. ASSUME NEW m \in Attempts, m > job'.attempts
            PROVE  run'[m].pc = "waiting"
        <4>1. m # n /\ m > job.attempts
          BY <1>0, <1>4, <3>1, <3>4, GivesUp
        <4> QED
          BY <1>4, <4>1, GivesUp DEF OneAwaited, Others
      <3> QED
        BY <3>2, <3>3, <3>4 DEF OneAwaited
    <2> QED
      BY <2>1, <2>2
  <1> QED
    BY <1>1, <1>2, <1>3, <1>4 DEF Next, vars, Remediate, Sync

LEMMA CompletedByStep == WholeInv /\ [Next]_vars => CompletedBy'
  <1> SUFFICES ASSUME WholeInv, [Next]_vars
               PROVE  CompletedBy'
    OBVIOUS
  <1>0. /\ TypeInv /\ TypeOK /\ RunsStore /\ OneAwaited /\ CompletedBy
        /\ run \in [Attempts -> RunType] /\ job \in JobType
    BY DEF WholeInv, TypeInv, TypeOK
  \* What keeps the job and the run that completed it keeps the promise.
  <1>1. ASSUME job'.by = job.by, job'.created = job.created,
               job'.status = "completed" => job.status = "completed",
               job.by \in Attempts => /\ run'[job.by].pc = run[job.by].pc
                                       /\ run'[job.by].report = run[job.by].report
                                       /\ run'[job.by].at = run[job.by].at
        PROVE  CompletedBy'
    <2>1. ASSUME job.by \in Attempts
          PROVE  run'[job.by].pc = "over" /\ run'[job.by].at > Last
      BY <1>0, <1>1, <2>1 DEF CompletedBy, AllStored
    <2>2. ASSUME job'.status = "completed"
          PROVE  /\ job.by \in Attempts
                 /\ job.created = Cardinality(run[job.by].report)
                 /\ \A q \in run[job.by].report : Stored(q)
      BY <1>0, <1>1, <2>2 DEF CompletedBy
    <2>3. ASSUME job'.status = "completed", NEW q \in run[job.by].report
          PROVE  Stored(q)'
      BY <1>0, <2>2, <2>3, StoredStays DEF RunType
    <2> QED
      BY <1>1, <2>1, <2>2, <2>3 DEF CompletedBy, AllStored
  <1>2. CASE UNCHANGED <<job, run>>
    BY <1>1, <1>2
  <1>3. ASSUME NEW n \in Attempts, Claim(n)
        PROVE  CompletedBy'
    <2>1. /\ job'.by = job.by /\ job'.created = job.created
          /\ job'.status = "running" /\ n > job.attempts
      BY <1>0, <1>3 DEF Claim, JobType
    <2>2. job.by # n
      BY <1>0, <2>1 DEF OneAwaited, CompletedBy
    <2>3. Others(n)
      BY <1>0, <1>3, GotoMoves DEF Claim, Pcs
    <2> QED
      BY <1>1, <2>1, <2>2, <2>3 DEF Others
  <1>4. ASSUME NEW n \in Attempts,
               \/ Load(n) \/ Analyze(n) \/ StoreFinding(n)
               \/ StoreRecommendation(n) \/ StoreCheck(n)
        PROVE  CompletedBy'
    <2>1. job.by # n
      BY <1>0, <1>4, GoesOn DEF CompletedBy
    <2> QED
      BY <1>0, <1>1, <1>4, <2>1, GoesOn DEF Others
  <1>5. ASSUME NEW n \in Attempts, Break(n) \/ TimeOut(n)
        PROVE  CompletedBy'
    <2>1. job.by # n /\ Others(n)
      BY <1>0, <1>5, GivesUp DEF CompletedBy
    <2>2. JobFails(n)
      BY <1>5 DEF Break, TimeOut
    <2>3. job'.by = job.by /\ job'.created = job.created
            /\ (job'.status = "completed" => job.status = "completed")
      BY <1>0, <2>2, JobFailsMoves
    <2> QED
      BY <1>1, <2>1, <2>3 DEF Others
  <1>6. ASSUME NEW n \in Attempts, Finish(n)
        PROVE  CompletedBy'
    <2>1. /\ run'[n].pc = "over" /\ run'[n].report = run[n].report
          /\ run'[n].at = run[n].at /\ Others(n) /\ AllStored(n)
          /\ run[n].pc = "finding"
      BY <1>0, <1>6, GotoMoves DEF Finish, At, Pcs
    <2>2. CASE run[n].abandoned
      <3>1. job' = job /\ job.by # n
        BY <1>0, <1>6, <2>1, <2>2, FinishMoves DEF CompletedBy
      <3> QED
        BY <1>1, <2>1, <3>1 DEF Others
    <2>3. CASE ~run[n].abandoned
      <3>1. /\ job'.created = Cardinality(run[n].report) /\ job'.by = n
        BY <1>0, <1>6, <2>3, FinishMoves
      <3>2. ASSUME NEW q \in run[n].report
            PROVE  Stored(q)'
        <4>1. q \in Places /\ q < run[n].at
          BY <1>0, <2>1, LastTyped DEF RunType, AllStored, Places
        <4>2. Stored(q)
          BY <1>0, <2>1, <4>1 DEF RunsStore, Stores
        <4> QED
          BY <1>0, <4>1, <4>2, StoredStays
      <3> QED
        BY <2>1, <3>1, <3>2 DEF CompletedBy, AllStored
    <2> QED
      BY <2>2, <2>3
  <1> QED
    BY <1>2, <1>3, <1>4, <1>5, <1>6 DEF Next, vars, Remediate, Sync

\* Every reachable state satisfies the inductive invariant of completed jobs.
LEMMA WholeInvHolds == Spec => []WholeInv
  <1>1. WholeInv /\ [Next]_vars => WholeInv'
    BY NextTypeInv, RunsStoreStep, OneAwaitedStep, CompletedByStep DEF WholeInv
  <1> QED
    BY <1>1, InitWholeInv, PTL DEF Spec

\* run stores a finding, its recommendation and its check in three calls, and
\* runs that timed out go on writing: whenever the job is completed, every
\* finding its summary counts is stored with all that belongs to it.
THEOREM ReportsAreWhole == Spec => []ReportIsWhole
  <1>1. WholeInv => ReportIsWhole
    BY DEF WholeInv, CompletedBy, ReportIsWhole, Stored
  <1> QED
    BY <1>1, WholeInvHolds, PTL

-----------------------------------------------------------------------------
(* Health checks.                                                          *)

\* A run stands at a finding of its own, once it has looked for one.
AtReport ==
    \A n \in Attempts :
        /\ run[n].pc \in {"waiting", "claimed", "analyzing"} => run[n].at = 1
        /\ run[n].pc \in {"finding", "recommending", "checking"} =>
              run[n].at \in run[n].report \cup {Last + 1}

\* The attempts that are past a finding of theirs.
Past(p) == {n \in Attempts : p \in run[n].report /\ p < run[n].at}

ChecksCounted == \A p \in Places : checks[p] <= Cardinality(Past(p))

CheckInv == WholeInv /\ AtReport /\ ChecksCounted

LEMMA AttemptsFinite == IsFiniteSet(Attempts)
  BY IntervalSize, BoundAssumption DEF Attempts

LEMMA PastFinite ==
  ASSUME NEW p
  PROVE  IsFiniteSet(Past(p)) /\ Cardinality(Past(p)) \in Nat
  <1>1. Past(p) \subseteq Attempts
    BY DEF Past
  <1> QED
    BY <1>1, AttemptsFinite, FS_Subset, FS_CardinalityType

LEMMA InitCheckInv == Init => CheckInv
  <1> SUFFICES ASSUME Init
               PROVE  CheckInv
    OBVIOUS
  <1>1. WholeInv /\ AtReport
    BY InitWholeInv DEF Init, AtReport
  <1>2. ASSUME NEW p \in Places
        PROVE  checks[p] <= Cardinality(Past(p))
    BY PastFinite DEF Init
  <1> QED
    BY <1>1, <1>2 DEF CheckInv, ChecksCounted

LEMMA AtReportStep == WholeInv /\ AtReport /\ [Next]_vars => AtReport'
  <1> SUFFICES ASSUME TypeInv, OneAwaited, AtReport, [Next]_vars
               PROVE  AtReport'
    BY DEF WholeInv
  <1>0. run \in [Attempts -> RunType] /\ 1 \in Nat /\ 1 <= Last + 1
    BY LastTyped DEF TypeInv, TypeOK
  <1>1. CASE UNCHANGED run
    BY <1>1 DEF AtReport
  <1>2. ASSUME NEW n \in Attempts, Claim(n)
        PROVE  AtReport'
    <2>1. run[n].pc = "waiting"
      BY <1>2 DEF Claim, OneAwaited, TypeInv, TypeOK, JobType
    <2> QED
      BY <1>0, <1>2, <2>1, GotoMoves DEF Claim, Pcs, AtReport, Others
  <1>3. ASSUME NEW n \in Attempts, Load(n)
        PROVE  AtReport'
    <2>1. run[n].pc = "claimed"
      BY <1>3 DEF Load, At
    <2> QED
      BY <1>0, <1>3, <2>1, LoadMoves DEF AtReport, Others
  <1>4. ASSUME NEW n \in Attempts, Analyze(n)
        PROVE  AtReport'
    <2>1. /\ run'[n].pc = "finding" /\ run'[n].report = run[n].report
          /\ run'[n].at = From(n, 1) /\ Others(n)
      BY <1>0, <1>4, FindMoves DEF Analyze
    <2>2. From(n, 1) \in run[n].report \cup {Last + 1}
      BY <1>0, FromIsNext
    <2> QED
      BY <2>1, <2>2 DEF AtReport, Others
  <1>5. ASSUME NEW n \in Attempts, StoreFinding(n) \/ StoreRecommendation(n)
        PROVE  AtReport'
    BY <1>0, <1>5, GotoMoves
    DEF StoreFinding, StoreRecommendation, At, Pcs, AtReport, Others
  <1>6. ASSUME NEW n \in Attempts, StoreCheck(n)
        PROVE  AtReport'
    <2>1. run[n].at + 1 \in Nat /\ run[n].at + 1 <= Last + 1
      BY <1>6, LastTyped DEF StoreCheck, At, TypeInv, AtPlaces, Places
    <2>2. /\ run'[n].pc = "finding" /\ run'[n].report = run[n].report
          /\ run'[n].at = From(n, run[n].at + 1) /\ Others(n)
      BY <1>0, <1>6, <2>1, FindMoves DEF StoreCheck
    <2>3. From(n, run[n].at + 1) \in run[n].report \cup {Last + 1}
      BY <1>0, <2>1, FromIsNext
    <2> QED
      BY <2>2, <2>3 DEF AtReport, Others
  <1>7. ASSUME NEW n \in Attempts, Finish(n) \/ Break(n) \/ TimeOut(n)
        PROVE  AtReport'
    BY <1>7, GivesUp DEF AtReport, Others
  <1> QED
    BY <1>1, <1>2, <1>3, <1>4, <1>5, <1>6, <1>7 DEF Next, vars, Remediate, Sync

\* Who is past a finding stays past it.
LEMMA PastStays ==
  ASSUME WholeInv, AtReport, [Next]_vars, NEW p \in Places
  PROVE  Past(p) \subseteq Past(p)'
  <1> SUFFICES ASSUME NEW m \in Attempts, p \in run[m].report, p < run[m].at
               PROVE  p \in run'[m].report /\ p < run'[m].at
    BY DEF Past
  <1>0. TypeInv /\ run \in [Attempts -> RunType] /\ p \in Nat /\ p >= 1
          /\ 1 \in Nat /\ 1 <= Last + 1
    BY LastTyped DEF WholeInv, TypeInv, TypeOK, Places
  <1>1. CASE UNCHANGED run
    BY <1>1
  <1>2. ASSUME NEW n \in Attempts, Claim(n)
        PROVE  p \in run'[m].report /\ p < run'[m].at
    BY <1>0, <1>2, GotoMoves DEF Claim, Pcs, Others
  <1>3. ASSUME NEW n \in Attempts, Load(n)
        PROVE  p \in run'[m].report /\ p < run'[m].at
    <2>1. m # n
      BY <1>0, <1>3 DEF Load, At, AtReport
    <2> QED
      BY <1>0, <1>3, <2>1, LoadMoves DEF Others
  <1>4. ASSUME NEW n \in Attempts, Analyze(n)
        PROVE  p \in run'[m].report /\ p < run'[m].at
    <2>1. m # n
      BY <1>0, <1>4 DEF Analyze, At, AtReport
    <2> QED
      BY <1>0, <1>4, <2>1, FindMoves DEF Analyze, Others
  <1>5. ASSUME NEW n \in Attempts, StoreFinding(n) \/ StoreRecommendation(n)
        PROVE  p \in run'[m].report /\ p < run'[m].at
    BY <1>0, <1>5, GotoMoves DEF StoreFinding, StoreRecommendation, Pcs, Others
  <1>6. ASSUME NEW n \in Attempts, StoreCheck(n)
        PROVE  p \in run'[m].report /\ p < run'[m].at
    <2>1. PICK at \in Nat : at = run[n].at /\ at + 1 \in Nat /\ at + 1 <= Last + 1
      BY <1>0, <1>6, LastTyped DEF StoreCheck, At, TypeInv, AtPlaces, Places
    <2>2. /\ run'[n].report = run[n].report
          /\ run'[n].at = From(n, at + 1) /\ Others(n)
      BY <1>0, <1>6, <2>1, FindMoves DEF StoreCheck
    <2>3. From(n, at + 1) \in Nat /\ From(n, at + 1) >= at + 1
      BY <1>0, <2>1, FromIsNext
    <2>4. CASE m = n
      BY <1>0, <2>1, <2>2, <2>3, <2>4
    <2>5. CASE m # n
      BY <2>2, <2>5 DEF Others
    <2> QED
      BY <2>4, <2>5
  <1>7. ASSUME NEW n \in Attempts, Finish(n) \/ Break(n) \/ TimeOut(n)
        PROVE  p \in run'[m].report /\ p < run'[m].at
    BY <1>0, <1>7, GivesUp DEF Others
  <1> QED
    BY <1>1, <1>2, <1>3, <1>4, <1>5, <1>6, <1>7 DEF Next, vars, Remediate, Sync

LEMMA ChecksCountedStep == CheckInv /\ [Next]_vars => ChecksCounted'
  <1> SUFFICES ASSUME WholeInv, AtReport, ChecksCounted, [Next]_vars,
                      NEW p \in Places
               PROVE  (checks[p] <= Cardinality(Past(p)))'
    BY DEF CheckInv, ChecksCounted
  <1>0. TypeInv /\ TypeOK /\ run \in [Attempts -> RunType] /\ p \in Nat
          /\ checks[p] \in Nat /\ checks[p] <= Cardinality(Past(p))
    BY LastTyped DEF WholeInv, TypeInv, TypeOK, ChecksCounted
  <1>1. PICK before, after : before = Past(p) /\ after = Past(p)'
    OBVIOUS
  <1>2. after \subseteq Attempts /\ before \subseteq after
    BY <1>1, PastStays DEF Past
  <1>3. IsFiniteSet(after) /\ IsFiniteSet(before)
          /\ Cardinality(after) \in Nat /\ Cardinality(before) \in Nat
    BY <1>2, AttemptsFinite, FS_Subset, FS_CardinalityType
  <1>4. Cardinality(before) <= Cardinality(after)
    BY <1>2, <1>3, FS_Subset
  <1>5. CASE checks'[p] = checks[p]
    BY <1>0, <1>1, <1>3, <1>4, <1>5
  <1>6. ASSUME NEW n \in Attempts, StoreCheck(n), run[n].at = p
        PROVE  (checks[p] <= Cardinality(Past(p)))'
    <2>1. checks'[p] = checks[p] + 1
      BY <1>0, <1>6 DEF StoreCheck, TypeOK
    <2>2. n \notin before
      BY <1>0, <1>1, <1>6 DEF Past
    <2>3. n \in after
      <3>1. p \in run[n].report
        BY <1>6, LastTyped DEF StoreCheck, At, AtReport, Places
      <3>2. p + 1 \in Nat /\ p + 1 <= Last + 1
        BY LastTyped DEF Places
      <3>3. run'[n].report = run[n].report /\ run'[n].at = From(n, p + 1)
        BY <1>0, <1>6, <3>2, FindMoves DEF StoreCheck
      <3>4. From(n, p + 1) >= p + 1 /\ From(n, p + 1) \in Nat
        BY <1>0, <3>2, FromIsNext
      <3>5. p < From(n, p + 1)
        BY <1>0, <3>4
      <3> QED
        BY <1>1, <3>1, <3>3, <3>5 DEF Past
    <2>4. Cardinality(before \cup {n}) = Cardinality(before) + 1
      BY <1>3, <2>2, FS_AddElement
    <2>5. Cardinality(before \cup {n}) <= Cardinality(after)
      BY <1>2, <1>3, <2>3, FS_Subset
    <2> QED
      BY <1>0, <1>1, <1>3, <2>1, <2>4, <2>5
  <1>7. ASSUME NEW n \in Attempts, StoreCheck(n), run[n].at # p
        PROVE  checks'[p] = checks[p]
    BY <1>0, <1>7 DEF StoreCheck, TypeOK
  <1> QED
    BY <1>5, <1>6, <1>7
    DEF Next, vars, Claim, Load, Analyze, StoreFinding, StoreRecommendation,
        Finish, Break, TimeOut, Remediate, Sync

\* Health checks are inserted, not upserted: there are no more of a finding than
\* attempts whose analysis had it.
THEOREM ChecksCountAttempts == Spec => []ChecksAreAttempts
  <1>1. CheckInv /\ [Next]_vars => CheckInv'
    BY NextTypeInv, RunsStoreStep, OneAwaitedStep, CompletedByStep, AtReportStep,
       ChecksCountedStep
    DEF CheckInv, WholeInv
  <1>2. CheckInv => ChecksAreAttempts
    <2> SUFFICES ASSUME CheckInv, NEW p \in Places, checks[p] > 0
                 PROVE  checks[p] <= Cardinality({n \in Attempts : p \in run[n].report})
      BY DEF ChecksAreAttempts
    <2> DEFINE found == {n \in Attempts : p \in run[n].report}
    <2>1. found \subseteq Attempts /\ Past(p) \subseteq found
      BY DEF Past
    <2>2. IsFiniteSet(found) /\ Cardinality(found) \in Nat
            /\ Cardinality(Past(p)) <= Cardinality(found)
      BY <2>1, AttemptsFinite, FS_Subset, FS_CardinalityType
    <2>3. checks[p] \in Nat /\ checks[p] <= Cardinality(Past(p))
      BY DEF CheckInv, WholeInv, TypeInv, TypeOK, ChecksCounted
    <2> QED
      BY <2>2, <2>3, PastFinite
  <1> QED
    BY <1>1, <1>2, InitCheckInv, PTL DEF Spec

-----------------------------------------------------------------------------
(* Findings without their recommendations.                                 *)

\* Each is where a run stands before recommending, or broke off.
Owes(n, p) == run[n].at = p /\ run[n].pc \in {"recommending", "over"}

GapsOwed == \A p \in finding \ recommendation : \E n \in Attempts : Owes(n, p)

GapInv == WholeInv /\ GapsOwed

\* Who owes a recommendation owes it until it is stored.
LEMMA OwesStays ==
  ASSUME WholeInv, [Next]_vars, NEW m \in Attempts, NEW p, Owes(m, p),
         ~StoreRecommendation(m)
  PROVE  Owes(m, p)'
  <1>0. TypeInv /\ OneAwaited /\ run \in [Attempts -> RunType] /\ job \in JobType
    BY DEF WholeInv, TypeInv, TypeOK
  <1>1. CASE UNCHANGED run
    BY <1>1 DEF Owes
  <1>2. ASSUME NEW n \in Attempts, Claim(n)
        PROVE  Owes(m, p)'
    <2>1. run[n].pc = "waiting"
      BY <1>0, <1>2 DEF Claim, OneAwaited, JobType
    <2> QED
      BY <1>0, <1>2, <2>1, GotoMoves DEF Claim, Pcs, Others, Owes
  <1>3. ASSUME NEW n \in Attempts, n # m,
               \/ Load(n) \/ Analyze(n) \/ StoreFinding(n)
               \/ StoreRecommendation(n) \/ StoreCheck(n)
        PROVE  Owes(m, p)'
    BY <1>0, <1>3, GoesOn DEF Others, Owes
  <1>4. ASSUME NEW n \in Attempts, n = m,
               Load(n) \/ Analyze(n) \/ StoreFinding(n) \/ StoreCheck(n)
        PROVE  FALSE
    BY <1>4 DEF Load, Analyze, StoreFinding, StoreCheck, At, Owes
  <1>5. ASSUME NEW n \in Attempts, Finish(n) \/ Break(n) \/ TimeOut(n)
        PROVE  Owes(m, p)'
    BY <1>0, <1>5, GivesUp DEF Others, Owes
  <1> QED
    BY <1>1, <1>2, <1>3, <1>4, <1>5 DEF Next, vars, Remediate, Sync

LEMMA GapsOwedStep == GapInv /\ [Next]_vars => GapsOwed'
  <1> SUFFICES ASSUME WholeInv, GapsOwed, [Next]_vars,
                      NEW p, p \in finding', p \notin recommendation'
               PROVE  \E n \in Attempts : Owes(n, p)'
    BY DEF GapInv, GapsOwed
  <1>0. TypeInv /\ run \in [Attempts -> RunType]
    BY DEF WholeInv, TypeInv, TypeOK
  <1>1. CASE p \in finding
    <2>1. recommendation \subseteq recommendation'
      BY DocumentsStay
    <2>2. PICK m \in Attempts : Owes(m, p)
      BY <1>1, <2>1 DEF GapsOwed
    <2>3. ~StoreRecommendation(m)
      BY <2>2 DEF StoreRecommendation, Owes
    <2> QED
      BY <2>2, <2>3, OwesStays
  <1>2. CASE p \notin finding
    <2>1. PICK n \in Attempts : StoreFinding(n) /\ p = run[n].at
      BY <1>2 DEF Next, vars, Claim, Load, Analyze, StoreFinding, StoreRecommendation,
                  StoreCheck, Finish, Break, TimeOut, Remediate, Sync
    <2>2. run'[n].pc = "recommending" /\ run'[n].at = run[n].at
      BY <1>0, <2>1, GotoMoves DEF StoreFinding, Pcs
    <2> QED
      BY <2>1, <2>2 DEF Owes
  <1> QED
    BY <1>1, <1>2

\* Between storing a finding and its recommendation a run can only break off
\* once: the gaps left are no more than the attempts that did not complete.
THEOREM GapsComeFromBreaks == Spec => []GapsAreBreaks
  <1>1. Init => GapInv
    BY InitWholeInv DEF Init, GapInv, GapsOwed
  <1>2. GapInv /\ [Next]_vars => GapInv'
    BY NextTypeInv, RunsStoreStep, OneAwaitedStep, CompletedByStep, GapsOwedStep
    DEF GapInv, WholeInv
  <1>3. GapInv => GapsAreBreaks
    <2> SUFFICES ASSUME GapInv
                 PROVE  GapsAreBreaks
      OBVIOUS
    <2> DEFINE gaps == finding \ recommendation
               broke == {n \in Attempts : \/ At(n, "recommending")
                                          \/ At(n, "over") /\ job.by # n}
               owing == {n \in broke : run[n].at \in gaps}
               at == [n \in owing |-> run[n].at]
    <2>1. gaps \subseteq Places /\ broke \subseteq Attempts /\ owing \subseteq broke
      BY DEF GapInv, WholeInv, TypeInv, TypeOK
    <2>2. IsFiniteSet(broke) /\ Cardinality(broke) \in Nat
            /\ IsFiniteSet(owing) /\ Cardinality(owing) \in Nat
            /\ Cardinality(owing) <= Cardinality(broke)
      BY <2>1, AttemptsFinite, FS_Subset, FS_CardinalityType
    <2>3. ASSUME NEW p \in gaps
          PROVE  \E n \in owing : at[n] = p
      <3>1. PICK n \in Attempts : Owes(n, p)
        BY DEF GapInv, GapsOwed
      <3>2. job.by = n => run[n].at > Last
        BY DEF GapInv, WholeInv, CompletedBy, AllStored
      <3>3. ~(p > Last)
        BY <2>1, LastTyped DEF Places
      <3>4. n \in owing
        BY <3>1, <3>2, <3>3 DEF Owes, At
      <3> QED
        BY <3>1, <3>4 DEF Owes
    <2>4. at \in Surjection(owing, gaps)
      BY <2>3 DEF Surjection
    <2>5. Cardinality(gaps) <= Cardinality(owing)
            /\ IsFiniteSet(gaps)
      BY <2>2, <2>4, FS_Surjection
    <2>6. Cardinality(gaps) \in Nat
      BY <2>5, FS_CardinalityType
    <2> HIDE DEF gaps, owing, broke
    <2>7. Cardinality(gaps) <= Cardinality(broke)
      BY <2>2, <2>5, <2>6
    <2> QED
      BY <2>7 DEF GapsAreBreaks, gaps, broke
  <1> QED
    BY <1>1, <1>2, <1>3, PTL DEF Spec

-----------------------------------------------------------------------------
(* The resources of an account.                                            *)

LEMMA ResourceTyped ==
  ASSUME NEW c \in ItemType, NEW tags \in [RequiredTags -> TagValues],
         NEW publicAccess \in {"unset", "no", "yes"},
         NEW health \in {"unset", "unknown", "healthy"}, NEW cpu \in Nat
  PROVE  Resource(c, tags, publicAccess, health, cpu) \in ResourceType
  <1>1. c.type \in {"ec2", "s3", "lambda"} /\ c.prodName \in BOOLEAN
    BY DEF ItemType
  <1>2. {} \in SUBSET {"health", "other"}
    OBVIOUS
  <1> QED
    BY <1>1, <1>2 DEF Resource, ResourceType

\* What the provider says, field by field: the optional calls decide on the
\* tags, the access of a bucket and the average alone.
LEMMA DescribedFields ==
  ASSUME NEW c \in ItemType, NEW failed
  PROVE  /\ Described(c, failed) \in ResourceType
         /\ Described(c, failed).type = c.type
         /\ Described(c, failed).prodName = c.prodName
         /\ Described(c, failed).tags \in {c.tags, NoTags}
         /\ c.type = "s3" => Described(c, failed).publicAccess =
               IF "GetPublicAccessBlock" \in failed \/ c.exposed THEN "yes" ELSE "no"
         /\ Described(c, failed).alarms = {}
         /\ Described(c, failed).backup = "no"
         /\ Described(c, failed).health # "unhealthy"
         /\ Described(c, failed).lowPeriods = 0
         /\ Described(c, failed).errorRate = 0
         /\ Described(c, failed).p99 = 0
         /\ Described(c, failed).failureDelta = 0
  <1>1. /\ c.type \in {"ec2", "s3", "lambda"} /\ c.prodName \in BOOLEAN
        /\ c.tags \in [RequiredTags -> TagValues]
        /\ c.exposed \in BOOLEAN /\ c.running \in BOOLEAN /\ c.cpu \in Nat
    BY DEF ItemType
  <1>2. NoTags \in [RequiredTags -> TagValues]
    BY DEF NoTags, TagValues
  <1> DEFINE access == IF "GetPublicAccessBlock" \in failed \/ c.exposed THEN "yes" ELSE "no"
  <1>3. \E tags \in {c.tags, NoTags}, publicAccess \in {"unset", "no", "yes"},
           health \in {"unset", "unknown", "healthy"}, cpu \in Nat :
           /\ Described(c, failed) = Resource(c, tags, publicAccess, health, cpu)
           /\ c.type = "s3" => publicAccess = access
    <2>1. CASE c.type = "ec2"
      <3>1. Described(c, failed) = Instance(c, failed)
        BY <2>1 DEF Described
      <3>2. /\ (IF c.exposed THEN "yes" ELSE "no") \in {"unset", "no", "yes"}
            /\ (IF c.running THEN "healthy" ELSE "unknown") \in {"unset", "unknown", "healthy"}
            /\ Average(c, failed) \in Nat
        BY <1>1 DEF Average
      <3> QED
        BY <2>1, <3>1, <3>2 DEF Instance
    <2>2. CASE c.type = "s3"
      <3>1. Described(c, failed) = BucketListed(c, failed)
        BY <2>2 DEF Described
      <3>2. /\ TagsUnless("GetBucketTagging", c, failed) \in {c.tags, NoTags}
            /\ access \in {"unset", "no", "yes"}
            /\ 0 \in Nat
        BY DEF TagsUnless
      <3>3. Described(c, failed) =
              Resource(c, TagsUnless("GetBucketTagging", c, failed), access, "unset", 0)
        BY <3>1 DEF BucketListed
      <3> QED
        BY <3>2, <3>3
    <2>3. CASE c.type = "lambda"
      <3>1. Described(c, failed) =
              Resource(c, TagsUnless("ListTags", c, failed), "unset", "unknown", 0)
        BY <2>3 DEF Described, FunctionListed
      <3>2. TagsUnless("ListTags", c, failed) \in {c.tags, NoTags} /\ 0 \in Nat
        BY DEF TagsUnless
      <3> QED
        BY <2>3, <3>1, <3>2
    <2> QED
      BY <1>1, <2>1, <2>2, <2>3
  <1>4. PICK tags \in {c.tags, NoTags}, publicAccess \in {"unset", "no", "yes"},
             health \in {"unset", "unknown", "healthy"}, cpu \in Nat :
           /\ Described(c, failed) = Resource(c, tags, publicAccess, health, cpu)
           /\ c.type = "s3" => publicAccess = access
    BY <1>3
  <1>5. Described(c, failed) \in ResourceType
    BY <1>1, <1>2, <1>4, ResourceTyped
  <1> QED
    BY <1>4, <1>5 DEF Resource

\* The rules that read only what AWS answers.
LEMMA DescribedFires ==
  ASSUME NEW c \in ItemType, NEW failed, NEW rule,
         Fires(rule, Described(c, failed))
  PROVE  \/ rule = "resource.missing_tags"
         \/ rule = "s3.public_access" /\ c.type = "s3"
               /\ Described(c, failed).publicAccess = "yes"
         \/ rule = "cloudwatch.missing_alarms" /\ IsProd(Described(c, failed))
         \/ rule = "resource.missing_backup" /\ c.type \in {"ec2", "s3"}
               /\ IsProd(Described(c, failed))
  <1> DEFINE r == Described(c, failed)
  <1>1. /\ r.type = c.type /\ r.health # "unhealthy" /\ r.lowPeriods = 0
        /\ r.errorRate = 0 /\ r.p99 = 0 /\ r.failureDelta = 0
    BY DescribedFields
  <1> HIDE DEF r
  <1>2. ~LowUtilization(r) /\ ~UnhealthyService(r) /\ ~RepeatedErrors(r)
          /\ ~ElevatedLatency(r) /\ ~FailureRateIncrease(r)
    BY <1>1 DEF LowUtilization, UnhealthyService, RepeatedErrors, ElevatedLatency,
                FailureRateIncrease
  <1>3. Fires(rule, r)
    BY DEF r
  <1>4. \/ rule = "resource.missing_tags"
        \/ rule = "s3.public_access" /\ c.type = "s3" /\ r.publicAccess = "yes"
        \/ rule = "cloudwatch.missing_alarms" /\ IsProd(r)
        \/ rule = "resource.missing_backup" /\ c.type \in {"ec2", "s3"} /\ IsProd(r)
    BY <1>1, <1>2, <1>3 DEF Fires, PublicS3, MissingAlarms, MissingBackup
  <1> QED
    BY <1>4 DEF r

\* The rules are those of the names.
LEMMA RulesThatFire ==
  ASSUME NEW r
  PROVE  RulesFiring(r) = {rule \in RuleNames : Fires(rule, r)}
  BY RulesNamed DEF RulesFiring

\* A failed call hides no exposed bucket, and what else it hides it hides
\* behind a finding of its own.
LEMMA DescribedLosses ==
  ASSUME NEW c \in ItemType, NEW failed
  PROVE  LET found == RulesFiring(Described(c, failed))
             lost == RulesFiring(Described(c, {})) \ found
         IN  /\ c.type = "s3" /\ c.exposed => "s3.public_access" \in found
             /\ lost # {} => /\ c.tags["Environment"] = "prod" /\ ~c.prodName
                             /\ "resource.missing_tags" \in found
             /\ lost \subseteq {"cloudwatch.missing_alarms", "resource.missing_backup"}
  <1> DEFINE r == Described(c, failed)
             s == Described(c, {})
             found == RulesFiring(r)
             lost == RulesFiring(s) \ found
  <1>1. /\ r.type = c.type /\ r.prodName = c.prodName /\ r.tags \in {c.tags, NoTags}
        /\ r.alarms = {} /\ r.backup = "no"
        /\ c.type = "s3" => r.publicAccess =
              IF "GetPublicAccessBlock" \in failed \/ c.exposed THEN "yes" ELSE "no"
    BY DescribedFields
  <1>2. /\ s.type = c.type /\ s.prodName = c.prodName /\ s.tags \in {c.tags, NoTags}
        /\ c.type = "s3" => s.publicAccess = IF c.exposed THEN "yes" ELSE "no"
    BY DescribedFields
  <1>3. s.tags = c.tags
    BY DEF Described, Instance, BucketListed, FunctionListed, Resource, TagsUnless
  <1>4. /\ found = {rule \in RuleNames : Fires(rule, r)}
        /\ RulesFiring(s) = {rule \in RuleNames : Fires(rule, s)}
    BY RulesThatFire
  <1>5. ASSUME NEW rule, Fires(rule, s)
        PROVE  \/ rule = "resource.missing_tags"
               \/ rule = "s3.public_access" /\ c.type = "s3" /\ s.publicAccess = "yes"
               \/ rule = "cloudwatch.missing_alarms" /\ IsProd(s)
               \/ rule = "resource.missing_backup" /\ c.type \in {"ec2", "s3"} /\ IsProd(s)
    BY <1>5, DescribedFires
  <1>6. c.type \in {"ec2", "s3", "lambda"} /\ c.prodName \in BOOLEAN /\ c.exposed \in BOOLEAN
    BY DEF ItemType
  <1>7. r.tags = NoTags => MissingTags(r) # {}
    BY DEF MissingTags, NoTags, RequiredTags
  <1> HIDE DEF r, s
  <1>8. MissingTags(r) # {} => "resource.missing_tags" \in found
    BY <1>4 DEF Fires, RuleNames
  <1>9. c.type = "s3" /\ c.exposed => "s3.public_access" \in found
    BY <1>1, <1>4 DEF Fires, PublicS3, RuleNames
  <1>10. ASSUME NEW rule \in lost
         PROVE  /\ rule \in {"cloudwatch.missing_alarms", "resource.missing_backup"}
                /\ IsProd(s) /\ ~IsProd(r)
    <2>1. rule \in RuleNames /\ Fires(rule, s) /\ ~Fires(rule, r)
      BY <1>4, <1>10
    <2>2. rule # "s3.public_access"
      BY <1>2, <1>4, <1>5, <1>9, <1>10, <2>1
    <2>3. rule # "resource.missing_tags"
      <3>1. MissingTags(s) # {} => r.tags = NoTags \/ MissingTags(r) # {}
        <4>1. r.tags = s.tags => MissingTags(r) = MissingTags(s)
          BY DEF MissingTags
        <4> QED
          BY <1>1, <1>3, <4>1
      <3>2. MissingTags(r) # {} => Fires("resource.missing_tags", r)
        BY DEF Fires
      <3>3. Fires("resource.missing_tags", s) => MissingTags(s) # {}
        BY DEF Fires
      <3> QED
        BY <1>7, <2>1, <3>1, <3>2, <3>3
    <2>4. /\ rule \in {"cloudwatch.missing_alarms", "resource.missing_backup"}
          /\ IsProd(s)
          /\ rule = "resource.missing_backup" => c.type \in {"ec2", "s3"}
      BY <1>5, <2>1, <2>2, <2>3
    <2>5. ~IsProd(r)
      BY <1>1, <1>6, <2>1, <2>4 DEF Fires, MissingAlarms, MissingBackup
    <2> QED
      BY <2>4, <2>5
  <1>11. IsProd(s) /\ ~IsProd(r) =>
           /\ c.tags["Environment"] = "prod" /\ ~c.prodName
           /\ r.tags = NoTags
    BY <1>1, <1>2, <1>3 DEF IsProd
  <1>12. lost # {} => /\ c.tags["Environment"] = "prod" /\ ~c.prodName
                     /\ "resource.missing_tags" \in found
    BY <1>7, <1>8, <1>10, <1>11
  <1>13. lost \subseteq {"cloudwatch.missing_alarms", "resource.missing_backup"}
    BY <1>10
  <1> QED
    BY <1>9, <1>12, <1>13 DEF r, s

-----------------------------------------------------------------------------
(* What a job finds in an account.                                         *)

Loaded == {"analyzing", "finding", "recommending", "checking"}

ConfigRules == {"resource.missing_tags", "s3.public_access",
                "cloudwatch.missing_alarms", "resource.missing_backup"}

LEMMA Nines ==
  ASSUME NEW a \in Nat, NEW b \in 0 .. 8
  PROVE  (9 * a + b) \div 9 = a /\ (9 * a + b) % 9 = b
  OBVIOUS

\* Each rule on each resource has its place in the order of evaluation.
LEMMA PlaceExists ==
  ASSUME NEW r \in DOMAIN Inventory, NEW rule \in RuleNames
  PROVE  \E p \in Places : ResourceAt(p) = r /\ RuleAt(p) = rule
  <1>1. PICK i \in DOMAIN Order : Order[i] = r
    BY InventoryAssumption
  <1>2. i \in 1 .. Len(Order) /\ Len(Order) \in Nat
    BY InventoryAssumption, LastTyped
  <1>3. PICK k \in 1 .. 9 : Rules[k] = rule
    BY RulesNamed
  <1>4. i - 1 \in Nat /\ k - 1 \in 0 .. 8 /\ k \in Int
    BY <1>2, <1>3
  <1>5. PICK p \in Int : p = 9 * (i - 1) + k
    BY <1>4
  <1>6. p - 1 = 9 * (i - 1) + (k - 1)
    BY <1>4, <1>5
  <1>7. (p - 1) \div 9 = i - 1 /\ (p - 1) % 9 = k - 1
    BY <1>4, <1>6, Nines
  <1>8. ((p - 1) \div 9) + 1 = i /\ ((p - 1) % 9) + 1 = k
    BY <1>2, <1>4, <1>7
  <1>9. p \in Places
    <2>1. PICK size \in Nat : size = Len(Order)
      BY LastTyped
    <2>2. Last = size * 9 /\ i <= size /\ i \in Nat /\ 1 <= i
      BY <1>2, <2>1, LastTyped
    <2>3. 1 <= p /\ p <= size * 9
      BY <1>3, <1>5, <2>2
    <2> QED
      BY <2>2, <2>3 DEF Places
  <1>10. ResourceAt(p) = Order[i] /\ RuleAt(p) = Rules[k]
    BY <1>8, RulesNamed DEF ResourceAt, RuleAt
  <1> QED
    BY <1>1, <1>3, <1>9, <1>10

\* What a run reports is settled when it loads the resources.
LEMMA ReportsSettle ==
  ASSUME TypeInv, [Next]_vars, NEW n \in Attempts
  PROVE  \/ Load(n)
         \/ /\ run'[n].report = run[n].report
            /\ run'[n].pc \in Loaded => run[n].pc \in Loaded
  <1>0. run \in [Attempts -> RunType]
    BY DEF TypeInv, TypeOK
  <1>1. CASE UNCHANGED run
    BY <1>1
  <1>2. ASSUME NEW m \in Attempts, Others(m), m # n
        PROVE  run'[n] = run[n]
    BY <1>2 DEF Others
  <1>3. ASSUME NEW m \in Attempts, Goto(m, "claimed") \/ Goto(m, "over")
        PROVE  /\ run'[n].report = run[n].report
               /\ run'[n].pc \in Loaded => run[n].pc \in Loaded
    <2>1. Others(m) /\ run'[m].report = run[m].report /\ run'[m].pc \in {"claimed", "over"}
      BY <1>0, <1>3, GotoMoves DEF Pcs
    <2> QED
      BY <1>2, <2>1 DEF Loaded
  <1>4. ASSUME NEW m \in Attempts, Load(m), ~Load(n)
        PROVE  run'[n] = run[n]
    BY <1>0, <1>2, <1>4, LoadMoves
  <1>5. ASSUME NEW m \in Attempts, Analyze(m) \/ StoreCheck(m)
        PROVE  /\ run'[n].report = run[n].report
               /\ run'[n].pc \in Loaded => run[n].pc \in Loaded
    <2>1. PICK p \in Nat : /\ p <= Last + 1
                           /\ run' = [run EXCEPT ![m].pc = "finding", ![m].at = From(m, p)]
      <3>1. CASE Analyze(m)
        <4>1. 1 \in Nat /\ 1 <= Last + 1
          BY LastTyped
        <4> QED
          BY <3>1, <4>1 DEF Analyze
      <3>2. CASE StoreCheck(m)
        <4>1. PICK at \in Places : at = run[m].at
          BY <3>2 DEF StoreCheck, At, TypeInv, AtPlaces
        <4>2. at + 1 \in Nat /\ at + 1 <= Last + 1
          BY LastTyped DEF Places
        <4> QED
          BY <3>2, <4>1, <4>2 DEF StoreCheck
      <3> QED
        BY <1>5, <3>1, <3>2
    <2>2. Others(m) /\ run'[m].report = run[m].report
      BY <1>0, <2>1, FindMoves
    <2>3. run[m].pc \in Loaded
      BY <1>5 DEF Analyze, StoreCheck, At, Loaded
    <2> QED
      BY <1>2, <2>2, <2>3
  <1>6. ASSUME NEW m \in Attempts, StoreFinding(m) \/ StoreRecommendation(m)
        PROVE  /\ run'[n].report = run[n].report
               /\ run'[n].pc \in Loaded => run[n].pc \in Loaded
    <2>1. Others(m) /\ run'[m].report = run[m].report
      BY <1>0, <1>6, GotoMoves DEF StoreFinding, StoreRecommendation, Pcs
    <2>2. run[m].pc \in Loaded
      BY <1>6 DEF StoreFinding, StoreRecommendation, At, Loaded
    <2> QED
      BY <1>2, <2>1, <2>2
  <1>7. ASSUME NEW m \in Attempts, TimeOut(m)
        PROVE  run'[n].report = run[n].report /\ run'[n].pc = run[n].pc
    BY <1>0, <1>2, <1>7, TimeOutMoves
  <1> QED
    BY <1>1, <1>3, <1>4, <1>5, <1>6, <1>7
    DEF Next, vars, Claim, Finish, Break, Remediate, Sync

LEMMA AccountTyped ==
  ASSUME NEW r \in DOMAIN Item
  PROVE  /\ r \in DOMAIN Inventory
         /\ Item[r] \in ItemType
         /\ Inventory[r] \in Descriptions[r]
         /\ \A d \in Descriptions[r] : \E failed : d = Described(Item[r], failed)
  BY AccountAssumption

\* On what is in the account only the four rules fire, then only they are
\* reported, then only they are found.
ConfigFires ==
    \A r \in DOMAIN Item : \A rule \in RuleNames :
        Fires(rule, resource[r]) => rule \in ConfigRules

ConfigPlace(p) == ResourceAt(p) \in DOMAIN Item => RuleAt(p) \in ConfigRules

ConfigReported == \A n \in Attempts : \A p \in run[n].report : ConfigPlace(p)

ConfigFound == \A p \in finding : ConfigPlace(p)

ConfigInv == WholeInv /\ AtReport /\ ConfigFires /\ ConfigReported /\ ConfigFound

LEMMA DescribedConfig ==
  ASSUME NEW r \in DOMAIN Item, NEW d \in Descriptions[r], NEW rule \in RuleNames,
         Fires(rule, d)
  PROVE  rule \in ConfigRules
  <1>1. PICK failed : d = Described(Item[r], failed)
    BY AccountTyped
  <1>2. Item[r] \in ItemType
    BY AccountTyped
  <1>3. Fires(rule, Described(Item[r], failed))
    BY <1>1
  <1> QED
    BY <1>2, <1>3, DescribedFires DEF ConfigRules

LEMMA ConfigFiresStep == TypeInv /\ ConfigFires /\ [Next]_vars => ConfigFires'
  <1> SUFFICES ASSUME TypeInv, ConfigFires, [Next]_vars,
                      NEW r \in DOMAIN Item, NEW rule \in RuleNames,
                      Fires(rule, resource'[r])
               PROVE  rule \in ConfigRules
    BY DEF ConfigFires
  <1>0. /\ r \in DOMAIN Inventory /\ resource[r] \in ResourceType
        /\ resource \in [DOMAIN Inventory -> ResourceType]
    BY AccountTyped DEF TypeInv, TypeOK
  <1>1. CASE resource'[r] = resource[r]
    BY <1>1 DEF ConfigFires
  <1>2. ASSUME NEW p \in Places, Remediate(p), ResourceAt(p) = r
        PROVE  rule \in ConfigRules
    <2>1. ActionOf[RuleAt(p)] \in Allowlisted
      BY <1>2, PlaceTyped, ActionsAllowed DEF Remediate
    <2>2. resource'[r] = Applied(ActionOf[RuleAt(p)], resource[r])
      BY <1>0, <1>2 DEF Remediate
    <2>3. Fires(rule, resource[r])
      BY <1>0, <2>1, <2>2, AppliedHarmless
    <2> QED
      BY <2>3 DEF ConfigFires
  <1>3. CASE Sync(r)
    <2>1. resource'[r] \in Descriptions[r]
      BY <1>0, <1>3 DEF Sync
    <2> QED
      BY <2>1, DescribedConfig
  <1>4. ASSUME NEW p \in Places, Remediate(p), ResourceAt(p) # r
        PROVE  resource'[r] = resource[r]
    BY <1>0, <1>4, PlaceTyped DEF Remediate
  <1>5. ASSUME NEW q \in DOMAIN Inventory, Sync(q), q # r
        PROVE  resource'[r] = resource[r]
    BY <1>0, <1>5 DEF Sync
  <1> QED
    BY <1>1, <1>2, <1>3, <1>4, <1>5
    DEF Next, vars, Claim, Load, Analyze, StoreFinding, StoreRecommendation,
        StoreCheck, Finish, Break, TimeOut

LEMMA LoadReports ==
  ASSUME TypeInv, NEW n \in Attempts, Load(n)
  PROVE  run'[n].report = {p \in Places : /\ ResourceAt(p) \in job.scope
                                         /\ Fires(RuleAt(p), resource[ResourceAt(p)])}
  <1> DEFINE report == {p \in Places : /\ ResourceAt(p) \in job.scope
                                      /\ Fires(RuleAt(p), resource[ResourceAt(p)])}
  <1>1. run' = [run EXCEPT ![n] = [run[n] EXCEPT !.pc = "analyzing",
                                                 !.report = report]]
    BY DEF Load
  <1>2. run \in [Attempts -> RunType]
    BY DEF TypeInv, TypeOK
  <1> HIDE DEF report
  <1>3. run'[n].report = report
    BY <1>1, <1>2 DEF RunType
  <1> QED
    BY <1>3 DEF report

LEMMA ConfigReportedStep ==
  TypeInv /\ ConfigFires /\ ConfigReported /\ [Next]_vars => ConfigReported'
  <1> SUFFICES ASSUME TypeInv, ConfigFires, ConfigReported, [Next]_vars,
                      NEW n \in Attempts, NEW p \in run'[n].report
               PROVE  ConfigPlace(p)
    BY DEF ConfigReported, ConfigPlace
  <1>1. CASE Load(n)
    <2>1. p \in Places /\ Fires(RuleAt(p), resource[ResourceAt(p)])
      BY <1>1, LoadReports
    <2> QED
      BY <2>1, PlaceTyped DEF ConfigPlace, ConfigFires
  <1>2. CASE run'[n].report = run[n].report
    BY <1>2 DEF ConfigReported
  <1> QED
    BY <1>1, <1>2, ReportsSettle

LEMMA ConfigFoundStep ==
  TypeInv /\ AtReport /\ ConfigReported /\ ConfigFound /\ [Next]_vars => ConfigFound'
  <1> SUFFICES ASSUME TypeInv, AtReport, ConfigReported, ConfigFound, [Next]_vars,
                      NEW p \in finding'
               PROVE  ConfigPlace(p)
    BY DEF ConfigFound, ConfigPlace
  <1>1. CASE p \in finding
    BY <1>1 DEF ConfigFound
  <1>2. ASSUME NEW n \in Attempts, StoreFinding(n), p \notin finding
        PROVE  ConfigPlace(p)
    <2>1. p = run[n].at /\ run[n].pc = "finding" /\ ~AllStored(n)
      BY <1>2 DEF StoreFinding, At
    <2>2. run[n].at # Last + 1
      BY <2>1, LastTyped DEF AllStored
    <2>3. p \in run[n].report
      BY <2>1, <2>2 DEF AtReport
    <2> QED
      BY <2>3 DEF ConfigReported
  <1> QED
    BY <1>1, <1>2
    DEF Next, vars, Claim, Load, Analyze, StoreRecommendation, StoreCheck,
        Finish, Break, TimeOut, Remediate, Sync

\* Whatever calls fail in the syncs, whatever is remediated and however many
\* runs write at once: in an account of AWS a job finds nothing but what the
\* four rules on configuration report.
THEOREM AccountsShowConfiguration == Spec => []OnlyConfigurationIsFound
  <1>1. Init => ConfigInv
    <2> SUFFICES ASSUME Init
                 PROVE  ConfigInv
      OBVIOUS
    <2>1. WholeInv /\ AtReport
      BY InitWholeInv DEF Init, AtReport
    <2>2. ConfigFires
      BY AccountTyped, DescribedConfig DEF Init, ConfigFires
    <2>3. ConfigReported /\ ConfigFound
      BY DEF Init, ConfigReported, ConfigFound
    <2> QED
      BY <2>1, <2>2, <2>3 DEF ConfigInv
  <1>2. ConfigInv /\ [Next]_vars => ConfigInv'
    BY NextTypeInv, RunsStoreStep, OneAwaitedStep, CompletedByStep, AtReportStep,
       ConfigFiresStep, ConfigReportedStep, ConfigFoundStep
    DEF ConfigInv, WholeInv
  <1>3. ConfigInv => OnlyConfigurationIsFound
    BY DEF ConfigInv, ConfigFound, ConfigPlace, ConfigRules, OnlyConfigurationIsFound
  <1> QED
    BY <1>1, <1>2, <1>3, PTL DEF Spec

\* Attempt n reports on a resource of the account what some answer of the
\* provider shows.
Saw(n) ==
    \A r \in DOMAIN Item \cap job.scope : \E d \in Descriptions[r] :
        \A p \in Places : ResourceAt(p) = r /\ Fires(RuleAt(p), d) =>
            p \in run[n].report

\* That is so until a remediation changes what no sync has described.
SeenSoFar ==
    fixes = 0 =>
        /\ \A r \in DOMAIN Item : resource[r] \in Descriptions[r]
        /\ \A n \in Attempts : run[n].pc \in Loaded => Saw(n)
        /\ job.status = "completed" => Saw(job.by)

SeenInv == WholeInv /\ SeenSoFar

LEMMA ScopeStays ==
  ASSUME TypeInv, [Next]_vars
  PROVE  job'.scope = job.scope
  <1>0. job \in JobType
    BY DEF TypeInv, TypeOK
  <1>1. ASSUME NEW n \in Attempts, JobFails(n)
        PROVE  job'.scope = job.scope
    BY <1>0, <1>1 DEF JobFails, JobType
  <1>2. ASSUME NEW n \in Attempts, Claim(n) \/ Finish(n)
        PROVE  job'.scope = job.scope
    BY <1>0, <1>2 DEF Claim, Finish, JobType
  <1> QED
    BY <1>1, <1>2
    DEF Next, vars, Load, Analyze, StoreFinding, StoreRecommendation,
        StoreCheck, Break, TimeOut, Remediate, Sync

\* A job becomes completed when its run has come to the end of its report.
LEMMA CompletedByFinish ==
  ASSUME TypeInv, [Next]_vars, job'.status = "completed"
  PROVE  \/ job.status = "completed" /\ job'.by = job.by
         \/ \E n \in Attempts : Finish(n) /\ job'.by = n
  <1>0. TypeOK /\ job \in JobType
    BY DEF TypeInv, TypeOK
  <1>1. ASSUME NEW n \in Attempts, JobFails(n)
        PROVE  job.status = "completed" /\ job'.by = job.by
    BY <1>0, <1>1, JobFailsMoves
  <1>2. ASSUME NEW n \in Attempts, Claim(n)
        PROVE  FALSE
    BY <1>0, <1>2 DEF Claim, JobType
  <1>3. ASSUME NEW n \in Attempts, Finish(n)
        PROVE  job' = job \/ job'.by = n
    BY <1>0, <1>3, FinishMoves
  <1> QED
    BY <1>1, <1>2, <1>3
    DEF Next, vars, Load, Analyze, StoreFinding, StoreRecommendation,
        StoreCheck, Break, TimeOut, Remediate, Sync

LEMMA NoFixYet ==
  ASSUME TypeInv, [Next]_vars, fixes' = 0
  PROVE  /\ fixes = 0
         /\ \/ UNCHANGED resource
            \/ \E r \in DOMAIN Inventory : Sync(r)
  <1>0. fixes \in Nat
    BY BoundAssumption DEF TypeInv, TypeOK
  <1>1. ASSUME NEW p \in Places, Remediate(p)
        PROVE  FALSE
    BY <1>0, <1>1 DEF Remediate
  <1> QED
    BY <1>1
    DEF Next, vars, Claim, Load, Analyze, StoreFinding, StoreRecommendation,
        StoreCheck, Finish, Break, TimeOut, Sync

LEMMA SawStays ==
  ASSUME TypeInv, [Next]_vars, NEW n \in Attempts, Saw(n),
         run'[n].report = run[n].report
  PROVE  Saw(n)'
  <1>1. job'.scope = job.scope
    BY ScopeStays
  <1> QED
    BY <1>1 DEF Saw

LEMMA SeenSoFarStep == WholeInv /\ SeenSoFar /\ [Next]_vars => SeenSoFar'
  <1> SUFFICES ASSUME WholeInv, SeenSoFar, [Next]_vars, fixes' = 0
               PROVE  SeenSoFar'
    BY DEF SeenSoFar
  <1>0. TypeInv /\ TypeOK /\ fixes = 0
    BY NoFixYet DEF WholeInv, TypeInv
  <1>1. ASSUME NEW r \in DOMAIN Item
        PROVE  resource'[r] \in Descriptions[r]
    <2>1. resource[r] \in Descriptions[r] /\ r \in DOMAIN Inventory
      BY <1>0, AccountTyped DEF SeenSoFar
    <2>2. ASSUME NEW q \in DOMAIN Inventory, Sync(q)
          PROVE  resource'[r] \in Descriptions[r]
      BY <1>0, <2>1, <2>2 DEF Sync, TypeOK
    <2> QED
      BY <1>0, <2>1, <2>2, NoFixYet
  <1>2. ASSUME NEW n \in Attempts, run'[n].pc \in Loaded
        PROVE  Saw(n)'
    <2>1. CASE Load(n)
      <3>1. job'.scope = job.scope
        BY <1>0, ScopeStays
      <3>2. ASSUME NEW r \in DOMAIN Item \cap job.scope
            PROVE  \E d \in Descriptions[r] :
                      \A p \in Places : ResourceAt(p) = r /\ Fires(RuleAt(p), d) =>
                          p \in run'[n].report
        <4>1. resource[r] \in Descriptions[r]
          BY <1>0 DEF SeenSoFar
        <4>2. \A p \in Places : ResourceAt(p) = r /\ Fires(RuleAt(p), resource[r]) =>
                  p \in run'[n].report
          BY <1>0, <2>1, LoadReports
        <4> QED
          BY <4>1, <4>2
      <3> QED
        BY <3>1, <3>2 DEF Saw
    <2>2. CASE run'[n].report = run[n].report /\ run[n].pc \in Loaded
      BY <1>0, <2>2, SawStays DEF SeenSoFar
    <2> QED
      BY <1>0, <1>2, <2>1, <2>2, ReportsSettle
  <1>3. ASSUME job'.status = "completed"
        PROVE  Saw(job.by)'
    <2>1. CASE job.status = "completed" /\ job'.by = job.by
      <3>1. job.by \in Attempts /\ run[job.by].pc = "over" /\ Saw(job.by)
        BY <1>0, <2>1 DEF WholeInv, CompletedBy, SeenSoFar
      <3>2. run'[job.by].report = run[job.by].report
        BY <1>0, <3>1, ReportsSettle DEF Load, At
      <3>3. job'.scope = job.scope
        BY <1>0, ScopeStays
      <3> QED
        BY <2>1, <3>1, <3>2, <3>3 DEF Saw
    <2>2. ASSUME NEW n \in Attempts, Finish(n), job'.by = n
          PROVE  Saw(job.by)'
      <3>1. run[n].pc \in Loaded
        BY <2>2 DEF Finish, At, Loaded
      <3>2. Saw(n)
        BY <1>0, <3>1 DEF SeenSoFar
      <3>3. run'[n].report = run[n].report
        BY <1>0, <2>2, ReportsSettle DEF Load, Finish, At
      <3>4. job'.scope = job.scope
        BY <1>0, ScopeStays
      <3> QED
        BY <2>2, <3>2, <3>3, <3>4 DEF Saw
    <2> QED
      BY <1>0, <1>3, <2>1, <2>2, CompletedByFinish
  <1> QED
    BY <1>1, <1>2, <1>3 DEF SeenSoFar

\* What a completed job has found on a resource of the account.
LEMMA CompletedFinds ==
  ASSUME SeenInv, job.status = "completed", fixes = 0,
         NEW r \in DOMAIN Item \cap job.scope
  PROVE  \E failed : RulesFiring(Described(Item[r], failed)) \subseteq FoundOn(r)
  <1>1. Saw(job.by) /\ run[job.by].report \subseteq finding
    BY DEF SeenInv, SeenSoFar, WholeInv, CompletedBy, Stored
  <1>2. PICK d \in Descriptions[r] :
           \A p \in Places : ResourceAt(p) = r /\ Fires(RuleAt(p), d) => p \in finding
    BY <1>1 DEF Saw
  <1>3. PICK failed : d = Described(Item[r], failed)
    BY AccountTyped
  <1>4. ASSUME NEW rule \in RulesFiring(d)
        PROVE  rule \in FoundOn(r)
    <2>1. rule \in RuleNames /\ Fires(rule, d)
      BY <1>4, RulesThatFire
    <2>2. PICK p \in Places : ResourceAt(p) = r /\ RuleAt(p) = rule
      BY <2>1, AccountTyped, PlaceExists
    <2> QED
      BY <1>2, <2>1, <2>2 DEF FoundOn
  <1> QED
    BY <1>3, <1>4

\* listEc2, listS3 and listLambda go on with a default when a call for one
\* item fails: in no account, and in no order of syncs and attempts, does a
\* completed job miss an exposed bucket, or lose a finding without another
\* that says why.
THEOREM FailedCallsShow == Spec => []FailuresAreSeen
  <1>1. Init => SeenInv
    BY InitWholeInv, AccountTyped DEF Init, SeenInv, SeenSoFar, Loaded
  <1>2. SeenInv /\ [Next]_vars => SeenInv'
    BY NextTypeInv, RunsStoreStep, OneAwaitedStep, CompletedByStep, SeenSoFarStep
    DEF SeenInv, WholeInv
  <1>3. SeenInv => FailuresAreSeen
    <2> SUFFICES ASSUME SeenInv, job.status = "completed", fixes = 0,
                        NEW r \in DOMAIN Item \cap job.scope
                 PROVE
        LET c == Item[r]
            lost == RulesFiring(Described(c, {})) \ FoundOn(r)
        IN  /\ c.type = "s3" /\ c.exposed => "s3.public_access" \in FoundOn(r)
            /\ lost # {} => /\ c.tags["Environment"] = "prod" /\ ~c.prodName
                            /\ "resource.missing_tags" \in FoundOn(r)
            /\ lost \subseteq {"cloudwatch.missing_alarms",
                               "resource.missing_backup"}
      BY DEF FailuresAreSeen
    <2>1. PICK failed : RulesFiring(Described(Item[r], failed)) \subseteq FoundOn(r)
      BY CompletedFinds
    <2>2. Item[r] \in ItemType
      BY AccountTyped
    <2> DEFINE c == Item[r]
               shown == RulesFiring(Described(c, failed))
               gone == RulesFiring(Described(c, {})) \ shown
    <2>3. /\ c.type = "s3" /\ c.exposed => "s3.public_access" \in shown
          /\ gone # {} => /\ c.tags["Environment"] = "prod" /\ ~c.prodName
                          /\ "resource.missing_tags" \in shown
          /\ gone \subseteq {"cloudwatch.missing_alarms", "resource.missing_backup"}
      BY <2>2, DescribedLosses
    <2>4. RulesFiring(Described(c, {})) \ FoundOn(r) \subseteq gone
      BY <2>1
    <2> QED
      BY <2>1, <2>3, <2>4
  <1> QED
    BY <1>1, <1>2, <1>3, PTL DEF Spec

-----------------------------------------------------------------------------
(* The demonstration: which rules fire on the resources of the mock        *)
(* provider, name by name.                                                 *)

LEMMA MockTags ==
  /\ Fine.tags = [t \in RequiredTags |-> IF t = "Environment" THEN "prod" ELSE "set"]
  /\ Bucket.tags = Fine.tags
  /\ Function.tags = Fine.tags
  BY DEF Fine, Bucket, Function, RequiredTags

LEMMA WebFires ==
  ASSUME NEW r, r = MockInventory["i-web-prod-1"]
  PROVE  \A rule : Fires(rule, r) <=> rule \in
             {"ec2.low_utilization", "resource.missing_tags",
              "resource.missing_backup"}
  <1>1. r = [Fine EXCEPT !.prodName = TRUE,
              !.tags = [Fine.tags EXCEPT !["Owner"] = "platform", !["CostCenter"] = ""],
              !.backup = "no", !.cpu = 32, !.lowPeriods = 6, !.errorRate = 10,
              !.errorCount = 4, !.p99 = 180]
    BY DEF MockInventory, InstanceNames, BucketNames, FunctionNames, MockInstance
  <1>2. r.type = "ec2" /\ r.prodName = TRUE /\ r.publicAccess = "no" /\
        r.backup = "no" /\ r.alarms = {"other"} /\ r.health = "healthy" /\
        r.cpu = 32 /\ r.lowPeriods = 6 /\ r.errorRate = 10 /\
        r.errorCount = 4 /\ r.p99 = 180 /\ r.failureDelta = 0
    BY <1>1 DEF Fine
  <1>3. r.tags = [Fine.tags EXCEPT !["Owner"] = "platform", !["CostCenter"] = ""]
    BY <1>1 DEF Fine
  <1>4. r.tags["Environment"] = "prod" /\ MissingTags(r) # {}
    BY <1>3, MockTags DEF MissingTags, RequiredTags
  <1>5. IsProd(r)
    BY <1>2, <1>4 DEF IsProd
  <1> QED
    BY <1>2, <1>4, <1>5
    DEF Fires, LowUtilization, PublicS3, MissingAlarms, UnhealthyService,
        MissingBackup, RepeatedErrors, ElevatedLatency, FailureRateIncrease

LEMMA ApiFires ==
  ASSUME NEW r, r = MockInventory["i-api-prod-2"]
  PROVE  \A rule : Fires(rule, r) <=> rule \in
             {"service.unhealthy", "app.repeated_errors",
              "api.elevated_latency", "reliability.failure_rate_increase"}
  <1>1. r = [Fine EXCEPT !.prodName = TRUE, !.health = "unhealthy",
              !.cpu = 620, !.errorRate = 140, !.errorCount = 88, !.p99 = 2400,
              !.failureDelta = 180]
    BY DEF MockInventory, InstanceNames, BucketNames, FunctionNames, MockInstance
  <1>2. r.type = "ec2" /\ r.prodName = TRUE /\ r.publicAccess = "no" /\
        r.backup = "yes" /\ r.alarms = {"other"} /\ r.health = "unhealthy" /\
        r.cpu = 620 /\ r.lowPeriods = 0 /\ r.errorRate = 140 /\
        r.errorCount = 88 /\ r.p99 = 2400 /\ r.failureDelta = 180
    BY <1>1 DEF Fine
  <1>3. r.tags = Fine.tags
    BY <1>1 DEF Fine
  <1>4. r.tags["Environment"] = "prod" /\ MissingTags(r) = {}
    BY <1>3, MockTags DEF MissingTags, RequiredTags
  <1>5. IsProd(r)
    BY <1>2, <1>4 DEF IsProd
  <1> QED
    BY <1>2, <1>4, <1>5
    DEF Fires, LowUtilization, PublicS3, MissingAlarms, UnhealthyService,
        MissingBackup, RepeatedErrors, ElevatedLatency, FailureRateIncrease

LEMMA BatchFires ==
  ASSUME NEW r, r = MockInventory["i-batch-dev-3"]
  PROVE  \A rule : Fires(rule, r) <=> rule \in
             {"resource.missing_tags"}
  <1>1. r = [Fine EXCEPT !.tags = [t \in RequiredTags |-> ""],
              !.backup = "no", !.alarms = {}, !.health = "unknown",
              !.cpu = 180, !.lowPeriods = 1, !.p99 = 90]
    BY DEF MockInventory, InstanceNames, BucketNames, FunctionNames, MockInstance
  <1>2. r.type = "ec2" /\ r.prodName = FALSE /\ r.publicAccess = "no" /\
        r.backup = "no" /\ r.alarms = {} /\ r.health = "unknown" /\
        r.cpu = 180 /\ r.lowPeriods = 1 /\ r.errorRate = 0 /\
        r.errorCount = 0 /\ r.p99 = 90 /\ r.failureDelta = 0
    BY <1>1 DEF Fine
  <1>3. r.tags = [t \in RequiredTags |-> ""]
    BY <1>1 DEF Fine
  <1>4. r.tags["Environment"] = "" /\ MissingTags(r) # {}
    BY <1>3, MockTags DEF MissingTags, RequiredTags
  <1>5. ~IsProd(r)
    BY <1>2, <1>4 DEF IsProd
  <1>6. ~MissingAlarms(r) /\ ~MissingBackup(r)
    BY <1>5 DEF MissingAlarms, MissingBackup
  <1>7. ~LowUtilization(r) /\ ~RepeatedErrors(r)
    BY <1>2 DEF LowUtilization, RepeatedErrors
  <1>8. ~UnhealthyService(r) /\ ~PublicS3(r) /\ ~ElevatedLatency(r) /\ ~FailureRateIncrease(r)
    BY <1>2 DEF UnhealthyService, PublicS3, ElevatedLatency, FailureRateIncrease
  <1> QED
    BY <1>4, <1>6, <1>7, <1>8 DEF Fires

LEMMA DbFires ==
  ASSUME NEW r, r = MockInventory["i-db-prod"]
  PROVE  \A rule : Fires(rule, r) <=> rule \in
             {"resource.missing_backup"}
  <1>1. r = [Fine EXCEPT !.prodName = TRUE, !.backup = "no", !.cpu = 410,
              !.errorRate = 2, !.errorCount = 2, !.p99 = 40]
    BY DEF MockInventory, InstanceNames, BucketNames, FunctionNames, MockInstance
  <1>2. r.type = "ec2" /\ r.prodName = TRUE /\ r.publicAccess = "no" /\
        r.backup = "no" /\ r.alarms = {"other"} /\ r.health = "healthy" /\
        r.cpu = 410 /\ r.lowPeriods = 0 /\ r.errorRate = 2 /\
        r.errorCount = 2 /\ r.p99 = 40 /\ r.failureDelta = 0
    BY <1>1 DEF Fine
  <1>3. r.tags = Fine.tags
    BY <1>1 DEF Fine
  <1>4. r.tags["Environment"] = "prod" /\ MissingTags(r) = {}
    BY <1>3, MockTags DEF MissingTags, RequiredTags
  <1>5. IsProd(r)
    BY <1>2, <1>4 DEF IsProd
  <1> QED
    BY <1>2, <1>4, <1>5
    DEF Fires, LowUtilization, PublicS3, MissingAlarms, UnhealthyService,
        MissingBackup, RepeatedErrors, ElevatedLatency, FailureRateIncrease

LEMMA CacheFires ==
  ASSUME NEW r, r = MockInventory["i-cache-prod"]
  PROVE  \A rule : Fires(rule, r) <=> rule \in
             {"cloudwatch.missing_alarms"}
  <1>1. r = [Fine EXCEPT !.prodName = TRUE,
              !.tags = [Fine.tags EXCEPT !["Owner"] = "platform"],
              !.alarms = {}, !.cpu = 330, !.p99 = 12]
    BY DEF MockInventory, InstanceNames, BucketNames, FunctionNames, MockInstance
  <1>2. r.type = "ec2" /\ r.prodName = TRUE /\ r.publicAccess = "no" /\
        r.backup = "yes" /\ r.alarms = {} /\ r.health = "healthy" /\
        r.cpu = 330 /\ r.lowPeriods = 0 /\ r.errorRate = 0 /\
        r.errorCount = 0 /\ r.p99 = 12 /\ r.failureDelta = 0
    BY <1>1 DEF Fine
  <1>3. r.tags = [Fine.tags EXCEPT !["Owner"] = "platform"]
    BY <1>1 DEF Fine
  <1>4. r.tags["Environment"] = "prod" /\ MissingTags(r) = {}
    BY <1>3, MockTags DEF MissingTags, RequiredTags
  <1>5. IsProd(r)
    BY <1>2, <1>4 DEF IsProd
  <1> QED
    BY <1>2, <1>4, <1>5
    DEF Fires, LowUtilization, PublicS3, MissingAlarms, UnhealthyService,
        MissingBackup, RepeatedErrors, ElevatedLatency, FailureRateIncrease

LEMMA AssetsFire ==
  ASSUME NEW r, r = MockInventory["acme-public-assets"]
  PROVE  \A rule : Fires(rule, r) <=> rule \in
             {"resource.missing_tags", "s3.public_access",
              "cloudwatch.missing_alarms", "resource.missing_backup"}
  <1>1. r = [Bucket EXCEPT !.publicAccess = "yes",
              !.tags = [Bucket.tags EXCEPT !["Owner"] = "", !["CostCenter"] = ""],
              !.backup = "no", !.alarms = {}]
    BY DEF MockInventory, InstanceNames, BucketNames, FunctionNames, MockBucket
  <1>2. r.type = "s3" /\ r.prodName = FALSE /\ r.publicAccess = "yes" /\
        r.backup = "no" /\ r.alarms = {} /\ r.health = "unset" /\ r.cpu = 0 /\
        r.lowPeriods = 0 /\ r.errorRate = 0 /\ r.errorCount = 0 /\
        r.p99 = 0 /\ r.failureDelta = 0
    BY <1>1 DEF Bucket, Fine
  <1>3. r.tags = [Bucket.tags EXCEPT !["Owner"] = "", !["CostCenter"] = ""]
    BY <1>1 DEF Bucket, Fine
  <1>4. r.tags["Environment"] = "prod" /\ MissingTags(r) # {}
    <2>1. Bucket.tags = [t \in RequiredTags |-> IF t = "Environment" THEN "prod" ELSE "set"]
      BY MockTags
    <2>2. "Environment" \in RequiredTags /\ "CostCenter" \in RequiredTags
      BY DEF RequiredTags
    <2>3. r.tags["Environment"] = "prod" /\ r.tags["CostCenter"] = ""
      BY <1>3, <2>1, <2>2
    <2> QED
      BY <2>2, <2>3 DEF MissingTags
  <1>5. IsProd(r)
    BY <1>2, <1>4 DEF IsProd
  <1> QED
    BY <1>2, <1>4, <1>5
    DEF Fires, LowUtilization, PublicS3, MissingAlarms, UnhealthyService,
        MissingBackup, RepeatedErrors, ElevatedLatency, FailureRateIncrease

LEMMA LogsFire ==
  ASSUME NEW r, r = MockInventory["acme-logs-private"]
  PROVE  \A rule : ~Fires(rule, r)
  <1>1. r = [Bucket EXCEPT
              !.tags = [Bucket.tags EXCEPT !["Environment"] = "set"]]
    BY DEF MockInventory, InstanceNames, BucketNames, FunctionNames, MockBucket
  <1>2. r.type = "s3" /\ r.prodName = FALSE /\ r.publicAccess = "no" /\
        r.backup = "yes" /\ r.alarms = {"other"} /\ r.health = "unset" /\
        r.cpu = 0 /\ r.lowPeriods = 0 /\ r.errorRate = 0 /\
        r.errorCount = 0 /\ r.p99 = 0 /\ r.failureDelta = 0
    BY <1>1 DEF Bucket, Fine
  <1>3. r.tags = [Bucket.tags EXCEPT !["Environment"] = "set"]
    BY <1>1 DEF Bucket, Fine
  <1>4. r.tags["Environment"] = "set" /\ MissingTags(r) = {}
    BY <1>3, MockTags DEF MissingTags, RequiredTags
  <1>5. ~IsProd(r)
    BY <1>2, <1>4 DEF IsProd
  <1> QED
    BY <1>2, <1>4, <1>5
    DEF Fires, LowUtilization, PublicS3, MissingAlarms, UnhealthyService,
        MissingBackup, RepeatedErrors, ElevatedLatency, FailureRateIncrease

LEMMA LakeFires ==
  ASSUME NEW r, r = MockInventory["acme-data-lake"]
  PROVE  \A rule : Fires(rule, r) <=> rule \in
             {"s3.public_access", "cloudwatch.missing_alarms"}
  <1>1. r = [Bucket EXCEPT !.publicAccess = "yes", !.alarms = {}]
    BY DEF MockInventory, InstanceNames, BucketNames, FunctionNames, MockBucket
  <1>2. r.type = "s3" /\ r.prodName = FALSE /\ r.publicAccess = "yes" /\
        r.backup = "yes" /\ r.alarms = {} /\ r.health = "unset" /\
        r.cpu = 0 /\ r.lowPeriods = 0 /\ r.errorRate = 0 /\
        r.errorCount = 0 /\ r.p99 = 0 /\ r.failureDelta = 0
    BY <1>1 DEF Bucket, Fine
  <1>3. r.tags = Bucket.tags
    BY <1>1 DEF Bucket, Fine
  <1>4. r.tags["Environment"] = "prod" /\ MissingTags(r) = {}
    BY <1>3, MockTags DEF MissingTags, RequiredTags
  <1>5. IsProd(r)
    BY <1>2, <1>4 DEF IsProd
  <1> QED
    BY <1>2, <1>4, <1>5
    DEF Fires, LowUtilization, PublicS3, MissingAlarms, UnhealthyService,
        MissingBackup, RepeatedErrors, ElevatedLatency, FailureRateIncrease

LEMMA BackupsFire ==
  ASSUME NEW r, r = MockInventory["acme-backups"]
  PROVE  \A rule : ~Fires(rule, r)
  <1>1. r = Bucket
    BY DEF MockInventory, InstanceNames, BucketNames, FunctionNames, MockBucket
  <1>2. r.type = "s3" /\ r.prodName = FALSE /\ r.publicAccess = "no" /\
        r.backup = "yes" /\ r.alarms = {"other"} /\ r.health = "unset" /\
        r.cpu = 0 /\ r.lowPeriods = 0 /\ r.errorRate = 0 /\
        r.errorCount = 0 /\ r.p99 = 0 /\ r.failureDelta = 0
    BY <1>1 DEF Bucket, Fine
  <1>3. r.tags = Bucket.tags
    BY <1>1 DEF Bucket, Fine
  <1>4. r.tags["Environment"] = "prod" /\ MissingTags(r) = {}
    BY <1>3, MockTags DEF MissingTags, RequiredTags
  <1>5. IsProd(r)
    BY <1>2, <1>4 DEF IsProd
  <1> QED
    BY <1>2, <1>4, <1>5
    DEF Fires, LowUtilization, PublicS3, MissingAlarms, UnhealthyService,
        MissingBackup, RepeatedErrors, ElevatedLatency, FailureRateIncrease

LEMMA IngestFires ==
  ASSUME NEW r, r = MockInventory["ingest"]
  PROVE  \A rule : Fires(rule, r) <=> rule \in
             {"resource.missing_tags", "cloudwatch.missing_alarms",
              "app.repeated_errors", "api.elevated_latency"}
  <1>1. r = [Function EXCEPT
              !.tags = [Function.tags EXCEPT !["CostCenter"] = ""],
              !.alarms = {}, !.errorRate = 90, !.errorCount = 41,
              !.p99 = 1800, !.failureDelta = 40]
    BY DEF MockInventory, InstanceNames, BucketNames, FunctionNames, MockFunction
  <1>2. r.type = "lambda" /\ r.prodName = FALSE /\ r.publicAccess = "unset" /\
        r.backup = "no" /\ r.alarms = {} /\ r.health = "healthy" /\
        r.cpu = 0 /\ r.lowPeriods = 0 /\ r.errorRate = 90 /\
        r.errorCount = 41 /\ r.p99 = 1800 /\ r.failureDelta = 40
    BY <1>1 DEF Function, Fine
  <1>3. r.tags = [Function.tags EXCEPT !["CostCenter"] = ""]
    BY <1>1 DEF Function, Fine
  <1>4. r.tags["Environment"] = "prod" /\ MissingTags(r) # {}
    <2>1. Function.tags = [t \in RequiredTags |-> IF t = "Environment" THEN "prod" ELSE "set"]
      BY MockTags
    <2>2. "Environment" \in RequiredTags /\ "CostCenter" \in RequiredTags
      BY DEF RequiredTags
    <2>3. r.tags["Environment"] = "prod" /\ r.tags["CostCenter"] = ""
      BY <1>3, <2>1, <2>2
    <2> QED
      BY <2>2, <2>3 DEF MissingTags
  <1>5. IsProd(r)
    BY <1>2, <1>4 DEF IsProd
  <1> QED
    BY <1>2, <1>4, <1>5
    DEF Fires, LowUtilization, PublicS3, MissingAlarms, UnhealthyService,
        MissingBackup, RepeatedErrors, ElevatedLatency, FailureRateIncrease

LEMMA ReportsFire ==
  ASSUME NEW r, r = MockInventory["reports"]
  PROVE  \A rule : ~Fires(rule, r)
  <1>1. r = [Function EXCEPT !.errorRate = 4, !.errorCount = 3, !.p99 = 420]
    BY DEF MockInventory, InstanceNames, BucketNames, FunctionNames, MockFunction
  <1>2. r.type = "lambda" /\ r.prodName = FALSE /\ r.publicAccess = "unset" /\
        r.backup = "no" /\ r.alarms = {"other"} /\ r.health = "healthy" /\
        r.cpu = 0 /\ r.lowPeriods = 0 /\ r.errorRate = 4 /\
        r.errorCount = 3 /\ r.p99 = 420 /\ r.failureDelta = 0
    BY <1>1 DEF Function, Fine
  <1>3. r.tags = Function.tags
    BY <1>1 DEF Function, Fine
  <1>4. r.tags["Environment"] = "prod" /\ MissingTags(r) = {}
    BY <1>3, MockTags DEF MissingTags, RequiredTags
  <1>5. IsProd(r)
    BY <1>2, <1>4 DEF IsProd
  <1> QED
    BY <1>2, <1>4, <1>5
    DEF Fires, LowUtilization, PublicS3, MissingAlarms, UnhealthyService,
        MissingBackup, RepeatedErrors, ElevatedLatency, FailureRateIncrease

LEMMA WebhooksFire ==
  ASSUME NEW r, r = MockInventory["webhooks"]
  PROVE  \A rule : Fires(rule, r) <=> rule \in
             {"reliability.failure_rate_increase"}
  <1>1. r = [Function EXCEPT !.errorRate = 30, !.errorCount = 19, !.p99 = 700,
              !.failureDelta = 220]
    BY DEF MockInventory, InstanceNames, BucketNames, FunctionNames, MockFunction
  <1>2. r.type = "lambda" /\ r.prodName = FALSE /\ r.publicAccess = "unset" /\
        r.backup = "no" /\ r.alarms = {"other"} /\ r.health = "healthy" /\
        r.cpu = 0 /\ r.lowPeriods = 0 /\ r.errorRate = 30 /\
        r.errorCount = 19 /\ r.p99 = 700 /\ r.failureDelta = 220
    BY <1>1 DEF Function, Fine
  <1>3. r.tags = Function.tags
    BY <1>1 DEF Function, Fine
  <1>4. r.tags["Environment"] = "prod" /\ MissingTags(r) = {}
    BY <1>3, MockTags DEF MissingTags, RequiredTags
  <1>5. IsProd(r)
    BY <1>2, <1>4 DEF IsProd
  <1> QED
    BY <1>2, <1>4, <1>5
    DEF Fires, LowUtilization, PublicS3, MissingAlarms, UnhealthyService,
        MissingBackup, RepeatedErrors, ElevatedLatency, FailureRateIncrease

LEMMA AlarmFires ==
  ASSUME NEW r, r = MockInventory["cpu-high"]
  PROVE  \A rule : ~Fires(rule, r)
  <1>1. r = [Fine EXCEPT !.type = "cloudwatch", !.publicAccess = "unset",
              !.backup = "unset", !.health = "unset", !.cpu = 0]
    BY DEF MockInventory, InstanceNames, BucketNames, FunctionNames, MockFunction
  <1>2. r.type = "cloudwatch" /\ r.prodName = FALSE /\
        r.publicAccess = "unset" /\ r.backup = "unset" /\
        r.alarms = {"other"} /\ r.health = "unset" /\ r.cpu = 0 /\
        r.lowPeriods = 0 /\ r.errorRate = 0 /\ r.errorCount = 0 /\
        r.p99 = 0 /\ r.failureDelta = 0
    BY <1>1 DEF Fine
  <1>3. r.tags = Fine.tags
    BY <1>1 DEF Fine
  <1>4. r.tags["Environment"] = "prod" /\ MissingTags(r) = {}
    BY <1>3, MockTags DEF MissingTags, RequiredTags
  <1>5. IsProd(r)
    BY <1>2, <1>4 DEF IsProd
  <1> QED
    BY <1>2, <1>4, <1>5
    DEF Fires, LowUtilization, PublicS3, MissingAlarms, UnhealthyService,
        MissingBackup, RepeatedErrors, ElevatedLatency, FailureRateIncrease
\* All of them, in the order of the mock provider and of the rules.
DemoFirings ==
    <<<<"i-web-prod-1", "ec2.low_utilization">>,
      <<"i-web-prod-1", "resource.missing_tags">>,
      <<"i-web-prod-1", "resource.missing_backup">>,
      <<"i-api-prod-2", "service.unhealthy">>,
      <<"i-api-prod-2", "app.repeated_errors">>,
      <<"i-api-prod-2", "api.elevated_latency">>,
      <<"i-api-prod-2", "reliability.failure_rate_increase">>,
      <<"i-batch-dev-3", "resource.missing_tags">>,
      <<"i-db-prod", "resource.missing_backup">>,
      <<"i-cache-prod", "cloudwatch.missing_alarms">>,
      <<"acme-public-assets", "resource.missing_tags">>,
      <<"acme-public-assets", "s3.public_access">>,
      <<"acme-public-assets", "cloudwatch.missing_alarms">>,
      <<"acme-public-assets", "resource.missing_backup">>,
      <<"acme-data-lake", "s3.public_access">>,
      <<"acme-data-lake", "cloudwatch.missing_alarms">>,
      <<"ingest", "resource.missing_tags">>,
      <<"ingest", "cloudwatch.missing_alarms">>,
      <<"ingest", "app.repeated_errors">>,
      <<"ingest", "api.elevated_latency">>,
      <<"webhooks", "reliability.failure_rate_increase">>>>

MockNames == <<"i-web-prod-1", "i-api-prod-2", "i-batch-dev-3", "i-db-prod",
               "i-cache-prod", "acme-public-assets", "acme-logs-private",
               "acme-data-lake", "acme-backups", "ingest", "reports", "webhooks",
               "cpu-high">>

LEMMA MockSize == Cardinality(DOMAIN MockInventory) = 13
  <1>1. DOMAIN MockInventory = InstanceNames \cup BucketNames \cup FunctionNames
    BY DEF MockInventory
  <1>2. MockNames \in [1 .. 13 -> DOMAIN MockInventory]
    BY <1>1 DEF MockNames, InstanceNames, BucketNames, FunctionNames
  <1>3. \A i, j \in 1 .. 13 : MockNames[i] = MockNames[j] => i = j
    BY DEF MockNames
  <1>4. \A r \in DOMAIN MockInventory : \E i \in 1 .. 13 : MockNames[i] = r
    BY <1>1 DEF MockNames, InstanceNames, BucketNames, FunctionNames
  <1>5. MockNames \in Bijection(1 .. 13, DOMAIN MockInventory)
    BY <1>2, <1>3, <1>4 DEF Bijection, Injection, Surjection, IsInjective
  <1> QED
    BY <1>5, FS_CountingElements DEF ExistsBijection

LEMMA FiringsDiffer == \A i, j \in 1 .. 21 : DemoFirings[i] = DemoFirings[j] => i = j
  BY DEF DemoFirings

LEMMA FiringsPairs ==
  \A i \in 1 .. 21 : /\ DemoFirings[i][1] \in DOMAIN MockInventory
                     /\ DemoFirings[i][2] \in RuleNames
                     /\ DemoFirings[i] = <<DemoFirings[i][1], DemoFirings[i][2]>>
  <1>1. DOMAIN MockInventory = InstanceNames \cup BucketNames \cup FunctionNames
    BY DEF MockInventory
  <1> QED
    BY <1>1 DEF DemoFirings, RuleNames, InstanceNames, BucketNames, FunctionNames

\* A rule fires on a mock resource if and only if it is listed above.
LEMMA FiringsListed ==
  ASSUME NEW r \in DOMAIN MockInventory, NEW rule
  PROVE  Fires(rule, MockInventory[r]) <=>
           \E i \in 1 .. 21 : DemoFirings[i] = <<r, rule>>
  <1> DEFINE Listed(i) == DemoFirings[i] = <<r, rule>>
  <1>1. (\E i \in 1 .. 21 : Listed(i)) <=>
          \/ Listed(1) \/ Listed(2) \/ Listed(3) \/ Listed(4) \/ Listed(5)
          \/ Listed(6) \/ Listed(7) \/ Listed(8) \/ Listed(9) \/ Listed(10)
          \/ Listed(11) \/ Listed(12) \/ Listed(13) \/ Listed(14) \/ Listed(15)
          \/ Listed(16) \/ Listed(17) \/ Listed(18) \/ Listed(19) \/ Listed(20)
          \/ Listed(21)
    <2> HIDE DEF Listed
    <2> QED
      OBVIOUS
  <1>2. r \in InstanceNames \cup BucketNames \cup FunctionNames
    BY DEF MockInventory
  <1>3. CASE r = "i-web-prod-1"
    BY <1>1, <1>3, WebFires DEF DemoFirings
  <1>4. CASE r = "i-api-prod-2"
    BY <1>1, <1>4, ApiFires DEF DemoFirings
  <1>5. CASE r = "i-batch-dev-3"
    BY <1>1, <1>5, BatchFires DEF DemoFirings
  <1>6. CASE r = "i-db-prod"
    BY <1>1, <1>6, DbFires DEF DemoFirings
  <1>7. CASE r = "i-cache-prod"
    BY <1>1, <1>7, CacheFires DEF DemoFirings
  <1>8. CASE r = "acme-public-assets"
    BY <1>1, <1>8, AssetsFire DEF DemoFirings
  <1>9. CASE r = "acme-logs-private"
    BY <1>1, <1>9, LogsFire DEF DemoFirings
  <1>10. CASE r = "acme-data-lake"
    BY <1>1, <1>10, LakeFires DEF DemoFirings
  <1>11. CASE r = "acme-backups"
    BY <1>1, <1>11, BackupsFire DEF DemoFirings
  <1>12. CASE r = "ingest"
    BY <1>1, <1>12, IngestFires DEF DemoFirings
  <1>13. CASE r = "reports"
    BY <1>1, <1>13, ReportsFire DEF DemoFirings
  <1>14. CASE r = "webhooks"
    BY <1>1, <1>14, WebhooksFire DEF DemoFirings
  <1>15. CASE r = "cpu-high"
    BY <1>1, <1>15, AlarmFires DEF DemoFirings
  <1> QED
    BY <1>2, <1>3, <1>4, <1>5, <1>6, <1>7, <1>8, <1>9, <1>10, <1>11, <1>12,
       <1>13, <1>14, <1>15
    DEF InstanceNames, BucketNames, FunctionNames

\* Every rule has a fixture.
LEMMA RulesHaveFixtures ==
  ASSUME NEW rule \in RuleNames
  PROVE  \E i \in 1 .. 21 : DemoFirings[i][2] = rule
  <1>1. /\ DemoFirings[1][2] = "ec2.low_utilization"
        /\ DemoFirings[2][2] = "resource.missing_tags"
        /\ DemoFirings[3][2] = "resource.missing_backup"
        /\ DemoFirings[4][2] = "service.unhealthy"
        /\ DemoFirings[5][2] = "app.repeated_errors"
        /\ DemoFirings[6][2] = "api.elevated_latency"
        /\ DemoFirings[7][2] = "reliability.failure_rate_increase"
        /\ DemoFirings[10][2] = "cloudwatch.missing_alarms"
        /\ DemoFirings[12][2] = "s3.public_access"
    BY DEF DemoFirings
  <1>2. /\ 1 \in 1 .. 21 /\ 2 \in 1 .. 21 /\ 3 \in 1 .. 21 /\ 4 \in 1 .. 21
        /\ 5 \in 1 .. 21 /\ 6 \in 1 .. 21 /\ 7 \in 1 .. 21 /\ 10 \in 1 .. 21
        /\ 12 \in 1 .. 21
    OBVIOUS
  <1> QED
    BY <1>1, <1>2 DEF RuleNames

-----------------------------------------------------------------------------
(* What a job over the demonstration reports.                              *)

DemoPlaces ==
    {p \in Places : /\ ResourceAt(p) \in DOMAIN MockInventory
                    /\ Fires(RuleAt(p), MockInventory[ResourceAt(p)])}

\* No two places have the same rule on the same resource.
LEMMA PlaceUnique ==
  ASSUME NEW p \in Places, NEW q \in Places,
         ResourceAt(p) = ResourceAt(q), RuleAt(p) = RuleAt(q)
  PROVE  p = q
  <1>1. /\ p \in Nat /\ 1 <= p /\ p <= Len(Order) * 9
        /\ q \in Nat /\ 1 <= q /\ q <= Len(Order) * 9
    BY LastTyped DEF Places
  <1>2. PICK i \in Int, k \in Int, j \in Int, l \in Int :
           /\ i = ((p - 1) \div 9) + 1 /\ k = ((p - 1) % 9) + 1
           /\ j = ((q - 1) \div 9) + 1 /\ l = ((q - 1) % 9) + 1
    BY <1>1
  <1>3. /\ p = 9 * (i - 1) + k /\ q = 9 * (j - 1) + l
        /\ k \in 1 .. 9 /\ l \in 1 .. 9
        /\ i \in 1 .. Len(Order) /\ j \in 1 .. Len(Order)
    BY <1>1, <1>2, LastTyped
  <1>4. Order[i] = Order[j] /\ Rules[k] = Rules[l]
    BY <1>2, RulesNamed DEF ResourceAt, RuleAt
  <1>5. i = j
    <2>1. DOMAIN Order = 1 .. Len(Order)
      BY InventoryAssumption
    <2>2. \A m, o \in 1 .. Len(Order) : Order[m] = Order[o] => m = o
      BY <2>1, InventoryAssumption
    <2> QED
      BY <1>3, <1>4, <2>2
  <1>6. k = l
    BY <1>3, <1>4 DEF Rules
  <1> QED
    BY <1>3, <1>5, <1>6

\* There are as many as there are firings, in any order of the resources.
LEMMA DemoSize ==
  ASSUME MockFilled
  PROVE  /\ Cardinality(DemoPlaces) = 21
         /\ \A rule \in RuleNames : \E p \in DemoPlaces : RuleAt(p) = rule
  <1> DEFINE Listed(i, p) == ResourceAt(p) = DemoFirings[i][1] /\ RuleAt(p) = DemoFirings[i][2]
  <1>1. \A i \in 1 .. 21 : \E p \in DemoPlaces : Listed(i, p)
    <2> SUFFICES ASSUME NEW i \in 1 .. 21
                 PROVE  \E p \in DemoPlaces : Listed(i, p)
      OBVIOUS
    <2>1. PICK r \in DOMAIN MockInventory, rule \in RuleNames :
             DemoFirings[i] = <<r, rule>> /\ r = DemoFirings[i][1] /\ rule = DemoFirings[i][2]
      BY FiringsPairs
    <2>2. r \in DOMAIN Inventory
      BY DEF MockFilled
    <2>3. PICK p \in Places : ResourceAt(p) = r /\ RuleAt(p) = rule
      BY <2>2, PlaceExists
    <2>4. Fires(rule, MockInventory[r])
      BY <2>1, FiringsListed
    <2> QED
      BY <2>1, <2>3, <2>4 DEF DemoPlaces
  <1>2. \A p \in DemoPlaces : \E i \in 1 .. 21 : Listed(i, p)
    <2> SUFFICES ASSUME NEW p \in DemoPlaces
                 PROVE  \E i \in 1 .. 21 : Listed(i, p)
      OBVIOUS
    <2>1. PICK i \in 1 .. 21 : DemoFirings[i] = <<ResourceAt(p), RuleAt(p)>>
      BY FiringsListed DEF DemoPlaces
    <2> QED
      BY <2>1
  <1>3. \A i, j \in 1 .. 21 : \A p : Listed(i, p) /\ Listed(j, p) => i = j
    <2> SUFFICES ASSUME NEW i \in 1 .. 21, NEW j \in 1 .. 21, NEW p,
                        Listed(i, p), Listed(j, p)
                 PROVE  i = j
      OBVIOUS
    <2>1. /\ DemoFirings[i] = <<DemoFirings[i][1], DemoFirings[i][2]>>
          /\ DemoFirings[j] = <<DemoFirings[j][1], DemoFirings[j][2]>>
      BY FiringsPairs
    <2>2. DemoFirings[i][1] = DemoFirings[j][1] /\ DemoFirings[i][2] = DemoFirings[j][2]
      OBVIOUS
    <2>3. DemoFirings[i] = DemoFirings[j]
      BY <2>1, <2>2
    <2> QED
      BY <2>3, FiringsDiffer
  <1>4. \A i \in 1 .. 21 : \A p, q \in DemoPlaces : Listed(i, p) /\ Listed(i, q) => p = q
    BY PlaceUnique DEF DemoPlaces
  <1>5. \A rule \in RuleNames : \E p \in DemoPlaces : RuleAt(p) = rule
    BY <1>1, RulesHaveFixtures
  <1> HIDE DEF Listed
  <1> DEFINE f == [i \in 1 .. 21 |-> CHOOSE p \in DemoPlaces : Listed(i, p)]
  <1>6. \A i \in 1 .. 21 : f[i] \in DemoPlaces /\ Listed(i, f[i])
    BY <1>1
  <1>7. f \in [1 .. 21 -> DemoPlaces]
    BY <1>6
  <1> HIDE DEF f
  <1>8. \A i, j \in 1 .. 21 : f[i] = f[j] => i = j
    BY <1>3, <1>6
  <1>9. \A p \in DemoPlaces : \E i \in 1 .. 21 : f[i] = p
    BY <1>2, <1>4, <1>6
  <1>10. f \in Bijection(1 .. 21, DemoPlaces)
    BY <1>7, <1>8, <1>9 DEF Bijection, Injection, Surjection, IsInjective
  <1>11. Cardinality(DemoPlaces) = 21
    BY <1>10, FS_CountingElements DEF ExistsBijection
  <1> QED
    BY <1>5, <1>11

\* Until something is remediated syncs change nothing, every attempt reports
\* the same and nothing else is stored.
DemoSoFar ==
    fixes = 0 /\ job.scope = DOMAIN MockInventory =>
        /\ \A r \in DOMAIN MockInventory : resource[r] = MockInventory[r]
        /\ \A n \in Attempts : run[n].pc \in Loaded => run[n].report = DemoPlaces
        /\ job.status = "completed" => run[job.by].report = DemoPlaces
        /\ finding \subseteq DemoPlaces
        /\ recommendation \subseteq DemoPlaces

ScopeScanned == job.status = "completed" => job.scanned = Cardinality(job.scope)

DemoInv == WholeInv /\ AtReport /\ ScopeScanned /\ DemoSoFar

LEMMA ScopeScannedStep == TypeInv /\ ScopeScanned /\ [Next]_vars => ScopeScanned'
  <1> SUFFICES ASSUME TypeInv, ScopeScanned, [Next]_vars, job'.status = "completed"
               PROVE  job'.scanned = Cardinality(job'.scope)
    BY DEF ScopeScanned
  <1>0. job \in JobType
    BY DEF TypeInv, TypeOK
  <1>1. CASE UNCHANGED job
    BY <1>1 DEF ScopeScanned
  <1>2. ASSUME NEW n \in Attempts, Claim(n)
        PROVE  FALSE
    BY <1>0, <1>2 DEF Claim, JobType
  <1>3. ASSUME NEW n \in Attempts, Finish(n)
        PROVE  job' = job \/ job'.scanned = Cardinality(job'.scope)
    BY <1>0, <1>3 DEF Finish, JobType
  <1>4. ASSUME NEW n \in Attempts, JobFails(n)
        PROVE  job' = job
    BY <1>0, <1>4 DEF JobFails, JobType
  <1> QED
    BY <1>1, <1>2, <1>3, <1>4
    DEF Next, vars, Load, Analyze, StoreFinding, StoreRecommendation,
        StoreCheck, Break, TimeOut, Remediate, Sync

LEMMA DemoSoFarStep ==
  MockFilled /\ WholeInv /\ AtReport /\ DemoSoFar /\ [Next]_vars => DemoSoFar'
  <1> SUFFICES ASSUME MockFilled, WholeInv, AtReport, DemoSoFar, [Next]_vars,
                      fixes' = 0, job'.scope = DOMAIN MockInventory
               PROVE  DemoSoFar'
    BY DEF DemoSoFar
  <1>0. /\ TypeInv /\ TypeOK /\ fixes = 0
        /\ job.scope = DOMAIN MockInventory
    BY NoFixYet, ScopeStays DEF WholeInv, TypeInv
  <1>1. ASSUME NEW r \in DOMAIN MockInventory
        PROVE  resource'[r] = MockInventory[r]
    <2>1. resource[r] = MockInventory[r]
      BY <1>0 DEF DemoSoFar
    <2>2. ASSUME NEW q \in DOMAIN Inventory, Sync(q)
          PROVE  resource'[r] = MockInventory[r]
      BY <1>0, <2>1, <2>2 DEF Sync, TypeOK, MockFilled
    <2> QED
      BY <1>0, <2>1, <2>2, NoFixYet
  <1>2. ASSUME NEW n \in Attempts, run'[n].pc \in Loaded
        PROVE  run'[n].report = DemoPlaces
    <2>1. CASE Load(n)
      <3>1. run'[n].report = {p \in Places :
                                 /\ ResourceAt(p) \in DOMAIN MockInventory
                                 /\ Fires(RuleAt(p), resource[ResourceAt(p)])}
        BY <1>0, <2>1, LoadReports
      <3>2. \A p \in Places : ResourceAt(p) \in DOMAIN MockInventory =>
               resource[ResourceAt(p)] = MockInventory[ResourceAt(p)]
        BY <1>0 DEF DemoSoFar
      <3> QED
        BY <3>1, <3>2 DEF DemoPlaces
    <2>2. CASE run'[n].report = run[n].report /\ run[n].pc \in Loaded
      BY <1>0, <2>2 DEF DemoSoFar
    <2> QED
      BY <1>0, <1>2, <2>1, <2>2, ReportsSettle
  <1>3. ASSUME job'.status = "completed"
        PROVE  run'[job'.by].report = DemoPlaces
    <2>1. CASE job.status = "completed" /\ job'.by = job.by
      <3>1. job.by \in Attempts /\ run[job.by].pc = "over"
        BY <2>1 DEF WholeInv, CompletedBy
      <3>2. run'[job.by].report = run[job.by].report
        BY <1>0, <3>1, ReportsSettle DEF Load, At
      <3> QED
        BY <1>0, <2>1, <3>2 DEF DemoSoFar
    <2>2. ASSUME NEW n \in Attempts, Finish(n), job'.by = n
          PROVE  run'[job'.by].report = DemoPlaces
      <3>1. run[n].pc \in Loaded
        BY <2>2 DEF Finish, At, Loaded
      <3>2. run'[n].report = run[n].report
        BY <1>0, <2>2, ReportsSettle DEF Load, Finish, At
      <3>3. run[n].report = DemoPlaces
        BY <1>0, <3>1 DEF DemoSoFar
      <3> QED
        BY <2>2, <3>2, <3>3
    <2> QED
      BY <1>0, <1>3, <2>1, <2>2, CompletedByFinish
  <1>4. ASSUME NEW n \in Attempts, StoreFinding(n) \/ StoreRecommendation(n)
        PROVE  run[n].at \in DemoPlaces
    <2>1. run[n].pc \in {"finding", "recommending"} /\ run[n].at # Last + 1
      BY <1>0, <1>4, LastTyped
      DEF StoreFinding, StoreRecommendation, At, AllStored, TypeInv, AtPlaces, Places
    <2>2. run[n].at \in run[n].report
      BY <2>1 DEF AtReport
    <2>3. run[n].report = DemoPlaces
      BY <1>0, <2>1 DEF DemoSoFar, Loaded
    <2> QED
      BY <2>2, <2>3
  <1>5. finding' \subseteq DemoPlaces /\ recommendation' \subseteq DemoPlaces
    <2>1. finding \subseteq DemoPlaces /\ recommendation \subseteq DemoPlaces
      BY <1>0 DEF DemoSoFar
    <2>2. ASSUME NEW n \in Attempts, StoreFinding(n)
          PROVE  finding' \subseteq DemoPlaces /\ recommendation' \subseteq DemoPlaces
      BY <1>4, <2>1, <2>2 DEF StoreFinding
    <2>3. ASSUME NEW n \in Attempts, StoreRecommendation(n)
          PROVE  finding' \subseteq DemoPlaces /\ recommendation' \subseteq DemoPlaces
      BY <1>4, <2>1, <2>3 DEF StoreRecommendation
    <2> QED
      BY <2>1, <2>2, <2>3
      DEF Next, vars, Claim, Load, Analyze, StoreCheck, Finish, Break, TimeOut,
          Remediate, Sync
  <1> QED
    BY <1>1, <1>2, <1>3, <1>5 DEF DemoSoFar

\* "diagnostic job completed with 21 findings / 21 recommendations"
\* (README.md:169): so ends every job over the resources of the mock provider
\* that nothing has remediated, whatever else is in the inventory, in whatever
\* order find() returns it, and after whatever attempts and syncs.
THEOREM DemoReports ==
  ASSUME MockFilled
  PROVE  Spec => []DemoReport
  <1>1. Init => DemoInv
    <2> SUFFICES ASSUME Init
                 PROVE  DemoInv
      OBVIOUS
    <2>1. \A r \in DOMAIN MockInventory : resource[r] = MockInventory[r]
      BY DEF Init, MockFilled
    <2>2. AtReport
      BY DEF Init, AtReport
    <2> QED
      BY <2>1, <2>2, InitWholeInv DEF Init, DemoInv, ScopeScanned, DemoSoFar, Loaded
  <1>2. DemoInv /\ [Next]_vars => DemoInv'
    BY NextTypeInv, RunsStoreStep, OneAwaitedStep, CompletedByStep, AtReportStep,
       ScopeScannedStep, DemoSoFarStep
    DEF DemoInv, WholeInv
  <1>3. DemoInv => DemoReport
    <2> SUFFICES ASSUME DemoInv, job.status = "completed",
                        job.scope = DOMAIN MockInventory, fixes = 0
                 PROVE  /\ job.scanned = 13
                        /\ job.created = 21
                        /\ Cardinality(finding) = 21
                        /\ Cardinality(recommendation) = 21
                        /\ \A i \in 1 .. Len(Rules) : \E p \in finding : RuleAt(p) = Rules[i]
      BY DEF DemoReport
    <2>1. /\ run[job.by].report = DemoPlaces /\ job.scanned = 13
          /\ finding \subseteq DemoPlaces /\ recommendation \subseteq DemoPlaces
      BY MockSize DEF DemoInv, ScopeScanned, DemoSoFar
    <2>2. /\ job.created = Cardinality(DemoPlaces)
          /\ \A q \in DemoPlaces : q \in finding /\ q \in recommendation
      BY <2>1 DEF DemoInv, WholeInv, CompletedBy, Stored
    <2>3. finding = DemoPlaces /\ recommendation = DemoPlaces
      BY <2>1, <2>2
    <2> QED
      BY <2>1, <2>2, <2>3, DemoSize, RulesNamed
  <1> QED
    BY <1>1, <1>2, <1>3, PTL DEF Spec

=============================================================================
