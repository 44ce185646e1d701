---------------------------- MODULE PolicyEngine ----------------------------
(***************************************************************************)
(* The policies of the diagnostics service (services/diagnostics/app/      *)
(* engine.py), the simulated actions that answer them (packages/shared/    *)
(* src/remediation/engine.ts), and the inventory of the mock provider they *)
(* are demonstrated on (packages/shared/src/providers/mock.ts).            *)
(*                                                                         *)
(* A resource is what these read of it.  Rates are in thousandths, the CPU *)
(* average in tenths of a percent.  An absent number is 0, as the rules    *)
(* take it; an absent tag is "", which the rules do not tell from it.      *)
(***************************************************************************)
EXTENDS Naturals, Sequences

RequiredTags == {"Environment", "Owner", "CostCenter", "Service"}

\* Tag values: "prod" for those of PRODUCTION_HINTS, "platform" for what
\* add_missing_tag writes, "set" for any other.
TagValues == {"", "prod", "platform", "set"}

Allowlisted == {"add_missing_tag", "create_alarm", "enable_backup_policy",
                "restart_unhealthy_service", "restrict_public_storage"}

ResourceType ==
    [type : {"ec2", "s3", "lambda", "cloudwatch"},
     prodName : BOOLEAN,                       \* "prod" is part of the name
     tags : [RequiredTags -> TagValues],
     publicAccess : {"unset", "no", "yes"},
     backup : {"unset", "no", "yes"},
     alarms : SUBSET {"health", "other"},      \* its own, and those it came with
     health : {"unset", "unknown", "healthy", "unhealthy"},
     cpu : Nat, lowPeriods : Nat, errorRate : Nat, errorCount : Nat,
     p99 : Nat, failureDelta : Nat]

\* A slip of the definition below: the name alone.
IsProdByName(r) == r.prodName

\* _is_prod
IsProd(r) == r.tags["Environment"] = "prod" \/ r.prodName

-----------------------------------------------------------------------------
LowUtilization(r) == r.type = "ec2" /\ r.cpu < 100 /\ r.lowPeriods >= 3

MissingTags(r) == {t \in RequiredTags : r.tags[t] = ""}

PublicS3(r) == r.type = "s3" /\ r.publicAccess = "yes"

MissingAlarms(r) == r.type # "cloudwatch" /\ IsProd(r) /\ r.alarms = {}

UnhealthyService(r) == r.health = "unhealthy"

MissingBackup(r) == r.type \in {"ec2", "s3"} /\ r.backup = "no" /\ IsProd(r)

RepeatedErrors(r) == r.errorRate > 50 /\ r.errorCount > 10

ElevatedLatency(r) == r.p99 > 1000

FailureRateIncrease(r) == r.failureDelta > 100

\* RULES, in the order of evaluation.
Rules == <<"ec2.low_utilization", "resource.missing_tags", "s3.public_access",
           "cloudwatch.missing_alarms", "service.unhealthy",
           "resource.missing_backup", "app.repeated_errors",
           "api.elevated_latency", "reliability.failure_rate_increase">>

Fires(rule, r) ==
    \/ rule = "ec2.low_utilization" /\ LowUtilization(r)
    \/ rule = "resource.missing_tags" /\ MissingTags(r) # {}
    \/ rule = "s3.public_access" /\ PublicS3(r)
    \/ rule = "cloudwatch.missing_alarms" /\ MissingAlarms(r)
    \/ rule = "service.unhealthy" /\ UnhealthyService(r)
    \/ rule = "resource.missing_backup" /\ MissingBackup(r)
    \/ rule = "app.repeated_errors" /\ RepeatedErrors(r)
    \/ rule = "api.elevated_latency" /\ ElevatedLatency(r)
    \/ rule = "reliability.failure_rate_increase" /\ FailureRateIncrease(r)

\* The action each rule recommends, which is also the one of ACTION_BY_RULE.
ActionOf ==
    [rule \in {Rules[i] : i \in 1 .. Len(Rules)} |->
        IF rule = "ec2.low_utilization" THEN "manual_review"
        ELSE IF rule = "resource.missing_tags" THEN "add_missing_tag"
        ELSE IF rule = "s3.public_access" THEN "restrict_public_storage"
        ELSE IF rule \in {"service.unhealthy", "app.repeated_errors"}
             THEN "restart_unhealthy_service"
        ELSE IF rule = "resource.missing_backup" THEN "enable_backup_policy"
        ELSE "create_alarm"]

-----------------------------------------------------------------------------
\* A slip of the definition below: a restart that leaves the error rate alone.
AppliedToConfig(action, r) ==
    IF action = "add_missing_tag" THEN [r EXCEPT !.tags["Owner"] = "platform"]
    ELSE IF action = "create_alarm" THEN [r EXCEPT !.alarms = @ \cup {"health"}]
    ELSE IF action = "enable_backup_policy" THEN [r EXCEPT !.backup = "yes"]
    ELSE IF action = "restart_unhealthy_service" THEN [r EXCEPT !.health = "healthy"]
    ELSE [r EXCEPT !.publicAccess = "no"]

\* applySimulatedAction, with the parameters of defaultParams.
Applied(action, r) ==
    IF action = "add_missing_tag" THEN [r EXCEPT !.tags["Owner"] = "platform"]
    ELSE IF action = "create_alarm" THEN [r EXCEPT !.alarms = @ \cup {"health"}]
    ELSE IF action = "enable_backup_policy" THEN [r EXCEPT !.backup = "yes"]
    ELSE IF action = "restart_unhealthy_service"
         THEN [r EXCEPT !.health = "healthy",
                        !.errorRate = IF @ > 10 THEN 10 ELSE @]
    ELSE [r EXCEPT !.publicAccess = "no"]

-----------------------------------------------------------------------------
\* A resource in production on which no rule fires.
Fine == [type |-> "ec2", prodName |-> FALSE,
         tags |-> [[t \in RequiredTags |-> "set"] EXCEPT !["Environment"] = "prod"],
         publicAccess |-> "no", backup |-> "yes", alarms |-> {"other"},
         health |-> "healthy", cpu |-> 500, lowPeriods |-> 0, errorRate |-> 0,
         errorCount |-> 0, p99 |-> 0, failureDelta |-> 0]

Bucket == [Fine EXCEPT !.type = "s3", !.health = "unset", !.cpu = 0]

Function == [Fine EXCEPT !.type = "lambda", !.publicAccess = "unset",
                         !.backup = "no", !.cpu = 0]

\* buildMockInventory: five instances ...
MockInstance(name) ==
    CASE name = "i-web-prod-1" -> [Fine EXCEPT !.prodName = TRUE,
            !.tags = [@ EXCEPT !["Owner"] = "platform", !["CostCenter"] = ""],
            !.backup = "no", !.cpu = 32, !.lowPeriods = 6, !.errorRate = 10,
            !.errorCount = 4, !.p99 = 180]
      [] name = "i-api-prod-2" -> [Fine EXCEPT !.prodName = TRUE,
            !.health = "unhealthy", !.cpu = 620, !.errorRate = 140,
            !.errorCount = 88, !.p99 = 2400, !.failureDelta = 180]
      [] name = "i-batch-dev-3" -> [Fine EXCEPT !.tags = [t \in RequiredTags |-> ""],
            !.backup = "no", !.alarms = {}, !.health = "unknown", !.cpu = 180,
            !.lowPeriods = 1, !.p99 = 90]
      [] name = "i-db-prod" -> [Fine EXCEPT !.prodName = TRUE, !.backup = "no",
            !.cpu = 410, !.errorRate = 2, !.errorCount = 2, !.p99 = 40]
      [] name = "i-cache-prod" -> [Fine EXCEPT !.prodName = TRUE,
            !.tags = [@ EXCEPT !["Owner"] = "platform"], !.alarms = {},
            !.cpu = 330, !.p99 = 12]

\* ... four buckets ...
MockBucket(name) ==
    CASE name = "acme-public-assets" -> [Bucket EXCEPT !.publicAccess = "yes",
            !.tags = [@ EXCEPT !["Owner"] = "", !["CostCenter"] = ""],
            !.backup = "no", !.alarms = {}]
      [] name = "acme-logs-private" -> [Bucket EXCEPT !.tags = [@ EXCEPT !["Environment"] = "set"]]
      [] name = "acme-data-lake" -> [Bucket EXCEPT !.publicAccess = "yes", !.alarms = {}]
      [] name = "acme-backups" -> Bucket

\* ... functions, and an alarm.
MockFunction(name) ==
    CASE name = "ingest" -> [Function EXCEPT !.tags = [@ EXCEPT !["CostCenter"] = ""],
            !.alarms = {}, !.errorRate = 90, !.errorCount = 41, !.p99 = 1800,
            !.failureDelta = 40]
      [] name = "reports" -> [Function EXCEPT !.errorRate = 4, !.errorCount = 3, !.p99 = 420]
      [] name = "webhooks" -> [Function EXCEPT !.errorRate = 30, !.errorCount = 19,
            !.p99 = 700, !.failureDelta = 220]
      [] name = "cpu-high" -> [Fine EXCEPT !.type = "cloudwatch", !.publicAccess = "unset",
            !.backup = "unset", !.health = "unset", !.cpu = 0]

InstanceNames == {"i-web-prod-1", "i-api-prod-2", "i-batch-dev-3", "i-db-prod",
                  "i-cache-prod"}
BucketNames == {"acme-public-assets", "acme-logs-private", "acme-data-lake",
                "acme-backups"}
FunctionNames == {"ingest", "reports", "webhooks", "cpu-high"}

MockInventory ==
    [name \in InstanceNames \cup BucketNames \cup FunctionNames |->
        IF name \in InstanceNames THEN MockInstance(name)
        ELSE IF name \in BucketNames THEN MockBucket(name)
        ELSE MockFunction(name)]

=============================================================================
