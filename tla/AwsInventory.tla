----------------------------- MODULE AwsInventory -----------------------------
(***************************************************************************)
(* What AwsProvider (packages/shared/src/providers/aws.ts) says of the     *)
(* resources of an account, as far as the policies read it, and what a     *)
(* diagnostic job then finds on them.                                      *)
(*                                                                         *)
(* Each type is listed by a call whose failure ends the sync with nothing  *)
(* stored.  What the listing leaves open is asked item by item, in calls   *)
(* that may fail (they time out, are throttled or denied, and S3 answers   *)
(* so for a bucket that has no tags or no access block): the provider then *)
(* goes on with a default.                                                 *)
(***************************************************************************)
EXTENDS DiagnosticRun

CONSTANT Item           \* what AWS holds, by the name of the resource

ItemType ==
    [type : {"ec2", "s3", "lambda"},
     prodName : BOOLEAN,                       \* "prod" is part of the name
     tags : [RequiredTags -> TagValues],
     exposed : BOOLEAN,     \* a public address; an access block not all on
     running : BOOLEAN,
     cpu : Nat]             \* average of the last hour, tenths of a percent

NoTags == [t \in RequiredTags |-> ""]

\* The calls for one item that may fail without ending the sync.
OptionalCalls(type) ==
    IF type = "ec2" THEN {"GetMetricStatistics"}
    ELSE IF type = "s3"
         THEN {"GetBucketLocation", "GetBucketTagging", "GetPublicAccessBlock"}
    ELSE {"ListTags", "GetFunction"}

-----------------------------------------------------------------------------
\* A resource with what a call has answered; nothing else is known of it.
Resource(c, tags, publicAccess, health, cpu) ==
    [type |-> c.type, prodName |-> c.prodName, tags |-> tags,
     publicAccess |-> publicAccess, backup |-> "no", alarms |-> {},
     health |-> health, cpu |-> cpu, lowPeriods |-> 0, errorRate |-> 0,
     errorCount |-> 0, p99 |-> 0, failureDelta |-> 0]

TagsUnless(call, c, failed) == IF call \in failed THEN NoTags ELSE c.tags

\* cpuForInstance
Average(c, failed) == IF "GetMetricStatistics" \in failed THEN 0 ELSE c.cpu

\* A slip of the definition below: what is not running is unhealthy.
InstanceUpOrDown(c, failed) ==
    Resource(c, c.tags, IF c.exposed THEN "yes" ELSE "no",
             IF c.running THEN "healthy" ELSE "unhealthy", Average(c, failed))

\* listEc2: the tags come with the listing.
Instance(c, failed) ==
    Resource(c, c.tags, IF c.exposed THEN "yes" ELSE "no",
             IF c.running THEN "healthy" ELSE "unknown", Average(c, failed))

\* A slip of the definition below: a bucket is private until proven public.
BucketOrPrivate(c, failed) ==
    Resource(c, TagsUnless("GetBucketTagging", c, failed),
             IF "GetPublicAccessBlock" \notin failed /\ c.exposed THEN "yes" ELSE "no",
             "unset", 0)

\* listS3: the location is read too, and no policy looks at it.
BucketListed(c, failed) ==
    Resource(c, TagsUnless("GetBucketTagging", c, failed),
             IF "GetPublicAccessBlock" \in failed \/ c.exposed THEN "yes" ELSE "no",
             "unset", 0)

\* listLambda: the answer of GetFunction is not used.
FunctionListed(c, failed) ==
    Resource(c, TagsUnless("ListTags", c, failed), "unset", "unknown", 0)

\* listResources, for one item.
Described(c, failed) ==
    IF c.type = "ec2" THEN Instance(c, failed)
    ELSE IF c.type = "s3" THEN BucketListed(c, failed)
    ELSE FunctionListed(c, failed)

\* Those of the resources that are in the account are described so at every
\* sync, whatever optional calls fail; those of the mock provider stay.
ASSUME AccountAssumption ==
    /\ Item \in [DOMAIN Item -> ItemType]
    /\ DOMAIN Item \subseteq DOMAIN Inventory
    /\ \A r \in DOMAIN Item :
          /\ Descriptions[r] = {Described(Item[r], failed) :
                                    failed \in SUBSET OptionalCalls(Item[r].type)}
          /\ Inventory[r] \in Descriptions[r]

-----------------------------------------------------------------------------
RulesFiring(r) == {rule \in {Rules[i] : i \in 1 .. Len(Rules)} : Fires(rule, r)}

FoundOn(r) == {RuleAt(p) : p \in {q \in finding : ResourceAt(q) = r}}

\* The calls for one item fail on their own, each with a default, and none of
\* them makes a resource look clean.  An exposed bucket is found whatever
\* fails in the syncs before.  Findings are lost only with the tags (they say
\* what is production when the name does not), and then the tags are found
\* missing.
FailuresAreSeen ==
    job.status = "completed" /\ fixes = 0 =>
        \A r \in DOMAIN Item \cap job.scope :
            LET c == Item[r]
                lost == RulesFiring(Described(c, {})) \ FoundOn(r)
            IN  /\ c.type = "s3" /\ c.exposed => "s3.public_access" \in FoundOn(r)
                /\ lost # {} => /\ c.tags["Environment"] = "prod" /\ ~c.prodName
                                /\ "resource.missing_tags" \in FoundOn(r)
                /\ lost \subseteq {"cloudwatch.missing_alarms",
                                   "resource.missing_backup"}

\* AWS is asked for configuration and one average: of the nine rules, those
\* on health, load, errors and latency find nothing in an account, whatever
\* fails and whatever is remediated.  A stopped instance is not unhealthy.
OnlyConfigurationIsFound ==
    \A p \in finding : ResourceAt(p) \in DOMAIN Item =>
        RuleAt(p) \in {"resource.missing_tags", "s3.public_access",
                      "cloudwatch.missing_alarms", "resource.missing_backup"}

=============================================================================
