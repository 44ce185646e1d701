--------------------------- MODULE MCDiagnosticRun ---------------------------
(***************************************************************************)
(* Instances of DiagnosticRun for TLC: a workspace that has been filled by *)
(* the mock provider and is now synced with an account of AWS.             *)
(***************************************************************************)
EXTENDS AwsInventory, TLC

\* An exposed bucket and a stopped instance, in production by their tags.
MCItem ==
    LET instance == [type |-> "ec2", prodName |-> FALSE,
                     tags |-> [[t \in RequiredTags |-> "set"]
                                  EXCEPT !["Environment"] = "prod", !["Owner"] = ""],
                     exposed |-> TRUE, running |-> FALSE, cpu |-> 0]
    IN  ("aws-bucket" :> [instance EXCEPT !.type = "s3", !.tags["Owner"] = "set"])
     @@ ("aws-instance" :> instance)

MCInventory == MockInventory @@ [r \in DOMAIN MCItem |-> Described(MCItem[r], {})]

\* A sync of the mock provider never fails.
MCDescriptions ==
    [r \in DOMAIN MockInventory |-> {MockInventory[r]}]
 @@ [r \in DOMAIN MCItem |-> {Described(MCItem[r], failed) :
                                 failed \in SUBSET OptionalCalls(MCItem[r].type)}]

\* What the theorem about the demonstration asks of an inventory is so here.
ASSUME MCFilled == MockFilled

\* The order of the mock provider, the account last.
MCOrder == <<"i-web-prod-1", "i-api-prod-2", "i-batch-dev-3", "i-db-prod",
             "i-cache-prod", "acme-public-assets", "acme-logs-private",
             "acme-data-lake", "acme-backups", "ingest", "reports", "webhooks",
             "cpu-high", "aws-bucket", "aws-instance">>
MCScopes == {DOMAIN MockInventory, DOMAIN MCItem}

\* A job reads nothing outside its scope: syncs need not change it.
OutsideStays == \A r \in DOMAIN Inventory \ job.scope : resource[r] = Inventory[r]

\* The long job of the demonstration is remediated or attempted again; that of
\* the account both.
FixedOrRetried ==
    job.scope = DOMAIN MockInventory => fixes = 0 \/ job.attempts < MaxAttempts

=============================================================================
