---------------------------- MODULE WorkerConfig ----------------------------
(***************************************************************************)
(* How a worker comes up (cmd/worker/cmd/serve.go): it reads its           *)
(* environment (internal/config/config.go), checks it, and creates the     *)
(* clients and providers that its dispatcher uses.                         *)
(*                                                                         *)
(* An absent variable reads as the empty string.                           *)
(***************************************************************************)
EXTENDS Integers, FiniteSets

Absent == ""

\* The environment: the variables that decide whether the worker comes up.
Environ ==
  [BATCH_PROVIDER : {Absent, "gcp", "gcp-cloudrun", "aws", "azure", "other"},
   BATCH_PROJECT_ID : STRING, BATCH_REGION : STRING,
   CLOUD_RUN_ENABLED : {Absent, "true"}, CLOUD_RUN_PROJECT_ID : STRING, CLOUD_RUN_REGION : STRING,
   PUBSUB_ENABLED : {Absent, "true"}, PUBSUB_PROJECT_ID : STRING,
   ACCOUNT : STRING,   \* AWS_ACCOUNT_ID or AZURE_SUBSCRIPTION_ID
   DB_PROVIDER : {Absent, "spanner", "dynamodb", "postgres", "cosmosdb"},
   DB_NAMES : BOOLEAN,     \* DB_PROJECT_ID, DB_INSTANCE and DB_DATABASE
   DB_OPTION : STRING]     \* DB_REGION or DB_ENDPOINT

getEnvOrDefault(value, default) == IF value # Absent THEN value ELSE default

\* Mutant: the project of Cloud Run has no default.
NoDefault(e) == e.CLOUD_RUN_PROJECT_ID

CloudRunProject(e) == getEnvOrDefault(e.CLOUD_RUN_PROJECT_ID, e.BATCH_PROJECT_ID)

LoadFromEnv(e) ==
  [provider |-> getEnvOrDefault(e.BATCH_PROVIDER, "gcp"),
   project |-> e.BATCH_PROJECT_ID, region |-> e.BATCH_REGION,
   account |-> e.ACCOUNT,
   run |-> [enabled |-> e.CLOUD_RUN_ENABLED = "true",
            project |-> CloudRunProject(e),
            region |-> getEnvOrDefault(e.CLOUD_RUN_REGION, e.BATCH_REGION)],
   pubsub |-> [enabled |-> e.PUBSUB_ENABLED = "true",
               project |-> getEnvOrDefault(e.PUBSUB_PROJECT_ID, e.BATCH_PROJECT_ID)],
   database |-> [provider |-> getEnvOrDefault(e.DB_PROVIDER, "spanner"),
                 names |-> e.DB_NAMES, option |-> e.DB_OPTION]]

ValidBatch(c) ==
  \/ c.provider \in {"gcp", "gcp-cloudrun"} /\ c.project # Absent /\ c.region # Absent
  \/ c.provider \in {"aws", "azure"} /\ c.region # Absent /\ c.account # Absent

ValidDatabase(d) ==
  \/ d.provider = "spanner" /\ d.names
  \/ d.provider \in {"dynamodb", "postgres"} /\ d.option # Absent

Validate(c) ==
  /\ ValidBatch(c)
  /\ c.run.enabled => c.run.project # Absent /\ c.run.region # Absent
  /\ c.pubsub.enabled => c.pubsub.project # Absent
  /\ ValidDatabase(c.database)

\* A Spanner client wants the names of a Spanner database, whatever provider is configured.
DatabaseOpens(c) == c.database.names

\* The constructors.  The worker imports the package that registers those of GCP alone:
\* calling the one of AWS or Azure ends the process.
NewProvider(provider, project, region) ==
  provider \in {"gcp", "gcp-cloudrun"} /\ project # Absent /\ region # Absent

BatchOpens(c) == NewProvider(c.provider, c.project, c.region)
RunOpens(c) == NewProvider("gcp-cloudrun", c.run.project, c.run.region)

\* The dispatcher: the provider behind each service.
New(c, run) ==
  [s \in {"CLOUD_BATCH"} \cup (IF run THEN {"CLOUD_RUN_JOB"} ELSE {}) |->
     IF s = "CLOUD_BATCH" THEN c.provider ELSE "gcp-cloudrun"]
=============================================================================
