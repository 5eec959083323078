----------------------------- MODULE Submission -----------------------------
(***************************************************************************)
(* A submission from the gateway to the cloud: the gateway classifies it   *)
(* and forwards it, the worker sizes its input, stores a row, plans it and *)
(* has the provider of the planned service create and start the resource.  *)
(*                                                                         *)
(* JobService models the same handler as one of many that interleave with  *)
(* pollers and other requests, but whatever is submitted; this module has  *)
(* what is submitted, how the worker was configured, and each call of the  *)
(* providers (internal/cloudexec), which name their resources by job ID.   *)
(***************************************************************************)
EXTENDS Routing, WorkerConfig, Sequences

CONSTANTS
  Jobs,        \* job IDs that the gateway draws
  ShortIDs,    \* the first eight digits that they may have
  Workloads,   \* what clients may submit: requests by the job ID they are given
  Environs,    \* environments the worker may be started in
  Sizes,       \* sizes of the input object, 0 if there is none
  MaxMishaps   \* bound: calls that fail or whose answer is lost

ASSUME SubmissionAssumption ==
  /\ 0 \in Sizes /\ Sizes \subseteq Nat
  /\ Environs \subseteq Environ
  /\ \A w \in Workloads : DOMAIN w \subseteq Jobs /\ \A j \in DOMAIN w : IsRequest(w[j])
  /\ MaxMishaps \in Nat

VARIABLES
  environ,    \* the worker's environment
  worker,     \* its state, and the provider registered for each service
  short,      \* the first eight digits of each job ID
  request,    \* what clients submit
  bytes,      \* the size of the input object
  sub,        \* the submission of each job
  rows,       \* rows of Jobs
  resources,  \* jobs in the cloud
  mishaps

vars == <<environ, worker, short, request, bytes, sub, rows, resources, mishaps>>

Config == LoadFromEnv(environ)

Pc == {"forwarded", "sized", "inserted", "create", "run", "setpath", "fail", "answered",
       "refused", "failed"}

IsSub(s) ==
  \/ s = [pc |-> "idle"]
  \/ /\ DOMAIN s = {"pc", "guessed", "told", "env", "service"}
     /\ s.pc \in Pc /\ s.guessed \in BOOLEAN
     /\ IsEnv(s.env) /\ {s.told, s.service} \subseteq Services

\* What the providers may be asked to name a job.
JobNames == {generateProviderJobID(request[j].name, short[j]) : j \in DOMAIN request}

Row ==
  [status : {"PENDING", "SCHEDULED", "RUNNING", "FAILED"}, path : JobNames \cup {<<>>},
   tier : {Blank, "SIMPLE", "COMPLEX"}, assigned : Services \cup {Blank}]

IsResource(x) ==
  /\ x.kind \in {"gcp", "gcp-cloudrun"} /\ x.id \in JobNames /\ x.owner \in Jobs
  /\ x.started \in BOOLEAN /\ {x.count, x.parallelism} \subseteq Nat
  /\ IsEnv(x.env) /\ x.limits \in Resources

TypeOK ==
  /\ environ \in Environs /\ short \in ShortIDs /\ bytes \in Sizes
  /\ DOMAIN request \subseteq Jobs
  /\ DOMAIN worker = {"pc", "providers"} /\ worker.pc \in {"down", "serving", "failed"}
  /\ DOMAIN worker.providers \subseteq Services
  /\ DOMAIN sub = Jobs /\ \A j \in Jobs : IsSub(sub[j])
  /\ DOMAIN rows \subseteq Jobs /\ \A j \in DOMAIN rows : rows[j] \in Row
  /\ \A x \in resources : IsResource(x)
  /\ mishaps \in 0..MaxMishaps

Mishap == mishaps < MaxMishaps /\ mishaps' = mishaps + 1
NoMishap == mishaps' = mishaps

Init ==
  /\ environ \in Environs
  /\ worker = [pc |-> "down", providers |-> [s \in {} |-> Blank]]
  /\ short \in ShortIDs
  /\ request \in Workloads
  /\ bytes \in Sizes
  /\ sub = [j \in Jobs |-> [pc |-> "idle"]]
  /\ rows = [j \in {} |-> {}]
  /\ resources = {}
  /\ mishaps = 0

\* A failure to create the Cloud Run clients is only logged.
runServe ==
  /\ worker.pc = "down"
  /\ \/ /\ Validate(Config) /\ DatabaseOpens(Config) /\ BatchOpens(Config)
        /\ \E run \in BOOLEAN :
             /\ worker' = [pc |-> "serving", providers |-> New(Config, run)]
             /\ run => Config.run.enabled /\ RunOpens(Config)
             /\ IF run = (Config.run.enabled /\ RunOpens(Config)) THEN NoMishap ELSE Mishap
     \/ /\ worker' = [worker EXCEPT !.pc = "failed"]
        /\ IF Validate(Config) /\ DatabaseOpens(Config) /\ BatchOpens(Config) THEN Mishap
           ELSE NoMishap
  /\ UNCHANGED <<environ, short, request, bytes, sub, rows, resources>>

----------------------------------------------------------------------------
At(j, pc) == sub[j].pc = pc
Goto(j, pc) == sub' = [sub EXCEPT ![j].pc = pc]
Fixed == UNCHANGED <<environ, worker, short, request, bytes>>

\* The gateway's handler up to the call of the worker.
Forward(j, a) ==
  /\ j \in DOMAIN request /\ At(j, "idle")
  /\ \E told \in EvaluateJobComplexityWithGemini(request[j], a) :
       sub' = [sub EXCEPT ![j] =
         [pc |-> IF request[j].image THEN "forwarded" ELSE "refused", env |-> request[j].env,
          guessed |-> a \in {"SIMPLE", "MEDIUM", "COMPLEX"}, told |-> told,
          service |-> told]]
  /\ NoMishap /\ UNCHANGED <<rows, resources>> /\ Fixed

\* The worker's handler, call by call.
ResolveSize(j) ==
  /\ worker.pc = "serving" /\ At(j, "forwarded")
  /\ \E b \in {bytes, 0} :
       /\ IF b = bytes THEN NoMishap ELSE Mishap
       /\ \E o \in ensureDistributedInputDataSize(sub[j].env, b) :
            sub' = [sub EXCEPT ![j].pc = IF o.ok THEN "sized" ELSE "refused", ![j].env = o.env]
  /\ UNCHANGED <<rows, resources>> /\ Fixed

NewRow == [status |-> "PENDING", path |-> <<>>, tier |-> Blank, assigned |-> Blank]

InsertRow(j) == rows' = [k \in DOMAIN rows \cup {j} |-> IF k = j THEN NewRow ELSE rows[k]]

Insert(j) ==
  /\ At(j, "sized")
  /\ \/ InsertRow(j) /\ Goto(j, "inserted") /\ NoMishap
     \/ (InsertRow(j) \/ UNCHANGED rows) /\ Goto(j, "failed") /\ Mishap
  /\ UNCHANGED resources /\ Fixed

\* The plan overrides the resource's name.
Plan(j) ==
  buildJobConfig([request[j] EXCEPT !.env = sub[j].env],
                 generateProviderJobID(request[j].name, short[j]))

Navigate(j) ==
  /\ At(j, "inserted")
  /\ \E s \in EvaluateJobComplexity([request[j] EXCEPT !.env = sub[j].env]) :
       sub' = [sub EXCEPT ![j].service = s,
         ![j].pc = IF Buildable(request[j]) /\ s \in DOMAIN worker.providers
                   THEN "create" ELSE "fail"]
  /\ NoMishap /\ UNCHANGED <<rows, resources>> /\ Fixed

----------------------------------------------------------------------------
\* The providers.
Provider(j) == worker.providers[sub[j].service]

PositiveOrUnset(n) == IF n > 0 THEN n ELSE 0

\* GCPBatchProvider.SubmitJob: the job runs once it is created.
BatchJob(j) ==
  [kind |-> "gcp", id |-> Plan(j).job, owner |-> j, started |-> TRUE,
   count |-> IF Plan(j).group.count > 0 THEN Plan(j).group.count ELSE 1,
   parallelism |-> PositiveOrUnset(Plan(j).group.parallelism), env |-> Plan(j).env,
   limits |-> [Plan(j).resources EXCEPT !.duration = PositiveOrUnset(@)]]

\* GCPCloudRunProvider.SubmitJob: creating the job and running it are two calls.
CloudRunJob(j) ==
  [kind |-> "gcp-cloudrun", id |-> Plan(j).job, owner |-> j, started |-> FALSE,
   count |-> PositiveOrUnset(Plan(j).group.count),
   parallelism |-> PositiveOrUnset(Plan(j).group.parallelism), env |-> Plan(j).env,
   limits |-> [f \in DOMAIN Max |-> PositiveOrUnset(Plan(j).resources[f])]]

\* A provider refuses a second job with a name in use.
InUse(j) == \E x \in resources : x.kind = Provider(j) /\ x.id = Plan(j).job

\* Mutant: a name in use counts as created, by this submission.
CreateUnlessInUse(j, x, next) ==
  /\ At(j, "create") /\ Provider(j) = x.kind
  /\ \/ InUse(j) /\ Goto(j, next) /\ NoMishap /\ UNCHANGED resources
     \/ ~InUse(j) /\ Goto(j, next) /\ NoMishap /\ resources' = resources \cup {x}
  /\ UNCHANGED rows /\ Fixed

Create(j, x, next) ==
  /\ At(j, "create") /\ Provider(j) = x.kind
  /\ \/ InUse(j) /\ Goto(j, "fail") /\ NoMishap /\ UNCHANGED resources
     \/ ~InUse(j) /\ Goto(j, next) /\ NoMishap /\ resources' = resources \cup {x}
     \/ /\ Goto(j, "fail") /\ Mishap
        /\ UNCHANGED resources \/ (~InUse(j) /\ resources' = resources \cup {x})
  /\ UNCHANGED rows /\ Fixed

Created(j) == CHOOSE x \in resources : x.kind = Provider(j) /\ x.id = Plan(j).job

RunCreated(j) ==
  resources' = (resources \ {Created(j)}) \cup {[Created(j) EXCEPT !.started = TRUE]}

\* Once RunJob has returned, nothing fails the submission.
RunJob(j) ==
  /\ At(j, "run")
  /\ \/ RunCreated(j) /\ Goto(j, "setpath") /\ NoMishap
     \/ (RunCreated(j) \/ UNCHANGED resources) /\ Goto(j, "fail") /\ Mishap
  /\ UNCHANGED rows /\ Fixed

----------------------------------------------------------------------------
FailJob(j) ==
  /\ At(j, "fail") /\ Goto(j, "failed")
  /\ \/ rows' = [rows EXCEPT ![j].status = "FAILED"] /\ NoMishap
     \/ UNCHANGED rows /\ Mishap
  /\ UNCHANGED resources /\ Fixed

\* Mutant: the tier's column gets the name of the service.
ServiceAsTier(service) == service

serviceTierFromPlan(service) == IF service = "CLOUD_RUN_JOB" THEN "SIMPLE" ELSE "COMPLEX"

\* What the provider answers; Cloud Run jobs count as running at once.
InitialStatus(j) ==
  IF Provider(j) = "gcp" THEN {"PENDING", "SCHEDULED", "RUNNING"} ELSE {"RUNNING"}

SetPath(j) ==
  /\ At(j, "setpath")
  /\ \/ /\ \E status \in InitialStatus(j) : rows' = [rows EXCEPT ![j] =
             [status |-> status, path |-> Plan(j).job,
              tier |-> serviceTierFromPlan(sub[j].service), assigned |-> sub[j].service]]
        /\ \/ Goto(j, "answered") /\ NoMishap
           \/ Goto(j, "failed") /\ Mishap
     \/ UNCHANGED rows /\ Goto(j, "failed") /\ Mishap
  /\ UNCHANGED resources /\ Fixed

Next ==
  \/ runServe
  \/ \E j \in Jobs :
       \/ \E a \in GeminiAnswer : Forward(j, a)
       \/ ResolveSize(j)
       \/ Insert(j)
       \/ Navigate(j)
       \/ Create(j, BatchJob(j), "setpath")
       \/ Create(j, CloudRunJob(j), "run")
       \/ RunJob(j)
       \/ FailJob(j)
       \/ SetPath(j)

Spec == Init /\ [][Next]_vars

----------------------------------------------------------------------------
\* What the router sends to Cloud Run can run there.  It is one task: the router, the
\* navigator and the worker each read the environment in a way of their own, and no job that
\* the navigator spreads over tasks escapes the router.  And a limit that the request states
\* is within the router's bounds, after the navigator has merged it with machine types and
\* profiles that the router does not see.
CloudRunJobsFit ==
  \A x \in resources : sub[x.owner].service = "CLOUD_RUN_JOB" =>
    /\ x.count = 1 /\ x.parallelism <= 1
    /\ \A f \in DOMAIN Max : request[x.owner].override[f] # 0 => x.limits[f] <= Max[f]

Unambiguous(env) ==
  /\ \A v \in {env.count, env.parallelism} : Cardinality(lookupEnvVar(v)) <= 1
  /\ Cardinality(lookupEnvVar(env.enable)) <= 1

\* The gateway and the worker classify a job separately; the answer names the service that
\* runs the job unless the model classified it, and for distributed jobs always.
ToldServiceIsActual ==
  \A j \in Jobs : At(j, "answered") /\ Unambiguous(request[j].env) =>
    \/ sub[j].told = rows[j].assigned
    \/ sub[j].guessed /\ TRUE \notin isDistributedModeEnabled(request[j].env)

\* Whatever spellings are read, the job is distributed and splits an object by bytes.
SplitsObject(env) ==
  /\ DOMAIN env.enable # {} /\ \A s \in DOMAIN env.enable : isTruthyValue(env.enable[s])
  /\ \A s \in DOMAIN env.mode : env.mode[s] # "RECORD"
  /\ DOMAIN env.path # {} /\ \A s \in DOMAIN env.path : env.path[s] = "gs"

\* The containers of a distributed job that splits an object by bytes are all given one size
\* of it, and under the name that they read, unless the client has sent the size under
\* another spelling: the worker corrects the variable it finds, which no container reads.
ContainersKnowTheSize ==
  \A x \in resources : SplitsObject(request[x.owner].env) =>
    /\ \E s \in DOMAIN x.env.size : x.env.size[s] > 0
    /\ DOMAIN request[x.owner].env.size \subseteq {"exact"} => PositiveExact(x.env.size)

inferredService(tier) == IF tier = "COMPLEX" THEN "CLOUD_BATCH" ELSE "CLOUD_RUN_JOB"

assignedService(assigned) == IF assigned = "CLOUD_RUN_JOB" THEN "CLOUD_RUN_JOB" ELSE "CLOUD_BATCH"

\* The path of a row leads to the resource that was created for its job and runs it, also
\* when the names and first digits of two jobs agree: a poller that is recovered from the
\* row, by its tier, and a cancellation or deletion, by its service, turn to the provider
\* that created it.
PathLeadsToResource ==
  \A j \in DOMAIN rows : rows[j].path # <<>> =>
    \E x \in resources :
      /\ x.owner = j /\ x.id = rows[j].path /\ x.started
      /\ worker.providers[inferredService(rows[j].tier)] = x.kind
      /\ worker.providers[assignedService(rows[j].assigned)] = x.kind

\* If no call fails, a worker with the variables that are required comes up.  A submission
\* that got a row then fails only for a boot disk below 10 GB, a service that the worker's
\* environment does not turn on, or a name and digits that are in use; and a job that
\* failed does not run.
FailureHasACause ==
  mishaps = 0 =>
    /\ worker.pc = "failed" =>
         \/ environ.BATCH_PROVIDER \notin {Absent, "gcp", "gcp-cloudrun"}
         \/ environ.BATCH_PROJECT_ID = Absent \/ environ.BATCH_REGION = Absent
         \/ environ.DB_PROVIDER \notin {Absent, "spanner"} \/ ~environ.DB_NAMES
    /\ \A j \in Jobs : At(j, "failed") =>
         /\ ~\E x \in resources : x.owner = j /\ x.started
         /\ \/ request[j].disk \in 1..9
            \/ sub[j].service = "CLOUD_RUN_JOB" /\ environ.CLOUD_RUN_ENABLED # "true"
            \/ \E k \in Jobs \ {j} :
                 /\ sub[k].pc # "idle"
                 /\ generateProviderJobID(request[k].name, short[k])
                    = generateProviderJobID(request[j].name, short[j])
=============================================================================
