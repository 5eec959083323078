------------------------------ MODULE Routing ------------------------------
(***************************************************************************)
(* What the gateway and a worker decide about a submission from its fields *)
(* alone: the service that runs the job (internal/router), the resources   *)
(* and the task group it is given (internal/navigator, internal/config)    *)
(* and whether the worker has to look up the size of its input             *)
(* (cmd/worker/service/dwp_input_size.go).                                 *)
(*                                                                         *)
(* An environment variable is a partial function from spellings of its     *)
(* name to a value.  The router and the lookup of the input size ignore    *)
(* case in names; the navigator and the container read the exact name.     *)
(* Where the code ranges over a Go map, several results are possible and   *)
(* the operator is a set.  Numbers are integers; those that are not        *)
(* positive also stand for text that does not parse.                       *)
(***************************************************************************)
EXTENDS Integers

\* A string that is not set.
Blank == ""

Services == {"CLOUD_RUN_JOB", "CLOUD_BATCH"}

Spellings == {"exact", "lower", "mixed"}

Truth == {"true", "yes", "y", "no"}
Mode == {"RECORD", "BYTE_RANGE"}
Path == {"empty", "local", "gs"}

IsEnvVar(v, S) == DOMAIN v \subseteq Spellings /\ \A s \in DOMAIN v : v[s] \in S

IsEnv(env) ==
  /\ DOMAIN env = {"enable", "count", "parallelism", "mode", "size", "path"}
  /\ IsEnvVar(env.enable, Truth) /\ IsEnvVar(env.mode, Mode) /\ IsEnvVar(env.path, Path)
  /\ IsEnvVar(env.count, Int) /\ IsEnvVar(env.parallelism, Int) /\ IsEnvVar(env.size, Int)

\* A resource_override that is not sent reads as zeros.
Resources == [cpu : Int, memory : Int, duration : Int]

IsRequest(r) ==
  /\ DOMAIN r = {"image", "name", "disk", "machine", "profile", "override", "env"}
  /\ r.image \in BOOLEAN /\ r.disk \in Int /\ r.override \in Resources /\ IsEnv(r.env)
  /\ {r.name, r.machine, r.profile} \subseteq STRING

----------------------------------------------------------------------------
\* The router.
lookupEnvVar(v) == IF "exact" \in DOMAIN v THEN {v["exact"]} ELSE {v[s] : s \in DOMAIN v}

isTruthy(v) == v \in {"true", "yes"}

\* The values that may be found; `none` if there are none.
Found(v, none) == IF DOMAIN v = {} THEN {none} ELSE lookupEnvVar(v)

\* Mutant: JENNAH_PARALLELISM is no sign of a distributed workload.
CountOrFlagOnly(env) ==
  {d \in BOOLEAN : \E e \in Found(env.enable, "no"), c \in Found(env.count, 0) :
                     d <=> isTruthy(e) \/ c > 1}

isDistributedModeEnabled(env) ==
  {d \in BOOLEAN :
     \E e \in Found(env.enable, "no"), c \in Found(env.count, 0), p \in Found(env.parallelism, 0) :
       d <=> isTruthy(e) \/ c > 1 \/ p > 1}

Max == [cpu |-> 4000, memory |-> 8192, duration |-> 3600]

exceedsThreshold(value, max) == value > 0 /\ value > max

HeavyResources(r) == \E f \in DOMAIN Max : exceedsThreshold(r.override[f], Max[f])

EvaluateJobComplexity(r) ==
  {IF d \/ r.machine # Blank \/ HeavyResources(r) THEN "CLOUD_BATCH" ELSE "CLOUD_RUN_JOB"
     : d \in isDistributedModeEnabled(r.env)}

\* What a call of the model ends with: a tier, a tier it made up, or an error.
GeminiAnswer == {"SIMPLE", "MEDIUM", "COMPLEX", "other", "error"}

ServiceOfTier(a) == IF a = "COMPLEX" THEN "CLOUD_BATCH" ELSE "CLOUD_RUN_JOB"

\* Mutant: the model is asked about every job.
AskedFirst(r, a) ==
  IF a \in {"SIMPLE", "MEDIUM", "COMPLEX"} THEN {ServiceOfTier(a)} ELSE EvaluateJobComplexity(r)

\* The model is asked only about a job that is not distributed.
EvaluateJobComplexityWithGemini(r, a) ==
  UNION {IF d THEN {"CLOUD_BATCH"}
         ELSE IF a \in {"SIMPLE", "MEDIUM", "COMPLEX"} THEN {ServiceOfTier(a)}
         ELSE EvaluateJobComplexity(r)
           : d \in isDistributedModeEnabled(r.env)}

----------------------------------------------------------------------------
\* The navigator.
PositiveExact(v) == "exact" \in DOMAIN v /\ v["exact"] > 0

isDistributedMode(env) == "exact" \in DOMAIN env.enable /\ env.enable["exact"] = "true"

defaultDistributedTaskCount == 4

\* A parallelism of 0 is left to the provider.
TaskGroup(env) ==
  LET count == IF PositiveExact(env.count) THEN env.count["exact"]
               ELSE IF isDistributedMode(env) THEN defaultDistributedTaskCount ELSE 1
  IN [count |-> count,
      parallelism |-> IF PositiveExact(env.parallelism) THEN env.parallelism["exact"]
                      ELSE IF isDistributedMode(env) THEN count ELSE 0]

\* The job configuration file: resources of profiles and of machine types.
JobConfigFile ==
  [default  |-> [cpu |-> 2000, memory |-> 4096, duration |-> 3600],
   profiles |-> [small |-> [cpu |-> 1000, memory |-> 2048, duration |-> 1800],
                 large |-> [cpu |-> 4000, memory |-> 8192, duration |-> 7200],
                 xlarge |-> [cpu |-> 8000, memory |-> 16384, duration |-> 14400]],
   machines |-> [e2_medium |-> [cpu |-> 1000, memory |-> 4096, duration |-> 3600]]]

GetResourceRequirements(profile) ==
  IF profile \in DOMAIN JobConfigFile.profiles THEN JobConfigFile.profiles[profile]
  ELSE JobConfigFile.default

Base(r) ==
  IF r.machine \in DOMAIN JobConfigFile.machines THEN JobConfigFile.machines[r.machine]
  ELSE GetResourceRequirements(r.profile)

ResolveResources(r) ==
  [f \in DOMAIN Max |-> IF r.override[f] # 0 THEN r.override[f] ELSE Base(r)[f]]

defaultBootDiskGB == 50

\* A boot disk below 10 GB is refused.
Buildable(r) == ~(r.disk > 0 /\ r.disk < 10)

buildJobConfig(r, id) ==
  [job |-> id, env |-> r.env, resources |-> ResolveResources(r),
   machine |-> r.machine, disk |-> IF r.disk = 0 THEN defaultBootDiskGB ELSE r.disk,
   group |-> TaskGroup(r.env)]

----------------------------------------------------------------------------
\* Names of resources: Sanitised is the identity on names that are fit for a provider.
Sanitised(name) == IF name = "My Job" THEN "my-job" ELSE name

generateProviderJobID(name, shortID) ==
  <<IF name = Blank THEN "jennah" ELSE Sanitised(name), shortID>>

----------------------------------------------------------------------------
\* The worker's lookup of the input size: any spelling may be found, and an absent
\* variable reads as `none` under the exact name.
lookupEnvVarCI(v, none) ==
  IF DOMAIN v = {} THEN {[key |-> "exact", value |-> none]}
  ELSE {[key |-> s, value |-> v[s]] : s \in DOMAIN v}

isTruthyValue(v) == v \in {"true", "yes", "y"}

Assign(v, key, n) == [s \in DOMAIN v \cup {key} |-> IF s = key THEN n ELSE v[s]]

Unchanged(env) == [ok |-> TRUE, env |-> env]
Refused(env) == [ok |-> FALSE, env |-> env]

\* Mutant: a size that does not parse is not replaced.
SizeKeptAsSent(env, bytes) ==
  {IF ~isTruthyValue(e.value) \/ m.value = "RECORD" \/ DOMAIN env.size # {} \/ p.value = "local"
   THEN Unchanged(env)
   ELSE IF p.value = "empty" \/ bytes <= 0 THEN Refused(env)
   ELSE [ok |-> TRUE, env |-> [env EXCEPT !.size = Assign(@, "exact", bytes)]]
     : e \in lookupEnvVarCI(env.enable, "no"), m \in lookupEnvVarCI(env.mode, "BYTE_RANGE"),
       p \in lookupEnvVarCI(env.path, "empty")}

\* The environments that a worker may go on with when the object of a gs:// path has so
\* many bytes: 0 if it is empty or cannot be read.
ensureDistributedInputDataSize(env, bytes) ==
  {IF ~isTruthyValue(e.value) \/ m.value = "RECORD" \/ s.value > 0 THEN Unchanged(env)
   ELSE IF p.value = "empty" THEN Refused(env)
   ELSE IF p.value = "local" THEN Unchanged(env)
   ELSE IF bytes <= 0 THEN Refused(env)
   ELSE [ok |-> TRUE, env |-> [env EXCEPT !.size = Assign(@, s.key, bytes)]]
     : e \in lookupEnvVarCI(env.enable, "no"), m \in lookupEnvVarCI(env.mode, "BYTE_RANGE"),
       s \in lookupEnvVarCI(env.size, 0), p \in lookupEnvVarCI(env.path, "empty")}
=============================================================================
