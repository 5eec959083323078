-------------------------- MODULE SubmissionProofs --------------------------
(***************************************************************************)
(* What a submission comes to, for every request, environment and number   *)
(* of jobs, whatever calls fail: one invariant per property, each on top   *)
(* of IInv, which says where a handler and its resource stand.             *)
(*                                                                         *)
(* CloudRunJobsFit (IInv): the router, the navigator and the worker agree, *)
(* in what matters for Cloud Run, on every spelling and value of the       *)
(* variables that they read; Navigate hands this on to the creation of the *)
(* resource.  PathLeadsToResource (LeadInv): names are not used twice, so  *)
(* RunJob starts the resource of its own job, and SetPath stores its name  *)
(* with a service from which both readings of the row find the provider.   *)
(* ContainersKnowTheSize (SizeInv), ToldServiceIsActual (ToldInv): the     *)
(* lookup of the input size gives a size to who splits an object, and      *)
(* changes nothing that the router reads.  FailureHasACause (CauseInv):    *)
(* why a worker has not come up, and why a submission has failed.          *)
(***************************************************************************)
EXTENDS Submission, FiniteSetTheorems, TLAPS

EnvFields == {"enable", "count", "parallelism", "mode", "size", "path"}
SubFields == {"pc", "guessed", "told", "env", "service"}
ResourceFields == {"kind", "id", "owner", "started", "count", "parallelism", "env", "limits"}

\* What the proof needs of an environment.
EnvShape(env) ==
  /\ DOMAIN env = EnvFields
  /\ \A s \in DOMAIN env.count : env.count[s] \in Int
  /\ \A s \in DOMAIN env.parallelism : env.parallelism[s] \in Int

----------------------------------------------------------------------------
\* What the router takes for undistributed, the navigator does not split: whichever spelling
\* the router has found, it has not missed the exact name, which the navigator reads.
LEMMA RoutedIsSingle ==
  ASSUME NEW env, EnvShape(env), FALSE \in isDistributedModeEnabled(env)
  PROVE  TaskGroup(env).count = 1 /\ TaskGroup(env).parallelism \in {0, 1}
<1>1. PICK e \in Found(env.enable, "no"), c \in Found(env.count, 0), p \in Found(env.parallelism, 0) :
        ~(isTruthy(e) \/ c > 1 \/ p > 1)
  BY DEF isDistributedModeEnabled
<1>2. ~isDistributedMode(env)
  <2> SUFFICES ASSUME "exact" \in DOMAIN env.enable, env.enable["exact"] = "true" PROVE FALSE
    BY DEF isDistributedMode
  <2>1. e = "true"  BY DEF Found, lookupEnvVar
  <2> QED  BY <1>1, <2>1 DEF isTruthy
<1>3. PositiveExact(env.count) => env.count["exact"] = 1
  <2> SUFFICES ASSUME "exact" \in DOMAIN env.count, env.count["exact"] > 0
               PROVE  env.count["exact"] = 1
    BY DEF PositiveExact
  <2>1. c = env.count["exact"]  BY DEF Found, lookupEnvVar
  <2>2. c \in Int /\ ~(c > 1)  BY <1>1, <2>1 DEF EnvShape
  <2> QED  BY <2>1, <2>2
<1>4. PositiveExact(env.parallelism) => env.parallelism["exact"] = 1
  <2> SUFFICES ASSUME "exact" \in DOMAIN env.parallelism, env.parallelism["exact"] > 0
               PROVE  env.parallelism["exact"] = 1
    BY DEF PositiveExact
  <2>1. p = env.parallelism["exact"]  BY DEF Found, lookupEnvVar
  <2>2. p \in Int /\ ~(p > 1)  BY <1>1, <2>1 DEF EnvShape
  <2> QED  BY <2>1, <2>2
<1> QED  BY <1>2, <1>3, <1>4 DEF TaskGroup

Within(r) == \A f \in DOMAIN Max : r.override[f] # 0 => r.override[f] <= Max[f]

LEMMA RoutedIsLight ==
  ASSUME NEW r, r.override \in Resources, "CLOUD_RUN_JOB" \in EvaluateJobComplexity(r)
  PROVE  FALSE \in isDistributedModeEnabled(r.env) /\ Within(r)
<1>1. FALSE \in isDistributedModeEnabled(r.env) /\ ~HeavyResources(r)
  <2>1. PICK d \in isDistributedModeEnabled(r.env) : ~(d \/ r.machine # Blank \/ HeavyResources(r))
    BY DEF EvaluateJobComplexity
  <2>2. d \in BOOLEAN  BY DEF isDistributedModeEnabled
  <2> QED  BY <2>1, <2>2
<1>2. ASSUME NEW f \in DOMAIN Max PROVE r.override[f] <= Max[f]
  <2>1. ~exceedsThreshold(r.override[f], Max[f])  BY <1>1 DEF HeavyResources
  <2>2. r.override[f] \in Int /\ Max[f] \in Nat  BY DEF Resources, Max
  <2> QED  BY <2>1, <2>2 DEF exceedsThreshold
<1> QED  BY <1>1, <1>2 DEF Within

\* The lookup of the input size leaves the other variables alone.
LEMMA SizeOnly ==
  ASSUME NEW env, EnvShape(env), NEW b, NEW o \in ensureDistributedInputDataSize(env, b)
  PROVE  EnvShape(o.env)
<1>1. PICK e \in lookupEnvVarCI(env.enable, "no"), m \in lookupEnvVarCI(env.mode, "BYTE_RANGE"),
           s \in lookupEnvVarCI(env.size, 0), p \in lookupEnvVarCI(env.path, "empty") :
        o = IF ~isTruthyValue(e.value) \/ m.value = "RECORD" \/ s.value > 0 THEN Unchanged(env)
            ELSE IF p.value = "empty" THEN Refused(env)
            ELSE IF p.value = "local" THEN Unchanged(env)
            ELSE IF b <= 0 THEN Refused(env)
            ELSE [ok |-> TRUE, env |-> [env EXCEPT !.size = Assign(@, s.key, b)]]
  BY DEF ensureDistributedInputDataSize
<1>2. CASE o \in {Unchanged(env), Refused(env)}
  <2>1. o.env = env  BY <1>2 DEF Unchanged, Refused
  <2> QED  BY <2>1
<1>3. CASE o = [ok |-> TRUE, env |-> [env EXCEPT !.size = Assign(@, s.key, b)]]
  BY <1>3 DEF EnvShape, EnvFields
<1> QED  BY <1>1, <1>2, <1>3

----------------------------------------------------------------------------
OfCloudRun(j) == sub[j].service = "CLOUD_RUN_JOB"

Requested ==
  /\ DOMAIN sub = Jobs /\ DOMAIN request \subseteq Jobs
  /\ \A j \in DOMAIN request : IsRequest(request[j])
  /\ \A j \in Jobs : ~At(j, "idle") =>
       j \in DOMAIN request /\ DOMAIN sub[j] = SubFields /\ EnvShape(sub[j].env)

\* The worker's providers stay as they are once a submission has come to them.
Served == \A j \in Jobs : sub[j].pc \in {"sized", "inserted", "create", "run"} => worker.pc # "down"

\* What Navigate has decided.
Routed(j) ==
  OfCloudRun(j) =>
    /\ TaskGroup(sub[j].env).count = 1 /\ TaskGroup(sub[j].env).parallelism \in {0, 1}
    /\ Within(request[j])

\* A resource that Create has made fits, and its submission is past that step.
Fits(x) ==
  /\ DOMAIN x = ResourceFields
  /\ x.owner \in Jobs /\ sub[x.owner].pc \in {"run", "setpath", "fail", "answered", "failed"}
  /\ OfCloudRun(x.owner) =>
       /\ x.count = 1 /\ x.parallelism \in {0, 1}
       /\ \A f \in DOMAIN Max : request[x.owner].override[f] # 0 => x.limits[f] <= Max[f]

\* RunJob finds the resource that Create has made.
ThereToRun(j) == \E x \in resources : x.kind = Provider(j) /\ x.id = Plan(j).job

IInv ==
  /\ Requested /\ Served
  /\ \A j \in Jobs : At(j, "create") => Routed(j)
  /\ \A j \in Jobs : At(j, "run") => ThereToRun(j)
  /\ \A x \in resources : Fits(x)

\* A submission that takes a step without resources to its name.
LEMMA BeforeCreate ==
  ASSUME IInv, NEW j \in Jobs, sub[j].pc \in {"idle", "forwarded", "sized", "inserted"},
         NEW s, sub' = [sub EXCEPT ![j] = s], UNCHANGED <<request, worker, short, resources>>,
         j \in DOMAIN request, DOMAIN s = SubFields, EnvShape(s.env),
         s.pc \in {"sized", "inserted", "create"} => worker.pc # "down",
         s.pc = "create" /\ s.service = "CLOUD_RUN_JOB" =>
           /\ TaskGroup(s.env).count = 1 /\ TaskGroup(s.env).parallelism \in {0, 1}
           /\ Within(request[j]),
         s.pc \in {"forwarded", "refused", "sized", "inserted", "create", "fail", "failed"}
  PROVE  IInv'
<1>1. sub'[j] = s /\ \A k \in Jobs \ {j} : sub'[k] = sub[k]  BY DEF IInv, Requested
<1>2. Requested' /\ Served'  BY <1>1 DEF IInv, Requested, Served, At
<1>3. ASSUME NEW k \in Jobs, At(k, "create")' PROVE Routed(k)'
  BY <1>1, <1>3 DEF IInv, At, Routed, OfCloudRun
<1>4. ASSUME NEW k \in Jobs, At(k, "run")' PROVE ThereToRun(k)'
  <2>1. k # j /\ At(k, "run")  BY <1>1, <1>4 DEF At
  <2>2. Provider(k)' = Provider(k) /\ Plan(k)' = Plan(k)  BY <1>1, <2>1 DEF Provider, Plan
  <2> QED  BY <2>1, <2>2 DEF IInv, ThereToRun
<1>5. ASSUME NEW x \in resources PROVE Fits(x)'
  <2>1. x.owner # j  BY DEF IInv, Fits
  <2> QED  BY <1>1, <2>1 DEF IInv, Fits, OfCloudRun
<1> QED  BY <1>2, <1>3, <1>4, <1>5 DEF IInv

\* A submission that goes on after Create, with the same resources.
LEMMA AfterCreate ==
  ASSUME IInv, NEW j \in Jobs, sub[j].pc \in {"create", "run", "setpath", "fail"},
         NEW pc \in {"setpath", "fail", "answered", "failed"}, Goto(j, pc),
         UNCHANGED <<request, worker, short>>,
         \A x \in resources' : \E y \in resources :
           /\ x.owner = y.owner /\ x.count = y.count /\ x.parallelism = y.parallelism
           /\ x.limits = y.limits /\ DOMAIN x = DOMAIN y,
         \A y \in resources : \E x \in resources' : x.kind = y.kind /\ x.id = y.id
  PROVE  IInv'
<1>1. /\ DOMAIN sub' = Jobs /\ \A k \in Jobs \ {j} : sub'[k] = sub[k]
      /\ sub'[j] = [sub[j] EXCEPT !.pc = pc] /\ DOMAIN sub[j] = SubFields
  BY DEF IInv, Requested, Goto, At
<1>2. sub'[j].pc = pc /\ sub'[j].env = sub[j].env /\ sub'[j].service = sub[j].service
      /\ DOMAIN sub'[j] = SubFields
  BY <1>1 DEF SubFields
<1>3. Requested' /\ Served'  BY <1>1, <1>2 DEF IInv, Requested, Served, At
<1>4. ASSUME NEW k \in Jobs, At(k, "create")' PROVE Routed(k)'
  <2>1. k # j /\ At(k, "create")  BY <1>1, <1>2, <1>4 DEF At
  <2> QED  BY <1>1, <2>1 DEF IInv, Routed, OfCloudRun
<1>5. ASSUME NEW k \in Jobs, At(k, "run")' PROVE ThereToRun(k)'
  <2>1. k # j /\ At(k, "run")  BY <1>1, <1>2, <1>5 DEF At
  <2>2. Provider(k)' = Provider(k) /\ Plan(k)' = Plan(k)  BY <1>1, <2>1 DEF Provider, Plan
  <2> QED  BY <2>1, <2>2 DEF IInv, ThereToRun
<1>6. ASSUME NEW x \in resources' PROVE Fits(x)'
  <2>1. PICK y \in resources : /\ x.owner = y.owner /\ x.count = y.count
                               /\ x.parallelism = y.parallelism /\ x.limits = y.limits
                               /\ DOMAIN x = DOMAIN y
    OBVIOUS
  <2>2. Fits(y)  BY DEF IInv
  <2>3. sub'[y.owner].service = sub[y.owner].service
        /\ sub'[y.owner].pc \in {"run", "setpath", "fail", "answered", "failed"}
    BY <1>1, <1>2, <2>2 DEF Fits
  <2> QED  BY <2>1, <2>2, <2>3 DEF Fits, OfCloudRun
<1> QED  BY <1>3, <1>4, <1>5, <1>6 DEF IInv

LEMMA Creation ==
  ASSUME IInv, NEW j \in Jobs, At(j, "create"), NEW pc \in {"run", "setpath", "fail"}, Goto(j, pc),
         NEW x, resources' = resources \cup {x}, UNCHANGED <<request, worker, short>>,
         DOMAIN x = ResourceFields, x.owner = j, x.kind = Provider(j), x.id = Plan(j).job,
         OfCloudRun(j) =>
           /\ x.count = 1 /\ x.parallelism \in {0, 1}
           /\ \A f \in DOMAIN Max : request[j].override[f] # 0 => x.limits[f] <= Max[f]
  PROVE  IInv'
<1>1. /\ DOMAIN sub' = Jobs /\ \A k \in Jobs \ {j} : sub'[k] = sub[k]
      /\ sub'[j] = [sub[j] EXCEPT !.pc = pc] /\ DOMAIN sub[j] = SubFields
  BY DEF IInv, Requested, Goto, At
<1>2. sub'[j].pc = pc /\ sub'[j].env = sub[j].env /\ sub'[j].service = sub[j].service
      /\ DOMAIN sub'[j] = SubFields
  BY <1>1 DEF SubFields
<1>3. Requested' /\ Served'
  <2>1. j \in DOMAIN request /\ EnvShape(sub[j].env) /\ worker.pc # "down"
    BY DEF IInv, Requested, Served, At
  <2>2. Requested'
    <3>1. ASSUME NEW k \in Jobs, ~At(k, "idle")'
          PROVE  k \in DOMAIN request /\ DOMAIN sub'[k] = SubFields /\ EnvShape(sub'[k].env)
      <4>1. CASE k = j  BY <1>1, <1>2, <2>1, <4>1
      <4>2. CASE k # j  BY <1>1, <3>1, <4>2 DEF IInv, Requested, At
      <4> QED  BY <4>1, <4>2
    <3> QED  BY <1>1, <3>1 DEF IInv, Requested, EnvShape
  <2>3. Served'  BY <1>1, <1>2, <2>1 DEF IInv, Served, At
  <2> QED  BY <2>2, <2>3
<1>4. ASSUME NEW k \in Jobs, At(k, "create")' PROVE Routed(k)'
  <2>1. k # j /\ At(k, "create")  BY <1>1, <1>2, <1>4 DEF At
  <2> QED  BY <1>1, <2>1 DEF IInv, Routed, OfCloudRun
<1>5. ASSUME NEW k \in Jobs, At(k, "run")' PROVE ThereToRun(k)'
  <2>1. Provider(k)' = Provider(k) /\ Plan(k)' = Plan(k)
    BY <1>1, <1>2 DEF Provider, Plan
  <2>2. CASE k = j  BY <2>1, <2>2 DEF ThereToRun
  <2>3. CASE k # j
    <3>1. At(k, "run")  BY <1>1, <1>5, <2>3 DEF At
    <3> QED  BY <2>1, <3>1 DEF IInv, ThereToRun
  <2> QED  BY <2>2, <2>3
<1>6. ASSUME NEW y \in resources PROVE Fits(y)'
  <2>1. Fits(y)  BY DEF IInv
  <2>2. y.owner # j  BY <2>1 DEF Fits, At
  <2> QED  BY <1>1, <2>1, <2>2 DEF Fits, OfCloudRun
<1>7. Fits(x)'  BY <1>1, <1>2 DEF Fits, OfCloudRun
<1> QED  BY <1>3, <1>4, <1>5, <1>6, <1>7 DEF IInv

\* Both providers turn what was routed to Cloud Run into a resource that fits.
LEMMA Planned ==
  ASSUME IInv, NEW j \in Jobs, At(j, "create"), OfCloudRun(j),
         NEW x \in {BatchJob(j), CloudRunJob(j)}
  PROVE  /\ x.count = 1 /\ x.parallelism \in {0, 1}
         /\ \A f \in DOMAIN Max : request[j].override[f] # 0 => x.limits[f] <= Max[f]
<1>1. /\ TaskGroup(sub[j].env).count = 1 /\ TaskGroup(sub[j].env).parallelism \in {0, 1}
      /\ Within(request[j])
  BY DEF IInv, Routed
<1>2. /\ j \in DOMAIN request
      /\ DOMAIN request[j] = {"image", "name", "disk", "machine", "profile", "override", "env"}
      /\ request[j].override \in Resources
  BY DEF IInv, Requested, IsRequest, At
<1>3. Plan(j).group = TaskGroup(sub[j].env)  BY <1>2 DEF Plan, buildJobConfig
<1>4. ASSUME NEW f \in DOMAIN Max, request[j].override[f] # 0
      PROVE  Plan(j).resources[f] = request[j].override[f] /\ request[j].override[f] \in Int
  BY <1>2, <1>4 DEF Plan, buildJobConfig, ResolveResources, Resources, Max
<1>5. DOMAIN Plan(j).resources = DOMAIN Max  BY DEF Plan, buildJobConfig, ResolveResources
<1>6. x.count = 1 /\ x.parallelism \in {0, 1}
  BY <1>1, <1>3 DEF BatchJob, CloudRunJob, PositiveOrUnset
<1>7. ASSUME NEW f \in DOMAIN Max, request[j].override[f] # 0 PROVE x.limits[f] <= Max[f]
  <2>1. Plan(j).resources[f] <= Max[f] /\ Max[f] \in Nat /\ Plan(j).resources[f] \in Int
    BY <1>1, <1>4, <1>7 DEF Within, Max
  <2>2. x.limits[f] \in {Plan(j).resources[f], PositiveOrUnset(Plan(j).resources[f])}
    BY <1>5 DEF BatchJob, CloudRunJob
  <2> QED  BY <2>1, <2>2 DEF PositiveOrUnset
<1> QED  BY <1>6, <1>7

----------------------------------------------------------------------------
LEMMA Initially == Init => IInv
<1> SUFFICES ASSUME Init PROVE IInv  OBVIOUS
<1>1. \A j \in Jobs : sub[j].pc = "idle"  BY DEF Init
<1>2. DOMAIN sub = Jobs /\ resources = {}  BY DEF Init
<1>3. DOMAIN request \subseteq Jobs /\ \A j \in DOMAIN request : IsRequest(request[j])
  BY SubmissionAssumption DEF Init, SubmissionAssumption
<1> QED  BY <1>1, <1>2, <1>3 DEF IInv, Requested, Served, At

LEMMA WorkerStarts == ASSUME IInv, runServe PROVE IInv'
<1>1. worker.pc = "down" /\ UNCHANGED <<request, short, sub, resources>>  BY DEF runServe
<1>2. Requested' /\ Served'  BY <1>1 DEF IInv, Requested, Served, At
<1>3. ASSUME NEW j \in Jobs PROVE ~At(j, "run")'  BY <1>1 DEF IInv, Served, At
<1>4. \A j \in Jobs : At(j, "create")' => Routed(j)'  BY <1>1 DEF IInv, At, Routed, OfCloudRun
<1>5. \A x \in resources' : Fits(x)'  BY <1>1 DEF IInv, Fits, OfCloudRun
<1> QED  BY <1>2, <1>3, <1>4, <1>5 DEF IInv

LEMMA EarlySteps ==
  ASSUME IInv, NEW j \in Jobs,
         (\E a \in GeminiAnswer : Forward(j, a)) \/ ResolveSize(j) \/ Insert(j) \/ Navigate(j)
  PROVE  IInv'
<1>1. ASSUME ~At(j, "idle")
      PROVE  j \in DOMAIN request /\ DOMAIN sub[j] = SubFields /\ EnvShape(sub[j].env)
  BY <1>1 DEF IInv, Requested
<1>2. ASSUME NEW a \in GeminiAnswer, Forward(j, a) PROVE IInv'
  <2>1. PICK told :
          sub' = [sub EXCEPT ![j] =
            [pc |-> IF request[j].image THEN "forwarded" ELSE "refused", env |-> request[j].env,
             guessed |-> a \in {"SIMPLE", "MEDIUM", "COMPLEX"}, told |-> told,
             service |-> told]]
    BY <1>2 DEF Forward
  <2>2. PICK s : /\ sub' = [sub EXCEPT ![j] = s] /\ DOMAIN s = SubFields
                 /\ s.pc \in {"forwarded", "refused"} /\ s.env = request[j].env
    <3> DEFINE s == [pc |-> IF request[j].image THEN "forwarded" ELSE "refused",
                     env |-> request[j].env, guessed |-> a \in {"SIMPLE", "MEDIUM", "COMPLEX"},
                     told |-> told, service |-> told]
    <3>1. DOMAIN s = SubFields  BY DEF SubFields
    <3>2. s.pc \in {"forwarded", "refused"} /\ s.env = request[j].env  OBVIOUS
    <3> QED  BY <2>1, <3>1, <3>2
  <2>3. j \in DOMAIN request /\ At(j, "idle") /\ UNCHANGED <<request, worker, short, resources>>
    BY <1>2 DEF Forward, Fixed
  <2>4. EnvShape(s.env)
    BY <2>2, <2>3 DEF IInv, Requested, IsRequest, IsEnv, IsEnvVar, EnvShape, EnvFields
  <2> QED  BY <2>2, <2>3, <2>4, BeforeCreate DEF At
<1>3. CASE ResolveSize(j)
  <2>1. /\ worker.pc = "serving" /\ At(j, "forwarded")
        /\ UNCHANGED <<request, worker, short, resources>>
    BY <1>3 DEF ResolveSize, Fixed
  <2> PICK b : \E o \in ensureDistributedInputDataSize(sub[j].env, b) :
          sub' = [sub EXCEPT ![j].pc = IF o.ok THEN "sized" ELSE "refused", ![j].env = o.env]
    BY <1>3 DEF ResolveSize
  <2>2. PICK o \in ensureDistributedInputDataSize(sub[j].env, b) :
          sub' = [sub EXCEPT ![j].pc = IF o.ok THEN "sized" ELSE "refused", ![j].env = o.env]
    OBVIOUS
  <2> DEFINE s == [[sub[j] EXCEPT !.pc = IF o.ok THEN "sized" ELSE "refused"] EXCEPT !.env = o.env]
  <2>3. sub' = [sub EXCEPT ![j] = s]  BY <2>2
  <2>4. ~At(j, "idle")  BY <2>1 DEF At
  <2>5. DOMAIN s = SubFields /\ s.pc \in {"sized", "refused"} /\ s.env = o.env
    BY <1>1, <2>4 DEF SubFields
  <2>6. EnvShape(o.env)  BY <1>1, <2>2, <2>4, SizeOnly
  <2> HIDE DEF s
  <2> QED  BY <1>1, <2>1, <2>3, <2>4, <2>5, <2>6, BeforeCreate DEF At
<1>4. CASE Insert(j)
  <2>1. At(j, "sized") /\ UNCHANGED <<request, worker, short, resources>>
    BY <1>4 DEF Insert, Fixed
  <2>2. PICK pc \in {"inserted", "failed"} : sub' = [sub EXCEPT ![j].pc = pc]
    BY <1>4 DEF Insert, Goto
  <2> DEFINE s == [sub[j] EXCEPT !.pc = pc]
  <2>3. sub' = [sub EXCEPT ![j] = s]  BY <2>2
  <2>4. ~At(j, "idle") /\ worker.pc # "down"  BY <2>1 DEF At, IInv, Served
  <2>5. DOMAIN s = SubFields /\ s.pc = pc /\ s.env = sub[j].env  BY <1>1, <2>4 DEF SubFields
  <2> HIDE DEF s
  <2> QED  BY <1>1, <2>1, <2>3, <2>4, <2>5, BeforeCreate DEF At
<1>5. CASE Navigate(j)
  <2> DEFINE r == [request[j] EXCEPT !.env = sub[j].env]
  <2>1. At(j, "inserted") /\ UNCHANGED <<request, worker, short, resources>>
    BY <1>5 DEF Navigate, Fixed
  <2>2. PICK v \in EvaluateJobComplexity(r), pc \in {"create", "fail"} :
          sub' = [sub EXCEPT ![j].service = v, ![j].pc = pc]
    BY <1>5 DEF Navigate
  <2> DEFINE s == [[sub[j] EXCEPT !.service = v] EXCEPT !.pc = pc]
  <2>3. sub' = [sub EXCEPT ![j] = s]  BY <2>2
  <2>4. ~At(j, "idle") /\ worker.pc # "down"  BY <2>1 DEF At, IInv, Served
  <2>5. DOMAIN s = SubFields /\ s.pc = pc /\ s.env = sub[j].env /\ s.service = v
    BY <1>1, <2>4 DEF SubFields
  <2>6. r.env = sub[j].env /\ r.override = request[j].override /\ request[j].override \in Resources
    BY <1>1, <2>4 DEF IInv, Requested, IsRequest
  <2>7. ASSUME v = "CLOUD_RUN_JOB"
        PROVE  /\ TaskGroup(sub[j].env).count = 1 /\ TaskGroup(sub[j].env).parallelism \in {0, 1}
               /\ Within(request[j])
    <3> HIDE DEF r
    <3>1. FALSE \in isDistributedModeEnabled(r.env) /\ Within(r)
      BY <2>2, <2>6, <2>7, RoutedIsLight
    <3>2. Within(request[j])  BY <2>6, <3>1 DEF Within
    <3>3. EnvShape(sub[j].env)  BY <1>1, <2>4
    <3> QED  BY <2>6, <3>1, <3>2, <3>3, RoutedIsSingle
  <2> HIDE DEF s
  <2> QED  BY <1>1, <2>1, <2>3, <2>4, <2>5, <2>7, BeforeCreate DEF At
<1> QED  BY <1>2, <1>3, <1>4, <1>5

LEMMA CreateSteps ==
  ASSUME IInv, NEW j \in Jobs, NEW x \in {BatchJob(j), CloudRunJob(j)},
         NEW next \in {"setpath", "run"}, next = "run" => x = CloudRunJob(j),
         Create(j, x, next)
  PROVE  IInv'
<1>1. /\ At(j, "create") /\ x.kind = Provider(j) /\ UNCHANGED <<request, worker, short>>
  BY DEF Create, Fixed
<1>2. DOMAIN x = ResourceFields /\ x.owner = j /\ x.id = Plan(j).job
  BY DEF BatchJob, CloudRunJob, ResourceFields
<1>3. CASE Goto(j, "fail") /\ UNCHANGED resources
  BY <1>1, <1>3, AfterCreate DEF At
<1>4. ASSUME NEW pc \in {"run", "setpath", "fail"}, Goto(j, pc), resources' = resources \cup {x}
      PROVE  IInv'
  <2>1. OfCloudRun(j) =>
          /\ x.count = 1 /\ x.parallelism \in {0, 1}
          /\ \A f \in DOMAIN Max : request[j].override[f] # 0 => x.limits[f] <= Max[f]
    BY <1>1, Planned
  <2> QED  BY <1>1, <1>2, <1>4, <2>1, Creation
<1> QED  BY <1>3, <1>4 DEF Create

LEMMA LateSteps ==
  ASSUME IInv, NEW j \in Jobs,
         RunJob(j) \/ FailJob(j) \/ SetPath(j)
  PROVE  IInv'
<1>1. ASSUME UNCHANGED <<request, worker, short, resources>>,
             sub[j].pc \in {"create", "run", "setpath", "fail"},
             NEW pc \in {"setpath", "fail", "answered", "failed"}, Goto(j, pc)
      PROVE  IInv'
  BY <1>1, AfterCreate
<1>3. CASE FailJob(j)  BY <1>1, <1>3 DEF FailJob, Fixed, At
<1>4. CASE SetPath(j)  BY <1>1, <1>4 DEF SetPath, Fixed, At
<1>5. CASE RunJob(j) /\ UNCHANGED resources  BY <1>1, <1>5 DEF RunJob, Fixed, At
<1>6. CASE RunJob(j) /\ RunCreated(j)
  <2>1. Created(j) \in resources
    <3>1. ThereToRun(j)  BY <1>6 DEF RunJob, IInv
    <3> QED  BY <3>1 DEF ThereToRun, Created
  <2> DEFINE y == Created(j)
             z == [y EXCEPT !.started = TRUE]
  <2>2. resources' = (resources \ {y}) \cup {z}  BY <1>6 DEF RunCreated
  <2>3. DOMAIN y = ResourceFields  BY <2>1 DEF IInv, Fits
  <2>4. /\ z.owner = y.owner /\ z.count = y.count /\ z.parallelism = y.parallelism
        /\ z.limits = y.limits /\ DOMAIN z = DOMAIN y /\ z.kind = y.kind /\ z.id = y.id
    BY <2>3 DEF ResourceFields
  <2> HIDE DEF y, z
  <2>5. \A x \in resources' : \E w \in resources :
          /\ x.owner = w.owner /\ x.count = w.count /\ x.parallelism = w.parallelism
          /\ x.limits = w.limits /\ DOMAIN x = DOMAIN w
    BY <2>1, <2>2, <2>4 DEF y
  <2>6. \A w \in resources : \E x \in resources' : x.kind = w.kind /\ x.id = w.id
    BY <2>2, <2>4
  <2>7. PICK pc \in {"setpath", "fail"} : Goto(j, pc)  BY <1>6 DEF RunJob
  <2>8. At(j, "run") /\ UNCHANGED <<request, worker, short>>  BY <1>6 DEF RunJob, Fixed
  <2> QED  BY <2>5, <2>6, <2>7, <2>8, AfterCreate DEF At
<1> QED  BY <1>3, <1>4, <1>5, <1>6 DEF RunJob

LEMMA Step == IInv /\ [Next]_vars => IInv'
<1> SUFFICES ASSUME IInv, [Next]_vars PROVE IInv'  OBVIOUS
<1>1. CASE runServe  BY <1>1, WorkerStarts
<1>2. ASSUME NEW j \in Jobs,
             (\E a \in GeminiAnswer : Forward(j, a)) \/ ResolveSize(j) \/ Insert(j) \/ Navigate(j)
      PROVE  IInv'
  BY <1>2, EarlySteps
<1>3. ASSUME NEW j \in Jobs,
             Create(j, BatchJob(j), "setpath") \/ Create(j, CloudRunJob(j), "run")
      PROVE  IInv'
  BY <1>3, CreateSteps
<1>4. ASSUME NEW j \in Jobs,
             RunJob(j) \/ FailJob(j) \/ SetPath(j)
      PROVE  IInv'
  BY <1>4, LateSteps
<1>5. CASE UNCHANGED vars
  <2>1. UNCHANGED <<worker, short, request, sub, resources>>  BY <1>5 DEF vars
  <2>2. Requested' /\ Served'  BY <2>1 DEF IInv, Requested, Served, At
  <2>3. \A j \in Jobs : At(j, "create")' => Routed(j)'  BY <2>1 DEF IInv, At, Routed, OfCloudRun
  <2>4. \A j \in Jobs : At(j, "run")' => ThereToRun(j)'
    BY <2>1 DEF IInv, At, ThereToRun, Provider, Plan
  <2>5. \A x \in resources' : Fits(x)'  BY <2>1 DEF IInv, Fits, OfCloudRun
  <2> QED  BY <2>2, <2>3, <2>4, <2>5 DEF IInv
<1> QED  BY <1>1, <1>2, <1>3, <1>4, <1>5 DEF Next

\* What is routed to Cloud Run is one task within the stated limits: EvaluateJobComplexity
\* (classifier.go:99), buildJobConfig (builder.go) and ResolveResources (job_config.go)
\* agree, whatever is submitted.
THEOREM RoutedJobsFit == Spec => []CloudRunJobsFit
<1>1. Init => IInv  BY Initially
<1>2. IInv /\ [Next]_vars => IInv'  BY Step
<1>3. IInv => CloudRunJobsFit
  <2> SUFFICES ASSUME IInv, NEW x \in resources, OfCloudRun(x.owner)
               PROVE  /\ x.count = 1 /\ x.parallelism <= 1
                      /\ \A f \in DOMAIN Max : request[x.owner].override[f] # 0 => x.limits[f] <= Max[f]
    BY DEF CloudRunJobsFit, OfCloudRun
  <2>1. Fits(x)  BY DEF IInv
  <2> QED  BY <2>1 DEF Fits
<1> QED  BY <1>1, <1>2, <1>3, PTL DEF Spec

----------------------------------------------------------------------------
\* What the steps of a submission do to it.
Others(j) ==
  /\ Fixed /\ DOMAIN sub' = Jobs /\ DOMAIN sub'[j] = SubFields
  /\ \A k \in Jobs \ {j} : sub'[k] = sub[k]

SameRouting(j) == sub'[j].guessed = sub[j].guessed /\ sub'[j].told = sub[j].told

Keeps(j) == SameRouting(j) /\ sub'[j].env = sub[j].env /\ sub'[j].service = sub[j].service

LEMMA IsThere ==
  ASSUME IInv, NEW j \in Jobs, ~At(j, "idle")
  PROVE  DOMAIN sub = Jobs /\ DOMAIN sub[j] = SubFields /\ j \in DOMAIN request /\ IsRequest(request[j])
BY DEF IInv, Requested

\* Most steps only move the handler on.
LEMMA MovesOn ==
  ASSUME IInv, NEW j \in Jobs, ~At(j, "idle"), NEW pc, Goto(j, pc), Fixed
  PROVE  Others(j) /\ Keeps(j) /\ sub'[j].pc = pc
<1>1. DOMAIN sub = Jobs /\ DOMAIN sub[j] = SubFields  BY IsThere
<1>2. sub'[j] = [sub[j] EXCEPT !.pc = pc] /\ DOMAIN sub' = Jobs
      /\ \A k \in Jobs \ {j} : sub'[k] = sub[k]
  BY <1>1 DEF Goto
<1> QED  BY <1>1, <1>2 DEF Others, Keeps, SameRouting, SubFields

LEMMA Forwards ==
  ASSUME IInv, NEW j \in Jobs, NEW a \in GeminiAnswer, Forward(j, a)
  PROVE  /\ Others(j) /\ At(j, "idle") /\ j \in DOMAIN request /\ UNCHANGED <<rows, resources, mishaps>>
         /\ sub'[j].pc \in {"forwarded", "refused"} /\ sub'[j].env = request[j].env
         /\ sub'[j].guessed = (a \in {"SIMPLE", "MEDIUM", "COMPLEX"})
         /\ sub'[j].told \in EvaluateJobComplexityWithGemini(request[j], a)
         /\ sub'[j].service = sub'[j].told
<1>1. At(j, "idle") /\ j \in DOMAIN request /\ UNCHANGED <<rows, resources, mishaps>> /\ Fixed
  BY DEF Forward, NoMishap
<1>2. PICK told \in EvaluateJobComplexityWithGemini(request[j], a) : sub' = [sub EXCEPT ![j] =
         [pc |-> IF request[j].image THEN "forwarded" ELSE "refused", env |-> request[j].env,
          guessed |-> a \in {"SIMPLE", "MEDIUM", "COMPLEX"}, told |-> told, service |-> told]]
  BY DEF Forward
<1> DEFINE s == [pc |-> IF request[j].image THEN "forwarded" ELSE "refused", env |-> request[j].env,
                 guessed |-> a \in {"SIMPLE", "MEDIUM", "COMPLEX"}, told |-> told, service |-> told]
<1>3. sub' = [sub EXCEPT ![j] = s] /\ DOMAIN sub = Jobs  BY <1>2 DEF IInv, Requested
<1>4. DOMAIN s = SubFields /\ s.pc \in {"forwarded", "refused"} /\ s.env = request[j].env
      /\ s.told = told /\ s.service = told
  BY DEF SubFields
<1>5. s.guessed = (a \in {"SIMPLE", "MEDIUM", "COMPLEX"})  BY Zenon
<1> HIDE DEF s
<1>6. sub'[j] = s /\ DOMAIN sub' = Jobs /\ \A k \in Jobs \ {j} : sub'[k] = sub[k]  BY <1>3
<1>7. Others(j)  BY <1>1, <1>4, <1>6 DEF Others
<1>8. sub'[j].guessed = (a \in {"SIMPLE", "MEDIUM", "COMPLEX"})  BY <1>5, <1>6, Zenon
<1> QED  BY <1>1, <1>4, <1>6, <1>7, <1>8, <1>2

LEMMA Resolves ==
  ASSUME IInv, NEW j \in Jobs, ResolveSize(j)
  PROVE  /\ Others(j) /\ At(j, "forwarded") /\ worker.pc = "serving" /\ UNCHANGED <<rows, resources>>
         /\ SameRouting(j) /\ sub'[j].service = sub[j].service
         /\ mishaps' = mishaps \/ Mishap
         /\ \E b \in {bytes, 0} : \E o \in ensureDistributedInputDataSize(sub[j].env, b) :
              sub'[j].env = o.env /\ sub'[j].pc = IF o.ok THEN "sized" ELSE "refused"
<1>1. /\ worker.pc = "serving" /\ At(j, "forwarded") /\ UNCHANGED <<rows, resources>> /\ Fixed
      /\ mishaps' = mishaps \/ Mishap
  BY DEF ResolveSize, NoMishap
<1>2. PICK b \in {bytes, 0} : \E o \in ensureDistributedInputDataSize(sub[j].env, b) :
        sub' = [sub EXCEPT ![j].pc = IF o.ok THEN "sized" ELSE "refused", ![j].env = o.env]
  BY DEF ResolveSize
<1>3. PICK o \in ensureDistributedInputDataSize(sub[j].env, b) :
        sub' = [sub EXCEPT ![j].pc = IF o.ok THEN "sized" ELSE "refused", ![j].env = o.env]
  BY <1>2
<1>4. DOMAIN sub = Jobs /\ DOMAIN sub[j] = SubFields  BY <1>1, IsThere DEF At
<1> DEFINE pc == IF o.ok THEN "sized" ELSE "refused"
           s == [[sub[j] EXCEPT !.pc = pc] EXCEPT !.env = o.env]
<1>5. sub' = [sub EXCEPT ![j] = s]  BY <1>3
<1> HIDE DEF pc
<1>6. DOMAIN s = SubFields /\ s.pc = pc /\ s.env = o.env /\ s.guessed = sub[j].guessed
      /\ s.told = sub[j].told /\ s.service = sub[j].service
  BY <1>4 DEF SubFields
<1> HIDE DEF s
<1>7. sub'[j] = s /\ DOMAIN sub' = Jobs /\ \A k \in Jobs \ {j} : sub'[k] = sub[k]  BY <1>4, <1>5
<1>8. Others(j) /\ SameRouting(j) /\ sub'[j].service = sub[j].service
  BY <1>1, <1>6, <1>7 DEF Others, SameRouting
<1> QED  BY <1>1, <1>3, <1>6, <1>7, <1>8 DEF pc

Actual(j) == [request[j] EXCEPT !.env = sub[j].env]

LEMMA Navigates ==
  ASSUME IInv, NEW j \in Jobs, Navigate(j)
  PROVE  /\ Others(j) /\ At(j, "inserted") /\ UNCHANGED <<rows, resources, mishaps>>
         /\ SameRouting(j) /\ sub'[j].env = sub[j].env
         /\ sub'[j].service \in EvaluateJobComplexity(Actual(j))
         /\ sub'[j].pc = IF Buildable(request[j]) /\ sub'[j].service \in DOMAIN worker.providers
                         THEN "create" ELSE "fail"
<1>1. At(j, "inserted") /\ UNCHANGED <<rows, resources, mishaps>> /\ Fixed
  BY DEF Navigate, NoMishap
<1>2. PICK v \in EvaluateJobComplexity(Actual(j)) :
        sub' = [sub EXCEPT ![j].service = v,
          ![j].pc = IF Buildable(request[j]) /\ v \in DOMAIN worker.providers THEN "create" ELSE "fail"]
  BY DEF Navigate, Actual
<1>3. DOMAIN sub = Jobs /\ DOMAIN sub[j] = SubFields  BY <1>1, IsThere DEF At
<1> DEFINE pc == IF Buildable(request[j]) /\ v \in DOMAIN worker.providers THEN "create" ELSE "fail"
           s == [[sub[j] EXCEPT !.service = v] EXCEPT !.pc = pc]
<1>4. sub' = [sub EXCEPT ![j] = s]  BY <1>2
<1> HIDE DEF pc
<1>5. DOMAIN s = SubFields /\ s.pc = pc /\ s.service = v /\ s.guessed = sub[j].guessed
      /\ s.told = sub[j].told /\ s.env = sub[j].env
  BY <1>3 DEF SubFields
<1> HIDE DEF s
<1>6. sub'[j] = s /\ DOMAIN sub' = Jobs /\ \A k \in Jobs \ {j} : sub'[k] = sub[k]  BY <1>3, <1>4
<1>7. Others(j) /\ SameRouting(j)  BY <1>1, <1>5, <1>6 DEF Others, SameRouting
<1> QED  BY <1>1, <1>2, <1>5, <1>6, <1>7 DEF pc

----------------------------------------------------------------------------
\* What the path of a row leads to.
IsOwn(x, j) == x.owner = j /\ x.kind = Provider(j) /\ x.id = Plan(j).job

\* No two resources of a provider have a name in common, so that RunJob starts its own.
Distinct == \A x, y \in resources : x.kind = y.kind /\ x.id = y.id => x = y

\* A handler past Insert has a row, and rows are there only once the worker's providers are.
Stored ==
  /\ \A j \in Jobs : sub[j].pc \in {"inserted", "create", "run", "setpath", "fail"} =>
       j \in DOMAIN rows
  /\ \A j \in DOMAIN rows : worker.pc # "down" /\ DOMAIN rows[j] = DOMAIN NewRow

Owned ==
  \A j \in Jobs :
    /\ At(j, "run") => \E x \in resources : IsOwn(x, j)
    /\ At(j, "setpath") => \E x \in resources : IsOwn(x, j) /\ x.started

Leads(j) ==
  rows[j].path # <<>> =>
    \E x \in resources :
      /\ x.owner = j /\ x.id = rows[j].path /\ x.started
      /\ worker.providers[inferredService(rows[j].tier)] = x.kind
      /\ worker.providers[assignedService(rows[j].assigned)] = x.kind

\* The services behind a row are those of the submission.
Assigned == \A j \in Jobs : ~At(j, "idle") => {sub[j].told, sub[j].service} \subseteq Services

LeadInv == Distinct /\ Stored /\ Owned /\ Assigned /\ \A j \in DOMAIN rows : Leads(j)

\* Resources stay, with their names.
Carried ==
  \A x \in resources : \E y \in resources' :
    y.owner = x.owner /\ y.kind = x.kind /\ y.id = x.id /\ (x.started => y.started)

SameRow(k) ==
  /\ DOMAIN rows'[k] = DOMAIN rows[k] /\ rows'[k].path = rows[k].path
  /\ rows'[k].tier = rows[k].tier /\ rows'[k].assigned = rows[k].assigned

LEMMA LeadsStays ==
  ASSUME NEW j, Leads(j), SameRow(j), Carried, UNCHANGED worker
  PROVE  Leads(j)'
<1> SUFFICES ASSUME rows'[j].path # <<>>
             PROVE  \E y \in resources' :
                      /\ y.owner = j /\ y.id = rows'[j].path /\ y.started
                      /\ worker'.providers[inferredService(rows'[j].tier)] = y.kind
                      /\ worker'.providers[assignedService(rows'[j].assigned)] = y.kind
  BY DEF Leads
<1>1. PICK x \in resources :
        /\ x.owner = j /\ x.id = rows[j].path /\ x.started
        /\ worker.providers[inferredService(rows[j].tier)] = x.kind
        /\ worker.providers[assignedService(rows[j].assigned)] = x.kind
  BY DEF Leads, SameRow
<1>2. PICK y \in resources' : y.owner = x.owner /\ y.kind = x.kind /\ y.id = x.id /\ (x.started => y.started)
  BY DEF Carried
<1> QED  BY <1>1, <1>2 DEF SameRow, inferredService, assignedService

LEMMA OwnStays ==
  ASSUME NEW j \in Jobs, NEW k \in Jobs \ {j}, Others(j)
  PROVE  Provider(k)' = Provider(k) /\ Plan(k)' = Plan(k)
BY DEF Others, Fixed, Provider, Plan

LEMMA OwnKept ==
  ASSUME NEW j \in Jobs, Fixed, Keeps(j)
  PROVE  Provider(j)' = Provider(j) /\ Plan(j)' = Plan(j)
BY DEF Fixed, Keeps, Provider, Plan

\* A step keeps the invariant if it does for its own job.
LEMMA LeadStep ==
  ASSUME LeadInv, NEW j \in Jobs, Others(j), Carried, Distinct',
         {sub'[j].told, sub'[j].service} \subseteq Services,
         DOMAIN rows \subseteq DOMAIN rows',
         \A k \in DOMAIN rows' \ {j} : k \in DOMAIN rows /\ SameRow(k),
         sub'[j].pc \in {"inserted", "create", "run", "setpath", "fail"} => j \in DOMAIN rows',
         j \in DOMAIN rows' => worker.pc # "down" /\ DOMAIN rows'[j] = DOMAIN NewRow /\ Leads(j)',
         sub'[j].pc = "run" => \E x \in resources' : IsOwn(x, j)',
         sub'[j].pc = "setpath" => \E x \in resources' : IsOwn(x, j)' /\ x.started
  PROVE  LeadInv'
<1>1. UNCHANGED worker /\ \A k \in Jobs \ {j} : sub'[k] = sub[k]  BY DEF Others, Fixed
<1>2. Stored'
  <2>1. ASSUME NEW k \in Jobs, sub'[k].pc \in {"inserted", "create", "run", "setpath", "fail"}
        PROVE  k \in DOMAIN rows'
    BY <1>1, <2>1 DEF LeadInv, Stored
  <2>2. ASSUME NEW k \in DOMAIN rows' PROVE worker'.pc # "down" /\ DOMAIN rows'[k] = DOMAIN NewRow
    BY <1>1 DEF LeadInv, Stored, SameRow
  <2> QED  BY <2>1, <2>2 DEF Stored, NewRow
<1>3. Owned'
  <2> SUFFICES ASSUME NEW k \in Jobs
               PROVE  /\ sub'[k].pc = "run" => \E y \in resources' : IsOwn(y, k)'
                      /\ sub'[k].pc = "setpath" => \E y \in resources' : IsOwn(y, k)' /\ y.started
    BY DEF Owned, At
  <2>1. CASE k = j  BY <2>1
  <2>2. CASE k # j
    <3>1. Provider(k)' = Provider(k) /\ Plan(k)' = Plan(k)  BY <2>2, OwnStays
    <3>2. ASSUME NEW x \in resources, IsOwn(x, k)
          PROVE  \E y \in resources' : IsOwn(y, k)' /\ (x.started => y.started)
      <4>1. PICK y \in resources' :
              y.owner = x.owner /\ y.kind = x.kind /\ y.id = x.id /\ (x.started => y.started)
        BY DEF Carried
      <4> QED  BY <3>1, <3>2, <4>1 DEF IsOwn
    <3>3. sub'[k] = sub[k]  BY <1>1, <2>2
    <3> QED  BY <3>2, <3>3 DEF LeadInv, Owned, At
  <2> QED  BY <2>1, <2>2
<1>4. Assigned'
  <2> SUFFICES ASSUME NEW k \in Jobs, sub'[k].pc # "idle"
               PROVE  {sub'[k].told, sub'[k].service} \subseteq Services
    BY DEF Assigned, At
  <2> QED  BY <1>1 DEF LeadInv, Assigned, At
<1>5. ASSUME NEW k \in DOMAIN rows' PROVE Leads(k)'
  <2>1. CASE k = j  BY <2>1
  <2>2. CASE k # j  BY <1>1, <2>2, LeadsStays DEF LeadInv
  <2> QED  BY <2>1, <2>2
<1> QED  BY <1>2, <1>3, <1>4, <1>5 DEF LeadInv

\* A submission goes on, or ends, with the rows and resources that there are.
LEMMA LeadQuiet ==
  ASSUME LeadInv, NEW j \in Jobs, Others(j), UNCHANGED <<rows, resources>>,
         {sub'[j].told, sub'[j].service} \subseteq Services,
         sub'[j].pc \notin {"run", "setpath"},
         sub'[j].pc \in {"inserted", "create", "fail"} => j \in DOMAIN rows
  PROVE  LeadInv'
<1>1. Carried /\ Distinct'  BY DEF Carried, LeadInv, Distinct
<1>2. \A k \in DOMAIN rows : SameRow(k)  BY DEF SameRow
<1>3. j \in DOMAIN rows => worker.pc # "down" /\ DOMAIN rows'[j] = DOMAIN NewRow /\ Leads(j)'
  BY <1>1, <1>2, LeadsStays DEF LeadInv, Stored, Others, Fixed
<1> QED  BY <1>1, <1>2, <1>3, LeadStep

LEMMA RoutesAreServices ==
  ASSUME NEW r, NEW a
  PROVE  /\ EvaluateJobComplexity(r) \subseteq Services
         /\ EvaluateJobComplexityWithGemini(r, a) \subseteq Services
<1>1. EvaluateJobComplexity(r) \subseteq Services  BY DEF EvaluateJobComplexity, Services
<1>2. ServiceOfTier(a) \in Services  BY DEF ServiceOfTier, Services
<1> QED  BY <1>1, <1>2 DEF EvaluateJobComplexityWithGemini, Services

LEMMA LeadEarly ==
  ASSUME IInv, LeadInv, NEW j \in Jobs,
         (\E a \in GeminiAnswer : Forward(j, a)) \/ ResolveSize(j) \/ Navigate(j)
  PROVE  LeadInv'
<1>1. ASSUME NEW a \in GeminiAnswer, Forward(j, a) PROVE LeadInv'
  <2>1. /\ Others(j) /\ UNCHANGED <<rows, resources>> /\ sub'[j].pc \in {"forwarded", "refused"}
        /\ sub'[j].told \in EvaluateJobComplexityWithGemini(request[j], a)
        /\ sub'[j].service = sub'[j].told
    BY <1>1, Forwards
  <2>2. {sub'[j].told, sub'[j].service} \subseteq Services  BY <2>1, RoutesAreServices
  <2> QED  BY <2>1, <2>2, LeadQuiet
<1>2. CASE ResolveSize(j)
  <2>1. /\ Others(j) /\ At(j, "forwarded") /\ UNCHANGED <<rows, resources>> /\ SameRouting(j)
        /\ sub'[j].service = sub[j].service /\ sub'[j].pc \in {"sized", "refused"}
    BY <1>2, Resolves
  <2>2. {sub'[j].told, sub'[j].service} \subseteq Services
    BY <2>1 DEF LeadInv, Assigned, SameRouting, At
  <2> QED  BY <2>1, <2>2, LeadQuiet
<1>3. CASE Navigate(j)
  <2>1. /\ Others(j) /\ At(j, "inserted") /\ UNCHANGED <<rows, resources>> /\ SameRouting(j)
        /\ sub'[j].service \in EvaluateJobComplexity(Actual(j)) /\ sub'[j].pc \in {"create", "fail"}
    BY <1>3, Navigates
  <2>2. {sub'[j].told, sub'[j].service} \subseteq Services /\ j \in DOMAIN rows
    BY <2>1, RoutesAreServices DEF LeadInv, Assigned, Stored, SameRouting, At
  <2> QED  BY <2>1, <2>2, LeadQuiet
<1> QED  BY <1>1, <1>2, <1>3

\* A step that moves the handler on.
LEMMA StillAssigned ==
  ASSUME IInv, LeadInv, NEW j \in Jobs, ~At(j, "idle"), NEW pc, Goto(j, pc), Fixed
  PROVE  /\ Others(j) /\ Keeps(j) /\ sub'[j].pc = pc
         /\ {sub'[j].told, sub'[j].service} \subseteq Services
<1>1. Others(j) /\ Keeps(j) /\ sub'[j].pc = pc  BY MovesOn
<1> QED  BY <1>1 DEF LeadInv, Assigned, Keeps, SameRouting

LEMMA LeadInsert ==
  ASSUME IInv, LeadInv, NEW j \in Jobs, Insert(j)
  PROVE  LeadInv'
<1>1. At(j, "sized") /\ UNCHANGED resources /\ Fixed /\ ~At(j, "idle")  BY DEF Insert, At
<1>2. PICK pc \in {"inserted", "failed"} : Goto(j, pc) /\ (pc = "inserted" => InsertRow(j))
                                           /\ (InsertRow(j) \/ UNCHANGED rows)
  BY DEF Insert
<1>3. Others(j) /\ sub'[j].pc = pc /\ {sub'[j].told, sub'[j].service} \subseteq Services
  BY <1>1, <1>2, StillAssigned
<1>4. CASE UNCHANGED rows /\ pc = "failed"  BY <1>1, <1>3, <1>4, LeadQuiet
<1>5. CASE InsertRow(j)
  <2>1. /\ DOMAIN rows' = DOMAIN rows \cup {j} /\ rows'[j] = NewRow
        /\ \A k \in DOMAIN rows \ {j} : rows'[k] = rows[k]
    BY <1>5 DEF InsertRow
  <2>2. Carried /\ Distinct'  BY <1>1 DEF Carried, LeadInv, Distinct
  <2>3. \A k \in DOMAIN rows' \ {j} : k \in DOMAIN rows /\ SameRow(k)  BY <2>1 DEF SameRow
  <2>4. worker.pc # "down"  BY <1>1 DEF IInv, Served, At
  <2>5. rows'[j].path = <<>> /\ DOMAIN rows'[j] = DOMAIN NewRow  BY <2>1 DEF NewRow
  <2>6. Leads(j)'  BY <2>5 DEF Leads
  <2> QED  BY <1>2, <1>3, <2>1, <2>2, <2>3, <2>4, <2>5, <2>6, LeadStep
<1> QED  BY <1>2, <1>4, <1>5

LEMMA LeadCreate ==
  ASSUME IInv, LeadInv, NEW j \in Jobs, NEW x, NEW next \in {"setpath", "run"}, Create(j, x, next),
         x.owner = j, x.id = Plan(j).job, next = "setpath" => x.started
  PROVE  LeadInv'
<1>1. /\ At(j, "create") /\ Provider(j) = x.kind /\ UNCHANGED rows /\ Fixed /\ ~At(j, "idle")
      /\ j \in DOMAIN rows
  BY DEF Create, At, LeadInv, Stored
<1>2. CASE Goto(j, "fail") /\ UNCHANGED resources
  BY <1>1, <1>2, StillAssigned, LeadQuiet
<1>3. ASSUME NEW pc \in {"fail", next}, Goto(j, pc), ~InUse(j), resources' = resources \cup {x}
      PROVE  LeadInv'
  <2>1. /\ Others(j) /\ Keeps(j) /\ sub'[j].pc = pc
        /\ {sub'[j].told, sub'[j].service} \subseteq Services
    BY <1>1, <1>3, StillAssigned
  <2>2. Provider(j)' = Provider(j) /\ Plan(j)' = Plan(j)  BY <1>1, <2>1, OwnKept
  <2>3. IsOwn(x, j)' /\ x \in resources'  BY <1>1, <1>3, <2>2 DEF IsOwn
  <2>4. Carried  BY <1>3 DEF Carried
  <2>5. Distinct'  BY <1>1, <1>3 DEF LeadInv, Distinct, InUse
  <2>6. \A k \in DOMAIN rows : SameRow(k)  BY <1>1 DEF SameRow
  <2>7. worker.pc # "down" /\ DOMAIN rows'[j] = DOMAIN NewRow /\ Leads(j)'
    BY <1>1, <2>4, <2>6, LeadsStays DEF LeadInv, Stored, Fixed
  <2> QED  BY <1>1, <2>1, <2>3, <2>4, <2>5, <2>6, <2>7, LeadStep
<1> QED  BY <1>2, <1>3 DEF Create

\* RunJob marks the resource that Create has made.
LEMMA Marks ==
  ASSUME IInv, NEW j \in Jobs, At(j, "run"), RunCreated(j)
  PROVE  \E y \in resources, z \in resources' :
           /\ y.kind = Provider(j) /\ y.id = Plan(j).job
           /\ resources' = (resources \ {y}) \cup {z}
           /\ \A f \in ResourceFields \ {"started"} : z[f] = y[f]
           /\ DOMAIN z = ResourceFields /\ DOMAIN y = ResourceFields /\ z.started
<1>1. Created(j) \in resources /\ Created(j).kind = Provider(j) /\ Created(j).id = Plan(j).job
  <2>1. ThereToRun(j)  BY DEF IInv
  <2> QED  BY <2>1 DEF ThereToRun, Created
<1> DEFINE y == Created(j)
           z == [y EXCEPT !.started = TRUE]
<1>2. resources' = (resources \ {y}) \cup {z}  BY DEF RunCreated
<1>3. DOMAIN y = ResourceFields  BY <1>1 DEF IInv, Fits
<1>4. \A f \in ResourceFields \ {"started"} : z[f] = y[f]  BY <1>3
<1>5. DOMAIN z = ResourceFields /\ z.started  BY <1>3 DEF ResourceFields
<1> HIDE DEF z
<1> QED  BY <1>1, <1>2, <1>3, <1>4, <1>5

LEMMA LeadRun ==
  ASSUME IInv, LeadInv, NEW j \in Jobs, RunJob(j)
  PROVE  LeadInv'
<1>1. /\ At(j, "run") /\ UNCHANGED rows /\ Fixed /\ ~At(j, "idle") /\ j \in DOMAIN rows
  BY DEF RunJob, At, LeadInv, Stored
<1>2. CASE Goto(j, "fail") /\ UNCHANGED resources
  BY <1>1, <1>2, StillAssigned, LeadQuiet
<1>3. ASSUME NEW pc \in {"setpath", "fail"}, Goto(j, pc), RunCreated(j) PROVE LeadInv'
  <2>1. /\ Others(j) /\ Keeps(j) /\ sub'[j].pc = pc
        /\ {sub'[j].told, sub'[j].service} \subseteq Services
    BY <1>1, <1>3, StillAssigned
  <2>2. Provider(j)' = Provider(j) /\ Plan(j)' = Plan(j)  BY <1>1, <2>1, OwnKept
  <2>3. PICK y \in resources, z \in resources' :
           /\ y.kind = Provider(j) /\ y.id = Plan(j).job
           /\ resources' = (resources \ {y}) \cup {z}
           /\ \A f \in ResourceFields \ {"started"} : z[f] = y[f]
           /\ z.started
    BY <1>1, <1>3, Marks
  <2>4. z.kind = y.kind /\ z.id = y.id /\ z.owner = y.owner  BY <2>3 DEF ResourceFields
  <2>5. PICK x \in resources : IsOwn(x, j)  BY <1>1 DEF LeadInv, Owned
  <2>6. x = y  BY <2>3, <2>5 DEF LeadInv, Distinct, IsOwn
  <2>7. IsOwn(z, j)' /\ z \in resources' /\ z.started
    BY <2>2, <2>3, <2>4, <2>5, <2>6 DEF IsOwn
  <2>8. Carried  BY <2>3, <2>4 DEF Carried
  <2>9. Distinct'
    <3>1. \A v \in resources' : \/ v = z
                                \/ v \in resources /\ ~(v.kind = z.kind /\ v.id = z.id)
      BY <2>3, <2>4 DEF LeadInv, Distinct
    <3> QED  BY <3>1 DEF LeadInv, Distinct
  <2>10. \A k \in DOMAIN rows : SameRow(k)  BY <1>1 DEF SameRow
  <2>11. worker.pc # "down" /\ DOMAIN rows'[j] = DOMAIN NewRow /\ Leads(j)'
    BY <1>1, <2>8, <2>10, LeadsStays DEF LeadInv, Stored, Fixed
  <2> QED  BY <1>1, <2>1, <2>7, <2>8, <2>9, <2>10, <2>11, LeadStep
<1> QED  BY <1>2, <1>3 DEF RunJob

\* The worker reads the service back from a row, by the tier and by the assigned service.
LEMMA ServiceReadBack ==
  ASSUME NEW s \in Services
  PROVE  inferredService(serviceTierFromPlan(s)) = s /\ assignedService(s) = s
BY DEF Services, inferredService, serviceTierFromPlan, assignedService

LEMMA LeadSetPath ==
  ASSUME IInv, LeadInv, NEW j \in Jobs, SetPath(j)
  PROVE  LeadInv'
<1>1. /\ At(j, "setpath") /\ UNCHANGED resources /\ Fixed /\ ~At(j, "idle") /\ j \in DOMAIN rows
  BY DEF SetPath, At, LeadInv, Stored
<1>2. CASE Goto(j, "failed") /\ UNCHANGED rows
  BY <1>1, <1>2, StillAssigned, LeadQuiet
<1>3. ASSUME NEW pc \in {"answered", "failed"}, Goto(j, pc), NEW status \in InitialStatus(j),
             rows' = [rows EXCEPT ![j] =
               [status |-> status, path |-> Plan(j).job,
                tier |-> serviceTierFromPlan(sub[j].service), assigned |-> sub[j].service]]
      PROVE  LeadInv'
  <2>1. /\ Others(j) /\ sub'[j].pc = pc /\ {sub'[j].told, sub'[j].service} \subseteq Services
    BY <1>1, <1>3, StillAssigned
  <2>2. /\ DOMAIN rows' = DOMAIN rows /\ \A k \in DOMAIN rows \ {j} : rows'[k] = rows[k]
        /\ rows'[j].path = Plan(j).job /\ rows'[j].tier = serviceTierFromPlan(sub[j].service)
        /\ rows'[j].assigned = sub[j].service /\ DOMAIN rows'[j] = DOMAIN NewRow
    BY <1>1, <1>3 DEF NewRow
  <2>3. PICK x \in resources : IsOwn(x, j) /\ x.started  BY <1>1 DEF LeadInv, Owned
  <2>4. /\ inferredService(rows'[j].tier) = sub[j].service
        /\ assignedService(rows'[j].assigned) = sub[j].service
    BY <1>1, <2>2, ServiceReadBack DEF LeadInv, Assigned
  <2>5. worker.providers[sub[j].service] = x.kind  BY <2>3 DEF IsOwn, Provider
  <2>6. Leads(j)'  BY <1>1, <2>2, <2>3, <2>4, <2>5 DEF Leads, IsOwn, Fixed, inferredService, assignedService
  <2>7. Carried /\ Distinct'  BY <1>1 DEF Carried, LeadInv, Distinct
  <2>8. \A k \in DOMAIN rows' \ {j} : k \in DOMAIN rows /\ SameRow(k)  BY <2>2 DEF SameRow
  <2>9. worker.pc # "down"  BY <1>1 DEF LeadInv, Stored
  <2> QED  BY <1>1, <1>3, <2>1, <2>2, <2>6, <2>7, <2>8, <2>9, LeadStep
<1> QED  BY <1>2, <1>3 DEF SetPath

LEMMA LeadFail ==
  ASSUME IInv, LeadInv, NEW j \in Jobs, FailJob(j)
  PROVE  LeadInv'
<1>1. /\ UNCHANGED resources /\ Fixed /\ ~At(j, "idle") /\ j \in DOMAIN rows
  BY DEF FailJob, At, LeadInv, Stored
<1>2. PICK pc \in {"fail", "failed"} : Goto(j, pc)  BY DEF FailJob
<1>3. /\ Others(j) /\ sub'[j].pc = pc /\ {sub'[j].told, sub'[j].service} \subseteq Services
  BY <1>1, <1>2, StillAssigned
<1>4. CASE UNCHANGED rows  BY <1>1, <1>3, <1>4, LeadQuiet
<1>5. CASE rows' = [rows EXCEPT ![j].status = "FAILED"]
  <2>1. DOMAIN rows[j] = DOMAIN NewRow  BY <1>1 DEF LeadInv, Stored
  <2>2. DOMAIN rows' = DOMAIN rows /\ \A k \in DOMAIN rows : SameRow(k)
    BY <1>5, <2>1 DEF SameRow, NewRow
  <2>3. Carried /\ Distinct'  BY <1>1 DEF Carried, LeadInv, Distinct
  <2>4. worker.pc # "down" /\ DOMAIN rows'[j] = DOMAIN NewRow /\ Leads(j)'
    BY <1>1, <2>1, <2>2, <2>3, LeadsStays DEF LeadInv, Stored, Fixed, SameRow
  <2> QED  BY <1>1, <1>3, <2>2, <2>3, <2>4, LeadStep
<1> QED  BY <1>4, <1>5 DEF FailJob

LEMMA LeadStarts == ASSUME LeadInv, runServe PROVE LeadInv'
<1>1. worker.pc = "down" /\ UNCHANGED <<request, short, sub, rows, resources>>  BY DEF runServe
<1>2. DOMAIN rows = {}  BY <1>1 DEF LeadInv, Stored
<1>3. \A j \in Jobs : ~At(j, "run") /\ ~At(j, "setpath")  BY <1>2 DEF LeadInv, Stored, At
<1>4. Distinct' /\ Stored'  BY <1>1, <1>2 DEF LeadInv, Distinct, Stored
<1>5. Owned' /\ Assigned'  BY <1>1, <1>3 DEF LeadInv, Owned, Assigned, At
<1> QED  BY <1>1, <1>2, <1>4, <1>5 DEF LeadInv

LEMMA LeadNext == IInv /\ LeadInv /\ [Next]_vars => LeadInv'
<1> SUFFICES ASSUME IInv, LeadInv, [Next]_vars PROVE LeadInv'  OBVIOUS
<1>1. CASE runServe  BY <1>1, LeadStarts
<1>2. ASSUME NEW j \in Jobs,
             (\E a \in GeminiAnswer : Forward(j, a)) \/ ResolveSize(j) \/ Insert(j) \/ Navigate(j)
      PROVE  LeadInv'
  BY <1>2, LeadEarly, LeadInsert
<1>3. ASSUME NEW j \in Jobs, Create(j, BatchJob(j), "setpath") PROVE LeadInv'
  <2>1. BatchJob(j).owner = j /\ BatchJob(j).id = Plan(j).job /\ BatchJob(j).started  BY DEF BatchJob
  <2> QED  BY <1>3, <2>1, LeadCreate
<1>4. ASSUME NEW j \in Jobs, Create(j, CloudRunJob(j), "run") PROVE LeadInv'
  <2>1. CloudRunJob(j).owner = j /\ CloudRunJob(j).id = Plan(j).job  BY DEF CloudRunJob
  <2> QED  BY <1>4, <2>1, LeadCreate
<1>5. ASSUME NEW j \in Jobs,
             RunJob(j) \/ FailJob(j) \/ SetPath(j)
      PROVE  LeadInv'
  BY <1>5, LeadFail, LeadRun, LeadSetPath
<1>6. CASE UNCHANGED vars
  <2>1. UNCHANGED <<worker, short, request, sub, rows, resources>>  BY <1>6 DEF vars
  <2>2. Distinct' /\ Stored' /\ Assigned'  BY <2>1 DEF LeadInv, Distinct, Stored, Assigned, At, NewRow
  <2>3. Owned'  BY <2>1 DEF LeadInv, Owned, IsOwn, Provider, Plan, At
  <2>4. \A j \in DOMAIN rows' : Leads(j)'
    BY <2>1 DEF LeadInv, Leads, inferredService, assignedService
  <2> QED  BY <2>2, <2>3, <2>4 DEF LeadInv
<1> QED  BY <1>1, <1>2, <1>3, <1>4, <1>5, <1>6 DEF Next

LEMMA LeadInit == Init => LeadInv
<1> SUFFICES ASSUME Init PROVE LeadInv  OBVIOUS
<1>1. DOMAIN rows = {} /\ resources = {} /\ \A j \in Jobs : sub[j].pc = "idle"  BY DEF Init
<1> QED  BY <1>1 DEF LeadInv, Distinct, Stored, Owned, Assigned, At

LEMMA Invariants == Spec => [](IInv /\ LeadInv)
<1>1. Init => IInv /\ LeadInv  BY Initially, LeadInit
<1>2. IInv /\ LeadInv /\ [Next]_vars => (IInv /\ LeadInv)'  BY Step, LeadNext
<1> QED  BY <1>1, <1>2, PTL DEF Spec

\* The path of a row leads to the resource of that job, which runs, and both readings of the
\* row name the provider that created it: UpdateJobStatusAndGcpPath stores the name that
\* SubmitJob (handlers.go) was given by the provider, and a provider refuses a name in use.
THEOREM PathsLeadToResources == Spec => []PathLeadsToResource
<1>1. LeadInv => PathLeadsToResource  BY DEF LeadInv, Leads, PathLeadsToResource
<1> QED  BY <1>1, Invariants, PTL

----------------------------------------------------------------------------
\* The size of the input.
Informed(sent, env) ==
  SplitsObject(sent) =>
    /\ \E s \in DOMAIN env.size : env.size[s] > 0
    /\ DOMAIN sent.size \subseteq {"exact"} => PositiveExact(env.size)

SizeInv ==
  /\ bytes \in Nat
  /\ \A j \in Jobs : At(j, "forwarded") => sub[j].env = request[j].env
  /\ \A j \in Jobs : sub[j].pc \in {"sized", "inserted", "create"} =>
       Informed(request[j].env, sub[j].env)
  /\ \A x \in resources : Informed(request[x.owner].env, x.env)

\* What the lookup lets through has a size, under the name that the lookup has found, or
\* under the exact one if it has found none.
LEMMA LookupInforms ==
  ASSUME NEW env, IsEnv(env), NEW b \in Nat, NEW o \in ensureDistributedInputDataSize(env, b), o.ok
  PROVE  Informed(env, o.env)
<1> SUFFICES ASSUME SplitsObject(env)
             PROVE  /\ \E s \in DOMAIN o.env.size : o.env.size[s] > 0
                    /\ DOMAIN env.size \subseteq {"exact"} => PositiveExact(o.env.size)
  BY DEF Informed
<1>1. PICK e \in lookupEnvVarCI(env.enable, "no"), m \in lookupEnvVarCI(env.mode, "BYTE_RANGE"),
           s \in lookupEnvVarCI(env.size, 0), p \in lookupEnvVarCI(env.path, "empty") :
        o = IF ~isTruthyValue(e.value) \/ m.value = "RECORD" \/ s.value > 0 THEN Unchanged(env)
            ELSE IF p.value = "empty" THEN Refused(env)
            ELSE IF p.value = "local" THEN Unchanged(env)
            ELSE IF b <= 0 THEN Refused(env)
            ELSE [ok |-> TRUE, env |-> [env EXCEPT !.size = Assign(@, s.key, b)]]
  BY DEF ensureDistributedInputDataSize
<1>2. isTruthyValue(e.value)
  <2>1. \E k \in DOMAIN env.enable : e.value = env.enable[k]  BY DEF lookupEnvVarCI, SplitsObject
  <2> QED  BY <2>1 DEF SplitsObject
<1>3. m.value # "RECORD"
  BY DEF lookupEnvVarCI, SplitsObject
<1>4. p.value = "gs"
  BY DEF lookupEnvVarCI, SplitsObject
<1>5. /\ DOMAIN env.size \subseteq {"exact"} => s.key = "exact"
      /\ s.value > 0 => s.key \in DOMAIN env.size /\ s.value = env.size[s.key]
  <2>1. CASE DOMAIN env.size = {}  BY <2>1 DEF lookupEnvVarCI
  <2>2. CASE DOMAIN env.size # {}
    <3>1. PICK k \in DOMAIN env.size : s = [key |-> k, value |-> env.size[k]]
      BY <2>2 DEF lookupEnvVarCI
    <3>2. s.key = k /\ s.value = env.size[k]  BY <3>1
    <3> QED  BY <3>2
  <2> QED  BY <2>1, <2>2
<1>6. CASE s.value > 0
  <2>1. o = Unchanged(env)  BY <1>1, <1>6
  <2>2. o.env = env  BY <2>1 DEF Unchanged
  <2> QED  BY <1>5, <1>6, <2>2 DEF PositiveExact
<1>7. CASE ~(s.value > 0)
  <2>1. o = IF b <= 0 THEN Refused(env)
            ELSE [ok |-> TRUE, env |-> [env EXCEPT !.size = Assign(@, s.key, b)]]
    BY <1>1, <1>2, <1>3, <1>4, <1>7
  <2>2. ~(b <= 0)  BY <2>1 DEF Refused
  <2>3. o.env = [env EXCEPT !.size = Assign(@, s.key, b)]  BY <2>1, <2>2
  <2>4. o.env.size = Assign(env.size, s.key, b)  BY <2>3 DEF IsEnv
  <2>5. s.key \in DOMAIN o.env.size /\ o.env.size[s.key] = b  BY <2>4 DEF Assign
  <2> QED  BY <1>5, <2>2, <2>5 DEF PositiveExact
<1> QED  BY <1>6, <1>7

\* A step in which a submission gets no environment and no resource.
LEMMA SizeQuiet ==
  ASSUME SizeInv, NEW j \in Jobs, Others(j), sub'[j].pc # "forwarded",
         sub'[j].pc \in {"sized", "inserted", "create"} => Informed(request[j].env, sub'[j].env),
         \A x \in resources' :
           \/ \E y \in resources : x.owner = y.owner /\ x.env = y.env
           \/ Informed(request[x.owner].env, x.env)
  PROVE  SizeInv'
<1>1. UNCHANGED <<request, bytes>> /\ \A k \in Jobs \ {j} : sub'[k] = sub[k]  BY DEF Others, Fixed
<1>2. bytes' \in Nat  BY <1>1 DEF SizeInv
<1>3. ASSUME NEW k \in Jobs, sub'[k].pc = "forwarded" PROVE sub'[k].env = request'[k].env
  BY <1>1, <1>3 DEF SizeInv, At
<1>4. ASSUME NEW k \in Jobs, sub'[k].pc \in {"sized", "inserted", "create"}
      PROVE  Informed(request[k].env, sub'[k].env)
  <2>1. CASE k = j  BY <1>4, <2>1
  <2>2. CASE k # j  BY <1>1, <1>4, <2>2 DEF SizeInv
  <2> QED  BY <2>1, <2>2
<1>5. ASSUME NEW x \in resources' PROVE Informed(request[x.owner].env, x.env)
  BY <1>5 DEF SizeInv
<1> QED  BY <1>1, <1>2, <1>3, <1>4, <1>5 DEF SizeInv, At, Informed

LEMMA PlannedEnv ==
  ASSUME IInv, NEW j \in Jobs, ~At(j, "idle")
  PROVE  Plan(j).env = sub[j].env
<1>1. DOMAIN request[j] = {"image", "name", "disk", "machine", "profile", "override", "env"}
  BY IsThere DEF IsRequest
<1> QED  BY <1>1 DEF Plan, buildJobConfig

LEMMA SizeForward ==
  ASSUME IInv, SizeInv, NEW j \in Jobs, NEW a \in GeminiAnswer, Forward(j, a) PROVE SizeInv'
<1>1. /\ Others(j) /\ UNCHANGED resources /\ sub'[j].env = request[j].env
      /\ sub'[j].pc \in {"forwarded", "refused"}
  BY Forwards
<1>2. UNCHANGED <<request, bytes>> /\ \A k \in Jobs \ {j} : sub'[k] = sub[k]
  BY <1>1 DEF Others, Fixed
<1>3. ASSUME NEW k \in Jobs
      PROVE  /\ sub'[k].pc = "forwarded" => sub'[k].env = request[k].env
             /\ sub'[k].pc \in {"sized", "inserted", "create"} =>
                  Informed(request[k].env, sub'[k].env)
  <2>1. CASE k = j  BY <1>1, <2>1
  <2>2. CASE k # j  BY <1>2, <2>2 DEF SizeInv, At
  <2> QED  BY <2>1, <2>2
<1> QED  BY <1>1, <1>2, <1>3 DEF SizeInv, At, Informed

LEMMA SizeResolve == ASSUME IInv, SizeInv, NEW j \in Jobs, ResolveSize(j) PROVE SizeInv'
<1>1. Others(j) /\ At(j, "forwarded") /\ UNCHANGED resources  BY Resolves
<1>2. PICK b \in {bytes, 0} : \E o \in ensureDistributedInputDataSize(sub[j].env, b) :
        sub'[j].env = o.env /\ sub'[j].pc = IF o.ok THEN "sized" ELSE "refused"
  BY Resolves
<1>3. PICK o \in ensureDistributedInputDataSize(sub[j].env, b) :
        sub'[j].env = o.env /\ sub'[j].pc = IF o.ok THEN "sized" ELSE "refused"
  BY <1>2
<1>4. sub[j].env = request[j].env /\ b \in Nat  BY <1>1 DEF SizeInv
<1>5. IsEnv(request[j].env)  BY <1>1, IsThere DEF IsRequest, At
<1>6. o.ok => Informed(request[j].env, o.env)  BY <1>3, <1>4, <1>5, LookupInforms
<1> QED  BY <1>1, <1>3, <1>6, SizeQuiet

LEMMA SizeOnward ==
  ASSUME IInv, SizeInv, NEW j \in Jobs,
         Insert(j) \/ Navigate(j) \/ RunJob(j) \/ FailJob(j) \/ SetPath(j)
  PROVE  SizeInv'
<1>1. ASSUME ~At(j, "idle"), Fixed, NEW pc, Goto(j, pc), UNCHANGED resources,
             pc # "forwarded", pc \in {"sized", "inserted", "create"} => At(j, "sized")
      PROVE  SizeInv'
  <2>1. Others(j) /\ Keeps(j) /\ sub'[j].pc = pc  BY <1>1, MovesOn
  <2> QED  BY <1>1, <2>1, SizeQuiet DEF SizeInv, Keeps, At
<1>2. CASE Insert(j)
  <2>1. ~At(j, "idle") /\ Fixed /\ UNCHANGED resources /\ At(j, "sized")  BY <1>2 DEF Insert, At
  <2>2. PICK pc \in {"inserted", "failed"} : Goto(j, pc)  BY <1>2 DEF Insert
  <2> QED  BY <1>1, <2>1, <2>2
<1>3. CASE Navigate(j)
  <2>1. /\ Others(j) /\ At(j, "inserted") /\ UNCHANGED resources /\ sub'[j].env = sub[j].env
        /\ sub'[j].pc \in {"create", "fail"}
    BY <1>3, Navigates
  <2> QED  BY <2>1, SizeQuiet DEF SizeInv, At
<1>5. CASE FailJob(j)  BY <1>1, <1>5 DEF FailJob, At
<1>6. CASE SetPath(j)  BY <1>1, <1>6 DEF SetPath, At
<1>7. CASE RunJob(j) /\ UNCHANGED resources  BY <1>1, <1>7 DEF RunJob, At
<1>8. CASE RunJob(j) /\ RunCreated(j)
  <2>1. At(j, "run") /\ ~At(j, "idle") /\ Fixed  BY <1>8 DEF RunJob, At
  <2>2. PICK pc \in {"setpath", "fail"} : Goto(j, pc)  BY <1>8 DEF RunJob
  <2>3. Others(j) /\ sub'[j].pc = pc  BY <2>1, <2>2, MovesOn
  <2>4. PICK y \in resources, z \in resources' :
          /\ resources' = (resources \ {y}) \cup {z}
          /\ \A f \in ResourceFields \ {"started"} : z[f] = y[f]
    BY <1>8, <2>1, Marks
  <2>5. z.owner = y.owner /\ z.env = y.env  BY <2>4 DEF ResourceFields
  <2> QED  BY <2>2, <2>3, <2>4, <2>5, SizeQuiet
<1> QED  BY <1>2, <1>3, <1>5, <1>6, <1>7, <1>8 DEF RunJob

LEMMA SizeCreate ==
  ASSUME IInv, SizeInv, NEW j \in Jobs, NEW x, NEW next \in {"setpath", "run"}, Create(j, x, next),
         x.owner = j, x.env = Plan(j).env
  PROVE  SizeInv'
<1>1. At(j, "create") /\ ~At(j, "idle") /\ Fixed  BY DEF Create, At
<1>2. PICK pc \in {"setpath", "run", "fail"} : Goto(j, pc)  BY DEF Create
<1>3. Others(j) /\ sub'[j].pc = pc  BY <1>1, <1>2, MovesOn
<1>4. Informed(request[j].env, x.env)  BY <1>1, PlannedEnv DEF SizeInv, At
<1>5. resources' \in {resources, resources \cup {x}}  BY DEF Create
<1> QED  BY <1>2, <1>3, <1>4, <1>5, SizeQuiet

LEMMA SizeNext == IInv /\ SizeInv /\ [Next]_vars => SizeInv'
<1> SUFFICES ASSUME IInv, SizeInv, [Next]_vars PROVE SizeInv'  OBVIOUS
<1>1. ASSUME UNCHANGED <<request, bytes, sub, resources>> PROVE SizeInv'
  BY <1>1 DEF SizeInv, At, Informed
<1>2. CASE runServe \/ UNCHANGED vars  BY <1>1, <1>2 DEF runServe, vars
<1>3. ASSUME NEW j \in Jobs, Create(j, BatchJob(j), "setpath") PROVE SizeInv'
  <2>1. BatchJob(j).owner = j /\ BatchJob(j).env = Plan(j).env  BY DEF BatchJob
  <2> QED  BY <1>3, <2>1, SizeCreate
<1>4. ASSUME NEW j \in Jobs, Create(j, CloudRunJob(j), "run") PROVE SizeInv'
  <2>1. CloudRunJob(j).owner = j /\ CloudRunJob(j).env = Plan(j).env  BY DEF CloudRunJob
  <2> QED  BY <1>4, <2>1, SizeCreate
<1> QED  BY <1>2, <1>3, <1>4, SizeForward, SizeResolve, SizeOnward DEF Next

\* The containers of a job that splits an object by bytes are given a size under the name
\* that they read, unless the client sent it under another spelling, in which the worker
\* then leaves or corrects it: ensureDistributedInputDataSize (dwp_input_size.go:30) refuses
\* what it cannot size, and the plan and both providers pass its result on.
THEOREM SizeReachesContainers == Spec => []ContainersKnowTheSize
<1>1. Init => SizeInv
  <2> SUFFICES ASSUME Init PROVE SizeInv  OBVIOUS
  <2>1. resources = {} /\ \A j \in Jobs : sub[j].pc = "idle"  BY DEF Init
  <2>2. bytes \in Nat  BY SubmissionAssumption DEF Init, SubmissionAssumption
  <2> QED  BY <2>1, <2>2 DEF SizeInv, At
<1>2. IInv /\ SizeInv /\ [Next]_vars => SizeInv'  BY SizeNext
<1>3. SizeInv => ContainersKnowTheSize
  BY DEF SizeInv, ContainersKnowTheSize, Informed
<1> QED  BY <1>1, <1>2, <1>3, Invariants, PTL DEF Spec

----------------------------------------------------------------------------
\* What the client is told.
SameRoute(e, f) == e.enable = f.enable /\ e.count = f.count /\ e.parallelism = f.parallelism

Classified(a) == a \in {"SIMPLE", "MEDIUM", "COMPLEX"}

ToldInv ==
  \A j \in Jobs : ~At(j, "idle") =>
    /\ SameRoute(sub[j].env, request[j].env)
    /\ \E a \in GeminiAnswer : /\ sub[j].guessed = Classified(a)
                               /\ sub[j].told \in EvaluateJobComplexityWithGemini(request[j], a)
    /\ sub[j].pc \in {"create", "run", "setpath", "answered"} =>
         sub[j].service \in EvaluateJobComplexity(request[j])
    /\ At(j, "answered") => j \in DOMAIN rows /\ rows[j].assigned = sub[j].service

LEMMA OnlyMember ==
  ASSUME NEW S, IsFiniteSet(S), Cardinality(S) <= 1, NEW x \in S, NEW y \in S
  PROVE  x = y
<1>1. Cardinality(S) \in Nat  BY FS_CardinalityType
<1>2. Cardinality(S) \in {0, 1}  BY <1>1
<1>3. CASE Cardinality(S) = 0  BY <1>3, FS_EmptySet
<1>4. CASE Cardinality(S) = 1  BY <1>4, FS_Singleton
<1> QED  BY <1>2, <1>3, <1>4

LEMMA OneReading ==
  ASSUME NEW v, DOMAIN v \subseteq Spellings, Cardinality(lookupEnvVar(v)) <= 1,
         NEW none, NEW x \in Found(v, none), NEW y \in Found(v, none)
  PROVE  x = y
<1>1. CASE DOMAIN v = {}  BY <1>1 DEF Found
<1>2. CASE DOMAIN v # {}
  <2>1. x \in lookupEnvVar(v) /\ y \in lookupEnvVar(v)  BY <1>2 DEF Found
  <2>2. lookupEnvVar(v) \subseteq {v["exact"], v["lower"], v["mixed"]}
    BY DEF lookupEnvVar, Spellings
  <2>3. \A a, b, c : IsFiniteSet({a} \cup {b} \cup {c})
    <3> TAKE a, b, c
    <3>1. IsFiniteSet({a})  BY FS_Singleton
    <3>2. IsFiniteSet({a} \cup {b})  BY <3>1, FS_AddElement
    <3> QED  BY <3>2, FS_AddElement
  <2>4. {v["exact"]} \cup {v["lower"]} \cup {v["mixed"]} = {v["exact"], v["lower"], v["mixed"]}
    OBVIOUS
  <2>5. IsFiniteSet(lookupEnvVar(v))  BY <2>2, <2>3, <2>4, FS_Subset
  <2> QED  BY <2>1, <2>5, OnlyMember
<1> QED  BY <1>1, <1>2

\* Where no name is spelt twice with different values, the router has no choice.
LEMMA OneMode ==
  ASSUME NEW env, IsEnv(env), Unambiguous(env),
         NEW c \in isDistributedModeEnabled(env), NEW d \in isDistributedModeEnabled(env)
  PROVE  c = d
<1>1. PICK e1 \in Found(env.enable, "no"), c1 \in Found(env.count, 0), p1 \in Found(env.parallelism, 0) :
        c <=> isTruthy(e1) \/ c1 > 1 \/ p1 > 1
  BY DEF isDistributedModeEnabled
<1>2. PICK e2 \in Found(env.enable, "no"), c2 \in Found(env.count, 0), p2 \in Found(env.parallelism, 0) :
        d <=> isTruthy(e2) \/ c2 > 1 \/ p2 > 1
  BY DEF isDistributedModeEnabled
<1>3. e1 = e2 /\ c1 = c2 /\ p1 = p2
  <2>1. DOMAIN env.enable \subseteq Spellings /\ DOMAIN env.count \subseteq Spellings
        /\ DOMAIN env.parallelism \subseteq Spellings
    BY DEF IsEnv, IsEnvVar
  <2> QED  BY <2>1, OneReading DEF Unambiguous
<1>4. c \in BOOLEAN /\ d \in BOOLEAN  BY DEF isDistributedModeEnabled
<1> QED  BY <1>1, <1>2, <1>3, <1>4

\* The router does not read what the lookup of the size changes.
LEMMA SizeKeepsRoute ==
  ASSUME NEW env, NEW b, NEW o \in ensureDistributedInputDataSize(env, b), DOMAIN env = EnvFields
  PROVE  SameRoute(o.env, env)
<1>1. PICK e \in lookupEnvVarCI(env.enable, "no"), m \in lookupEnvVarCI(env.mode, "BYTE_RANGE"),
           s \in lookupEnvVarCI(env.size, 0), p \in lookupEnvVarCI(env.path, "empty") :
        o = IF ~isTruthyValue(e.value) \/ m.value = "RECORD" \/ s.value > 0 THEN Unchanged(env)
            ELSE IF p.value = "empty" THEN Refused(env)
            ELSE IF p.value = "local" THEN Unchanged(env)
            ELSE IF b <= 0 THEN Refused(env)
            ELSE [ok |-> TRUE, env |-> [env EXCEPT !.size = Assign(@, s.key, b)]]
  BY DEF ensureDistributedInputDataSize
<1>2. CASE o \in {Unchanged(env), Refused(env)}
  <2>1. o.env = env  BY <1>2 DEF Unchanged, Refused
  <2> QED  BY <2>1 DEF SameRoute
<1>3. CASE o = [ok |-> TRUE, env |-> [env EXCEPT !.size = Assign(@, s.key, b)]]
  BY <1>3 DEF SameRoute, EnvFields
<1> QED  BY <1>1, <1>2, <1>3

LEMMA RouteOfActual ==
  ASSUME IInv, NEW j \in Jobs, ~At(j, "idle"), SameRoute(sub[j].env, request[j].env)
  PROVE  EvaluateJobComplexity(Actual(j)) = EvaluateJobComplexity(request[j])
<1>1. DOMAIN request[j] = {"image", "name", "disk", "machine", "profile", "override", "env"}
  BY IsThere DEF IsRequest
<1>2. /\ Actual(j).env = sub[j].env /\ Actual(j).override = request[j].override
      /\ Actual(j).machine = request[j].machine
  BY <1>1 DEF Actual
<1>3. isDistributedModeEnabled(Actual(j).env) = isDistributedModeEnabled(request[j].env)
  BY <1>2 DEF isDistributedModeEnabled, SameRoute
<1>4. HeavyResources(Actual(j)) = HeavyResources(request[j])  BY <1>2 DEF HeavyResources
<1> QED  BY <1>2, <1>3, <1>4 DEF EvaluateJobComplexity

\* A step keeps the invariant if it does for its own job.
LEMMA ToldStep ==
  ASSUME ToldInv, NEW j \in Jobs, Others(j),
         \A k \in DOMAIN rows \ {j} : k \in DOMAIN rows' /\ rows'[k].assigned = rows[k].assigned,
         SameRoute(sub'[j].env, request[j].env),
         \E a \in GeminiAnswer : /\ sub'[j].guessed = Classified(a)
                                 /\ sub'[j].told \in EvaluateJobComplexityWithGemini(request[j], a),
         sub'[j].pc \in {"create", "run", "setpath", "answered"} =>
           sub'[j].service \in EvaluateJobComplexity(request[j]),
         sub'[j].pc = "answered" => j \in DOMAIN rows' /\ rows'[j].assigned = sub'[j].service
  PROVE  ToldInv'
<1>1. UNCHANGED request /\ \A k \in Jobs \ {j} : sub'[k] = sub[k]  BY DEF Others, Fixed
<1> SUFFICES ASSUME NEW k \in Jobs, sub'[k].pc # "idle"
             PROVE  /\ SameRoute(sub'[k].env, request[k].env)
                    /\ \E a \in GeminiAnswer :
                         /\ sub'[k].guessed = Classified(a)
                         /\ sub'[k].told \in EvaluateJobComplexityWithGemini(request[k], a)
                    /\ sub'[k].pc \in {"create", "run", "setpath", "answered"} =>
                         sub'[k].service \in EvaluateJobComplexity(request[k])
                    /\ sub'[k].pc = "answered" =>
                         k \in DOMAIN rows' /\ rows'[k].assigned = sub'[k].service
  BY <1>1 DEF ToldInv, At, SameRoute, Classified, EvaluateJobComplexity, EvaluateJobComplexityWithGemini
<1>2. CASE k = j  BY <1>2
<1>3. CASE k # j
  <2>1. sub'[k] = sub[k] /\ ~At(k, "idle")  BY <1>1, <1>3 DEF At
  <2> QED  BY <1>3, <2>1 DEF ToldInv, At
<1> QED  BY <1>2, <1>3

LEMMA ToldForward ==
  ASSUME IInv, ToldInv, NEW j \in Jobs, NEW a \in GeminiAnswer, Forward(j, a) PROVE ToldInv'
<1>1. /\ Others(j) /\ UNCHANGED rows /\ sub'[j].env = request[j].env
      /\ sub'[j].pc \in {"forwarded", "refused"}
      /\ sub'[j].guessed = Classified(a)
      /\ sub'[j].told \in EvaluateJobComplexityWithGemini(request[j], a)
  BY Forwards DEF Classified
<1>2. SameRoute(sub'[j].env, request[j].env)  BY <1>1 DEF SameRoute
<1> QED  BY <1>1, <1>2, ToldStep

\* What Forward has told a client is what was told.
LEMMA ToldKept ==
  ASSUME ToldInv, NEW j \in Jobs, ~At(j, "idle"), SameRouting(j)
  PROVE  \E a \in GeminiAnswer : /\ sub'[j].guessed = Classified(a)
                                 /\ sub'[j].told \in EvaluateJobComplexityWithGemini(request[j], a)
<1>1. PICK a \in GeminiAnswer : /\ sub[j].guessed = Classified(a)
                                /\ sub[j].told \in EvaluateJobComplexityWithGemini(request[j], a)
  BY DEF ToldInv
<1>2. sub'[j].guessed = sub[j].guessed /\ sub'[j].told = sub[j].told  BY DEF SameRouting
<1> QED  BY <1>1, <1>2

LEMMA ToldResolve == ASSUME IInv, ToldInv, NEW j \in Jobs, ResolveSize(j) PROVE ToldInv'
<1>1. Others(j) /\ At(j, "forwarded") /\ UNCHANGED rows /\ SameRouting(j)  BY Resolves
<1>2. PICK b \in {bytes, 0} : \E o \in ensureDistributedInputDataSize(sub[j].env, b) :
        sub'[j].env = o.env /\ sub'[j].pc = IF o.ok THEN "sized" ELSE "refused"
  BY Resolves
<1>3. PICK o \in ensureDistributedInputDataSize(sub[j].env, b) :
        sub'[j].env = o.env /\ sub'[j].pc = IF o.ok THEN "sized" ELSE "refused"
  BY <1>2
<1>4. ~At(j, "idle")  BY <1>1 DEF At
<1>5. DOMAIN sub[j].env = EnvFields  BY <1>4 DEF IInv, Requested, EnvShape
<1>6. SameRoute(o.env, sub[j].env)  BY <1>3, <1>5, SizeKeepsRoute
<1>7. SameRoute(sub'[j].env, request[j].env)  BY <1>3, <1>4, <1>6 DEF ToldInv, SameRoute
<1> QED  BY <1>1, <1>3, <1>4, <1>7, ToldKept, ToldStep

LEMMA ToldNavigate == ASSUME IInv, ToldInv, NEW j \in Jobs, Navigate(j) PROVE ToldInv'
<1>1. /\ Others(j) /\ At(j, "inserted") /\ UNCHANGED rows /\ SameRouting(j)
      /\ sub'[j].env = sub[j].env /\ sub'[j].service \in EvaluateJobComplexity(Actual(j))
      /\ sub'[j].pc \in {"create", "fail"}
  BY Navigates
<1>2. ~At(j, "idle")  BY <1>1 DEF At
<1>3. SameRoute(sub[j].env, request[j].env)  BY <1>2 DEF ToldInv
<1>4. sub'[j].service \in EvaluateJobComplexity(request[j])  BY <1>1, <1>2, <1>3, RouteOfActual
<1> QED  BY <1>1, <1>2, <1>3, <1>4, ToldKept, ToldStep

\* The handler moves on with what it has.
LEMMA ToldOnward ==
  ASSUME IInv, ToldInv, NEW j \in Jobs, ~At(j, "idle"), Fixed, NEW pc, Goto(j, pc),
         pc \in {"create", "run", "setpath", "answered"} => sub[j].pc \in {"create", "run", "setpath"},
         \A k \in DOMAIN rows \ {j} : k \in DOMAIN rows' /\ rows'[k].assigned = rows[k].assigned,
         pc = "answered" => j \in DOMAIN rows' /\ rows'[j].assigned = sub[j].service
  PROVE  ToldInv'
<1>1. Others(j) /\ Keeps(j) /\ sub'[j].pc = pc  BY MovesOn
<1>2. SameRoute(sub'[j].env, request[j].env)  BY <1>1 DEF ToldInv, Keeps
<1>3. pc \in {"create", "run", "setpath", "answered"} =>
        sub'[j].service \in EvaluateJobComplexity(request[j])
  BY <1>1 DEF ToldInv, Keeps
<1>4. sub'[j].service = sub[j].service /\ SameRouting(j)  BY <1>1 DEF Keeps
<1> QED  BY <1>1, <1>2, <1>3, <1>4, ToldKept, ToldStep

LEMMA ToldLate ==
  ASSUME IInv, LeadInv, ToldInv, NEW j \in Jobs,
         \/ Insert(j) \/ RunJob(j) \/ FailJob(j) \/ SetPath(j)
         \/ \E x : \E next \in {"setpath", "run"} : Create(j, x, next)
  PROVE  ToldInv'
<1>1. CASE Insert(j)
  <2>1. At(j, "sized") /\ ~At(j, "idle") /\ Fixed  BY <1>1 DEF Insert, At
  <2>2. PICK pc \in {"inserted", "failed"} : Goto(j, pc)  BY <1>1 DEF Insert
  <2>3. \A k \in DOMAIN rows \ {j} : k \in DOMAIN rows' /\ rows'[k] = rows[k]
    BY <1>1 DEF Insert, InsertRow
  <2> QED  BY <2>1, <2>2, <2>3, ToldOnward
<1>2. ASSUME UNCHANGED rows, sub[j].pc \in {"create", "run"}, Fixed,
             NEW pc \in {"fail", "run", "setpath"}, Goto(j, pc)
      PROVE  ToldInv'
  BY <1>2, ToldOnward DEF At
<1>3. CASE RunJob(j)  BY <1>2, <1>3 DEF RunJob, At
<1>5. ASSUME NEW x, NEW next \in {"setpath", "run"}, Create(j, x, next) PROVE ToldInv'
  BY <1>2, <1>5 DEF Create, At
<1>6. CASE FailJob(j)
  <2>1. At(j, "fail") /\ ~At(j, "idle") /\ Fixed /\ Goto(j, "failed")  BY <1>6 DEF FailJob, At
  <2>2. \A k \in DOMAIN rows \ {j} : k \in DOMAIN rows' /\ rows'[k] = rows[k]
    BY <1>6 DEF FailJob
  <2> QED  BY <2>1, <2>2, ToldOnward
<1>7. CASE SetPath(j)
  <2>1. sub[j].pc = "setpath" /\ ~At(j, "idle") /\ Fixed /\ j \in DOMAIN rows
    BY <1>7 DEF SetPath, At, LeadInv, Stored
  <2>2. \A k \in DOMAIN rows \ {j} : k \in DOMAIN rows' /\ rows'[k] = rows[k]
    BY <1>7 DEF SetPath
  <2>3. CASE Goto(j, "failed")  BY <2>1, <2>2, <2>3, ToldOnward
  <2>4. ASSUME Goto(j, "answered"), NEW status \in InitialStatus(j), rows' = [rows EXCEPT ![j] =
               [status |-> status, path |-> Plan(j).job,
                tier |-> serviceTierFromPlan(sub[j].service), assigned |-> sub[j].service]]
        PROVE  ToldInv'
    <3>1. j \in DOMAIN rows' /\ rows'[j].assigned = sub[j].service  BY <2>1, <2>4
    <3> QED  BY <2>1, <2>2, <2>4, <3>1, ToldOnward
  <2> QED  BY <1>7, <2>3, <2>4 DEF SetPath
<1> QED  BY <1>1, <1>3, <1>5, <1>6, <1>7

LEMMA ToldNext == IInv /\ LeadInv /\ ToldInv /\ [Next]_vars => ToldInv'
<1> SUFFICES ASSUME IInv, LeadInv, ToldInv, [Next]_vars PROVE ToldInv'  OBVIOUS
<1>1. ASSUME UNCHANGED <<request, sub, rows>> PROVE ToldInv'
  BY <1>1 DEF ToldInv, At, SameRoute, Classified, EvaluateJobComplexity, EvaluateJobComplexityWithGemini
<1>2. CASE runServe \/ UNCHANGED vars  BY <1>1, <1>2 DEF runServe, vars
<1> QED  BY <1>2, ToldForward, ToldResolve, ToldNavigate, ToldLate DEF Next

\* What the invariant says of an answer that the model has not classified.
LEMMA AnswerIsActual ==
  ASSUME IInv, ToldInv, NEW j \in Jobs, At(j, "answered"), Unambiguous(request[j].env)
  PROVE  \/ sub[j].told = rows[j].assigned
         \/ sub[j].guessed /\ TRUE \notin isDistributedModeEnabled(request[j].env)
<1> DEFINE modes == isDistributedModeEnabled(request[j].env)
<1>1. ~At(j, "idle")  BY DEF At
<1>2. IsEnv(request[j].env)  BY <1>1, IsThere DEF IsRequest
<1>3. PICK a \in GeminiAnswer : /\ sub[j].guessed = Classified(a)
                                /\ sub[j].told \in EvaluateJobComplexityWithGemini(request[j], a)
  BY <1>1 DEF ToldInv
<1>4. rows[j].assigned \in EvaluateJobComplexity(request[j])  BY <1>1 DEF ToldInv, At
<1>5. PICK d \in modes :
        rows[j].assigned = IF d \/ request[j].machine # Blank \/ HeavyResources(request[j])
                           THEN "CLOUD_BATCH" ELSE "CLOUD_RUN_JOB"
  BY <1>4 DEF EvaluateJobComplexity
<1>6. PICK c \in modes :
        sub[j].told \in IF c THEN {"CLOUD_BATCH"}
                        ELSE IF Classified(a) THEN {ServiceOfTier(a)}
                        ELSE EvaluateJobComplexity(request[j])
  BY <1>3 DEF EvaluateJobComplexityWithGemini, Classified
<1>7. c = d /\ \A e \in modes : e = d  BY <1>2, OneMode
<1>8. CASE d
  <2>1. sub[j].told = "CLOUD_BATCH" /\ rows[j].assigned = "CLOUD_BATCH"
    BY <1>5, <1>6, <1>7, <1>8
  <2> QED  BY <2>1
<1>9. CASE ~d /\ Classified(a)  BY <1>3, <1>7, <1>9
<1>10. CASE ~d /\ ~Classified(a)
  <2>1. sub[j].told \in EvaluateJobComplexity(request[j])  BY <1>6, <1>7, <1>10
  <2>2. PICK e \in modes :
          sub[j].told = IF e \/ request[j].machine # Blank \/ HeavyResources(request[j])
                        THEN "CLOUD_BATCH" ELSE "CLOUD_RUN_JOB"
    BY <2>1 DEF EvaluateJobComplexity
  <2>3. e = d  BY <1>7, <2>2
  <2>4. CASE request[j].machine # Blank \/ HeavyResources(request[j])
    <3>1. rows[j].assigned = "CLOUD_BATCH"  BY <1>5, <2>4
    <3>2. sub[j].told = "CLOUD_BATCH"  BY <2>2, <2>4
    <3> QED  BY <3>1, <3>2
  <2>5. CASE ~(request[j].machine # Blank \/ HeavyResources(request[j]))
    <3>1. rows[j].assigned = "CLOUD_RUN_JOB"  BY <1>5, <1>10, <2>5
    <3>2. sub[j].told = "CLOUD_RUN_JOB"  BY <1>10, <2>2, <2>3, <2>5
    <3> QED  BY <3>1, <3>2
  <2> QED  BY <2>4, <2>5
<1> QED  BY <1>8, <1>9, <1>10

\* Where no variable is spelt in two ways, the service in the answer runs the job, unless
\* the model has classified it, and for a distributed job always: the gateway
\* (handlers.go of cmd/gateway) and the navigator of the worker classify it separately, and
\* the lookup of the input size between them does not touch what they read.
THEOREM AnswersAreActual == Spec => []ToldServiceIsActual
<1>1. Init => ToldInv
  <2> SUFFICES ASSUME Init PROVE ToldInv  OBVIOUS
  <2>1. \A j \in Jobs : sub[j].pc = "idle"  BY DEF Init
  <2> QED  BY <2>1 DEF ToldInv, At
<1>2. IInv /\ LeadInv /\ ToldInv /\ [Next]_vars => ToldInv'  BY ToldNext
<1>3. IInv /\ ToldInv => ToldServiceIsActual  BY AnswerIsActual DEF ToldServiceIsActual
<1> QED  BY <1>1, <1>2, <1>3, Invariants, PTL DEF Spec

----------------------------------------------------------------------------
\* Types.
LEMMA GroupsCount ==
  ASSUME NEW env, IsEnv(env)
  PROVE  TaskGroup(env).count \in Nat \ {0} /\ TaskGroup(env).parallelism \in Nat
<1>1. PositiveExact(env.count) => env.count["exact"] \in Nat \ {0}
  BY DEF IsEnv, IsEnvVar, PositiveExact
<1>2. PositiveExact(env.parallelism) => env.parallelism["exact"] \in Nat \ {0}
  BY DEF IsEnv, IsEnvVar, PositiveExact
<1> DEFINE count == IF PositiveExact(env.count) THEN env.count["exact"]
                    ELSE IF isDistributedMode(env) THEN defaultDistributedTaskCount ELSE 1
           parallelism == IF PositiveExact(env.parallelism) THEN env.parallelism["exact"]
                          ELSE IF isDistributedMode(env) THEN count ELSE 0
<1>3. count \in Nat \ {0}  BY <1>1 DEF defaultDistributedTaskCount
<1>4. TaskGroup(env) = [count |-> count, parallelism |-> parallelism]  BY DEF TaskGroup
<1> HIDE DEF count
<1>5. parallelism \in Nat  BY <1>2, <1>3
<1> HIDE DEF parallelism
<1> QED  BY <1>3, <1>4, <1>5

LEMMA FileHasResources == ASSUME NEW r PROVE Base(r) \in Resources
<1>1. \A p \in DOMAIN JobConfigFile.profiles : JobConfigFile.profiles[p] \in Resources
  BY DEF JobConfigFile, Resources
<1>2. \A m \in DOMAIN JobConfigFile.machines : JobConfigFile.machines[m] \in Resources
  BY DEF JobConfigFile, Resources
<1>3. JobConfigFile.default \in Resources  BY DEF JobConfigFile, Resources
<1> QED  BY <1>1, <1>2, <1>3 DEF Base, GetResourceRequirements

\* A function on the resources is a record of them.
LEMMA ResourceFunction ==
  ASSUME NEW F, DOMAIN F = DOMAIN Max, F = [f \in DOMAIN Max |-> F[f]], \A f \in DOMAIN Max : F[f] \in Int
  PROVE  F \in Resources
BY DEF Max, Resources

LEMMA Resolved ==
  ASSUME NEW r, r.override \in Resources
  PROVE  ResolveResources(r) \in Resources
<1>1. Base(r) \in Resources  BY FileHasResources
<1>2. \A f \in DOMAIN Max : r.override[f] \in Int /\ Base(r)[f] \in Int
  BY <1>1 DEF Max, Resources
<1> DEFINE F == ResolveResources(r)
<1>3. DOMAIN F = DOMAIN Max /\ \A f \in DOMAIN Max : F[f] \in Int
  BY <1>2 DEF ResolveResources
<1>4. F = [f \in DOMAIN Max |-> F[f]]  BY DEF ResolveResources
<1> HIDE DEF F
<1>5. F \in Resources  BY <1>3, <1>4, ResourceFunction
<1> QED  BY <1>5 DEF F

\* The lookup keeps an environment one.
LEMMA LookupIsEnv ==
  ASSUME NEW env, IsEnv(env), NEW b \in Int, NEW o \in ensureDistributedInputDataSize(env, b)
  PROVE  IsEnv(o.env) /\ o.ok \in BOOLEAN
<1>1. PICK e \in lookupEnvVarCI(env.enable, "no"), m \in lookupEnvVarCI(env.mode, "BYTE_RANGE"),
           s \in lookupEnvVarCI(env.size, 0), p \in lookupEnvVarCI(env.path, "empty") :
        o = IF ~isTruthyValue(e.value) \/ m.value = "RECORD" \/ s.value > 0 THEN Unchanged(env)
            ELSE IF p.value = "empty" THEN Refused(env)
            ELSE IF p.value = "local" THEN Unchanged(env)
            ELSE IF b <= 0 THEN Refused(env)
            ELSE [ok |-> TRUE, env |-> [env EXCEPT !.size = Assign(@, s.key, b)]]
  BY DEF ensureDistributedInputDataSize
<1>2. CASE o \in {Unchanged(env), Refused(env)}
  <2>1. o.env = env /\ (o.ok = TRUE \/ o.ok = FALSE)  BY <1>2 DEF Unchanged, Refused
  <2> QED  BY <2>1
<1>3. CASE o = [ok |-> TRUE, env |-> [env EXCEPT !.size = Assign(@, s.key, b)]]
  <2> DEFINE size == Assign(env.size, s.key, b)
  <2>1. IsEnvVar(env.size, Int) /\ DOMAIN env = EnvFields  BY DEF IsEnv, EnvFields
  <2>2. s.key \in Spellings
    <3>1. CASE DOMAIN env.size = {}  BY <3>1 DEF lookupEnvVarCI, Spellings
    <3>2. CASE DOMAIN env.size # {}  BY <2>1, <3>2 DEF lookupEnvVarCI, IsEnvVar
    <3> QED  BY <3>1, <3>2
  <2>3. IsEnvVar(size, Int)  BY <2>1, <2>2 DEF IsEnvVar, Assign
  <2>4. o.ok = TRUE /\ o.env = [env EXCEPT !.size = size]  BY <1>3
  <2> HIDE DEF size
  <2>5. DOMAIN o.env = EnvFields /\ o.env.size = size /\ \A f \in EnvFields \ {"size"} : o.env[f] = env[f]
    BY <2>1, <2>4 DEF EnvFields
  <2>6. /\ o.env.enable = env.enable /\ o.env.count = env.count /\ o.env.mode = env.mode
        /\ o.env.parallelism = env.parallelism /\ o.env.path = env.path
    BY <2>5 DEF EnvFields
  <2> QED  BY <2>3, <2>4, <2>5, <2>6 DEF IsEnv, EnvFields
<1> QED  BY <1>1, <1>2, <1>3

\* A step keeps the types if it does for its own job.
LEMMA TypeStep ==
  ASSUME TypeOK, NEW j \in Jobs, Others(j), IsSub(sub'[j]),
         DOMAIN rows' \subseteq Jobs, \A k \in DOMAIN rows' : rows'[k] \in Row,
         \A x \in resources' : IsResource(x),
         mishaps' = mishaps \/ Mishap
  PROVE  TypeOK'
<1>1. UNCHANGED <<environ, worker, short, request, bytes>> /\ DOMAIN sub' = Jobs
      /\ \A k \in Jobs \ {j} : sub'[k] = sub[k]
  BY DEF Others, Fixed
<1>2. \A k \in Jobs : IsSub(sub'[k])  BY <1>1 DEF TypeOK
<1>3. mishaps' \in 0..MaxMishaps  BY SubmissionAssumption DEF TypeOK, Mishap, SubmissionAssumption
<1>4. Row' = Row /\ JobNames' = JobNames  BY <1>1 DEF Row, JobNames
<1>5. \A x \in resources' : IsResource(x)'  BY <1>4 DEF IsResource
<1>6. \A k \in DOMAIN rows' : rows'[k] \in Row'  BY <1>4
<1> QED  BY <1>1, <1>2, <1>3, <1>5, <1>6 DEF TypeOK, IsSub

\* What is not idle is a record of this kind.
LEMMA SubType ==
  ASSUME IInv, TypeOK, NEW j \in Jobs, ~At(j, "idle")
  PROVE  /\ sub[j].pc \in Pc /\ sub[j].guessed \in BOOLEAN /\ IsEnv(sub[j].env)
         /\ sub[j].told \in Services /\ sub[j].service \in Services
<1>1. DOMAIN sub[j] = SubFields  BY IsThere
<1>2. IsSub(sub[j])  BY DEF TypeOK
<1>3. sub[j] # [pc |-> "idle"]  BY DEF At
<1> QED  BY <1>2, <1>3 DEF IsSub

LEMMA TypeMoves ==
  ASSUME IInv, TypeOK, NEW j \in Jobs, ~At(j, "idle"), NEW pc \in Pc, Goto(j, pc), Fixed
  PROVE  Others(j) /\ Keeps(j) /\ IsSub(sub'[j])
<1>1. Others(j) /\ Keeps(j) /\ sub'[j].pc = pc  BY MovesOn
<1>2. /\ sub'[j].guessed = sub[j].guessed /\ sub'[j].env = sub[j].env
      /\ sub'[j].told = sub[j].told /\ sub'[j].service = sub[j].service
      /\ DOMAIN sub'[j] = {"pc", "guessed", "told", "env", "service"}
  BY <1>1 DEF Keeps, SameRouting, Others, SubFields
<1> QED  BY <1>1, <1>2, SubType DEF IsSub

LEMMA TypeEarly ==
  ASSUME IInv, TypeOK, NEW j \in Jobs,
         (\E a \in GeminiAnswer : Forward(j, a)) \/ ResolveSize(j) \/ Navigate(j)
  PROVE  TypeOK'
<1>1. ASSUME Others(j), UNCHANGED <<rows, resources>>, mishaps' = mishaps \/ Mishap,
             sub'[j].pc \in Pc, sub'[j].guessed \in BOOLEAN, IsEnv(sub'[j].env),
             sub'[j].told \in Services, sub'[j].service \in Services
      PROVE  TypeOK'
  <2>1. IsSub(sub'[j])  BY <1>1 DEF IsSub, Others, SubFields
  <2> QED  BY <1>1, <2>1, TypeStep DEF TypeOK
<1>2. ASSUME NEW a \in GeminiAnswer, Forward(j, a) PROVE TypeOK'
  <2>1. /\ Others(j) /\ UNCHANGED <<rows, resources, mishaps>> /\ j \in DOMAIN request
        /\ sub'[j].pc \in Pc /\ sub'[j].env = request[j].env
        /\ sub'[j].guessed = (a \in {"SIMPLE", "MEDIUM", "COMPLEX"})
        /\ sub'[j].told \in EvaluateJobComplexityWithGemini(request[j], a)
        /\ sub'[j].service = sub'[j].told
    BY <1>2, Forwards DEF Pc
  <2>2. sub'[j].told \in Services /\ sub'[j].service \in Services  BY <2>1, RoutesAreServices
  <2>3. IsEnv(sub'[j].env)  BY <2>1 DEF IInv, Requested, IsRequest
  <2>4. sub'[j].guessed \in BOOLEAN  BY <2>1
  <2> QED  BY <1>1, <2>1, <2>2, <2>3, <2>4
<1>3. CASE ResolveSize(j)
  <2>1. /\ Others(j) /\ At(j, "forwarded") /\ ~At(j, "idle") /\ UNCHANGED <<rows, resources>>
        /\ sub'[j].guessed = sub[j].guessed /\ sub'[j].told = sub[j].told
        /\ sub'[j].service = sub[j].service /\ (mishaps' = mishaps \/ Mishap)
    BY <1>3, Resolves DEF SameRouting, At
  <2>2. PICK b \in {bytes, 0} : \E o \in ensureDistributedInputDataSize(sub[j].env, b) :
          sub'[j].env = o.env /\ sub'[j].pc = IF o.ok THEN "sized" ELSE "refused"
    BY <1>3, Resolves
  <2>3. PICK o \in ensureDistributedInputDataSize(sub[j].env, b) :
          sub'[j].env = o.env /\ sub'[j].pc = IF o.ok THEN "sized" ELSE "refused"
    BY <2>2
  <2>4. b \in Int  BY SubmissionAssumption DEF TypeOK, SubmissionAssumption
  <2>5. IsEnv(sub'[j].env)  BY <2>1, <2>3, <2>4, SubType, LookupIsEnv
  <2>6. sub'[j].pc \in Pc  BY <2>3 DEF Pc
  <2> QED  BY <1>1, <2>1, <2>5, <2>6, SubType
<1>4. CASE Navigate(j)
  <2>1. /\ Others(j) /\ At(j, "inserted") /\ ~At(j, "idle") /\ UNCHANGED <<rows, resources, mishaps>>
        /\ sub'[j].guessed = sub[j].guessed /\ sub'[j].told = sub[j].told
        /\ sub'[j].env = sub[j].env /\ sub'[j].service \in EvaluateJobComplexity(Actual(j))
        /\ sub'[j].pc \in Pc
    BY <1>4, Navigates DEF SameRouting, At, Pc
  <2>2. sub'[j].service \in Services  BY <2>1, RoutesAreServices
  <2> QED  BY <1>1, <2>1, <2>2, SubType
<1> QED  BY <1>2, <1>3, <1>4

LEMMA RowTypes ==
  /\ NewRow \in Row
  /\ \A r \in Row : [r EXCEPT !.status = "FAILED"] \in Row
BY DEF NewRow, Row

LEMMA NameOf ==
  ASSUME IInv, NEW j \in Jobs, ~At(j, "idle")
  PROVE  Plan(j).job = generateProviderJobID(request[j].name, short[j]) /\ Plan(j).job \in JobNames
<1>1. Plan(j).job = generateProviderJobID(request[j].name, short[j])  BY DEF Plan, buildJobConfig
<1> QED  BY <1>1, IsThere DEF JobNames

LEMMA TypeRows ==
  ASSUME IInv, LeadInv, TypeOK, NEW j \in Jobs, Insert(j) \/ FailJob(j) \/ SetPath(j)
  PROVE  TypeOK'
<1>1. ~At(j, "idle") /\ Fixed /\ UNCHANGED resources /\ (mishaps' = mishaps \/ Mishap)
  BY DEF Insert, FailJob, SetPath, At, NoMishap
<1>2. PICK pc \in Pc : Goto(j, pc)  BY DEF Insert, FailJob, SetPath, Pc
<1>3. Others(j) /\ IsSub(sub'[j])  BY <1>1, <1>2, TypeMoves
<1>4. DOMAIN rows' \subseteq Jobs /\ \A k \in DOMAIN rows' : rows'[k] \in Row
  <2>1. CASE UNCHANGED rows  BY <2>1 DEF TypeOK
  <2>2. CASE InsertRow(j)  BY <2>2, RowTypes DEF TypeOK, InsertRow
  <2>3. CASE rows' = [rows EXCEPT ![j].status = "FAILED"]
    <3> DEFINE r == [rows[j] EXCEPT !.status = "FAILED"]
    <3>1. rows' = [rows EXCEPT ![j] = r]  BY <2>3
    <3>2. j \in DOMAIN rows => r \in Row  BY RowTypes DEF TypeOK
    <3> HIDE DEF r
    <3> QED  BY <3>1, <3>2 DEF TypeOK
  <2>4. ASSUME At(j, "setpath"), NEW status \in InitialStatus(j), rows' = [rows EXCEPT ![j] =
               [status |-> status, path |-> Plan(j).job,
                tier |-> serviceTierFromPlan(sub[j].service), assigned |-> sub[j].service]]
        PROVE  DOMAIN rows' \subseteq Jobs /\ \A k \in DOMAIN rows' : rows'[k] \in Row
    <3>1. status \in {"PENDING", "SCHEDULED", "RUNNING", "FAILED"}  BY <2>4 DEF InitialStatus
    <3>2. Plan(j).job \in JobNames /\ sub[j].service \in Services  BY <1>1, NameOf, SubType
    <3>3. serviceTierFromPlan(sub[j].service) \in {"SIMPLE", "COMPLEX"}  BY DEF serviceTierFromPlan
    <3> DEFINE job == Plan(j).job
               tier == serviceTierFromPlan(sub[j].service)
               r == [status |-> status, path |-> job, tier |-> tier, assigned |-> sub[j].service]
    <3> HIDE DEF job, tier
    <3>4. r \in Row  BY <3>1, <3>2, <3>3 DEF Row, job, tier
    <3>5. rows' = [rows EXCEPT ![j] = r]  BY <2>4 DEF job, tier
    <3> HIDE DEF r
    <3> QED  BY <3>4, <3>5 DEF TypeOK
  <2> QED  BY <2>1, <2>2, <2>3, <2>4 DEF Insert, FailJob, SetPath
<1> QED  BY <1>1, <1>3, <1>4, TypeStep DEF TypeOK

LEMMA PlanTypes ==
  ASSUME IInv, TypeOK, NEW j \in Jobs, ~At(j, "idle")
  PROVE  /\ Plan(j).job \in JobNames /\ IsEnv(Plan(j).env) /\ Plan(j).resources \in Resources
         /\ Plan(j).group.count \in Nat \ {0} /\ Plan(j).group.parallelism \in Nat
<1>1. DOMAIN request[j] = {"image", "name", "disk", "machine", "profile", "override", "env"}
      /\ request[j].override \in Resources
  BY IsThere DEF IsRequest
<1>2. Actual(j).env = sub[j].env /\ Actual(j).override = request[j].override
  BY <1>1 DEF Actual
<1>3. Plan(j).group = TaskGroup(sub[j].env) /\ Plan(j).env = sub[j].env
      /\ Plan(j).resources = ResolveResources(Actual(j))
  BY <1>2 DEF Plan, buildJobConfig, Actual
<1>4. IsEnv(sub[j].env)  BY SubType
<1>5. ResolveResources(Actual(j)) \in Resources  BY <1>1, <1>2, Resolved
<1>6. TaskGroup(sub[j].env).count \in Nat \ {0} /\ TaskGroup(sub[j].env).parallelism \in Nat
  BY <1>4, GroupsCount
<1> QED  BY <1>3, <1>4, <1>5, <1>6, NameOf

LEMMA Limits ==
  ASSUME NEW r \in Resources
  PROVE  /\ [r EXCEPT !.duration = PositiveOrUnset(@)] \in Resources
         /\ [f \in DOMAIN Max |-> PositiveOrUnset(r[f])] \in Resources
<1>1. \A n \in Int : PositiveOrUnset(n) \in Nat  BY DEF PositiveOrUnset
<1>2. [r EXCEPT !.duration = PositiveOrUnset(@)] \in Resources  BY <1>1 DEF Resources
<1> DEFINE F == [f \in DOMAIN Max |-> PositiveOrUnset(r[f])]
<1>3. \A f \in DOMAIN Max : r[f] \in Int  BY DEF Max, Resources
<1>4. DOMAIN F = DOMAIN Max /\ F = [f \in DOMAIN Max |-> F[f]]
      /\ \A f \in DOMAIN Max : F[f] \in Int
  BY <1>1, <1>3
<1> HIDE DEF F
<1>5. F \in Resources  BY <1>4, ResourceFunction
<1> QED  BY <1>2, <1>5 DEF F

LEMMA ResourceTypes ==
  ASSUME IInv, TypeOK, NEW j \in Jobs, At(j, "create")
  PROVE  IsResource(BatchJob(j)) /\ IsResource(CloudRunJob(j))
<1> DEFINE job == Plan(j).job
           env == Plan(j).env
           limits == Plan(j).resources
           count == Plan(j).group.count
           parallelism == Plan(j).group.parallelism
<1>1. /\ job \in JobNames /\ IsEnv(env) /\ limits \in Resources
      /\ count \in Nat /\ parallelism \in Nat
  BY PlanTypes DEF At
<1>2. PositiveOrUnset(count) \in Nat /\ PositiveOrUnset(parallelism) \in Nat
      /\ (IF count > 0 THEN count ELSE 1) \in Nat
  BY <1>1 DEF PositiveOrUnset
<1>3. IsResource(BatchJob(j))
  <2> DEFINE x == BatchJob(j)
  <2>1. /\ x.kind = "gcp" /\ x.id = job /\ x.owner = j /\ x.started = TRUE
        /\ x.count = IF count > 0 THEN count ELSE 1
        /\ x.parallelism = PositiveOrUnset(parallelism) /\ x.env = env
        /\ x.limits = [limits EXCEPT !.duration = PositiveOrUnset(@)]
    BY DEF BatchJob
  <2> HIDE DEF x, job, env, limits, count, parallelism
  <2>2. x.limits \in Resources  BY <1>1, <2>1, Limits
  <2>3. x.count \in Nat /\ x.parallelism \in Nat  BY <1>2, <2>1
  <2>4. x.id \in JobNames /\ IsEnv(x.env)  BY <1>1, <2>1
  <2>5. IsResource(x)  BY <2>1, <2>2, <2>3, <2>4 DEF IsResource
  <2> QED  BY <2>5 DEF x
<1>4. IsResource(CloudRunJob(j))
  <2> DEFINE x == CloudRunJob(j)
  <2>1. /\ x.kind = "gcp-cloudrun" /\ x.id = job /\ x.owner = j /\ x.started = FALSE
        /\ x.count = PositiveOrUnset(count)
        /\ x.parallelism = PositiveOrUnset(parallelism) /\ x.env = env
        /\ x.limits = [f \in DOMAIN Max |-> PositiveOrUnset(limits[f])]
    BY DEF CloudRunJob
  <2> HIDE DEF x, job, env, limits, count, parallelism
  <2>2. x.limits \in Resources  BY <1>1, <2>1, Limits
  <2>3. x.count \in Nat /\ x.parallelism \in Nat  BY <1>2, <2>1
  <2>4. x.id \in JobNames /\ IsEnv(x.env)  BY <1>1, <2>1
  <2>5. IsResource(x)  BY <2>1, <2>2, <2>3, <2>4 DEF IsResource
  <2> QED  BY <2>5 DEF x
<1> QED  BY <1>3, <1>4

LEMMA TypeLate ==
  ASSUME IInv, TypeOK, NEW j \in Jobs,
         \/ RunJob(j)
         \/ Create(j, BatchJob(j), "setpath") \/ Create(j, CloudRunJob(j), "run")
  PROVE  TypeOK'
<1>1. ~At(j, "idle") /\ Fixed /\ UNCHANGED rows /\ (mishaps' = mishaps \/ Mishap)
  BY DEF RunJob, Create, At, NoMishap
<1>2. PICK pc \in Pc : Goto(j, pc)  BY DEF RunJob, Create, Pc
<1>3. Others(j) /\ IsSub(sub'[j])  BY <1>1, <1>2, TypeMoves
<1>4. \A x \in resources' : IsResource(x)
  <2>1. CASE UNCHANGED resources  BY <2>1 DEF TypeOK
  <2>2. ASSUME At(j, "create"), NEW x \in {BatchJob(j), CloudRunJob(j)},
               resources' = resources \cup {x}
        PROVE  \A y \in resources' : IsResource(y)
    BY <2>2, ResourceTypes DEF TypeOK
  <2>3. CASE At(j, "run") /\ RunCreated(j)
    <3>1. PICK y \in resources, z \in resources' :
            /\ resources' = (resources \ {y}) \cup {z}
            /\ \A f \in ResourceFields \ {"started"} : z[f] = y[f]
            /\ z.started
      BY <2>3, Marks
    <3>2. /\ z.kind = y.kind /\ z.id = y.id /\ z.owner = y.owner /\ z.count = y.count
          /\ z.parallelism = y.parallelism /\ z.env = y.env /\ z.limits = y.limits
      BY <3>1 DEF ResourceFields
    <3>3. IsResource(y)  BY DEF TypeOK
    <3>4. IsResource(z)  BY <3>1, <3>2, <3>3 DEF IsResource
    <3> QED  BY <3>1, <3>4 DEF TypeOK
  <2> QED  BY <2>1, <2>2, <2>3 DEF RunJob, Create
<1> QED  BY <1>1, <1>3, <1>4, TypeStep DEF TypeOK

LEMMA TypeServes == ASSUME TypeOK, runServe PROVE TypeOK'
<1>1. UNCHANGED <<environ, short, request, bytes, sub, rows, resources>>  BY DEF runServe
<1>2. mishaps' = mishaps \/ Mishap  BY DEF runServe, NoMishap
<1>3. mishaps' \in 0..MaxMishaps
  BY <1>2, SubmissionAssumption DEF TypeOK, Mishap, SubmissionAssumption
<1>4. /\ DOMAIN worker' = {"pc", "providers"} /\ worker'.pc \in {"down", "serving", "failed"}
      /\ DOMAIN worker'.providers \subseteq Services
  <2>1. ASSUME NEW run \in BOOLEAN, worker' = [pc |-> "serving", providers |-> New(Config, run)]
        PROVE  /\ DOMAIN worker' = {"pc", "providers"} /\ worker'.pc = "serving"
               /\ DOMAIN worker'.providers \subseteq Services
    BY <2>1 DEF New, Services
  <2>2. CASE worker' = [worker EXCEPT !.pc = "failed"]
    <3>1. DOMAIN worker = {"pc", "providers"} /\ DOMAIN worker.providers \subseteq Services
      BY DEF TypeOK
    <3>2. DOMAIN worker' = {"pc", "providers"} /\ worker'.pc = "failed"
          /\ worker'.providers = worker.providers
      BY <2>2, <3>1
    <3> QED  BY <3>1, <3>2
  <2> QED  BY <2>1, <2>2 DEF runServe
<1>5. Row' = Row /\ JobNames' = JobNames  BY <1>1 DEF Row, JobNames
<1>6. \A x \in resources' : IsResource(x)'  BY <1>1, <1>5 DEF TypeOK, IsResource
<1> QED  BY <1>1, <1>3, <1>4, <1>5, <1>6 DEF TypeOK, IsSub

LEMMA TypeNext == IInv /\ LeadInv /\ TypeOK /\ [Next]_vars => TypeOK'
<1> SUFFICES ASSUME IInv, LeadInv, TypeOK, [Next]_vars PROVE TypeOK'  OBVIOUS
<1>1. CASE UNCHANGED vars
  <2>1. UNCHANGED <<environ, worker, short, request, bytes, sub, rows, resources, mishaps>>
    BY <1>1 DEF vars
  <2>2. Row' = Row /\ JobNames' = JobNames  BY <2>1 DEF Row, JobNames
  <2>3. \A x \in resources' : IsResource(x)'  BY <2>1, <2>2 DEF TypeOK, IsResource
  <2> QED  BY <2>1, <2>2, <2>3 DEF TypeOK, IsSub
<1> QED  BY <1>1, TypeServes, TypeEarly, TypeRows, TypeLate DEF Next

\* Type correctness, whatever is submitted and whatever the worker is started with; among
\* other things a row's path is empty or a name that generateProviderJobID (handlers.go) gave.
THEOREM TypeCorrect == Spec => []TypeOK
<1>1. Init => TypeOK
  <2> SUFFICES ASSUME Init PROVE TypeOK  OBVIOUS
  <2>1. /\ DOMAIN rows = {} /\ resources = {} /\ mishaps = 0
        /\ DOMAIN sub = Jobs /\ \A j \in Jobs : sub[j] = [pc |-> "idle"]
        /\ worker = [pc |-> "down", providers |-> [s \in {} |-> Blank]]
    BY DEF Init
  <2>2. environ \in Environs /\ short \in ShortIDs /\ bytes \in Sizes /\ request \in Workloads
    BY DEF Init
  <2>3. mishaps \in 0..MaxMishaps /\ DOMAIN request \subseteq Jobs
    BY <2>1, <2>2, SubmissionAssumption DEF SubmissionAssumption
  <2> QED  BY <2>1, <2>2, <2>3 DEF TypeOK, IsSub
<1>2. IInv /\ LeadInv /\ TypeOK /\ [Next]_vars => TypeOK'  BY TypeNext
<1> QED  BY <1>1, <1>2, Invariants, PTL DEF Spec

----------------------------------------------------------------------------
\* Why a worker does not come up and a submission fails.
CannotCome(e) ==
  \/ e.BATCH_PROVIDER \notin {Absent, "gcp", "gcp-cloudrun"}
  \/ e.BATCH_PROJECT_ID = Absent \/ e.BATCH_REGION = Absent
  \/ e.DB_PROVIDER \notin {Absent, "spanner"} \/ ~e.DB_NAMES

LEMMA RequiredSuffices ==
  ASSUME NEW e, ~CannotCome(e)
  PROVE  /\ Validate(LoadFromEnv(e)) /\ DatabaseOpens(LoadFromEnv(e)) /\ BatchOpens(LoadFromEnv(e))
<1> DEFINE c == LoadFromEnv(e)
<1>1. /\ c.provider = getEnvOrDefault(e.BATCH_PROVIDER, "gcp") /\ c.project = e.BATCH_PROJECT_ID
      /\ c.region = e.BATCH_REGION /\ c.run.project = CloudRunProject(e)
      /\ c.run.region = getEnvOrDefault(e.CLOUD_RUN_REGION, e.BATCH_REGION)
      /\ c.pubsub.project = getEnvOrDefault(e.PUBSUB_PROJECT_ID, e.BATCH_PROJECT_ID)
      /\ c.database.provider = getEnvOrDefault(e.DB_PROVIDER, "spanner")
      /\ c.database.names = e.DB_NAMES
  BY DEF LoadFromEnv
<1> HIDE DEF c
<1>2. c.provider \in {"gcp", "gcp-cloudrun"} /\ c.project # Absent /\ c.region # Absent
  BY <1>1 DEF CannotCome, getEnvOrDefault
<1>3. c.run.project # Absent /\ c.run.region # Absent /\ c.pubsub.project # Absent
  BY <1>1 DEF CannotCome, getEnvOrDefault, CloudRunProject
<1>4. c.database.provider = "spanner" /\ c.database.names
  BY <1>1 DEF CannotCome, getEnvOrDefault
<1>5. ValidBatch(c) /\ ValidDatabase(c.database)  BY <1>2, <1>4 DEF ValidBatch, ValidDatabase
<1>6. Validate(c) /\ DatabaseOpens(c)  BY <1>3, <1>4, <1>5 DEF Validate, DatabaseOpens
<1>7. BatchOpens(c)  BY <1>2 DEF BatchOpens, NewProvider
<1> QED  BY <1>6, <1>7 DEF c

LEMMA RunOpensIfValid ==
  ASSUME NEW c, Validate(c), c.run.enabled
  PROVE  RunOpens(c)
BY DEF Validate, RunOpens, NewProvider

\* The providers that a worker has.
LEMMA ProvidersOf ==
  ASSUME NEW c, NEW run \in BOOLEAN
  PROVE  /\ DOMAIN New(c, run) = {"CLOUD_BATCH"} \cup (IF run THEN {"CLOUD_RUN_JOB"} ELSE {})
         /\ New(c, run)["CLOUD_BATCH"] = c.provider
         /\ run => New(c, run)["CLOUD_RUN_JOB"] = "gcp-cloudrun"
BY DEF New

NameFor(j) == generateProviderJobID(request[j].name, short[j])

Cause(j) ==
  \/ request[j].disk \in 1..9
  \/ sub[j].service = "CLOUD_RUN_JOB" /\ environ.CLOUD_RUN_ENABLED # "true"
  \/ \E k \in Jobs \ {j} : sub[k].pc # "idle" /\ NameFor(k) = NameFor(j)

\* What a worker that has come up, or not, tells of its environment.
Ready ==
  /\ mishaps = 0 /\ worker.pc = "failed" => CannotCome(environ)
  /\ worker.pc = "serving" =>
       \E run \in BOOLEAN : /\ worker.providers = New(Config, run)
                            /\ mishaps = 0 => (run <=> environ.CLOUD_RUN_ENABLED = "true")

Serving ==
  \A j \in Jobs :
    /\ sub[j].pc \in {"sized", "inserted", "create"} => worker.pc = "serving"
    /\ At(j, "create") => sub[j].service \in DOMAIN worker.providers

Named == \A x \in resources : x.id = NameFor(x.owner)

WithoutJob(j) == \A x \in resources : x.owner # j

CauseInv ==
  /\ Ready /\ Serving /\ Named
  /\ mishaps = 0 => \A j \in Jobs : sub[j].pc \in {"fail", "failed"} => WithoutJob(j) /\ Cause(j)

\* A step keeps the invariant if it does for its own job.
LEMMA CauseStep ==
  ASSUME CauseInv, mishaps \in Nat, NEW j \in Jobs, Others(j), mishaps' = mishaps \/ Mishap,
         sub'[j].pc # "idle",
         sub'[j].pc \in {"sized", "inserted", "create"} => worker.pc = "serving",
         sub'[j].pc = "create" => sub'[j].service \in DOMAIN worker.providers,
         \A x \in resources' : \/ \E y \in resources : x.owner = y.owner /\ x.id = y.id
                               \/ x.owner = j /\ x.id = NameFor(j),
         mishaps' = 0 /\ sub'[j].pc \in {"fail", "failed"} => WithoutJob(j)' /\ Cause(j)'
  PROVE  CauseInv'
<1>1. UNCHANGED <<environ, worker, short, request, bytes>> /\ \A k \in Jobs \ {j} : sub'[k] = sub[k]
  BY DEF Others, Fixed
<1>2. mishaps' = 0 => mishaps = 0  BY DEF Mishap
<1>3. Ready'
  <2>1. Config' = Config  BY <1>1 DEF Config
  <2> QED  BY <1>1, <1>2, <2>1 DEF CauseInv, Ready
<1>4. Serving'
  <2> SUFFICES ASSUME NEW k \in Jobs
               PROVE  /\ sub'[k].pc \in {"sized", "inserted", "create"} => worker.pc = "serving"
                      /\ sub'[k].pc = "create" => sub'[k].service \in DOMAIN worker.providers
    BY <1>1 DEF Serving, At
  <2>1. CASE k = j  BY <2>1
  <2>2. CASE k # j  BY <1>1, <2>2 DEF CauseInv, Serving, At
  <2> QED  BY <2>1, <2>2
<1>5. \A k : NameFor(k)' = NameFor(k)  BY <1>1 DEF NameFor
<1>6. Named'
  <2> SUFFICES ASSUME NEW x \in resources' PROVE x.id = NameFor(x.owner)  BY <1>5 DEF Named
  <2> QED  BY DEF CauseInv, Named
<1>7. ASSUME mishaps' = 0, NEW k \in Jobs, sub'[k].pc \in {"fail", "failed"}
      PROVE  WithoutJob(k)' /\ Cause(k)'
  <2>1. CASE k = j  BY <1>7, <2>1
  <2>2. CASE k # j
    <3>1. sub'[k] = sub[k]  BY <1>1, <2>2
    <3>2. WithoutJob(k) /\ Cause(k)  BY <1>2, <1>7, <3>1 DEF CauseInv
    <3>3. WithoutJob(k)'  BY <2>2, <3>2 DEF WithoutJob
    <3>4. \A i \in Jobs : sub[i].pc # "idle" => sub'[i].pc # "idle"  BY <1>1
    <3>5. Cause(k)'  BY <1>1, <1>5, <3>1, <3>2, <3>4 DEF Cause
    <3> QED  BY <3>3, <3>5
  <2> QED  BY <2>1, <2>2
<1> QED  BY <1>3, <1>4, <1>6, <1>7 DEF CauseInv

LEMMA MishapsCount == ASSUME TypeOK PROVE mishaps \in Nat
BY SubmissionAssumption DEF TypeOK, SubmissionAssumption

\* Before Create a job has no resource.
LEMMA NoneYet ==
  ASSUME IInv, NEW j \in Jobs, sub[j].pc \in {"idle", "forwarded", "sized", "inserted", "create"}
  PROVE  WithoutJob(j)
BY DEF IInv, Fits, WithoutJob

LEMMA CauseEarly ==
  ASSUME IInv, TypeOK, CauseInv, NEW j \in Jobs,
         (\E a \in GeminiAnswer : Forward(j, a)) \/ ResolveSize(j) \/ Insert(j) \/ Navigate(j)
  PROVE  CauseInv'
<1> USE MishapsCount
<1>1. ASSUME NEW a \in GeminiAnswer, Forward(j, a) PROVE CauseInv'
  <2>1. Others(j) /\ UNCHANGED <<rows, resources, mishaps>> /\ sub'[j].pc \in {"forwarded", "refused"}
    BY <1>1, Forwards
  <2> QED  BY <2>1, CauseStep
<1>2. CASE ResolveSize(j)
  <2>1. /\ Others(j) /\ worker.pc = "serving" /\ UNCHANGED <<rows, resources>>
        /\ (mishaps' = mishaps \/ Mishap) /\ sub'[j].pc \in {"sized", "refused"}
    BY <1>2, Resolves
  <2> QED  BY <2>1, CauseStep
<1>3. CASE Insert(j)
  <2>1. At(j, "sized") /\ ~At(j, "idle") /\ Fixed /\ UNCHANGED resources
    BY <1>3 DEF Insert, At
  <2>2. PICK pc \in {"inserted", "failed"} : /\ Goto(j, pc)
                                             /\ \/ Mishap
                                                \/ pc = "inserted" /\ mishaps' = mishaps
    BY <1>3 DEF Insert, NoMishap
  <2>3. Others(j) /\ sub'[j].pc = pc  BY <2>1, <2>2, MovesOn
  <2>4. worker.pc = "serving"  BY <2>1 DEF CauseInv, Serving, At
  <2>5. mishaps' = 0 => pc = "inserted"  BY <2>2 DEF Mishap
  <2> QED  BY <2>1, <2>2, <2>3, <2>4, <2>5, CauseStep
<1>4. CASE Navigate(j)
  <2>1. /\ Others(j) /\ At(j, "inserted") /\ UNCHANGED <<rows, resources, mishaps>>
        /\ sub'[j].service \in EvaluateJobComplexity(Actual(j))
        /\ sub'[j].pc = IF Buildable(request[j]) /\ sub'[j].service \in DOMAIN worker.providers
                        THEN "create" ELSE "fail"
    BY <1>4, Navigates
  <2>2. worker.pc = "serving" /\ sub'[j].service \in Services /\ ~At(j, "idle")
    BY <2>1, RoutesAreServices DEF CauseInv, Serving, At
  <2>3. UNCHANGED <<environ, request>>  BY <2>1 DEF Others, Fixed
  <2>4. ASSUME mishaps' = 0, sub'[j].pc = "fail" PROVE WithoutJob(j)' /\ Cause(j)'
    <3>1. WithoutJob(j)'  BY <2>1, NoneYet DEF WithoutJob, At
    <3>2. CASE ~Buildable(request[j])
      <4>1. request[j].disk \in Int  BY <2>2, IsThere DEF IsRequest
      <4>2. request[j].disk \in 1..9  BY <3>2, <4>1 DEF Buildable
      <4> QED  BY <2>3, <3>1, <4>2 DEF Cause
    <3>3. CASE sub'[j].service \notin DOMAIN worker.providers
      <4>1. PICK run \in BOOLEAN :
              /\ worker.providers = New(Config, run)
              /\ mishaps = 0 => (run <=> environ.CLOUD_RUN_ENABLED = "true")
        BY <2>2 DEF CauseInv, Ready
      <4>2. ~run /\ sub'[j].service = "CLOUD_RUN_JOB"
        BY <2>2, <3>3, <4>1, ProvidersOf DEF Services
      <4>3. environ.CLOUD_RUN_ENABLED # "true"  BY <2>1, <2>4, <4>1, <4>2
      <4> QED  BY <2>3, <3>1, <4>2, <4>3 DEF Cause
    <3> QED  BY <2>1, <2>4, <3>2, <3>3
  <2> QED  BY <2>1, <2>2, <2>4, CauseStep
<1> QED  BY <1>1, <1>2, <1>3, <1>4

LEMMA CauseCreate ==
  ASSUME IInv, LeadInv, TypeOK, CauseInv, NEW j \in Jobs, NEW x, NEW next \in {"setpath", "run"},
         Create(j, x, next), x.owner = j, x.id = Plan(j).job
  PROVE  CauseInv'
<1>1. /\ At(j, "create") /\ ~At(j, "idle") /\ Fixed /\ resources' \in {resources, resources \cup {x}}
  BY DEF Create, At
<1>2. PICK pc \in {"setpath", "run", "fail"} :
        /\ Goto(j, pc)
        /\ \/ InUse(j) /\ mishaps' = mishaps /\ UNCHANGED resources
           \/ pc # "fail" /\ mishaps' = mishaps
           \/ Mishap
  BY DEF Create, NoMishap
<1>3. Others(j) /\ Keeps(j) /\ sub'[j].pc = pc  BY <1>1, <1>2, MovesOn
<1>4. mishaps \in Nat  BY MishapsCount
<1>5. x.id = NameFor(j)  BY <1>1, NameOf DEF NameFor
<1>6. ASSUME mishaps' = 0, pc = "fail" PROVE WithoutJob(j)' /\ Cause(j)'
  <2>1. InUse(j) /\ UNCHANGED resources  BY <1>2, <1>4, <1>6 DEF Mishap
  <2>2. WithoutJob(j)  BY <1>1, NoneYet DEF At
  <2>3. PICK y \in resources : y.id = Plan(j).job  BY <2>1 DEF InUse
  <2>4. y.owner \in Jobs \ {j} /\ sub[y.owner].pc # "idle"
    BY <2>2, <2>3 DEF WithoutJob, IInv, Fits
  <2>5. NameFor(y.owner) = NameFor(j)
    BY <1>1, <2>3, NameOf DEF CauseInv, Named, NameFor
  <2>6. \A k : NameFor(k)' = NameFor(k)  BY <1>3 DEF Others, Fixed, NameFor
  <2>7. sub'[y.owner].pc # "idle"  BY <1>3, <2>4 DEF Others
  <2>8. Cause(j)'  BY <2>4, <2>5, <2>6, <2>7 DEF Cause
  <2> QED  BY <2>1, <2>2, <2>8 DEF WithoutJob
<1>7. mishaps' = mishaps \/ Mishap  BY <1>2
<1> QED  BY <1>1, <1>3, <1>4, <1>5, <1>6, <1>7, CauseStep

LEMMA CauseLate ==
  ASSUME IInv, LeadInv, TypeOK, CauseInv, NEW j \in Jobs,
         RunJob(j) \/ FailJob(j) \/ SetPath(j)
  PROVE  CauseInv'
<1> USE MishapsCount
<1>1. ASSUME UNCHANGED resources, ~At(j, "idle"), Fixed, mishaps' = mishaps \/ Mishap,
             NEW pc \in {"setpath", "fail", "answered", "failed"}, Goto(j, pc),
             mishaps' = 0 /\ pc \in {"fail", "failed"} => WithoutJob(j) /\ Cause(j)
      PROVE  CauseInv'
  <2>1. Others(j) /\ Keeps(j) /\ sub'[j].pc = pc  BY <1>1, MovesOn
  <2>2. \A k : NameFor(k)' = NameFor(k)  BY <1>1 DEF Fixed, NameFor
  <2>3. \A k \in Jobs : sub[k].pc # "idle" => sub'[k].pc # "idle"  BY <1>1, <2>1 DEF Others
  <2>4. Cause(j) => Cause(j)'
    <3>1. sub'[j].service = sub[j].service /\ UNCHANGED <<environ, request>>
      BY <1>1, <2>1 DEF Keeps, Fixed
    <3> QED  BY <2>2, <2>3, <3>1 DEF Cause
  <2>5. WithoutJob(j) => WithoutJob(j)'  BY <1>1 DEF WithoutJob
  <2> QED  BY <1>1, <2>1, <2>4, <2>5, CauseStep
<1>3. CASE FailJob(j)
  <2>1. /\ At(j, "fail") /\ ~At(j, "idle") /\ Fixed /\ UNCHANGED resources /\ Goto(j, "failed")
        /\ (mishaps' = mishaps \/ Mishap)
    BY <1>3 DEF FailJob, At, NoMishap
  <2>2. mishaps' = 0 => WithoutJob(j) /\ Cause(j)  BY <2>1 DEF CauseInv, At, Mishap
  <2> QED  BY <1>1, <2>1, <2>2
<1>4. CASE SetPath(j)
  <2>1. ~At(j, "idle") /\ Fixed /\ UNCHANGED resources  BY <1>4 DEF SetPath, At
  <2>2. PICK pc \in {"answered", "failed"} :
          Goto(j, pc) /\ ((pc = "answered" /\ mishaps' = mishaps) \/ Mishap)
    BY <1>4 DEF SetPath, NoMishap
  <2>3. mishaps' = 0 => pc = "answered"  BY <2>2 DEF Mishap
  <2> QED  BY <1>1, <2>1, <2>2, <2>3
<1>5. CASE RunJob(j)
  <2>1. At(j, "run") /\ ~At(j, "idle") /\ Fixed  BY <1>5 DEF RunJob, At
  <2>2. PICK pc \in {"setpath", "fail"} :
          Goto(j, pc) /\ ((pc = "setpath" /\ mishaps' = mishaps) \/ Mishap)
    BY <1>5 DEF RunJob, NoMishap
  <2>3. mishaps' = 0 => pc = "setpath"  BY <2>2 DEF Mishap
  <2>4. CASE UNCHANGED resources  BY <1>1, <2>1, <2>2, <2>3, <2>4
  <2>5. CASE RunCreated(j)
    <3>1. PICK y \in resources, z \in resources' :
            /\ resources' = (resources \ {y}) \cup {z}
            /\ \A f \in ResourceFields \ {"started"} : z[f] = y[f]
      BY <2>1, <2>5, Marks
    <3>2. z.owner = y.owner /\ z.id = y.id  BY <3>1 DEF ResourceFields
    <3>3. Others(j) /\ sub'[j].pc = pc  BY <2>1, <2>2, MovesOn
    <3> QED  BY <2>2, <2>3, <3>1, <3>2, <3>3, CauseStep
  <2> QED  BY <1>5, <2>4, <2>5 DEF RunJob
<1> QED  BY <1>3, <1>4, <1>5

LEMMA CauseServes == ASSUME IInv, TypeOK, CauseInv, runServe PROVE CauseInv'
<1>1. worker.pc = "down" /\ UNCHANGED <<environ, short, request, bytes, sub, rows, resources>>
  BY DEF runServe
<1>2. Config' = Config /\ environ \in Environ /\ mishaps \in Nat
  BY <1>1, MishapsCount, SubmissionAssumption DEF Config, TypeOK, SubmissionAssumption
<1>3. ASSUME NEW run \in BOOLEAN, worker' = [pc |-> "serving", providers |-> New(Config, run)],
             Validate(Config),
             IF run = (Config.run.enabled /\ RunOpens(Config)) THEN NoMishap ELSE Mishap
      PROVE  Ready'
  <2>1. worker'.pc = "serving" /\ worker'.providers = New(Config, run)  BY <1>3
  <2>2. Config.run.enabled <=> environ.CLOUD_RUN_ENABLED = "true"  BY DEF Config, LoadFromEnv
  <2>3. Config.run.enabled => RunOpens(Config)  BY <1>3, RunOpensIfValid
  <2>4. mishaps' = 0 => (run <=> environ.CLOUD_RUN_ENABLED = "true")
    BY <1>2, <1>3, <2>2, <2>3 DEF Mishap
  <2> QED  BY <1>1, <1>2, <2>1, <2>4 DEF Ready
<1>4. ASSUME worker' = [worker EXCEPT !.pc = "failed"],
             IF Validate(Config) /\ DatabaseOpens(Config) /\ BatchOpens(Config) THEN Mishap
             ELSE NoMishap
      PROVE  Ready'
  <2>1. worker'.pc = "failed"  BY <1>4 DEF TypeOK
  <2>2. mishaps' = 0 => CannotCome(environ)
    BY <1>2, <1>4, RequiredSuffices DEF Mishap, Config
  <2> QED  BY <1>1, <2>1, <2>2 DEF Ready, CannotCome
<1>5. Ready'  BY <1>3, <1>4 DEF runServe
<1>6. Serving'  BY <1>1 DEF CauseInv, Serving, At
<1>7. Named' /\ \A k \in Jobs : sub[k].pc \in {"fail", "failed"} /\ mishaps = 0 =>
                  WithoutJob(k)' /\ Cause(k)'
  BY <1>1 DEF CauseInv, Named, NameFor, WithoutJob, Cause
<1>8. mishaps' = 0 => mishaps = 0  BY <1>2 DEF runServe, NoMishap, Mishap
<1> QED  BY <1>1, <1>5, <1>6, <1>7, <1>8 DEF CauseInv

LEMMA CauseNext == IInv /\ LeadInv /\ TypeOK /\ CauseInv /\ [Next]_vars => CauseInv'
<1> SUFFICES ASSUME IInv, LeadInv, TypeOK, CauseInv, [Next]_vars PROVE CauseInv'  OBVIOUS
<1>1. CASE UNCHANGED vars
  <2>1. UNCHANGED <<environ, worker, short, request, sub, resources, mishaps>>  BY <1>1 DEF vars
  <2>2. Config' = Config  BY <2>1 DEF Config
  <2> QED  BY <2>1, <2>2
       DEF CauseInv, Ready, Serving, Named, NameFor, WithoutJob, Cause, CannotCome, At
<1>2. ASSUME NEW j \in Jobs, Create(j, BatchJob(j), "setpath") PROVE CauseInv'
  <2>1. BatchJob(j).owner = j /\ BatchJob(j).id = Plan(j).job  BY DEF BatchJob
  <2> QED  BY <1>2, <2>1, CauseCreate
<1>3. ASSUME NEW j \in Jobs, Create(j, CloudRunJob(j), "run") PROVE CauseInv'
  <2>1. CloudRunJob(j).owner = j /\ CloudRunJob(j).id = Plan(j).job  BY DEF CloudRunJob
  <2> QED  BY <1>3, <2>1, CauseCreate
<1> QED  BY <1>1, <1>2, <1>3, CauseServes, CauseEarly, CauseLate DEF Next

\* If no call fails, a worker with the required variables comes up, and a submission with a
\* row fails only for one of three reasons and leaves nothing in the cloud that runs: what
\* Validate (config.go) lets through every constructor takes, and the dispatcher, the plan
\* and the providers refuse nothing else that the router sends them.
THEOREM FailuresHaveCauses == Spec => []FailureHasACause
<1>1. Init => CauseInv
  <2> SUFFICES ASSUME Init PROVE CauseInv  OBVIOUS
  <2>1. resources = {} /\ worker.pc = "down" /\ \A j \in Jobs : sub[j].pc = "idle"
    BY DEF Init
  <2> QED  BY <2>1 DEF CauseInv, Ready, Serving, Named, At
<1>2. IInv /\ LeadInv /\ TypeOK /\ CauseInv /\ [Next]_vars => CauseInv'  BY CauseNext
<1>3. CauseInv => FailureHasACause
  BY DEF CauseInv, Ready, FailureHasACause, CannotCome, Cause, NameFor, WithoutJob, At
<1>4. Spec => []TypeOK  BY TypeCorrect
<1> QED  BY <1>1, <1>2, <1>3, <1>4, Invariants, PTL DEF Spec
=============================================================================
