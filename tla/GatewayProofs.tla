--------------------------- MODULE GatewayProofs ---------------------------
(***************************************************************************)
(* What holds of Gateway for any number of gateways, identities, requests, *)
(* workers, failures and restarts; and what more holds of one gateway.     *)
(***************************************************************************)
EXTENDS Gateway, TLAPS

(***************************************************************************)
(* The steps of a request                                                  *)
(***************************************************************************)

\* A request that moves keeps its gateway and its user, and the others stay.
LEMMA GotoMoves ==
  ASSUME DirectoryTypeOK, NEW r \in Requests,
         NEW pc \in {"query", "store", "lock", "insert", "resolved", "failed"},
         NEW t \in Requests \cup {NoRequest}, Goto(r, pc, t)
  PROVE  /\ resolving' \in [Requests -> Resolving]
         /\ \A s \in Requests :
              /\ resolving'[s].gateway = resolving[s].gateway
              /\ resolving'[s].user = resolving[s].user
              /\ resolving'[s].pc = IF s = r THEN pc ELSE resolving[s].pc
              /\ resolving'[s].tenant = IF s = r THEN t ELSE resolving[s].tenant
<1>1. resolving[r] \in Resolving /\ resolving \in [Requests -> Resolving]
  BY DEF DirectoryTypeOK
<1>2. resolving' = [resolving EXCEPT ![r] = [resolving[r] EXCEPT !.pc = pc, !.tenant = t]]
  BY <1>1 DEF Goto, Resolving
<1>3. [resolving[r] EXCEPT !.pc = pc, !.tenant = t] \in Resolving
  BY <1>1 DEF Resolving
<1>4. resolving' \in [Requests -> Resolving]
  BY <1>1, <1>2, <1>3
<1>5. ASSUME NEW s \in Requests
      PROVE  /\ resolving'[s].gateway = resolving[s].gateway
             /\ resolving'[s].user = resolving[s].user
             /\ resolving'[s].pc = IF s = r THEN pc ELSE resolving[s].pc
             /\ resolving'[s].tenant = IF s = r THEN t ELSE resolving[s].tenant
  BY <1>1, <1>2 DEF Resolving
<1> QED
  BY <1>4, <1>5

\* A request is at a gateway and of a user.
LEMMA RequestTypes ==
  ASSUME DirectoryTypeOK, NEW r \in Requests
  PROVE  /\ resolving[r] \in Resolving
         /\ At(r) \in Gateways /\ User(r) \in Users /\ User(r).id \in UserIds
         /\ Cached(r) => CachedTenant(r) \in Requests
BY DEF DirectoryTypeOK, Resolving, At, User, Users, Cached, CachedTenant

\* A write of the map adds or replaces one entry of one gateway.
LEMMA CacheWrites ==
  ASSUME DirectoryTypeOK, NEW r \in Requests, NEW t \in Requests, Cache(r, t)
  PROVE  /\ DOMAIN oauthToTenant' = Gateways
         /\ \A g \in Gateways :
              /\ DOMAIN oauthToTenant'[g] =
                   DOMAIN oauthToTenant[g] \cup (IF g = At(r) THEN {User(r).id} ELSE {})
              /\ \A i \in DOMAIN oauthToTenant'[g] :
                   oauthToTenant'[g][i] =
                     IF g = At(r) /\ i = User(r).id THEN t ELSE oauthToTenant[g][i]
<1>1. At(r) \in Gateways
  BY RequestTypes
<1> QED
  BY <1>1 DEF Cache, DirectoryTypeOK

\* So does a write of the table.
LEMMA InsertWrites ==
  ASSUME DirectoryTypeOK, NEW r \in Requests, InsertTenant(r)
  PROVE  /\ DOMAIN tenants' = DOMAIN tenants \cup {r}
         /\ \A t \in DOMAIN tenants' : tenants'[t] = IF t = r THEN User(r) ELSE tenants[t]
BY DEF InsertTenant, DirectoryTypeOK

----------------------------------------------------------------------------
(***************************************************************************)
(* Types                                                                   *)
(***************************************************************************)

\* The parts of the type invariant of the directory that a step may disturb.
MapTyped ==
  /\ DOMAIN oauthToTenant = Gateways
  /\ \A g \in Gateways :
       /\ DOMAIN oauthToTenant[g] \subseteq UserIds
       /\ \A i \in DOMAIN oauthToTenant[g] : oauthToTenant[g][i] \in Requests
TableTyped == DOMAIN tenants \subseteq Requests /\ \A t \in DOMAIN tenants : tenants[t] \in Users
HasTenant == \A r \in Requests :
  resolving[r].pc \in {"store", "resolved"} => resolving[r].tenant \in Requests

\* A failure that is within its bound keeps the counters in theirs.
LEMMA CountersTyped ==
  ASSUME DirectoryTypeOK, Mishap \/ NoMishap
  PROVE  mishaps' \in 0..MaxMishaps /\ restarts' \in 0..MaxRestarts
BY DirectoryAssumption DEF DirectoryTypeOK, Mishap, NoMishap

\* The fast path.
LEMMA LookupTypes ==
  ASSUME DirectoryTypeOK, HasTenant, NEW r \in Requests, Lookup(r)
  PROVE  DirectoryTypeOK' /\ HasTenant'
<1>1. resolving' \in [Requests -> Resolving] /\ HasTenant'
  BY GotoMoves, RequestTypes DEF Lookup, HasTenant
<1> QED
  BY <1>1, CountersTyped DEF Lookup, DirectoryTypeOK

\* The rest of getOrCreateTenant.
LEMMA ResolveTypes ==
  ASSUME DirectoryTypeOK, HasTenant, NEW r \in Requests, getOrCreateTenant(r)
  PROVE  DirectoryTypeOK' /\ HasTenant'
<1>1. CASE Query(r)
  <2>1. resolving' \in [Requests -> Resolving] /\ HasTenant'
    <3>1. TenantsByOAuth(User(r)) \subseteq Requests
      BY DEF TenantsByOAuth, DirectoryTypeOK
    <3> QED
      BY <1>1, <3>1, GotoMoves DEF Query, HasTenant
  <2> QED
    BY <1>1, <2>1, CountersTyped DEF Query, DirectoryTypeOK
<1>2. CASE Store(r)
  <2>1. resolving[r].tenant \in Requests
    BY <1>2 DEF Store, HasTenant
  <2>2. resolving' \in [Requests -> Resolving] /\ HasTenant'
    BY <1>2, <2>1, GotoMoves DEF Store, HasTenant
  <2>3. MapTyped'
    BY <1>2, <2>1, CacheWrites, RequestTypes DEF Store, MapTyped, DirectoryTypeOK
  <2> QED
    BY <1>2, <2>2, <2>3, CountersTyped DEF Store, DirectoryTypeOK, MapTyped
<1>3. CASE Lock(r)
  <2>1. resolving' \in [Requests -> Resolving] /\ HasTenant'
    BY <1>3, GotoMoves, RequestTypes DEF Lock, HasTenant
  <2>2. mu' \in [Gateways -> Requests \cup {NoRequest}]
    BY <1>3, RequestTypes DEF Lock, DirectoryTypeOK
  <2> QED
    BY <1>3, <2>1, <2>2, CountersTyped DEF Lock, DirectoryTypeOK
<1>4. CASE Insert(r)
  <2>1. resolving' \in [Requests -> Resolving] /\ HasTenant'
    BY <1>4, GotoMoves DEF Insert, HasTenant
  <2>2. mu' \in [Gateways -> Requests \cup {NoRequest}]
    BY <1>4, RequestTypes DEF Insert, Unlock, DirectoryTypeOK
  <2>3. MapTyped'
    BY <1>4, CacheWrites, RequestTypes DEF Insert, MapTyped, DirectoryTypeOK
  <2>4. TableTyped'
    BY <1>4, InsertWrites, RequestTypes DEF Insert, TableTyped, DirectoryTypeOK
  <2> QED
    BY <1>4, <2>1, <2>2, <2>3, <2>4, CountersTyped
    DEF Insert, DirectoryTypeOK, MapTyped, TableTyped
<1> QED
  BY <1>1, <1>2, <1>3, <1>4 DEF getOrCreateTenant

\* A restart.
LEMMA RestartTypes ==
  ASSUME DirectoryTypeOK, HasTenant, NEW g \in Gateways, NEW open, Restart(g, open)
  PROVE  DirectoryTypeOK' /\ HasTenant'
<1>1. ASSUME NEW r \in Requests
      PROVE  /\ resolving'[r] \in Resolving
             /\ resolving'[r].pc \in {"store", "resolved"} => resolving'[r].tenant \in Requests
  <2>1. resolving[r] \in Resolving
    BY DEF DirectoryTypeOK
  <2>2. [resolving[r] EXCEPT !.pc = "failed"] \in Resolving
    BY <2>1 DEF Resolving
  <2>3. resolving'[r] = resolving[r] \/ resolving'[r] = [resolving[r] EXCEPT !.pc = "failed"]
    BY DEF Restart
  <2> QED
    BY <2>1, <2>2, <2>3 DEF HasTenant, Resolving
<1>2. resolving' \in [Requests -> Resolving] /\ HasTenant'
  BY <1>1 DEF Restart, HasTenant
<1>3. mu' \in [Gateways -> Requests \cup {NoRequest}]
  BY DEF Restart, DirectoryTypeOK
<1>4. MapTyped'
  BY DEF Restart, DirectoryTypeOK, MapTyped
<1>5. restarts' \in 0..MaxRestarts
  BY DirectoryAssumption DEF Restart, DirectoryTypeOK
<1> QED
  BY <1>2, <1>3, <1>4, <1>5 DEF Restart, DirectoryTypeOK, MapTyped

\* The forwarded calls leave the directory alone, except for the counters.
LEMMA CallTypes ==
  ASSUME DirectoryTypeOK, HasTenant, UNCHANGED <<tenants, oauthToTenant, mu, resolving>>,
         Mishap \/ NoMishap
  PROVE  DirectoryTypeOK' /\ HasTenant'
BY CountersTyped DEF DirectoryTypeOK, HasTenant

\* The parts of the type invariant that belong to the forwarded calls.
CallsTyped ==
  /\ ring \in [Requests -> Workers]
  /\ order \in [Requests -> Order]
  /\ call \in [Requests -> [outcome : Outcome, worker : Workers]]
  /\ DOMAIN jobs \subseteq Requests
  /\ \A j \in DOMAIN jobs :
       jobs[j] \in [tenant : Requests, job_id : Submissions, worker : Workers]

TypeInv == DirectoryTypeOK /\ HasTenant /\ CallsTyped

\* An answer of the worker of some job ID.
LEMMA AnswerTypes ==
  ASSUME CallsTyped, NEW r \in Requests, NEW id \in Requests, NEW outcome \in Outcome,
         Answer(r, outcome, id)
  PROVE  call' \in [Requests -> [outcome : Outcome, worker : Workers]]
BY DEF CallsTyped, Answer, getWorkerClient

\* A request is made.
LEMMA OrderTypes ==
  ASSUME CallsTyped, NEW r \in Requests, NEW o \in Order,
         order' = [order EXCEPT ![r] = o], UNCHANGED <<ring, call, jobs>>
  PROVE  CallsTyped'
BY DEF CallsTyped

\* A submission that is forwarded.
LEMMA SubmitTypes ==
  ASSUME TypeInv, NEW r \in Requests, SubmitJob(r)
  PROVE  CallsTyped'
<1>1. order[r].job_id \in Submissions
  BY DEF TypeInv, CallsTyped, Order, SubmitJob
<1>2. resolving[r].tenant \in Requests /\ ring[r] \in Workers
  BY DEF TypeInv, HasTenant, SubmitJob, Resolved, CallsTyped
<1>3. ASSUME InsertJob(r)
      PROVE  /\ DOMAIN jobs' \subseteq Requests
             /\ \A j \in DOMAIN jobs' :
                  jobs'[j] \in [tenant : Requests, job_id : Submissions, worker : Workers]
  BY <1>1, <1>2, <1>3 DEF InsertJob, TypeInv, CallsTyped, getWorkerClient
<1>4. call' \in [Requests -> [outcome : Outcome, worker : Workers]]
  BY AnswerTypes DEF SubmitJob, Outcome, TypeInv
<1> QED
  BY <1>3, <1>4 DEF SubmitJob, TypeInv, CallsTyped

\* A request about a job that is forwarded.
LEMMA FollowUpTypes ==
  ASSUME TypeInv, NEW r \in Requests, GetJob(r) \/ CancelJob(r) \/ DeleteJob(r)
  PROVE  CallsTyped'
<1>1. order[r].job \in Requests
  BY DEF TypeInv, CallsTyped, Order, GetJob, CancelJob, Ask, DeleteJob
<1>2. call' \in [Requests -> [outcome : Outcome, worker : Workers]]
  <2>1. CASE GetJob(r) \/ CancelJob(r)
    <3>1. PICK outcome \in Outcome : Answer(r, outcome, order[r].job)
      BY <2>1 DEF GetJob, CancelJob, Ask, Outcome
    <3> QED
      BY <1>1, <3>1, AnswerTypes DEF TypeInv
  <2>2. CASE DeleteJob(r)
    <3>1. PICK outcome \in Outcome : Answer(r, outcome, order[r].job)
      BY <2>2 DEF DeleteJob, Outcome
    <3> QED
      BY <1>1, <3>1, AnswerTypes DEF TypeInv
  <2> QED
    BY <2>1, <2>2
<1>3. RemoveJob(r) => /\ DOMAIN jobs' \subseteq DOMAIN jobs
                      /\ \A j \in DOMAIN jobs' : jobs'[j] = jobs[j]
  BY DEF RemoveJob, Restrict
<1>4. /\ DOMAIN jobs' \subseteq DOMAIN jobs
      /\ \A j \in DOMAIN jobs' : jobs'[j] = jobs[j]
  BY <1>3 DEF GetJob, CancelJob, Ask, DeleteJob
<1> QED
  BY <1>2, <1>4 DEF GetJob, CancelJob, Ask, DeleteJob, TypeInv, CallsTyped

\* The type invariant holds initially ...
LEMMA TypeInit == Init => TypeInv
<1> SUFFICES ASSUME Init PROVE TypeInv
  OBVIOUS
<1>1. resolving \in [Requests -> Resolving]
  BY DEF Init, DirectoryInit, Resolving
<1>2. HasTenant
  BY DEF Init, DirectoryInit, HasTenant
<1>3. call \in [Requests -> [outcome : Outcome, worker : Workers]]
  BY DEF Init, Outcome
<1>4. order \in [Requests -> Order]
  BY DEF Init, Order
<1>5. mu \in [Gateways -> Requests \cup {NoRequest}]
  BY DEF Init, DirectoryInit
<1>6. mishaps \in 0..MaxMishaps /\ restarts \in 0..MaxRestarts
  BY DirectoryAssumption DEF Init, DirectoryInit
<1>7. MapTyped
  BY DEF Init, DirectoryInit, MapTyped
<1> QED
  BY <1>1, <1>2, <1>3, <1>4, <1>5, <1>6, <1>7
  DEF Init, DirectoryInit, TypeInv, DirectoryTypeOK, CallsTyped, MapTyped

\* ... and every step keeps it.
LEMMA TypeStep == TypeInv /\ [Next]_vars => TypeInv'
<1> SUFFICES ASSUME TypeInv, [Next]_vars PROVE TypeInv'
  OBVIOUS
<1>1. ASSUME NEW r \in Requests, NEW k \in Submissions, Submit(r, k) PROVE TypeInv'
  <2>1. [op |-> "submit", job_id |-> k] \in Order
    BY DEF Order
  <2> QED
    BY <1>1, <2>1, LookupTypes, OrderTypes DEF Submit, TypeInv
<1>2. ASSUME NEW r \in Requests, NEW op \in {"get", "cancel", "delete"}, NEW j \in Requests,
             FollowUp(r, op, j)
      PROVE  TypeInv'
  <2>1. [op |-> op, job |-> j] \in Order
    BY DEF Order
  <2> QED
    BY <1>2, <2>1, LookupTypes, OrderTypes DEF FollowUp, TypeInv
<1>3. ASSUME NEW r \in Requests, Resolve(r) PROVE TypeInv'
  BY <1>3, ResolveTypes DEF Resolve, TypeInv, CallsTyped, gatewayVars
<1>4. ASSUME NEW r \in Requests, SubmitJob(r) PROVE TypeInv'
  BY <1>4, SubmitTypes, CallTypes DEF SubmitJob, TypeInv
<1>5. ASSUME NEW r \in Requests, GetJob(r) \/ CancelJob(r) \/ DeleteJob(r) PROVE TypeInv'
  <2>1. DirectoryTypeOK' /\ HasTenant'
    BY <1>5, CallTypes DEF GetJob, CancelJob, Ask, DeleteJob, TypeInv
  <2> QED
    BY <1>5, <2>1, FollowUpTypes DEF TypeInv
<1>6. ASSUME NEW g \in Gateways, RestartGateway(g) PROVE TypeInv'
  BY <1>6, RestartTypes DEF RestartGateway, TypeInv, CallsTyped, gatewayVars
<1>7. CASE UNCHANGED vars
  BY <1>7 DEF vars, directoryVars, gatewayVars, TypeInv, DirectoryTypeOK, HasTenant, CallsTyped
<1> QED
  BY <1>1, <1>2, <1>3, <1>4, <1>5, <1>6, <1>7 DEF Next, Serve

\* Every request that has been resolved has a tenant ID.
LEMMA TypeInvariant == Spec => []TypeInv
BY TypeInit, TypeStep, PTL DEF Spec

\* Types, for any number of gateways, requests, identities and workers.
THEOREM TypeCorrect == Spec => []TypeOK
<1>1. TypeInv => TypeOK
  BY DEF TypeInv, TypeOK, CallsTyped
<1> QED
  BY <1>1, TypeInvariant, PTL

(***************************************************************************)
(* The tenant of a request                                                 *)
(***************************************************************************)

\* A tenant is in the table, and belongs to an identity with a user ID that has come to a
\* gateway.
IsOf(t, g, i) ==
  /\ t \in DOMAIN tenants
  /\ \E s \in Requests : /\ resolving[s].pc # "idle" /\ At(s) = g /\ User(s).id = i
                         /\ tenants[t] = User(s)

MapInv ==
  \A g \in Gateways : \A i \in DOMAIN oauthToTenant[g] : IsOf(oauthToTenant[g][i], g, i)

\* Rows keep the identity of the request that drew their ID, what is read of the table is of
\* the identity it is read for, and what is taken from a map is of the user ID alone.
TheirsInv ==
  /\ \A t \in DOMAIN tenants : tenants[t] = User(t)
  /\ MapInv
  /\ \A r \in Requests : resolving[r].pc = "store" =>
       resolving[r].tenant \in DOMAIN tenants /\ tenants[resolving[r].tenant] = User(r)
  /\ \A r \in Requests : resolving[r].pc = "resolved" =>
       IsOf(resolving[r].tenant, At(r), User(r).id)

\* The directory's steps, by what they do to the requests.
DirectoryStep(r) == Lookup(r) \/ getOrCreateTenant(r)

\* Users and gateways of requests never change.
LEMMA RequestsKeepUsers ==
  ASSUME DirectoryTypeOK, HasTenant, NEW r \in Requests, DirectoryStep(r), NEW s \in Requests
  PROVE  At(s)' = At(s) /\ User(s)' = User(s)
<1>1. ASSUME NEW pc \in {"query", "store", "lock", "insert", "resolved", "failed"},
             NEW t \in Requests \cup {NoRequest}, Goto(r, pc, t)
      PROVE  At(s)' = At(s) /\ User(s)' = User(s)
  BY <1>1, GotoMoves DEF At, User
<1>2. CASE Lookup(r)
  BY <1>1, <1>2, RequestTypes DEF Lookup
<1>3. CASE Query(r)
  <2>1. TenantsByOAuth(User(r)) \subseteq Requests
    BY DEF TenantsByOAuth, DirectoryTypeOK
  <2> QED
    BY <1>1, <1>3, <2>1 DEF Query
<1>4. CASE Store(r)
  BY <1>1, <1>4 DEF Store, HasTenant
<1>5. CASE Lock(r)
  BY <1>1, <1>5, RequestTypes DEF Lock
<1>6. CASE Insert(r)
  BY <1>1, <1>6 DEF Insert
<1> QED
  BY <1>2, <1>3, <1>4, <1>5, <1>6 DEF DirectoryStep, getOrCreateTenant

\* Steps of the directory move requests that are not answered, and not back to idle.
LEMMA OpenStep ==
  ASSUME DirectoryTypeOK, HasTenant, NEW r \in Requests, DirectoryStep(r)
  PROVE  /\ \A s \in Requests \ {r} : resolving'[s].pc = resolving[s].pc
         /\ resolving[r].pc # "resolved"
         /\ resolving'[r].pc # "idle" /\ (resolving[r].pc = "idle" => Lookup(r))
<1>1. ASSUME NEW pc \in {"query", "store", "lock", "insert", "resolved", "failed"},
             NEW t \in Requests \cup {NoRequest}, Goto(r, pc, t)
      PROVE  /\ \A s \in Requests \ {r} : resolving'[s].pc = resolving[s].pc
             /\ resolving'[r].pc # "idle"
  BY <1>1, GotoMoves
<1>2. CASE Lookup(r)
  BY <1>1, <1>2, RequestTypes DEF Lookup
<1>3. CASE Query(r)
  <2>1. TenantsByOAuth(User(r)) \subseteq Requests
    BY DEF TenantsByOAuth, DirectoryTypeOK
  <2> QED
    BY <1>1, <1>3, <2>1 DEF Query
<1>4. CASE Store(r)
  BY <1>1, <1>4 DEF Store, HasTenant
<1>5. CASE Lock(r)
  BY <1>1, <1>5, RequestTypes DEF Lock
<1>6. CASE Insert(r)
  BY <1>1, <1>6 DEF Insert
<1> QED
  BY <1>2, <1>3, <1>4, <1>5, <1>6 DEF DirectoryStep, getOrCreateTenant

\* The cached tenant of a request is of its user ID.
LEMMA CachedIsTheirs ==
  ASSUME DirectoryTypeOK, TheirsInv, NEW r \in Requests, Cached(r)
  PROVE  IsOf(CachedTenant(r), At(r), User(r).id)
BY RequestTypes DEF TheirsInv, MapInv, Cached, CachedTenant

\* Tenants stay of the user IDs they are of, while rows and requests stay what they are.
LEMMA StaysOf ==
  ASSUME DOMAIN tenants \subseteq DOMAIN tenants', \A t \in DOMAIN tenants : tenants'[t] = tenants[t],
         \A s \in Requests : /\ At(s)' = At(s) /\ User(s)' = User(s)
                             /\ resolving'[s].pc = "idle" => resolving[s].pc = "idle",
         NEW t, NEW g, NEW i, IsOf(t, g, i)
  PROVE  IsOf(t, g, i)'
BY DEF IsOf

\* A step of the directory keeps the invariant.
LEMMA TheirsStep ==
  ASSUME DirectoryTypeOK, HasTenant, TheirsInv, NEW r \in Requests, DirectoryStep(r)
  PROVE  TheirsInv'
<1>1. \A s \in Requests : /\ At(s)' = At(s) /\ User(s)' = User(s)
                          /\ resolving'[s].pc = "idle" => resolving[s].pc = "idle"
  BY RequestsKeepUsers, OpenStep
<1>2. At(r) \in Gateways /\ User(r) \in Users /\ DOMAIN tenants \subseteq Requests
  BY RequestTypes DEF DirectoryTypeOK
<1>3. /\ DOMAIN tenants \subseteq DOMAIN tenants'
      /\ \A t \in DOMAIN tenants : tenants'[t] = tenants[t]
      /\ \A t \in DOMAIN tenants' : t \in Requests /\ tenants'[t] = User(t)
  <2>1. CASE InsertTenant(r)
    <3>1. User(r) = tenants[r] \/ r \notin DOMAIN tenants
      BY DEF TheirsInv
    <3>2. /\ DOMAIN tenants' = DOMAIN tenants \cup {r}
          /\ \A t \in DOMAIN tenants' : tenants'[t] = IF t = r THEN User(r) ELSE tenants[t]
      BY <2>1, InsertWrites
    <3>3. \A t \in DOMAIN tenants' : t \in Requests /\ tenants'[t] = User(t)
      BY <1>2, <3>2 DEF TheirsInv
    <3> QED
      BY <3>1, <3>2, <3>3
  <2>2. CASE UNCHANGED tenants
    BY <1>2, <2>2 DEF TheirsInv
  <2> QED
    BY <2>1, <2>2 DEF DirectoryStep, getOrCreateTenant, Lookup, Query, Store, Lock, Insert
<1>4. \A t, g, i : IsOf(t, g, i) => IsOf(t, g, i)'
  BY <1>1, <1>3, StaysOf
<1>5. ASSUME NEW t \in DOMAIN tenants', tenants'[t] = User(r)
      PROVE  IsOf(t, At(r), User(r).id)'
  BY <1>1, <1>5, OpenStep DEF IsOf
\* The maps ...
<1>6. UNCHANGED oauthToTenant => MapInv'
  BY <1>4 DEF TheirsInv, MapInv
<1>7. ASSUME NEW t \in Requests, Cache(r, t), t \in DOMAIN tenants', tenants'[t] = User(r)
      PROVE  MapInv'
  <2> SUFFICES ASSUME NEW g \in Gateways, NEW i \in DOMAIN oauthToTenant'[g]
               PROVE  IsOf(oauthToTenant[g][i], g, i)'
    BY DEF MapInv
  <2>1. CASE g = At(r) /\ i = User(r).id
    BY <1>1, <1>5, <1>7, <2>1, CacheWrites
  <2>2. CASE ~(g = At(r) /\ i = User(r).id)
    <3>1. i \in DOMAIN oauthToTenant[g] /\ oauthToTenant'[g][i] = oauthToTenant[g][i]
      BY <1>7, <2>2, CacheWrites
    <3>2. IsOf(oauthToTenant[g][i], g, i)
      BY <3>1 DEF TheirsInv, MapInv
    <3> QED
      BY <1>4, <3>1, <3>2
  <2> QED
    BY <2>1, <2>2
\* ... and the requests.
<1>8. ASSUME NEW pc \in {"query", "store", "lock", "insert", "resolved", "failed"},
             NEW t \in Requests \cup {NoRequest}, Goto(r, pc, t), MapInv',
             pc = "store" => t \in DOMAIN tenants /\ tenants[t] = User(r),
             pc = "resolved" => IsOf(t, At(r), User(r).id)'
      PROVE  TheirsInv'
  <2>1. \A s \in Requests :
          /\ resolving'[s].pc = IF s = r THEN pc ELSE resolving[s].pc
          /\ resolving'[s].tenant = IF s = r THEN t ELSE resolving[s].tenant
    BY <1>8, GotoMoves
  <2>2. ASSUME NEW s \in Requests, resolving'[s].pc = "store"
        PROVE  resolving'[s].tenant \in DOMAIN tenants' /\ tenants'[resolving'[s].tenant] = User(s)'
    BY <1>1, <1>3, <1>8, <2>1, <2>2 DEF TheirsInv
  <2>3. ASSUME NEW s \in Requests, resolving'[s].pc = "resolved"
        PROVE  IsOf(resolving[s].tenant, At(s), User(s).id)'
    <3>1. CASE s = r
      BY <1>8, <2>1, <2>3, <3>1
    <3>2. CASE s # r
      <4>1. /\ resolving'[s].tenant = resolving[s].tenant
            /\ IsOf(resolving[s].tenant, At(s), User(s).id)
        BY <2>1, <2>3, <3>2 DEF TheirsInv
      <4> QED
        BY <1>1, <1>4, <4>1
    <3> QED
      BY <3>1, <3>2
  <2> QED
    BY <1>1, <1>3, <1>8, <2>2, <2>3 DEF TheirsInv
<1>9. Cached(r) => CachedTenant(r) \in Requests /\ IsOf(CachedTenant(r), At(r), User(r).id)
  BY CachedIsTheirs, RequestTypes
<1>10. CASE Lookup(r)
  <2>1. CASE Cached(r) /\ Goto(r, "resolved", CachedTenant(r))
    <3>1. PICK t \in Requests : t = CachedTenant(r)
      BY <1>9, <2>1
    <3>2. IsOf(t, At(r), User(r).id)'
      BY <1>1, <1>4, <1>9, <2>1, <3>1
    <3> QED
      BY <1>6, <1>8, <1>10, <2>1, <3>1, <3>2 DEF Lookup
  <2>2. CASE Goto(r, "query", NoRequest)
    BY <1>6, <1>8, <1>10, <2>2 DEF Lookup
  <2> QED
    BY <1>10, <2>1, <2>2 DEF Lookup
<1>11. CASE Query(r)
  <2>1. CASE Goto(r, "lock", NoRequest) \/ Goto(r, "failed", NoRequest)
    BY <1>6, <1>8, <1>11, <2>1 DEF Query
  <2>2. ASSUME NEW t \in TenantsByOAuth(User(r)), Goto(r, "store", t) PROVE TheirsInv'
    BY <1>2, <1>6, <1>8, <1>11, <2>2 DEF Query, TenantsByOAuth
  <2> QED
    BY <1>11, <2>1, <2>2 DEF Query
<1>12. CASE Store(r)
  <2>1. PICK t \in Requests : t = resolving[r].tenant /\ t \in DOMAIN tenants /\ tenants[t] = User(r)
    BY <1>12 DEF Store, HasTenant, TheirsInv
  <2>2. t \in DOMAIN tenants' /\ tenants'[t] = User(r) /\ Cache(r, t) /\ Goto(r, "resolved", t)
    BY <1>3, <1>12, <2>1 DEF Store
  <2> QED
    BY <1>5, <1>7, <1>8, <2>2
<1>13. CASE Lock(r)
  <2>1. CASE Cached(r) /\ Goto(r, "resolved", CachedTenant(r))
    <3>1. PICK t \in Requests : t = CachedTenant(r)
      BY <1>9, <2>1
    <3>2. IsOf(t, At(r), User(r).id)'
      BY <1>1, <1>4, <1>9, <2>1, <3>1
    <3> QED
      BY <1>6, <1>8, <1>13, <2>1, <3>1, <3>2 DEF Lock
  <2>2. CASE Goto(r, "insert", NoRequest)
    BY <1>6, <1>8, <1>13, <2>2 DEF Lock
  <2> QED
    BY <1>13, <2>1, <2>2 DEF Lock
<1>14. CASE Insert(r)
  <2>1. CASE InsertTenant(r) /\ Cache(r, r) /\ Goto(r, "resolved", r)
    <3>1. r \in DOMAIN tenants' /\ tenants'[r] = User(r)
      BY <2>1, InsertWrites
    <3> QED
      BY <1>5, <1>7, <1>8, <2>1, <3>1
  <2>2. CASE Goto(r, "failed", NoRequest) /\ UNCHANGED oauthToTenant
    BY <1>6, <1>8, <2>2
  <2> QED
    BY <1>14, <2>1, <2>2 DEF Insert
<1> QED
  BY <1>10, <1>11, <1>12, <1>13, <1>14 DEF DirectoryStep, getOrCreateTenant

\* A restart keeps the users and gateways of requests, and gives no request a tenant.
LEMMA RestartKeeps ==
  ASSUME DirectoryTypeOK, NEW g \in Gateways, NEW open, Restart(g, open), NEW r \in Requests
  PROVE  /\ At(r)' = At(r) /\ User(r)' = User(r)
         /\ resolving'[r].tenant = resolving[r].tenant
         /\ resolving'[r].pc = IF r \in open /\ At(r) = g THEN "failed" ELSE resolving[r].pc
<1>1. resolving[r] \in Resolving
  BY DEF DirectoryTypeOK
<1>2. resolving'[r] = IF r \in open /\ At(r) = g THEN [resolving[r] EXCEPT !.pc = "failed"]
                      ELSE resolving[r]
  BY DEF Restart
<1> QED
  BY <1>1, <1>2 DEF Resolving, At, User

\* The invariant is inductive together with the types.
LEMMA TheirsInvariant == Spec => []TheirsInv
<1>1. Init => TheirsInv
  BY DEF Init, DirectoryInit, TheirsInv, MapInv
<1>2. TypeInv /\ TheirsInv /\ [Next]_vars => TheirsInv'
  <2> SUFFICES ASSUME TypeInv, TheirsInv, [Next]_vars PROVE TheirsInv'
    OBVIOUS
  <2>1. ASSUME NEW r \in Requests, DirectoryStep(r) PROVE TheirsInv'
    BY <2>1, TheirsStep DEF TypeInv
  <2>2. ASSUME NEW g \in Gateways, RestartGateway(g) PROVE TheirsInv'
    <3>1. PICK open : Restart(g, open)
      BY <2>2 DEF RestartGateway
    <3>2. \A r \in Requests :
            /\ At(r)' = At(r) /\ User(r)' = User(r) /\ resolving'[r].tenant = resolving[r].tenant
            /\ resolving'[r].pc \in {resolving[r].pc, "failed"}
      BY <3>1, RestartKeeps DEF TypeInv
    <3>3. UNCHANGED tenants
      BY <3>1 DEF Restart
    <3>4. \A t, h, i : IsOf(t, h, i) => IsOf(t, h, i)'
      BY <3>2, <3>3, StaysOf
    <3>5. \A h \in Gateways : \A i \in DOMAIN oauthToTenant'[h] :
            i \in DOMAIN oauthToTenant[h] /\ oauthToTenant'[h][i] = oauthToTenant[h][i]
      BY <3>1 DEF Restart, TypeInv, DirectoryTypeOK
    <3>6. MapInv'
      BY <3>4, <3>5 DEF TheirsInv, MapInv
    <3>7. ASSUME NEW r \in Requests, resolving'[r].pc = "resolved"
          PROVE  IsOf(resolving[r].tenant, At(r), User(r).id)'
      <4>1. IsOf(resolving[r].tenant, At(r), User(r).id)
        BY <3>2, <3>7 DEF TheirsInv
      <4> QED
        BY <3>2, <3>4, <4>1
    <3> QED
      BY <3>2, <3>3, <3>6, <3>7 DEF TheirsInv, TypeInv, DirectoryTypeOK
  <2>3. CASE UNCHANGED <<tenants, oauthToTenant, resolving>>
    BY <2>3 DEF TheirsInv, MapInv, IsOf, User, At
  <2> QED
    BY <2>1, <2>2, <2>3 DEF Next, Serve, Submit, FollowUp, Resolve, SubmitJob, GetJob, CancelJob,
       Ask, DeleteJob, DirectoryStep, vars, directoryVars
<1> QED
  BY <1>1, <1>2, TypeInvariant, PTL DEF Spec

\* Every request is served with a tenant in the table that belongs to an identity with its
\* user ID that has come to the same gateway, whatever fails or restarts and however many
\* providers and gateways there are.  It may be the tenant of another provider's identity:
\* the map of getOrCreateTenant (cmd/gateway/service/oauth.go) is keyed by the user ID alone.
THEOREM TenantsAreTheirs == Spec => []TenantIsTheirs
<1>1. TheirsInv => TenantIsTheirs
  BY DEF TheirsInv, IsOf, TenantIsTheirs, Alike
<1> QED
  BY <1>1, TheirsInvariant, PTL

(***************************************************************************)
(* One gateway                                                             *)
(***************************************************************************)

\* A request that may still insert a row is one that a restart ends.
OpenInv ==
  \A r \in Requests :
    /\ resolving[r].pc # "idle" => order[r].op # "none"
    /\ call[r].outcome # "none" => resolving[r].pc = "resolved"

\* An identity has one row; while a request is on its way to insert another, the map
\* already shows the row to its second look, and the mutex keeps that look valid.
RowInv(g) ==
  /\ \A s, t \in DOMAIN tenants : tenants[s] = tenants[t] => s = t
  /\ \A r \in Requests : resolving[r].pc = "insert" => mu[g] = r /\ ~Cached(r)
  /\ \A r \in Requests, t \in DOMAIN tenants :
       resolving[r].pc \in {"lock", "insert"} /\ tenants[t] = User(r) => Cached(r)

\* Requests stay at their gateways, and failures are never forgotten.
LEMMA RequestsStay ==
  ASSUME TypeInv, [Next]_vars
  PROVE  (\A s \in Requests : At(s)' = At(s)) /\ (mishaps' = 0 => mishaps = 0)
<1>1. mishaps \in Nat
  BY DirectoryAssumption DEF TypeInv, DirectoryTypeOK
<1>2. ASSUME NEW r \in Requests, DirectoryStep(r)
      PROVE  (\A s \in Requests : At(s)' = At(s)) /\ mishaps' \in {mishaps, mishaps + 1}
  <2>1. \A s \in Requests : At(s)' = At(s)
    BY <1>2, RequestsKeepUsers DEF TypeInv
  <2> QED
    BY <1>2, <2>1 DEF DirectoryStep, getOrCreateTenant, Lookup, Query, Store, Lock, Insert,
       Mishap, NoMishap
<1>3. ASSUME NEW g \in Gateways, RestartGateway(g)
      PROVE  (\A s \in Requests : At(s)' = At(s)) /\ UNCHANGED mishaps
  <2>1. PICK open : Restart(g, open)
    BY <1>3 DEF RestartGateway
  <2> QED
    BY <2>1, RestartKeeps DEF TypeInv, Restart
<1>4. ASSUME NEW r \in Requests, SubmitJob(r) \/ GetJob(r) \/ CancelJob(r) \/ DeleteJob(r)
      PROVE  UNCHANGED resolving /\ mishaps' \in {mishaps, mishaps + 1}
  BY <1>4 DEF SubmitJob, GetJob, CancelJob, Ask, DeleteJob, Mishap, NoMishap
<1>5. ASSUME UNCHANGED resolving, mishaps' \in {mishaps, mishaps + 1}
      PROVE  (\A s \in Requests : At(s)' = At(s)) /\ (mishaps' = 0 => mishaps = 0)
  BY <1>1, <1>5 DEF At
<1>6. CASE UNCHANGED vars
  BY <1>6 DEF At, vars, directoryVars
<1>7. ASSUME NEW r \in Requests,
             \/ \E k \in Submissions : Submit(r, k)
             \/ \E op \in {"get", "cancel", "delete"}, j \in Requests : FollowUp(r, op, j)
             \/ Resolve(r)
      PROVE  DirectoryStep(r)
  BY <1>7 DEF Submit, FollowUp, Resolve, DirectoryStep
<1>8. ASSUME NEW r \in Requests, DirectoryStep(r)
      PROVE  (\A s \in Requests : At(s)' = At(s)) /\ (mishaps' = 0 => mishaps = 0)
  BY <1>1, <1>2, <1>8
<1>9. ASSUME NEW r \in Requests, SubmitJob(r) \/ GetJob(r) \/ CancelJob(r) \/ DeleteJob(r)
      PROVE  (\A s \in Requests : At(s)' = At(s)) /\ (mishaps' = 0 => mishaps = 0)
  BY <1>4, <1>5, <1>9
<1>10. ASSUME NEW g \in Gateways, RestartGateway(g)
       PROVE  (\A s \in Requests : At(s)' = At(s)) /\ (mishaps' = 0 => mishaps = 0)
  BY <1>3, <1>10
<1> QED
  BY <1>6, <1>7, <1>8, <1>9, <1>10 DEF Next, Serve

\* As long as nothing fails, a step of the directory keeps the invariant of the gateway
\* that all requests come to.
LEMMA RowStep ==
  ASSUME NEW g \in Gateways, \A s \in Requests : At(s) = g, mishaps' = 0,
         DirectoryTypeOK, HasTenant, TheirsInv, RowInv(g), NEW r \in Requests, DirectoryStep(r)
  PROVE  RowInv(g)'
<1>1. \A s \in Requests : At(s) = g /\ At(s)' = g /\ User(s)' = User(s)
  BY RequestsKeepUsers, RequestTypes
<1>2. ~Mishap
  BY DirectoryAssumption DEF Mishap, DirectoryTypeOK
<1>3. NoRequest \notin Requests
  BY DirectoryAssumption
<1>4. ASSUME NEW pc \in {"query", "store", "lock", "resolved", "failed"},
             NEW t \in Requests \cup {NoRequest}, Goto(r, pc, t),
             pc = "lock" => \A s \in DOMAIN tenants : tenants[s] # User(r),
             UNCHANGED <<tenants, oauthToTenant, mu>>
      PROVE  RowInv(g)'
  <2>1. \A s \in Requests : resolving'[s].pc = IF s = r THEN pc ELSE resolving[s].pc
    BY <1>4, GotoMoves
  <2>2. \A s \in Requests : Cached(s)' = Cached(s)
    BY <1>1, <1>4 DEF Cached
  <2> QED
    BY <1>1, <1>4, <2>1, <2>2 DEF RowInv
<1>5. CASE Lookup(r)
  BY <1>4, <1>5, RequestTypes DEF Lookup
<1>6. CASE Query(r)
  <2>1. TenantsByOAuth(User(r)) \subseteq Requests
    BY DEF TenantsByOAuth, DirectoryTypeOK
  <2> QED
    BY <1>2, <1>4, <1>6, <2>1 DEF Query, TenantsByOAuth
<1>7. ASSUME Cache(r, resolving'[r].tenant), resolving'[r].tenant \in Requests
      PROVE  \A s \in Requests : Cached(s)' <=> Cached(s) \/ User(s).id = User(r).id
  <2>1. DOMAIN oauthToTenant'[g] = DOMAIN oauthToTenant[g] \cup {User(r).id}
    BY <1>1, <1>7, CacheWrites
  <2> QED
    BY <1>1, <2>1 DEF Cached
<1>8. CASE Store(r)
  <2>1. /\ resolving[r].tenant \in Requests
        /\ \A s \in Requests : resolving'[s].pc = IF s = r THEN "resolved" ELSE resolving[s].pc
        /\ resolving'[r].tenant = resolving[r].tenant
    BY <1>8, GotoMoves DEF Store, HasTenant
  <2>2. \A s \in Requests : resolving[s].pc # "insert"
    BY <1>1, <1>3, <1>8 DEF Store, Free, RowInv
  <2> QED
    BY <1>1, <1>7, <1>8, <2>1, <2>2 DEF Store, RowInv
<1>9. CASE Lock(r)
  <2>1. CASE Cached(r)
    BY <1>4, <1>9, <2>1, RequestTypes DEF Lock
  <2>2. CASE ~Cached(r)
    <3>1. \A s \in Requests : resolving'[s].pc = IF s = r THEN "insert" ELSE resolving[s].pc
      BY <1>9, <2>2, GotoMoves DEF Lock
    <3>2. \A s \in Requests : resolving[s].pc # "insert"
      BY <1>1, <1>3, <1>9 DEF Lock, Free, RowInv
    <3>3. mu'[g] = r
      BY <1>1, <1>9, <2>2 DEF Lock, DirectoryTypeOK
    <3>4. \A s \in Requests : Cached(s)' = Cached(s)
      BY <1>1, <1>9 DEF Lock, Cached
    <3> QED
      BY <1>1, <1>9, <2>2, <3>1, <3>2, <3>3, <3>4 DEF Lock, RowInv
  <2> QED
    BY <2>1, <2>2
<1>10. CASE Insert(r)
  <2>1. InsertTenant(r) /\ Cache(r, r) /\ Goto(r, "resolved", r) /\ mu[g] = r /\ ~Cached(r)
    BY <1>2, <1>10 DEF Insert, RowInv
  <2>2. /\ \A s \in Requests : resolving'[s].pc = IF s = r THEN "resolved" ELSE resolving[s].pc
        /\ resolving'[r].tenant = r
    BY <2>1, GotoMoves
  <2>3. \A s \in Requests : Cached(s)' <=> Cached(s) \/ User(s).id = User(r).id
    BY <1>7, <2>1, <2>2
  <2>4. \A t \in DOMAIN tenants : tenants[t] # User(r)
    BY <1>10, <2>1 DEF Insert, RowInv
  <2>5. /\ DOMAIN tenants' = DOMAIN tenants \cup {r}
        /\ \A t \in DOMAIN tenants' : tenants'[t] = IF t = r THEN User(r) ELSE tenants[t]
    BY <2>1, InsertWrites
  <2>6. \A s \in Requests \ {r} : resolving[s].pc # "insert"
    BY <2>1 DEF RowInv
  <2>7. \A s, t \in DOMAIN tenants' : tenants'[s] = tenants'[t] => s = t
    BY <2>4, <2>5 DEF RowInv
  <2>8. \A s \in Requests, t \in DOMAIN tenants' :
          resolving'[s].pc \in {"lock", "insert"} /\ tenants'[t] = User(s) => Cached(s)'
    BY <2>2, <2>3, <2>5 DEF RowInv
  <2> QED
    BY <1>1, <2>2, <2>6, <2>7, <2>8 DEF RowInv
<1> QED
  BY <1>5, <1>6, <1>8, <1>9, <1>10 DEF DirectoryStep, getOrCreateTenant

\* Until it is restarted its map has all the user IDs of the table, so that none gets a
\* second row, whatever providers it comes with.
IdInv(g) ==
  /\ \A t \in DOMAIN tenants : tenants[t].id \in DOMAIN oauthToTenant[g]
  /\ \A s, t \in DOMAIN tenants : tenants[s].id = tenants[t].id => s = t

LEMMA IdStep ==
  ASSUME NEW g \in Gateways, \A s \in Requests : At(s) = g, mishaps' = 0,
         DirectoryTypeOK, HasTenant, RowInv(g), IdInv(g), NEW r \in Requests, DirectoryStep(r)
  PROVE  IdInv(g)'
<1>1. ~Mishap
  BY DirectoryAssumption DEF Mishap, DirectoryTypeOK
<1>2. UNCHANGED tenants /\ DOMAIN oauthToTenant[g] \subseteq DOMAIN oauthToTenant'[g] => IdInv(g)'
  BY DEF IdInv
<1>3. CASE Store(r)
  <2>1. PICK t \in Requests : Cache(r, t)
    BY <1>3 DEF Store, HasTenant
  <2> QED
    BY <1>2, <1>3, <2>1, CacheWrites DEF Store
<1>4. CASE Insert(r)
  <2>1. InsertTenant(r) /\ Cache(r, r) /\ ~Cached(r)
    BY <1>1, <1>4 DEF Insert, RowInv
  <2>2. DOMAIN oauthToTenant'[g] = DOMAIN oauthToTenant[g] \cup {User(r).id}
    BY <2>1, CacheWrites
  <2>3. /\ DOMAIN tenants' = DOMAIN tenants \cup {r}
        /\ \A t \in DOMAIN tenants' : tenants'[t] = IF t = r THEN User(r) ELSE tenants[t]
    BY <2>1, InsertWrites
  <2>4. \A t \in DOMAIN tenants : tenants[t].id # User(r).id
    BY <2>1 DEF IdInv, Cached
  <2> QED
    BY <2>2, <2>3, <2>4 DEF IdInv
<1>5. CASE Lookup(r) \/ Query(r) \/ Lock(r)
  BY <1>2, <1>5 DEF Lookup, Query, Lock
<1> QED
  BY <1>3, <1>4, <1>5 DEF DirectoryStep, getOrCreateTenant

\* Requests are ordered before they are resolved, and resolved before they are forwarded.
LEMMA OpenInvariant == Spec => []OpenInv
<1>1. Init => OpenInv
  BY DEF Init, DirectoryInit, OpenInv
<1>2. TypeInv /\ OpenInv /\ [Next]_vars => OpenInv'
  <2> SUFFICES ASSUME TypeInv, OpenInv, [Next]_vars PROVE OpenInv'
    OBVIOUS
  <2>1. ASSUME NEW r \in Requests, NEW o \in Order, o.op # "none", Lookup(r),
               order' = [order EXCEPT ![r] = o], UNCHANGED call
        PROVE  OpenInv'
    BY <2>1, OpenStep DEF OpenInv, DirectoryStep, TypeInv, CallsTyped
  <2>2. ASSUME NEW r \in Requests, NEW k \in Submissions, Submit(r, k) PROVE OpenInv'
    <3>1. [op |-> "submit", job_id |-> k] \in Order
      BY DEF Order
    <3> QED
      BY <2>1, <2>2, <3>1 DEF Submit
  <2>3. ASSUME NEW r \in Requests, NEW op \in {"get", "cancel", "delete"}, NEW j \in Requests,
               FollowUp(r, op, j)
        PROVE  OpenInv'
    <3>1. [op |-> op, job |-> j] \in Order /\ op # "none"
      BY DEF Order
    <3> QED
      BY <2>1, <2>3, <3>1 DEF FollowUp
  <2>4. ASSUME NEW r \in Requests, Resolve(r) PROVE OpenInv'
    <3>1. resolving[r].pc # "idle"
      BY <2>4 DEF Resolve, getOrCreateTenant, Query, Store, Lock, Insert
    <3> QED
      BY <2>4, <3>1, OpenStep DEF OpenInv, Resolve, DirectoryStep, TypeInv, gatewayVars
  <2>5. ASSUME NEW r \in Requests, SubmitJob(r) \/ GetJob(r) \/ CancelJob(r) \/ DeleteJob(r) PROVE OpenInv'
    <3>1. \A s \in Requests \ {r} : call'[s].outcome = call[s].outcome
      BY <2>5 DEF SubmitJob, GetJob, CancelJob, Ask, DeleteJob, Answer, TypeInv, CallsTyped
    <3>2. resolving[r].pc = "resolved" /\ UNCHANGED <<resolving, order>>
      BY <2>5 DEF SubmitJob, GetJob, CancelJob, Ask, DeleteJob, Resolved
    <3> QED
      BY <3>1, <3>2 DEF OpenInv
  <2>6. ASSUME NEW g \in Gateways, RestartGateway(g) PROVE OpenInv'
    <3>1. \A r \in Requests :
            resolving'[r].pc = IF r \in Open /\ At(r) = g THEN "failed" ELSE resolving[r].pc
      BY <2>6, RestartKeeps DEF RestartGateway, TypeInv
    <3> QED
      BY <2>6, <3>1 DEF RestartGateway, Open, OpenInv, gatewayVars
  <2>7. CASE UNCHANGED vars
    BY <2>7 DEF OpenInv, vars, directoryVars, gatewayVars
  <2> QED
    BY <2>2, <2>3, <2>4, <2>5, <2>6, <2>7 DEF Next, Serve
<1> QED
  BY <1>1, <1>2, TypeInvariant, PTL DEF Spec

\* The invariant of the gateway that all requests come to, if there is one.
SoleInv(g) == RowInv(g) /\ (restarts = 0 => IdInv(g))
SoleGatewayInv ==
  mishaps = 0 => \A g \in Gateways : (\A r \in Requests : At(r) = g) => SoleInv(g)

\* It is inductive together with the others.
LEMMA SoleGatewayStep ==
  TypeInv /\ TheirsInv /\ OpenInv /\ SoleGatewayInv /\ [Next]_vars => SoleGatewayInv'
<1> SUFFICES ASSUME TypeInv, TheirsInv, OpenInv, SoleGatewayInv, [Next]_vars, mishaps' = 0,
                    NEW g \in Gateways, \A r \in Requests : At(r)' = g
             PROVE  SoleInv(g)'
  BY DEF SoleGatewayInv
<1>1. (\A r \in Requests : At(r) = g) /\ SoleInv(g)
  BY RequestsStay DEF SoleGatewayInv
<1>2. ASSUME NEW r \in Requests, DirectoryStep(r) PROVE SoleInv(g)'
  <2>1. restarts' = restarts
    BY <1>2 DEF DirectoryStep, getOrCreateTenant, Lookup, Query, Store, Lock, Insert, Mishap, NoMishap
  <2> QED
    BY <1>1, <1>2, <2>1, RowStep, IdStep DEF TypeInv, SoleInv
<1>3. ASSUME NEW h \in Gateways, RestartGateway(h) PROVE SoleInv(g)'
  <2>1. \A r \in Requests :
          /\ User(r)' = User(r) /\ At(r)' = At(r)
          /\ resolving'[r].pc = IF r \in Open /\ At(r) = h THEN "failed" ELSE resolving[r].pc
    BY <1>3, RestartKeeps DEF RestartGateway, TypeInv
  <2>0. restarts' # 0
    BY <1>3 DEF RestartGateway, Restart, TypeInv, DirectoryTypeOK
  <2>2. CASE h = g
    <3>1. \A r \in Requests : resolving'[r].pc \notin {"lock", "insert"}
      BY <1>1, <2>1, <2>2 DEF OpenInv, Open
    <3> QED
      BY <1>1, <1>3, <2>0, <3>1 DEF SoleInv, RowInv, RestartGateway, Restart
  <2>3. CASE h # g
    <3>1. UNCHANGED tenants /\ mu'[g] = mu[g] /\ oauthToTenant'[g] = oauthToTenant[g]
      BY <1>3, <2>3 DEF RestartGateway, Restart, TypeInv, DirectoryTypeOK
    <3>2. \A r \in Requests : resolving'[r].pc = resolving[r].pc /\ Cached(r)' = Cached(r)
      BY <1>1, <2>1, <2>3, <3>1 DEF Cached
    <3> QED
      BY <1>1, <2>0, <2>1, <3>1, <3>2 DEF SoleInv, RowInv
  <2> QED
    BY <2>2, <2>3
<1>4. CASE UNCHANGED <<tenants, oauthToTenant, mu, resolving, restarts>>
  BY <1>1, <1>4 DEF SoleInv, RowInv, IdInv, Cached, User, At
<1> QED
  BY <1>2, <1>3, <1>4 DEF Next, Serve, Submit, FollowUp, Resolve, SubmitJob, GetJob, CancelJob,
     Ask, DeleteJob, DirectoryStep, vars, directoryVars, Mishap, NoMishap

\* If all requests come to one of the gateways, and no call fails, all requests of a user ID
\* are served with one tenant, whatever the providers; and however often gateways are
\* restarted, if the user ID has come with one provider.
THEOREM TenantsAreStable == Spec => []OneGatewayIsStable
<1>1. Init => SoleGatewayInv
  BY DEF Init, DirectoryInit, SoleGatewayInv, SoleInv, RowInv, IdInv
<1>2. TypeInv /\ TheirsInv /\ SoleGatewayInv => OneGatewayIsStable
  <2> SUFFICES ASSUME TypeInv, TheirsInv, SoleGatewayInv, mishaps = 0,
                      \A r, s \in Requests : At(r) = At(s),
                      NEW r \in Requests, NEW s \in Requests,
                      resolving[r].pc = "resolved", resolving[s].pc = "resolved",
                      User(r).id = User(s).id, restarts = 0 \/ ~Mixed(r)
               PROVE  resolving[r].tenant = resolving[s].tenant
    BY DEF OneGatewayIsStable
  <2>1. SoleInv(At(r))
    BY RequestTypes DEF TypeInv, SoleGatewayInv
  <2>2. PICK a \in Alike(r), b \in Alike(s) :
          /\ resolving[r].tenant \in DOMAIN tenants /\ tenants[resolving[r].tenant] = User(a)
          /\ resolving[s].tenant \in DOMAIN tenants /\ tenants[resolving[s].tenant] = User(b)
    BY DEF TheirsInv, IsOf, Alike
  <2>3. b \in Alike(r)
    BY <2>2 DEF Alike
  <2>4. CASE restarts = 0
    BY <2>1, <2>2, <2>3, <2>4 DEF SoleInv, IdInv, Alike
  <2>5. CASE ~Mixed(r)
    BY <2>1, <2>2, <2>3, <2>5 DEF Mixed, SoleInv, RowInv
  <2> QED
    BY <2>4, <2>5
<1> QED
  BY <1>1, <1>2, TypeInvariant, TheirsInvariant, OpenInvariant, SoleGatewayStep, PTL DEF Spec

(***************************************************************************)
(* What later requests find                                                *)
(***************************************************************************)

\* A request that has not come in asks for nothing.
NotYet == \A r \in Requests : resolving[r].pc = "idle" => order[r].op = "none"

FollowUps == {"get", "cancel", "delete"}

\* The job's row was removed by a request that was told so, or was told of an error.
Deleted(j) ==
  \E d \in Requests : order[d] = [op |-> "delete", job |-> j] /\ call[d].outcome \in {"ok", "error"}

\* A job that was answered has its row, with the tenant that submitted it, or was deleted.
There(j) == (j \in DOMAIN jobs /\ jobs[j].tenant = resolving[j].tenant) \/ Deleted(j)

\* A later request is about a submission that was answered, and goes to the worker of its ID;
\* if it is told that there is no such job, it is of another tenant, or the job was deleted.
Later(r) ==
  /\ order[order[r].job].op = "submit" /\ call[order[r].job].outcome = "ok"
  /\ call[r].outcome # "none" => call[r].worker = ring[order[r].job]
  /\ call[r].outcome = "missing" /\ resolving[r].tenant = resolving[order[r].job].tenant =>
       Deleted(order[r].job)

\* Rows are at the worker of their ID as well.
FindInv ==
  /\ \A j \in DOMAIN jobs : jobs[j].worker = ring[j]
  /\ \A r \in Requests : order[r].op \in FollowUps => Later(r)
  /\ \A j \in Requests : order[j].op = "submit" /\ call[j].outcome = "ok" => There(j)

\* A step of the directory leaves the tenants of other requests alone.
LEMMA TenantStays ==
  ASSUME DirectoryTypeOK, HasTenant, NEW r \in Requests, DirectoryStep(r), NEW s \in Requests \ {r}
  PROVE  resolving'[s].tenant = resolving[s].tenant
<1>1. ASSUME NEW pc \in {"query", "store", "lock", "insert", "resolved", "failed"},
             NEW t \in Requests \cup {NoRequest}, Goto(r, pc, t)
      PROVE  resolving'[s].tenant = resolving[s].tenant
  BY <1>1, GotoMoves
<1>2. CASE Lookup(r)
  BY <1>1, <1>2, RequestTypes DEF Lookup
<1>3. CASE Query(r)
  <2>1. TenantsByOAuth(User(r)) \subseteq Requests
    BY DEF TenantsByOAuth, DirectoryTypeOK
  <2> QED
    BY <1>1, <1>3, <2>1 DEF Query
<1>4. CASE Store(r)
  BY <1>1, <1>4 DEF Store, HasTenant
<1>5. CASE Lock(r)
  BY <1>1, <1>5, RequestTypes DEF Lock
<1>6. CASE Insert(r)
  BY <1>1, <1>6 DEF Insert
<1> QED
  BY <1>2, <1>3, <1>4, <1>5, <1>6 DEF DirectoryStep, getOrCreateTenant

\* What was asked stays asked, and what was answered stays answered, with the tenant that the
\* answer was for; also when the gateway is restarted.
LEMMA AnsweredStays ==
  ASSUME TypeInv, OpenInv, NotYet, [Next]_vars
  PROVE  /\ ring' = ring /\ NotYet'
         /\ \A s \in Requests :
              /\ order[s].op # "none" => order'[s] = order[s]
              /\ call[s].outcome # "none" =>
                   call'[s] = call[s] /\ resolving'[s].tenant = resolving[s].tenant
<1> DEFINE Fine ==
      /\ ring' = ring /\ NotYet'
      /\ \A s \in Requests :
           /\ order[s].op # "none" => order'[s] = order[s]
           /\ call[s].outcome # "none" =>
                call'[s] = call[s] /\ resolving'[s].tenant = resolving[s].tenant
<1>1. ASSUME NEW r \in Requests, NEW o, Lookup(r), order' = [order EXCEPT ![r] = o],
             UNCHANGED <<ring, call, jobs>>
      PROVE  Fine
  <2>1. /\ \A s \in Requests \ {r} : /\ resolving'[s].pc = resolving[s].pc
                                     /\ resolving'[s].tenant = resolving[s].tenant
        /\ resolving'[r].pc # "idle" /\ resolving[r].pc = "idle"
    BY <1>1, OpenStep, TenantStays DEF DirectoryStep, TypeInv, Lookup
  <2>2. order[r].op = "none" /\ call[r].outcome = "none"
    BY <2>1 DEF NotYet, OpenInv
  <2>3. \A s \in Requests \ {r} : order'[s] = order[s]
    BY <1>1 DEF TypeInv, CallsTyped
  <2> QED
    BY <1>1, <2>1, <2>2, <2>3 DEF NotYet
<1>2. ASSUME NEW r \in Requests, Resolve(r) PROVE Fine
  <2>1. /\ \A s \in Requests \ {r} : /\ resolving'[s].pc = resolving[s].pc
                                     /\ resolving'[s].tenant = resolving[s].tenant
        /\ resolving'[r].pc # "idle" /\ resolving[r].pc # "resolved"
    BY <1>2, OpenStep, TenantStays DEF DirectoryStep, TypeInv, Resolve
  <2>2. call[r].outcome = "none"
    BY <2>1 DEF OpenInv
  <2> QED
    BY <1>2, <2>1, <2>2 DEF NotYet, Resolve, gatewayVars
<1>3. ASSUME NEW r \in Requests, NEW outcome, NEW id, Answer(r, outcome, id),
             call[r].outcome = "none", UNCHANGED <<resolving, ring, order>>
      PROVE  Fine
  BY <1>3 DEF Answer, NotYet, TypeInv, CallsTyped
<1>4. ASSUME NEW g \in Gateways, RestartGateway(g) PROVE Fine
  <2>1. \A s \in Requests : /\ resolving'[s].tenant = resolving[s].tenant
                            /\ resolving'[s].pc = "idle" => resolving[s].pc = "idle"
    <3> SUFFICES ASSUME NEW s \in Requests
                 PROVE  /\ resolving'[s].tenant = resolving[s].tenant
                        /\ resolving'[s].pc = "idle" => resolving[s].pc = "idle"
      OBVIOUS
    <3>1. \/ resolving'[s] = resolving[s]
          \/ resolving'[s] = [resolving[s] EXCEPT !.pc = "failed"]
      BY <1>4 DEF RestartGateway, Restart
    <3>2. resolving[s] \in Resolving
      BY DEF TypeInv, DirectoryTypeOK
    <3> QED
      BY <3>1, <3>2 DEF Resolving
  <2> QED
    BY <1>4, <2>1 DEF RestartGateway, gatewayVars, NotYet
<1>5. ASSUME NEW r \in Requests, SubmitJob(r) \/ GetJob(r) \/ CancelJob(r) \/ DeleteJob(r)
      PROVE  Fine
  <2>1. \E outcome, id : Answer(r, outcome, id)
    BY <1>5 DEF SubmitJob, GetJob, CancelJob, Ask, DeleteJob
  <2>2. call[r].outcome = "none" /\ UNCHANGED <<resolving, ring, order>>
    BY <1>5 DEF SubmitJob, GetJob, CancelJob, Ask, DeleteJob
  <2> QED
    BY <1>3, <2>1, <2>2
<1>6. CASE UNCHANGED vars
  BY <1>6 DEF vars, directoryVars, gatewayVars, NotYet
<1>7. ASSUME NEW r \in Requests,
             \/ \E k \in Submissions : Submit(r, k)
             \/ \E op \in {"get", "cancel", "delete"}, j \in Requests : FollowUp(r, op, j)
      PROVE  Fine
  BY <1>1, <1>7 DEF Submit, FollowUp
<1> QED
  BY <1>2, <1>4, <1>5, <1>6, <1>7 DEF Next, Serve

\* What an order may be about.
LEMMA OrderIsAbout ==
  ASSUME CallsTyped, NEW r \in Requests
  PROVE  /\ order[r].op \in FollowUps => order[r].job \in Requests
         /\ order[r].op = "delete" => order[r] = [op |-> "delete", job |-> order[r].job]
         /\ order[r].op \in {"none", "submit"} \cup FollowUps
BY DEF CallsTyped, Order, FollowUps

\* What has been found out stays true.
LEMMA LaterStays ==
  ASSUME TypeInv, OpenInv, NotYet, FindInv, [Next]_vars
  PROVE  /\ \A j : Deleted(j) => Deleted(j)'
         /\ \A r \in Requests : order[r].op \in FollowUps /\ call'[r] = call[r] => Later(r)'
<1>1. /\ ring' = ring
      /\ \A s \in Requests :
           /\ order[s].op # "none" => order'[s] = order[s]
           /\ call[s].outcome # "none" =>
                call'[s] = call[s] /\ resolving'[s].tenant = resolving[s].tenant
  BY AnsweredStays
<1>2. ASSUME NEW j, Deleted(j) PROVE Deleted(j)'
  <2>1. PICK d \in Requests :
          order[d] = [op |-> "delete", job |-> j] /\ call[d].outcome \in {"ok", "error"}
    BY <1>2 DEF Deleted
  <2>2. order'[d] = order[d] /\ call'[d] = call[d]
    BY <1>1, <2>1
  <2> QED
    BY <2>1, <2>2 DEF Deleted
<1>3. ASSUME NEW r \in Requests, order[r].op \in FollowUps, call'[r] = call[r] PROVE Later(r)'
  <2>0. PICK k \in Requests : k = order[r].job
    BY <1>3, OrderIsAbout DEF TypeInv
  <2>1. Later(r) /\ order'[r] = order[r]
    BY <1>1, <1>3 DEF FindInv, FollowUps
  <2>2. order'[k] = order[k] /\ call'[k] = call[k] /\ resolving'[k].tenant = resolving[k].tenant
    BY <1>1, <2>0, <2>1 DEF Later
  <2>3. call[r].outcome = "missing" => resolving'[r].tenant = resolving[r].tenant
    BY <1>1
  <2>4. Deleted(k) => Deleted(k)'
    BY <1>2
  <2> QED
    BY <1>1, <1>3, <2>0, <2>1, <2>2, <2>3, <2>4 DEF Later, Deleted
<1> QED
  BY <1>2, <1>3

\* Every step keeps the invariant.
LEMMA FindStep ==
  ASSUME TypeInv, OpenInv, NotYet, FindInv, [Next]_vars
  PROVE  FindInv'
<1>1. /\ ring' = ring
      /\ \A s \in Requests :
           /\ order[s].op # "none" => order'[s] = order[s]
           /\ call[s].outcome # "none" =>
                call'[s] = call[s] /\ resolving'[s].tenant = resolving[s].tenant
  BY AnsweredStays
<1>2. \A j : Deleted(j) => Deleted(j)'
  BY LaterStays
<1>3. ASSUME NEW j \in Requests, There(j), call[j].outcome # "none",
             j \in DOMAIN jobs => j \in DOMAIN jobs' /\ jobs'[j] = jobs[j]
      PROVE  There(j)'
  BY <1>1, <1>2, <1>3 DEF There
<1>4. /\ call \in [Requests -> [outcome : Outcome, worker : Workers]]
      /\ order \in [Requests -> Order] /\ DOMAIN jobs \subseteq Requests
  BY DEF TypeInv, CallsTyped
\* A request comes in, or is resolved, or ends with its gateway.
<1>5. ASSUME UNCHANGED <<call, jobs>>,
             \A r \in Requests : order'[r].op \in FollowUps /\ order'[r] # order[r] => Later(r)'
      PROVE  FindInv'
  <2>1. \A j \in DOMAIN jobs' : jobs'[j].worker = ring'[j]
    BY <1>1, <1>5 DEF FindInv
  <2>2. \A r \in Requests : order'[r].op \in FollowUps => Later(r)'
    BY <1>5, LaterStays
  <2>3. ASSUME NEW j \in Requests, order'[j].op = "submit", call'[j].outcome = "ok" PROVE There(j)'
    <3>1. call[j].outcome # "none" /\ call[j].outcome = "ok"
      BY <1>5, <2>3
    <3>2. order[j].op # "none"
      BY <3>1 DEF OpenInv
    <3>3. order[j].op = "submit"
      BY <1>1, <2>3, <3>2
    <3>4. There(j)
      BY <3>1, <3>3 DEF FindInv
    <3> QED
      BY <1>3, <1>5, <3>1, <3>4
  <2> QED
    BY <2>1, <2>2, <2>3 DEF FindInv
<1>6. ASSUME NEW r \in Requests, NEW op \in {"get", "cancel", "delete"}, NEW j \in Requests,
             FollowUp(r, op, j)
      PROVE  FindInv'
  <2>1. /\ order[j].op = "submit" /\ call[j].outcome = "ok" /\ resolving[r].pc = "idle"
        /\ order' = [order EXCEPT ![r] = [op |-> op, job |-> j]] /\ UNCHANGED <<call, jobs>>
    BY <1>6 DEF FollowUp, Lookup
  <2>2. call[r].outcome = "none" /\ order[r].op = "none"
    BY <2>1 DEF OpenInv, NotYet
  <2>3. Later(r)'
    <3>1. order'[r].job = j /\ order'[j] = order[j] /\ call'[j] = call[j] /\ call'[r].outcome = "none"
      BY <1>1, <1>4, <2>1, <2>2
    <3> QED
      BY <2>1, <3>1 DEF Later
  <2>4. \A s \in Requests \ {r} : order'[s] = order[s]
    BY <1>4, <2>1
  <2> QED
    BY <1>5, <2>1, <2>3, <2>4
<1>7. ASSUME NEW r \in Requests, NEW k \in Submissions, Submit(r, k) PROVE FindInv'
  <2>1. \A s \in Requests : order'[s] = order[s] \/ order'[s].op = "submit"
    BY <1>4, <1>7 DEF Submit
  <2> QED
    BY <1>5, <1>7, <2>1 DEF Submit, FollowUps
<1>8. CASE (\E r \in Requests : Resolve(r)) \/ (\E g \in Gateways : RestartGateway(g)) \/ UNCHANGED vars
  BY <1>5, <1>8 DEF Resolve, RestartGateway, gatewayVars, vars
\* A request is forwarded.
<1>9. ASSUME NEW r \in Requests, NEW outcome \in Outcome, NEW id \in Requests,
             Answer(r, outcome, id), UNCHANGED order,
             \A j \in DOMAIN jobs' : jobs'[j].worker = ring[j],
             order[r].op \in FollowUps => Later(r)',
             order[r].op = "submit" /\ outcome = "ok" => There(r)',
             \A j \in Requests \ {r} :
               order[j].op = "submit" /\ call[j].outcome = "ok" => There(j)'
      PROVE  FindInv'
  <2>1. /\ \A s \in Requests \ {r} : call'[s] = call[s]
        /\ call'[r].outcome = outcome
    BY <1>4, <1>9 DEF Answer
  <2>2. \A s \in Requests : order'[s].op \in FollowUps => Later(s)'
    BY <1>9, <2>1, LaterStays
  <2>3. \A j \in Requests : order'[j].op = "submit" /\ call'[j].outcome = "ok" => There(j)'
    BY <1>9, <2>1
  <2> QED
    BY <1>1, <1>9, <2>2, <2>3 DEF FindInv
<1>10. ASSUME NEW r \in Requests, SubmitJob(r) PROVE FindInv'
  <2>1. /\ order[r].op = "submit" /\ UNCHANGED <<order, resolving>>
        /\ \/ InsertJob(r) /\ Answer(r, "ok", r)
           \/ (InsertJob(r) \/ UNCHANGED jobs) /\ Answer(r, "error", r)
    BY <1>10 DEF SubmitJob
  <2>2. InsertJob(r) =>
          /\ DOMAIN jobs' = DOMAIN jobs \cup {r}
          /\ jobs'[r].tenant = resolving[r].tenant /\ jobs'[r].worker = ring[r]
          /\ \A j \in DOMAIN jobs \ {r} : jobs'[j] = jobs[j]
    BY DEF InsertJob, getWorkerClient
  <2>3. \A j \in DOMAIN jobs' : jobs'[j].worker = ring[j]
    BY <2>1, <2>2 DEF FindInv
  <2>4. InsertJob(r) => There(r)'
    BY <2>1, <2>2 DEF There
  <2>5. ASSUME NEW j \in Requests \ {r}, order[j].op = "submit", call[j].outcome = "ok" PROVE There(j)'
    BY <1>3, <2>1, <2>2, <2>5 DEF FindInv
  <2>6. order[r].op \notin FollowUps
    BY <2>1 DEF FollowUps
  <2> QED
    BY <1>9, <2>1, <2>3, <2>4, <2>5, <2>6 DEF Outcome
\* One that is told that the job is missing has looked for its row.
<1>11. ASSUME NEW r \in Requests, order[r].op \in FollowUps, UNCHANGED <<order, resolving>>,
              NEW outcome, Answer(r, outcome, order[r].job),
              outcome = "missing" => ~Found(r)
       PROVE  Later(r)'
  <2>0. PICK k \in Requests : k = order[r].job
    BY <1>11, OrderIsAbout DEF TypeInv
  <2>1. order[k].op = "submit" /\ call[k].outcome = "ok"
    BY <1>11, <2>0 DEF FindInv, Later
  <2>2. r # k
    BY <1>11, <2>0, <2>1 DEF FollowUps
  <2>3. call'[r].outcome = outcome /\ call'[r].worker = ring[k] /\ call'[k] = call[k]
    BY <1>4, <1>11, <2>0, <2>1, <2>2 DEF Answer, getWorkerClient
  <2>4. ASSUME outcome = "missing", resolving[r].tenant = resolving[k].tenant PROVE Deleted(k)'
    <3>1. There(k)
      BY <2>1 DEF FindInv
    <3>2. Deleted(k)
      BY <1>11, <2>0, <2>4, <3>1 DEF There, Found
    <3> QED
      BY <1>2, <3>2
  <2> QED
    BY <1>1, <1>11, <2>0, <2>1, <2>3, <2>4 DEF Later, Deleted
<1>12. ASSUME NEW r \in Requests, GetJob(r) \/ CancelJob(r) PROVE FindInv'
  <2>1. PICK outcome \in {"ok", "missing", "error"} :
          Answer(r, outcome, order[r].job) /\ (outcome = "missing" => ~Found(r))
    BY <1>12 DEF GetJob, CancelJob, Ask
  <2>2. order[r].op \in FollowUps /\ UNCHANGED <<order, resolving, jobs>>
    BY <1>12 DEF GetJob, CancelJob, Ask, FollowUps
  <2>3. Later(r)' /\ order[r].job \in Requests
    BY <1>11, <2>1, <2>2, OrderIsAbout DEF TypeInv
  <2>4. \A j \in Requests : order[j].op = "submit" /\ call[j].outcome = "ok" => There(j)'
    BY <1>3, <2>2 DEF FindInv
  <2> QED
    BY <1>9, <2>1, <2>2, <2>3, <2>4 DEF FindInv, FollowUps, Outcome
<1>13. ASSUME NEW r \in Requests, DeleteJob(r) PROVE FindInv'
  <2> DEFINE k == order[r].job
  <2>1. PICK outcome \in {"ok", "missing", "error"} :
          /\ Answer(r, outcome, k) /\ (outcome = "missing" => ~Found(r))
          /\ UNCHANGED jobs \/ (RemoveJob(r) /\ outcome # "missing")
    BY <1>13 DEF DeleteJob
  <2>2. order[r].op = "delete" /\ UNCHANGED <<order, resolving>>
    BY <1>13 DEF DeleteJob
  <2>3. Later(r)' /\ k \in Requests
    BY <1>11, <2>1, <2>2, OrderIsAbout DEF TypeInv, FollowUps
  <2>4. RemoveJob(r) => DOMAIN jobs' = DOMAIN jobs \ {k} /\ \A j \in DOMAIN jobs' : jobs'[j] = jobs[j]
    BY DEF RemoveJob, Restrict
  <2>5. \A j \in DOMAIN jobs' : jobs'[j].worker = ring[j]
    BY <2>1, <2>4 DEF FindInv
  <2>6. ASSUME NEW j \in Requests \ {r}, order[j].op = "submit", call[j].outcome = "ok" PROVE There(j)'
    <3>1. CASE UNCHANGED jobs \/ j # k
      BY <1>3, <2>1, <2>4, <2>6, <3>1 DEF FindInv
    <3>2. CASE RemoveJob(r) /\ outcome # "missing" /\ j = k
      <4>1. order'[r] = [op |-> "delete", job |-> k]
        BY <2>2, OrderIsAbout DEF TypeInv
      <4>2. call'[r].outcome \in {"ok", "error"}
        BY <1>4, <2>1, <3>2 DEF Answer
      <4> QED
        BY <3>2, <4>1, <4>2 DEF There, Deleted
    <3> QED
      BY <2>1, <3>1, <3>2
  <2> QED
    BY <1>9, <2>1, <2>2, <2>3, <2>5, <2>6 DEF FollowUps, Outcome
<1> QED
  BY <1>6, <1>7, <1>8, <1>10, <1>12, <1>13 DEF Next, Serve

\* A job whose submission was answered is found by every later request of its tenant until one
\* of them deletes it, and at the worker that has its row: gateways agree on the worker because
\* they route by the job's ID (cmd/gateway/service/handlers.go), also after a restart.
THEOREM FollowUpsFind == Spec => []FollowUpFindsJob
<1>1. Init => NotYet /\ FindInv
  BY DEF Init, DirectoryInit, NotYet, FindInv, FollowUps
<1>2. TypeInv /\ FindInv => FollowUpFindsJob
  <2> SUFFICES ASSUME TypeInv, FindInv, NEW r \in Requests, order[r].op \in FollowUps
               PROVE  /\ call[r].outcome = "missing"
                         /\ resolving[r].tenant = resolving[order[r].job].tenant
                         => \E d \in Requests \ {r} :
                              /\ order[d] = [op |-> "delete", job |-> order[r].job]
                              /\ call[d].outcome \in {"ok", "error"}
                      /\ order[r].job \in DOMAIN jobs /\ call[r].outcome = "ok" =>
                           call[r].worker = jobs[order[r].job].worker
    BY DEF FollowUpFindsJob, FollowUps
  <2>1. Later(r)
    BY DEF FindInv
  <2>2. order[r].job \in DOMAIN jobs => jobs[order[r].job].worker = ring[order[r].job]
    BY DEF FindInv
  <2> QED
    BY <2>1, <2>2 DEF Later, Deleted
<1> QED
  BY <1>1, <1>2, TypeInvariant, OpenInvariant, AnsweredStays, FindStep, PTL DEF Spec
=============================================================================
