-------------------------- MODULE TenantDirectory --------------------------
(***************************************************************************)
(* The gateways' directory of tenants (cmd/gateway/service/oauth.go): the  *)
(* table Tenants, which all gateway processes share, and the map from user *)
(* IDs to tenants that each process keeps in front of it.                  *)
(*                                                                         *)
(* A request is resolved by a goroutine of its own.  A step is one query   *)
(* or write of the database, or one access to the map under its mutex.  A  *)
(* request draws at most one new tenant ID (a UUID), and stands for it.    *)
(***************************************************************************)
EXTENDS Naturals, Functions

CONSTANTS
  UserIds, Providers,  \* an identity is a user ID at an OAuth provider
  Gateways,     \* gateway processes
  Requests,     \* requests, and the UUIDs they draw
  NoRequest,    \* the mutex is free; no tenant yet
  MaxMishaps,   \* bound: calls that fail or whose answer is lost
  MaxRestarts   \* bound: gateways that are restarted

ASSUME DirectoryAssumption ==
  NoRequest \notin Requests /\ MaxMishaps \in Nat /\ MaxRestarts \in Nat

VARIABLES
  tenants,        \* rows of Tenants: the identity of each tenant ID
  oauthToTenant,  \* each gateway's map from user IDs to tenant IDs
  mu,             \* who holds each gateway's mutex for writing
  resolving,      \* where each request is in getOrCreateTenant, and its tenant
  mishaps, restarts

directoryVars == <<tenants, oauthToTenant, mu, resolving, mishaps, restarts>>

Users == [id : UserIds, provider : Providers]

Resolving ==
  [pc : {"idle", "query", "store", "lock", "insert", "resolved", "failed"},
   gateway : Gateways, user : Users, tenant : Requests \cup {NoRequest}]

DirectoryTypeOK ==
  /\ DOMAIN tenants \subseteq Requests
  /\ \A t \in DOMAIN tenants : tenants[t] \in Users
  /\ DOMAIN oauthToTenant = Gateways
  /\ \A g \in Gateways :
       /\ DOMAIN oauthToTenant[g] \subseteq UserIds
       /\ \A i \in DOMAIN oauthToTenant[g] : oauthToTenant[g][i] \in Requests
  /\ mu \in [Gateways -> Requests \cup {NoRequest}]
  /\ resolving \in [Requests -> Resolving]
  /\ mishaps \in 0..MaxMishaps /\ restarts \in 0..MaxRestarts

DirectoryInit ==
  /\ tenants = [t \in {} |-> {}]
  /\ oauthToTenant = [g \in Gateways |-> [i \in {} |-> {}]]
  /\ mu = [g \in Gateways |-> NoRequest]
  /\ resolving \in [Requests -> {[pc |-> "idle", gateway |-> g, user |-> u,
                                  tenant |-> NoRequest] : g \in Gateways, u \in Users}]
  /\ mishaps = 0 /\ restarts = 0

Mishap == mishaps < MaxMishaps /\ mishaps' = mishaps + 1 /\ UNCHANGED restarts
NoMishap == UNCHANGED <<mishaps, restarts>>

At(r) == resolving[r].gateway
User(r) == resolving[r].user

\* The map is keyed by the user ID alone.
Cached(r) == User(r).id \in DOMAIN oauthToTenant[At(r)]
CachedTenant(r) == oauthToTenant[At(r)][User(r).id]
Cache(r, t) ==
  oauthToTenant' = [oauthToTenant EXCEPT ![At(r)] =
    [i \in DOMAIN @ \cup {User(r).id} |-> IF i = User(r).id THEN t ELSE @[i]]]

Free(r) == mu[At(r)] = NoRequest
Unlock(r) == mu' = [mu EXCEPT ![At(r)] = NoRequest]
Goto(r, pc, t) == resolving' = [resolving EXCEPT ![r].pc = pc, ![r].tenant = t]

----------------------------------------------------------------------------
\* getOrCreateTenant

\* The fast path, under the read lock.
Lookup(r) ==
  /\ resolving[r].pc = "idle" /\ Free(r)
  /\ \/ Cached(r) /\ Goto(r, "resolved", CachedTenant(r))
     \/ ~Cached(r) /\ Goto(r, "query", NoRequest)
  /\ NoMishap /\ UNCHANGED <<tenants, oauthToTenant, mu>>

\* Mutant: the query forgets one of its two conditions.
AnyTenant(u) == {t \in DOMAIN tenants : tenants[t].provider = u.provider}

\* GetTenantByOAuth: the rows of the identity, of which LIMIT 1 takes any.
TenantsByOAuth(u) == {t \in DOMAIN tenants : tenants[t] = u}

\* Mutant: no row is taken for a row.
QueryIgnoresNil(r) ==
  /\ resolving[r].pc = "query"
  /\ \E t \in TenantsByOAuth(User(r)) \cup {NoRequest} : Goto(r, "store", t)
  /\ NoMishap /\ UNCHANGED <<tenants, oauthToTenant, mu>>

Query(r) ==
  /\ resolving[r].pc = "query"
  /\ \/ \E t \in TenantsByOAuth(User(r)) : Goto(r, "store", t) /\ NoMishap
     \/ TenantsByOAuth(User(r)) = {} /\ Goto(r, "lock", NoRequest) /\ NoMishap
     \/ Goto(r, "failed", NoRequest) /\ Mishap
  /\ UNCHANGED <<tenants, oauthToTenant, mu>>

\* The row that was found goes into the map, over whatever is there by now.
Store(r) ==
  /\ resolving[r].pc = "store" /\ Free(r)
  /\ Cache(r, resolving[r].tenant)
  /\ Goto(r, "resolved", resolving[r].tenant)
  /\ NoMishap /\ UNCHANGED <<tenants, mu>>

\* Mutant: no second look at the map.
LockOnly(r) ==
  /\ resolving[r].pc = "lock" /\ Free(r)
  /\ Goto(r, "insert", NoRequest) /\ mu' = [mu EXCEPT ![At(r)] = r]
  /\ NoMishap /\ UNCHANGED <<tenants, oauthToTenant>>

\* The write lock, and the second look at the map.
Lock(r) ==
  /\ resolving[r].pc = "lock" /\ Free(r)
  /\ \/ Cached(r) /\ Goto(r, "resolved", CachedTenant(r)) /\ UNCHANGED mu
     \/ ~Cached(r) /\ Goto(r, "insert", NoRequest) /\ mu' = [mu EXCEPT ![At(r)] = r]
  /\ NoMishap /\ UNCHANGED <<tenants, oauthToTenant>>

\* InsertTenant: the key is the new UUID, so that it never meets another row.
InsertTenant(r) == tenants' = [t \in DOMAIN tenants \cup {r} |-> IF t = r THEN User(r) ELSE tenants[t]]

\* Mutant: the error return leaves the mutex locked.
InsertKeepsLock(r) ==
  /\ resolving[r].pc = "insert"
  /\ \/ InsertTenant(r) /\ Cache(r, r) /\ Goto(r, "resolved", r) /\ Unlock(r) /\ NoMishap
     \/ /\ InsertTenant(r) \/ UNCHANGED tenants
        /\ Goto(r, "failed", NoRequest) /\ Mishap /\ UNCHANGED <<oauthToTenant, mu>>

\* An error may be of a row that was written.
Insert(r) ==
  /\ resolving[r].pc = "insert"
  /\ \/ InsertTenant(r) /\ Cache(r, r) /\ Goto(r, "resolved", r) /\ NoMishap
     \/ /\ InsertTenant(r) \/ UNCHANGED tenants
        /\ Goto(r, "failed", NoRequest) /\ Mishap /\ UNCHANGED oauthToTenant
  /\ Unlock(r)

getOrCreateTenant(r) == Query(r) \/ Store(r) \/ Lock(r) \/ Insert(r)

\* A gateway is restarted: its map, its mutex and its open requests are gone.
Restart(g, open) ==
  /\ restarts < MaxRestarts
  /\ restarts' = restarts + 1
  /\ oauthToTenant' = [oauthToTenant EXCEPT ![g] = [i \in {} |-> {}]]
  /\ mu' = [mu EXCEPT ![g] = NoRequest]
  /\ resolving' = [r \in Requests |-> IF r \in open /\ At(r) = g
                                      THEN [resolving[r] EXCEPT !.pc = "failed"] ELSE resolving[r]]
  /\ UNCHANGED <<tenants, mishaps>>

----------------------------------------------------------------------------
\* The requests with the user ID of a request that have come to its gateway: the map
\* takes them for one user, whatever providers they name.
Alike(r) == {s \in Requests : /\ resolving[s].pc # "idle"
                              /\ At(s) = At(r) /\ User(s).id = User(r).id}
Mixed(r) == \E s \in Alike(r) : User(s) # User(r)

\* Every request is served with a tenant that is in the table, and that belongs to an
\* identity with its user ID that has come to the same gateway: to its own identity, if
\* no request to that gateway has named another provider with the user ID.
TenantIsTheirs ==
  \A r \in Requests : resolving[r].pc = "resolved" =>
    /\ resolving[r].tenant \in DOMAIN tenants
    /\ \E s \in Alike(r) : tenants[resolving[r].tenant] = User(s)

\* "Each tenant (identified by a stable TenantId)": requests of a user ID that all come to
\* one gateway are served with one tenant, as long as no call fails: also the first ones
\* when they come together.  After a restart, if the user ID has come with one provider.
OneGatewayIsStable ==
  /\ \A r, s \in Requests : At(r) = At(s)
  /\ mishaps = 0
  => \A r, s \in Requests :
       /\ resolving[r].pc = "resolved" /\ resolving[s].pc = "resolved"
       /\ User(r).id = User(s).id
       /\ restarts = 0 \/ ~Mixed(r)
       => resolving[r].tenant = resolving[s].tenant
=============================================================================
