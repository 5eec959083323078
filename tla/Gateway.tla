------------------------------ MODULE Gateway ------------------------------
(***************************************************************************)
(* The gateways' job requests (cmd/gateway/service/handlers.go): after its *)
(* tenant is resolved a request is forwarded to the worker that the hash   *)
(* ring names for the job.                                                 *)
(*                                                                         *)
(* The worker's handler, which JobService models call by call, is one step *)
(* here: it stores, finds or removes the row of the job.  Clients repeat a *)
(* submission that failed or was not answered, and ask about jobs they     *)
(* were given the ID of.                                                   *)
(***************************************************************************)
EXTENDS TenantDirectory

CONSTANTS
  Workers,       \* worker addresses, the same list in every gateway
  Submissions    \* what clients want to submit, by the job_id they choose

VARIABLES
  ring,    \* the worker that the consistent hash gives each ID
  order,   \* what each request asks for
  call,    \* the forwarded call of each request: its outcome and its worker
  jobs     \* rows of Jobs: tenant, submission and worker of each job ID

gatewayVars == <<ring, order, call, jobs>>
vars == <<directoryVars, gatewayVars>>

Order ==
  [op : {"none"}] \cup [op : {"submit"}, job_id : Submissions]
  \cup [op : {"get", "cancel", "delete"}, job : Requests]
Outcome == {"none", "ok", "error", "missing"}

TypeOK ==
  /\ DirectoryTypeOK
  /\ ring \in [Requests -> Workers]
  /\ order \in [Requests -> Order]
  /\ call \in [Requests -> [outcome : Outcome, worker : Workers]]
  /\ DOMAIN jobs \subseteq Requests
  /\ \A j \in DOMAIN jobs :
       jobs[j] \in [tenant : Requests, job_id : Submissions, worker : Workers]

Init ==
  /\ DirectoryInit
  /\ ring \in [Requests -> Workers]
  /\ order = [r \in Requests |-> [op |-> "none"]]
  /\ call = [r \in Requests |-> [outcome |-> "none", worker |-> ring[r]]]
  /\ jobs = [j \in {} |-> {}]

Resolved(r) == resolving[r].pc = "resolved"
Failed(r) == resolving[r].pc = "failed" \/ call[r].outcome = "error"

\* A client repeats a submission only when all it has sent has failed.
Submit(r, k) ==
  /\ \A s \in Requests : order[s] = [op |-> "submit", job_id |-> k] => User(s) = User(r) /\ Failed(s)
  /\ Lookup(r)
  /\ order' = [order EXCEPT ![r] = [op |-> "submit", job_id |-> k]]
  /\ UNCHANGED <<ring, call, jobs>>

\* It knows a job by the answer to its submission.
FollowUp(r, op, j) ==
  /\ order[j].op = "submit" /\ call[j].outcome = "ok" /\ User(j) = User(r)
  /\ Lookup(r)
  /\ order' = [order EXCEPT ![r] = [op |-> op, job |-> j]]
  /\ UNCHANGED <<ring, call, jobs>>

Resolve(r) == getOrCreateTenant(r) /\ UNCHANGED gatewayVars

----------------------------------------------------------------------------
\* The routing key is the job ID.
getWorkerClient(id) == ring[id]

Answer(r, outcome, id) ==
  call' = [call EXCEPT ![r] = [outcome |-> outcome, worker |-> getWorkerClient(id)]]

\* Mutant: a submission is routed by its tenant.
InsertAtTenantsWorker(r) ==
  jobs' = [j \in DOMAIN jobs \cup {r} |->
    IF j = r THEN [tenant |-> resolving[r].tenant, job_id |-> order[r].job_id,
                   worker |-> getWorkerClient(resolving[r].tenant)] ELSE jobs[j]]

\* The row that the worker inserts for a submission.
InsertJob(r) ==
  jobs' = [j \in DOMAIN jobs \cup {r} |->
    IF j = r THEN [tenant |-> resolving[r].tenant, job_id |-> order[r].job_id,
                   worker |-> getWorkerClient(r)] ELSE jobs[j]]

\* SubmitJob draws a job ID of its own, whatever job_id the client sent.
SubmitJob(r) ==
  /\ Resolved(r) /\ order[r].op = "submit" /\ call[r].outcome = "none"
  /\ \/ InsertJob(r) /\ Answer(r, "ok", r) /\ NoMishap
     \/ (InsertJob(r) \/ UNCHANGED jobs) /\ Answer(r, "error", r) /\ Mishap
  /\ UNCHANGED <<tenants, oauthToTenant, mu, resolving, ring, order>>

Found(r) ==
  order[r].job \in DOMAIN jobs /\ jobs[order[r].job].tenant = resolving[r].tenant

\* The worker reads the row by tenant and job ID, and leaves it there.
Ask(r, op) ==
  /\ Resolved(r) /\ order[r].op = op /\ call[r].outcome = "none"
  /\ \/ Answer(r, IF Found(r) THEN "ok" ELSE "missing", order[r].job) /\ NoMishap
     \/ Answer(r, "error", order[r].job) /\ Mishap
  /\ UNCHANGED <<tenants, oauthToTenant, mu, resolving, ring, order, jobs>>

GetJob(r) == Ask(r, "get")
CancelJob(r) == Ask(r, "cancel")

RemoveJob(r) == jobs' = Restrict(jobs, DOMAIN jobs \ {order[r].job})

DeleteJob(r) ==
  /\ Resolved(r) /\ order[r].op = "delete" /\ call[r].outcome = "none"
  /\ \/ Found(r) /\ RemoveJob(r) /\ Answer(r, "ok", order[r].job) /\ NoMishap
     \/ ~Found(r) /\ UNCHANGED jobs /\ Answer(r, "missing", order[r].job) /\ NoMishap
     \/ /\ (Found(r) /\ RemoveJob(r)) \/ UNCHANGED jobs
        /\ Answer(r, "error", order[r].job) /\ Mishap
  /\ UNCHANGED <<tenants, oauthToTenant, mu, resolving, ring, order>>

\* A restart ends the requests that are not answered.
Open == {r \in Requests : order[r].op # "none" /\ call[r].outcome = "none"}
RestartGateway(g) ==
  /\ Restart(g, Open)
  /\ UNCHANGED gatewayVars

Serve(r) == Resolve(r) \/ SubmitJob(r) \/ GetJob(r) \/ CancelJob(r) \/ DeleteJob(r)

Next ==
  \/ \E r \in Requests :
       \/ \E k \in Submissions : Submit(r, k)
       \/ \E op \in {"get", "cancel", "delete"}, j \in Requests : FollowUp(r, op, j)
       \/ Serve(r)
  \/ \E g \in Gateways : RestartGateway(g)

Spec == Init /\ [][Next]_vars

\* A goroutine runs while nothing blocks it; calls return, with an error at worst.
FairSpec == Spec /\ \A r \in Requests : WF_vars(Serve(r))

----------------------------------------------------------------------------
\* A job whose submission was answered is found by every later request of its tenant
\* until one of them deletes it, and it is asked for at the worker that took its submission.
FollowUpFindsJob ==
  \A r \in Requests : order[r].op \in {"get", "cancel", "delete"} =>
    /\ call[r].outcome = "missing" /\ resolving[r].tenant = resolving[order[r].job].tenant =>
         \E d \in Requests \ {r} : order[d] = [op |-> "delete", job |-> order[r].job]
                                   /\ call[d].outcome \in {"ok", "error"}
    /\ order[r].job \in DOMAIN jobs /\ call[r].outcome = "ok" =>
         call[r].worker = jobs[order[r].job].worker

\* No request is left behind a mutex that is never released.
EveryRequestEnds ==
  \A r \in Requests : order[r].op # "none" ~> Failed(r) \/ call[r].outcome # "none"
=============================================================================
