# Jennah: models, checks and proofs

TLA+ specifications of the job service in this repository, of its gateways, its
notifications and its command line client, of what a submission becomes on its way
to the cloud, and of the distributed jobs that run there; the TLC configurations that
check them on small instances, and TLAPS proofs of the properties that matter most, for
any number of processes, requests, failures and crashes.

    tlc -config batch_faults.cfg MCJobService.tla      # model-check a run
    tlapm JobServiceProofs.tla                         # check the proofs of a module

PROJECT.json lists the runs, the lines every definition stands for ("map"), the
mutants that show that each property can fail, the hazards and the theorems.

## 1. The system

Jennah runs containers as batch jobs on Google Cloud. A *gateway* authenticates
a tenant and forwards the request to one of a fleet of *workers*, chosen by a
consistent-hash ring over the job ID. A worker validates a submission, writes a
row to Cloud Spanner, creates a Cloud Batch or Cloud Run job, stores its path in
the row and polls it until it ends. The end is recorded in an audit table and
published to a Pub/Sub topic of the tenant, from where a *consumer* service
makes notifications of it.

| component | state it keeps | operations | talks to |
|---|---|---|---|
| job store (`internal/database/jobs.go`, `transitions.go`) | tables Jobs and JobStateTransitions | insert, blind status updates, lease transaction, delete, list active | Spanner |
| cloud providers (`internal/cloudexec/gcp`) | the cloud resource | submit, status, cancel, delete | Cloud Batch, Cloud Run |
| pollers and reconciler (`cmd/worker/service/pollers.go`) | map of pollers, each poller's last status and failure count | start, poll, stop, claim leases | store, providers, notifier |
| handlers (`cmd/worker/service/handlers.go`) | local to each request | SubmitJob, CancelJob, DeleteJob, GetJob, ListJobs | store, providers, pollers, notifier |
| worker process (`cmd/worker/cmd/serve.go`) | the process | start and resume, graceful shutdown | all of the above |
| gateway (`cmd/gateway`) | tenant cache, ring, worker clients | forward requests, resolve the tenant | workers, store |
| tenant directory (`cmd/gateway/service/oauth.go`, `internal/database/tenants.go`) | table Tenants, each gateway's cache | get or create a tenant | Spanner |
| router and navigator (`internal/router`, `internal/navigator`, `internal/config`) | none (profiles read at start) | classify a job, build its configuration | Gemini |
| notifier (`internal/notifier`) | cache of topics | create topic and subscription, publish | Pub/Sub |
| consumer and feed (`cmd/consumer`, `internal/database/notifications.go`) | table Notifications | save, list, count, acknowledge | Pub/Sub, Spanner |
| distributed workload demo (`internal/demo`, `cmd/demo-job`, `cmd/aggregator`) | metrics files | divide a file, process a chunk, aggregate | GCS |
| command line client (`cmd/cli`) | token file | one request per command | gateway |

### What is hard

* **Shared rows, blind writes.** Handlers on one worker and pollers on several
  write the status of the same row, each from something it read a few calls
  earlier. No write compares the status it replaces.
* **Leases.** A job is polled by the worker that holds its lease. The lease is
  taken in a transaction that Spanner may run twice; the preferred worker takes
  it from a live owner; and the write a lease was checked for comes calls later.
* **A map and its goroutines.** Pollers register and unregister by key, stop at
  a select that may take the ticker instead, and give up and are replaced.
* **Chains of calls.** Every handler is four to six calls to three services. Any
  of them can fail, take effect and still fail, or be the last one before a
  crash. Errors after the status write are only logged.
* **Two sources of truth.** The cloud resource exists before its path is stored
  and may outlive the row; it disappears before the row is deleted.
* **Several readers of one request.** The gateway's router, the worker's, the
  navigator, the lookup of the input size and the container each read the same
  environment variables, by rules of their own (case of names, values that count as
  true, text that does not parse), and resources are merged after they were judged.
* **Instances that never talk.** The instances of a distributed job divide an
  input each on its own, from a size each may look up at its own time, and an
  aggregator adds up whatever files it finds.
* **Commands that die in between.** A login writes a file, asks the gateway and
  writes it again; submissions are repeated, deletions go unanswered, and several
  terminals share one file.

PROJECT.json lists each of these at its line under "hazards".

### What makes it correct

For a job: a status that a tenant saw as final does not change afterwards,
except by a writer that had decided before (and then not again); what the row
and the events say happened did happen at the resource; a terminal status is
announced and audited; the outcome of a job that a worker knows of reaches its
row whatever fails in between; one worker does not poll a job twice, and never
blocks itself from polling it. For the other components: one tenant for one
user ID at one gateway; an event that was published becomes one notification, which stays read once
it was read and no message of the event can come again. A job that is split into tasks runs where tasks can run, within the
limits that were stated, and the row names its own resource and the provider that
has it. The instances of a distributed job read everything once, whatever they know
and when. What a command tells its user is what happened.

## 2. The modules

| module | models | extends |
|---|---|---|
| `JobStore` | the row, its lease, the transitions, each committed mutation; failing calls | |
| `CloudJob` | the resource behind the job, what the providers do with it and see of it | `JobStore` |
| `PollerPool` | pollers, the map of pollers, the lease reconcilers | `CloudJob` |
| `JobService` | the handlers, the worker processes, the whole fleet; all properties | `PollerPool` |
| `JobRecord` | abstract: the status of a job as a tenant sees it | |
| `JobServiceProofs` | theorems about `JobService`: types, final statuses, the refinement | `JobService`, `TLAPS` |
| `PollingProofs` | theorems about who polls, what is announced and what is recorded | `JobServiceProofs` |
| `MCJobService` | the instance the runs share | `JobService` |
| `Notifier` | PubSubNotifier in several workers: a tenant's topic, its subscription, publishing | |
| `Notifications` | delivery to the consumer, the rows of the feed, acknowledgement; all properties | `Notifier` |
| `EventRecord` | abstract: the notification of an event as a tenant sees it | |
| `NotificationsProofs`, `MCNotifications` | theorems; instances | `Notifications` |
| `TenantDirectory` | getOrCreateTenant in several gateways over the table Tenants | |
| `Gateway` | submissions and requests about jobs, forwarded over the ring; all properties | `TenantDirectory` |
| `GatewayProofs`, `MCGateway` | theorems; instances | `Gateway` |
| `Routing` | pure operators: router, navigator, resources, names, input size | |
| `WorkerConfig` | pure operators: the worker's environment, its validation, the providers that come of it | |
| `Submission` | a submission from the gateway to the created resource, for every request; all properties | `Routing`, `WorkerConfig` |
| `SubmissionProofs`, `MCSubmission` | theorems; requests, names and environments for the run | `Submission` |
| `Chunker` | pure operators: ranges of bytes or records | |
| `DistributedWork` | instances, their retries and files, the aggregator; all properties | `Chunker` |
| `ChunkerProofs`, `DistributedWorkProofs`, `MCDistributedWork` | theorems; texts for the run | `Chunker`, `DistributedWork` |
| `Client` | the commands, the file they share, the calls they make; all properties | `Routing` |
| `ClientProofs` | theorems about `Client` | `Client`, `TLAPS` |
| `MCClient` | environments and job files for the run | `Client` |

The groups meet at narrow places. `JobService` publishes an event by a call
that succeeds or fails; `Notifications` starts from such calls. `Gateway` has the
worker's handlers as single steps; `JobService` has them call by call, and
assumes what `Gateway` provides: one submission for each job ID, and requests
about a job at the worker that took its submission (`FollowUpFindsJob`).
`Submission` is the handler of `JobService` again, alone in its worker but with the
content of requests; `Client` uses `Routing` to say what its submissions ask for.

### The job

**One job.** Every database operation is keyed by (TenantId, JobId), every cloud
call by the path of one resource, and every entry of the map of pollers by one
job, so jobs interact only through the time they take. The modules model one.

**State.** `row` is the row of Jobs (`NoRow` if there is none) reduced to what
decisions are taken from: Status, whether GcpBatchJobPath is set, OwnerWorkerId,
PreferredWorkerId, and LeaseExpiresAt as "null", "live" or "expired". `trail` is
the set of terminal statuses among the job's transitions, `published` the set of
statuses events were published with. `cloud` is the resource's own state and
`reached` (a history variable) the final states it has been in. A poller, a
reconciler, the submission and each cancel or delete request are records with a
program counter `pc` naming the call they make next and the locals that
are used later. `registry[w]` is worker w's entry in the map of pollers.

**Steps.** A step is one call to Spanner, the cloud or Pub/Sub together with the
local code around it, or one critical section of `pollersMutex`. Everything
any other goroutine, worker or service does may fall between two steps. Sleeping
and the ticker are not modelled as time: a poller at the select may take its
ticker at any moment, also when its `done` channel is closed, because select
chooses.

**Failures.** `Outage` is a call that fails without effect, `LostReply` one
that took effect and reported an error, `ClaimAborted` a lease transaction that
is run again, `Late` a lease renewal that comes too late. Each costs one of
`MaxFaults`. `Crash` kills a process and everything in it, `Shutdown` and
`ShutdownDone` are SIGTERM and the exit after server.Shutdown, `Restart` starts
a process under the same WORKER_ID. The reconciler's first pass on
start is the same `ReconcileStep` as later ones.

**What the cloud does.** Cloud Batch cancels by deleting, and a job being
deleted reads as CANCELLED (`ObservedStatus`); Cloud Run cancels the execution,
which then reads as cancelled or failed. `InitialStatus` is the status
SubmitJob stores: Cloud Batch's answer, or RUNNING for Cloud Run.

**What is left out of these modules.** Statuses a provider cannot name and that
mapBatchStatusToDBStatus turns into PENDING; the choice of provider from the
stored service or tier and the fallback from Cloud Run to Cloud Batch; the
content of rows that no decision reads; GetJob and ListJobs, which change
nothing. The state "SCHEDULED" is left out of instances where it only
multiplies states: it is a stage between PENDING and RUNNING that no code
tells from PENDING.

### Notifications

One tenant: topics, subscriptions, the map's entries and the rows of Notifications
are all per tenant. `publisher[e]` is the goroutine that publishes event e, at the
call it makes next; `mu[w]` is who holds the write lock of worker w's notifier,
which it keeps during the calls to Pub/Sub, and `topics[w]` whether the topic is
in its map. `accepted`, `sent` and `queue` are Pub/Sub's side: what it
acknowledged, what the subscription received (nothing while there is none), and
what it still has to deliver. A message can be published twice under two IDs (the
client library's retry), delivered again (`Answer` is lost or late), and pushed
again while an earlier push of it is handled (`Receive`), each costing one of
`MaxRepeats`. `pushing` holds the pushes that the consumer handles, which are
goroutines of its HTTP server and know nothing of each other, and `saved` those of them
whose row is written; a push may end in an error although it was. `feed` and `read` are
the rows. All errors of a publication are only logged: an event whose
publication failed is lost, which no sentence of the code denies, and no property
speaks of it.

`EventRecord` is what a tenant may rely on: of each event its stage (none, retained by
Pub/Sub, unread, read), and whether it is outstanding, that is, whether one of its messages
is not acknowledged or one of its pushes still handled. An event stops being
outstanding only when it is in the feed; while it is, it may become unread again; afterwards only
its reader changes it. `eventStage` and `unsettled` of `Notifications` are the refinement mapping.

### Submissions

`Routing` has one operator for each function of the router, the navigator and the
size lookup, under the function's name. A variable of the environment is a partial
function from spellings of its name ("exact" and others) to values, since the
router and the size lookup ignore case in names and the rest of the program does not.
Where the code ranges over a map, any of several values may be the one that counts, and the
operator returns the set of possible results. Numbers that are not positive also
stand for text that does not parse: every reader treats the two alike.

`Submission` starts with a worker that reads its environment (`runServe`; of the
providers only Google's are registered, so that one set to aws or azure does not come up), then
takes each job through the gateway's classification (`Forward`, with any answer of
Gemini), the worker's size lookup, the insert, the navigator, the calls of the
provider and the two ways to write the row. Cloud Batch creates a job that runs, Cloud
Run creates it and runs it in a second call; each refuses a name in use. Names are a
pair of what comes of the user's name and eight digits of the job ID, which
`short` lets collide. A call that fails with or without effect costs one of `MaxMishaps`.
Fields that are passed through without a decision (image, commands, disks, networks,
labels) are left out, as are the built-in profiles, which are used only when there is no job
configuration file, and a file is always there (serve.go:106).

### Distributed jobs

The input is a sequence of newlines and other bytes, and a record a line that is not
empty. `Submit` starts the instances of a job with the size that the worker put
into their environment, which may be 0 (none) or one the user made up. An instance
looks up the size if it has none (`ensureInputDataSize`), takes its range, opens
and reads it (`processReader`, `processRecords`) and writes its file
(`WriteMetrics`). Opening a range and writing to a bucket are retried as
HandleWithRetry does, reading and looking up are not. A range that begins beyond the end cannot
be opened in a bucket, and is read as empty in a local file. `read` is what an instance has
read (history). Files are named by instance number and survive the submission. The
aggregator may run at any time and may fail to read any of them; over a bucket it always
fails (gcs.go:190 compares with the wrong error). Inputs that are
JSON, whose records are values, are left out, with words and sentiment, which are
computations on one text.

### The client

A command is a process with a program counter, and the file `config` is shared by all
commands of a user; it is emptied before it is written, so that a command that is
killed can leave it cut off. `jobs` is the gateway's list, and a call takes effect or
not and is answered or not. Tenants stand for the identities they belong to
(`TenantIsTheirs`; a user ID that comes with two providers is left out here). `Stop` is Ctrl+C or a kill at any step. Statuses are reduced to RUNNING
(every status that is no end), COMPLETED (success and failure) and CANCELLED.

### Gateways

A request draws at most one UUID for a tenant and one for a job, and stands
for both. `resolving[r]` follows it through getOrCreateTenant, with the map of its
gateway (`oauthToTenant`), the mutex (`mu`, held during InsertTenant) and the
table (`tenants`). Then SubmitJob, GetJob, CancelJob or DeleteJob forwards one call to
the worker that the ring names; `ring` is any function from IDs to workers, the
same everywhere, since all gateways are started with the same list. Of two equal
rows GetTenantByOAuth returns any (LIMIT 1 without an order). A call that fails,
with or without effect, costs one of `MaxMishaps`; that includes the 30 s timeout
of the worker client and a worker's own error. A client repeats a
submission only when all it has sent has failed. The branch of InsertTenant for
AlreadyExists is left out: it needs the same random UUID twice.

## 3. The properties and the runs

### Jobs

Safety, stated in `JobService`:

* `NoDeadRegistration`: the map never names a poller that ended. If it did,
  startJobPoller would refuse the job on that worker for ever.
* `OnePollerPerWorker`: while no request stopped a poller, a worker polls the
  job with one poller. (After a stop, two can exist: see section 4.)
* `OnlyStoredPathsArePolled`: when a poller has the job, or a reconciler is about to take
  it over, the resource was created, the submission is past storing the path, and the row
  has it (or was deleted); and a row has a path only when there is a resource.
* `NoFabricatedCompletion`: COMPLETED in the row or in an event was the
  resource's state at some time, through any chain of stale copies.
* `OutcomesAgree`: no job is announced both as completed and as failed.
* `Announced`, `Audited`: when nothing fails, a terminal status is published by
  whoever wrote it, and recorded before it is published.
* `SettledIsFinal` (action property): when no write that was decided on earlier
  is pending, a terminal status stays until the row is deleted: no poller,
  reconciler or request that comes later can change it.
* `ImplementsJobRecord` (refinement): with `status` the row's status and `open`
  "a write is pending", every behaviour is one of `JobRecord`, which
  says when a writer may come forward: only while the status is not final.

Liveness:

* `Reflected`: when a job's path is stored and its resource is in a final state, the
  row becomes terminal (or the row or the resource is deleted).

| run | instance | shows |
|---|---|---|
| `batch_faults` | Cloud Batch, 1 worker, 2 pollers, 1 request, 1 failing call, all statuses | type correctness, OutcomesAgree, OnlyStoredPathsArePolled, NoFabricatedCompletion, refinement |
| `run_shutdown` | Cloud Run, 1 worker, 2 pollers, 1 request, 1 shutdown | NoDeadRegistration, OnePollerPerWorker |
| `two_requests` | Cloud Batch, 1 worker, 2 pollers, 2 requests, no failure | Announced, Audited, SettledIsFinal |
| `failover` | Cloud Run, 2 workers, 2 pollers, 1 crash without restart | Reflected |
| `retries` | Cloud Batch, 1 worker, 1 poller, 2 failing calls, 1 crash, 1 shutdown, 2 attempts | Reflected |

Bounds. In `two_requests` the two requests can be exchanged (symmetry). Two
pollers are the fewest in which a stopped poller and its successor overlap; a
step that would need a third waits for a free one, so that three generations of
pollers are left to the theorems. One request is enough
for every race of a handler with the submission and the pollers, two for
requests against each other. One fault reaches each error path, two a poller
that gives up with `maxFailedAttempts = 2` (10 in the code). Two workers are
needed for a lease to change hands. Runs differ in which of these they allow
together, to stay within a few million states; the theorems cover
all of them together.

Deadlock checking is off in all runs because a job that ended, or events and
requests that were all served, leave nothing to do.

### Notifications

* `OneProcessRetains`: if one worker publishes all events, meets no failing call and
  is not killed, an event that Pub/Sub accepted was kept for the consumer: the mutex
  keeps its other publishers from finding the topic before the subscription is there.
  Without the condition this is `AcceptedIsRetained`, which two workers break.
* `OneNotificationPerEvent`: no event has two rows, however often it is published
  or delivered.
* `RetainedIsNotified` (liveness): what the subscription received gets into the feed.
* `ImplementsEventRecord`: every step is one of `EventRecord` or does not show there. Two
  properties about the same are stated and proved, and have no run of their own:
  `SavedBeforeAcked` (a message that has left the queue is in the feed), which the
  refinement rests on, and the action property `ReadStaysRead` (a notification that was read,
  of an event that is not outstanding, stays read, and the event does not become
  outstanding again), which follows from it.

| run | instance | shows |
|---|---|---|
| `delivery` | 2 workers, 2 events, 1 failing call, 1 killed worker, 1 repeated message or push | TypeOK, OneProcessRetains, OneNotificationPerEvent, RetainedIsNotified, ImplementsEventRecord |

The worker of each event is chosen initially, so that the run has both events at
one worker and at two. One event sets up the topic while the other waits for the
mutex, comes by the fast path or, at the other worker, finds the topic; one kill
and one failing call reach every way to leave the topic without its subscription.
The run uses no symmetry because of the liveness property.

### Gateways

* `TenantIsTheirs`: every request is served with a tenant that is in the table and
  belongs to an identity with its user ID that has come to the same gateway. That is its
  own identity if the user ID came there with one provider, and may be another provider's if
  not: the map is keyed by the user ID alone.
* `OneGatewayIsStable`: if all requests come to one gateway and no call fails, all
  requests of a user ID are served with the same tenant, at whatever provider they
  sign in; restarts included, if the user ID came with one provider. (A restart empties the map,
  and then the first request decides again.) Two gateways break it, and one
  gateway does if a call fails: an insert that was committed and reported as failed
  leaves a row that the map does not show, and a request that had queried before
  inserts a second one.
* `FollowUpFindsJob`: a job whose submission was answered is found by every later
  request that is given its tenant, until it is deleted, and is asked for at the worker that
  took its submission. (That worker has its poller until another one takes the lease, which
  `JobService` models.)
* `EveryRequestEnds` (liveness): the mutex is released on every way out.

| run | instance | shows |
|---|---|---|
| `gateways` | 2 gateways, 2 user IDs, 2 providers, 3 requests, 2 submissions, 2 workers, 1 failing call, 1 restart | TypeOK, TenantIsTheirs, OneGatewayIsStable, FollowUpFindsJob |
| `requests_end` | 1 gateway, 1 identity, 3 requests, 1 failing call, 1 restart | EveryRequestEnds |

Three requests are the fewest of which one inserts, one waits for the mutex and one
queries, or one submits, one deletes and one asks. The gateway and the identity of
each request are chosen initially. In `gateways` the members of each set can be
exchanged (symmetry); `requests_end` checks liveness and exchanges nothing. Gateways
share no mutex, so that one is enough for it.

### Submissions

* `CloudRunJobsFit`: what the navigator splits into tasks, in its reading of the
  environment, the router has sent to Cloud Batch, in its own; and a limit stated in a
  request is within the router's thresholds when the job is created on Cloud Run, after
  machine types and profiles were merged in.
* `ToldServiceIsActual`: the service named in the answer is the one that runs the job, unless
  Gemini classified it or a variable was sent in two spellings; for distributed jobs always.
* `ContainersKnowTheSize`: the containers of a distributed job over an object that is split by
  bytes, however its variables are spelt, are given a positive size; and they are given it under
  the name that they read, unless the client sent a size under another spelling. In that
  case the worker takes or corrects the variable that was sent, which no container reads (section 4).
* `PathLeadsToResource`: the path in a row is of a resource that was created for this job
  and started, also when names and digits of two jobs agree, and it is with the provider
  that a poller recovered from the row (by its tier) and a handler (by its service) ask.
* `FailureHasACause`: when no call fails, a worker with the required variables comes up, a
  submission with a row fails only for one of three reasons (a boot disk that is too small, a
  service that the environment does not turn on, a name in use), and what failed does not run.

| run | instance | shows |
|---|---|---|
| `submission` | 374 requests for one job, 25 pairs for two jobs, 7 environments, 2 assignments of short IDs, 1 failing call | TypeOK and all of the above |

The requests vary together what is read together: flag, count and parallelism in up to
eight spellings each; flag, mode, size and path; machine type, profile, disk and limits
at and above each threshold. Two jobs are enough for names to collide.

### Distributed jobs

* `RangesPartition`: ranges computed by instances at different times do not overlap and
  make up the whole, unless no size was given and the input is replaced in between.
* `EverythingReadOnce`: a job that succeeded has read every byte or record once.
* `CutLinesCountTwice`: the lines counted are those of the text, plus at most one for each cut.
* `AggregateIsWhole`: totals over the files of a job that succeeded are the whole input.
* `JobEnds` (liveness): retries come to an end.

| run | instance | shows |
|---|---|---|
| `distributed_work` | 1 or 3 instances, 3 texts, in a bucket or local, 2 submissions, 1 retry, 1 failing call, kill or replacement | TypeOK and all of the above |

The texts are one without a byte, one with fewer bytes than instances, and one in which
ranges begin at, end at and cut lines. Two submissions are enough for files to be left over.

### The client

* `LoginIsAllOrNothing`: a file without a tenant, or cut off, is there only while a login goes
  on, or after one was killed or could not write.
* `TenantIsOwn`: the tenant in the file is the one of the user in the file.
* `ReportsAreTrue`: a job that `delete` reports as deleted is gone, whatever calls failed. When
  `submit --wait` ends with success its job is over, or gone; unless the answer to the submission
  broke off, so that the command does not know its job (section 4).
* `InstancesAreTasks`: --instances arrives as tasks, at the service that has tasks,
  without losing the variables of the file.
* `EveryCommandEnds` (liveness).

| run | instance | shows |
|---|---|---|
| `client` | 2 commands of any kind, 2 accounts, with and without a user in the environment, 2 failing calls or kills | TypeOK and all of the above |

Two commands meet in every way that two processes can; the second of them can also follow
the first. Two mishaps lose an answer and then fail, or fail and then hide it.

### Fairness of the jobs' specifications

`FailoverSpec` assumes weak fairness of each poller, of each reconciler, of the
exit of a process that was told to stop, and of time (`LeaseStep`): goroutines
are scheduled, tickers fire, server.Shutdown has a timeout. `RestartSpec` adds
that a process that ended is started again, which Kubernetes does and
`failover` does without. Nothing is assumed of the resource, of requests or of
select. Calls fail at most `MaxFaults` times, so eventually they succeed: without
that no code could make progress.

One assumption deserves attention. While the owner of the lease is up and the
job is listed, a lease that expires counts as a fault (`Late`). With the
defaults (lease 30 s, polling and claiming every 5 s) an expiry is a delay of
more than 20 s. But nothing validates WORKER_LEASE_TTL_SECONDS and
WORKER_CLAIM_INTERVAL_SECONDS (serve.go:152), and when leases may expire before
their owner polls, `Reflected` fails: two workers take the lease from each other, and
each poller finds it lost and exits before it has asked the provider.

### Fairness of the others

`Notifications!FairSpec`: goroutines of the workers run (a step that waits for the mutex
needs it to be free), Pub/Sub goes on delivering what is not acknowledged (`Receive`), and the
consumer's handlers run, so that `Save` or `Answer` happens at last; failing and repeated
calls are bounded.
Acknowledging a notification is the tenant's choice and has no fairness.
`Gateway!FairSpec`: a request that was made is served as far as nothing blocks it,
and calls return, with an error at worst. InsertTenant is called with a context
without a deadline (oauth.go:31) while the mutex is held: a call that never
returned would stop every request of that gateway, and is excluded by this
assumption. Clients make requests or not as they like.
`DistributedWork!FairSpec`: Cloud Batch runs the instances it has started; mishaps are
bounded. `Client!FairSpec`: a command that was entered runs, calls return, and jobs end; a job that ran
for ever would be waited for.

## 4. Where the code and what is said of it disagree

`claim_without_lease` finds a counterexample of a few steps to the comment
"Returns true when caller becomes/continues owner" (jobs.go:292): the lease
transaction is aborted after it had decided to claim and declines the second time;
`claimed` (jobs.go:294) is still true.

The models contain these behaviours too, which have no run of their own:

* A job is cancelled before its path is stored (handlers.go:333): "cancelled" is
  answered, the submission goes on, writes RUNNING over CANCELLED, and the container runs.
* A second worker finds the topic and publishes before the first has created the
  subscription (notifier.go:98): the event is kept for nobody (`AcceptedIsRetained`).
* Two gateways insert a tenant each for one identity (oauth.go:77): the check for
  AlreadyExists looks at a key that was just drawn at random.
* A poller has decided on RUNNING or COMPLETED when a cancellation writes CANCELLED, and then
  writes over it (pollers.go:182): no write compares the status it replaces.
* A job is deleted before its path is stored (handlers.go:425): the row goes, the
  submission creates the resource, its path update fails, nobody knows the resource.
* A worker dies between the insert and the path update (handlers.go:217): the row
  stays PENDING and ListActiveJobs never lists it (jobs.go:259).
* A poller that returns deletes its successor's entry in the map (pollers.go:237); a
  cancellation does not reach that successor.
* A submission that fails writes FAILED without a transition (handlers.go:188, 217).
* The subscription cannot be created (notifier.go:119): the topic exists and is
  cached, so nobody tries again, and the tenant's events go nowhere.
* A message delivered again resets IsRead of a notification the tenant has read
  (notifications.go:37), although the comment on InsertNotification says that a row that is
  there is skipped (33-34). `EventRecord` says how far this goes: until the event's
  messages are acknowledged and their pushes have ended, and not after.
* The gateway's map is keyed by the user ID alone (oauth.go:35), the table by provider and user
  ID: the same ID at another provider gets the first one's tenant, until the gateway restarts
  and the other comes first.
* A submission is stored, its answer is lost, and the repetition becomes a second
  job: `job_id` is not read (gateway handlers.go:165).
* Jobs are routed by job ID (gateway handlers.go:166): two jobs of one user go to two workers.
* Gemini may call a job SIMPLE that has a machine type or limits above the thresholds
  (classifier.go:187); the answer to the client then names Cloud Run while the worker, which
  asks no model, uses Cloud Batch.
* A job without limits of its own but with the profile "xlarge" (or one of more than an hour)
  counts as simple, because the router sees only overrides (classifier.go:128).
* JENNAH_TASK_COUNT of 1 with JENNAH_PARALLELISM of 2 is routed to Cloud Batch as
  distributed and runs one task.
* If the Cloud Run clients cannot be created, the worker starts all the same and fails
  every simple job (serve.go:81). A configuration for Postgres or DynamoDB is valid and
  the worker cannot start with it (serve.go:49).
* RunJob fails after CreateJob: FAILED is stored, and the Cloud Run job stays behind.
* A size that the user gives (INPUT_DATA_SIZE) is believed: if it is too small, the end of
  the input is read by nobody; if it is too large, instances whose range begins beyond the end
  of an object fail, and those of a local file read nothing and succeed.
* A size that is sent under another spelling than INPUT_DATA_SIZE is taken as it is, or the
  size of the object is stored under that spelling (dwp_input_size.go:73-76); the
  containers read the exact name, find none and look it up by themselves.
* An object that is replaced while instances start is divided by two sizes (processor.go:223).
* A second submission with fewer instances leaves files of the first behind, and the
  aggregator adds them (processor.go:334); it cannot list a bucket at all (gcs.go:190).
* A login that is killed, or whose file cannot be written, leaves a file without a tenant
  or one that does not parse; the latter blocks the next login and also logout (login.go:386).
* Two logins at a time replace each other's file; a login in an environment that names another
  user stores that user's tenant (login.go:337).
* `submit --wait` repeats a list that fails for ever, and `delete` reports a failure if the
  list that would tell cannot be had.
* `submit --wait` is to "Block until the job completes" (submit.go:290). If the body of the answer
  to the submission breaks off, nobody notices (client.go:106, submit.go:174): there is
  no job ID, no job of the list has it, and the command reports Done! while its job runs.

## 5. The proofs

`JobServiceProofs` proves, for all constants that satisfy the assumptions
`StoreAssumption`, `ServiceAssumption`, `PollerAssumption`, `HomesAssumption`
and `ServiceBounds` (types, distinct null values, at least one home worker):

* `TypeCorrect`: `Spec => []TypeOK`. Inductive as it stands; among other things
  it says that `failedAttempts` stays below `maxFailedAttempts` in a poller that goes on.
* `NoDeadRegistrationHolds`: `Spec => []NoDeadRegistration`, with TypeOK.
* `Refinement`: `Spec => ImplementsJobRecord`. The mapping is
  `recordStatus` and `WritePending`. One lemma per group of steps shows that
  a step maps to one of JobRecord's actions or to a stutter. The fact that
  carries it is that `WritePending` can become true only in a step that read a
  non-terminal row: a claim that commits, a cancellation that begins, an insert.
* `SettledStays`: `Spec => SettledIsFinal`. It follows from the abstract
  specification, not from the model: a step of JobRecord from a final status
  with no open writer is a removal or leaves both alone.
* `CompletionIsGenuine`: `Spec => []NoFabricatedCompletion`. The property is not
  inductive: a poller that holds COMPLETED in a local, a snapshot of a
  reconciler or a submission's initial status could write it later. The
  invariant `CompletionIsTraced` says of each of these places that COMPLETED
  there was reached by the resource, and every step hands on only what it was
  handed.

`PollingProofs`, from the assumptions of `JobServiceProofs` and on top of its `TypeCorrect`:

* `StoredPathsArePolled`: `Spec => []OnlyStoredPathsArePolled`. `PathInv` says that until
  the submission stores a path nobody polls, lists or holds the job, and that
  afterwards the resource is there. Its lemma `UnpolledStays` is the argument: no claim,
  status write, request or restart makes an unpolled job a polled one. `PathKept` adds that
  the row of a polled job has the path: no write takes it away.
* `OneOutcome`: `Spec => []OutcomesAgree`. Four invariants follow an end from where it
  happened to where it is announced: the resource ends in one way (`EndsOnce`), what a
  new poller is handed is not an end (`Handed`), an end in a poller was reached
  (`Heard`), and a failure that was announced was reached too, or is of a submission that never
  stored a path, so that no poller can contradict it (`FailureIsTraced`).
* `OnePoller`: `Spec => []OnePollerPerWorker`, for any number of claims, crashes and
  restarts. A process that is down has no pollers, no claims and an empty map
  (`DownIsEmpty`), and while no request stopped a poller, one that runs is the one in
  the map (`Registered`), where startJobPoller looks.
* `EndsAreAnnounced`: `Spec => []Announced`, and `EndsAreRecorded`: `Spec => []Audited`.
  Both are conditional on a history without failures; `Calm` shows that such a history had
  none before. Whoever writes an end goes on to announce it (`AnnouncersGoOn`,
  `EndsAreDecided`), and has recorded it by then (`RecordedFirst`, the exception
  being a submission that fails).

`NotificationsProofs`, from `NotifierAssumption`:

* `TypeCorrect`: `Spec => []TypeOK`.
* `NotificationsAreUnique` and `AckedIsSaved`: from `FeedInv`, which says that a
  row is keyed by the event it holds (so that a write never replaces
  another event's) and that the messages of `saved` pushes and those acknowledged are stored.
* `SoleWorkerRetains`: `Spec => []OneProcessRetains`, for any number of workers.
  `MutexInv` is the mutual exclusion argument of topicFor: the steps of the slow path
  and the mutex imply each other, and while the topic is there without its
  subscription, the holder is on its way to create it. `SoleWorkerInv` says so of
  the worker that all events are published by, as long as nothing failed.
* `Refinement`: `Spec => ImplementsEventRecord`. `RecordInv` adds that a publisher ends with the
  call that gets a message retained, so that an event is retained once, and that the feed has
  retained events only; under `FeedInv` the stage of an event is then a matter of its one row
  (`Staged`). `EndSettles` is the argument: the end of the last push of an event
  acknowledged is a settling, because what was acknowledged was saved.
* `ReadStays`: `Spec => ReadStaysRead`, read off the abstract record.

`GatewayProofs`, from `DirectoryAssumption`:

* `TypeCorrect`: `Spec => []TypeOK`, with the fact that a request being stored
  or resolved has a tenant.
* `TenantsAreTheirs`: `Spec => []TenantIsTheirs`, for any number of providers,
  gateways, failures and restarts. `TheirsInv` says of a request that is resolved, and `MapInv`
  of each entry of a map, that the tenant is one that `IsOf` the user ID at that gateway.
* `TenantsAreStable`: `Spec => []OneGatewayIsStable`, likewise. `RowInv`, of the gateway that
  all requests come to: an identity has one row, and if it has one, a
  request between its query and its insert will see it in the map at the
  second look; `OpenInv` says that a restart, which empties the map, ends all
  such requests. `IdInv` is for a user ID at several providers: while there was no restart, it has
  one row, and the map has an entry for it, so that nobody inserts a second. `SoleInv` puts the
  two together.
* `FollowUpsFind`: `Spec => []FollowUpFindsJob`, for any number of gateways, workers and
  providers. `FindInv` says that a row is at the worker that the ring names, that
  a submission which was answered has its row with the tenant it was served with, or was
  deleted, and that a request which found nothing is of another tenant or came
  after a deletion; `NotYet`, that a request has an order only once it has come in.

`ChunkerProofs`, for every size and every number of instances but 0:

* `SharesAreDisjoint`, `SharesCoverTheInput`: what Calculate gives to the instances divides
  the input. A share begins at i * (size \div n) plus the bytes left over before it; shares
  that follow each other begin where the one before ended, and `Holder` names the
  instance that has a given byte, so that no induction is needed.

`DistributedWorkProofs`, from `WorkAssumption`, for every input, number of instances and bound:

* `RangesArePartitions`: `Spec => []RangesPartition`. `IInv` says that an instance has no
  range yet or the one Calculate gives for the size all of them were given, or for the
  size that the input has had since the submission.
* `InputIsReadOnce`: `Spec => []EverythingReadOnce`. `ReadInv` says that an instance that has
  opened the input has read the bytes, or the records, of its range. Records need one fact
  more than bytes: their numbers run from 0 to one less than there are.
* `TypeCorrect`: `Spec => []TypeOK`, with `FileInv`: an instance has counted what it has read,
  and one that is done has written that; files of others are there only from a larger submission.
* `AggregatesAreWhole`: `Spec => []AggregateIsWhole`. The totals are sums over the files,
  each of the size of what its instance has read. `SumCounts` turns a sum of the sizes
  of disjoint sets into the size of their union, which `EverythingReadOnce` gives.
* `LinesAreCounted`: `Spec => []CutLinesCountTwice`. The scanner counts the lines that begin
  in its share if the first byte of a share begins one (`LinesBegin`); all but those at
  the cuts begin in the text, and there is one cut less than there are instances (`CutLines`).

A sum is a fold over a finite set, and facts about it need induction over such sets. The
library's theorem for that takes a predicate as its parameter; instead these proofs take a
smallest counterexample: a set of subsets of a finite set has a member that contains no
other (`SmallestPart`, from the well-foundedness of strict inclusion).

`SubmissionProofs`, from `SubmissionAssumption`, for every request, environment and number of
jobs (the run tries 374 requests for one job, the theorems all of them):

* `RoutedJobsFit`: `Spec => []CloudRunJobsFit`. `RoutedIsSingle` is the argument about the
  readers of the environment: the router reads the exact name first, so that what the
  navigator reads has been judged. The invariant (`IInv`) hands the decision from Navigate
  to the resource and keeps it there.
* `PathsLeadToResources`: `Spec => []PathLeadsToResource`. `LeadInv`: no two resources of a
  provider have one name, so that RunJob starts the resource of its own job, and a
  handler that stores a path has such a resource; the services in a row are those from
  which both readings find the provider.
* `SizeReachesContainers`: `Spec => []ContainersKnowTheSize`. `SizeInv` says of each
  environment on the way from the request to the container that it is `Informed` if the request
  splits an object by bytes, whatever the spellings; `LookupInforms`, that the
  worker's lookup makes it so.
* `AnswersAreActual`: `Spec => []ToldServiceIsActual`. `ToldInv`: gateway and worker read
  the same of a request, since the lookup of the size changes nothing that the router reads.
* `FailuresHaveCauses`: `Spec => []FailureHasACause`. `CauseInv`: a worker that did not come
  up, and a submission on its way to FAILED, have one of the causes, and the latter no
  resource.
* `TypeCorrect`: `Spec => []TypeOK`.

The SMT backend cannot encode the empty string, and no prover shows that a literal is in
STRING. `Routing` and `WorkerConfig` name the empty text (`Blank`, `Absent`), and the
type of a path is that of the names that are made from the requests (`JobNames`). The proof of
`FailureHasACause` found that the property has to compare what generateProviderJobID makes
of names: a job without a name and one with the name "jennah" get the same one, which the
instance for TLC now has.

`ClientProofs`, from `ClientAssumption`:

* `TypeCorrect`: `Spec => []TypeOK`, with the bound on the job IDs: a submission is repeated only
  after a call that failed, so that there are at most one job from before, one for each
  command and one for each failure (`Counted`; this needs finitely many commands).
* `LoginsAreWhole`: `Spec => []LoginIsAllOrNothing`. `Whole`: a file without a tenant is one of a
  login that is half way, or was torn; and every way out of a login that is half way
  writes the tenant or removes the file (`LoginMoves`).
* `TenantsAreOwn`: `Spec => []TenantIsOwn`. `OneLogin`: while logins do not overlap and the
  environment names nobody, the file that a login looks up is the one it wrote.
* `ReportsHold`: `Spec => []ReportsAreTrue`. `Owned` says what a command knows: the jobs it is to
  delete, or waits for, are its user's, those it reports as deleted are gone, and the one it waited
  for is over. That stays so because IDs are not used again (`Numbered`) and an end is final.
  A command without the ID of its job had an answer that broke off.
* `InstancesTaken`: `Spec => []InstancesAreTasks`, for every job file (`Ordered`).

### Only model-checked

Every safety invariant of every passing run is a theorem, as are `SettledIsFinal`,
`ReadStaysRead` and the two refinements.
What is left to TLC is liveness, which is out of the prover's reach: `Reflected`,
`RetainedIsNotified`, `EveryRequestEnds`, `JobEnds` and `EveryCommandEnds`. The proofs rest on
the assumptions that each module states of its constants, and on nothing else.

## 6. What is not modelled, and the plan

To come, most important first:

1. `JobLease`: the lease protocol with clocks, to state the condition on the two
   settings under which two workers do not poll the same job for ever.
2. The second try with Cloud Batch in the pollers, for rows of tier SIMPLE.
3. The listings: order and limit of ListNotifications and the unread count.
4. An abstract specification of the directory (a map that only grows), implemented by
   its module where the runs above say it is.

Not planned: generated code, the AWS stub, whose constructor the worker never registers, the
text statistics and sentiment scores of the demo and its reading of JSON (computations on
one file's content), what `list` and `tenant` print, the wording of logs and errors, the
scripts, the consistent-hash library.
