----------------------------- MODULE JobService -----------------------------
(***************************************************************************)
(* The worker fleet serving one job: the SubmitJob, CancelJob and          *)
(* DeleteJob handlers (cmd/worker/service/handlers.go), running at the     *)
(* same time as the pollers and the reconcilers of every worker, over the  *)
(* shared row and the cloud resource, with worker processes that are       *)
(* killed, shut down and restarted.                                        *)
(*                                                                         *)
(* The gateway gives each submission a new job ID, so a job is submitted   *)
(* once.  The cancel and delete requests for it come at any time; the      *)
(* gateway sends a tenant's requests to the worker its hash ring names.    *)
(***************************************************************************)
EXTENDS PollerPool

CONSTANTS
  Homes,       \* the workers the gateway's hash ring sends the job's requests to
  Requests,    \* bound: the cancel and delete requests the job receives
  MaxCrashes,   \* bound: worker processes that are killed
  MaxShutdowns  \* bound: worker processes that are told to shut down

ASSUME HomesAssumption == Homes # {} /\ Homes \subseteq Workers
ASSUME ServiceBounds == MaxCrashes \in Nat /\ MaxShutdowns \in Nat

VARIABLES
  up,        \* each worker process: "up", "draining" (shutting down) or "down"
  submit,    \* the handler of SubmitJob
  request,   \* the handlers of CancelJob and DeleteJob
  crashes,   \* worker processes that were killed so far
  shutdowns  \* and those that were told to shut down

endings == <<crashes, shutdowns>>
serviceVars == <<up, submit, request, endings>>
allVars == <<vars, serviceVars>>

Submit ==
  [pc : {"idle", "dispatch", "fail", "failpublish", "setpath", "start", "done", "error"},
   worker : Workers, status : Status]

Request ==
  [pc : {"idle", "cancelcloud", "cancelwait", "cancelrow", "cancelrecord",
         "cancelpublish", "cancelstop", "deletecloud", "deletewait", "deleterow",
         "deletestop", "cancelled", "deleted", "error"},
   worker : Workers]

Serving(r) == request[r].pc \notin {"idle", "cancelled", "deleted", "error"}

IdleSubmit == [pc |-> "idle", worker |-> AnyWorker, status |-> "PENDING"]
IdleRequest == [pc |-> "idle", worker |-> AnyWorker]

TypeOK ==
  /\ StoreTypeOK /\ CloudTypeOK /\ PoolTypeOK
  /\ up \in [Workers -> {"up", "draining", "down"}]
  /\ submit \in Submit
  /\ request \in [Requests -> Request]
  /\ crashes \in 0..MaxCrashes /\ shutdowns \in 0..MaxShutdowns

\* A job that is still to be submitted, or one the lease columns' migration found.
Init ==
  /\ \/ row = NoRow /\ cloud = "absent" /\ submit = IdleSubmit
     \/ /\ row = LegacyRow
        /\ cloud = "RUNNING"
        /\ submit = [IdleSubmit EXCEPT !.pc = "done"]
  /\ trail = {}
  /\ faults = 0
  /\ reached = {}
  /\ PoolInit
  /\ up = [w \in Workers |-> "up"]
  /\ request = [r \in Requests |-> IdleRequest]
  /\ crashes = 0 /\ shutdowns = 0

----------------------------------------------------------------------------
\* SubmitJob

SubmitGoto(pc) == submit' = [submit EXCEPT !.pc = pc]
SubmitReturns(pc) == submit' = [IdleSubmit EXCEPT !.pc = pc]

\* InsertJobFull, after the request was validated.
SubmitInsert(w) ==
  /\ submit.pc = "idle"
  /\ up[w] = "up"
  /\ \/ InsertJobFull(w) /\ UNCHANGED faults
        /\ submit' = [submit EXCEPT !.pc = "dispatch", !.worker = w]
     \/ InsertJobFull(w) /\ LostReply /\ SubmitReturns("error")
     \/ Outage /\ SubmitReturns("error")
  /\ UNCHANGED <<cloudVars, poolVars, up, request, endings>>

\* Navigate and Provider.SubmitJob.  An error leaves no resource, or (a lost
\* reply, a RunJob that fails after CreateJob) one that nobody has the path of.
SubmitDispatch ==
  /\ submit.pc = "dispatch"
  /\ \/ /\ CloudCreate
        /\ UNCHANGED storeVars
        /\ \E s \in InitialStatus :
             submit' = [submit EXCEPT !.pc = "setpath", !.status = s]
     \/ UNCHANGED <<cloudVars, storeVars>> /\ SubmitGoto("fail")
     \/ CloudCreate /\ LostReply /\ UNCHANGED <<row, trail>> /\ SubmitGoto("fail")
  /\ UNCHANGED <<poolVars, up, request, endings>>

SubmitFail ==
  /\ submit.pc = "fail"
  /\ (FailJob /\ UNCHANGED faults) \/ Outage \/ RowMissing
  /\ SubmitGoto("failpublish")
  /\ UNCHANGED <<cloudVars, poolVars, up, request, endings>>

SubmitFailPublish ==
  /\ submit.pc = "failpublish"
  /\ publishTerminalEvent("FAILED")
  /\ SubmitReturns("error")
  /\ UNCHANGED <<cloudVars, poller, registry, recon, up, request, endings>>

\* Mutant: an error fails the job, although the path may have been stored.
SubmitSetPathOrFail ==
  LET Write == UpdateJobStatusAndGcpBatchJobPath(submit.status) IN
  /\ submit.pc = "setpath"
  /\ \/ Write /\ UNCHANGED faults /\ SubmitGoto("start")
     \/ Write /\ LostReply /\ SubmitGoto("fail")
     \/ (Outage \/ RowMissing) /\ SubmitGoto("fail")
  /\ UNCHANGED <<cloudVars, poolVars, up, request, endings>>

\* Mutant: the poller is started although the path could not be stored.
SubmitSetPathOrStart ==
  LET Write == UpdateJobStatusAndGcpBatchJobPath(submit.status) IN
  /\ submit.pc = "setpath"
  /\ \/ Write /\ UNCHANGED faults /\ SubmitGoto("start")
     \/ Write /\ LostReply /\ SubmitReturns("error")
     \/ (Outage \/ RowMissing) /\ SubmitGoto("start")
  /\ UNCHANGED <<cloudVars, poolVars, up, request, endings>>

\* UpdateJobStatusAndGcpBatchJobPath: the path is known to nobody else yet.
SubmitSetPath ==
  LET Write == UpdateJobStatusAndGcpBatchJobPath(submit.status) IN
  /\ submit.pc = "setpath"
  /\ \/ Write /\ UNCHANGED faults /\ SubmitGoto("start")
     \/ Write /\ LostReply /\ SubmitReturns("error")
     \/ (Outage \/ RowMissing) /\ SubmitReturns("error")
  /\ UNCHANGED <<cloudVars, poolVars, up, request, endings>>

SubmitStart ==
  /\ submit.pc = "start"
  /\ startJobPoller(submit.worker, submit.status)
  /\ SubmitReturns("done")
  /\ UNCHANGED <<storeVars, cloudVars, recon, published, up, request, endings>>

SubmitJob ==
  \/ \E w \in Homes : SubmitInsert(w)
  \/ SubmitDispatch \/ SubmitFail \/ SubmitFailPublish \/ SubmitSetPath \/ SubmitStart

----------------------------------------------------------------------------
\* CancelJob

Goto(r, pc) == request' = [request EXCEPT ![r].pc = pc]
Respond(r, pc) == request' = [request EXCEPT ![r] = [IdleRequest EXCEPT !.pc = pc]]
Begin(r, w, pc) == request' = [request EXCEPT ![r] = [pc |-> pc, worker |-> w]]

\* Mutant: any job is cancellable.
CancelAnything(r, w) ==
  /\ request[r].pc = "idle"
  /\ up[w] = "up"
  /\ row # NoRow
  /\ Begin(r, w, IF row.path THEN "cancelcloud" ELSE "cancelrow")
  /\ UNCHANGED <<vars, up, submit, endings>>

\* GetJob and isCancellableStatus; the row that was read is not read again.
CancelBegin(r, w) ==
  /\ request[r].pc = "idle"
  /\ up[w] = "up"
  /\ row # NoRow
  /\ row.status \in Active
  /\ Begin(r, w, IF row.path THEN "cancelcloud" ELSE "cancelrow")
  /\ UNCHANGED <<vars, up, submit, endings>>

CancelCloud(r) ==
  /\ request[r].pc = "cancelcloud"
  /\ \/ CancelStarts /\ UNCHANGED storeVars /\ Goto(r, "cancelwait")
     \/ CancelRefused /\ UNCHANGED storeVars /\ Respond(r, "error")
     \/ Outage /\ UNCHANGED cloudVars /\ Respond(r, "error")
  /\ UNCHANGED <<poolVars, up, submit, endings>>

CancelWait(r) ==
  /\ request[r].pc = "cancelwait"
  /\ \/ OperationDone /\ UNCHANGED storeVars /\ Goto(r, "cancelrow")
     \/ Outage /\ UNCHANGED cloudVars /\ Respond(r, "error")
  /\ UNCHANGED <<poolVars, up, submit, endings>>

CancelRow(r) ==
  /\ request[r].pc = "cancelrow"
  /\ \/ UpdateJobStatus("CANCELLED") /\ UNCHANGED faults /\ Goto(r, "cancelrecord")
     \/ UpdateJobStatus("CANCELLED") /\ LostReply /\ Respond(r, "error")
     \/ (Outage \/ RowMissing) /\ Respond(r, "error")
  /\ UNCHANGED <<cloudVars, poolVars, up, submit, endings>>

\* Mutant: a cancellation sends no event.
CancelRecordSilently(r) ==
  /\ request[r].pc = "cancelrecord"
  /\ \/ RecordStateTransition("CANCELLED") /\ UNCHANGED faults
     \/ Outage \/ RowMissing
  /\ Goto(r, "cancelstop")
  /\ UNCHANGED <<cloudVars, poolVars, up, submit, endings>>

CancelRecord(r) ==
  /\ request[r].pc = "cancelrecord"
  /\ \/ RecordStateTransition("CANCELLED") /\ UNCHANGED faults
     \/ Outage \/ RowMissing
  /\ Goto(r, "cancelpublish")
  /\ UNCHANGED <<cloudVars, poolVars, up, submit, endings>>

CancelPublish(r) ==
  /\ request[r].pc = "cancelpublish"
  /\ publishTerminalEvent("CANCELLED")
  /\ Goto(r, "cancelstop")
  /\ UNCHANGED <<cloudVars, poller, registry, recon, up, submit, endings>>

CancelStop(r) ==
  /\ request[r].pc = "cancelstop"
  /\ stopPollerForJob(request[r].worker)
  /\ Respond(r, "cancelled")
  /\ UNCHANGED <<storeVars, cloudVars, recon, published, up, submit, endings>>

CancelJob(r) ==
  \/ \E w \in Homes : CancelBegin(r, w)
  \/ CancelCloud(r) \/ CancelWait(r) \/ CancelRow(r) \/ CancelRecord(r)
  \/ CancelPublish(r) \/ CancelStop(r)

----------------------------------------------------------------------------
\* DeleteJob

DeleteBegin(r, w) ==
  /\ request[r].pc = "idle"
  /\ up[w] = "up"
  /\ row # NoRow
  /\ Begin(r, w, IF row.path THEN "deletecloud" ELSE "deleterow")
  /\ UNCHANGED <<vars, up, submit, endings>>

DeleteCloud(r) ==
  /\ request[r].pc = "deletecloud"
  /\ \/ DeleteStarts /\ UNCHANGED storeVars /\ Goto(r, "deletewait")
     \/ DeleteRefused /\ UNCHANGED storeVars /\ Respond(r, "error")
     \/ Outage /\ UNCHANGED cloudVars /\ Respond(r, "error")
  /\ UNCHANGED <<poolVars, up, submit, endings>>

DeleteWait(r) ==
  /\ request[r].pc = "deletewait"
  /\ \/ OperationDone /\ UNCHANGED storeVars /\ Goto(r, "deleterow")
     \/ Outage /\ UNCHANGED cloudVars /\ Respond(r, "error")
  /\ UNCHANGED <<poolVars, up, submit, endings>>

DeleteRow(r) ==
  /\ request[r].pc = "deleterow"
  /\ \/ DeleteJobRow /\ UNCHANGED faults /\ Goto(r, "deletestop")
     \/ DeleteJobRow /\ LostReply /\ Respond(r, "error")
     \/ Outage /\ Respond(r, "error")
  /\ UNCHANGED <<cloudVars, poolVars, up, submit, endings>>

DeleteStop(r) ==
  /\ request[r].pc = "deletestop"
  /\ stopPollerForJob(request[r].worker)
  /\ Respond(r, "deleted")
  /\ UNCHANGED <<storeVars, cloudVars, recon, published, up, submit, endings>>

DeleteJob(r) ==
  \/ \E w \in Homes : DeleteBegin(r, w)
  \/ DeleteCloud(r) \/ DeleteWait(r) \/ DeleteRow(r) \/ DeleteStop(r)

----------------------------------------------------------------------------
\* Worker processes

\* The process ends.  Its handlers' requests get no answer.
ProcessEnds(w) ==
  /\ up' = [up EXCEPT ![w] = "down"]
  /\ PoolCrash(w)
  /\ IF submit.worker = w /\ submit.pc \notin {"idle", "done"}
     THEN SubmitReturns("error") ELSE UNCHANGED submit
  /\ request' = [r \in Requests |->
       IF request[r].worker = w /\ Serving(r)
       THEN [IdleRequest EXCEPT !.pc = "error"] ELSE request[r]]
  /\ UNCHANGED <<storeVars, cloudVars>>

Crash(w) ==
  /\ up[w] = "up"
  /\ crashes < MaxCrashes
  /\ crashes' = crashes + 1
  /\ UNCHANGED shutdowns
  /\ ProcessEnds(w)

\* SIGTERM: the pollers are told to stop; handlers and a reconciler's run that
\* are under way go on until the process exits.
Shutdown(w) ==
  /\ up[w] = "up"
  /\ shutdowns < MaxShutdowns
  /\ shutdowns' = shutdowns + 1
  /\ up' = [up EXCEPT ![w] = "draining"]
  /\ StopAllPollers(w)
  /\ UNCHANGED <<storeVars, cloudVars, submit, request, crashes>>

\* server.Shutdown returns, at the latest when its 30 seconds are over.
ShutdownDone(w) == up[w] = "draining" /\ UNCHANGED endings /\ ProcessEnds(w)

\* A new process under the same WORKER_ID; its first steps are those of Reconcile.
Restart(w) ==
  /\ up[w] = "down"
  /\ up' = [up EXCEPT ![w] = "up"]
  /\ UNCHANGED <<vars, submit, request, endings>>

\* A reconciler whose context is done may still list: when its ticker has fired as
\* well, select takes either.
ReconcileStep(w) ==
  /\ \/ up[w] # "down" /\ ReconcileList(w)
     \/ ReconcileClaim(w)
     \/ ReconcileStart(w)
  /\ UNCHANGED serviceVars

PollStep(p) == Poll(p) /\ UNCHANGED serviceVars

CloudStep == (CloudProgress \/ CloudDeleted) /\ UNCHANGED <<poolVars, serviceVars>>

\* The job is listed, its owner is up and renews the lease every few seconds.
Renewed == ListedActive /\ row.owner \in {w \in Workers : up[w] = "up"}

LeaseStep ==
  /\ LeaseExpires
  /\ IF Renewed THEN Late ELSE UNCHANGED faults
  /\ UNCHANGED <<cloudVars, poolVars, serviceVars>>

Next ==
  \/ SubmitJob
  \/ \E r \in Requests : CancelJob(r) \/ DeleteJob(r)
  \/ \E p \in Pollers : PollStep(p)
  \/ \E w \in Workers : \/ ReconcileStep(w)
                        \/ Crash(w) \/ Shutdown(w) \/ ShutdownDone(w) \/ Restart(w)
  \/ CloudStep
  \/ LeaseStep

Spec == Init /\ [][Next]_allVars

\* Goroutines are scheduled and time passes: pollers and reconcilers take their
\* steps, leases expire and a shutdown ends.  Nothing is assumed of the cloud, of
\* requests, or of the choice select makes.
Fairness ==
  /\ \A p \in Pollers : WF_allVars(PollStep(p))
  /\ \A w \in Workers : WF_allVars(ReconcileStep(w)) /\ WF_allVars(ShutdownDone(w))
  /\ WF_allVars(LeaseStep)

\* A worker that ended stays away, or is started again.
FailoverSpec == Spec /\ Fairness
RestartSpec == FailoverSpec /\ \A w \in Workers : WF_allVars(Restart(w))

----------------------------------------------------------------------------
(***************************************************************************)
(* Safety                                                                  *)
(***************************************************************************)

\* A worker's map never holds a poller that has ended: such an entry would make
\* startJobPoller refuse to poll the job on that worker ever again.
NoDeadRegistration ==
  \A w \in Workers : registry[w] # NoPoller =>
    ~Free(registry[w]) /\ poller[registry[w]].worker = w

\* Nobody polls a job, or is about to take it over, unless its cloud resource was created and
\* the submission is past storing its path: the path is in the row, until the row is deleted.
\* A row has a path only if there is a resource.
OnlyStoredPathsArePolled ==
  /\ (\E p \in Pollers : ~Free(p)) \/ (\E w \in Workers : recon[w].pc # "idle") =>
       /\ cloud # "absent"
       /\ submit.pc \in {"start", "done", "error"}
       /\ row = NoRow \/ row.path
  /\ row # NoRow /\ row.path => cloud # "absent"

\* COMPLETED, in the row or in an event, was seen at the cloud resource, however
\* many workers wrote it and however late.
NoFabricatedCompletion ==
  (row # NoRow /\ row.status = "COMPLETED") \/ "COMPLETED" \in published
    => "COMPLETED" \in reached

\* Tenants are not told that one job both completed and failed.
OutcomesAgree == ~("COMPLETED" \in published /\ "FAILED" \in published)

\* As long as no cancellation or deletion has stopped a poller, a worker polls the
\* job with one poller at a time, however often it is claimed and given up.
NeverStopped == \A r \in Requests : request[r].pc \notin {"cancelled", "deleted"}
Polling(p) == poller[p].pc \notin {"free", "exit"}
OnePollerPerWorker ==
  NeverStopped => \A p, q \in Pollers :
    Polling(p) /\ Polling(q) /\ poller[p].worker = poller[q].worker
      /\ up[poller[p].worker] = "up" => p = q

\* When no call fails and no worker ends, a terminal status in the row has been
\* announced by an event, or the writer is about to announce it ...
Undisturbed == faults = 0 /\ crashes = 0 /\ shutdowns = 0

AboutToAnnounce(s) ==
  \/ \E p \in Pollers : poller[p].pc \in {"record", "publish"} /\ poller[p].currentStatus = s
  \/ submit.pc = "failpublish" /\ s = "FAILED"
  \/ \E r \in Requests : request[r].pc \in {"cancelrecord", "cancelpublish"} /\ s = "CANCELLED"

Announced ==
  Undisturbed /\ row # NoRow /\ row.status \in Terminal
    => row.status \in published \/ AboutToAnnounce(row.status)

\* ... and, unless it is that of a submission that failed, it is recorded in the
\* audit trail by the time it has been announced.
Audited ==
  Undisturbed /\ row # NoRow /\ row.path
    => (published \cap {row.status}) \subseteq trail

\* A status write that was decided on before the row became terminal is still
\* to come: a poller past its lease check, a cancellation past its GetJob, a
\* submission that has not stored its outcome.
WritePending ==
  \/ submit.pc \in {"dispatch", "fail", "setpath"}
  \/ \E r \in Requests : request[r].pc \in {"cancelcloud", "cancelwait", "cancelrow"}
  \/ \E p \in Pollers : poller[p].pc \in {"reclaim", "get", "update"}

Settled == row # NoRow /\ row.status \in Terminal /\ ~WritePending

\* Once no such write is pending, a terminal status is final until the job is
\* deleted: no new poller, reconciler or request can change it.
SettledIsFinal ==
  [][Settled => \/ row' = NoRow
                \/ Settled' /\ row'.status = row.status]_allVars

\* The fleet implements the abstract record of a job: a tenant sees the row's
\* status, and a writer has decided to write when a write is pending.
recordStatus ==
  IF row # NoRow THEN row.status
  ELSE IF submit.pc = "idle" THEN "none" ELSE "removed"
Record == INSTANCE JobRecord WITH status <- recordStatus, open <- WritePending
ImplementsJobRecord == Record!Spec

(***************************************************************************)
(* Liveness                                                                *)
(***************************************************************************)

\* Whatever call failed and whichever worker ended, the outcome of a job whose
\* path was stored reaches its row, unless the resource or the row is deleted.
Reflected ==
  (row # NoRow /\ row.path /\ cloud \in Terminal)
    ~> (row = NoRow \/ row.status \in Terminal \/ cloud \notin Terminal)

(***************************************************************************)
(* What a comment of the repository says, and the code does not do.        *)
(***************************************************************************)

\* TryClaimOrRenewJobLease "returns true when caller becomes/continues owner":
\* after an aborted transaction it returns true to a worker that does not.
ClaimTrueMeansOwner ==
  [][\A p \in Pollers :
       poller[p].pc \in {"wait", "reclaim"} /\ poller'[p].pc = "get"
         => row'.owner = poller[p].worker]_allVars
=============================================================================
