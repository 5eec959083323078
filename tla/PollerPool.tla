----------------------------- MODULE PollerPool -----------------------------
(***************************************************************************)
(* The pollers and the lease reconciler of the worker processes            *)
(* (cmd/worker/service/pollers.go), for one job.  A poller is a goroutine: *)
(* pc names the call it makes next.  Each call to the database, the cloud  *)
(* or Pub/Sub is a step of its own, so that everything another goroutine   *)
(* or another worker does can fall between two of them.                    *)
(***************************************************************************)
EXTENDS CloudJob

CONSTANTS
  Pollers,    \* bound: identities of the pollers that exist at the same time
  NoPoller,   \* the worker's map has no entry for the job
  maxFailedAttempts

ASSUME PollerAssumption ==
  /\ NoPoller \notin Pollers
  /\ maxFailedAttempts \in Nat \ {0}

VARIABLES
  poller,      \* the goroutines
  registry,    \* WorkerService.pollers: each worker's entry for the job
  recon,       \* each worker's lease reconciler
  published    \* the final statuses events were published with

poolVars == <<poller, registry, recon, published>>
vars == <<storeVars, cloudVars, poolVars>>

\* What poll does next.  "wait": at the select.  "reclaim": the lease transaction
\* was aborted after it had decided to claim, and runs again.
Poller ==
  [pc : {"free", "wait", "reclaim", "get", "update", "record", "publish", "exit"},
   worker : Workers, currentStatus : Status,
   failedAttempts : 0..maxFailedAttempts - 1, done : BOOLEAN]

Reconciler == [pc : {"idle", "claim", "reclaim", "start"}, snapshot : Status]

PoolTypeOK ==
  /\ poller \in [Pollers -> Poller]
  /\ registry \in [Workers -> Pollers \cup {NoPoller}]
  /\ recon \in [Workers -> Reconciler]
  /\ published \in SUBSET Status

NewPoller(w, s) ==
  [pc |-> "wait", worker |-> w, currentStatus |-> s, failedAttempts |-> 0,
   done |-> FALSE]

AnyWorker == CHOOSE w \in Workers : TRUE
NoLocals(w, pc) == [NewPoller(w, "PENDING") EXCEPT !.pc = pc]
FreedPoller == NoLocals(AnyWorker, "free")
IdleReconciler == [pc |-> "idle", snapshot |-> "PENDING"]

Free(p) == poller[p].pc = "free"
FreePoller == CHOOSE p \in Pollers : Free(p)

PoolInit ==
  /\ poller = [p \in Pollers |-> FreedPoller]
  /\ registry = [w \in Workers |-> NoPoller]
  /\ recon = [w \in Workers |-> IdleReconciler]
  /\ published = {}

----------------------------------------------------------------------------
\* The map of pollers, under pollersMutex

\* Mutant: the map is not asked first.
startAnotherPoller(w, s) ==
  /\ \E p \in Pollers : Free(p)
  /\ poller' = [poller EXCEPT ![FreePoller] = NewPoller(w, s)]
  /\ registry' = [registry EXCEPT ![w] = FreePoller]

\* startJobPollerWithService: nothing happens when the job has an entry.
startJobPoller(w, s) ==
  \/ registry[w] # NoPoller /\ UNCHANGED <<poller, registry>>
  \/ /\ registry[w] = NoPoller
     /\ \E p \in Pollers : Free(p)
     /\ poller' = [poller EXCEPT ![FreePoller] = NewPoller(w, s)]
     /\ registry' = [registry EXCEPT ![w] = FreePoller]

stopPollerForJob(w) ==
  /\ registry' = [registry EXCEPT ![w] = NoPoller]
  /\ poller' = [p \in Pollers |->
       IF registry[w] = p THEN [poller[p] EXCEPT !.done = TRUE] ELSE poller[p]]

\* Mutant: the entry stays.
keepRegistered(w) == w \in Workers /\ UNCHANGED registry

\* unregisterPoller deletes by key: it is not asked whose entry that is.
unregisterPoller(w) == registry' = [registry EXCEPT ![w] = NoPoller]

\* publishTerminalEvent: every call publishes an event with an id of its own, a
\* failure is logged.
publishTerminalEvent(s) ==
  \/ published' = published \cup {s} /\ UNCHANGED storeVars
  \/ Outage /\ UNCHANGED published

----------------------------------------------------------------------------
\* JobPoller.poll

PollGoto(p, pc) == poller' = [poller EXCEPT ![p].pc = pc]

\* poll is about to return, with done closed: its locals matter to nobody.
PollReturns(p) == poller' = [poller EXCEPT ![p] = NoLocals(@.worker, "exit")]

\* select, when done is closed ...
PollStopped(p) ==
  /\ poller[p].pc = "wait"
  /\ poller[p].done
  /\ PollReturns(p)
  /\ UNCHANGED <<storeVars, cloudVars, registry, recon, published>>

\* ... and when the ticker has fired, possibly although done is closed as well:
\* the lease check.  An aborted transaction whose second run declines still
\* answers that the lease is owned.
PollClaim(p) ==
  LET w == poller[p].worker IN
  /\ poller[p].pc \in {"wait", "reclaim"}
  /\ \/ ClaimCommits(w) /\ PollGoto(p, "get")
     \/ ClaimDeclined(w) /\ poller[p].pc = "reclaim" /\ PollGoto(p, "get")
     \/ ClaimDeclined(w) /\ poller[p].pc = "wait" /\ PollReturns(p)
     \/ ClaimAborted(w) /\ poller[p].pc = "wait" /\ PollGoto(p, "reclaim")
     \/ (Outage \/ RowMissing) /\ PollGoto(p, "wait")
  /\ UNCHANGED <<cloudVars, registry, recon, published>>

\* GetJobStatus answers: reset failedAttempts and compare.
PollGet(p) ==
  /\ poller[p].pc = "get"
  /\ Observable
  /\ \/ /\ ObservedStatus = poller[p].currentStatus
        /\ poller' = [poller EXCEPT ![p].pc = "wait", ![p].failedAttempts = 0]
     \/ /\ ObservedStatus # poller[p].currentStatus
        /\ poller' = [poller EXCEPT ![p].pc = "update", ![p].failedAttempts = 0,
                        ![p].currentStatus = ObservedStatus]
  /\ UNCHANGED <<storeVars, cloudVars, registry, recon, published>>

\* Mutant: one attempt too many.
PollGetFailsOnceMore(p) ==
  LET n == poller[p].failedAttempts + 1 IN
  /\ poller[p].pc = "get"
  /\ Outage \/ (~Observable /\ UNCHANGED storeVars)
  /\ \/ /\ n <= maxFailedAttempts
        /\ poller' = [poller EXCEPT ![p].pc = "wait", ![p].failedAttempts = n]
     \/ n > maxFailedAttempts /\ PollReturns(p)
  /\ UNCHANGED <<cloudVars, registry, recon, published>>

\* GetJobStatus fails: give up at maxFailedAttempts.
PollGetFails(p) ==
  LET n == poller[p].failedAttempts + 1 IN
  /\ poller[p].pc = "get"
  /\ Outage \/ (~Observable /\ UNCHANGED storeVars)
  /\ \/ /\ n < maxFailedAttempts
        /\ poller' = [poller EXCEPT ![p].pc = "wait", ![p].failedAttempts = n]
     \/ n = maxFailedAttempts /\ PollReturns(p)
  /\ UNCHANGED <<cloudVars, registry, recon, published>>

\* Mutant: the transition is not recorded.
PollUpdateUnrecorded(p) ==
  /\ poller[p].pc = "update"
  /\ \/ UpdateJobStatus(poller[p].currentStatus) /\ UNCHANGED faults
     \/ Outage \/ RowMissing
  /\ PollGoto(p, IF isTerminalStatus(poller[p].currentStatus) THEN "publish" ELSE "wait")
  /\ UNCHANGED <<cloudVars, registry, recon, published>>

\* The status is written; an error is only logged.
PollUpdate(p) ==
  /\ poller[p].pc = "update"
  /\ \/ UpdateJobStatus(poller[p].currentStatus) /\ UNCHANGED faults
     \/ Outage \/ RowMissing
  /\ PollGoto(p, "record")
  /\ UNCHANGED <<cloudVars, registry, recon, published>>

\* So is the transition; a terminal status ends the poller.
PollRecord(p) ==
  LET s == poller[p].currentStatus IN
  /\ poller[p].pc = "record"
  /\ \/ RecordStateTransition(s) /\ UNCHANGED faults
     \/ Outage \/ RowMissing
  /\ PollGoto(p, IF isTerminalStatus(s) THEN "publish" ELSE "wait")
  /\ UNCHANGED <<cloudVars, registry, recon, published>>

PollPublish(p) ==
  /\ poller[p].pc = "publish"
  /\ publishTerminalEvent(poller[p].currentStatus)
  /\ PollReturns(p)
  /\ UNCHANGED <<cloudVars, registry, recon>>

\* The goroutine returns: its deferred unregisterPoller runs.
PollExit(p) ==
  /\ poller[p].pc = "exit"
  /\ unregisterPoller(poller[p].worker)
  /\ poller' = [poller EXCEPT ![p] = FreedPoller]
  /\ UNCHANGED <<storeVars, cloudVars, recon, published>>

Poll(p) ==
  \/ PollStopped(p) \/ PollClaim(p) \/ PollGet(p) \/ PollGetFails(p) \/ PollUpdate(p)
  \/ PollRecord(p) \/ PollPublish(p) \/ PollExit(p)

----------------------------------------------------------------------------
\* reconcileActiveJobLeases, at startup and on each tick of claimInterval

\* ListActiveJobs returns the job: its status is a snapshot from here on.
ReconcileList(w) ==
  /\ recon[w].pc = "idle"
  /\ ListedActive
  /\ recon' = [recon EXCEPT ![w] = [pc |-> "claim", snapshot |-> row.status]]
  /\ UNCHANGED <<storeVars, cloudVars, poller, registry, published>>

ReconGoto(w, pc) == recon' = [recon EXCEPT ![w].pc = pc]
ReconNext(w) == recon' = [recon EXCEPT ![w] = IdleReconciler]

\* The claim, with the same answers as in PollClaim.
ReconcileClaim(w) ==
  /\ recon[w].pc \in {"claim", "reclaim"}
  /\ \/ ClaimCommits(w) /\ ReconGoto(w, "start")
     \/ ClaimDeclined(w) /\ recon[w].pc = "reclaim" /\ ReconGoto(w, "start")
     \/ ClaimDeclined(w) /\ recon[w].pc = "claim" /\ ReconNext(w)
     \/ ClaimAborted(w) /\ recon[w].pc = "claim" /\ ReconGoto(w, "reclaim")
     \/ (Outage \/ RowMissing) /\ ReconNext(w)
  /\ UNCHANGED <<cloudVars, poller, registry, published>>

ReconcileStart(w) ==
  /\ recon[w].pc = "start"
  /\ startJobPoller(w, recon[w].snapshot)
  /\ ReconNext(w)
  /\ UNCHANGED <<storeVars, cloudVars, published>>

\* What a killed process leaves of its pollers and its reconciler: nothing.
PoolCrash(w) ==
  /\ poller' = [p \in Pollers |->
       IF poller[p].worker = w THEN FreedPoller ELSE poller[p]]
  /\ registry' = [registry EXCEPT ![w] = NoPoller]
  /\ recon' = [recon EXCEPT ![w] = IdleReconciler]
  /\ UNCHANGED published

\* StopAllPollers, at shutdown: with one job, that job's entry.
StopAllPollers(w) == stopPollerForJob(w) /\ UNCHANGED <<recon, published>>
=============================================================================
