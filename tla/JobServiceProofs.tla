-------------------------- MODULE JobServiceProofs --------------------------
(***************************************************************************)
(* What holds of JobService for every number of workers, requests and      *)
(* pollers and for every bound on faults, crashes and shutdowns.           *)
(***************************************************************************)
EXTENDS JobService, TLAPS

(***************************************************************************)
(* Types                                                                   *)
(***************************************************************************)

\* There is a worker to give the fields of an idle record a value.
LEMMA AnyWorkerIsAWorker == AnyWorker \in Workers
BY HomesAssumption DEF AnyWorker

\* The small records the steps put in place have their types.
LEMMA RecordTypes ==
  /\ \A w \in Workers : NewRow(w) \in Row
  /\ LegacyRow \in Row
  /\ \A w \in Workers, s \in Status : NewPoller(w, s) \in Poller
  /\ \A w \in Workers : NoLocals(w, "exit") \in Poller
  /\ FreedPoller \in Poller
  /\ IdleReconciler \in Reconciler
  /\ IdleSubmit \in Submit
  /\ IdleRequest \in Request
<1>1. {"PENDING", "RUNNING"} \subseteq Status
  BY StoreAssumption DEF Status
<1>2. 0 \in 0..maxFailedAttempts - 1
  BY PollerAssumption
<1>3. \A w \in Workers : NewRow(w) \in Row
  BY <1>1 DEF NewRow, Row
<1>4. LegacyRow \in Row
  BY <1>1 DEF LegacyRow, Row
<1>5. \A w \in Workers, s \in Status : NewPoller(w, s) \in Poller
  BY <1>2 DEF NewPoller, Poller
<1>6. \A w \in Workers : NoLocals(w, "exit") \in Poller /\ NoLocals(w, "free") \in Poller
  BY <1>1, <1>2 DEF NoLocals, NewPoller, Poller
<1> QED
  BY <1>1, <1>3, <1>4, <1>5, <1>6, AnyWorkerIsAWorker
  DEF FreedPoller, IdleReconciler, Reconciler, IdleSubmit, Submit, IdleRequest, Request

\* The operations on the row, whatever calls them, keep the types of the store.
LEMMA StoreTypes ==
  ASSUME StoreTypeOK, NEW w \in Workers, NEW s \in Status
  PROVE  /\ InsertJobFull(w) => row' \in Row /\ trail' \in SUBSET Terminal
         /\ UpdateJobStatus(s) => row' \in Row /\ trail' \in SUBSET Terminal
         /\ UpdateJobStatusAndGcpBatchJobPath(s) => row' \in Row /\ trail' \in SUBSET Terminal
         /\ FailJob => row' \in Row /\ trail' \in SUBSET Terminal
         /\ DeleteJobRow => row' = NoRow /\ trail' \in SUBSET Terminal
         /\ RecordStateTransition(s) => row' \in Row /\ trail' \in SUBSET Terminal
         /\ ClaimCommits(w) => StoreTypeOK'
         /\ LeaseExpires => row' \in Row /\ trail' \in SUBSET Terminal
         /\ ClaimDeclined(w) => StoreTypeOK'
         /\ ClaimAborted(w) => StoreTypeOK'
         /\ Outage => StoreTypeOK'
         /\ RowMissing => StoreTypeOK'
         /\ LostReply => faults' \in 0..MaxFaults
         /\ Late => faults' \in 0..MaxFaults
<1>1. "FAILED" \in Status
  BY DEF Status, Terminal
<1>2. InsertJobFull(w) => row' \in Row /\ trail' \in SUBSET Terminal
  BY RecordTypes DEF StoreTypeOK, InsertJobFull
<1>3. row # NoRow => row \in Row
  BY DEF StoreTypeOK
<1>4. /\ UpdateJobStatus(s) => row' \in Row /\ trail' \in SUBSET Terminal
      /\ UpdateJobStatusAndGcpBatchJobPath(s) => row' \in Row /\ trail' \in SUBSET Terminal
      /\ FailJob => row' \in Row /\ trail' \in SUBSET Terminal
      /\ RecordStateTransition(s) => row' \in Row /\ trail' \in SUBSET Terminal
      /\ LeaseExpires => row' \in Row /\ trail' \in SUBSET Terminal
  BY <1>1, <1>3 DEF StoreTypeOK, Row, UpdateJobStatus, UpdateJobStatusAndGcpBatchJobPath,
     FailJob, RecordStateTransition, LeaseExpires
<1>5. DeleteJobRow => row' = NoRow /\ trail' \in SUBSET Terminal
  BY DEF DeleteJobRow
<1>6. ClaimCommits(w) => StoreTypeOK'
  BY <1>3 DEF StoreTypeOK, Row, ClaimCommits
<1>7. /\ Outage => StoreTypeOK'
      /\ LostReply => faults' \in 0..MaxFaults
      /\ Late => faults' \in 0..MaxFaults
  BY StoreAssumption DEF StoreTypeOK, Outage, LostReply, Late
<1>8. /\ ClaimDeclined(w) => StoreTypeOK'
      /\ ClaimAborted(w) => StoreTypeOK'
      /\ RowMissing => StoreTypeOK'
  BY <1>7 DEF StoreTypeOK, ClaimDeclined, ClaimAborted, RowMissing, storeVars
<1> QED
  BY <1>2, <1>4, <1>5, <1>6, <1>7, <1>8

\* So do the resource's moves, those of the providers and those of its own.
LEMMA CloudTypes ==
  ASSUME CloudTypeOK
  PROVE  /\ ObservedStatus \in Status \/ ~Observable
         /\ CloudProgress => CloudTypeOK'
         /\ CloudDeleted => CloudTypeOK'
         /\ CloudCreate => CloudTypeOK'
         /\ CancelStarts => CloudTypeOK'
         /\ DeleteStarts => CloudTypeOK'
         /\ CancelRefused \/ DeleteRefused \/ OperationDone => CloudTypeOK'
<1>1. \A s \in CloudState : Move(s) => CloudTypeOK'
  BY DEF CloudTypeOK, Move
<1>2. /\ {"PENDING", "RUNNING"} \subseteq Active
      /\ Active \subseteq CloudState
      /\ Terminal \subseteq CloudState
      /\ {"deleting", "gone"} \subseteq CloudState
  BY StoreAssumption DEF CloudState, Status
<1>3. {"COMPLETED", "FAILED", "CANCELLED"} \subseteq CloudState
  BY <1>2 DEF Terminal
<1>4. CloudProgress => CloudTypeOK'
  BY <1>1, <1>2, <1>3 DEF CloudProgress
<1>5. CloudDeleted => CloudTypeOK'
  BY <1>1, <1>2 DEF CloudDeleted
<1>6. CloudCreate => CloudTypeOK'
  BY <1>1, <1>2 DEF CloudCreate
<1>7. CancelStarts => CloudTypeOK'
  BY <1>1, <1>2, <1>3 DEF CancelStarts
<1>8. DeleteStarts => CloudTypeOK'
  BY <1>1, <1>2 DEF DeleteStarts
<1>9. CancelRefused \/ DeleteRefused \/ OperationDone => CloudTypeOK'
  BY DEF CancelRefused, DeleteRefused, OperationDone, CloudTypeOK, cloudVars
<1>10. ObservedStatus \in Status \/ ~Observable
  BY DEF CloudTypeOK, CloudState, Observable, ObservedStatus, Status, Terminal
<1> QED
  BY <1>4, <1>5, <1>6, <1>7, <1>8, <1>9, <1>10

\* The operations on the map of pollers keep the types of the pool.
LEMMA PoolTypes ==
  ASSUME PoolTypeOK, NEW w \in Workers, NEW s \in Status
  PROVE  /\ startJobPoller(w, s) =>
              poller' \in [Pollers -> Poller] /\ registry' \in [Workers -> Pollers \cup {NoPoller}]
         /\ stopPollerForJob(w) =>
              poller' \in [Pollers -> Poller] /\ registry' \in [Workers -> Pollers \cup {NoPoller}]
         /\ unregisterPoller(w) => registry' \in [Workers -> Pollers \cup {NoPoller}]
         /\ PoolCrash(w) => PoolTypeOK'
         /\ StopAllPollers(w) => PoolTypeOK'
<1> USE DEF PoolTypeOK
<1>1. \A p \in Pollers : [poller[p] EXCEPT !.done = TRUE] \in Poller
  BY DEF Poller
<1>2. stopPollerForJob(w) =>
        poller' \in [Pollers -> Poller] /\ registry' \in [Workers -> Pollers \cup {NoPoller}]
  BY <1>1 DEF stopPollerForJob
<1>3. startJobPoller(w, s) =>
        poller' \in [Pollers -> Poller] /\ registry' \in [Workers -> Pollers \cup {NoPoller}]
  <2>1. (\E p \in Pollers : Free(p)) => FreePoller \in Pollers
    BY DEF FreePoller
  <2> QED
    BY <2>1, RecordTypes DEF startJobPoller
<1>4. unregisterPoller(w) => registry' \in [Workers -> Pollers \cup {NoPoller}]
  BY DEF unregisterPoller
<1>5. PoolCrash(w) => PoolTypeOK'
  BY RecordTypes DEF PoolCrash
<1>6. StopAllPollers(w) => PoolTypeOK'
  BY <1>2 DEF StopAllPollers
<1> QED
  BY <1>2, <1>3, <1>4, <1>5, <1>6

\* A poller that is somewhere else in poll, or about to return, is a poller.
LEMMA PollerTypes ==
  ASSUME PoolTypeOK, NEW p \in Pollers
  PROVE  /\ \A pc \in {"free", "wait", "reclaim", "get", "update", "record", "publish", "exit"} :
              PollGoto(p, pc) => poller' \in [Pollers -> Poller]
         /\ PollReturns(p) => poller' \in [Pollers -> Poller]
         /\ poller[p] \in Poller
         /\ poller[p].worker \in Workers
         /\ poller[p].currentStatus \in Status
         /\ poller[p].failedAttempts \in 0..maxFailedAttempts - 1
<1>1. /\ poller[p] \in Poller
      /\ poller[p].worker \in Workers
      /\ poller[p].currentStatus \in Status
      /\ poller[p].failedAttempts \in 0..maxFailedAttempts - 1
  BY DEF PoolTypeOK, Poller
<1>2. PollReturns(p) => poller' \in [Pollers -> Poller]
  BY <1>1, RecordTypes DEF PollReturns, PoolTypeOK
<1>3. ASSUME NEW pc \in {"free", "wait", "reclaim", "get", "update", "record", "publish", "exit"}
      PROVE  PollGoto(p, pc) => poller' \in [Pollers -> Poller]
  <2>1. [poller[p] EXCEPT !.pc = pc] \in Poller
    BY <1>1 DEF Poller
  <2> QED
    BY <2>1 DEF PollGoto, PoolTypeOK
<1> QED
  BY <1>1, <1>2, <1>3

\* Init establishes the types.
LEMMA InitTypes == Init => TypeOK
<1> SUFFICES ASSUME Init PROVE TypeOK
  OBVIOUS
<1> USE DEF Init
<1>1. StoreTypeOK
  BY RecordTypes, StoreAssumption DEF StoreTypeOK
<1>2. CloudTypeOK
  BY StoreAssumption DEF CloudTypeOK, CloudState, Status
<1>3. PoolTypeOK
  BY RecordTypes DEF PoolInit, PoolTypeOK
<1>4. submit \in Submit
  BY RecordTypes DEF Submit, IdleSubmit
<1> QED
  BY <1>1, <1>2, <1>3, <1>4, RecordTypes, ServiceBounds DEF TypeOK

\* Where the handlers can be.
SubmitPCs == {"idle", "dispatch", "fail", "failpublish", "setpath", "start", "done", "error"}
RequestPCs == {"idle", "cancelcloud", "cancelwait", "cancelrow", "cancelrecord",
               "cancelpublish", "cancelstop", "deletecloud", "deletewait", "deleterow",
               "deletestop", "cancelled", "deleted", "error"}

\* What the steps of SubmitJob do to their record keeps its type.
LEMMA SubmitTypes ==
  ASSUME TypeOK
  PROVE  /\ \A pc \in SubmitPCs : (SubmitGoto(pc) \/ SubmitReturns(pc)) => submit' \in Submit
         /\ submit.worker \in Workers /\ submit.status \in Status
BY RecordTypes DEF TypeOK, Submit, SubmitGoto, SubmitReturns, SubmitPCs

\* So does what the steps of CancelJob and DeleteJob do to theirs.
LEMMA RequestTypes ==
  ASSUME TypeOK, NEW r \in Requests
  PROVE  /\ \A pc \in RequestPCs :
              /\ Goto(r, pc) => request' \in [Requests -> Request]
              /\ Respond(r, pc) => request' \in [Requests -> Request]
              /\ \A w \in Workers : Begin(r, w, pc) => request' \in [Requests -> Request]
         /\ request[r].worker \in Workers
<1>1. request[r] \in Request /\ IdleRequest \in Request
  BY RecordTypes DEF TypeOK
<1>2. ASSUME NEW pc \in RequestPCs
      PROVE  /\ Goto(r, pc) => request' \in [Requests -> Request]
             /\ Respond(r, pc) => request' \in [Requests -> Request]
             /\ \A w \in Workers : Begin(r, w, pc) => request' \in [Requests -> Request]
  <2>1. /\ [request[r] EXCEPT !.pc = pc] \in Request
        /\ [IdleRequest EXCEPT !.pc = pc] \in Request
        /\ \A w \in Workers : [pc |-> pc, worker |-> w] \in Request
    BY <1>1 DEF Request, RequestPCs
  <2> QED
    BY <2>1 DEF TypeOK, Goto, Respond, Begin
<1> QED
  BY <1>1, <1>2 DEF Request

\* The statuses the code names are statuses.
LEMMA NamedStatuses == {"PENDING", "RUNNING", "FAILED", "CANCELLED", "COMPLETED"} \subseteq Status
BY StoreAssumption DEF Status, Terminal

\* SubmitJob keeps the types.
LEMMA SubmitJobTypes == TypeOK /\ SubmitJob => TypeOK'
<1> SUFFICES ASSUME TypeOK, SubmitJob PROVE TypeOK'
  OBVIOUS
<1> USE DEF serviceVars, endings, poolVars
<1>1. InitialStatus \subseteq Status
  BY StoreAssumption DEF InitialStatus, Status
<1>2. ASSUME NEW w \in Homes, SubmitInsert(w) PROVE TypeOK'
  <2>1. w \in Workers
    BY HomesAssumption
  <2>2. StoreTypeOK'
    BY <1>2, <2>1, StoreTypes, NamedStatuses DEF SubmitInsert, TypeOK, StoreTypeOK
  <2>3. submit' \in Submit
    BY <1>2, <2>1, SubmitTypes DEF SubmitInsert, TypeOK, Submit, SubmitPCs
  <2> QED
    BY <1>2, <2>2, <2>3 DEF SubmitInsert, TypeOK, CloudTypeOK, cloudVars, PoolTypeOK
<1>3. CASE SubmitDispatch
  <2>1. StoreTypeOK'
    BY <1>3, AnyWorkerIsAWorker, StoreTypes, NamedStatuses
    DEF SubmitDispatch, TypeOK, StoreTypeOK, storeVars
  <2>2. submit' \in Submit
    BY <1>1, <1>3, SubmitTypes DEF SubmitDispatch, TypeOK, Submit, SubmitPCs
  <2>3. CloudTypeOK'
    BY <1>3, CloudTypes DEF SubmitDispatch, TypeOK, CloudTypeOK, cloudVars
  <2> QED
    BY <1>3, <2>1, <2>2, <2>3 DEF SubmitDispatch, TypeOK, PoolTypeOK
<1>4. CASE SubmitFail
  <2>1. StoreTypeOK'
    BY <1>4, AnyWorkerIsAWorker, StoreTypes, NamedStatuses DEF SubmitFail, TypeOK, StoreTypeOK
  <2>2. submit' \in Submit
    BY <1>4, SubmitTypes DEF SubmitFail, SubmitPCs
  <2> QED
    BY <1>4, <2>1, <2>2 DEF SubmitFail, TypeOK, CloudTypeOK, cloudVars, PoolTypeOK
<1>5. CASE SubmitFailPublish
  <2>1. StoreTypeOK' /\ published' \in SUBSET Status
    BY <1>5, AnyWorkerIsAWorker, StoreTypes, NamedStatuses
    DEF SubmitFailPublish, publishTerminalEvent, TypeOK, StoreTypeOK, PoolTypeOK, storeVars, Terminal
  <2>2. submit' \in Submit
    BY <1>5, SubmitTypes DEF SubmitFailPublish, SubmitPCs
  <2> QED
    BY <1>5, <2>1, <2>2 DEF SubmitFailPublish, TypeOK, CloudTypeOK, cloudVars, PoolTypeOK
<1>6. CASE SubmitSetPath
  <2>1. StoreTypeOK'
    BY <1>6, AnyWorkerIsAWorker, StoreTypes, SubmitTypes DEF SubmitSetPath, TypeOK, StoreTypeOK
  <2>2. submit' \in Submit
    BY <1>6, SubmitTypes DEF SubmitSetPath, SubmitPCs
  <2> QED
    BY <1>6, <2>1, <2>2 DEF SubmitSetPath, TypeOK, CloudTypeOK, cloudVars, PoolTypeOK
<1>7. CASE SubmitStart
  <2>1. PoolTypeOK'
    BY <1>7, PoolTypes, SubmitTypes DEF SubmitStart, TypeOK, PoolTypeOK
  <2>2. submit' \in Submit
    BY <1>7, SubmitTypes DEF SubmitStart, SubmitPCs
  <2> QED
    BY <1>7, <2>1, <2>2 DEF SubmitStart, TypeOK, StoreTypeOK, storeVars, CloudTypeOK, cloudVars
<1> QED
  BY <1>2, <1>3, <1>4, <1>5, <1>6, <1>7 DEF SubmitJob

\* CancelJob keeps the types.
LEMMA CancelJobTypes ==
  ASSUME TypeOK, NEW r \in Requests, CancelJob(r)
  PROVE  TypeOK'
<1> USE DEF serviceVars, endings, poolVars
<1>1. ASSUME NEW w \in Homes, CancelBegin(r, w) PROVE TypeOK'
  <2>1. request' \in [Requests -> Request]
    BY <1>1, RequestTypes, HomesAssumption DEF CancelBegin, RequestPCs
  <2> QED
    BY <1>1, <2>1 DEF CancelBegin, TypeOK, vars, StoreTypeOK, storeVars, CloudTypeOK,
       cloudVars, PoolTypeOK
<1>2. CASE CancelCloud(r)
  <2>1. request' \in [Requests -> Request]
    BY <1>2, RequestTypes DEF CancelCloud, RequestPCs
  <2>2. CloudTypeOK'
    BY <1>2, CloudTypes DEF CancelCloud, TypeOK, CloudTypeOK, cloudVars
  <2>3. StoreTypeOK'
    BY <1>2, AnyWorkerIsAWorker, StoreTypes, NamedStatuses DEF CancelCloud, TypeOK, StoreTypeOK, storeVars
  <2> QED
    BY <1>2, <2>1, <2>2, <2>3 DEF CancelCloud, TypeOK, PoolTypeOK
<1>3. CASE CancelWait(r)
  <2>1. request' \in [Requests -> Request]
    BY <1>3, RequestTypes DEF CancelWait, RequestPCs
  <2>2. CloudTypeOK'
    BY <1>3, CloudTypes DEF CancelWait, TypeOK, CloudTypeOK, cloudVars
  <2>3. StoreTypeOK'
    BY <1>3, AnyWorkerIsAWorker, StoreTypes, NamedStatuses DEF CancelWait, TypeOK, StoreTypeOK, storeVars
  <2> QED
    BY <1>3, <2>1, <2>2, <2>3 DEF CancelWait, TypeOK, PoolTypeOK
<1>4. CASE CancelRow(r)
  <2>1. request' \in [Requests -> Request]
    BY <1>4, RequestTypes DEF CancelRow, RequestPCs
  <2>2. StoreTypeOK'
    BY <1>4, AnyWorkerIsAWorker, StoreTypes, NamedStatuses DEF CancelRow, TypeOK, StoreTypeOK
  <2> QED
    BY <1>4, <2>1, <2>2 DEF CancelRow, TypeOK, CloudTypeOK, cloudVars, PoolTypeOK
<1>5. CASE CancelRecord(r)
  <2>1. request' \in [Requests -> Request]
    BY <1>5, RequestTypes DEF CancelRecord, RequestPCs
  <2>2. StoreTypeOK'
    BY <1>5, AnyWorkerIsAWorker, StoreTypes, NamedStatuses DEF CancelRecord, TypeOK, StoreTypeOK
  <2> QED
    BY <1>5, <2>1, <2>2 DEF CancelRecord, TypeOK, CloudTypeOK, cloudVars, PoolTypeOK
<1>6. CASE CancelPublish(r)
  <2>1. request' \in [Requests -> Request]
    BY <1>6, RequestTypes DEF CancelPublish, RequestPCs
  <2>2. StoreTypeOK' /\ published' \in SUBSET Status
    BY <1>6, AnyWorkerIsAWorker, StoreTypes, NamedStatuses
    DEF CancelPublish, publishTerminalEvent, TypeOK, StoreTypeOK, PoolTypeOK, storeVars, Terminal
  <2> QED
    BY <1>6, <2>1, <2>2 DEF CancelPublish, TypeOK, CloudTypeOK, cloudVars, PoolTypeOK
<1>7. CASE CancelStop(r)
  <2>1. request' \in [Requests -> Request]
    BY <1>7, RequestTypes DEF CancelStop, RequestPCs
  <2>2. PoolTypeOK'
    BY <1>7, RequestTypes, PoolTypes, NamedStatuses DEF CancelStop, TypeOK, PoolTypeOK
  <2> QED
    BY <1>7, <2>1, <2>2 DEF CancelStop, TypeOK, StoreTypeOK, storeVars, CloudTypeOK, cloudVars
<1> QED
  BY <1>1, <1>2, <1>3, <1>4, <1>5, <1>6, <1>7, CancelJob(r) DEF CancelJob

\* DeleteJob keeps the types.
LEMMA DeleteJobTypes ==
  ASSUME TypeOK, NEW r \in Requests, DeleteJob(r)
  PROVE  TypeOK'
<1> USE DEF serviceVars, endings, poolVars
<1>1. ASSUME NEW w \in Homes, DeleteBegin(r, w) PROVE TypeOK'
  <2>1. request' \in [Requests -> Request]
    BY <1>1, RequestTypes, HomesAssumption DEF DeleteBegin, RequestPCs
  <2> QED
    BY <1>1, <2>1 DEF DeleteBegin, TypeOK, vars, StoreTypeOK, storeVars, CloudTypeOK,
       cloudVars, PoolTypeOK
<1>2. CASE DeleteCloud(r)
  <2>1. request' \in [Requests -> Request]
    BY <1>2, RequestTypes DEF DeleteCloud, RequestPCs
  <2>2. CloudTypeOK'
    BY <1>2, CloudTypes DEF DeleteCloud, TypeOK, CloudTypeOK, cloudVars
  <2>3. StoreTypeOK'
    BY <1>2, AnyWorkerIsAWorker, StoreTypes, NamedStatuses DEF DeleteCloud, TypeOK, StoreTypeOK, storeVars
  <2> QED
    BY <1>2, <2>1, <2>2, <2>3 DEF DeleteCloud, TypeOK, PoolTypeOK
<1>3. CASE DeleteWait(r)
  <2>1. request' \in [Requests -> Request]
    BY <1>3, RequestTypes DEF DeleteWait, RequestPCs
  <2>2. CloudTypeOK'
    BY <1>3, CloudTypes DEF DeleteWait, TypeOK, CloudTypeOK, cloudVars
  <2>3. StoreTypeOK'
    BY <1>3, AnyWorkerIsAWorker, StoreTypes, NamedStatuses DEF DeleteWait, TypeOK, StoreTypeOK, storeVars
  <2> QED
    BY <1>3, <2>1, <2>2, <2>3 DEF DeleteWait, TypeOK, PoolTypeOK
<1>4. CASE DeleteRow(r)
  <2>1. request' \in [Requests -> Request]
    BY <1>4, RequestTypes DEF DeleteRow, RequestPCs
  <2>2. StoreTypeOK'
    BY <1>4, AnyWorkerIsAWorker, StoreTypes, NamedStatuses DEF DeleteRow, TypeOK, StoreTypeOK
  <2> QED
    BY <1>4, <2>1, <2>2 DEF DeleteRow, TypeOK, CloudTypeOK, cloudVars, PoolTypeOK
<1>5. CASE DeleteStop(r)
  <2>1. request' \in [Requests -> Request]
    BY <1>5, RequestTypes DEF DeleteStop, RequestPCs
  <2>2. PoolTypeOK'
    BY <1>5, RequestTypes, PoolTypes, NamedStatuses DEF DeleteStop, TypeOK, PoolTypeOK
  <2> QED
    BY <1>5, <2>1, <2>2 DEF DeleteStop, TypeOK, StoreTypeOK, storeVars, CloudTypeOK, cloudVars
<1> QED
  BY <1>1, <1>2, <1>3, <1>4, <1>5, DeleteJob(r) DEF DeleteJob

\* A poller's step keeps the types.
LEMMA PollTypes ==
  ASSUME TypeOK, NEW p \in Pollers, PollStep(p)
  PROVE  TypeOK'
<1> USE DEF serviceVars, endings
<1>1. /\ poller[p] \in Poller /\ poller[p].worker \in Workers /\ poller[p].currentStatus \in Status
      /\ UNCHANGED serviceVars
  BY PollerTypes DEF TypeOK, PollStep
<1>2. CASE PollStopped(p)
  BY <1>1, <1>2, PollerTypes
  DEF PollStopped, TypeOK, StoreTypeOK, storeVars, CloudTypeOK, cloudVars, PoolTypeOK
<1>3. CASE PollClaim(p)
  <2>1. StoreTypeOK'
    BY <1>1, <1>3, StoreTypes DEF PollClaim, TypeOK
  <2>2. poller' \in [Pollers -> Poller]
    BY <1>3, PollerTypes DEF PollClaim, TypeOK
  <2> QED
    BY <1>1, <1>3, <2>1, <2>2 DEF PollClaim, TypeOK, CloudTypeOK, cloudVars, PoolTypeOK
<1>4. CASE PollGet(p)
  <2>1. ObservedStatus \in Status
    BY <1>4, CloudTypes DEF PollGet, TypeOK
  <2>2. /\ [poller[p] EXCEPT !.pc = "wait", !.failedAttempts = 0] \in Poller
        /\ [poller[p] EXCEPT !.pc = "update", !.failedAttempts = 0,
                             !.currentStatus = ObservedStatus] \in Poller
    <3>1. 0 \in 0..maxFailedAttempts - 1
      BY PollerAssumption
    <3> QED
      BY <1>1, <2>1, <3>1 DEF Poller
  <2>3. poller' \in [Pollers -> Poller]
    BY <1>4, <2>2 DEF PollGet, TypeOK, PoolTypeOK
  <2> QED
    BY <1>1, <1>4, <2>3
    DEF PollGet, TypeOK, StoreTypeOK, storeVars, CloudTypeOK, cloudVars, PoolTypeOK
<1>5. CASE PollGetFails(p)
  <2> DEFINE n == poller[p].failedAttempts + 1
  <2>1. StoreTypeOK'
    BY <1>1, <1>5, StoreTypes DEF PollGetFails, TypeOK, StoreTypeOK, storeVars
  <2>2. ASSUME n < maxFailedAttempts
        PROVE  [poller[p] EXCEPT !.pc = "wait", !.failedAttempts = n] \in Poller
    <3>1. n \in 0..maxFailedAttempts - 1
      BY <1>1, <2>2, PollerAssumption, PollerTypes DEF TypeOK
    <3> QED
      BY <1>1, <3>1 DEF Poller
  <2>3. poller' \in [Pollers -> Poller]
    BY <1>5, <2>2, PollerTypes DEF PollGetFails, TypeOK, PoolTypeOK
  <2> QED
    BY <1>1, <1>5, <2>1, <2>3 DEF PollGetFails, TypeOK, CloudTypeOK, cloudVars, PoolTypeOK
<1>6. CASE PollUpdate(p)
  <2>1. StoreTypeOK'
    BY <1>1, <1>6, StoreTypes DEF PollUpdate, TypeOK, StoreTypeOK
  <2>2. poller' \in [Pollers -> Poller]
    BY <1>6, PollerTypes DEF PollUpdate, TypeOK
  <2> QED
    BY <1>1, <1>6, <2>1, <2>2 DEF PollUpdate, TypeOK, CloudTypeOK, cloudVars, PoolTypeOK
<1>7. CASE PollRecord(p)
  <2>1. StoreTypeOK'
    BY <1>1, <1>7, StoreTypes DEF PollRecord, TypeOK, StoreTypeOK
  <2>2. poller' \in [Pollers -> Poller]
    BY <1>7, PollerTypes DEF PollRecord, TypeOK
  <2> QED
    BY <1>1, <1>7, <2>1, <2>2 DEF PollRecord, TypeOK, CloudTypeOK, cloudVars, PoolTypeOK
<1>8. CASE PollPublish(p)
  <2>1. StoreTypeOK' /\ published' \in SUBSET Status
    BY <1>1, <1>8, StoreTypes
    DEF PollPublish, publishTerminalEvent, TypeOK, StoreTypeOK, PoolTypeOK, storeVars
  <2>2. poller' \in [Pollers -> Poller]
    BY <1>8, PollerTypes DEF PollPublish, TypeOK
  <2> QED
    BY <1>1, <1>8, <2>1, <2>2 DEF PollPublish, TypeOK, CloudTypeOK, cloudVars, PoolTypeOK
<1>9. CASE PollExit(p)
  <2>1. poller' \in [Pollers -> Poller] /\ registry' \in [Workers -> Pollers \cup {NoPoller}]
    BY <1>1, <1>9, RecordTypes, PoolTypes DEF PollExit, TypeOK, PoolTypeOK
  <2> QED
    BY <1>1, <1>9, <2>1
    DEF PollExit, TypeOK, StoreTypeOK, storeVars, CloudTypeOK, cloudVars, PoolTypeOK
<1> QED
  BY <1>2, <1>3, <1>4, <1>5, <1>6, <1>7, <1>8, <1>9, PollStep(p) DEF PollStep, Poll

\* A reconciler's step keeps the types.
LEMMA ReconcileTypes ==
  ASSUME TypeOK, NEW w \in Workers, ReconcileStep(w)
  PROVE  TypeOK'
<1> USE DEF serviceVars, endings
<1>1. /\ recon[w] \in Reconciler /\ recon[w].snapshot \in Status /\ IdleReconciler \in Reconciler
      /\ UNCHANGED serviceVars
  BY RecordTypes DEF TypeOK, PoolTypeOK, Reconciler, ReconcileStep
<1>2. CASE ReconcileList(w)
  <2>1. [pc |-> "claim", snapshot |-> row.status] \in Reconciler
    BY <1>2 DEF ReconcileList, ListedActive, Reconciler, Status
  <2> QED
    BY <1>1, <1>2, <2>1
    DEF ReconcileList, TypeOK, StoreTypeOK, storeVars, CloudTypeOK, cloudVars, PoolTypeOK
<1>3. CASE ReconcileClaim(w)
  <2>1. StoreTypeOK'
    BY <1>1, <1>3, StoreTypes DEF ReconcileClaim, TypeOK
  <2>2. \A pc \in {"reclaim", "start"} : [recon[w] EXCEPT !.pc = pc] \in Reconciler
    BY <1>1 DEF Reconciler
  <2>3. recon' \in [Workers -> Reconciler]
    BY <1>1, <1>3, <2>2 DEF ReconcileClaim, ReconGoto, ReconNext, TypeOK, PoolTypeOK
  <2> QED
    BY <1>1, <1>3, <2>1, <2>3 DEF ReconcileClaim, TypeOK, CloudTypeOK, cloudVars, PoolTypeOK
<1>4. CASE ReconcileStart(w)
  <2>1. recon' \in [Workers -> Reconciler]
    BY <1>1, <1>4 DEF ReconcileStart, ReconNext, TypeOK, PoolTypeOK
  <2>2. poller' \in [Pollers -> Poller] /\ registry' \in [Workers -> Pollers \cup {NoPoller}]
    BY <1>1, <1>4, PoolTypes DEF ReconcileStart, TypeOK
  <2> QED
    BY <1>1, <1>4, <2>1, <2>2
    DEF ReconcileStart, TypeOK, StoreTypeOK, storeVars, CloudTypeOK, cloudVars, PoolTypeOK
<1> QED
  BY <1>2, <1>3, <1>4, ReconcileStep(w) DEF ReconcileStep

\* A worker process that ends, shuts down or starts again keeps the types.
LEMMA ProcessTypes ==
  ASSUME TypeOK, NEW w \in Workers, Crash(w) \/ Shutdown(w) \/ ShutdownDone(w) \/ Restart(w)
  PROVE  TypeOK'
<1> USE DEF endings
<1>1. ASSUME ProcessEnds(w)
      PROVE  /\ up' \in [Workers -> {"up", "draining", "down"}]
             /\ PoolTypeOK' /\ StoreTypeOK' /\ CloudTypeOK'
             /\ submit' \in Submit /\ request' \in [Requests -> Request]
  <2>1. PoolTypeOK'
    BY <1>1, PoolTypes, NamedStatuses DEF ProcessEnds, TypeOK
  <2>2. submit' \in Submit
    BY <1>1, SubmitTypes DEF ProcessEnds, SubmitPCs, TypeOK
  <2>3. [IdleRequest EXCEPT !.pc = "error"] \in Request
    BY RecordTypes DEF Request
  <2>4. request' \in [Requests -> Request]
    BY <1>1, <2>3 DEF ProcessEnds, TypeOK
  <2>5. up' \in [Workers -> {"up", "draining", "down"}] /\ StoreTypeOK' /\ CloudTypeOK'
    BY <1>1 DEF ProcessEnds, TypeOK, StoreTypeOK, storeVars, CloudTypeOK, cloudVars
  <2> QED
    BY <2>1, <2>2, <2>4, <2>5
<1>2. CASE Crash(w)
  BY <1>1, <1>2, ServiceBounds DEF Crash, TypeOK
<1>3. CASE ShutdownDone(w)
  BY <1>1, <1>3 DEF ShutdownDone, TypeOK
<1>4. CASE Shutdown(w)
  <2>1. PoolTypeOK'
    BY <1>4, PoolTypes, NamedStatuses DEF Shutdown, TypeOK
  <2> QED
    BY <1>4, <2>1, ServiceBounds
    DEF Shutdown, TypeOK, StoreTypeOK, storeVars, CloudTypeOK, cloudVars
<1>5. CASE Restart(w)
  BY <1>5 DEF Restart, TypeOK, vars, StoreTypeOK, storeVars, CloudTypeOK, cloudVars,
     PoolTypeOK, poolVars
<1> QED
  BY <1>2, <1>3, <1>4, <1>5

\* Every step keeps the types.
LEMMA NextTypes == TypeOK /\ [Next]_allVars => TypeOK'
<1> SUFFICES ASSUME TypeOK, [Next]_allVars PROVE TypeOK'
  OBVIOUS
<1>1. CASE SubmitJob
  BY <1>1, SubmitJobTypes
<1>2. CASE \E r \in Requests : CancelJob(r) \/ DeleteJob(r)
  BY <1>2, CancelJobTypes, DeleteJobTypes
<1>3. CASE \E p \in Pollers : PollStep(p)
  BY <1>3, PollTypes
<1>4. CASE \E w \in Workers : ReconcileStep(w) \/ Crash(w) \/ Shutdown(w) \/ ShutdownDone(w) \/ Restart(w)
  BY <1>4, ReconcileTypes, ProcessTypes
<1>5. CASE CloudStep
  <2>1. StoreTypeOK' /\ CloudTypeOK'
    BY <1>5, CloudTypes
    DEF CloudStep, CloudProgress, CloudDeleted, TypeOK, StoreTypeOK, storeVars
  <2> QED
    BY <1>5, <2>1 DEF CloudStep, TypeOK, PoolTypeOK, poolVars, serviceVars, endings
<1>6. CASE LeaseStep
  <2>1. StoreTypeOK'
    BY <1>6, AnyWorkerIsAWorker, NamedStatuses, StoreTypes DEF LeaseStep, TypeOK, StoreTypeOK
  <2> QED
    BY <1>6, <2>1
    DEF LeaseStep, TypeOK, CloudTypeOK, cloudVars, PoolTypeOK, poolVars, serviceVars, endings
<1>7. CASE UNCHANGED allVars
  BY <1>7 DEF allVars, vars, storeVars, cloudVars, poolVars, serviceVars, endings, TypeOK,
     StoreTypeOK, CloudTypeOK, PoolTypeOK
<1> QED
  BY <1>1, <1>2, <1>3, <1>4, <1>5, <1>6, <1>7 DEF Next

\* Type correctness.
THEOREM TypeCorrect == Spec => []TypeOK
BY InitTypes, NextTypes, PTL DEF Spec

(***************************************************************************)
(* Registration of pollers                                                 *)
(***************************************************************************)

\* The map of pollers never holds one that has ended.  The types are needed: an
\* entry is a poller, and a poller belongs to one worker, so that the entry a
\* poller removes when it ends is that of no other worker.
LEMMA NextRegistration == TypeOK /\ NoDeadRegistration /\ [Next]_allVars => NoDeadRegistration'
<1> SUFFICES ASSUME TypeOK, NoDeadRegistration, [Next]_allVars PROVE NoDeadRegistration'
  OBVIOUS
<1> USE DEF NoDeadRegistration, Free
<1>1. /\ poller \in [Pollers -> Poller]
      /\ registry \in [Workers -> Pollers \cup {NoPoller}]
      /\ NoPoller \notin Pollers
  BY PollerAssumption DEF TypeOK, PoolTypeOK
<1>2. ASSUME UNCHANGED <<poller, registry>> PROVE NoDeadRegistration'
  BY <1>2
<1>3. ASSUME NEW w \in Workers, NEW s \in Status, startJobPoller(w, s) PROVE NoDeadRegistration'
  <2>1. CASE UNCHANGED <<poller, registry>>
    BY <1>2, <2>1
  <2>2. CASE \E p \in Pollers : Free(p)
    <3>1. FreePoller \in Pollers /\ poller[FreePoller].pc = "free"
      BY <2>2 DEF FreePoller
    <3>2. NewPoller(w, s).pc = "wait" /\ NewPoller(w, s).worker = w
      BY DEF NewPoller
    <3>3. CASE /\ poller' = [poller EXCEPT ![FreePoller] = NewPoller(w, s)]
               /\ registry' = [registry EXCEPT ![w] = FreePoller]
      BY <1>1, <3>1, <3>2, <3>3
    <3> QED
      BY <1>2, <1>3, <3>3 DEF startJobPoller
  <2> QED
    BY <1>3, <2>1, <2>2 DEF startJobPoller
<1>4. ASSUME NEW w \in Workers, stopPollerForJob(w) PROVE NoDeadRegistration'
  <2>1. \A p \in Pollers : poller'[p].pc = poller[p].pc /\ poller'[p].worker = poller[p].worker
    BY <1>1, <1>4 DEF stopPollerForJob, Poller
  <2> QED
    BY <1>1, <1>4, <2>1 DEF stopPollerForJob
<1>5. ASSUME NEW p \in Pollers, UNCHANGED registry, ~Free(p),
             NEW q, poller' = [poller EXCEPT ![p] = q], q.pc # "free", q.worker = poller[p].worker
      PROVE  NoDeadRegistration'
  BY <1>1, <1>5
<1>6. CASE SubmitJob
  BY <1>1, <1>2, <1>3, <1>6, SubmitTypes
  DEF SubmitJob, SubmitInsert, SubmitDispatch, SubmitFail, SubmitFailPublish, SubmitSetPath,
      SubmitStart, poolVars
<1>7. CASE \E r \in Requests : CancelJob(r) \/ DeleteJob(r)
  <2> SUFFICES ASSUME NEW r \in Requests, CancelJob(r) \/ DeleteJob(r) PROVE NoDeadRegistration'
    BY <1>7
  <2>1. CASE CancelStop(r) \/ DeleteStop(r)
    BY <1>4, <2>1, RequestTypes DEF CancelStop, DeleteStop
  <2> QED
    BY <1>2, <2>1 DEF CancelJob, CancelBegin, CancelCloud, CancelWait, CancelRow, CancelRecord,
       CancelPublish, DeleteJob, DeleteBegin, DeleteCloud, DeleteWait, DeleteRow, poolVars, vars
<1>8. ASSUME NEW p \in Pollers, PollStep(p) PROVE NoDeadRegistration'
  <2>1. /\ poller[p] \in Poller
        /\ \A pc : /\ [poller[p] EXCEPT !.pc = pc].pc = pc
                   /\ [poller[p] EXCEPT !.pc = pc].worker = poller[p].worker
        /\ NoLocals(poller[p].worker, "exit").pc = "exit"
        /\ NoLocals(poller[p].worker, "exit").worker = poller[p].worker
    BY <1>1 DEF Poller, NoLocals, NewPoller
  <2>2. ASSUME NEW pc, PollGoto(p, pc), pc # "free", UNCHANGED registry, ~Free(p)
        PROVE  NoDeadRegistration'
    BY <1>1, <1>5, <2>1, <2>2 DEF PollGoto
  <2>3. ASSUME PollReturns(p), UNCHANGED registry, ~Free(p) PROVE NoDeadRegistration'
    BY <1>1, <1>5, <2>1, <2>3 DEF PollReturns
  <2>4. CASE PollStopped(p)
    BY <2>3, <2>4 DEF PollStopped
  <2>5. CASE PollClaim(p)
    BY <2>2, <2>3, <2>5 DEF PollClaim
  <2>6. CASE PollGet(p)
    <3> DEFINE same == [poller[p] EXCEPT !.pc = "wait", !.failedAttempts = 0]
               changed == [poller[p] EXCEPT !.pc = "update", !.failedAttempts = 0,
                                            !.currentStatus = ObservedStatus]
    <3>1. /\ same.pc = "wait" /\ same.worker = poller[p].worker
          /\ changed.pc = "update" /\ changed.worker = poller[p].worker
      BY <2>1 DEF Poller
    <3>2. poller' = [poller EXCEPT ![p] = same] \/ poller' = [poller EXCEPT ![p] = changed]
      BY <1>1, <2>6 DEF PollGet
    <3>3. ~Free(p) /\ UNCHANGED registry
      BY <2>6 DEF PollGet
    <3> HIDE DEF same, changed
    <3>4. CASE poller' = [poller EXCEPT ![p] = same]
      BY <1>5, <3>1, <3>3, <3>4
    <3>5. CASE poller' = [poller EXCEPT ![p] = changed]
      BY <1>5, <3>1, <3>3, <3>5
    <3> QED
      BY <3>2, <3>4, <3>5
  <2>7. CASE PollGetFails(p)
    <3> DEFINE again == [poller[p] EXCEPT !.pc = "wait",
                                          !.failedAttempts = poller[p].failedAttempts + 1]
    <3>1. again.pc = "wait" /\ again.worker = poller[p].worker
      BY <2>1 DEF Poller
    <3>2. poller' = [poller EXCEPT ![p] = again] \/ PollReturns(p)
      BY <1>1, <2>7 DEF PollGetFails
    <3>3. ~Free(p) /\ UNCHANGED registry
      BY <2>7 DEF PollGetFails
    <3> HIDE DEF again
    <3>4. CASE poller' = [poller EXCEPT ![p] = again]
      BY <1>5, <3>1, <3>3, <3>4
    <3> QED
      BY <2>3, <3>2, <3>3, <3>4
  <2>8. CASE PollUpdate(p)
    BY <2>2, <2>8 DEF PollUpdate
  <2>9. CASE PollRecord(p)
    BY <2>2, <2>9 DEF PollRecord
  <2>10. CASE PollPublish(p)
    BY <2>3, <2>10 DEF PollPublish
  <2>11. CASE PollExit(p)
    BY <1>1, <2>11 DEF PollExit, unregisterPoller
  <2> QED
    BY <1>8, <2>4, <2>5, <2>6, <2>7, <2>8, <2>9, <2>10, <2>11 DEF PollStep, Poll
<1>9. ASSUME NEW w \in Workers, ReconcileStep(w) PROVE NoDeadRegistration'
  <2>1. CASE ReconcileStart(w)
    <3>1. recon[w].snapshot \in Status
      BY DEF TypeOK, PoolTypeOK, Reconciler
    <3> QED
      BY <1>3, <2>1, <3>1 DEF ReconcileStart
  <2> QED
    BY <1>2, <1>9, <2>1 DEF ReconcileStep, ReconcileList, ReconcileClaim
<1>10. ASSUME NEW w \in Workers, PoolCrash(w) PROVE NoDeadRegistration'
  BY <1>1, <1>10 DEF PoolCrash
<1>11. ASSUME NEW w \in Workers, Crash(w) \/ Shutdown(w) \/ ShutdownDone(w) \/ Restart(w)
       PROVE  NoDeadRegistration'
  BY <1>2, <1>4, <1>10, <1>11
  DEF Crash, Shutdown, ShutdownDone, Restart, ProcessEnds, StopAllPollers, vars, poolVars
<1>12. CASE CloudStep \/ LeaseStep \/ UNCHANGED allVars
  BY <1>2, <1>12 DEF CloudStep, LeaseStep, allVars, vars, poolVars
<1> QED
  BY <1>6, <1>7, <1>8, <1>9, <1>11, <1>12 DEF Next

\* Whatever stops, restarts and gives up, no worker is left unable to poll a job by
\* an entry of a poller that is no longer there.
THEOREM NoDeadRegistrationHolds == Spec => []NoDeadRegistration
<1>1. Init => NoDeadRegistration
  BY DEF Init, PoolInit, NoDeadRegistration
<1> QED
  BY <1>1, InitTypes, NextTypes, NextRegistration, PTL DEF Spec

(***************************************************************************)
(* The abstract record                                                     *)
(***************************************************************************)

\* What a tenant sees of a row.
LEMMA RecordStatus ==
  ASSUME TypeOK
  PROVE  /\ row # NoRow => recordStatus = row.status /\ row.status \in Status
         /\ row = NoRow => recordStatus \in {"none", "removed"}
         /\ recordStatus \in Status <=> row # NoRow
         /\ Status = Active \cup Terminal
         /\ Active \cap Terminal = {}
         /\ {"none", "removed"} \cap Status = {}
BY StoreAssumption DEF TypeOK, StoreTypeOK, Row, recordStatus, Status, Terminal

\* A step that leaves the status alone may end a pending write, and may begin one
\* while the status is active.
LEMMA StatusKept ==
  ASSUME TypeOK, UNCHANGED recordStatus,
         WritePending' => WritePending \/ recordStatus \in Active
  PROVE  [Record!Next]_(Record!recordVars)
<1>1. WritePending \in BOOLEAN /\ WritePending' \in BOOLEAN
  BY DEF WritePending
<1>2. CASE WritePending' = WritePending
  BY <1>2 DEF Record!recordVars
<1>3. CASE WritePending' = TRUE /\ recordStatus \in Active
  BY <1>3 DEF Record!Next, Record!Decide
<1>4. CASE WritePending = TRUE /\ WritePending' = FALSE
  BY <1>4 DEF Record!Next, Record!GiveUp
<1> QED
  BY <1>1, <1>2, <1>3, <1>4

\* A step that writes the status does so for a pending write.
LEMMA StatusWritten ==
  ASSUME TypeOK, TypeOK', row # NoRow, row' # NoRow, WritePending
  PROVE  [Record!Next]_(Record!recordVars)
<1>1. WritePending' \in BOOLEAN
  BY DEF WritePending
<1>2. recordStatus \in Status /\ recordStatus' \in Status
  BY RecordStatus DEF recordStatus, TypeOK, StoreTypeOK, Row
<1> QED
  BY <1>1, <1>2 DEF Record!Next, Record!Write, Status

\* Those steps are the blind updates of internal/database.
LEMMA StatusWriters ==
  ASSUME TypeOK, TypeOK', WritePending,
         NEW s \in Status, UpdateJobStatus(s) \/ UpdateJobStatusAndGcpBatchJobPath(s) \/ FailJob
  PROVE  [Record!Next]_(Record!recordVars)
<1>1. row # NoRow /\ row' \in Row
  BY AnyWorkerIsAWorker, StoreTypes
  DEF TypeOK, UpdateJobStatus, UpdateJobStatusAndGcpBatchJobPath, FailJob
<1> QED
  BY <1>1, StatusWritten, StoreAssumption

\* Each step of SubmitJob is a step of the abstract record.
LEMMA SubmitJobRecord == TypeOK /\ TypeOK' /\ SubmitJob => [Record!Next]_(Record!recordVars)
<1> SUFFICES ASSUME TypeOK, TypeOK', SubmitJob PROVE [Record!Next]_(Record!recordVars)
  OBVIOUS
<1>1. ASSUME UNCHANGED <<row, poller, request>>, submit.pc # "idle", submit'.pc # "idle",
             submit'.pc \in {"dispatch", "fail", "setpath"} => submit.pc \in {"dispatch", "fail", "setpath"}
      PROVE  [Record!Next]_(Record!recordVars)
  BY <1>1, StatusKept DEF recordStatus, WritePending
<1>2. \A pc \in SubmitPCs : (SubmitGoto(pc) \/ SubmitReturns(pc)) => submit'.pc = pc
  BY DEF SubmitPCs, SubmitGoto, SubmitReturns, IdleSubmit, TypeOK, Submit
<1>3. ASSUME NEW w \in Homes, SubmitInsert(w) PROVE [Record!Next]_(Record!recordVars)
  <2>1. CASE InsertJobFull(w)
    <3>1. recordStatus = "none" /\ recordStatus' = "PENDING" /\ WritePending' \in BOOLEAN
      BY <1>3, <2>1, StoreAssumption, RecordTypes, HomesAssumption
      DEF InsertJobFull, NewRow, SubmitInsert, recordStatus, WritePending
    <3> QED
      BY <3>1 DEF Record!Next, Record!Accept
  <2>2. CASE Outage /\ SubmitReturns("error")
    <3>1. /\ submit.pc = "idle" /\ submit'.pc = "error"
          /\ UNCHANGED <<row, poller, request>>
      BY <1>2, <1>3, <2>2 DEF SubmitPCs, SubmitInsert, Outage, poolVars
    <3>2. WritePending' = WritePending
      BY <3>1 DEF WritePending
    <3>3. CASE row = NoRow
      <4>1. recordStatus = "none" /\ recordStatus' = "removed"
        BY <3>1, <3>3 DEF recordStatus
      <4> QED
        BY <3>2, <4>1 DEF Record!Next, Record!Refuse
    <3>4. CASE row # NoRow
      BY <3>1, <3>2, <3>4, StatusKept DEF recordStatus
    <3> QED
      BY <3>3, <3>4
  <2> QED
    BY <1>3, <2>1, <2>2 DEF SubmitInsert
<1>4. CASE SubmitDispatch
  <2>1. submit.pc = "dispatch" /\ UNCHANGED <<row, poller, request>> /\ submit'.pc \in {"setpath", "fail"}
    BY <1>2, <1>4 DEF SubmitDispatch, storeVars, poolVars, TypeOK, Submit, SubmitPCs
  <2> QED
    BY <1>1, <2>1
<1>5. CASE SubmitFail
  <2>1. submit.pc = "fail" /\ UNCHANGED <<poller, request>> /\ submit'.pc = "failpublish"
    BY <1>2, <1>5 DEF SubmitFail, poolVars, SubmitPCs
  <2>2. CASE FailJob
    BY <2>1, <2>2, StatusWriters, NamedStatuses DEF WritePending
  <2>3. CASE UNCHANGED row
    BY <1>1, <2>1, <2>3
  <2> QED
    BY <1>5, <2>2, <2>3 DEF SubmitFail, Outage, RowMissing, storeVars
<1>6. CASE SubmitFailPublish
  <2>1. submit.pc = "failpublish" /\ UNCHANGED <<row, poller, request>> /\ submit'.pc = "error"
    BY <1>2, <1>6 DEF SubmitFailPublish, publishTerminalEvent, Outage, storeVars, SubmitPCs
  <2> QED
    BY <1>1, <2>1
<1>7. CASE SubmitSetPath
  <2>1. submit.pc = "setpath" /\ UNCHANGED <<poller, request>> /\ submit'.pc \in {"start", "error"}
    BY <1>2, <1>7 DEF SubmitSetPath, poolVars, SubmitPCs
  <2>2. CASE UpdateJobStatusAndGcpBatchJobPath(submit.status)
    BY <2>1, <2>2, StatusWriters, SubmitTypes DEF WritePending
  <2>3. CASE UNCHANGED row
    BY <1>1, <2>1, <2>3
  <2> QED
    BY <1>7, <2>2, <2>3 DEF SubmitSetPath, Outage, RowMissing, storeVars
<1>8. CASE SubmitStart
  <2>1. submit.pc = "start" /\ UNCHANGED <<row, request>> /\ submit'.pc = "done"
    BY <1>2, <1>8 DEF SubmitStart, storeVars, SubmitPCs
  <2>2. \A p \in Pollers : poller'[p].pc \in {"reclaim", "get", "update"} => poller[p] = poller'[p]
    BY <1>8 DEF SubmitStart, startJobPoller, NewPoller, TypeOK, PoolTypeOK
  <2> QED
    BY <2>1, <2>2, StatusKept DEF recordStatus, WritePending
<1> QED
  BY <1>3, <1>4, <1>5, <1>6, <1>7, <1>8 DEF SubmitJob

\* A row that exists was submitted.
Submitted == submit.pc = "idle" => row = NoRow

\* That is an invariant: a row is inserted by a submission that goes on, and a
\* handler never returns to "idle".
LEMMA NextSubmitted == TypeOK /\ Submitted /\ [Next]_allVars => Submitted'
<1> SUFFICES ASSUME TypeOK, Submitted, [Next]_allVars PROVE Submitted'
  OBVIOUS
<1> USE DEF Submitted
<1>1. ASSUME UNCHANGED submit, row = NoRow => row' = NoRow PROVE Submitted'
  BY <1>1
<1>2. \A pc \in SubmitPCs : (SubmitGoto(pc) \/ SubmitReturns(pc)) => submit'.pc = pc
  BY DEF SubmitPCs, SubmitGoto, SubmitReturns, IdleSubmit, TypeOK, Submit
<1>3. CASE SubmitJob
  <2>1. submit'.pc # "idle"
    BY <1>2, <1>3 DEF SubmitJob, SubmitInsert, SubmitDispatch, SubmitFail, SubmitFailPublish,
       SubmitSetPath, SubmitStart, SubmitPCs, TypeOK, Submit
  <2> QED
    BY <2>1
<1>4. CASE \E r \in Requests : CancelJob(r) \/ DeleteJob(r)
  BY <1>1, <1>4 DEF CancelJob, CancelBegin, CancelCloud, CancelWait, CancelRow, CancelRecord,
     CancelPublish, CancelStop, DeleteJob, DeleteBegin, DeleteCloud, DeleteWait, DeleteRow,
     DeleteStop, vars, storeVars, Outage, RowMissing, UpdateJobStatus, RecordStateTransition,
     publishTerminalEvent, DeleteJobRow
<1>5. CASE \E p \in Pollers : PollStep(p)
  BY <1>1, <1>5 DEF PollStep, Poll, PollStopped, PollClaim, PollGet, PollGetFails, PollUpdate,
     PollRecord, PollPublish, PollExit, serviceVars, storeVars, Outage, RowMissing, ClaimCommits,
     ClaimDeclined, ClaimAborted, UpdateJobStatus, RecordStateTransition, publishTerminalEvent
<1>6. CASE \E w \in Workers : ReconcileStep(w)
  BY <1>1, <1>6 DEF ReconcileStep, ReconcileList, ReconcileClaim, ReconcileStart, serviceVars,
     storeVars, Outage, RowMissing, ClaimCommits, ClaimDeclined, ClaimAborted
<1>7. CASE \E w \in Workers : Crash(w) \/ Shutdown(w) \/ ShutdownDone(w) \/ Restart(w)
  <2>1. UNCHANGED row
    BY <1>7 DEF Crash, Shutdown, ShutdownDone, ProcessEnds, Restart, storeVars, vars
  <2>2. submit' = submit \/ submit'.pc = "error"
    BY <1>2, <1>7 DEF Crash, Shutdown, ShutdownDone, ProcessEnds, Restart, SubmitPCs
  <2> QED
    BY <2>1, <2>2
<1>8. CASE CloudStep \/ LeaseStep \/ UNCHANGED allVars
  BY <1>1, <1>8 DEF CloudStep, CloudProgress, CloudDeleted, LeaseStep, LeaseExpires, allVars,
     vars, serviceVars, storeVars
<1> QED
  BY <1>3, <1>4, <1>5, <1>6, <1>7, <1>8 DEF Next

\* So is each step of CancelJob and DeleteJob, ...
LEMMA RequestRecord ==
  ASSUME TypeOK, TypeOK', Submitted, NEW r \in Requests, CancelJob(r) \/ DeleteJob(r)
  PROVE  [Record!Next]_(Record!recordVars)
<1> DEFINE Writes == {"cancelcloud", "cancelwait", "cancelrow"}
<1>1. ASSUME UNCHANGED <<row, poller, submit>>,
             request'[r].pc \in Writes => request[r].pc \in Writes \/ recordStatus \in Active,
             \A q \in Requests \ {r} : request'[q] = request[q]
      PROVE  [Record!Next]_(Record!recordVars)
  <2>1. WritePending' => WritePending \/ recordStatus \in Active
    BY <1>1 DEF WritePending
  <2> QED
    BY <1>1, <2>1, StatusKept DEF recordStatus
<1>2. \A pc \in RequestPCs : Goto(r, pc) \/ Respond(r, pc) \/ (\E w \in Workers : Begin(r, w, pc))
        => request'[r].pc = pc /\ \A q \in Requests \ {r} : request'[q] = request[q]
  BY DEF Goto, Respond, Begin, IdleRequest, TypeOK, Request
<1>3. Homes \subseteq Workers
  BY HomesAssumption
<1>4. ASSUME NEW w \in Homes, CancelBegin(r, w) PROVE [Record!Next]_(Record!recordVars)
  <2>1. recordStatus \in Active
    BY <1>4, RecordStatus DEF CancelBegin
  <2>2. UNCHANGED <<row, poller, submit>> /\ \A q \in Requests \ {r} : request'[q] = request[q]
    BY <1>2, <1>3, <1>4 DEF CancelBegin, vars, storeVars, poolVars, RequestPCs
  <2> QED
    BY <1>1, <2>1, <2>2
<1>5. CASE CancelCloud(r) \/ CancelWait(r)
  <2>1. /\ request[r].pc \in Writes
        /\ UNCHANGED <<row, poller, submit>> /\ \A q \in Requests \ {r} : request'[q] = request[q]
    BY <1>2, <1>5 DEF CancelCloud, CancelWait, Outage, storeVars, poolVars, RequestPCs
  <2> QED
    BY <1>1, <2>1
<1>6. CASE CancelRow(r)
  <2>1. request[r].pc = "cancelrow" /\ \A q \in Requests \ {r} : request'[q] = request[q]
    BY <1>2, <1>6 DEF CancelRow, RequestPCs
  <2>2. CASE UpdateJobStatus("CANCELLED")
    BY <2>1, <2>2, StatusWriters, NamedStatuses DEF WritePending
  <2>3. CASE UNCHANGED row
    BY <1>1, <1>6, <2>1, <2>3 DEF CancelRow, poolVars
  <2> QED
    BY <1>6, <2>2, <2>3 DEF CancelRow, Outage, RowMissing, storeVars
<1>7. CASE CancelRecord(r) \/ CancelPublish(r)
  <2>1. /\ UNCHANGED <<row, poller, submit>> /\ \A q \in Requests \ {r} : request'[q] = request[q]
        /\ request'[r].pc \in {"cancelpublish", "cancelstop"}
    BY <1>2, <1>7 DEF CancelRecord, CancelPublish, publishTerminalEvent, RecordStateTransition,
       Outage, RowMissing, storeVars, poolVars, RequestPCs
  <2> QED
    BY <1>1, <2>1
<1>8. ASSUME NEW w \in Homes, DeleteBegin(r, w) PROVE [Record!Next]_(Record!recordVars)
  <2>1. /\ UNCHANGED <<row, poller, submit>> /\ \A q \in Requests \ {r} : request'[q] = request[q]
        /\ request'[r].pc \in {"deletecloud", "deleterow"}
    BY <1>2, <1>3, <1>8 DEF DeleteBegin, vars, storeVars, poolVars, RequestPCs
  <2> QED
    BY <1>1, <2>1
<1>9. CASE DeleteCloud(r) \/ DeleteWait(r)
  <2>1. /\ UNCHANGED <<row, poller, submit>> /\ \A q \in Requests \ {r} : request'[q] = request[q]
        /\ request'[r].pc \in {"deletewait", "deleterow", "error"}
    BY <1>2, <1>9 DEF DeleteCloud, DeleteWait, Outage, storeVars, poolVars, RequestPCs
  <2> QED
    BY <1>1, <2>1
<1>10. CASE DeleteRow(r)
  <2>1. /\ UNCHANGED <<poller, submit>> /\ \A q \in Requests \ {r} : request'[q] = request[q]
        /\ request[r].pc = "deleterow" /\ request'[r].pc \in {"deletestop", "error"}
    BY <1>2, <1>10 DEF DeleteRow, poolVars, RequestPCs
  <2>2. CASE UNCHANGED row
    BY <1>1, <2>1, <2>2
  <2>3. CASE row # NoRow /\ row' = NoRow
    <3>1. recordStatus \in Status /\ recordStatus' = "removed"
      BY <2>1, <2>3, RecordStatus DEF recordStatus, Submitted
    <3>2. UNCHANGED WritePending
      BY <2>1 DEF WritePending
    <3> QED
      BY <3>1, <3>2 DEF Record!Next, Record!Remove, Status
  <2> QED
    BY <1>10, <2>2, <2>3 DEF DeleteRow, DeleteJobRow, Outage
<1>11. CASE CancelStop(r) \/ DeleteStop(r)
  <2>1. \A p \in Pollers : poller'[p].pc = poller[p].pc
    BY <1>11 DEF CancelStop, DeleteStop, stopPollerForJob, TypeOK, PoolTypeOK, Poller
  <2>2. /\ UNCHANGED <<row, submit>> /\ \A q \in Requests \ {r} : request'[q] = request[q]
        /\ request'[r].pc \in {"cancelled", "deleted"}
    BY <1>2, <1>11 DEF CancelStop, DeleteStop, storeVars, RequestPCs
  <2>3. WritePending' => WritePending
    BY <2>1, <2>2 DEF WritePending
  <2> QED
    BY <2>2, <2>3, StatusKept DEF recordStatus
<1> QED
  BY <1>4, <1>5, <1>6, <1>7, <1>8, <1>9, <1>10, <1>11, CancelJob(r) \/ DeleteJob(r)
  DEF CancelJob, DeleteJob

\* A claim leaves the status of the row it found alone.
LEMMA ClaimKeepsStatus ==
  ASSUME TypeOK, NEW w \in Workers, ClaimCommits(w)
  PROVE  /\ row # NoRow /\ row' # NoRow /\ row'.status = row.status
         /\ row.status \in Active
<1>1. row \in Row /\ row # NoRow
  BY DEF ClaimCommits, TypeOK, StoreTypeOK
<1>2. row' = [row EXCEPT !.owner = w, !.lease = "live"]
  BY DEF ClaimCommits
<1>3. row' \in Row /\ row'.status = row.status
  BY <1>1, <1>2 DEF Row
<1>4. row.status \in Active
  BY <1>1 DEF ClaimCommits, CanClaim, isTerminalStatus, Row, Status
<1> QED
  BY <1>1, <1>3, <1>4, StoreAssumption

\* ... each step of a poller ...
LEMMA PollRecorded ==
  ASSUME TypeOK, TypeOK', NEW p \in Pollers, PollStep(p)
  PROVE  [Record!Next]_(Record!recordVars)
<1> DEFINE Writes == {"reclaim", "get", "update"}
<1>1. UNCHANGED <<submit, request>>
  BY DEF PollStep, serviceVars
<1>2. poller \in [Pollers -> Poller] /\ poller' \in [Pollers -> Poller]
  BY DEF TypeOK, PoolTypeOK
<1>3. /\ \A pc : PollGoto(p, pc) => poller'[p].pc = pc
      /\ PollReturns(p) => poller'[p].pc = "exit"
  BY <1>2 DEF PollGoto, PollReturns, Poller, NoLocals, NewPoller
<1>4. ASSUME UNCHANGED recordStatus,
             \A q \in Pollers \ {p} : poller'[q] = poller[q],
             poller'[p].pc \in Writes => poller[p].pc \in Writes \/ recordStatus \in Active
      PROVE  [Record!Next]_(Record!recordVars)
  BY <1>1, <1>4, StatusKept DEF WritePending
<1>5. UNCHANGED row => UNCHANGED recordStatus
  BY <1>1 DEF recordStatus
<1>6. \A q \in Pollers \ {p} : poller'[q] = poller[q]
  BY <1>2 DEF PollStep, Poll, PollStopped, PollClaim, PollGet, PollGetFails, PollUpdate, PollRecord,
     PollPublish, PollExit, PollGoto, PollReturns
<1>7. CASE PollStopped(p)
  BY <1>3, <1>4, <1>5, <1>6, <1>7 DEF PollStopped, storeVars
<1>8. CASE PollClaim(p)
  <2> DEFINE w == poller[p].worker
  <2>1. CASE ClaimCommits(w)
    <3>1. w \in Workers
      BY <1>2 DEF Poller
    <3>2. recordStatus' = recordStatus /\ recordStatus \in Active
      BY <2>1, <3>1, ClaimKeepsStatus DEF recordStatus
    <3> QED
      BY <1>4, <1>6, <3>2
  <2>2. CASE ClaimAborted(w)
    <3>1. recordStatus \in Active /\ UNCHANGED row
      BY <2>2, RecordStatus DEF ClaimAborted, CanClaim, isTerminalStatus, Outage
    <3> QED
      BY <1>4, <1>5, <1>6, <3>1
  <2>3. CASE UNCHANGED row /\ PollGoto(p, "wait")
    BY <1>3, <1>4, <1>5, <1>6, <2>3
  <2>4. CASE UNCHANGED row /\ (poller[p].pc = "reclaim" \/ PollReturns(p))
    BY <1>3, <1>4, <1>5, <1>6, <2>4
  <2> QED
    BY <1>8, <2>1, <2>2, <2>3, <2>4 DEF PollClaim, ClaimDeclined, Outage, RowMissing, storeVars
<1>9. CASE PollGet(p) \/ PollGetFails(p)
  BY <1>4, <1>5, <1>6, <1>9 DEF PollGet, PollGetFails, storeVars, Outage
<1>10. CASE PollUpdate(p)
  <2>1. poller[p].currentStatus \in Status
    BY <1>2 DEF Poller
  <2>2. poller[p].pc = "update"
    BY <1>10 DEF PollUpdate
  <2>3. CASE UpdateJobStatus(poller[p].currentStatus)
    BY <2>1, <2>2, <2>3, StatusWriters DEF WritePending
  <2>4. CASE UNCHANGED row
    BY <1>4, <1>5, <1>6, <2>2, <2>4
  <2> QED
    BY <1>10, <2>3, <2>4 DEF PollUpdate, Outage, RowMissing, storeVars
<1>11. CASE PollRecord(p) \/ PollPublish(p)
  <2>1. UNCHANGED row
    BY <1>11 DEF PollRecord, PollPublish, publishTerminalEvent, RecordStateTransition, Outage,
       RowMissing, storeVars
  <2>2. poller'[p].pc \notin Writes
    BY <1>3, <1>11 DEF PollRecord, PollPublish
  <2> QED
    BY <1>4, <1>5, <1>6, <2>1, <2>2
<1>12. CASE PollExit(p)
  <2>1. poller'[p].pc = "free"
    BY <1>2, <1>12 DEF PollExit, FreedPoller, NoLocals, NewPoller
  <2> QED
    BY <1>4, <1>5, <1>6, <1>12, <2>1 DEF PollExit, storeVars
<1> QED
  BY <1>7, <1>8, <1>9, <1>10, <1>11, <1>12 DEF PollStep, Poll

\* ... each step of a reconciler ...
LEMMA ReconcileRecorded ==
  ASSUME TypeOK, NEW w \in Workers, ReconcileStep(w)
  PROVE  [Record!Next]_(Record!recordVars)
<1>1. UNCHANGED <<submit, request>>
  BY DEF ReconcileStep, serviceVars
<1>2. UNCHANGED recordStatus
  <2>1. CASE ClaimCommits(w)
    BY <2>1, ClaimKeepsStatus DEF recordStatus
  <2>2. CASE UNCHANGED row
    BY <1>1, <2>2 DEF recordStatus
  <2> QED
    BY <2>1, <2>2 DEF ReconcileStep, ReconcileList, ReconcileClaim, ReconcileStart, ClaimDeclined,
       ClaimAborted, Outage, RowMissing, storeVars
<1>3. \A p \in Pollers : poller'[p] = poller[p] \/ poller'[p].pc = "wait"
  BY DEF ReconcileStep, ReconcileList, ReconcileClaim, ReconcileStart, startJobPoller, NewPoller,
     TypeOK, PoolTypeOK
<1> QED
  BY <1>1, <1>2, <1>3, StatusKept DEF WritePending

\* ... and each step of a worker process.
LEMMA ProcessRecorded ==
  ASSUME TypeOK, NEW w \in Workers, Crash(w) \/ Shutdown(w) \/ ShutdownDone(w) \/ Restart(w)
  PROVE  [Record!Next]_(Record!recordVars)
<1>1. UNCHANGED row
  BY DEF Crash, Shutdown, ShutdownDone, ProcessEnds, Restart, vars, storeVars
<1>2. /\ submit \in Submit /\ poller \in [Pollers -> Poller] /\ request \in [Requests -> Request]
      /\ IdleSubmit \in Submit /\ IdleRequest \in Request
  BY RecordTypes DEF TypeOK, PoolTypeOK
<1>3. submit' = submit \/ (submit.pc # "idle" /\ submit'.pc = "error")
  BY <1>2 DEF Crash, Shutdown, ShutdownDone, ProcessEnds, Restart, SubmitReturns, Submit
<1>4. \A p \in Pollers : poller'[p].pc = poller[p].pc \/ poller'[p].pc = "free"
  BY <1>2 DEF Crash, Shutdown, ShutdownDone, ProcessEnds, Restart, PoolCrash, StopAllPollers,
     stopPollerForJob, Poller, FreedPoller, NoLocals, NewPoller, vars, poolVars
<1>5. \A r \in Requests : request'[r] = request[r] \/ request'[r].pc = "error"
  BY <1>2 DEF Crash, Shutdown, ShutdownDone, ProcessEnds, Restart, Request
<1>6. UNCHANGED recordStatus
  BY <1>1, <1>3 DEF recordStatus
<1>7. WritePending' => WritePending
  BY <1>3, <1>4, <1>5 DEF WritePending
<1> QED
  BY <1>6, <1>7, StatusKept

\* Every step of the fleet is a step of the abstract record, or none at all.
LEMMA NextRecorded ==
  TypeOK /\ TypeOK' /\ Submitted /\ [Next]_allVars => [Record!Next]_(Record!recordVars)
<1> SUFFICES ASSUME TypeOK, TypeOK', Submitted, [Next]_allVars
             PROVE  [Record!Next]_(Record!recordVars)
  OBVIOUS
<1>1. ASSUME UNCHANGED <<submit, request, poller>>, UNCHANGED recordStatus
      PROVE  [Record!Next]_(Record!recordVars)
  BY <1>1, StatusKept DEF WritePending
<1>2. CASE SubmitJob
  BY <1>2, SubmitJobRecord
<1>3. CASE \E r \in Requests : CancelJob(r) \/ DeleteJob(r)
  BY <1>3, RequestRecord
<1>4. CASE \E p \in Pollers : PollStep(p)
  BY <1>4, PollRecorded
<1>5. CASE \E w \in Workers : ReconcileStep(w)
  BY <1>5, ReconcileRecorded
<1>6. CASE \E w \in Workers : Crash(w) \/ Shutdown(w) \/ ShutdownDone(w) \/ Restart(w)
  BY <1>6, ProcessRecorded
<1>7. CASE CloudStep \/ UNCHANGED allVars
  <2>1. UNCHANGED <<row, submit, request, poller>>
    BY <1>7 DEF CloudStep, CloudProgress, CloudDeleted, allVars, vars, storeVars, poolVars,
       serviceVars
  <2> QED
    BY <1>1, <2>1 DEF recordStatus
<1>8. CASE LeaseStep
  <2>1. row # NoRow /\ row \in Row /\ row' = [row EXCEPT !.lease = "expired"]
    BY <1>8 DEF LeaseStep, LeaseExpires, TypeOK, StoreTypeOK
  <2>2. row'.status = row.status /\ row' # NoRow
    BY <2>1, StoreAssumption DEF Row
  <2>3. UNCHANGED <<submit, request, poller>>
    BY <1>8 DEF LeaseStep, poolVars, serviceVars
  <2> QED
    BY <1>1, <2>1, <2>2, <2>3 DEF recordStatus
<1> QED
  BY <1>2, <1>3, <1>4, <1>5, <1>6, <1>7, <1>8 DEF Next

\* A job to be submitted and a job found at the migration start the record, with
\* no writer about.
LEMMA InitRecorded == Init => Record!Init /\ Submitted
<1> SUFFICES ASSUME Init PROVE Record!Init /\ Submitted
  OBVIOUS
<1>1. /\ \A p \in Pollers : poller[p].pc = "free"
      /\ \A r \in Requests : request[r].pc = "idle"
      /\ submit.pc \in {"idle", "done"}
  BY DEF Init, PoolInit, FreedPoller, NoLocals, NewPoller, IdleRequest, IdleSubmit
<1>2. WritePending = FALSE
  BY <1>1 DEF WritePending
<1>3. CASE row = NoRow /\ submit = IdleSubmit
  BY <1>2, <1>3 DEF Record!Init, Submitted, recordStatus, IdleSubmit
<1>4. CASE row = LegacyRow /\ submit = [IdleSubmit EXCEPT !.pc = "done"]
  <2>1. row # NoRow /\ row.status = "RUNNING" /\ submit.pc = "done"
    BY <1>4, RecordTypes, StoreAssumption DEF LegacyRow, IdleSubmit
  <2> QED
    BY <1>2, <2>1 DEF Record!Init, Submitted, recordStatus
<1> QED
  BY <1>3, <1>4 DEF Init

\* The worker fleet, however many workers, pollers and requests there are and
\* whatever fails, treats a job's status as the abstract record promises.
THEOREM Refinement == Spec => ImplementsJobRecord
<1>1. Spec => []TypeOK
  BY TypeCorrect
<1>2. Spec => []Submitted
  BY <1>1, InitRecorded, NextSubmitted, PTL DEF Spec
<1> QED
  BY <1>1, <1>2, InitRecorded, NextRecorded, PTL DEF Spec, ImplementsJobRecord, Record!Spec

\* In the abstract record, and therefore in the fleet, a terminal status no writer
\* is left for stays until the job is removed.
THEOREM SettledStays == Spec => SettledIsFinal
<1>1. TypeOK /\ TypeOK' /\ [Record!Next]_(Record!recordVars) =>
        [Settled => row' = NoRow \/ (Settled' /\ row'.status = row.status)]_allVars
  <2> SUFFICES ASSUME TypeOK, TypeOK', [Record!Next]_(Record!recordVars), Settled, row' # NoRow
               PROVE  Settled' /\ row'.status = row.status
    OBVIOUS
  <2>1. /\ recordStatus = row.status /\ recordStatus \in Terminal /\ ~WritePending
        /\ recordStatus \notin Active
    BY RecordStatus DEF Settled
  <2>2. recordStatus' = row'.status /\ recordStatus' \in Status
    BY DEF recordStatus, TypeOK, StoreTypeOK, Row
  <2>3. recordStatus \notin {"none", "removed"} /\ recordStatus' \notin {"none", "removed"}
    BY <2>1, <2>2, RecordStatus DEF Status
  <2>4. UNCHANGED Record!recordVars
    BY <2>1, <2>2, <2>3 DEF Record!Next, Record!Accept, Record!Refuse, Record!Decide, Record!Write,
       Record!GiveUp, Record!Remove
  <2> QED
    BY <2>1, <2>2, <2>4 DEF Record!recordVars, Settled
<1>2. Spec => []TypeOK
  BY TypeCorrect
<1>3. Spec => [][Record!Next]_(Record!recordVars)
  BY Refinement, PTL DEF ImplementsJobRecord, Record!Spec
<1> QED
  BY <1>1, <1>2, <1>3, PTL DEF SettledIsFinal

(***************************************************************************)
(* Where a completion comes from                                           *)
(***************************************************************************)

\* Before the resource has completed, nothing that is, or will be, written or
\* published says that it has: the row, the events, the pollers' locals.  What the
\* submission and the reconcilers hand to a new poller never says so.
CompletionUnheard ==
  /\ cloud # "COMPLETED" /\ "COMPLETED" \notin published
  /\ row # NoRow => row.status # "COMPLETED"
  /\ \A p \in Pollers : poller[p].currentStatus # "COMPLETED"

CompletionIsTraced ==
  /\ "COMPLETED" \notin reached => CompletionUnheard
  /\ submit.status # "COMPLETED"
  /\ \A w \in Workers : recon[w].snapshot # "COMPLETED"

\* The history of the resource grows, and its current state is in it.
LEMMA ReachedGrows ==
  ASSUME [Next]_allVars, "COMPLETED" \notin reached'
  PROVE  "COMPLETED" \notin reached /\ (cloud # "COMPLETED" => cloud' # "COMPLETED")
<1>1. \A s : Move(s) => reached \subseteq reached' /\ ("COMPLETED" \notin reached' => cloud' # "COMPLETED")
  BY DEF Move, Terminal
<1>2. UNCHANGED cloudVars \/ \E s : Move(s)
  <2>1. CASE SubmitJob
    BY <2>1 DEF SubmitJob, SubmitInsert, SubmitDispatch, SubmitFail, SubmitFailPublish, SubmitSetPath,
       SubmitStart, CloudCreate
  <2>2. CASE \E r \in Requests : CancelJob(r) \/ DeleteJob(r)
    BY <2>2 DEF CancelJob, CancelBegin, CancelCloud, CancelWait, CancelRow, CancelRecord,
       CancelPublish, CancelStop, DeleteJob, DeleteBegin, DeleteCloud, DeleteWait, DeleteRow,
       DeleteStop, CancelStarts, CancelRefused, DeleteStarts, DeleteRefused, OperationDone, vars
  <2>3. CASE \E p \in Pollers : PollStep(p)
    BY <2>3 DEF PollStep, Poll, PollStopped, PollClaim, PollGet, PollGetFails, PollUpdate,
       PollRecord, PollPublish, PollExit
  <2>4. CASE \E w \in Workers : ReconcileStep(w)
    BY <2>4 DEF ReconcileStep, ReconcileList, ReconcileClaim, ReconcileStart
  <2>5. CASE \E w \in Workers : Crash(w) \/ Shutdown(w) \/ ShutdownDone(w) \/ Restart(w)
    BY <2>5 DEF Crash, Shutdown, ShutdownDone, ProcessEnds, Restart, vars
  <2>6. CASE CloudStep \/ LeaseStep \/ UNCHANGED allVars
    BY <2>6 DEF CloudStep, CloudProgress, CloudDeleted, LeaseStep, allVars, vars
  <2> QED
    BY <2>1, <2>2, <2>3, <2>4, <2>5, <2>6 DEF Next
<1> QED
  BY <1>1, <1>2 DEF cloudVars

\* An operation on the row that is not given COMPLETED does not store it.
LEMMA RowUnheard ==
  ASSUME TypeOK, row # NoRow => row.status # "COMPLETED", row' # NoRow,
         \/ UNCHANGED row
         \/ \E w \in Workers : InsertJobFull(w) \/ ClaimCommits(w)
         \/ \E s \in Status \ {"COMPLETED"} :
              UpdateJobStatus(s) \/ UpdateJobStatusAndGcpBatchJobPath(s)
         \/ FailJob \/ LeaseExpires
  PROVE  row'.status # "COMPLETED"
<1>1. row # NoRow => row \in Row
  BY DEF TypeOK, StoreTypeOK
<1>2. ASSUME NEW w \in Workers, InsertJobFull(w) PROVE row'.status # "COMPLETED"
  BY <1>2 DEF InsertJobFull, NewRow
<1>3. ASSUME NEW w \in Workers, ClaimCommits(w) PROVE row'.status # "COMPLETED"
  BY <1>3, ClaimKeepsStatus
<1>4. CASE \E s \in Status \ {"COMPLETED"} :
             UpdateJobStatus(s) \/ UpdateJobStatusAndGcpBatchJobPath(s)
  BY <1>1, <1>4 DEF UpdateJobStatus, UpdateJobStatusAndGcpBatchJobPath, Row
<1>5. CASE FailJob \/ LeaseExpires
  BY <1>1, <1>5 DEF FailJob, LeaseExpires, Row
<1> QED
  BY <1>2, <1>3, <1>4, <1>5

\* No step hands COMPLETED to a poller that is yet to start.
LEMMA NextHandsOver ==
  ASSUME TypeOK, CompletionIsTraced, [Next]_allVars
  PROVE  /\ submit'.status # "COMPLETED"
         /\ \A w \in Workers : recon'[w].snapshot # "COMPLETED"
<1>1. "COMPLETED" \notin Active
  BY StoreAssumption
<1>2. /\ \A pc : SubmitGoto(pc) \/ SubmitReturns(pc) => submit'.status # "COMPLETED"
      /\ \A pc : \A s \in Active :
           submit' = [submit EXCEPT !.pc = pc, !.status = s] => submit'.status # "COMPLETED"
      /\ \A pc : \A w : submit' = [submit EXCEPT !.pc = pc, !.worker = w] => submit'.status # "COMPLETED"
  BY <1>1 DEF SubmitGoto, SubmitReturns, IdleSubmit, TypeOK, Submit, CompletionIsTraced
<1>3. InitialStatus \subseteq Active
  BY StoreAssumption DEF InitialStatus
<1>4. submit' = submit \/ submit'.status # "COMPLETED"
  <2>1. CASE SubmitJob
    BY <1>2, <1>3, <2>1 DEF SubmitJob, SubmitInsert, SubmitDispatch, SubmitFail, SubmitFailPublish,
       SubmitSetPath, SubmitStart
  <2>2. CASE \E r \in Requests : CancelJob(r) \/ DeleteJob(r)
    BY <2>2 DEF CancelJob, CancelBegin, CancelCloud, CancelWait, CancelRow, CancelRecord,
       CancelPublish, CancelStop, DeleteJob, DeleteBegin, DeleteCloud, DeleteWait, DeleteRow,
       DeleteStop
  <2>3. CASE \E p \in Pollers : PollStep(p)
    BY <2>3 DEF PollStep, serviceVars
  <2>4. CASE \E w \in Workers : ReconcileStep(w)
    BY <2>4 DEF ReconcileStep, serviceVars
  <2>5. CASE \E w \in Workers : Crash(w) \/ Shutdown(w) \/ ShutdownDone(w) \/ Restart(w)
    BY <1>2, <2>5 DEF Crash, Shutdown, ShutdownDone, ProcessEnds, Restart
  <2>6. CASE CloudStep \/ LeaseStep \/ UNCHANGED allVars
    BY <2>6 DEF CloudStep, LeaseStep, allVars, serviceVars
  <2> QED
    BY <2>1, <2>2, <2>3, <2>4, <2>5, <2>6 DEF Next
<1>5. ASSUME NEW w \in Workers PROVE recon'[w].snapshot # "COMPLETED"
  <2>1. recon \in [Workers -> Reconciler] /\ recon[w].snapshot # "COMPLETED"
    BY DEF TypeOK, PoolTypeOK, CompletionIsTraced
  <2>2. IdleReconciler.snapshot = "PENDING"
    BY DEF IdleReconciler
  <2>3. CASE UNCHANGED recon
    BY <2>1, <2>3
  <2>4. ASSUME NEW v \in Workers, ReconcileStep(v) PROVE recon'[w].snapshot # "COMPLETED"
    <3>1. CASE ReconcileList(v)
      BY <1>1, <2>1, <3>1 DEF ReconcileList, ListedActive
    <3>2. CASE ReconcileClaim(v) \/ ReconcileStart(v)
      BY <2>1, <2>2, <3>2 DEF ReconcileClaim, ReconcileStart, ReconGoto, ReconNext, Reconciler
    <3> QED
      BY <2>4, <3>1, <3>2 DEF ReconcileStep
  <2>5. ASSUME NEW v \in Workers, Crash(v) \/ ShutdownDone(v) PROVE recon'[w].snapshot # "COMPLETED"
    BY <2>1, <2>2, <2>5 DEF Crash, ShutdownDone, ProcessEnds, PoolCrash
  <2>6. CASE SubmitJob
    BY <2>3, <2>6 DEF SubmitJob, SubmitInsert, SubmitDispatch, SubmitFail, SubmitFailPublish,
       SubmitSetPath, SubmitStart, poolVars
  <2>7. CASE \E r \in Requests : CancelJob(r) \/ DeleteJob(r)
    BY <2>3, <2>7 DEF CancelJob, CancelBegin, CancelCloud, CancelWait, CancelRow, CancelRecord,
       CancelPublish, CancelStop, DeleteJob, DeleteBegin, DeleteCloud, DeleteWait, DeleteRow,
       DeleteStop, vars, poolVars
  <2>8. CASE \E p \in Pollers : PollStep(p)
    BY <2>3, <2>8 DEF PollStep, Poll, PollStopped, PollClaim, PollGet, PollGetFails, PollUpdate,
       PollRecord, PollPublish, PollExit
  <2>9. CASE \E v \in Workers : Shutdown(v) \/ Restart(v)
    BY <2>3, <2>9 DEF Shutdown, StopAllPollers, Restart, vars, poolVars
  <2>10. CASE CloudStep \/ LeaseStep \/ UNCHANGED allVars
    BY <2>3, <2>10 DEF CloudStep, LeaseStep, allVars, vars, poolVars
  <2> QED
    BY <2>4, <2>5, <2>6, <2>7, <2>8, <2>9, <2>10 DEF Next
<1> QED
  BY <1>4, <1>5 DEF CompletionIsTraced

\* While the resource has not completed, no step writes, publishes or reads it.
LEMMA NextUnheard ==
  ASSUME TypeOK, CompletionIsTraced, CompletionUnheard, [Next]_allVars, cloud' # "COMPLETED"
  PROVE  CompletionUnheard'
<1> DEFINE RowKept     == row' # NoRow => row'.status # "COMPLETED"
           EventsKept  == "COMPLETED" \notin published'
           PollersKept == \A p \in Pollers : poller'[p].currentStatus # "COMPLETED"
<1>1. /\ poller \in [Pollers -> Poller]
      /\ row # NoRow => row.status # "COMPLETED"
      /\ "COMPLETED" \notin published
      /\ \A p \in Pollers : poller[p] \in Poller /\ poller[p].currentStatus # "COMPLETED"
      /\ submit.status \in Status \ {"COMPLETED"}
      /\ \A w \in Workers : recon[w].snapshot # "COMPLETED"
  BY DEF TypeOK, PoolTypeOK, Submit, CompletionIsTraced, CompletionUnheard
<1>2. SUFFICES RowKept /\ EventsKept /\ PollersKept
  BY DEF CompletionUnheard
<1>3. ASSUME NEW s, s # "COMPLETED", publishTerminalEvent(s) PROVE EventsKept /\ UNCHANGED row
  BY <1>1, <1>3 DEF publishTerminalEvent, Outage, storeVars
<1>4. ASSUME NEW w, NEW s, s # "COMPLETED", startJobPoller(w, s) PROVE PollersKept
  BY <1>1, <1>4 DEF startJobPoller, NewPoller
<1>5. ASSUME NEW w, stopPollerForJob(w) PROVE PollersKept
  BY <1>1, <1>5 DEF stopPollerForJob, Poller
<1>6. UNCHANGED row => RowKept
  BY <1>1
<1>7. UNCHANGED published => EventsKept
  BY <1>1
<1>8. UNCHANGED poller => PollersKept
  BY <1>1
<1>9. \A s \in Status \ {"COMPLETED"} :
        UpdateJobStatus(s) \/ UpdateJobStatusAndGcpBatchJobPath(s) => RowKept
  BY <1>1, RowUnheard
<1>10. FailJob \/ LeaseExpires => RowKept
  BY <1>1, RowUnheard
<1>11. \A w \in Workers : InsertJobFull(w) \/ ClaimCommits(w) => RowKept
  BY <1>1, RowUnheard
<1> HIDE DEF RowKept, EventsKept, PollersKept
<1>12. CASE SubmitJob
  <2>1. RowKept
    BY <1>1, <1>3, <1>6, <1>9, <1>10, <1>11, <1>12, HomesAssumption
    DEF SubmitJob, SubmitInsert, SubmitDispatch, SubmitFail, SubmitFailPublish, SubmitSetPath,
        SubmitStart, Outage, RowMissing, storeVars
  <2>2. EventsKept
    BY <1>3, <1>7, <1>12 DEF SubmitJob, SubmitInsert, SubmitDispatch, SubmitFail,
       SubmitFailPublish, SubmitSetPath, SubmitStart, poolVars
  <2>3. PollersKept
    BY <1>1, <1>4, <1>8, <1>12 DEF SubmitJob, SubmitInsert, SubmitDispatch, SubmitFail,
       SubmitFailPublish, SubmitSetPath, SubmitStart, poolVars
  <2> QED
    BY <2>1, <2>2, <2>3
<1>13. CASE \E r \in Requests : CancelJob(r) \/ DeleteJob(r)
  <2>1. "CANCELLED" \in Status \ {"COMPLETED"}
    BY NamedStatuses
  <2>2. RowKept
    <3>1. DeleteJobRow => RowKept
      BY DEF DeleteJobRow, RowKept
    <3> QED
      BY <1>3, <1>6, <1>9, <1>13, <2>1, <3>1
      DEF CancelJob, CancelBegin, CancelCloud, CancelWait, CancelRow, CancelRecord, CancelPublish,
          CancelStop, DeleteJob, DeleteBegin, DeleteCloud, DeleteWait, DeleteRow, DeleteStop,
          Outage, RowMissing, RecordStateTransition, vars, storeVars
  <2>3. EventsKept
    BY <1>3, <1>7, <1>13
    DEF CancelJob, CancelBegin, CancelCloud, CancelWait, CancelRow, CancelRecord, CancelPublish,
        CancelStop, DeleteJob, DeleteBegin, DeleteCloud, DeleteWait, DeleteRow, DeleteStop,
        vars, poolVars
  <2>4. PollersKept
    BY <1>5, <1>8, <1>13
    DEF CancelJob, CancelBegin, CancelCloud, CancelWait, CancelRow, CancelRecord, CancelPublish,
        CancelStop, DeleteJob, DeleteBegin, DeleteCloud, DeleteWait, DeleteRow, DeleteStop,
        vars, poolVars
  <2> QED
    BY <2>2, <2>3, <2>4
<1>14. ASSUME NEW p \in Pollers, PollStep(p) PROVE RowKept /\ EventsKept /\ PollersKept
  <2>1. poller[p].worker \in Workers /\ poller[p].currentStatus \in Status \ {"COMPLETED"}
    BY <1>1 DEF Poller
  <2>2. RowKept
    BY <1>3, <1>6, <1>9, <1>11, <1>14, <2>1 DEF PollStep, Poll, PollStopped, PollClaim, PollGet,
       PollGetFails, PollUpdate, PollRecord, PollPublish, PollExit, ClaimDeclined, ClaimAborted,
       RecordStateTransition, Outage, RowMissing, storeVars
  <2>3. EventsKept
    BY <1>3, <1>7, <1>14, <2>1 DEF PollStep, Poll, PollStopped, PollClaim, PollGet, PollGetFails,
       PollUpdate, PollRecord, PollPublish, PollExit
  <2>4. PollersKept
    <3>1. UNCHANGED cloud => ObservedStatus # "COMPLETED"
      BY DEF ObservedStatus
    <3>2. ASSUME NEW q, poller' = [poller EXCEPT ![p] = q], q.currentStatus # "COMPLETED"
          PROVE  PollersKept
      BY <1>1, <3>2 DEF PollersKept
    <3>3. \A w, pc : NoLocals(w, pc).currentStatus = "PENDING"
      BY DEF NoLocals, NewPoller
    <3>4. \A pc : [poller[p] EXCEPT !.pc = pc].currentStatus # "COMPLETED"
      BY <1>1 DEF Poller
    <3>5. \A pc : PollGoto(p, pc) => PollersKept
      BY <3>2, <3>4 DEF PollGoto
    <3>6. PollReturns(p) => PollersKept
      BY <1>1, <3>2, <3>3 DEF PollReturns
    <3>7. CASE PollGet(p)
      BY <1>1, <3>1, <3>7 DEF PollGet, cloudVars, Poller, PollersKept
    <3>8. CASE PollGetFails(p)
      BY <1>1, <3>6, <3>8 DEF PollGetFails, Poller, PollersKept
    <3>9. CASE PollExit(p)
      BY <3>2, <3>3, <3>9 DEF PollExit, FreedPoller
    <3> QED
      BY <1>14, <3>5, <3>6, <3>7, <3>8, <3>9 DEF PollStep, Poll, PollStopped, PollClaim,
         PollUpdate, PollRecord, PollPublish
  <2> QED
    BY <2>2, <2>3, <2>4
<1>15. ASSUME NEW w \in Workers, ReconcileStep(w) PROVE RowKept /\ EventsKept /\ PollersKept
  BY <1>1, <1>4, <1>6, <1>7, <1>8, <1>11, <1>15 DEF ReconcileStep, ReconcileList, ReconcileClaim,
     ReconcileStart, ClaimDeclined, ClaimAborted, Outage, RowMissing, storeVars
<1>16. ASSUME NEW w \in Workers, Crash(w) \/ Shutdown(w) \/ ShutdownDone(w) \/ Restart(w)
       PROVE  RowKept /\ EventsKept /\ PollersKept
  <2>1. FreedPoller.currentStatus = "PENDING"
    BY DEF FreedPoller, NoLocals, NewPoller
  <2>2. PoolCrash(w) => PollersKept
    BY <1>1, <2>1 DEF PoolCrash, PollersKept
  <2> QED
    BY <1>5, <1>6, <1>7, <1>8, <1>16, <2>2 DEF Crash, Shutdown, ShutdownDone, ProcessEnds,
       PoolCrash, StopAllPollers, Restart, vars, poolVars, storeVars
<1>17. CASE CloudStep \/ LeaseStep \/ UNCHANGED allVars
  BY <1>6, <1>7, <1>8, <1>10, <1>17 DEF CloudStep, CloudProgress, CloudDeleted, LeaseStep, allVars,
     vars, storeVars, poolVars
<1> QED
  BY <1>12, <1>13, <1>14, <1>15, <1>16, <1>17 DEF Next

\* COMPLETED in a row or in an event was seen at the cloud resource, whoever wrote
\* it: no retry, takeover, restart or late write makes it up.
THEOREM CompletionIsGenuine == Spec => []NoFabricatedCompletion
<1>1. Init => CompletionIsTraced
  <2> SUFFICES ASSUME Init PROVE CompletionIsTraced
    OBVIOUS
  <2>1. /\ \A p \in Pollers : poller[p].currentStatus = "PENDING"
        /\ \A w \in Workers : recon[w].snapshot = "PENDING"
        /\ submit.status = "PENDING"
        /\ published = {}
    BY DEF Init, PoolInit, FreedPoller, NoLocals, NewPoller, IdleReconciler, IdleSubmit
  <2>2. cloud # "COMPLETED" /\ (row # NoRow => row.status # "COMPLETED")
    BY DEF Init, LegacyRow
  <2> QED
    BY <2>1, <2>2 DEF CompletionIsTraced, CompletionUnheard
<1>2. TypeOK /\ CompletionIsTraced /\ [Next]_allVars => CompletionIsTraced'
  <2> SUFFICES ASSUME TypeOK, CompletionIsTraced, [Next]_allVars PROVE CompletionIsTraced'
    OBVIOUS
  <2>1. ASSUME "COMPLETED" \notin reached' PROVE CompletionUnheard'
    BY <2>1, ReachedGrows, NextUnheard DEF CompletionIsTraced, CompletionUnheard
  <2> QED
    BY <2>1, NextHandsOver DEF CompletionIsTraced
<1>3. CompletionIsTraced => NoFabricatedCompletion
  BY DEF CompletionIsTraced, CompletionUnheard, NoFabricatedCompletion
<1> QED
  BY <1>1, <1>2, <1>3, TypeCorrect, PTL DEF Spec
=============================================================================
