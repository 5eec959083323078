--------------------------- MODULE PollingProofs ---------------------------
(***************************************************************************)
(* Who polls a job, and what its events say: the invariants of JobService  *)
(* that relate the pollers of all workers to the path in the row, to the   *)
(* resource and to the events, for every value of the constants.           *)
(***************************************************************************)
EXTENDS JobServiceProofs

(***************************************************************************)
(* Before the path is stored                                               *)
(***************************************************************************)

\* What a step may do to a row that goes on to exist, and to its transitions.
LEMMA RowMoves ==
  ASSUME TypeOK, [Next]_allVars, row' # NoRow
  PROVE  \/ \E w \in Homes : SubmitInsert(w)
         \/ /\ row # NoRow /\ trail \subseteq trail'
            /\ row'.path = row.path \/ SubmitSetPath
<1> DEFINE Kept == /\ row # NoRow /\ trail \subseteq trail'
                   /\ row'.path = row.path
<1>1. row # NoRow => row \in Row
  BY DEF TypeOK, StoreTypeOK
<1>2. /\ UNCHANGED <<row, trail>> => Kept
      /\ UNCHANGED storeVars => Kept
      /\ \A s : UpdateJobStatus(s) => Kept
      /\ \A s : RecordStateTransition(s) => Kept
      /\ \A w : ClaimCommits(w) \/ ClaimDeclined(w) \/ ClaimAborted(w) => Kept
      /\ FailJob \/ LeaseExpires \/ Outage \/ RowMissing => Kept
  BY <1>1 DEF storeVars, UpdateJobStatus, RecordStateTransition, ClaimCommits, ClaimDeclined,
     ClaimAborted, FailJob, LeaseExpires, Outage, RowMissing, Row
<1>3. ~DeleteJobRow
  BY DEF DeleteJobRow
<1>4. \A s : publishTerminalEvent(s) => Kept
  BY <1>2 DEF publishTerminalEvent
<1>5. UpdateJobStatusAndGcpBatchJobPath(submit.status) => row # NoRow /\ trail \subseteq trail'
  BY DEF UpdateJobStatusAndGcpBatchJobPath
<1> HIDE DEF Kept
<1>6. CASE SubmitJob
  BY <1>2, <1>4, <1>5, <1>6 DEF SubmitJob, SubmitDispatch, SubmitFail, SubmitFailPublish,
     SubmitSetPath, SubmitStart, Kept
<1>7. CASE \E r \in Requests : CancelJob(r) \/ DeleteJob(r)
  <2>1. UNCHANGED vars => Kept
    BY <1>2 DEF vars
  <2> QED
    BY <1>2, <1>3, <1>4, <1>7, <2>1 DEF CancelJob, CancelBegin, CancelCloud, CancelWait, CancelRow,
       CancelRecord, CancelPublish, CancelStop, DeleteJob, DeleteBegin, DeleteCloud, DeleteWait,
       DeleteRow, DeleteStop, Kept
<1>8. CASE \E p \in Pollers : PollStep(p)
  BY <1>2, <1>4, <1>8 DEF PollStep, Poll, PollStopped, PollClaim, PollGet, PollGetFails, PollUpdate,
     PollRecord, PollPublish, PollExit, Kept
<1>9. CASE \E w \in Workers : ReconcileStep(w)
  BY <1>2, <1>9 DEF ReconcileStep, ReconcileList, ReconcileClaim, ReconcileStart, Kept
<1>10. CASE \E w \in Workers : Crash(w) \/ Shutdown(w) \/ ShutdownDone(w) \/ Restart(w)
  BY <1>2, <1>10 DEF Crash, Shutdown, ShutdownDone, ProcessEnds, Restart, vars, Kept
<1>11. CASE CloudStep \/ LeaseStep \/ UNCHANGED allVars
  BY <1>2, <1>11 DEF CloudStep, CloudProgress, CloudDeleted, LeaseStep, allVars, vars, Kept
<1> QED
  BY <1>6, <1>7, <1>8, <1>9, <1>10, <1>11 DEF Next

\* Nobody polls the job and nobody can come to poll it.
Unpolled ==
  /\ row # NoRow => ~row.path
  /\ \A p \in Pollers : Free(p)
  /\ \A w \in Workers : recon[w].pc = "idle"

\* The submission has not stored a path.
BeforePath == {"idle", "dispatch", "fail", "failpublish", "setpath"}

PathInv ==
  /\ submit.pc \in BeforePath => Unpolled
  /\ submit.pc \in {"setpath", "start"} => cloud # "absent"
  /\ Unpolled \/ cloud # "absent"

\* Somebody polls the job, is about to take it over, or is about to start its poller.
Polled ==
  \/ \E p \in Pollers : ~Free(p)
  \/ \E w \in Workers : recon[w].pc # "idle"
  \/ submit.pc = "start"

\* Then its path is in the row, as long as there is one.
PathKept == Polled /\ row # NoRow => row.path

\* Only the submission stores a path, and only the submission starts a poller without
\* one: no claim, status write or restart makes an unpolled job a polled one.
LEMMA UnpolledStays ==
  ASSUME TypeOK, Unpolled, [Next]_allVars
  PROVE  Unpolled' \/ SubmitSetPath \/ SubmitStart
<1> DEFINE NoPath == row' # NoRow => ~row'.path
           NobodyPolls == UNCHANGED <<poller, recon>>
<1>1. row # NoRow => row \in Row /\ ~row.path
  BY DEF TypeOK, StoreTypeOK, Unpolled
<1>2. NoPath /\ NobodyPolls => Unpolled'
  BY DEF Unpolled, Free
<1>3. UNCHANGED row => NoPath
  BY <1>1
<1>4. ASSUME NEW w \in Workers, InsertJobFull(w) \/ ClaimCommits(w) PROVE NoPath
  <2>1. CASE InsertJobFull(w)
    BY <2>1 DEF InsertJobFull, NewRow
  <2>2. CASE ClaimCommits(w)
    BY <1>1, <2>2 DEF ClaimCommits, Row
  <2> QED
    BY <1>4, <2>1, <2>2
<1>5. \A s : UpdateJobStatus(s) => NoPath
  BY <1>1 DEF UpdateJobStatus, Row
<1>6. FailJob \/ LeaseExpires \/ DeleteJobRow => NoPath
  BY <1>1 DEF FailJob, LeaseExpires, DeleteJobRow, Row
<1> HIDE DEF NoPath
<1>7. CASE SubmitJob
  <2>1. ASSUME NEW w \in Homes, SubmitInsert(w) PROVE Unpolled'
    BY <1>2, <1>3, <1>4, <2>1, HomesAssumption DEF SubmitInsert, Outage, poolVars
  <2>2. CASE SubmitDispatch
    BY <1>2, <1>3, <2>2 DEF SubmitDispatch, storeVars, poolVars
  <2>3. CASE SubmitFail
    BY <1>2, <1>3, <1>6, <2>3 DEF SubmitFail, Outage, RowMissing, storeVars, poolVars
  <2>4. CASE SubmitFailPublish
    BY <1>2, <1>3, <2>4 DEF SubmitFailPublish, publishTerminalEvent, Outage, storeVars
  <2> QED
    BY <1>7, <2>1, <2>2, <2>3, <2>4 DEF SubmitJob
<1>8. CASE \E r \in Requests : CancelJob(r) \/ DeleteJob(r)
  <2> SUFFICES ASSUME NEW r \in Requests, CancelJob(r) \/ DeleteJob(r) PROVE Unpolled'
    BY <1>8
  <2>1. CASE CancelStop(r) \/ DeleteStop(r)
    <3>1. \A p \in Pollers : poller'[p].pc = poller[p].pc
      BY <2>1 DEF CancelStop, DeleteStop, stopPollerForJob, TypeOK, PoolTypeOK, Poller
    <3> QED
      BY <1>3, <2>1, <3>1 DEF CancelStop, DeleteStop, storeVars, Unpolled, Free, NoPath
  <2> QED
    BY <1>2, <1>3, <1>5, <1>6, <1>8, <2>1
    DEF CancelJob, CancelBegin, CancelCloud, CancelWait, CancelRow, CancelRecord, CancelPublish,
        DeleteJob, DeleteBegin, DeleteCloud, DeleteWait, DeleteRow, RecordStateTransition,
        publishTerminalEvent, Outage, RowMissing, vars, storeVars, poolVars
<1>9. CASE \E p \in Pollers : PollStep(p)
  BY <1>9 DEF Unpolled, Free, PollStep, Poll, PollStopped, PollClaim, PollGet, PollGetFails,
     PollUpdate, PollRecord, PollPublish, PollExit
<1>10. CASE \E w \in Workers : ReconcileStep(w)
  BY <1>10 DEF Unpolled, ReconcileStep, ReconcileList, ListedActive, ReconcileClaim, ReconcileStart
<1>11. ASSUME NEW w \in Workers, Crash(w) \/ Shutdown(w) \/ ShutdownDone(w) \/ Restart(w)
       PROVE  Unpolled'
  <2>1. FreedPoller.pc = "free" /\ IdleReconciler.pc = "idle"
    BY DEF FreedPoller, NoLocals, NewPoller, IdleReconciler
  <2>2. PoolCrash(w) => (\A p \in Pollers : Free(p)') /\ \A v \in Workers : recon'[v].pc = "idle"
    BY <2>1 DEF PoolCrash, Unpolled, Free, TypeOK, PoolTypeOK
  <2>3. StopAllPollers(w) => (\A p \in Pollers : Free(p)') /\ \A v \in Workers : recon'[v].pc = "idle"
    BY DEF StopAllPollers, stopPollerForJob, Unpolled, Free, TypeOK, PoolTypeOK, Poller
  <2>4. UNCHANGED row
    BY <1>11 DEF Crash, Shutdown, ShutdownDone, Restart, ProcessEnds, vars, storeVars
  <2>5. NoPath
    BY <1>3, <2>4
  <2>6. CASE Restart(w)
    BY <1>2, <2>5, <2>6 DEF Restart, vars, poolVars
  <2> QED
    BY <1>11, <2>2, <2>3, <2>5, <2>6 DEF Crash, Shutdown, ShutdownDone, ProcessEnds, Unpolled, NoPath
<1>12. CASE CloudStep \/ LeaseStep \/ UNCHANGED allVars
  BY <1>2, <1>3, <1>6, <1>12
  DEF CloudStep, CloudProgress, CloudDeleted, LeaseStep, allVars, vars, storeVars, poolVars
<1> QED
  BY <1>7, <1>8, <1>9, <1>10, <1>11, <1>12 DEF Next

\* What a step may do to the resource: nothing, or a move of its own, of a submission that
\* is at its dispatch, or of a cancellation or deletion that found it.
LEMMA CloudMoves ==
  ASSUME [Next]_allVars
  PROVE  \/ UNCHANGED cloudVars
         \/ submit.pc = "dispatch" /\ CloudCreate
         \/ CloudProgress \/ CloudDeleted \/ CancelStarts \/ DeleteStarts
<1>1. CASE SubmitJob
  BY <1>1 DEF SubmitJob, SubmitInsert, SubmitDispatch, SubmitFail, SubmitFailPublish, SubmitSetPath,
     SubmitStart
<1>2. CASE \E r \in Requests : CancelJob(r) \/ DeleteJob(r)
  BY <1>2 DEF CancelJob, CancelBegin, CancelCloud, CancelWait, CancelRow, CancelRecord,
     CancelPublish, CancelStop, DeleteJob, DeleteBegin, DeleteCloud, DeleteWait, DeleteRow,
     DeleteStop, CancelRefused, DeleteRefused, OperationDone, vars
<1>3. CASE \E p \in Pollers : PollStep(p)
  BY <1>3 DEF PollStep, Poll, PollStopped, PollClaim, PollGet, PollGetFails, PollUpdate,
     PollRecord, PollPublish, PollExit
<1>4. CASE \E w \in Workers : ReconcileStep(w)
  BY <1>4 DEF ReconcileStep, ReconcileList, ReconcileClaim, ReconcileStart
<1>5. CASE \E w \in Workers : Crash(w) \/ Shutdown(w) \/ ShutdownDone(w) \/ Restart(w)
  BY <1>5 DEF Crash, Shutdown, ShutdownDone, ProcessEnds, Restart, vars
<1>6. CASE CloudStep \/ LeaseStep \/ UNCHANGED allVars
  BY <1>6 DEF CloudStep, LeaseStep, allVars, vars
<1> QED
  BY <1>1, <1>2, <1>3, <1>4, <1>5, <1>6 DEF Next

\* A resource that was created leaves a trace for ever.
LEMMA ResourceStays ==
  ASSUME [Next]_allVars, cloud # "absent"
  PROVE  cloud' # "absent"
<1>1. "absent" \notin Active
  BY StoreAssumption
<1> QED
  BY <1>1, CloudMoves DEF cloudVars, CloudCreate, CloudProgress, CloudDeleted, CancelStarts,
     DeleteStarts, Move

\* How a submission goes on: never back to before its path, and past the dispatch only
\* with a resource.
LEMMA SubmissionGoesOn ==
  ASSUME TypeOK, [Next]_allVars
  PROVE  /\ submit'.pc \in BeforePath => submit.pc \in BeforePath /\ ~SubmitSetPath /\ ~SubmitStart
         /\ submit'.pc \in {"setpath", "start"} =>
              submit.pc \in {"setpath", "start"} \/ cloud' # "absent"
         /\ submit'.pc = "start" => submit.pc = "start" \/ SubmitSetPath
         /\ SubmitSetPath => submit.pc = "setpath"
         /\ SubmitStart => submit.pc = "start"
<1>1. \A pc \in SubmitPCs : (SubmitGoto(pc) \/ SubmitReturns(pc)) => submit'.pc = pc
  BY DEF SubmitPCs, SubmitGoto, SubmitReturns, IdleSubmit, TypeOK, Submit
<1>2. SubmitSetPath => submit.pc = "setpath" /\ submit'.pc \in {"start", "error"}
  BY <1>1 DEF SubmitSetPath, SubmitPCs
<1>3. SubmitStart => submit.pc = "start" /\ submit'.pc = "done"
  BY <1>1 DEF SubmitStart, SubmitPCs
<1>4. UNCHANGED submit \/ submit'.pc = "error" \/ SubmitJob
  BY <1>1 DEF Next, CancelJob, CancelBegin, CancelCloud, CancelWait, CancelRow, CancelRecord,
     CancelPublish, CancelStop, DeleteJob, DeleteBegin, DeleteCloud, DeleteWait, DeleteRow,
     DeleteStop, PollStep, ReconcileStep, Crash, Shutdown, ShutdownDone, ProcessEnds, Restart,
     CloudStep, LeaseStep, allVars, serviceVars, SubmitPCs
<1>5. CASE \E w \in Homes : SubmitInsert(w)
  <2>1. submit.pc = "idle" /\ submit'.pc \in {"dispatch", "error"}
    BY <1>1, <1>5 DEF SubmitInsert, SubmitPCs, TypeOK, Submit
  <2> QED
    BY <1>2, <1>3, <2>1 DEF BeforePath
<1>6. CASE SubmitDispatch
  <2>1. submit.pc = "dispatch" /\ submit'.pc \in {"setpath", "fail"}
    BY <1>1, <1>6 DEF SubmitDispatch, SubmitPCs, TypeOK, Submit
  <2>2. submit'.pc = "setpath" => cloud' # "absent"
    BY <1>1, <1>6 DEF SubmitDispatch, SubmitPCs, CloudCreate, Move
  <2> QED
    BY <1>2, <1>3, <2>1, <2>2 DEF BeforePath
<1>7. CASE SubmitFail \/ SubmitFailPublish
  <2>1. submit.pc \in {"fail", "failpublish"} /\ submit'.pc \in {"failpublish", "error"}
    BY <1>1, <1>7 DEF SubmitFail, SubmitFailPublish, SubmitPCs
  <2> QED
    BY <1>2, <1>3, <2>1 DEF BeforePath
<1>8. CASE SubmitSetPath \/ SubmitStart
  BY <1>2, <1>3, <1>8 DEF BeforePath
<1>9. CASE UNCHANGED submit
  BY <1>2, <1>3, <1>9
<1> QED
  BY <1>2, <1>3, <1>4, <1>5, <1>6, <1>7, <1>8, <1>9 DEF SubmitJob, BeforePath

\* The invariant is inductive.
LEMMA NextPath == TypeOK /\ PathInv /\ [Next]_allVars => PathInv'
<1> SUFFICES ASSUME TypeOK, PathInv, [Next]_allVars PROVE PathInv'
  OBVIOUS
<1>1. submit'.pc \in BeforePath => Unpolled'
  BY SubmissionGoesOn, UnpolledStays DEF PathInv
<1>2. submit'.pc \in {"setpath", "start"} => cloud' # "absent"
  BY SubmissionGoesOn, ResourceStays DEF PathInv
<1>3. Unpolled' \/ cloud' # "absent"
  BY SubmissionGoesOn, UnpolledStays, ResourceStays DEF PathInv
<1> QED
  BY <1>1, <1>2, <1>3 DEF PathInv

\* Nobody begins to poll a row without a path, and no row loses it.
LEMMA NextPathKept == TypeOK /\ PathInv /\ PathKept /\ [Next]_allVars => PathKept'
<1> SUFFICES ASSUME TypeOK, PathInv, PathKept, [Next]_allVars, Polled', row' # NoRow
             PROVE  row'.path
  BY DEF PathKept
<1>1. Unpolled => Unpolled' \/ SubmitSetPath \/ SubmitStart
  BY UnpolledStays
<1>2. CASE \E w \in Homes : SubmitInsert(w)
  <2>1. PICK w \in Homes : SubmitInsert(w)
    BY <1>2
  <2>2. submit.pc = "idle" /\ UNCHANGED <<poller, recon>> /\ submit'.pc # "start"
    BY <2>1 DEF SubmitInsert, SubmitReturns, IdleSubmit, poolVars, TypeOK, Submit
  <2>3. Unpolled
    BY <2>2 DEF PathInv, BeforePath
  <2> QED
    BY <2>2, <2>3 DEF Unpolled, Polled, Free
<1>3. CASE SubmitSetPath
  <2>1. submit.pc = "setpath" /\ UNCHANGED <<poller, recon>>
    BY <1>3 DEF SubmitSetPath, poolVars
  <2>2. Unpolled
    BY <2>1 DEF PathInv, BeforePath
  <2>3. submit'.pc = "start"
    BY <2>1, <2>2 DEF Unpolled, Polled, Free
  <2>4. submit'.pc = "error" \/ UpdateJobStatusAndGcpBatchJobPath(submit.status)
    BY <1>3 DEF SubmitSetPath, SubmitReturns, IdleSubmit
  <2>5. row # NoRow => row \in Row
    BY DEF TypeOK, StoreTypeOK
  <2> QED
    BY <2>3, <2>4, <2>5 DEF UpdateJobStatusAndGcpBatchJobPath, Row
<1>4. CASE row # NoRow /\ row'.path = row.path /\ ~SubmitSetPath
  <2>1. SUFFICES ASSUME ~row.path PROVE FALSE
    BY <1>4
  <2>2. ~Polled
    BY <1>4, <2>1 DEF PathKept
  <2>3. Unpolled /\ submit.pc # "start"
    BY <2>1, <2>2 DEF Unpolled, Polled
  <2>4. Unpolled' /\ submit'.pc # "start"
    BY <1>1, <1>4, <2>3, SubmissionGoesOn
  <2> QED
    BY <2>4 DEF Unpolled, Polled, Free
<1> QED
  BY <1>2, <1>3, <1>4, RowMoves

\* Both hold at the start, also of a job from before the lease columns.
LEMMA InitPath == Init => PathInv /\ PathKept
<1>1. FreedPoller.pc = "free" /\ IdleReconciler.pc = "idle" /\ IdleSubmit.pc = "idle"
  BY DEF FreedPoller, NoLocals, NewPoller, IdleReconciler, IdleSubmit
<1>2. Init => \/ submit.pc = "done" /\ cloud = "RUNNING"
              \/ submit.pc = "idle" /\ Unpolled
  BY <1>1 DEF Init, PoolInit, Unpolled, Free, IdleSubmit
<1>3. Init => row = NoRow \/ row.path
  BY DEF Init, LegacyRow
<1> QED
  BY <1>2, <1>3 DEF PathInv, PathKept, BeforePath

\* The invariant on every behaviour.
LEMMA PathInvariant == Spec => [](PathInv /\ PathKept)
BY InitPath, NextPath, NextPathKept, TypeCorrect, PTL DEF Spec

\* Whatever fails, crashes and is taken over, nobody polls a job or lists it before its
\* resource was created and its path stored (cmd/worker/service/handlers.go starts the poller
\* after the update, internal/database/jobs.go lists rows with a path), and no row has a path
\* before the resource exists.
THEOREM StoredPathsArePolled == Spec => []OnlyStoredPathsArePolled
<1> SUFFICES ASSUME TypeOK, PathInv, PathKept PROVE OnlyStoredPathsArePolled
  BY TypeCorrect, PathInvariant, PTL
<1>1. Unpolled <=> (row # NoRow => ~row.path) /\ ~(\E p \in Pollers : ~Free(p))
                     /\ ~(\E w \in Workers : recon[w].pc # "idle")
  BY DEF Unpolled
<1>2. submit.pc \notin BeforePath => submit.pc \in {"start", "done", "error"}
  BY DEF TypeOK, Submit, BeforePath
<1> QED
  BY <1>1, <1>2 DEF PathInv, PathKept, Polled, OnlyStoredPathsArePolled

\* Steps that are not a reconciler's, and do not end a process, leave reconcilers alone.
LEMMA ReconcilersKept ==
  ASSUME [Next]_allVars
  PROVE  \/ UNCHANGED recon
         \/ \E w \in Workers : ReconcileStep(w) \/ Crash(w) \/ ShutdownDone(w)
<1>1. CASE SubmitJob
  BY <1>1 DEF SubmitJob, SubmitInsert, SubmitDispatch, SubmitFail, SubmitFailPublish,
     SubmitSetPath, SubmitStart, poolVars
<1>2. CASE \E r \in Requests : CancelJob(r) \/ DeleteJob(r)
  BY <1>2 DEF CancelJob, CancelBegin, CancelCloud, CancelWait, CancelRow, CancelRecord,
     CancelPublish, CancelStop, DeleteJob, DeleteBegin, DeleteCloud, DeleteWait, DeleteRow,
     DeleteStop, vars, poolVars
<1>3. CASE \E p \in Pollers : PollStep(p)
  BY <1>3 DEF PollStep, Poll, PollStopped, PollClaim, PollGet, PollGetFails, PollUpdate,
     PollRecord, PollPublish, PollExit
<1>4. CASE \E w \in Workers : Shutdown(w) \/ Restart(w)
  BY <1>4 DEF Shutdown, StopAllPollers, Restart, vars, poolVars
<1>5. CASE CloudStep \/ LeaseStep \/ UNCHANGED allVars
  BY <1>5 DEF CloudStep, LeaseStep, allVars, vars, poolVars
<1> QED
  BY <1>1, <1>2, <1>3, <1>4, <1>5 DEF Next

(***************************************************************************)
(* One outcome                                                             *)
(***************************************************************************)

\* The resource ends in one way, if it ends.
EndsOnce ==
  /\ \A s, t \in reached : s = t
  /\ cloud \in Active \cup {"absent"} => reached = {}
  /\ cloud \in Terminal => cloud \in reached

\* What a new poller is handed is not the end of a job.
Handed ==
  /\ submit.status \in Active
  /\ \A w \in Workers : recon[w].snapshot \in Active

\* An end that a poller holds was reached by the resource; a cancellation may be a Cloud
\* Batch job that is being deleted.
Heard == \A p \in Pollers : poller[p].currentStatus \in Active \cup {"CANCELLED"} \cup reached

\* A failure that tenants were told of was reached, or is that of a submission that never
\* stored a path: then no poller has told, or will tell, that the job completed.
FailureIsTraced ==
  /\ submit.pc \in BeforePath => "COMPLETED" \notin published
  /\ "FAILED" \in published =>
       \/ "FAILED" \in reached
       \/ submit.pc = "error" /\ Unpolled /\ "COMPLETED" \notin published

\* The resource does not leave a final state for another one, and remembers it.
LEMMA NextEndsOnce ==
  ASSUME TypeOK, EndsOnce, [Next]_allVars
  PROVE  EndsOnce' /\ reached \subseteq reached'
<1>1. /\ Active \cap Terminal = {} /\ {"absent", "deleting", "gone"} \cap (Active \cup Terminal) = {}
      /\ {"PENDING", "RUNNING"} \subseteq Active
      /\ Terminal = {"COMPLETED", "FAILED", "CANCELLED"}
  BY StoreAssumption DEF Terminal
<1>2. ASSUME NEW s \in Active \cup {"deleting", "gone"}, Move(s), reached = {} \/ s \notin Active
      PROVE  EndsOnce' /\ reached \subseteq reached'
  BY <1>1, <1>2 DEF EndsOnce, Move
<1>3. ASSUME NEW s \in Terminal, Move(s), reached = {}
      PROVE  EndsOnce' /\ reached \subseteq reached'
  BY <1>1, <1>3 DEF EndsOnce, Move
<1>4. CASE UNCHANGED cloudVars
  BY <1>4 DEF cloudVars, EndsOnce
<1>5. CASE CloudCreate
  BY <1>1, <1>2, <1>5 DEF CloudCreate, EndsOnce
<1>6. CASE CloudProgress
  <2>1. cloud \in Active /\ reached = {}
    BY <1>1, <1>6 DEF CloudProgress, EndsOnce, TypeOK, CloudTypeOK, CloudState, Status
  <2>2. \E s \in Active \cup Terminal : Move(s)
    BY <1>1, <1>6 DEF CloudProgress
  <2> QED
    BY <1>2, <1>3, <2>1, <2>2
<1>7. CASE CloudDeleted
  BY <1>1, <1>2, <1>7 DEF CloudDeleted
<1>8. CASE CancelStarts
  BY <1>1, <1>2, <1>3, <1>8 DEF CancelStarts, EndsOnce
<1>9. CASE DeleteStarts
  BY <1>1, <1>2, <1>9 DEF DeleteStarts
<1> QED
  BY <1>4, <1>5, <1>6, <1>7, <1>8, <1>9, CloudMoves

\* No step hands the end of a job to a poller that is yet to start.
LEMMA NextHanded ==
  ASSUME TypeOK, Handed, [Next]_allVars
  PROVE  Handed'
<1>1. "PENDING" \in Active /\ InitialStatus \subseteq Active
  BY StoreAssumption DEF InitialStatus
<1>2. submit \in Submit /\ submit.status \in Active
  BY DEF TypeOK, Handed
<1>3. /\ \A pc : SubmitGoto(pc) \/ SubmitReturns(pc) => submit'.status \in Active
      /\ \A pc : \A s \in Active :
           submit' = [submit EXCEPT !.pc = pc, !.status = s] => submit'.status \in Active
      /\ \A pc : \A w : submit' = [submit EXCEPT !.pc = pc, !.worker = w] => submit'.status \in Active
  BY <1>1, <1>2 DEF SubmitGoto, SubmitReturns, IdleSubmit, Submit
<1>4. submit'.status \in Active
  <2>1. CASE SubmitJob
    BY <1>1, <1>3, <2>1 DEF SubmitJob, SubmitInsert, SubmitDispatch, SubmitFail,
       SubmitFailPublish, SubmitSetPath, SubmitStart
  <2>2. CASE UNCHANGED submit
    BY <1>2, <2>2
  <2> QED
    BY <1>3, <2>1, <2>2 DEF Next, CancelJob, CancelBegin, CancelCloud, CancelWait, CancelRow,
       CancelRecord, CancelPublish, CancelStop, DeleteJob, DeleteBegin, DeleteCloud, DeleteWait,
       DeleteRow, DeleteStop, PollStep, ReconcileStep, Crash, Shutdown, ShutdownDone,
       ProcessEnds, Restart, CloudStep, LeaseStep, allVars, serviceVars
<1>5. ASSUME NEW w \in Workers PROVE recon'[w].snapshot \in Active
  <2>1. recon \in [Workers -> Reconciler] /\ recon[w].snapshot \in Active
    BY DEF TypeOK, PoolTypeOK, Handed
  <2>2. IdleReconciler.snapshot = "PENDING"
    BY DEF IdleReconciler
  <2>3. CASE UNCHANGED recon
    BY <2>1, <2>3
  <2>4. ASSUME NEW v \in Workers, ReconcileStep(v) PROVE recon'[w].snapshot \in Active
    <3>1. CASE ReconcileList(v)
      BY <2>1, <3>1 DEF ReconcileList, ListedActive
    <3>2. CASE ReconcileClaim(v) \/ ReconcileStart(v)
      BY <1>1, <2>1, <2>2, <3>2 DEF ReconcileClaim, ReconcileStart, ReconGoto, ReconNext, Reconciler
    <3> QED
      BY <2>4, <3>1, <3>2 DEF ReconcileStep
  <2>5. ASSUME NEW v \in Workers, Crash(v) \/ ShutdownDone(v) PROVE recon'[w].snapshot \in Active
    BY <1>1, <2>1, <2>2, <2>5 DEF Crash, ShutdownDone, ProcessEnds, PoolCrash
  <2> QED
    BY <2>3, <2>4, <2>5, ReconcilersKept
<1> QED
  BY <1>4, <1>5 DEF Handed

\* What a step may do to the status a poller holds: keep it, take over an active one, or
\* read the resource.
LEMMA PollersRead ==
  ASSUME TypeOK, Handed, [Next]_allVars, NEW p \in Pollers
  PROVE  \/ poller'[p].currentStatus \in Active \cup {"CANCELLED", poller[p].currentStatus}
         \/ poller'[p].currentStatus = cloud /\ cloud \in Terminal
<1> DEFINE Fine(q) == \/ q.currentStatus \in Active \cup {"CANCELLED", poller[p].currentStatus}
                      \/ q.currentStatus = cloud /\ cloud \in Terminal
<1>1. poller \in [Pollers -> Poller] /\ poller[p] \in Poller /\ "PENDING" \in Active
  BY StoreAssumption DEF TypeOK, PoolTypeOK
<1>2. UNCHANGED poller => Fine(poller'[p])
  OBVIOUS
<1>3. ASSUME NEW w, NEW s \in Active, startJobPoller(w, s) PROVE Fine(poller'[p])
  BY <1>1, <1>3 DEF startJobPoller, NewPoller
<1>4. ASSUME NEW w, stopPollerForJob(w) PROVE Fine(poller'[p])
  BY <1>1, <1>4 DEF stopPollerForJob, Poller
<1>5. CASE SubmitJob
  BY <1>2, <1>3, <1>5 DEF Handed, SubmitJob, SubmitInsert, SubmitDispatch, SubmitFail,
     SubmitFailPublish, SubmitSetPath, SubmitStart, poolVars
<1>6. CASE \E r \in Requests : CancelJob(r) \/ DeleteJob(r)
  BY <1>2, <1>4, <1>6 DEF CancelJob, CancelBegin, CancelCloud, CancelWait, CancelRow,
     CancelRecord, CancelPublish, CancelStop, DeleteJob, DeleteBegin, DeleteCloud, DeleteWait,
     DeleteRow, DeleteStop, vars, poolVars
<1>7. ASSUME NEW k \in Pollers, PollStep(k) PROVE Fine(poller'[p])
  <2>1. ASSUME NEW q, poller' = [poller EXCEPT ![k] = q],
               \/ q.currentStatus \in Active \cup {"CANCELLED", poller[k].currentStatus}
               \/ q.currentStatus = cloud /\ cloud \in Terminal
        PROVE  Fine(poller'[p])
    BY <1>1, <2>1
  <2>2. /\ poller[k] \in Poller
        /\ \A w, pc : NoLocals(w, pc).currentStatus = "PENDING"
        /\ \A pc : [poller[k] EXCEPT !.pc = pc].currentStatus = poller[k].currentStatus
    BY <1>1 DEF NoLocals, NewPoller, Poller
  <2>3. \A pc : PollGoto(k, pc) => Fine(poller'[p])
    BY <2>1, <2>2 DEF PollGoto
  <2>4. PollReturns(k) => Fine(poller'[p])
    BY <1>1, <2>1, <2>2 DEF PollReturns
  <2>5. CASE PollGet(k)
    <3> DEFINE same == [poller[k] EXCEPT !.pc = "wait", !.failedAttempts = 0]
               changed == [poller[k] EXCEPT !.pc = "update", !.failedAttempts = 0,
                                            !.currentStatus = ObservedStatus]
    <3>1. same.currentStatus = poller[k].currentStatus /\ changed.currentStatus = ObservedStatus
      BY <2>2 DEF Poller
    <3>2. poller' = [poller EXCEPT ![k] = same] \/ poller' = [poller EXCEPT ![k] = changed]
      BY <1>1, <2>5 DEF PollGet
    <3>3. \/ ObservedStatus \in Active \cup {"CANCELLED"}
          \/ ObservedStatus = cloud /\ cloud \in Terminal
      BY <2>5 DEF PollGet, Observable, ObservedStatus, TypeOK, CloudTypeOK, CloudState, Status
    <3> HIDE DEF same, changed
    <3> QED
      BY <2>1, <3>1, <3>2, <3>3
  <2>6. CASE PollGetFails(k)
    <3> DEFINE again == [poller[k] EXCEPT !.pc = "wait",
                                          !.failedAttempts = poller[k].failedAttempts + 1]
    <3>1. again.currentStatus = poller[k].currentStatus
      BY <2>2 DEF Poller
    <3>2. poller' = [poller EXCEPT ![k] = again] \/ PollReturns(k)
      BY <1>1, <2>6 DEF PollGetFails
    <3> HIDE DEF again
    <3> QED
      BY <2>1, <2>4, <3>1, <3>2
  <2>7. CASE PollExit(k)
    BY <1>1, <2>1, <2>2, <2>7 DEF PollExit, FreedPoller
  <2> QED
    BY <1>7, <2>3, <2>4, <2>5, <2>6, <2>7 DEF PollStep, Poll, PollStopped, PollClaim, PollUpdate,
       PollRecord, PollPublish
<1>8. ASSUME NEW w \in Workers, ReconcileStep(w) PROVE Fine(poller'[p])
  BY <1>2, <1>3, <1>8 DEF Handed, ReconcileStep, ReconcileList, ReconcileClaim, ReconcileStart
<1>9. ASSUME NEW w \in Workers, Crash(w) \/ Shutdown(w) \/ ShutdownDone(w) \/ Restart(w)
      PROVE  Fine(poller'[p])
  <2>1. FreedPoller.currentStatus = "PENDING"
    BY DEF FreedPoller, NoLocals, NewPoller
  <2>2. PoolCrash(w) => Fine(poller'[p])
    BY <1>1, <2>1 DEF PoolCrash
  <2> QED
    BY <1>2, <1>4, <1>9, <2>2 DEF Crash, Shutdown, ShutdownDone, ProcessEnds, StopAllPollers,
       Restart, vars, poolVars
<1>10. CASE CloudStep \/ LeaseStep \/ UNCHANGED allVars
  BY <1>2, <1>10 DEF CloudStep, LeaseStep, allVars, vars, poolVars
<1> QED
  BY <1>5, <1>6, <1>7, <1>8, <1>9, <1>10 DEF Next

\* So a poller never makes an end up.
LEMMA NextHeard ==
  ASSUME TypeOK, EndsOnce, Handed, Heard, [Next]_allVars
  PROVE  Heard'
<1> SUFFICES ASSUME NEW p \in Pollers
             PROVE  poller'[p].currentStatus \in Active \cup {"CANCELLED"} \cup reached'
  BY DEF Heard
<1>1. reached \subseteq reached' /\ (cloud \in Terminal => cloud \in reached)
  BY NextEndsOnce DEF EndsOnce
<1> QED
  BY <1>1, PollersRead DEF Heard

\* Who publishes: a poller the status it holds, a submission that fails, a cancellation.
LEMMA Publishers ==
  ASSUME TypeOK, [Next]_allVars
  PROVE  \/ UNCHANGED published
         \/ \E p \in Pollers : /\ poller[p].pc = "publish"
                               /\ published' = published \cup {poller[p].currentStatus}
         \/ /\ submit.pc = "failpublish" /\ submit'.pc = "error"
            /\ published' = published \cup {"FAILED"}
         \/ \E r \in Requests : /\ request[r].pc = "cancelpublish"
                                /\ published' = published \cup {"CANCELLED"}
<1>1. CASE SubmitJob
  <2>1. CASE SubmitFailPublish
    BY <2>1 DEF SubmitFailPublish, publishTerminalEvent, SubmitReturns, IdleSubmit
  <2> QED
    BY <1>1, <2>1 DEF SubmitJob, SubmitInsert, SubmitDispatch, SubmitFail, SubmitSetPath,
       SubmitStart, poolVars
<1>2. CASE \E r \in Requests : CancelJob(r) \/ DeleteJob(r)
  <2> SUFFICES ASSUME NEW r \in Requests, CancelJob(r) \/ DeleteJob(r)
               PROVE  \/ UNCHANGED published
                      \/ /\ request[r].pc = "cancelpublish"
                         /\ published' = published \cup {"CANCELLED"}
    BY <1>2
  <2> QED
    BY DEF CancelJob, CancelBegin, CancelCloud, CancelWait, CancelRow, CancelRecord,
       CancelPublish, publishTerminalEvent, CancelStop, DeleteJob, DeleteBegin, DeleteCloud,
       DeleteWait, DeleteRow, DeleteStop, vars, poolVars
<1>3. CASE \E p \in Pollers : PollStep(p)
  BY <1>3 DEF PollStep, Poll, PollStopped, PollClaim, PollGet, PollGetFails, PollUpdate,
     PollRecord, PollPublish, publishTerminalEvent, PollExit
<1>4. CASE \E w \in Workers : ReconcileStep(w)
  BY <1>4 DEF ReconcileStep, ReconcileList, ReconcileClaim, ReconcileStart
<1>5. CASE \E w \in Workers : Crash(w) \/ Shutdown(w) \/ ShutdownDone(w) \/ Restart(w)
  BY <1>5 DEF Crash, Shutdown, ShutdownDone, ProcessEnds, PoolCrash, StopAllPollers, Restart,
     vars, poolVars
<1>6. CASE CloudStep \/ LeaseStep \/ UNCHANGED allVars
  BY <1>6 DEF CloudStep, LeaseStep, allVars, vars, poolVars
<1> QED
  BY <1>1, <1>2, <1>3, <1>4, <1>5, <1>6 DEF Next

\* Only a poller says that a job completed, and a failed submission keeps its path to itself.
LEMMA NextFailureIsTraced ==
  ASSUME TypeOK, PathInv, EndsOnce, Handed, Heard, FailureIsTraced, [Next]_allVars
  PROVE  FailureIsTraced'
<1>1. "FAILED" \notin Active /\ reached \subseteq reached'
  BY StoreAssumption, NextEndsOnce
<1>2. ASSUME Unpolled, "COMPLETED" \notin published PROVE "COMPLETED" \notin published'
  BY <1>2, Publishers DEF Unpolled, Free
<1>3. submit'.pc \in BeforePath => "COMPLETED" \notin published'
  BY <1>2, SubmissionGoesOn DEF FailureIsTraced, PathInv
<1>4. submit.pc = "error" => submit'.pc = "error"
  <2>1. submit.pc = "error" => UNCHANGED submit \/ submit'.pc = "error"
    BY DEF Next, SubmitJob, SubmitInsert, SubmitDispatch, SubmitFail, SubmitFailPublish,
       SubmitSetPath, SubmitStart, CancelJob, CancelBegin, CancelCloud, CancelWait, CancelRow,
       CancelRecord, CancelPublish, CancelStop, DeleteJob, DeleteBegin, DeleteCloud, DeleteWait,
       DeleteRow, DeleteStop, PollStep, ReconcileStep, Crash, Shutdown, ShutdownDone,
       ProcessEnds, SubmitReturns, IdleSubmit, Restart, CloudStep, LeaseStep, allVars, serviceVars
  <2> QED
    BY <2>1
<1>5. ASSUME "FAILED" \in published', "FAILED" \notin reached'
      PROVE  submit'.pc = "error" /\ Unpolled' /\ "COMPLETED" \notin published'
  <2>1. CASE "FAILED" \in published
    BY <1>1, <1>2, <1>4, <1>5, <2>1, UnpolledStays, SubmissionGoesOn DEF FailureIsTraced
  <2>2. CASE "FAILED" \notin published
    <3>1. submit.pc = "failpublish" /\ submit'.pc = "error"
      BY <1>1, <1>5, <2>2, Publishers DEF Heard
    <3> QED
      BY <1>2, <3>1, UnpolledStays, SubmissionGoesOn DEF FailureIsTraced, PathInv, BeforePath
  <2> QED
    BY <2>1, <2>2
<1> QED
  BY <1>3, <1>5 DEF FailureIsTraced

\* Tenants are never told that one job both completed and failed, although the event of a
\* submission that fails is published without asking the resource.
THEOREM OneOutcome == Spec => []OutcomesAgree
<1> DEFINE Inv == EndsOnce /\ Handed /\ Heard /\ FailureIsTraced
<1>1. Init => Inv
  <2> SUFFICES ASSUME Init PROVE Inv
    OBVIOUS
  <2>1. /\ \A p \in Pollers : poller[p].currentStatus = "PENDING"
        /\ \A w \in Workers : recon[w].snapshot = "PENDING"
        /\ submit.status = "PENDING"
        /\ published = {} /\ reached = {}
        /\ cloud \in {"absent", "RUNNING"}
    BY DEF Init, PoolInit, FreedPoller, NoLocals, NewPoller, IdleReconciler, IdleSubmit
  <2>2. "PENDING" \in Active /\ cloud \notin Terminal
    BY <2>1, StoreAssumption DEF Terminal
  <2> QED
    BY <2>1, <2>2 DEF EndsOnce, Handed, Heard, FailureIsTraced
<1>2. TypeOK /\ PathInv /\ Inv /\ [Next]_allVars => Inv'
  BY NextEndsOnce, NextHanded, NextHeard, NextFailureIsTraced
<1>3. Inv /\ NoFabricatedCompletion => OutcomesAgree
  BY DEF EndsOnce, FailureIsTraced, NoFabricatedCompletion, OutcomesAgree
<1> HIDE DEF Inv
<1> QED
  BY <1>1, <1>2, <1>3, TypeCorrect, PathInvariant, CompletionIsGenuine, PTL DEF Spec

(***************************************************************************)
(* One poller                                                              *)
(***************************************************************************)

\* A process that ended left nothing behind, and a submission that it served has ended.
DownIsEmpty ==
  \A w \in Workers : up[w] = "down" =>
    /\ \A p \in Pollers : poller[p].worker = w => Free(p)
    /\ recon[w].pc = "idle"
    /\ submit.worker = w => submit.pc \in {"idle", "done", "error"}

\* A poller that runs is the one that its worker's map holds.
Registered ==
  NeverStopped => \A p \in Pollers :
    ~Free(p) /\ up[poller[p].worker] = "up" => registry[poller[p].worker] = p

\* A step that neither starts nor ends a poller, nor touches the map.
PoolKept ==
  /\ UNCHANGED registry
  /\ \A p \in Pollers : /\ Free(p)' <=> Free(p)
                        /\ ~Free(p) => poller'[p].worker = poller[p].worker

\* A poller is started for a worker that has none in its map.
Started(w) ==
  /\ registry[w] = NoPoller
  /\ FreePoller \in Pollers /\ Free(FreePoller)
  /\ \E s \in Status : poller' = [poller EXCEPT ![FreePoller] = NewPoller(w, s)]
  /\ registry' = [registry EXCEPT ![w] = FreePoller]

\* startJobPoller does the one or the other.
LEMMA Starting ==
  ASSUME TypeOK, NEW w \in Workers, NEW s \in Status, startJobPoller(w, s)
  PROVE  PoolKept \/ Started(w)
<1>1. CASE UNCHANGED <<poller, registry>>
  BY <1>1 DEF PoolKept, Free
<1>2. CASE registry[w] = NoPoller /\ \E p \in Pollers : Free(p)
  <2>1. FreePoller \in Pollers /\ Free(FreePoller)
    BY <1>2 DEF FreePoller
  <2> QED
    BY <1>2, <2>1, startJobPoller(w, s) DEF startJobPoller, Started, PoolKept, Free
<1> QED
  BY <1>1, <1>2, startJobPoller(w, s) DEF startJobPoller

\* What a step may do to the pollers and the maps.
LEMMA PoolMoves ==
  ASSUME TypeOK, [Next]_allVars
  PROVE  \/ PoolKept
         \/ SubmitStart /\ Started(submit.worker)
         \/ \E w \in Workers : ReconcileStart(w) /\ Started(w) /\ UNCHANGED up
         \/ \E p \in Pollers : PollExit(p) /\ UNCHANGED up
         \/ \E r \in Requests : CancelStop(r) \/ DeleteStop(r)
         \/ \E w \in Workers : Crash(w) \/ Shutdown(w) \/ ShutdownDone(w)
<1>1. UNCHANGED <<poller, registry>> => PoolKept
  BY DEF PoolKept, Free
<1>2. poller \in [Pollers -> Poller] /\ \A w \in Workers : recon[w].snapshot \in Status
  BY DEF TypeOK, PoolTypeOK, Reconciler
<1>3. CASE SubmitJob
  BY <1>1, <1>3, Starting, SubmitTypes
  DEF SubmitJob, SubmitInsert, SubmitDispatch, SubmitFail, SubmitFailPublish, SubmitSetPath,
      SubmitStart, poolVars
<1>4. CASE \E r \in Requests : CancelJob(r) \/ DeleteJob(r)
  BY <1>1, <1>4 DEF CancelJob, CancelBegin, CancelCloud, CancelWait, CancelRow, CancelRecord,
     CancelPublish, DeleteJob, DeleteBegin, DeleteCloud, DeleteWait, DeleteRow, vars, poolVars
<1>5. ASSUME NEW p \in Pollers, PollStep(p), ~PollExit(p) PROVE PoolKept
  <2>1. ASSUME NEW q, poller' = [poller EXCEPT ![p] = q], q.pc # "free",
               q.worker = poller[p].worker, ~Free(p), UNCHANGED registry
        PROVE  PoolKept
    BY <1>2, <2>1 DEF PoolKept, Free
  <2>2. /\ poller[p] \in Poller
        /\ \A pc : /\ [poller[p] EXCEPT !.pc = pc].pc = pc
                   /\ [poller[p] EXCEPT !.pc = pc].worker = poller[p].worker
        /\ NoLocals(poller[p].worker, "exit").pc = "exit"
        /\ NoLocals(poller[p].worker, "exit").worker = poller[p].worker
    BY <1>2 DEF Poller, NoLocals, NewPoller
  <2>3. ASSUME NEW pc, PollGoto(p, pc), pc # "free", ~Free(p), UNCHANGED registry PROVE PoolKept
    BY <2>1, <2>2, <2>3 DEF PollGoto
  <2>4. ASSUME PollReturns(p), ~Free(p), UNCHANGED registry PROVE PoolKept
    BY <1>2, <2>1, <2>2, <2>4 DEF PollReturns
  <2>5. ~Free(p) /\ UNCHANGED registry
    BY <1>5 DEF Free, PollStep, Poll, PollStopped, PollClaim, PollGet, PollGetFails, PollUpdate,
       PollRecord, PollPublish
  <2>6. CASE PollGet(p)
    <3> DEFINE same == [poller[p] EXCEPT !.pc = "wait", !.failedAttempts = 0]
               changed == [poller[p] EXCEPT !.pc = "update", !.failedAttempts = 0,
                                            !.currentStatus = ObservedStatus]
    <3>1. /\ same.pc = "wait" /\ same.worker = poller[p].worker
          /\ changed.pc = "update" /\ changed.worker = poller[p].worker
      BY <2>2 DEF Poller
    <3>2. poller' = [poller EXCEPT ![p] = same] \/ poller' = [poller EXCEPT ![p] = changed]
      BY <1>2, <2>6 DEF PollGet
    <3> HIDE DEF same, changed
    <3>3. CASE poller' = [poller EXCEPT ![p] = same]
      BY <2>1, <2>5, <3>1, <3>3
    <3>4. CASE poller' = [poller EXCEPT ![p] = changed]
      BY <2>1, <2>5, <3>1, <3>4
    <3> QED
      BY <3>2, <3>3, <3>4
  <2>7. CASE PollGetFails(p)
    <3> DEFINE again == [poller[p] EXCEPT !.pc = "wait",
                                          !.failedAttempts = poller[p].failedAttempts + 1]
    <3>1. again.pc = "wait" /\ again.worker = poller[p].worker
      BY <2>2 DEF Poller
    <3>2. poller' = [poller EXCEPT ![p] = again] \/ PollReturns(p)
      BY <1>2, <2>7 DEF PollGetFails
    <3> HIDE DEF again
    <3>3. CASE poller' = [poller EXCEPT ![p] = again]
      BY <2>1, <2>5, <3>1, <3>3
    <3> QED
      BY <2>4, <2>5, <3>2, <3>3
  <2> QED
    BY <1>5, <2>3, <2>4, <2>5, <2>6, <2>7 DEF PollStep, Poll, PollStopped, PollClaim,
       PollUpdate, PollRecord, PollPublish
<1>6. ASSUME NEW w \in Workers, ReconcileStep(w)
      PROVE  PoolKept \/ (ReconcileStart(w) /\ Started(w) /\ UNCHANGED up)
  BY <1>1, <1>2, <1>6, Starting DEF ReconcileStep, ReconcileList, ReconcileClaim, ReconcileStart,
     serviceVars
<1>7. CASE (\E w \in Workers : Restart(w)) \/ CloudStep \/ LeaseStep \/ UNCHANGED allVars
  BY <1>1, <1>7 DEF Restart, CloudStep, LeaseStep, allVars, vars, poolVars
<1> QED
  BY <1>3, <1>4, <1>5, <1>6, <1>7 DEF Next, PollStep, serviceVars

\* What a step may do to the processes.
LEMMA ProcessMoves ==
  ASSUME [Next]_allVars
  PROVE  UNCHANGED up \/ \E w \in Workers : Crash(w) \/ Shutdown(w) \/ ShutdownDone(w) \/ Restart(w)
BY DEF Next, SubmitJob, SubmitInsert, SubmitDispatch, SubmitFail, SubmitFailPublish,
   SubmitSetPath, SubmitStart, CancelJob, CancelBegin, CancelCloud, CancelWait, CancelRow,
   CancelRecord, CancelPublish, CancelStop, DeleteJob, DeleteBegin, DeleteCloud, DeleteWait,
   DeleteRow, DeleteStop, PollStep, ReconcileStep, CloudStep, LeaseStep, allVars, serviceVars

\* Stopping a job's poller, at whichever worker, ends no poller.
LEMMA StoppingKeeps ==
  ASSUME TypeOK, NEW w \in Workers, stopPollerForJob(w)
  PROVE  /\ \A p \in Pollers : poller'[p].pc = poller[p].pc /\ poller'[p].worker = poller[p].worker
         /\ \A v \in Workers \ {w} : registry'[v] = registry[v]
BY DEF stopPollerForJob, TypeOK, PoolTypeOK, Poller

\* The end of a process takes its pollers along and touches no other's.
LEMMA EndingClears ==
  ASSUME TypeOK, NEW w \in Workers, Crash(w) \/ ShutdownDone(w)
  PROVE  /\ up' = [up EXCEPT ![w] = "down"] /\ up \in [Workers -> {"up", "draining", "down"}]
         /\ \A p \in Pollers : Free(p)' \/ (poller'[p] = poller[p] /\ poller[p].worker # w)
         /\ \A v \in Workers \ {w} : registry'[v] = registry[v]
         /\ \A v \in Workers : recon'[v].pc = "idle" \/ (v # w /\ recon'[v] = recon[v])
         /\ \/ submit'.pc = "error"
            \/ submit' = submit /\ (submit.worker = w => submit.pc \in {"idle", "done"})
<1>1. FreedPoller.pc = "free" /\ IdleReconciler.pc = "idle"
  BY DEF FreedPoller, NoLocals, NewPoller, IdleReconciler
<1>2. ProcessEnds(w)
  BY DEF Crash, ShutdownDone
<1>3. PoolCrash(w) /\ up' = [up EXCEPT ![w] = "down"]
  BY <1>2 DEF ProcessEnds
<1>4. \/ submit'.pc = "error"
      \/ submit' = submit /\ (submit.worker = w => submit.pc \in {"idle", "done"})
  BY <1>2 DEF ProcessEnds, SubmitReturns, IdleSubmit
<1> QED
  BY <1>1, <1>3, <1>4 DEF PoolCrash, TypeOK, PoolTypeOK, Free

\* A process that is down stays empty, until it is started again.
LEMMA NextDown ==
  ASSUME TypeOK, DownIsEmpty, [Next]_allVars
  PROVE  DownIsEmpty'
<1> SUFFICES ASSUME NEW w \in Workers, up'[w] = "down"
             PROVE  /\ \A p \in Pollers : poller'[p].worker = w => Free(p)'
                    /\ recon'[w].pc = "idle"
                    /\ submit'.worker = w => submit'.pc \in {"idle", "done", "error"}
  BY DEF DownIsEmpty
<1>1. CASE \E v \in Workers : Crash(v) \/ ShutdownDone(v)
  <2> PICK v \in Workers : Crash(v) \/ ShutdownDone(v)
    BY <1>1
  <2>1. v = w \/ up[w] = "down"
    BY EndingClears
  <2>2. CASE v = w
    BY <2>2, EndingClears
  <2>3. CASE v # w /\ up[w] = "down"
    BY <2>3, EndingClears DEF DownIsEmpty, Free
  <2> QED
    BY <2>1, <2>2, <2>3
<1>2. ASSUME ~\E v \in Workers : Crash(v) \/ ShutdownDone(v) PROVE up[w] = "down"
  BY <1>2, ProcessMoves DEF Shutdown, Restart, TypeOK
<1>3. ASSUME ~(\E v \in Workers : Crash(v) \/ ShutdownDone(v))
      PROVE  \A p \in Pollers : poller'[p].worker = w => Free(p)'
  <2>1. /\ \A p \in Pollers : poller[p].worker = w => Free(p)
        /\ recon[w].pc = "idle"
        /\ submit.worker = w => submit.pc # "start"
    BY <1>2, <1>3 DEF DownIsEmpty
  <2>2. CASE PoolKept
    BY <2>1, <2>2 DEF PoolKept
  <2>3. ASSUME NEW v \in Workers, v # w, Started(v)
        PROVE  \A p \in Pollers : poller'[p].worker = w => Free(p)'
    BY <2>1, <2>3 DEF Started, NewPoller, Free, TypeOK, PoolTypeOK
  <2>4. CASE \E p \in Pollers : PollExit(p)
    <3>1. FreedPoller.pc = "free"
      BY DEF FreedPoller, NoLocals, NewPoller
    <3> QED
      BY <2>1, <2>4, <3>1 DEF PollExit, Free, TypeOK, PoolTypeOK
  <2>5. CASE \E r \in Requests : CancelStop(r) \/ DeleteStop(r)
    BY <2>1, <2>5, StoppingKeeps, RequestTypes DEF CancelStop, DeleteStop, Free
  <2>6. CASE \E v \in Workers : Shutdown(v)
    BY <2>1, <2>6, StoppingKeeps DEF Shutdown, StopAllPollers, Free
  <2> QED
    BY <1>3, <2>1, <2>2, <2>3, <2>4, <2>5, <2>6, PoolMoves, SubmitTypes DEF SubmitStart, ReconcileStart
<1>4. ASSUME ~(\E v \in Workers : Crash(v) \/ ShutdownDone(v)) PROVE recon'[w].pc = "idle"
  <2>1. recon[w].pc = "idle" /\ up[w] = "down"
    BY <1>2, <1>4 DEF DownIsEmpty
  <2>2. ASSUME NEW v \in Workers, ReconcileStep(v) PROVE recon'[w].pc = "idle"
    BY <2>1, <2>2 DEF ReconcileStep, ReconcileList, ReconcileClaim, ReconcileStart, ReconGoto,
       ReconNext, TypeOK, PoolTypeOK
  <2> QED
    BY <1>4, <2>1, <2>2, ReconcilersKept
<1>5. ASSUME ~(\E v \in Workers : Crash(v) \/ ShutdownDone(v))
      PROVE  submit'.worker = w => submit'.pc \in {"idle", "done", "error"}
  <2>1. (submit.worker = w => submit.pc \in {"idle", "done", "error"}) /\ up[w] = "down"
    BY <1>2, <1>5 DEF DownIsEmpty
  <2>2. CASE UNCHANGED submit
    BY <2>1, <2>2
  <2>3. \A pc \in SubmitPCs :
          /\ SubmitGoto(pc) => submit'.pc = pc /\ submit'.worker = submit.worker
          /\ SubmitReturns(pc) => submit'.pc = pc
    BY DEF SubmitPCs, SubmitGoto, SubmitReturns, IdleSubmit, TypeOK, Submit
  <2>4. ASSUME NEW v \in Homes, SubmitInsert(v)
        PROVE  submit'.worker = w => submit'.pc \in {"idle", "done", "error"}
    BY <2>1, <2>3, <2>4 DEF SubmitInsert, SubmitPCs, TypeOK, Submit
  <2>5. CASE SubmitDispatch
    BY <2>1, <2>3, <2>5 DEF SubmitDispatch, SubmitPCs, TypeOK, Submit
  <2>6. CASE SubmitFail \/ SubmitFailPublish \/ SubmitSetPath \/ SubmitStart
    BY <2>1, <2>3, <2>6 DEF SubmitFail, SubmitFailPublish, SubmitSetPath, SubmitStart, SubmitPCs
  <2> QED
    BY <1>5, <2>2, <2>4, <2>5, <2>6 DEF Next, SubmitJob, CancelJob, CancelBegin, CancelCloud,
       CancelWait, CancelRow, CancelRecord, CancelPublish, CancelStop, DeleteJob, DeleteBegin,
       DeleteCloud, DeleteWait, DeleteRow, DeleteStop, PollStep, ReconcileStep, Shutdown,
       Restart, CloudStep, LeaseStep, allVars, serviceVars
<1> QED
  BY <1>1, <1>3, <1>4, <1>5

\* A cancellation or a deletion that has stopped a poller stays answered.
LEMMA StopsRemain ==
  ASSUME TypeOK, [Next]_allVars, NeverStopped'
  PROVE  NeverStopped /\ \A r \in Requests : ~CancelStop(r) /\ ~DeleteStop(r)
<1>1. ASSUME NEW r \in Requests, CancelStop(r) \/ DeleteStop(r) PROVE FALSE
  <2>1. request'[r].pc \in {"cancelled", "deleted"}
    BY <1>1 DEF CancelStop, DeleteStop, Respond, IdleRequest, TypeOK
  <2> QED
    BY <2>1 DEF NeverStopped
<1>2. ASSUME NEW r \in Requests, request[r].pc \in {"cancelled", "deleted"}
      PROVE  request'[r] = request[r]
  <2>1. request \in [Requests -> Request]
    BY DEF TypeOK
  <2>2. CASE \E k \in Requests : CancelJob(k) \/ DeleteJob(k)
    <3> PICK k \in Requests : CancelJob(k) \/ DeleteJob(k)
      BY <2>2
    <3>1. k # r
      BY <1>2 DEF CancelJob, CancelBegin, CancelCloud, CancelWait, CancelRow, CancelRecord,
         CancelPublish, CancelStop, DeleteJob, DeleteBegin, DeleteCloud, DeleteWait, DeleteRow,
         DeleteStop
    <3>2. \E q : request' = [request EXCEPT ![k] = q]
      BY <2>1 DEF CancelJob, CancelBegin, CancelCloud, CancelWait, CancelRow, CancelRecord,
         CancelPublish, CancelStop, DeleteJob, DeleteBegin, DeleteCloud, DeleteWait, DeleteRow,
         DeleteStop, Goto, Respond, Begin
    <3> QED
      BY <2>1, <3>1, <3>2
  <2>3. CASE \E w \in Workers : Crash(w) \/ ShutdownDone(w)
    BY <1>2, <2>3 DEF Crash, ShutdownDone, ProcessEnds, Serving
  <2>4. CASE UNCHANGED request
    BY <2>4
  <2> QED
    BY <2>2, <2>3, <2>4 DEF Next, SubmitJob, SubmitInsert, SubmitDispatch, SubmitFail,
       SubmitFailPublish, SubmitSetPath, SubmitStart, PollStep, ReconcileStep, Shutdown, Restart,
       CloudStep, LeaseStep, allVars, serviceVars
<1> QED
  BY <1>1, <1>2 DEF NeverStopped

\* Nothing but a stop lets a poller run that its worker's map does not hold: a new one is
\* started only where the map is empty, and one that returns takes away its own entry.
LEMMA NextRegistered ==
  ASSUME TypeOK, DownIsEmpty, Registered, [Next]_allVars
  PROVE  Registered'
<1> SUFFICES ASSUME NeverStopped', NEW p \in Pollers, poller'[p].pc # "free",
                    up'[poller'[p].worker] = "up"
             PROVE  registry'[poller'[p].worker] = p
  BY DEF Registered, Free
<1>1. /\ \A q \in Pollers : ~Free(q) /\ up[poller[q].worker] = "up" => registry[poller[q].worker] = q
      /\ \A r \in Requests : ~CancelStop(r) /\ ~DeleteStop(r)
  BY StopsRemain DEF Registered
<1>2. /\ poller \in [Pollers -> Poller] /\ up \in [Workers -> {"up", "draining", "down"}]
      /\ registry \in [Workers -> Pollers \cup {NoPoller}] /\ NoPoller \notin Pollers
      /\ \A q \in Pollers : poller[q] \in Poller /\ poller[q].worker \in Workers
  BY PollerAssumption DEF TypeOK, PoolTypeOK, Poller
<1>3. ASSUME ~(\E w \in Workers : Crash(w) \/ ShutdownDone(w)), NEW v \in Workers, up'[v] = "up"
      PROVE  up[v] = "up" \/ (up[v] = "down" /\ Restart(v))
  BY <1>2, <1>3, ProcessMoves DEF Shutdown, Restart
<1>4. ASSUME NEW v \in Workers, up[v] = "down", NEW q \in Pollers, poller[q].worker = v PROVE Free(q)
  BY <1>4 DEF DownIsEmpty
<1>5. CASE \E w \in Workers : Crash(w) \/ ShutdownDone(w)
  <2> PICK w \in Workers : Crash(w) \/ ShutdownDone(w)
    BY <1>5
  <2>1. poller'[p] = poller[p] /\ poller[p].worker # w
    BY EndingClears DEF Free
  <2>2. up'[poller[p].worker] = up[poller[p].worker] /\ registry'[poller[p].worker] = registry[poller[p].worker]
    BY <1>2, <2>1, EndingClears
  <2> QED
    BY <1>1, <2>1, <2>2 DEF Free
<1>6. ASSUME ~(\E w \in Workers : Crash(w) \/ ShutdownDone(w)), ~Free(p),
             poller'[p].worker = poller[p].worker
      PROVE  registry[poller[p].worker] = p
  BY <1>1, <1>2, <1>3, <1>4, <1>6
<1>7. CASE PoolKept
  <2>1. CASE \E w \in Workers : Crash(w) \/ ShutdownDone(w)
    BY <1>5, <2>1
  <2> QED
    BY <1>6, <1>7, <2>1 DEF PoolKept, Free
<1>8. ASSUME NEW w \in Workers, Started(w), UNCHANGED up
      PROVE  registry'[poller'[p].worker] = p
  <2>1. PICK s \in Status : poller' = [poller EXCEPT ![FreePoller] = NewPoller(w, s)]
    BY <1>8 DEF Started
  <2>2. /\ FreePoller \in Pollers /\ registry[w] = NoPoller
        /\ registry' = [registry EXCEPT ![w] = FreePoller]
    BY <1>8 DEF Started
  <2>3. CASE p = FreePoller
    BY <1>2, <2>1, <2>2, <2>3 DEF NewPoller
  <2>4. CASE p # FreePoller
    <3>1. poller'[p] = poller[p]
      BY <1>2, <2>1, <2>4
    <3>2. registry[poller[p].worker] = p
      BY <1>1, <1>8, <3>1 DEF Free
    <3> QED
      BY <1>2, <2>2, <3>1, <3>2
  <2> QED
    BY <2>3, <2>4
<1>9. ASSUME NEW q \in Pollers, PollExit(q), UNCHANGED up PROVE registry'[poller'[p].worker] = p
  <2>1. FreedPoller.pc = "free"
    BY DEF FreedPoller, NoLocals, NewPoller
  <2>2. /\ poller' = [poller EXCEPT ![q] = FreedPoller] /\ poller[q].pc = "exit"
        /\ registry' = [registry EXCEPT ![poller[q].worker] = NoPoller]
    BY <1>9 DEF PollExit, unregisterPoller
  <2>3. p # q /\ poller'[p] = poller[p]
    BY <1>2, <2>1, <2>2
  <2>4. registry[poller[p].worker] = p
    BY <1>1, <1>9, <2>3 DEF Free
  <2>5. poller[q].worker # poller[p].worker
    BY <1>1, <1>9, <2>2, <2>3, <2>4 DEF Free
  <2> QED
    BY <1>2, <2>2, <2>3, <2>4, <2>5
<1>10. ASSUME NEW w \in Workers, Shutdown(w) PROVE registry'[poller'[p].worker] = p
  <2>1. stopPollerForJob(w) /\ up' = [up EXCEPT ![w] = "draining"]
    BY <1>10 DEF Shutdown, StopAllPollers
  <2>2. /\ poller'[p].pc = poller[p].pc /\ poller'[p].worker = poller[p].worker
        /\ \A v \in Workers \ {w} : registry'[v] = registry[v]
    BY <2>1, StoppingKeeps
  <2>3. poller[p].worker # w /\ up[poller[p].worker] = "up"
    BY <1>2, <2>1, <2>2
  <2> QED
    BY <1>1, <1>2, <2>2, <2>3 DEF Free
<1>11. SubmitStart => UNCHANGED up
  BY DEF SubmitStart
<1> QED
  BY <1>1, <1>5, <1>7, <1>8, <1>9, <1>10, <1>11, PoolMoves, SubmitTypes

\* As long as no cancellation or deletion has stopped a poller, a worker that is up polls
\* the job with one poller at a time, however often the job is claimed and given up, and
\* however the worker ended and came back.
THEOREM OnePoller == Spec => []OnePollerPerWorker
<1>1. Init => DownIsEmpty /\ Registered
  <2>1. FreedPoller.pc = "free" /\ IdleReconciler.pc = "idle" /\ IdleSubmit.pc = "idle"
    BY DEF FreedPoller, NoLocals, NewPoller, IdleReconciler, IdleSubmit
  <2> QED
    BY <2>1 DEF Init, PoolInit, DownIsEmpty, Registered, Free
<1>2. Registered => OnePollerPerWorker
  BY DEF Registered, OnePollerPerWorker, Polling, Free
<1> QED
  BY <1>1, <1>2, NextDown, NextRegistered, TypeCorrect, PTL DEF Spec

(***************************************************************************)
(* What is announced, and what is recorded first                           *)
(***************************************************************************)

\* A worker that was neither killed nor told to shut down is up.
Steady == crashes = 0 /\ shutdowns = 0 => \A w \in Workers : up[w] = "up"

\* No step takes a failed call back.
LEMMA FaultsGrow == [Next]_allVars => faults' = faults \/ Outage \/ LostReply \/ Late
<1> SUFFICES ASSUME [Next]_allVars PROVE faults' = faults \/ Outage \/ LostReply \/ Late
  OBVIOUS
<1>1. CASE SubmitJob
  BY <1>1 DEF SubmitJob, SubmitInsert, SubmitDispatch, SubmitFail, SubmitFailPublish,
     SubmitSetPath, SubmitStart, publishTerminalEvent, RowMissing, storeVars
<1>2. CASE \E r \in Requests : CancelJob(r) \/ DeleteJob(r)
  BY <1>2 DEF CancelJob, CancelBegin, CancelCloud, CancelWait, CancelRow, CancelRecord,
     CancelPublish, CancelStop, DeleteJob, DeleteBegin, DeleteCloud, DeleteWait, DeleteRow,
     DeleteStop, publishTerminalEvent, RowMissing, vars, storeVars
<1>3. CASE \E p \in Pollers : PollStep(p)
  BY <1>3 DEF PollStep, Poll, PollStopped, PollClaim, PollGet, PollGetFails, PollUpdate,
     PollRecord, PollPublish, PollExit, publishTerminalEvent, ClaimCommits, ClaimDeclined,
     ClaimAborted, RowMissing, storeVars
<1>4. CASE \E w \in Workers : ReconcileStep(w)
  BY <1>4 DEF ReconcileStep, ReconcileList, ReconcileClaim, ReconcileStart, ClaimCommits,
     ClaimDeclined, ClaimAborted, RowMissing, storeVars
<1>5. CASE \E w \in Workers : Crash(w) \/ Shutdown(w) \/ ShutdownDone(w) \/ Restart(w)
  BY <1>5 DEF Crash, Shutdown, ShutdownDone, ProcessEnds, Restart, vars, storeVars
<1>6. CASE CloudStep \/ LeaseStep \/ UNCHANGED allVars
  BY <1>6 DEF CloudStep, CloudProgress, CloudDeleted, LeaseStep, allVars, vars, storeVars
<1> QED
  BY <1>1, <1>2, <1>3, <1>4, <1>5, <1>6 DEF Next

\* So a history without disturbances had none before, and this step is none.
LEMMA Calm ==
  ASSUME TypeOK, Steady, [Next]_allVars, Undisturbed'
  PROVE  /\ Undisturbed /\ ~Outage /\ ~LostReply /\ ~Late
         /\ \A w \in Workers : ~Crash(w) /\ ~Shutdown(w) /\ ~ShutdownDone(w) /\ ~Restart(w)
<1>1. faults \in Nat /\ crashes \in Nat /\ shutdowns \in Nat
  BY StoreAssumption, ServiceBounds DEF TypeOK, StoreTypeOK
<1>2. faults = 0 /\ ~Outage /\ ~LostReply /\ ~Late
  BY <1>1, FaultsGrow DEF Undisturbed, Outage, LostReply, Late
<1>3. \/ UNCHANGED endings
      \/ \E w \in Workers : Crash(w) \/ Shutdown(w)
  BY DEF Next, SubmitJob, SubmitInsert, SubmitDispatch, SubmitFail, SubmitFailPublish,
     SubmitSetPath, SubmitStart, CancelJob, CancelBegin, CancelCloud, CancelWait, CancelRow,
     CancelRecord, CancelPublish, CancelStop, DeleteJob, DeleteBegin, DeleteCloud, DeleteWait,
     DeleteRow, DeleteStop, PollStep, ReconcileStep, CloudStep, LeaseStep, ShutdownDone, Restart,
     allVars, serviceVars
<1>4. \A w \in Workers : ~Crash(w) /\ ~Shutdown(w)
  BY <1>1 DEF Undisturbed, Crash, Shutdown
<1>5. crashes = 0 /\ shutdowns = 0
  BY <1>3, <1>4 DEF endings, Undisturbed
<1>6. \A w \in Workers : ~ShutdownDone(w) /\ ~Restart(w)
  BY <1>5 DEF Steady, ShutdownDone, Restart
<1> QED
  BY <1>2, <1>4, <1>5, <1>6 DEF Undisturbed

\* Workers do not go down by themselves.
LEMMA NextSteady == TypeOK /\ Steady /\ [Next]_allVars => Steady'
<1> SUFFICES ASSUME TypeOK, Steady, [Next]_allVars, crashes' = 0, shutdowns' = 0
             PROVE  \A w \in Workers : up'[w] = "up"
  BY DEF Steady
<1>1. crashes \in Nat /\ shutdowns \in Nat
  BY ServiceBounds DEF TypeOK
<1>2. \/ UNCHANGED endings
      \/ \E w \in Workers : Crash(w) \/ Shutdown(w)
  BY DEF Next, SubmitJob, SubmitInsert, SubmitDispatch, SubmitFail, SubmitFailPublish,
     SubmitSetPath, SubmitStart, CancelJob, CancelBegin, CancelCloud, CancelWait, CancelRow,
     CancelRecord, CancelPublish, CancelStop, DeleteJob, DeleteBegin, DeleteCloud, DeleteWait,
     DeleteRow, DeleteStop, PollStep, ReconcileStep, CloudStep, LeaseStep, ShutdownDone, Restart,
     allVars, serviceVars
<1>3. \A w \in Workers : ~Crash(w) /\ ~Shutdown(w)
  BY <1>1 DEF Crash, Shutdown
<1>4. \A w \in Workers : up[w] = "up"
  BY <1>2, <1>3 DEF endings, Steady
<1>5. UNCHANGED up
  BY <1>3, <1>4, ProcessMoves DEF ShutdownDone, Restart
<1> QED
  BY <1>4, <1>5

\* A poller that runs is moved by its own steps, and by the end of its process.
LEMMA PollerKept ==
  ASSUME TypeOK, [Next]_allVars, NEW p \in Pollers, ~Free(p), ~PollStep(p),
         ~\E w \in Workers : Crash(w) \/ ShutdownDone(w)
  PROVE  poller'[p].pc = poller[p].pc /\ poller'[p].currentStatus = poller[p].currentStatus
<1>1. poller \in [Pollers -> Poller] /\ poller[p] \in Poller
  BY DEF TypeOK, PoolTypeOK
<1>2. CASE UNCHANGED poller
  BY <1>2
<1>3. ASSUME NEW w, NEW s, startJobPoller(w, s) PROVE poller'[p] = poller[p]
  <2>1. (\E q \in Pollers : Free(q)) => FreePoller # p
    BY DEF FreePoller
  <2> QED
    BY <1>1, <1>3, <2>1 DEF startJobPoller
<1>4. ASSUME NEW w, stopPollerForJob(w)
      PROVE  poller'[p].pc = poller[p].pc /\ poller'[p].currentStatus = poller[p].currentStatus
  BY <1>1, <1>4 DEF stopPollerForJob, Poller
<1>5. CASE SubmitJob
  BY <1>2, <1>3, <1>5 DEF SubmitJob, SubmitInsert, SubmitDispatch, SubmitFail, SubmitFailPublish,
     SubmitSetPath, SubmitStart, poolVars
<1>6. CASE \E r \in Requests : CancelJob(r) \/ DeleteJob(r)
  BY <1>2, <1>4, <1>6 DEF CancelJob, CancelBegin, CancelCloud, CancelWait, CancelRow,
     CancelRecord, CancelPublish, CancelStop, DeleteJob, DeleteBegin, DeleteCloud, DeleteWait,
     DeleteRow, DeleteStop, vars, poolVars
<1>7. ASSUME NEW q \in Pollers, PollStep(q) PROVE poller'[p] = poller[p]
  <2>1. q # p
    BY <1>7
  <2>2. \E k : poller' = [poller EXCEPT ![q] = k]
    BY <1>1, <1>7 DEF PollStep, Poll, PollStopped, PollClaim, PollGet, PollGetFails, PollUpdate,
       PollRecord, PollPublish, PollExit, PollGoto, PollReturns
  <2> QED
    BY <1>1, <2>1, <2>2
<1>8. CASE \E w \in Workers : ReconcileStep(w)
  BY <1>2, <1>3, <1>8 DEF ReconcileStep, ReconcileList, ReconcileClaim, ReconcileStart
<1>9. CASE \E w \in Workers : Shutdown(w) \/ Restart(w)
  BY <1>2, <1>4, <1>9 DEF Shutdown, StopAllPollers, Restart, vars, poolVars
<1>10. CASE CloudStep \/ LeaseStep \/ UNCHANGED allVars
  BY <1>2, <1>10 DEF CloudStep, LeaseStep, allVars, vars, poolVars
<1> QED
  BY <1>5, <1>6, <1>7, <1>8, <1>9, <1>10 DEF Next

\* So are the submission and a request.
LEMMA HandlersKept ==
  ASSUME TypeOK, [Next]_allVars, ~\E w \in Workers : Crash(w) \/ ShutdownDone(w)
  PROVE  /\ SubmitJob \/ UNCHANGED submit
         /\ \A r \in Requests : CancelJob(r) \/ DeleteJob(r) \/ request'[r] = request[r]
<1>1. SubmitJob \/ UNCHANGED submit
  BY DEF Next, CancelJob, CancelBegin, CancelCloud, CancelWait, CancelRow, CancelRecord,
     CancelPublish, CancelStop, DeleteJob, DeleteBegin, DeleteCloud, DeleteWait, DeleteRow,
     DeleteStop, PollStep, ReconcileStep, Shutdown, Restart, CloudStep, LeaseStep, allVars, serviceVars
<1>2. ASSUME NEW r \in Requests, ~(CancelJob(r) \/ DeleteJob(r)) PROVE request'[r] = request[r]
  <2>1. UNCHANGED request \/ \E k \in Requests : CancelJob(k) \/ DeleteJob(k)
    BY DEF Next, SubmitJob, SubmitInsert, SubmitDispatch, SubmitFail, SubmitFailPublish,
       SubmitSetPath, SubmitStart, PollStep, ReconcileStep, Shutdown, Restart, CloudStep,
       LeaseStep, allVars, serviceVars
  <2>2. ASSUME NEW k \in Requests, CancelJob(k) \/ DeleteJob(k) PROVE request'[r] = request[r]
    <3>1. k # r
      BY <1>2, <2>2
    <3>2. \E q : request' = [request EXCEPT ![k] = q]
      BY <2>2 DEF TypeOK, CancelJob, CancelBegin, CancelCloud, CancelWait, CancelRow, CancelRecord,
         CancelPublish, CancelStop, DeleteJob, DeleteBegin, DeleteCloud, DeleteWait, DeleteRow,
         DeleteStop, Goto, Respond, Begin
    <3> QED
      BY <3>1, <3>2 DEF TypeOK
  <2> QED
    BY <2>1, <2>2
<1> QED
  BY <1>1, <1>2

\* A poller's call moves its pc and keeps the status it holds.
LEMMA PollerMoves ==
  ASSUME TypeOK, NEW p \in Pollers, NEW pc, PollGoto(p, pc)
  PROVE  /\ poller'[p].pc = pc /\ poller'[p].currentStatus = poller[p].currentStatus
         /\ \A q \in Pollers \ {p} : poller'[q] = poller[q]
BY DEF PollGoto, TypeOK, PoolTypeOK, Poller

\* Whoever is about to announce an end does so, when no call fails and no process ends.
LEMMA AnnouncersGoOn ==
  ASSUME TypeOK, Steady, [Next]_allVars, Undisturbed', NEW s \in Terminal, AboutToAnnounce(s)
  PROVE  s \in published' \/ AboutToAnnounce(s)'
<1>1. ~Outage /\ ~(\E w \in Workers : Crash(w) \/ ShutdownDone(w))
  BY Calm
<1>2. ASSUME NEW p \in Pollers, poller[p].pc \in {"record", "publish"}, poller[p].currentStatus = s
      PROVE  s \in published' \/ AboutToAnnounce(s)'
  <2>1. CASE ~PollStep(p)
    BY <1>1, <1>2, <2>1, PollerKept DEF Free, AboutToAnnounce
  <2>2. CASE PollRecord(p)
    BY <1>2, <2>2, PollerMoves DEF PollRecord, isTerminalStatus, AboutToAnnounce
  <2>3. CASE PollPublish(p)
    BY <1>1, <1>2, <2>3 DEF PollPublish, publishTerminalEvent
  <2> QED
    BY <1>2, <2>1, <2>2, <2>3 DEF PollStep, Poll, PollStopped, PollClaim, PollGet, PollGetFails,
       PollUpdate, PollExit
<1>3. CASE submit.pc = "failpublish" /\ s = "FAILED"
  <2>1. CASE SubmitJob
    <3>1. SubmitFailPublish
      BY <1>3, <2>1 DEF SubmitJob, SubmitInsert, SubmitDispatch, SubmitFail, SubmitSetPath, SubmitStart
    <3> QED
      BY <1>1, <1>3, <3>1 DEF SubmitFailPublish, publishTerminalEvent
  <2>2. CASE UNCHANGED submit
    BY <1>3, <2>2 DEF AboutToAnnounce
  <2> QED
    BY <1>1, <2>1, <2>2, HandlersKept
<1>4. ASSUME NEW r \in Requests, request[r].pc \in {"cancelrecord", "cancelpublish"}, s = "CANCELLED"
      PROVE  s \in published' \/ AboutToAnnounce(s)'
  <2>1. CASE CancelRecord(r)
    <3>1. request'[r].pc = "cancelpublish"
      BY <2>1 DEF CancelRecord, Goto, TypeOK, Request
    <3> QED
      BY <1>4, <3>1 DEF AboutToAnnounce
  <2>2. CASE CancelPublish(r)
    BY <1>1, <1>4, <2>2 DEF CancelPublish, publishTerminalEvent
  <2>3. CASE request'[r] = request[r]
    BY <1>4, <2>3 DEF AboutToAnnounce
  <2> QED
    BY <1>1, <1>4, <2>1, <2>2, <2>3, HandlersKept DEF CancelJob, CancelBegin, CancelCloud,
       CancelWait, CancelRow, CancelStop, DeleteJob, DeleteBegin, DeleteCloud, DeleteWait,
       DeleteRow, DeleteStop
<1> QED
  BY <1>2, <1>3, <1>4 DEF AboutToAnnounce

\* Whoever writes an end into the row is about to announce it.
LEMMA EndsAreDecided ==
  ASSUME TypeOK, Steady, Handed, [Next]_allVars, Undisturbed',
         NEW end \in Terminal, row' # NoRow, row'.status = end
  PROVE  (row # NoRow /\ row.status = end) \/ AboutToAnnounce(end)'
<1> DEFINE Kept == row # NoRow /\ row.status = end
<1>1. /\ ~Outage /\ ~LostReply
      /\ ~\E w \in Workers : Crash(w) \/ Shutdown(w) \/ ShutdownDone(w) \/ Restart(w)
  BY Calm
<1>2. row # NoRow => row \in Row
  BY DEF TypeOK, StoreTypeOK
<1>3. /\ UNCHANGED row => Kept
      /\ LeaseExpires => Kept
      /\ \A w : ClaimCommits(w) => Kept
  BY <1>2 DEF LeaseExpires, ClaimCommits, Row
<1>4. \A s : UpdateJobStatus(s) => row'.status = s
  BY <1>2 DEF UpdateJobStatus, Row
<1>5. Active \cap Terminal = {} /\ "PENDING" \in Active
  BY StoreAssumption DEF Terminal
<1> HIDE DEF Kept
<1>6. CASE SubmitJob
  <2>1. ASSUME NEW w, InsertJobFull(w) PROVE FALSE
    BY <1>5, <2>1 DEF InsertJobFull, NewRow
  <2>2. ASSUME UpdateJobStatusAndGcpBatchJobPath(submit.status) PROVE FALSE
    BY <1>2, <1>5, <2>2 DEF UpdateJobStatusAndGcpBatchJobPath, Row, Handed
  <2>3. CASE SubmitFail /\ FailJob
    <3>1. row'.status = "FAILED" /\ submit'.pc = "failpublish"
      BY <1>2, <2>3 DEF SubmitFail, FailJob, Row, SubmitGoto, TypeOK, Submit
    <3> QED
      BY <3>1 DEF AboutToAnnounce
  <2> QED
    BY <1>1, <1>3, <1>6, <2>1, <2>2, <2>3 DEF Kept, SubmitJob, SubmitInsert, SubmitDispatch, SubmitFail,
       SubmitFailPublish, SubmitSetPath, SubmitStart, RowMissing, publishTerminalEvent, storeVars
<1>7. ASSUME NEW r \in Requests, CancelJob(r) \/ DeleteJob(r)
      PROVE  Kept \/ AboutToAnnounce(end)'
  <2>1. CASE CancelRow(r)
    <3>1. CASE UpdateJobStatus("CANCELLED") /\ Goto(r, "cancelrecord")
      <4>1. row'.status = "CANCELLED" /\ request'[r].pc = "cancelrecord"
        BY <1>4, <3>1 DEF Goto, TypeOK, Request
      <4> QED
        BY <4>1 DEF AboutToAnnounce
    <3> QED
      BY <1>1, <1>3, <2>1, <3>1 DEF CancelRow, RowMissing, storeVars
  <2> QED
    BY <1>1, <1>3, <1>7, <2>1 DEF CancelJob, CancelBegin, CancelCloud, CancelWait, CancelRecord,
       CancelPublish, CancelStop, DeleteJob, DeleteBegin, DeleteCloud, DeleteWait, DeleteRow,
       DeleteStop, DeleteJobRow, RecordStateTransition, publishTerminalEvent, RowMissing, vars, storeVars
<1>8. ASSUME NEW p \in Pollers, PollStep(p) PROVE Kept \/ AboutToAnnounce(end)'
  <2>1. CASE PollUpdate(p)
    <3>1. CASE UpdateJobStatus(poller[p].currentStatus)
      <4>1. row'.status = poller'[p].currentStatus /\ poller'[p].pc = "record"
        BY <1>4, <2>1, <3>1, PollerMoves DEF PollUpdate
      <4> QED
        BY <4>1 DEF AboutToAnnounce
    <3> QED
      BY <1>1, <1>3, <2>1, <3>1 DEF PollUpdate, RowMissing, storeVars
  <2> QED
    BY <1>1, <1>3, <1>8, <2>1 DEF PollStep, Poll, PollStopped, PollClaim, PollGet, PollGetFails,
       PollRecord, PollPublish, PollExit, ClaimDeclined, ClaimAborted, RecordStateTransition,
       publishTerminalEvent, RowMissing, storeVars
<1>9. CASE \E w \in Workers : ReconcileStep(w)
  BY <1>1, <1>3, <1>9 DEF ReconcileStep, ReconcileList, ReconcileClaim, ReconcileStart,
     ClaimDeclined, ClaimAborted, RowMissing, storeVars, Kept
<1>10. CASE CloudStep \/ LeaseStep \/ UNCHANGED allVars
  BY <1>3, <1>10 DEF CloudStep, CloudProgress, CloudDeleted, LeaseStep, allVars, vars, storeVars, Kept
<1> QED
  BY <1>1, <1>6, <1>7, <1>8, <1>9, <1>10 DEF Next, Kept

\* Both hold of every history.
LEMMA CalmInvariants == Spec => [](Steady /\ Handed)
<1>1. Init => Steady /\ Handed
  BY StoreAssumption DEF Init, PoolInit, IdleReconciler, IdleSubmit, Steady, Handed
<1> QED
  BY <1>1, NextSteady, NextHanded, TypeCorrect, PTL DEF Spec

\* When no call fails and no worker ends, an end that a tenant reads in the row was
\* announced by an event, or its writer is about to: however many wrote it, and in
\* whichever order.
THEOREM EndsAreAnnounced == Spec => []Announced
<1>1. Init => Announced
  BY StoreAssumption DEF Init, LegacyRow, Announced, Terminal
<1>2. TypeOK /\ Steady /\ Handed /\ Announced /\ [Next]_allVars => Announced'
  <2> SUFFICES ASSUME TypeOK, Steady, Handed, Announced, [Next]_allVars, Undisturbed',
                      NEW end \in Terminal, row' # NoRow, row'.status = end
               PROVE  end \in published' \/ AboutToAnnounce(end)'
    <3>1. ASSUME row'.status \in Terminal, row' # NoRow,
                 \A end \in Terminal : row'.status = end => end \in published' \/ AboutToAnnounce(end)'
          PROVE  row'.status \in published' \/ AboutToAnnounce(row.status)'
      BY <3>1 DEF AboutToAnnounce
    <3> QED
      BY <3>1 DEF Announced
  <2>1. Undisturbed /\ published \subseteq published'
    BY Calm, Publishers
  <2>2. CASE row # NoRow /\ row.status = end
    <3>1. end \in published \/ AboutToAnnounce(end)
      BY <2>1, <2>2 DEF Announced
    <3> QED
      BY <2>1, <3>1, AnnouncersGoOn
  <2> QED
    BY <2>2, EndsAreDecided
<1> QED
  BY <1>1, <1>2, CalmInvariants, TypeCorrect, PTL DEF Spec

\* Before its submission nothing was said of a job, and no request for it is served.
Untouched ==
  submit.pc = "idle" => published = {} /\ \A r \in Requests : ~Serving(r)

\* An end is recorded before it is announced, but for that of a submission that failed:
\* then the row has no path, and will have none.
RecordedFirst ==
  Undisturbed /\ row # NoRow =>
    /\ \A p \in Pollers : poller[p].pc = "publish" => poller[p].currentStatus \in trail
    /\ \A r \in Requests : request[r].pc = "cancelpublish" => "CANCELLED" \in trail
    /\ \/ published \subseteq trail
       \/ published \subseteq trail \cup {"FAILED"} /\ submit.pc = "error" /\ ~row.path

\* A submission that ended in an error stays ended, and one that begins has not begun yet.
LEMMA SubmissionEnds ==
  ASSUME TypeOK, [Next]_allVars
  PROVE  /\ submit.pc = "error" => submit'.pc = "error"
         /\ submit'.pc = "idle" => UNCHANGED submit
<1>1. \A pc \in SubmitPCs : (SubmitGoto(pc) \/ SubmitReturns(pc)) => submit'.pc = pc
  BY DEF SubmitPCs, SubmitGoto, SubmitReturns, IdleSubmit, TypeOK, Submit
<1>2. CASE SubmitJob
  <2>1. submit.pc # "error" /\ submit'.pc # "idle"
    BY <1>1, <1>2 DEF SubmitJob, SubmitInsert, SubmitDispatch, SubmitFail, SubmitFailPublish,
       SubmitSetPath, SubmitStart, SubmitPCs, TypeOK, Submit
  <2> QED
    BY <2>1
<1>3. CASE \E w \in Workers : Crash(w) \/ ShutdownDone(w)
  <2>1. submit' = submit \/ submit'.pc = "error"
    BY <1>1, <1>3 DEF Crash, ShutdownDone, ProcessEnds, SubmitPCs
  <2> QED
    BY <2>1
<1> QED
  BY <1>2, <1>3, HandlersKept

\* Nothing happens to a job before it was submitted.
LEMMA NextUntouched ==
  ASSUME TypeOK, Submitted, PathInv, Untouched, [Next]_allVars
  PROVE  Untouched'
<1> SUFFICES ASSUME submit'.pc = "idle"
             PROVE  published' = {} /\ \A r \in Requests : ~Serving(r)'
  BY DEF Untouched
<1>1. /\ submit.pc = "idle" /\ submit' = submit /\ row = NoRow /\ published = {}
      /\ \A p \in Pollers : poller[p].pc = "free"
      /\ \A r \in Requests : ~Serving(r)
  BY SubmissionEnds DEF Submitted, PathInv, BeforePath, Unpolled, Free, Untouched
<1>2. published' = {}
  BY <1>1, Publishers DEF Serving
<1>3. ASSUME NEW r \in Requests PROVE ~Serving(r)'
  <2>1. ~CancelJob(r) /\ ~DeleteJob(r)
    BY <1>1 DEF Serving, CancelJob, CancelBegin, CancelCloud, CancelWait, CancelRow, CancelRecord,
       CancelPublish, CancelStop, DeleteJob, DeleteBegin, DeleteCloud, DeleteWait, DeleteRow, DeleteStop
  <2>2. CASE \E w \in Workers : Crash(w) \/ ShutdownDone(w)
    BY <1>1, <2>2 DEF Crash, ShutdownDone, ProcessEnds, Serving
  <2>3. CASE request'[r] = request[r]
    BY <1>1, <2>3 DEF Serving
  <2> QED
    BY <2>1, <2>2, <2>3, HandlersKept
<1> QED
  BY <1>2, <1>3

\* A poller comes to its event by recording the end it holds.
LEMMA PublisherRecorded ==
  ASSUME TypeOK, [Next]_allVars, NEW p \in Pollers, poller'[p].pc = "publish",
         ~\E w \in Workers : Crash(w) \/ Shutdown(w) \/ ShutdownDone(w)
  PROVE  /\ poller'[p].currentStatus = poller[p].currentStatus
         /\ \/ poller[p].pc = "publish"
            \/ PollRecord(p) /\ poller[p].currentStatus \in Terminal
<1>1. poller \in [Pollers -> Poller] /\ poller[p] \in Poller
  BY DEF TypeOK, PoolTypeOK
<1>2. ~Free(p)
  <2>1. ASSUME NEW w, Started(w) PROVE poller'[p] = poller[p] \/ poller'[p].pc = "wait"
    BY <1>1, <2>1 DEF Started, NewPoller
  <2>2. ASSUME NEW q \in Pollers, PollExit(q) PROVE poller'[p] = poller[p] \/ poller'[p].pc = "free"
    BY <1>1, <2>2 DEF PollExit, FreedPoller, NoLocals, NewPoller
  <2>3. ASSUME NEW r \in Requests, CancelStop(r) \/ DeleteStop(r) PROVE poller'[p].pc = poller[p].pc
    BY <2>3, StoppingKeeps, RequestTypes DEF CancelStop, DeleteStop
  <2> QED
    BY <2>1, <2>2, <2>3, PoolMoves DEF PoolKept, Free
<1>3. CASE ~PollStep(p)
  BY <1>2, <1>3, PollerKept
<1>4. CASE PollStep(p)
  <2>1. \A pc : PollGoto(p, pc) => poller'[p].pc = pc /\ poller'[p].currentStatus = poller[p].currentStatus
    BY PollerMoves
  <2>2. /\ PollReturns(p) => poller'[p].pc = "exit"
        /\ FreedPoller.pc = "free"
    BY <1>1 DEF PollReturns, FreedPoller, NoLocals, NewPoller, Poller
  <2>3. PollGet(p) \/ PollGetFails(p) => poller'[p].pc # "publish"
    BY <1>1, <2>2 DEF PollGet, PollGetFails, Poller
  <2>4. PollExit(p) => poller'[p].pc # "publish"
    BY <1>1, <2>2 DEF PollExit
  <2> QED
    BY <1>4, <2>1, <2>2, <2>3, <2>4 DEF PollStep, Poll, PollStopped, PollClaim, PollUpdate,
       PollRecord, PollPublish, isTerminalStatus
<1> QED
  BY <1>3, <1>4

\* So does a cancellation.
LEMMA CancellationRecorded ==
  ASSUME TypeOK, [Next]_allVars, NEW r \in Requests, request'[r].pc = "cancelpublish",
         ~\E w \in Workers : Crash(w) \/ ShutdownDone(w)
  PROVE  request[r].pc = "cancelpublish" \/ CancelRecord(r)
<1>1. ASSUME NEW pc \in RequestPCs \ {"cancelpublish"}, Goto(r, pc) \/ Respond(r, pc) PROVE FALSE
  BY <1>1 DEF Goto, Respond, IdleRequest, TypeOK, Request
<1>2. ASSUME NEW w, NEW pc \in RequestPCs \ {"cancelpublish"}, Begin(r, w, pc) PROVE FALSE
  BY <1>2 DEF Begin, TypeOK
<1> QED
  BY <1>1, <1>2, HandlersKept DEF RequestPCs, CancelJob, CancelBegin, CancelCloud, CancelWait,
     CancelRow, CancelPublish, CancelStop, DeleteJob, DeleteBegin, DeleteCloud, DeleteWait,
     DeleteRow, DeleteStop

\* The invariant is inductive.
LEMMA NextRecordedFirst ==
  ASSUME TypeOK, Steady, Submitted, PathInv, Untouched, RecordedFirst, [Next]_allVars
  PROVE  RecordedFirst'
<1> SUFFICES ASSUME Undisturbed', row' # NoRow
             PROVE  /\ \A p \in Pollers :
                         poller'[p].pc = "publish" => poller'[p].currentStatus \in trail'
                    /\ \A r \in Requests : request'[r].pc = "cancelpublish" => "CANCELLED" \in trail'
                    /\ \/ published' \subseteq trail'
                       \/ /\ published' \subseteq trail' \cup {"FAILED"}
                          /\ submit'.pc = "error" /\ ~row'.path
  BY DEF RecordedFirst
<1>1. /\ Undisturbed /\ ~Outage /\ ~LostReply
      /\ ~\E w \in Workers : Crash(w) \/ Shutdown(w) \/ ShutdownDone(w) \/ Restart(w)
  BY Calm
<1>2. CASE \E w \in Homes : SubmitInsert(w)
  <2>1. /\ submit.pc = "idle" /\ UNCHANGED <<poller, request, published>>
    BY <1>2 DEF SubmitInsert, poolVars
  <2>2. /\ published = {}
        /\ \A p \in Pollers : poller[p].pc = "free"
        /\ \A r \in Requests : request[r].pc # "cancelpublish"
    BY <2>1 DEF Untouched, PathInv, BeforePath, Unpolled, Free, Serving
  <2> QED
    BY <2>1, <2>2
<1>3. ASSUME row # NoRow, trail \subseteq trail', row'.path = row.path \/ SubmitSetPath
      PROVE  RecordedFirst'
  <2>1. \A p \in Pollers : poller'[p].pc = "publish" => poller'[p].currentStatus \in trail'
    <3> SUFFICES ASSUME NEW p \in Pollers, poller'[p].pc = "publish"
                 PROVE  poller'[p].currentStatus \in trail'
      OBVIOUS
    <3>1. CASE PollRecord(p) /\ poller[p].currentStatus \in Terminal
      BY <1>1, <1>3, <3>1, PublisherRecorded DEF PollRecord, RecordStateTransition, RowMissing
    <3> QED
      BY <1>1, <1>3, <3>1, PublisherRecorded DEF RecordedFirst
  <2>2. \A r \in Requests : request'[r].pc = "cancelpublish" => "CANCELLED" \in trail'
    <3> SUFFICES ASSUME NEW r \in Requests, request'[r].pc = "cancelpublish"
                 PROVE  "CANCELLED" \in trail'
      OBVIOUS
    <3>1. CASE CancelRecord(r)
      BY <1>1, <1>3, <3>1 DEF CancelRecord, RecordStateTransition, RowMissing, Terminal
    <3> QED
      BY <1>1, <1>3, <3>1, CancellationRecorded DEF RecordedFirst
  <2>3. \/ published' \subseteq trail'
        \/ published' \subseteq trail' \cup {"FAILED"} /\ submit'.pc = "error" /\ ~row'.path
    <3>1. \/ published' \subseteq published \cup trail'
          \/ /\ submit.pc = "failpublish" /\ submit'.pc = "error"
             /\ published' = published \cup {"FAILED"}
      BY <1>1, <1>3, Publishers DEF RecordedFirst
    <3>2. CASE published \subseteq trail /\ published' \subseteq published \cup trail'
      BY <1>3, <3>2
    <3>3. CASE /\ submit.pc = "failpublish" /\ submit'.pc = "error"
               /\ published' = published \cup {"FAILED"}
      <4>1. ~row.path /\ ~SubmitSetPath
        BY <1>3, <3>3, SubmissionGoesOn DEF PathInv, Unpolled, BeforePath
      <4> QED
        BY <1>1, <1>3, <3>3, <4>1 DEF RecordedFirst
    <3>4. CASE /\ published \subseteq trail \cup {"FAILED"} /\ submit.pc = "error" /\ ~row.path
               /\ published' \subseteq published \cup trail'
      <4>1. submit'.pc = "error" /\ ~SubmitSetPath
        BY <3>4, SubmissionEnds, SubmissionGoesOn
      <4> QED
        BY <1>3, <3>4, <4>1
    <3> QED
      BY <1>1, <1>3, <3>1, <3>2, <3>3, <3>4 DEF RecordedFirst
  <2> QED
    BY <2>1, <2>2, <2>3 DEF RecordedFirst
<1>4. CASE RecordedFirst'
  BY <1>1, <1>4 DEF RecordedFirst
<1> QED
  BY <1>2, <1>3, <1>4, RowMoves

\* When no call fails and no worker ends, an end that was announced is in the audit trail
\* already, unless it is that of a submission that failed.
THEOREM EndsAreRecorded == Spec => []Audited
<1>1. Init => Submitted /\ Untouched /\ RecordedFirst
  <2> SUFFICES ASSUME Init PROVE Submitted /\ Untouched /\ RecordedFirst
    OBVIOUS
  <2>1. FreedPoller.pc = "free" /\ IdleRequest.pc = "idle"
    BY DEF FreedPoller, NoLocals, NewPoller, IdleRequest
  <2>2. /\ published = {}
        /\ \A p \in Pollers : poller[p].pc = "free"
        /\ \A r \in Requests : request[r].pc = "idle"
    BY <2>1 DEF Init, PoolInit
  <2> QED
    BY <2>2, InitRecorded DEF Untouched, RecordedFirst, Serving
<1>2. RecordedFirst => Audited
  BY DEF RecordedFirst, Audited
<1> QED
  BY <1>1, <1>2, NextSubmitted, NextUntouched, NextRecordedFirst, CalmInvariants, PathInvariant,
     TypeCorrect, PTL DEF Spec
=============================================================================
