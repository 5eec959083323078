------------------------------ MODULE CloudJob ------------------------------
(***************************************************************************)
(* The cloud resource behind one job: a Cloud Batch job or a Cloud Run     *)
(* job, as internal/cloudexec/gcp drives it.  The resource itself is       *)
(* external; what is modelled from the code is which calls the providers   *)
(* make, when they return and how they map what they see to a job status.  *)
(***************************************************************************)
EXTENDS JobStore

CONSTANT Service   \* "batch" (Cloud Batch) or "run" (Cloud Run Jobs)

\* No state of a Cloud Run execution is mapped to SCHEDULED.
ASSUME ServiceAssumption ==
  /\ Service \in {"batch", "run"}
  /\ Service = "run" => "SCHEDULED" \notin Active

VARIABLES
  cloud,    \* the resource's state
  reached   \* the final states it has been in (history)

cloudVars == <<cloud, reached>>

CloudState == Status \cup {"absent", "deleting", "gone"}

CloudTypeOK ==
  /\ cloud \in CloudState
  /\ reached \in SUBSET Terminal

Move(s) ==
  /\ cloud' = s
  /\ reached' = reached \cup ({s} \cap Terminal)

\* The resource progresses by itself.
CloudProgress ==
  /\ \/ cloud = "PENDING" /\ \E s \in Active \ {"PENDING"} : Move(s)
     \/ cloud = "SCHEDULED" /\ Move("RUNNING")
     \/ cloud = "RUNNING" /\ Move("COMPLETED")
     \/ cloud \in Active /\ Move("FAILED")
  /\ UNCHANGED storeVars

\* A deletion that was started finishes, whoever waits for it.
CloudDeleted ==
  cloud = "deleting" /\ Move("gone") /\ UNCHANGED storeVars

\* Provider.SubmitJob: a new resource.  Cloud Batch answers with the state of
\* the job it created (RUNNING stands for a state it has no name for), Cloud Run
\* always with RUNNING.
CloudCreate == cloud = "absent" /\ Move("PENDING")

InitialStatus ==
  IF Service = "batch" THEN Active ELSE {"RUNNING"}

\* Mutant: a resource that is being deleted counts as completed.
DeletingIsCompleted == IF cloud = "deleting" THEN "COMPLETED" ELSE cloud

\* What Provider.GetJobStatus answers, mapped to a database status: a Cloud
\* Batch job being deleted or cancelled reads as CANCELLED.
Observable == cloud \notin {"absent", "gone"}

ObservedStatus == IF cloud = "deleting" THEN "CANCELLED" ELSE cloud

\* Provider.CancelJob and Provider.DeleteJob return an error: the resource is
\* not there any more, or (Cloud Run) has no execution left to cancel.
CancelRefused ==
  /\ \/ cloud \in {"absent", "gone", "deleting"}
     \/ Service = "run" /\ cloud \in Terminal
  /\ UNCHANGED cloudVars

DeleteRefused == cloud \in {"absent", "gone", "deleting"} /\ UNCHANGED cloudVars

\* They take effect.  Cloud Batch cancels a job by deleting it, and the job can
\* be seen while it is being deleted; Cloud Run cancels the latest execution,
\* whose conditions then read as failed or as cancelled.
CancelStarts ==
  \/ Service = "batch" /\ Observable /\ Move("deleting")
  \/ Service = "run" /\ cloud \in Active /\ \E s \in {"CANCELLED", "FAILED"} : Move(s)

DeleteStarts ==
  Observable /\ Move(IF Service = "batch" THEN "deleting" ELSE "gone")

\* ... and the wait for the operation returns.
OperationDone == cloud # "deleting" /\ UNCHANGED cloudVars
=============================================================================
