------------------------------ MODULE JobRecord ------------------------------
(***************************************************************************)
(* What the worker fleet promises about a job's status, as GetJob and      *)
(* ListJobs show it to a tenant.                                           *)
(*                                                                         *)
(* Statuses are written blindly, by writers that decided to write at an    *)
(* earlier moment.  The promise is about when a writer may come forward:   *)
(* only while the status is not final.  So a final status can still be     *)
(* replaced by writers that were there before it, never by a later one,    *)
(* and once they are gone it stays.  A removed job does not come back.     *)
(***************************************************************************)
CONSTANTS Active, Terminal

VARIABLES
  status,   \* a status, "none" before the job exists, "removed" after
  open      \* some writer has decided to write and not written yet

recordVars == <<status, open>>

Init == status \in {"none", "RUNNING"} /\ open = FALSE

\* The job is accepted, for a writer to dispatch.
Accept == status = "none" /\ status' = "PENDING" /\ open' \in BOOLEAN

\* It is refused and never exists.
Refuse == status = "none" /\ status' = "removed" /\ UNCHANGED open

\* A writer comes forward; others may be there already.
Decide == status \in Active /\ open' = TRUE /\ UNCHANGED status

\* One of the writers writes ...
Write ==
  /\ open
  /\ status \in Active \cup Terminal
  /\ status' \in Active \cup Terminal
  /\ open' \in BOOLEAN

\* ... or gives up.
GiveUp == open /\ open' = FALSE /\ UNCHANGED status

Remove == status \in Active \cup Terminal /\ status' = "removed" /\ UNCHANGED open

Next == Accept \/ Refuse \/ Decide \/ Write \/ GiveUp \/ Remove

Spec == Init /\ [][Next]_recordVars
=============================================================================
