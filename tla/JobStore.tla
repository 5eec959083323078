------------------------------ MODULE JobStore ------------------------------
(***************************************************************************)
(* The Jobs row of one job and its JobStateTransitions rows, as            *)
(* internal/database reads and writes them through Cloud Spanner.          *)
(*                                                                         *)
(* Every operation of internal/database is keyed by (TenantId, JobId), so  *)
(* jobs do not share rows and one job is enough.  Each operator below is   *)
(* one committed Spanner mutation or transaction: an action on row and     *)
(* trail that the workers' modules use inside their own steps.  A call can *)
(* also fail (Outage); the caller decides what a failed call leads to.     *)
(***************************************************************************)
EXTENDS Naturals

CONSTANTS
  Workers,    \* WORKER_IDs of the worker processes
  NoOwner,    \* OwnerWorkerId is NULL
  NoRow,      \* the job has no row
  Active,     \* the statuses that are not terminal
  MaxFaults   \* bound: how many calls to the database, the cloud or Pub/Sub fail,
              \* are aborted and retried, or come too late

Terminal == {"COMPLETED", "FAILED", "CANCELLED"}
Status   == Active \cup Terminal

isTerminalStatus(s) == s \in Terminal

\* path: GcpBatchJobPath is set.  lease: LeaseExpiresAt is NULL, in the future
\* or in the past; how far away it is makes no difference to anybody.
Row == [status : Status, path : BOOLEAN,
        owner : Workers \cup {NoOwner}, preferred : Workers \cup {NoOwner},
        lease : {"null", "live", "expired"}]

\* SCHEDULED is a stage between the other two that nothing depends on; a small
\* instance leaves it out.
ASSUME StoreAssumption ==
  /\ {"PENDING", "RUNNING"} \subseteq Active
  /\ Active \subseteq {"PENDING", "SCHEDULED", "RUNNING"}
  /\ NoOwner \notin Workers
  /\ NoRow \notin Row
  /\ MaxFaults \in Nat

VARIABLES
  row,     \* the row of Jobs, or NoRow
  trail,   \* the terminal statuses its rows of JobStateTransitions record
  faults   \* calls that failed, were retried or came too late, so far

storeVars == <<row, trail, faults>>

StoreTypeOK ==
  /\ row \in Row \cup {NoRow}
  /\ trail \in SUBSET Terminal
  /\ faults \in 0..MaxFaults

NewRow(w) == [status |-> "PENDING", path |-> FALSE, owner |-> w,
              preferred |-> w, lease |-> "live"]

\* A row older than the lease columns: the migration left them NULL.
LegacyRow == [status |-> "RUNNING", path |-> TRUE, owner |-> NoOwner,
              preferred |-> NoOwner, lease |-> "null"]

\* A call that returns an error without having taken effect.
Outage == faults < MaxFaults /\ faults' = faults + 1 /\ UNCHANGED <<row, trail>>

\* A call that took effect and still returned an error (a lost reply).
LostReply == faults < MaxFaults /\ faults' = faults + 1

\* The call that would have prevented a step comes too late.
Late == faults < MaxFaults /\ faults' = faults + 1

\* An update or a child insert finds no row to attach to, and fails.
RowMissing == row = NoRow /\ UNCHANGED storeVars

----------------------------------------------------------------------------
\* Writes.  spanner.Update and the interleaved insert need an existing row.

InsertJobFull(w) ==
  row = NoRow /\ row' = NewRow(w) /\ UNCHANGED trail

UpdateJobStatus(s) ==
  row # NoRow /\ row' = [row EXCEPT !.status = s] /\ UNCHANGED trail

UpdateJobStatusAndGcpBatchJobPath(s) ==
  row # NoRow /\ row' = [row EXCEPT !.status = s, !.path = TRUE] /\ UNCHANGED trail

FailJob ==
  row # NoRow /\ row' = [row EXCEPT !.status = "FAILED"] /\ UNCHANGED trail

\* Deleting cascades to the transitions; deleting a missing row succeeds.
DeleteJobRow == row' = NoRow /\ trail' = {}

RecordStateTransition(to) ==
  row # NoRow /\ trail' = trail \cup ({to} \cap Terminal) /\ UNCHANGED row

----------------------------------------------------------------------------
\* Reads

\* ListActiveJobs returns the job.
ListedActive == row # NoRow /\ row.status \in Active /\ row.path

\* Mutants: the status is not looked at; an expired lease is not taken over.
CanClaimTerminal(w) ==
  row.owner = w \/ row.lease # "live" \/ row.owner = NoOwner \/ row.preferred = w
CanClaimOwnOnly(w) ==
  ~isTerminalStatus(row.status) /\ (row.owner \in {w, NoOwner} \/ row.preferred = w)

\* The decision inside TryClaimOrRenewJobLease, on the row it read.
CanClaim(w) ==
  /\ ~isTerminalStatus(row.status)
  /\ \/ row.owner = w
     \/ row.lease # "live"
     \/ row.owner = NoOwner
     \/ row.preferred = w

\* TryClaimOrRenewJobLease commits for w ...
ClaimCommits(w) ==
  /\ row # NoRow
  /\ CanClaim(w)
  /\ row' = [row EXCEPT !.owner = w, !.lease = "live"]
  /\ UNCHANGED <<trail, faults>>

\* ... or runs its function without buffering a write.
ClaimDeclined(w) == row # NoRow /\ ~CanClaim(w) /\ UNCHANGED storeVars

\* ... or had decided to claim and is aborted by Spanner, which runs the
\* function again; the flag "claimed" was set outside of it and stays set.
ClaimAborted(w) == row # NoRow /\ CanClaim(w) /\ Outage

\* Time reaches LeaseExpiresAt.
LeaseExpires ==
  /\ row # NoRow
  /\ row.lease = "live"
  /\ row' = [row EXCEPT !.lease = "expired"]
  /\ UNCHANGED trail
=============================================================================
