SPECIFICATION Spec
CONSTANTS
  Workers = {w1}
  Pollers = {p1, p2}
  Homes = {w1}
  Requests = {r1}
  Active = {"PENDING", "SCHEDULED", "RUNNING"}
  NoOwner = NoOwner
  NoRow = NoRow
  NoPoller = NoPoller
  Service = "batch"
  MaxFaults = 1
  MaxCrashes = 0
  MaxShutdowns = 0
  maxFailedAttempts = 1
INVARIANTS
  TypeOK
  OutcomesAgree
  OnlyStoredPathsArePolled
  NoFabricatedCompletion
PROPERTIES
  ImplementsJobRecord
CHECK_DEADLOCK FALSE
