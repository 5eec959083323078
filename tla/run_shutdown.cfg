SPECIFICATION Spec
CONSTANTS
  Workers = {w1}
  Pollers = {p1, p2}
  Homes = {w1}
  Requests = {r1}
  Active = {"PENDING", "RUNNING"}
  NoOwner = NoOwner
  NoRow = NoRow
  NoPoller = NoPoller
  Service = "run"
  MaxFaults = 0
  MaxCrashes = 0
  MaxShutdowns = 1
  maxFailedAttempts = 1
INVARIANTS
  NoDeadRegistration
  OnePollerPerWorker
CHECK_DEADLOCK FALSE
