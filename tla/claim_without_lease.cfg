SPECIFICATION Spec
CONSTANTS
  Workers = {w1, w2}
  Pollers = {p1, p2}
  Homes = {w1}
  Requests = {}
  Active = {"PENDING", "RUNNING"}
  NoOwner = NoOwner
  NoRow = NoRow
  NoPoller = NoPoller
  Service = "batch"
  MaxFaults = 1
  MaxCrashes = 0
  MaxShutdowns = 0
  maxFailedAttempts = 1
PROPERTIES
  ClaimTrueMeansOwner
CHECK_DEADLOCK FALSE
