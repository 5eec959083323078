SPECIFICATION FailoverSpec
CONSTANTS
  Workers = {w1, w2}
  Pollers = {p1, p2}
  Homes = {w1}
  Requests = {}
  Active = {"PENDING", "RUNNING"}
  NoOwner = NoOwner
  NoRow = NoRow
  NoPoller = NoPoller
  Service = "run"
  MaxFaults = 0
  MaxCrashes = 1
  MaxShutdowns = 0
  maxFailedAttempts = 1
PROPERTIES
  Reflected
CHECK_DEADLOCK FALSE
