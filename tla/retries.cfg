SPECIFICATION RestartSpec
CONSTANTS
  Workers = {w1}
  Pollers = {p1}
  Homes = {w1}
  Requests = {}
  Active = {"PENDING", "RUNNING"}
  NoOwner = NoOwner
  NoRow = NoRow
  NoPoller = NoPoller
  Service = "batch"
  MaxFaults = 2
  MaxCrashes = 1
  MaxShutdowns = 1
  maxFailedAttempts = 2
PROPERTIES
  Reflected
CHECK_DEADLOCK FALSE
