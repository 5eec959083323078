SPECIFICATION Spec
CONSTANTS
  Workers = {w1}
  Pollers = {p1, p2}
  Homes = {w1}
  Requests = {r1, r2}
  Active = {"PENDING", "RUNNING"}
  NoOwner = NoOwner
  NoRow = NoRow
  NoPoller = NoPoller
  Service = "batch"
  MaxFaults = 0
  MaxCrashes = 0
  MaxShutdowns = 0
  maxFailedAttempts = 1
INVARIANTS
  Announced
  Audited
PROPERTIES
  SettledIsFinal
SYMMETRY RequestSymmetry
CHECK_DEADLOCK FALSE
