SPECIFICATION FairSpec
CONSTANTS
  UserIds = {u1}
  Providers = {p1}
  Gateways = {g1}
  Requests = {r1, r2, r3}
  NoRequest = NoRequest
  Workers = {w1}
  Submissions = {k1, k2}
  MaxMishaps = 1
  MaxRestarts = 1
PROPERTIES
  EveryRequestEnds
CHECK_DEADLOCK FALSE
