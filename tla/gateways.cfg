SPECIFICATION Spec
CONSTANTS
  UserIds = {u1, u2}
  Providers = {p1, p2}
  Gateways = {g1, g2}
  Requests = {r1, r2, r3}
  NoRequest = NoRequest
  Workers = {w1, w2}
  Submissions = {k1, k2}
  MaxMishaps = 1
  MaxRestarts = 1
INVARIANTS
  TypeOK
  TenantIsTheirs
  OneGatewayIsStable
  FollowUpFindsJob
SYMMETRY Exchange
CHECK_DEADLOCK FALSE
