SPECIFICATION Spec
CONSTANTS
  Jobs = {"j1", "j2"}
  ShortIDs <- MCShortIDs
  Workloads <- MCWorkloads
  Environs <- MCEnvirons
  Sizes = {0, 5}
  MaxMishaps = 1
INVARIANTS
  TypeOK
  CloudRunJobsFit
  ToldServiceIsActual
  ContainersKnowTheSize
  PathLeadsToResource
  FailureHasACause
CHECK_DEADLOCK FALSE
