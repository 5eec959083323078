SPECIFICATION FairSpec
CONSTANTS
  Commands = {1, 2}
  Users = {"ann", "bob"}
  Environs <- MCEnvirons
  Files <- MCFiles
  Instances = {3}
  Offered = {"login", "logout", "submit", "submitAndWait", "get", "delete", "deleteAll"}
  MaxPolls = 1
  MaxMishaps = 2
  Before = {"ann"}
INVARIANTS
  TypeOK
  LoginIsAllOrNothing
  TenantIsOwn
  ReportsAreTrue
  InstancesAreTasks
PROPERTIES
  EveryCommandEnds
CHECK_DEADLOCK FALSE
