SPECIFICATION FairSpec
CONSTANTS
  Inputs <- MCInputs
  Counts = {1, 3}
  Modes = {"BYTE_RANGE", "RECORD"}
  Paths <- MCPaths
  MaxRetries = 1
  MaxRuns = 2
  MaxMishaps = 1
INVARIANTS
  TypeOK
  RangesPartition
  EverythingReadOnce
  CutLinesCountTwice
  AggregateIsWhole
PROPERTY
  JobEnds
CHECK_DEADLOCK FALSE
