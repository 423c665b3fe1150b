SPECIFICATION SuiteSpec
CONSTANTS
  MaxOps = 4
  MaxBatches = 1
  MaxPanics = 2
INVARIANTS
  ShellTellsTruth
  ForkServerIsExact
PROPERTIES
  MediaIsAccounted
  BatchKeepsOrder
  FilesAreSafe
CHECK_DEADLOCK FALSE
