SPECIFICATION SuiteSpec
CONSTANTS
  Clients = {"c1", "c2"}
  Hosts = {"h1"}
  Helpers = {"p1", "p2"}
  MaxReqs = 4
  MaxCrashes = 0
  MaxCuts = 1
  MayHang = FALSE
INVARIANTS
  CodexIsFaithful
  MemoryIsKept
  UpgradeKeepsData
  WorkspaceIsSafe
  BinaryIsWhole
  NoticesAreTrue
  ContextIsFaithful
PROPERTIES
  SkillsAreWhole
CHECK_DEADLOCK FALSE
