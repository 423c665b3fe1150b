SPECIFICATION Spec
CONSTANTS
  Sessions = {"main"}
  Paired = {"main"}
  Requests = {"register", "update", "trigger", "remove"}
  Ends = {"completed", "terminated"}
  CompactFails = TRUE
  MountFails = TRUE
  MaxTasks = 1
  MaxRequests = 2
  MaxRuns = 2
  MaxRestarts = 2
INVARIANT NoSecondPrompt
INVARIANT OneRunPerTask
INVARIANT CronBooksAgree
CHECK_DEADLOCK FALSE
