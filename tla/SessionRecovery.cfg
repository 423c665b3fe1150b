SPECIFICATION Spec
CONSTANTS
  Requests = {"user", "actor", "continue", "shutdown", "compact", "initial"}
  MaxRequests = 2
  MaxSteps = 1
  MaxStreams = 0
  MaxRestarts = 1
  MaxAttempts = 2
  Compressor = TRUE
  TooLarge = TRUE
  LegacyDisk = FALSE
INVARIANT SavedStateIsSound
PROPERTY HistoryIsFaithful
CHECK_DEADLOCK FALSE
