SPECIFICATION Spec
CONSTANTS
  Requests = {"user", "cancel", "compact"}
  MaxRequests = 3
  MaxSteps = 1
  MaxStreams = 1
  MaxRestarts = 0
  MaxAttempts = 1
  Compressor = FALSE
  TooLarge = FALSE
  LegacyDisk = FALSE
INVARIANTS
  TypeOK
  OneActivity
  CompletionMatchesBatch
  NoMessageStranded
  HostSeesTurn
  RequestsAreSettled
  MessageIdMatchesPosition
CHECK_DEADLOCK FALSE
