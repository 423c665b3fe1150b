SPECIFICATION SilentSpec
CONSTANTS
  Requests = {"user"}
  MaxRequests = 2
  MaxSteps = 1
  MaxStreams = 0
  MaxRestarts = 0
  MaxAttempts = 1
  Compressor = FALSE
  TooLarge = FALSE
  LegacyDisk = FALSE
PROPERTY SilentRequestIsSuperseded
CHECK_DEADLOCK FALSE
