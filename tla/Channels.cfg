SPECIFICATION SuiteSpec
CONSTANTS
  Users = {"ann", "bob"}
  Groups = {"g"}
  MaxUpdates = 2
  MaxCrashes = 1
  MaxSaveErrors = 0
  Configured = {}
  MaxSecurityErrors = 1
INVARIANTS
  AnswersAreMatched
  IngressIsDurable
  RepliesAreKept
  LiveViewIsTrue
  HomeViewIsTrue
  SplitsAreFaithful
PROPERTIES
  TerminalIsFaithful
CHECK_DEADLOCK FALSE
