SPECIFICATION SuiteSpec
PROPERTIES
  RequestsAreServed
  WorkEnds
CHECK_DEADLOCK FALSE
