SPECIFICATION SuiteSpec
CONSTANTS
  Callers = {"a", "b"}
  Serial = FALSE
  Ops = {"send", "subscribed", "stop"}
  MaxKernels = 3
  MaxFailures = 1
INVARIANTS
  ServicesSurviveFaults
CHECK_DEADLOCK FALSE
