SPECIFICATION SuiteSpec
CONSTANTS
  Callers = {"a", "b"}
  Serial = FALSE
  Ops = {"send", "subscribed", "stop"}
  MaxKernels = 3
  MaxFailures = 1
INVARIANTS
  KernelKeepsServices
  OneOwner
PROPERTIES
  AgentCallsAgree
  TasksStayApart
CHECK_DEADLOCK FALSE
