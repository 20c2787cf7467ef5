SPECIFICATION Spec
CONSTANTS
  MaxCalls = 2
  MaxChain = 0
  CtxKinds = {"cancel"}
INVARIANT ValidHasNoDeadline
CHECK_DEADLOCK FALSE
