SPECIFICATION Spec
CONSTANTS
  MaxCalls = 3
  MaxChain = 0
  CtxKinds = {"background", "timeout"}
INVARIANTS
  TypeOK
  NoCrossTalk
  ValidIsAligned
  OneExchange
  AbortIsReported
  NoInheritedDeadline
CHECK_DEADLOCK FALSE
