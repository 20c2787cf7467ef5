SPECIFICATION FairSpec
CONSTANTS
  MaxCalls = 2
  MaxChain = 1
  CtxKinds = {"background", "cancel", "timeout"}
PROPERTIES
  CancelUnblocks
  WatchersExit
CHECK_DEADLOCK FALSE
