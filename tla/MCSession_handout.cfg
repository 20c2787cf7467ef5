SPECIFICATION Spec
CONSTANTS
  Levels = {"default", "RU"}
  MaxTx = 1
  MaxWrites = 0
  MaxFaults = 1
INVARIANTS
  CleanHandout
CHECK_DEADLOCK FALSE
