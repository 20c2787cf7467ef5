SPECIFICATION Spec
CONSTANTS
  Levels = {"default", "RU", "SER", "unsupported"}
  MaxTx = 2
  MaxWrites = 2
  MaxFaults = 2
INVARIANTS
  TypeOK
  CommitHonoured
  RollbackHonoured
  AlteredIsFlagged
  FinishRestores
  ResetRestores
PROPERTY ResetNeverCommits
CHECK_DEADLOCK FALSE
