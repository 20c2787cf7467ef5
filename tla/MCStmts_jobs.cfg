SPECIFICATION Spec
CONSTANTS
  Conns = {c1, c2}
  Texts = {"insert", "update"}
  Ops = {"exec", "stmt", "batch", "prepbatch"}
  MaxIDs = 2
  MaxEntries = 2
  MaxJobs = 3
  MaxFails = 2
  MaxTries = 3
INVARIANTS
  TypeOK
  AtMostOnce
  StatementsMatch
  ReportIsExact
CHECK_DEADLOCK FALSE
