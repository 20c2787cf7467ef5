SPECIFICATION Spec
CONSTANTS
  Conns = {c1}
  Texts = {"insert"}
  Ops = {"batch", "prepbatch"}
  MaxIDs = 1
  MaxEntries = 2
  MaxJobs = 1
  MaxFails = 0
  MaxTries = 1
INVARIANTS
  BatchIsComplete
CHECK_DEADLOCK FALSE
