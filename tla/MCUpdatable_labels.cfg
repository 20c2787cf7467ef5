SPECIFICATION Spec
CONSTANTS
  Columns <- Aliased
  Keys = {"x", "a", "b", "missing"}
  Values = {"null", "v"}
  MaxRows = 1
  MaxWrites = 1
INVARIANTS
  WritesAreExact
CHECK_DEADLOCK FALSE
