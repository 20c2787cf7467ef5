SPECIFICATION Spec
CONSTANTS
  Columns <- Aliased
  Keys = {"x", "a", "b", "missing"}
  Values = {"null", "v"}
  MaxRows = 3
  MaxWrites = 2
INVARIANTS
  TypeOK
  CopyMatchesCursor
  AheadIsUnseen
  NamedColumnsOnly
  NothingLeaks
CHECK_DEADLOCK FALSE
