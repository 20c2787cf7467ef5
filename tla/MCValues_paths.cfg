SPECIFICATION MCSpec
CONSTANTS
  Positions = {1, 2}
  Vars = {"x", "y"}
  Declarations <- MCDeclarations
  Signatures <- MCSignatures
  Calls <- MCCalls
  Numbers <- MCNumbers
  Small = 2
  Wide = 4
  Long = 8
  Exact = 4
  Nearest <- MCNearest
  Printed <- MCPrinted
  Conns = {c1, c2}
  NumParams = 2
  Payloads = {"p", "q"}
  Paths = {"stmt", "updatable"}
  MaxIDs = 2
  MaxFails = 1
  MaxChunk = 3
  MaxRunes = 4
  CloseUnits = 2
  Sizes = {0, 1, 3}
  MaxFrames = 3
  FetchSize = 2
INVARIANTS
  CallTypeOK
  OutsAreExact
  InputsArrive
  BindTypeOK
  BindsOwnPayload
  PayloadTravels
  LobTypeOK
  StoredIsSent
  FramesAreText
  FetchIsFaithful
  TypeOK
  CursorsHeldAsNeeded
PROPERTY ImplementsResultStream
CHECK_DEADLOCK FALSE
