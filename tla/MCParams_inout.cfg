SPECIFICATION CallSpec
CONSTANTS
  Positions = {1, 2}
  Vars = {"x", "y"}
  Declarations <- MCDeclarations
  Signatures <- MCSignatures
  Calls <- MCCalls
  Numbers <- MCNumbers
  Small = 2
  Wide = 4
  Long = 8
  Exact = 4
  Nearest <- MCNearest
  Printed <- MCPrinted
INVARIANT InoutIsNotZeroed
CHECK_DEADLOCK FALSE
