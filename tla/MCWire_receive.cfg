SPECIFICATION Spec
CONSTANTS
  ShortLen = 1
  IntLen = 2
  LongLen = 3
  Day = 8
  Hour = 4
  Minute = 2
  Transmissions <- MCTransmissions
INVARIANTS
  TypeOK
  DecodesWhatWasSent
  ArraysAreLossless
CHECK_DEADLOCK FALSE
