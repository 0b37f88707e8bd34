\* Hexadecimal text with decimal digits.
CONSTANTS
  Calls <- HexCalls
  IntLimit = 2048
  DoubleLimit = 32768
  LongLimit = 131072
SPECIFICATION Spec
INVARIANTS
  ReadsNumber
