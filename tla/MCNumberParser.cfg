\* Digits up to base 10, and letters of lower case.
CONSTANTS
  Calls <- NumberCalls
  IntLimit = 2048
  DoubleLimit = 32768
  LongLimit = 131072
SPECIFICATION FairSpec
INVARIANTS
  TypeOK
  ReadsNumber
  SumConverges
PROPERTIES
  Termination
