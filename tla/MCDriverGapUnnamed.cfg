\* A function without parameters, written down again.
CONSTANTS
  Inputs <- UnnamedParameters
  StackSize = 255
  CommandLines <- AllCommandLines
  Unwritten = Unwritten
  Literals <- SmallLiterals
  IntLimit = 2
SPECIFICATION DriverSpec
INVARIANTS
  NodesRebuilt
