\* Whole processes on small programs.
CONSTANTS
  Inputs <- Programs
  StackSize = 255
  CommandLines <- AllCommandLines
  Unwritten = Unwritten
  Literals <- SmallLiterals
  IntLimit = 2
SPECIFICATION DriverSpec
INVARIANTS
  BuildTypeOK
  ListsOwned
  TreeWellFormed
  NodesRebuilt
  ReconstructionGivesUp
  NamesShown
  TreeCrashes
  SuccessIsComplete
  ReconstructionIsStable
PROPERTIES
  WalkAdvances
