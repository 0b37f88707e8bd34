\* Every token string up to the bounds of AnyInputs, sentences or not.
CONSTANTS
  Inputs <- AnyInputs
  StackSize = 255
  Language <- Enumerated
SPECIFICATION Spec
INVARIANTS
  TilesInput
  LocInSpan
  NodesDerive
PROPERTIES
  WorkShrinks
