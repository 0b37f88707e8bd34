\* A sum on the right of a comparison.
CONSTANTS
  Inputs <- Comparisons
  StackSize = 255
SPECIFICATION Spec
INVARIANTS
  AcceptsSentences
