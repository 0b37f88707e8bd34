\* Sentences of the supported language, short, long and deep.
CONSTANTS
  Inputs <- SupportedInputs
  StackSize = 100
SPECIFICATION FairSpec
INVARIANTS
  OverrunNeedsTokens
  AcceptsSentences
  StackBound
PROPERTIES
  Termination
