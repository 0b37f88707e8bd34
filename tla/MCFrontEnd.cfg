\* Texts as an editor leaves them, read and parsed.
CONSTANTS
  Chars <- AllChars
  Texts <- FrontTexts
  StackSize = 5
SPECIFICATION FrontSpec
INVARIANTS
  NothingLost
  LookaheadIsNext
  MaximalMunch
  EofAtEnd
  CommentsConsumed
  LinesMissed
PROPERTIES
  ImplementsParser
