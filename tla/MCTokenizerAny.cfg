\* Any text: both loops end, and deliver no character twice.
CONSTANTS
  Chars <- AllChars
  Texts <- AnyTexts
SPECIFICATION FairSpec
INVARIANTS
  TypeOK
  TokensApart
PROPERTIES
  Termination
  TurnsRunOut
