\* A text that does not end in a newline.
CONSTANTS
  Chars <- AllChars
  Texts <- OpenEnded
SPECIFICATION Spec
INVARIANTS
  EofAtEnd
