\* A comment on a line of its own.
CONSTANTS
  Chars <- AllChars
  Texts <- LineComments
SPECIFICATION Spec
INVARIANTS
  CommentsConsumed
