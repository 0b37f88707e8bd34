----------------------------- MODULE MCLalrAny -----------------------------
(**************************************************************************)
(* LalrParser on every short token string, and the comparison of the nodes *)
(* it builds with the documented grammar.                                  *)
(**************************************************************************)
EXTENDS LalrLanguage, RfGrammar

\* Every string, correct or not, over seven small alphabets: arithmetic,
\* comparisons, the logical operators, calls and subscripts, declarations,
\* array types, statements and blocks.  Each is long enough for two nested or
\* neighbouring productions of its kind.
ArithmeticTokens == {"ID", "PLUS", "MUL", "LP", "RP"}
ComparisonTokens == {"ID", "PLUS", "LT", "LAND"}
LogicTokens == {"ID", "LT", "LAND", "LOR"}
ListTokens == {"ID", "COMMA", "LP", "RP", "LBRK", "RBRK"}
DeclarationTokens == {"ID", "COLON", "ARROW", "COMMA", "UNDERSCORE", "MUL", "EQ"}
ArrayTokens == {"ID", "DECIMAL_LIT", "LBRK", "RBRK", "SEMI", "COMMA"}
BlockTokens == {"ID", "DECIMAL_LIT", "IF", "LBRC", "RBRC", "RETURN"}

AnyInputs ==
  Strings(ArithmeticTokens, 5) \cup Strings(ComparisonTokens, 6) \cup
  Strings(LogicTokens, 6) \cup Strings(ListTokens, 5) \cup
  Strings(DeclarationTokens, 5) \cup Strings(ArrayTokens, 5) \cup
  Strings(BlockTokens, 5)

-----------------------------------------------------------------------------
\* What each node may cover, by the documented grammar: the derivations over
\* the same alphabets, to the same lengths.
Derivations(alphabet, n) ==
  LET table == Table(Documented, alphabet, n)
  IN [A \in DerivedSymbols |-> UNION {table[m][A] : m \in 1..n}]

Enumerations ==
  { Derivations(ArithmeticTokens, 5), Derivations(ComparisonTokens, 6),
    Derivations(LogicTokens, 6), Derivations(ListTokens, 5),
    Derivations(DeclarationTokens, 5), Derivations(ArrayTokens, 5),
    Derivations(BlockTokens, 5) }

DocumentedStrings == [A \in NonTerminals |-> UNION {e[A] : e \in Enumerations}]

\* TLC computes a definition once, and what a cfg puts for a constant each time.
Enumerated == DocumentedStrings
=============================================================================
