----------------------------- MODULE MCLalrGaps -----------------------------
(***************************************************************************)
(* Documented sentences that the parser does not understand, one family of *)
(* inputs for each restriction of RfGrammar!Supported.  MCLalrGapComparison*)
(* runs the first; every other one refutes AcceptsSentences in its place.  *)
(***************************************************************************)
EXTENDS LalrParser, RfGrammar

Assigned(expressions) == {<<"ID", "EQ">> \o e : e \in expressions}

\* x = a < b + c
Comparisons == Assigned(Sentences(Documented, {"ID", "PLUS", "LT"}, "EXPRESSION", 5))

\* if a { }
Conditions == Sentences(Documented, {"ID", "IF", "LBRC", "RBRC"}, "NT_IF", 4)

\* (a)
Parenthesised == Sentences(Documented, {"ID", "LP", "RP"}, "STATEMENT", 5)

\* x : [[a; a]; a] = a
NestedArrays ==
  Sentences(Documented, {"ID", "COLON", "LBRK", "RBRK", "SEMI", "EQ"}, "ASSIGNMENT", 13)

\* f = a -> b { }
NamedParameterTypes ==
  Sentences(Documented, {"ID", "EQ", "ARROW", "LBRC", "RBRC"}, "FUNCTION", 7)

\* x : _ = a
NoneTypes == Sentences(Documented, {"ID", "COLON", "UNDERSCORE", "EQ"}, "ASSIGNMENT", 5)
=============================================================================
