------------------------------ MODULE MCDriver ------------------------------
(***************************************************************************)
(* Driver on small programs.                                               *)
(***************************************************************************)
EXTENDS Driver, AstTree, RfGrammar

Line(flags, opens, target, writes) ==
  [flags |-> flags, opens |-> opens, target |-> target, writes |-> writes]

AllCommandLines ==
  { Line(flags, opens, "none", TRUE) :
      flags \in {{}, {"tokenize"}, {"parse"}, {"reconstruct"}}, opens \in BOOLEAN } \cup
  { Line(flags, FALSE, "none", TRUE) :
      flags \in {{"tokenize", "parse"}, {"parse", "reconstruct"}, {"reconstruct", "codegen"}} } \cup
  { Line({"codegen"}, TRUE, target, writes) :
      target \in {"none", "x86_32", "x86_64", "arm64"}, writes \in BOOLEAN }

\* With ints of -2..1: a number that is kept, one that becomes -2, and one that
\* is written 01.
SmallLiterals == {[value |-> 1, plain |-> TRUE], [value |-> 2, plain |-> TRUE], [value |-> 1, plain |-> FALSE]}

Assigned(expressions) == {<<"ID", "EQ">> \o e : e \in expressions}

\* An expression that stands alone as a statement, without operators of its own.
Alone == Narrowed(Supported, "PLAIN_EXPRESSION", {<<"ID">>, <<"NUMBER">>, <<"FUNC_CALL">>, <<"DEREF">>})

\* Declarations whose expressions are names.
Declared == Narrowed(Supported, "EXPRESSION", {<<"ID">>})

ProgramTokens == {"ID", "EQ", "RETURN", "IF", "LBRC", "RBRC", "MODULE", "PLUS"}

\* Programs with numbers.
Numeric ==
  Sentences(Alone, ProgramTokens \cup {"DECIMAL_LIT"}, "PROGRAM", 4) \cup
  Assigned(Sentences(Supported, {"DECIMAL_LIT", "ID", "PLUS", "LP", "RP", "COMMA"}, "EXPRESSION", 4))

Sources ==
  Assigned(Sentences(Supported, {"ID", "PLUS", "MUL", "LT", "LAND", "LOR", "LP", "RP", "COMMA"}, "EXPRESSION", 6)) \cup
  Assigned(Sentences(Supported, {"ID", "COMMA", "LP", "RP", "LBRK", "RBRK"}, "EXPRESSION", 8)) \cup
  Sentences(Alone, ProgramTokens, "PROGRAM", 6) \cup Numeric \cup
  Sentences(Declared, {"ID", "COLON", "ARROW", "COMMA", "MUL", "EQ", "LBRC", "RBRC"}, "FUNCTION", 14) \cup
  Sentences(Declared, {"ID", "COLON", "COMMA", "LBRK", "RBRK", "SEMI", "EQ"}, "ASSIGNMENT", 15)

\* Strings and hexadecimal numbers in their place.
Instead(sym) == {[i \in DOMAIN w |-> IF w[i] = "DECIMAL_LIT" THEN sym ELSE w[i]] : w \in Numeric}

\* Token strings that need not be programs.
Anything == Strings({"ID", "COMMA", "LP", "RP"}, 5) \cup Strings({"ID", "COLON", "COMMA", "EQ"}, 4)

\* A function of no parameters, as in ex/reconstruction_test.rf:17.
UnnamedParameters == {<<"ID", "EQ", "UNDERSCORE", "ARROW", "ID", "LBRC", "RBRC">>}

\* x : [a; b]* = c, which refutes NodesRebuilt in the same way.
StarredArrays == {<<"ID", "COLON", "LBRK", "ID", "SEMI", "ID", "RBRK", "MUL", "EQ", "ID">>}

Programs == Sources \cup Instead("STRING_LIT") \cup Instead("HEX_LIT") \cup Anything
=============================================================================
