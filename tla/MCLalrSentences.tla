-------------------------- MODULE MCLalrSentences --------------------------
(***************************************************************************)
(* LalrParser on sentences of the language: all the short ones, and some   *)
(* that are long or deeply nested, a few of them too deep for the stack.   *)
(***************************************************************************)
EXTENDS LalrParser, RfGrammar

\* Sentences the parser is expected to understand.
OperatorTokens == {"ID", "PLUS", "MUL", "LT", "LAND", "LOR", "LP", "RP", "COMMA", "LBRK", "RBRK"}
ProgramTokens == {"ID", "DECIMAL_LIT", "EQ", "RETURN", "IF", "LBRC", "RBRC", "MODULE", "PLUS"}
FunctionTokens ==
  {"ID", "COLON", "ARROW", "COMMA", "UNDERSCORE", "MUL", "EQ", "SEMI", "LBRC", "RBRC", "LBRK", "RBRK"}
TypeTokens == {"ID", "DECIMAL_LIT", "COLON", "COMMA", "LBRK", "RBRK", "SEMI", "MUL", "EQ"}

Assigned(expressions) == {<<"ID", "EQ">> \o e : e \in expressions}

ShortSentences ==
  Assigned(Sentences(Supported, OperatorTokens, "EXPRESSION", 8)) \cup
  Sentences(Supported, ProgramTokens, "PROGRAM", 7) \cup
  Sentences(Supported, FunctionTokens, "FUNCTION", 14) \cup
  Sentences(Supported, TypeTokens, "ASSIGNMENT", 11)

\* Long and deep sentences.
Times(n, w) == [i \in 1..(n * Len(w)) |-> w[((i - 1) % Len(w)) + 1]]

LongInputs(n) ==
  { Times(n, <<"ID", "EQ", "DECIMAL_LIT">>),
    Times(n, <<"DECIMAL_LIT">>),
    <<"ID", "EQ">> \o Times(n, <<"ID", "PLUS">>) \o <<"ID">>,
    <<"ID", "EQ">> \o Times(n, <<"ID", "MUL">>) \o <<"ID">>,
    <<"ID", "EQ">> \o Times(n, <<"ID", "LT">>) \o <<"ID">>,
    <<"ID", "EQ">> \o Times(n, <<"ID", "LAND">>) \o <<"ID">>,
    <<"ID", "EQ">> \o Times(n, <<"ID", "LOR">>) \o <<"ID">>,
    <<"ID", "EQ">> \o Times(n, <<"LP">>) \o <<"ID">> \o Times(n, <<"RP">>),
    <<"ID", "LP">> \o Times(n, <<"ID", "COMMA">>) \o <<"ID", "RP">>,
    <<"ID", "LBRK">> \o Times(n, <<"ID", "COMMA">>) \o <<"ID", "RBRK">>,
    <<"ID", "COLON", "ID">> \o Times(n, <<"MUL">>) \o <<"EQ", "ID">>,
    <<"ID", "EQ">> \o Times(n, <<"ID", "COLON", "ID", "COMMA">>)
      \o <<"ID", "COLON", "ID", "ARROW", "ID", "LBRC", "RBRC">>,
    Times(n, <<"ID", "EQ", "UNDERSCORE", "ARROW", "ID", "LBRC", "RETURN", "DECIMAL_LIT", "RBRC">>),
    Times(n, <<"ID", "EQ", "UNDERSCORE", "ARROW", "ID", "LBRC", "RBRC", "DECIMAL_LIT">>),
    Times(n, <<"IF", "DECIMAL_LIT", "LBRC">>) \o Times(n, <<"RBRC">>),
    Times(n, <<"ID", "LOR", "ID", "LAND", "ID", "LT", "ID", "MUL", "ID", "LP", "ID", "COMMA">>)
      \o <<"ID">> \o Times(n, <<"RP">>),
    Times(n, <<"ID", "EQ", "ID", "IF", "DECIMAL_LIT", "LBRC">>) \o
      Times(n, <<"RETURN", "ID", "LOR", "ID", "LAND", "ID", "LT", "ID", "MUL", "ID", "LBRK", "ID", "RBRK">>) \o
      Times(n, <<"RBRC">>) }

Longest == 20
LongSentences == UNION {LongInputs(n) : n \in 1..Longest}

SupportedInputs == ShortSentences \cup LongSentences
=============================================================================
