---------------------------- MODULE RfProductions ----------------------------
(***************************************************************************)
(* The language as the repository documents it: the productions in the     *)
(* comment above each section of lalr_reduce (src/lalr.c), and grammar.g   *)
(* where the two agree.  This is what the parser is compared with; nothing *)
(* here describes how it works.                                            *)
(***************************************************************************)
EXTENDS LalrRules

Production(lhs, rhs) == [lhs |-> lhs, rhs |-> rhs]
P(lhs, alternatives) == {Production(lhs, rhs) : rhs \in alternatives}

ExpressionGrammar ==
  P("NUMBER", {<<"DECIMAL_LIT">>, <<"HEX_LIT">>}) \cup
  P("FACTOR", {<<"LP", "EXPRESSION", "RP">>, <<"ID">>, <<"NUMBER">>, <<"STRING_LIT">>,
              <<"FUNC_CALL">>, <<"DEREF">>}) \cup
  P("TERM", {<<"TERM", op, "FACTOR">> : op \in Mulops} \cup {<<"FACTOR">>}) \cup
  P("MATH_EXPR", {<<"MATH_EXPR", op, "TERM">> : op \in Addops} \cup {<<"TERM">>}) \cup
  P("RELATE", {<<"RELATE", op, "MATH_EXPR">> : op \in Relops} \cup {<<"MATH_EXPR">>}) \cup
  P("LOGIC_CONJ", {<<"LOGIC_CONJ", "LAND", "RELATE">>, <<"RELATE">>}) \cup
  P("LOGIC_DISJ", {<<"LOGIC_DISJ", "LOR", "LOGIC_CONJ">>, <<"LOGIC_CONJ">>}) \cup
  P("EXPRESSION", {<<"LOGIC_DISJ">>}) \cup
  P("EXPRESSION_LIST", {<<"EXPRESSION_LIST", "COMMA", "EXPRESSION">>, <<"EXPRESSION">>}) \cup
  P("DEREF", {<<"ID", "LBRK", "EXPRESSION_LIST", "RBRK">>, <<"ID", "LBRK", "EXPRESSION", "RBRK">>}) \cup
  P("FUNC_CALL", {<<"ID", "LP", "EXPRESSION_LIST", "RP">>, <<"ID", "LP", "RP">>,
                 <<"ID", "LP", "EXPRESSION", "RP">>})

TypeGrammar ==
  P("VAR_TYPE", {<<"ID">>, <<"UNDERSCORE">>,
                 <<"LBRK", "ID", "SEMI", "EXPRESSION_LIST", "RBRK">>,
                 <<"LBRK", "ID", "SEMI", "EXPRESSION", "RBRK">>,
                 <<"LBRK", "VAR_TYPE", "SEMI", "EXPRESSION_LIST", "RBRK">>,
                 <<"VAR_TYPE", "MUL">>}) \cup
  P("TYPED_ID", {<<"ID", "COLON", "VAR_TYPE">>}) \cup
  P("TYPED_ID_LIST", {<<"TYPED_ID_LIST", "COMMA", "TYPED_ID">>, <<"TYPED_ID">>}) \cup
  P("FUNC_HEADER", {<<"TYPED_ID_LIST", "ARROW", "VAR_TYPE">>, <<"VAR_TYPE", "ARROW", "VAR_TYPE">>})

StatementGrammar ==
  P("NT_IF", {<<"IF", "EXPRESSION", "BLOCK">>}) \cup
  P("ASSIGNMENT", {<<"TYPED_ID", "EQ", "EXPRESSION">>, <<"ID", "EQ", "EXPRESSION">>}) \cup
  P("STATEMENT", {<<"ASSIGNMENT">>, <<"NT_IF">>, <<"RETURN", "EXPRESSION">>, <<"EXPRESSION">>}) \cup
  P("STATEMENT_LIST", {<<"STATEMENT_LIST", "STATEMENT">>, <<"STATEMENT">>}) \cup
  P("BLOCK", {<<"LBRC", "RBRC">>, <<"LBRC", "STATEMENT_LIST", "RBRC">>})

\* No document names a start symbol; the .rf files under ex/ are headers,
\* functions and statements in any order.
ProgramGrammar ==
  P("HEADER", {<<"MODULE", "ID">>}) \cup
  P("FUNCTION", {<<"ID", "EQ", "FUNC_HEADER", "BLOCK">>}) \cup
  P("ITEM", {<<"HEADER">>, <<"FUNCTION">>, <<"STATEMENT">>}) \cup
  P("PROGRAM", {<<"PROGRAM", "ITEM">>, <<"ITEM">>})

Documented == ExpressionGrammar \cup TypeGrammar \cup StatementGrammar \cup ProgramGrammar
=============================================================================
