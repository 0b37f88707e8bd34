------------------------------ MODULE LalrRules ------------------------------
(***************************************************************************)
(* The reductions of lalr_reduce (src/lalr.c), one record per "if" of that *)
(* function.  lalr_reduce has no table: it tries its conditions from the   *)
(* top of the function to the bottom and the first that holds wins, so the *)
(* position of a condition in the file IS its priority.                    *)
(*                                                                         *)
(*   at     line of the condition; the smallest matching one is taken      *)
(*   lhs    out_n->type, the kind of node the branch builds                *)
(*   rhs    what peeked[k-1] .. peeked[0] must be, deepest first: a set of *)
(*          symbols for each position                                      *)
(*   pops   the value returned, which the caller hands to lalr_pop_n       *)
(*   loc    the peeked[] index whose location the node takes, or Unset     *)
(*          where the code writes none                                     *)
(*   under  what may lie right beneath the handle                          *)
(*   la     the lookaheads the branch accepts                              *)
(*   sure   FALSE where the code reads token.type of a node that is no     *)
(*          token: the bytes it reads belong to another member of the      *)
(*          union, and the branch may or may not be taken                  *)
(*                                                                         *)
(* A T_ID token is "MODULE" when its text is the word module and "ID"      *)
(* otherwise; no branch looks at the text in any other way.                *)
(***************************************************************************)
EXTENDS Naturals, Sequences

IdTokens == {"ID", "MODULE"}
Relops == {"DEQ", "GT", "LT", "GTEQ", "LTEQ"}
Mulops == {"MUL", "DIV", "MOD"}
Addops == {"PLUS", "MINUS"}

Tokens ==
  IdTokens \cup Relops \cup Mulops \cup Addops \cup
  {"DOUBLE_LIT", "DECIMAL_LIT", "HEX_LIT", "STRING_LIT", "CHAR_LIT",
   "FN", "IF", "ELSE", "SWITCH", "BREAK", "DEFAULT", "SQUOTE", "DQUOTE",
   "LP", "RP", "LBRC", "RBRC", "LBRK", "RBRK", "RETURN", "ARROW",
   "UNDERSCORE", "BOR", "BAND", "EQ", "LOR", "LAND", "COLON", "COMMA",
   "PERIOD", "SEMI", "UNKNOWN"}

\* The node kinds of AST_NodeType that lalr_reduce builds; NT_IF keeps its
\* prefix, the token T_IF being "IF".
NonTerminals ==
  {"FACTOR", "NUMBER", "EXPRESSION", "EXPRESSION_LIST", "STATEMENT",
   "LOGIC_DISJ", "LOGIC_CONJ", "RELATE", "MATH_EXPR", "TERM", "FUNC_CALL",
   "HEADER", "TYPED_ID", "DEREF", "VAR_TYPE", "TYPED_ID_LIST",
   "FUNC_HEADER", "NT_IF", "BLOCK", "STATEMENT_LIST", "FUNCTION",
   "ASSIGNMENT"}

Bottom == "UNDEF"                     \* what lalr_peek_n finds under the stack
Symbols == Tokens \cup NonTerminals
Lookaheads == Tokens \cup {"EOF"}
Unset == 5                            \* peeked[] has the indices 0..4

Rule(at, lhs, rhs, pops, loc) ==
  [at |-> at, lhs |-> lhs, rhs |-> rhs, pops |-> pops, loc |-> loc,
   under |-> Symbols \cup {Bottom}, la |-> Lookaheads, sure |-> TRUE]

Under(syms, r) == [r EXCEPT !.under = syms]
Before(syms, r) == [r EXCEPT !.la = syms]
NotBefore(syms, r) == [r EXCEPT !.la = Lookaheads \ syms]

\* Shorthands for positions of a right-hand side.
Id == IdTokens
S(sym) == {sym}

-----------------------------------------------------------------------------
NumberRules ==
  { Rule(42, "NUMBER", <<S("DECIMAL_LIT")>>, 1, 0),
    Rule(49, "NUMBER", <<S("HEX_LIT")>>, 1, 0) }

\* The last conjunct tests peeked[1] a second time, so whatever token follows
\* the word module is taken for the name.
HeaderRules ==
  { Rule(64, "HEADER", <<S("MODULE"), Tokens>>, 2, 1) }

TypeNameRules ==
  { Under(S("COLON"), NotBefore(S("LP"), Rule(84, "VAR_TYPE", <<Id>>, 1, 0))),
    Under(S("ARROW"), NotBefore(S("LP"), Rule(94, "VAR_TYPE", <<Id>>, 1, 0))),
    Before(S("ARROW"), Rule(105, "VAR_TYPE", <<S("UNDERSCORE")>>, 1, 0)) }

ArrayTypeRules ==
  { Rule(115, "VAR_TYPE", <<S("LBRK"), Id, S("SEMI"), S("EXPRESSION_LIST"), S("RBRK")>>, 5, 4),
    Rule(130, "VAR_TYPE", <<S("LBRK"), Id, S("SEMI"), S("EXPRESSION"), S("RBRK")>>, 5, 4),
    Rule(148, "VAR_TYPE", <<S("LBRK"), S("VAR_TYPE"), S("SEMI"), S("EXPRESSION_LIST"), S("RBRK")>>, 5, 4) }

PointerTypeRules ==
  { Rule(162, "VAR_TYPE", <<S("VAR_TYPE"), S("MUL")>>, 2, 1) }

\* The list rule keeps the first list's own node, location included; the
\* location of a list of one is never written.
TypedIdRules ==
  { NotBefore(S("MUL"), Rule(177, "TYPED_ID", <<Id, S("COLON"), S("VAR_TYPE")>>, 3, 2)),
    Rule(195, "TYPED_ID_LIST", <<S("TYPED_ID_LIST"), S("COMMA"), S("TYPED_ID")>>, 3, 2),
    Before({"COMMA", "ARROW"}, Rule(212, "TYPED_ID_LIST", <<S("TYPED_ID")>>, 1, Unset)) }

FactorRules ==
  { NotBefore({"LP", "LBRK", "COLON", "SEMI", "LBRC", "EQ"}, Rule(231, "FACTOR", <<S("ID")>>, 1, 0)),
    Rule(242, "FACTOR", <<S("NUMBER")>>, 1, 0),
    Rule(252, "FACTOR", <<S("STRING_LIT")>>, 1, 0),
    Rule(273, "FACTOR", <<S("FUNC_CALL")>>, 1, 0),
    Rule(282, "FACTOR", <<S("DEREF")>>, 1, 0) }

\* Line 264 reads peeked[3].token.type without asking whether peeked[3] is a
\* token.  An empty position is all zeros, which reads as T_ID, so the branch
\* is not taken at the bottom of the stack; a nonterminal reads as whatever
\* its own fields hold there.
Parentheses == Rule(261, "FACTOR", <<S("LP"), S("EXPRESSION"), S("RP")>>, 3, 2)

ParenthesesRules ==
  { Under(Tokens \ IdTokens, Parentheses),
    [Under(NonTerminals, Parentheses) EXCEPT !.sure = FALSE] }

TermRules ==
  { Rule(299, "TERM", <<S("TERM"), Mulops, S("FACTOR")>>, 3, 2),
    Rule(314, "TERM", <<S("FACTOR")>>, 1, 0) }

\* Variant: sums reduced without looking at the operator that follows.
MathRulesWithoutLookahead ==
  { Rule(332, "MATH_EXPR", <<S("MATH_EXPR"), Addops, S("TERM")>>, 3, 0),
    Rule(350, "MATH_EXPR", <<S("TERM")>>, 1, 0) }

\* A sum takes the location of its right operand.
MathRules ==
  { NotBefore(Mulops, Rule(332, "MATH_EXPR", <<S("MATH_EXPR"), Addops, S("TERM")>>, 3, 0)),
    NotBefore(Mulops, Rule(350, "MATH_EXPR", <<S("TERM")>>, 1, 0)) }

\* The first rule does not look ahead, the second does.
RelationalRules ==
  { Rule(377, "RELATE", <<S("RELATE"), Relops, S("MATH_EXPR")>>, 3, 2),
    NotBefore(Addops, Rule(399, "RELATE", <<S("MATH_EXPR")>>, 1, 0)) }

ConjRules ==
  { NotBefore(Relops, Rule(419, "LOGIC_CONJ", <<S("LOGIC_CONJ"), S("LAND"), S("RELATE")>>, 3, 2)),
    NotBefore(Relops, Rule(435, "LOGIC_CONJ", <<S("RELATE")>>, 1, 0)) }

DisjRules ==
  { NotBefore(S("LAND"), Rule(453, "LOGIC_DISJ", <<S("LOGIC_DISJ"), S("LOR"), S("LOGIC_CONJ")>>, 3, 2)),
    NotBefore(S("LAND"), Rule(468, "LOGIC_DISJ", <<S("LOGIC_CONJ")>>, 1, 0)) }

ExpressionRules ==
  { NotBefore(S("LOR"), Rule(483, "EXPRESSION", <<S("LOGIC_DISJ")>>, 1, 0)) }

\* Variant: the list of one given the type of a factor.
ExpressionListRulesAsFactor ==
  { Rule(506, "EXPRESSION_LIST", <<S("EXPRESSION_LIST"), S("COMMA"), S("EXPRESSION")>>, 3, 2),
    Before(S("COMMA"), Rule(526, "FACTOR", <<S("EXPRESSION")>>, 1, 0)) }

ExpressionListRules ==
  { Rule(506, "EXPRESSION_LIST", <<S("EXPRESSION_LIST"), S("COMMA"), S("EXPRESSION")>>, 3, 2),
    Before(S("COMMA"), Rule(526, "EXPRESSION_LIST", <<S("EXPRESSION")>>, 1, 0)) }

\* Variant: the second return value miscounts the handle.
DerefRulesShortPop ==
  { Rule(542, "DEREF", <<Id, S("LBRK"), S("EXPRESSION_LIST"), S("RBRK")>>, 4, 3),
    Rule(558, "DEREF", <<Id, S("LBRK"), S("EXPRESSION"), S("RBRK")>>, 3, 3) }

DerefRules ==
  { Rule(542, "DEREF", <<Id, S("LBRK"), S("EXPRESSION_LIST"), S("RBRK")>>, 4, 3),
    Rule(558, "DEREF", <<Id, S("LBRK"), S("EXPRESSION"), S("RBRK")>>, 4, 3) }

\* Variant: the location of a call without arguments is looked for where a call
\* with arguments has it.
CallRulesDeepLocation ==
  { Rule(584, "FUNC_CALL", <<Id, S("LP"), S("EXPRESSION_LIST"), S("RP")>>, 4, 3),
    Rule(599, "FUNC_CALL", <<Id, S("LP"), S("RP")>>, 3, 3),
    Rule(610, "FUNC_CALL", <<Id, S("LP"), S("EXPRESSION"), S("RP")>>, 4, 3) }

\* Variant: the bracket that closes a call with one argument not tested.
CallRulesUnclosed ==
  { Rule(584, "FUNC_CALL", <<Id, S("LP"), S("EXPRESSION_LIST"), S("RP")>>, 4, 3),
    Rule(599, "FUNC_CALL", <<Id, S("LP"), S("RP")>>, 3, 2),
    Rule(610, "FUNC_CALL", <<Id, S("LP"), S("EXPRESSION"), Tokens>>, 4, 3) }

CallRules ==
  { Rule(584, "FUNC_CALL", <<Id, S("LP"), S("EXPRESSION_LIST"), S("RP")>>, 4, 3),
    Rule(599, "FUNC_CALL", <<Id, S("LP"), S("RP")>>, 3, 2),
    Rule(610, "FUNC_CALL", <<Id, S("LP"), S("EXPRESSION"), S("RP")>>, 4, 3) }

FuncHeaderRules ==
  { NotBefore(S("MUL"), Rule(630, "FUNC_HEADER", <<S("TYPED_ID_LIST"), S("ARROW"), S("VAR_TYPE")>>, 3, 2)),
    NotBefore(S("MUL"), Rule(641, "FUNC_HEADER", <<S("VAR_TYPE"), S("ARROW"), S("VAR_TYPE")>>, 3, 2)) }

IfRules ==
  { Rule(661, "NT_IF", <<S("IF"), S("EXPRESSION"), S("BLOCK")>>, 3, 2) }

AssignmentRules ==
  { Rule(676, "ASSIGNMENT", <<S("TYPED_ID"), S("EQ"), S("EXPRESSION")>>, 3, 2),
    Rule(686, "ASSIGNMENT", <<Id, S("EQ"), S("EXPRESSION")>>, 3, 2) }

\* Variant: the list of one tried before the longer list.
StatementListRulesSwapped ==
  { Rule(703, "STATEMENT_LIST", <<S("STATEMENT")>>, 1, 0),
    Rule(720, "STATEMENT_LIST", <<S("STATEMENT_LIST"), S("STATEMENT")>>, 2, 1) }

StatementListRules ==
  { Rule(703, "STATEMENT_LIST", <<S("STATEMENT_LIST"), S("STATEMENT")>>, 2, 1),
    Rule(720, "STATEMENT_LIST", <<S("STATEMENT")>>, 1, 0) }

StatementRules ==
  { Rule(741, "STATEMENT", <<S("ASSIGNMENT")>>, 1, 0),
    Rule(749, "STATEMENT", <<S("NT_IF")>>, 1, 0),
    Rule(757, "STATEMENT", <<S("RETURN"), S("EXPRESSION")>>, 2, 0),
    Under(NonTerminals \cup {Bottom}, Rule(767, "STATEMENT", <<S("EXPRESSION")>>, 1, 0)),
    Under(S("LBRC"), Rule(775, "STATEMENT", <<S("EXPRESSION")>>, 1, 0)) }

BlockRules ==
  { Rule(791, "BLOCK", <<S("LBRC"), S("RBRC")>>, 2, 1),
    Rule(802, "BLOCK", <<S("LBRC"), S("STATEMENT_LIST"), S("RBRC")>>, 3, 2) }

FunctionRules ==
  { Rule(818, "FUNCTION", <<Id, S("EQ"), S("FUNC_HEADER"), S("BLOCK")>>, 4, 3) }

Rules ==
  NumberRules \cup HeaderRules \cup TypeNameRules \cup ArrayTypeRules \cup
  PointerTypeRules \cup TypedIdRules \cup FactorRules \cup ParenthesesRules \cup
  TermRules \cup MathRules \cup RelationalRules \cup ConjRules \cup DisjRules \cup
  ExpressionRules \cup ExpressionListRules \cup DerefRules \cup CallRules \cup
  FuncHeaderRules \cup IfRules \cup AssignmentRules \cup StatementListRules \cup
  StatementRules \cup BlockRules \cup FunctionRules

-----------------------------------------------------------------------------
\* A rule of one symbol replaces it by a symbol of a higher rank, so that a
\* chain of such rules cannot be endless.
Rank(sym) ==
  CASE sym \in {"NUMBER", "FUNC_CALL", "DEREF", "TYPED_ID", "NT_IF", "ASSIGNMENT"} -> 1
    [] sym \in {"FACTOR", "TYPED_ID_LIST"} -> 2
    [] sym = "TERM" -> 3
    [] sym = "MATH_EXPR" -> 4
    [] sym = "RELATE" -> 5
    [] sym = "LOGIC_CONJ" -> 6
    [] sym = "LOGIC_DISJ" -> 7
    [] sym = "EXPRESSION" -> 8
    [] sym \in {"EXPRESSION_LIST", "STATEMENT"} -> 9
    [] sym = "STATEMENT_LIST" -> 10
    [] sym \in {"HEADER", "VAR_TYPE", "FUNC_HEADER", "BLOCK", "FUNCTION"} -> 11
    [] OTHER -> 0
=============================================================================
