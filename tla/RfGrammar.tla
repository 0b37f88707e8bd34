------------------------------ MODULE RfGrammar ------------------------------
(***************************************************************************)
(* The sentences of the documented language, and of the part of it that    *)
(* the parser accepts, enumerated for TLC.                                 *)
(*                                                                         *)
(* Sentences(P, alphabet, A, n) enumerates the token strings of length at  *)
(* most n that the productions P derive from A.  The enumeration goes by   *)
(* length: no production is empty, so the parts of a production of several *)
(* symbols are all shorter than the whole, and the productions of a single *)
(* symbol are followed in the order DerivationOrder.                       *)
(***************************************************************************)
EXTENDS Naturals, Sequences, Functions, RfProductions

(***************************************************************************)
(* The part of the documented language that the parser does accept.  Each  *)
(* restriction has a family of documented sentences the parser refuses in  *)
(* MCLalrGaps.  ARRAY_TYPE, CONDITION and PLAIN_EXPRESSION are not nodes   *)
(* of the parser; they only cut the language down.                         *)
(***************************************************************************)
Narrowed(grammar, lhs, alternatives) ==
  {p \in grammar : p.lhs # lhs} \cup P(lhs, alternatives)

ArrayTypes ==
  P("ARRAY_TYPE", {<<"LBRK", "ID", "SEMI", "EXPRESSION_LIST", "RBRK">>,
                   <<"LBRK", "ARRAY_TYPE", "SEMI", "EXPRESSION_LIST", "COMMA", "EXPRESSION", "RBRK">>,
                   <<"ARRAY_TYPE", "MUL">>})

Supported ==
  LET relate  == Narrowed(Documented, "RELATE", {<<"RELATE", op, "TERM">> : op \in Relops} \cup {<<"MATH_EXPR">>})
      types   == Narrowed(relate, "VAR_TYPE", {<<"ID">>, <<"ARRAY_TYPE">>, <<"VAR_TYPE", "MUL">>}) \cup ArrayTypes
      headers == Narrowed(types, "FUNC_HEADER",
                          {<<"TYPED_ID_LIST", "ARROW", "VAR_TYPE">>,
                           <<"ARRAY_TYPE", "ARROW", "VAR_TYPE">>,
                           <<"UNDERSCORE", "ARROW", "VAR_TYPE">>})
      ifs     == Narrowed(headers, "NT_IF", {<<"IF", "CONDITION", "BLOCK">>})
      plain   == Narrowed(ifs, "STATEMENT", {<<"ASSIGNMENT">>, <<"NT_IF">>, <<"RETURN", "EXPRESSION">>, <<"PLAIN_EXPRESSION">>})
  IN plain \cup P("CONDITION", {<<"EXPRESSION">>}) \cup P("PLAIN_EXPRESSION", {<<"EXPRESSION">>})

\* A condition that ends in a name, and a statement that starts with a
\* parenthesis, are the two restrictions productions do not express.
Admits(sym, w) ==
  CASE sym = "CONDITION" -> w[Len(w)] # "ID"
    [] sym = "PLAIN_EXPRESSION" -> w[1] # "LP"
    [] OTHER -> TRUE

-----------------------------------------------------------------------------
(* Enumeration. *)

DerivationOrder ==
  <<"NUMBER", "FUNC_CALL", "DEREF", "FACTOR", "TERM", "MATH_EXPR", "RELATE",
    "LOGIC_CONJ", "LOGIC_DISJ", "EXPRESSION", "EXPRESSION_LIST", "CONDITION",
    "PLAIN_EXPRESSION", "ARRAY_TYPE", "VAR_TYPE", "TYPED_ID",
    "TYPED_ID_LIST", "FUNC_HEADER", "ASSIGNMENT", "BLOCK", "NT_IF",
    "STATEMENT", "STATEMENT_LIST", "HEADER", "FUNCTION", "ITEM", "PROGRAM">>

DerivedSymbols == {DerivationOrder[i] : i \in DOMAIN DerivationOrder}

\* What a symbol derives in exactly n tokens; table[m][A] is known for every
\* m < n, and for m = n as far as row goes.
OfLength(alphabet, table, row, sym, n) ==
  IF sym \in DerivedSymbols THEN IF n <= Len(table) THEN table[n][sym] ELSE row[sym]
  ELSE IF n = 1 /\ sym \in alphabet THEN {<<sym>>} ELSE {}

RECURSIVE Concatenations(_, _, _, _, _)
Concatenations(alphabet, table, row, rhs, n) ==
  IF Len(rhs) = 1 THEN OfLength(alphabet, table, row, rhs[1], n)
  ELSE UNION {
         LET firsts == OfLength(alphabet, table, row, rhs[1], m)
         IN IF firsts = {} THEN {}
            ELSE {u \o v : u \in firsts, v \in Concatenations(alphabet, table, row, Tail(rhs), n - m)}
         : m \in 1..(n + 1 - Len(rhs)) }

RECURSIVE Row(_, _, _, _, _)
Row(grammar, alphabet, table, row, i) ==
  IF i > Len(DerivationOrder) THEN row
  ELSE LET sym  == DerivationOrder[i]
           n    == Len(table) + 1
           here == UNION {Concatenations(alphabet, table, row, p.rhs, n) :
                            p \in {q \in grammar : q.lhs = sym /\ Len(q.rhs) <= n}}
       IN Row(grammar, alphabet, table,
              [row EXCEPT ![sym] = {w \in here : Admits(sym, w)}], i + 1)

RECURSIVE Table(_, _, _)
Table(grammar, alphabet, n) ==
  IF n = 0 THEN <<>>
  ELSE LET shorter == Table(grammar, alphabet, n - 1)
       IN Append(shorter, Row(grammar, alphabet, shorter, [A \in DerivedSymbols |-> {}], 1))

\* The symbols that occur in derivations from syms.
RECURSIVE Used(_, _)
Used(grammar, syms) ==
  LET more == syms \cup UNION {Range(p.rhs) : p \in {q \in grammar : q.lhs \in syms}}
  IN IF more = syms THEN syms ELSE Used(grammar, more)

\* The strings of at most n tokens derived from sym.
Sentences(grammar, alphabet, sym, n) ==
  LET used  == Used(grammar, {sym})
      table == Table({p \in grammar : p.lhs \in used}, alphabet, n)
  IN UNION {table[m][sym] : m \in 1..n}

\* Every string of at most n tokens.
Strings(alphabet, n) == UNION {[1..m -> alphabet] : m \in 0..n}
=============================================================================
