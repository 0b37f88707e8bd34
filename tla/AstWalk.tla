------------------------------ MODULE AstWalk ------------------------------
(***************************************************************************)
(* The two walks over the finished nodes: ast_util_reconstruct_ast_node    *)
(* (src/ast_reconstruct.c), which writes the program down again, and       *)
(* ast_print_node (src/ast_print.c), which shows the tree.                 *)
(*                                                                         *)
(* A walk yields a sequence of pieces.  Those of Reconstruct are the       *)
(* tokens it writes; those of Show the names and numbers it shows, its    *)
(* labels and locations left out.  What goes wrong on the way is a piece   *)
(* too: "ABORT" for assert(0), "CRASH" for following NULL, "UNWRITTEN" for *)
(* using a field nobody wrote.                                             *)
(*                                                                         *)
(* A node only refers to nodes built before it.  What a walk yields for    *)
(* node n is given by an operator of n and of t, what it yields for the    *)
(* nodes before n, and a table of all nodes ties the two together.         *)
(***************************************************************************)
EXTENDS AstBuilder

Lit(sym) == <<Piece(sym, NULL)>>
Fault(kind, where) == <<Piece(kind, where)>>

\* printf of a String_View, or of an operator.
Text(at) == IF at = Unwritten THEN Fault("UNWRITTEN", "TypedId.id") ELSE <<TokenPiece(at)>>

\* The operator nodes, whose right operand is of another kind.
Operators == {"LOGIC_DISJ", "LOGIC_CONJ", "RELATE", "MATH_EXPR", "TERM"}

Stars(depth) ==
  LET stars[n \in 0..depth] == IF n = 0 THEN <<>> ELSE Append(stars[n - 1], Piece("MUL", NULL))
  IN stars[depth]

\* printf of an int with %d.  The tokenizer knows no sign: a negative number
\* comes back as two tokens.  A number written as it was is the token it was
\* read from.
Decimal(v, at) ==
  IF v < 0 THEN Lit("MINUS") \o Lit("DECIMAL_LIT")
  ELSE IF TypeOf(at) = "DECIMAL_LIT" /\ literals[at] = [value |-> v, plain |-> TRUE] THEN <<TokenPiece(at)>>
  ELSE Lit("DECIMAL_LIT")

Earlier(t, n) == [m \in 1..(n - 1) |-> t[m]]

\* while (curr) { ...; curr = curr->next; if (curr) separator }
WalkList(t, p, separator) ==
  LET walk[c \in DOMAIN cells] ==
        t[cells[c].item] \o
        CASE cells[c].next \in DOMAIN cells -> separator \o walk[cells[c].next]
          [] cells[c].next = NULL -> <<>>
          [] OTHER -> Fault("UNWRITTEN", "next")
  IN IF p = NULL THEN <<>> ELSE walk[p]

-----------------------------------------------------------------------------
Separator(sym) == IF sym = "STATEMENT_LIST" THEN <<>> ELSE Lit("COMMA")

ReconstructList(t, sym, p) == WalkList(t, p, Separator(sym))

ReconstructType(t, v) ==
  CASE v.type = "ID" -> Text(v.id) \o Stars(v.pointerDepth)
    [] v.type = "NONE" -> Lit("UNDERSCORE")
    [] v.type = "ARRAY" ->
         Lit("LBRK") \o Text(v.id) \o Lit("SEMI") \o ReconstructList(t, "EXPRESSION_LIST", v.exprList) \o Lit("RBRK")
    [] v.type = "NESTED" -> Fault("ABORT", "vartype")

\* A node of two operands is put in parentheses, and the parentheses of the
\* source are not repeated.
ReconstructNode(t, n) ==
  LET v   == tree[n].is
      sym == tree[n].sym
  IN CASE sym \in Operators ->
            IF v.binary THEN Lit("LP") \o t[v.left] \o Text(v.op) \o t[v.right] \o Lit("RP") ELSE t[v.right]
       [] sym = "EXPRESSION" -> t[v]
       [] sym = "FACTOR" ->
            CASE v.type = "ID" -> Text(v.is)
              [] v.type = "STR" -> Fault("ABORT", "factor")
              [] OTHER -> t[v.is]
       [] sym = "NUMBER" -> Decimal(v, tree[n].from)
       [] sym = "HEADER" -> Lit("MODULE") \o Text(v)
       [] sym = "VAR_TYPE" -> ReconstructType(t, v)
       [] sym = "TYPED_ID" -> Text(v.id) \o Lit("COLON") \o t[v.type]
       [] sym = "DEREF" -> Text(v.id) \o Lit("LBRK") \o ReconstructList(t, "EXPRESSION_LIST", v.exprList) \o Lit("RBRK")
       [] sym = "FUNC_CALL" -> Text(v.id) \o Lit("LP") \o ReconstructList(t, "EXPRESSION_LIST", v.exprList) \o Lit("RP")
       [] sym = "FUNC_HEADER" -> ReconstructList(t, "TYPED_ID_LIST", v.params) \o Lit("ARROW") \o t[v.returnType]
       [] sym = "BLOCK" -> Lit("LBRC") \o ReconstructList(t, "STATEMENT_LIST", v) \o Lit("RBRC")
       [] sym = "NT_IF" -> Lit("IF") \o t[v.expr] \o t[v.block]
       [] sym = "ASSIGNMENT" -> (IF v.typed THEN t[v.id] ELSE Text(v.id)) \o Lit("EQ") \o t[v.expr]
       [] sym = "STATEMENT" -> (IF v.type = "RETURN" THEN Lit("RETURN") ELSE <<>>) \o t[v.is]
       [] sym = "FUNCTION" -> Text(v.id) \o Lit("EQ") \o t[v.header] \o t[v.block]

Reconstructions ==
  LET text[n \in DOMAIN tree] == ReconstructNode(Earlier(text, n), n) IN text

\* The switch of ast_util_reconstruct_ast_node.
Reconstruct(sym, v) ==
  CASE sym \in ListKinds -> ReconstructList(Reconstructions, sym, v)
    [] sym \in NonTerminals \ ListKinds -> Reconstructions[v]
    [] OTHER -> Fault("ABORT", "ast_node")

-----------------------------------------------------------------------------
ShowList(t, sym, p) == IF p = NULL THEN Fault("CRASH", sym) ELSE WalkList(t, p, <<>>)

\* The fields of a nested type were never written.
ShowType(t, v) ==
  CASE v.type = "ID" -> Text(v.id)
    [] v.type = "NONE" -> <<>>
    [] v.type = "ARRAY" -> Text(v.id) \o ShowList(t, "EXPRESSION_LIST", v.exprList)
    [] v.type = "NESTED" -> Fault("UNWRITTEN", "nested")

\* Which of the unwritten fields of an operator node of one operand are used:
\* the left operand of a disjunction and of a sum is looked for whatever the
\* type says, and sums and terms show their operator.
ShowUnwritten(sym) ==
  CASE sym = "LOGIC_DISJ" -> Fault("UNWRITTEN", "disj")
    [] sym = "MATH_EXPR" -> Fault("UNWRITTEN", "op") \o Fault("UNWRITTEN", "left")
    [] sym = "TERM" -> Fault("UNWRITTEN", "op")
    [] OTHER -> <<>>

ShowNode(t, n) ==
  LET v   == tree[n].is
      sym == tree[n].sym
  IN CASE sym \in Operators -> (IF v.binary THEN t[v.left] ELSE ShowUnwritten(sym)) \o t[v.right]
       [] sym = "EXPRESSION" -> t[v]
       [] sym = "FACTOR" -> IF v.type \in {"ID", "STR"} THEN Text(v.is) ELSE t[v.is]
       [] sym = "NUMBER" -> Decimal(v, tree[n].from)
       [] sym = "HEADER" -> Text(v)
       [] sym = "VAR_TYPE" -> ShowType(t, v)
       [] sym = "TYPED_ID" -> Text(v.id) \o t[v.type]
       [] sym \in {"DEREF", "FUNC_CALL"} -> Text(v.id) \o ShowList(t, "EXPRESSION_LIST", v.exprList)
       [] sym = "FUNC_HEADER" -> ShowList(t, "TYPED_ID_LIST", v.params) \o t[v.returnType]
       [] sym = "BLOCK" -> IF v = NULL THEN <<>> ELSE ShowList(t, "STATEMENT_LIST", v)
       [] sym = "NT_IF" -> t[v.expr] \o t[v.block]
       [] sym = "ASSIGNMENT" -> (IF v.typed THEN t[v.id] ELSE Text(v.id)) \o t[v.expr]
       [] sym = "STATEMENT" -> t[v.is]
       [] sym = "FUNCTION" -> Text(v.id) \o t[v.header] \o t[v.block]

Showings ==
  LET shown[n \in DOMAIN tree] == ShowNode(Earlier(shown, n), n) IN shown

\* The switch of ast_print_node, which has nothing for tokens.
Show(sym, v) ==
  CASE sym \in ListKinds -> ShowList(Showings, sym, v)
    [] sym \in NonTerminals \ ListKinds -> Showings[v]
    [] OTHER -> <<>>
=============================================================================
