------------------------------ MODULE AstTree ------------------------------
(***************************************************************************)
(* What the tree of AstBuilder should be: for every kind of node of ast.h, *)
(* what its fields are in terms of the tokens it was built from.  Nothing  *)
(* here looks at the reductions; they are what this is to be compared      *)
(* with.                                                                   *)
(*                                                                         *)
(* The operators take the store g that a node is part of, so that one can  *)
(* speak of a node before and after a reduction.                           *)
(***************************************************************************)
EXTENDS AstWalk

\* The last cell of the list that a cell belongs to.
LastOf(c) ==
  LET last[p \in DOMAIN c] == IF c[p].next \in DOMAIN c THEN last[c[p].next] ELSE p
  IN last

\* What the nodes are made of: the tokens, the tree, the cells, and the lists of
\* the stack, to which a cell may still be appended.
Lists == {values[i] : i \in {j \in 1..Depth : stack[j].sym \in ListKinds}}
Store == [input |-> input, literals |-> literals, tree |-> tree, cells |-> cells, lists |-> Lists]

Kind(g, i) == IF i \in 1..Len(g.input) THEN g.input[i] ELSE "EOF"
Last(g, p) == LastOf(g.cells)[p]

\* What a list is made of, and what an operator node has on its right.
Element(sym) ==
  CASE sym = "TYPED_ID_LIST" -> "TYPED_ID"
    [] sym = "EXPRESSION_LIST" -> "EXPRESSION"
    [] OTHER -> "STATEMENT"

Operand(sym) ==
  CASE sym = "LOGIC_DISJ" -> "LOGIC_CONJ"
    [] sym = "LOGIC_CONJ" -> "RELATE"
    [] sym = "RELATE" -> "MATH_EXPR"
    [] sym = "MATH_EXPR" -> "TERM"
    [] OTHER -> "FACTOR"

\* v is the token at a; the node, built before node n, of the tokens a..b; a
\* list of such nodes.
Leaf(g, v, syms, a) == v = a /\ Kind(g, a) \in syms

Part(g, n, v, sym, a, b) ==
  v \in 1..(n - 1) /\ g.tree[v].sym = sym /\ g.tree[v].from = a /\ g.tree[v].to = b

ListAt(g, n, sym, h, a, b) ==
  /\ h \in DOMAIN g.cells
  /\ \A p \in DOMAIN g.cells : Last(g, p) = Last(g, h) =>
       g.cells[p].item \in 1..(n - 1) /\ g.tree[g.cells[p].item].sym = Element(sym)
  /\ g.tree[g.cells[h].item].from = a
  /\ g.tree[g.cells[Last(g, h)].item].to = b

\* No list of the stack, and so no append, leads into the list of h.
Frozen(g, h) == \A l \in g.lists : Last(g, l) # Last(g, h)

Held(g, n, sym, h, a, b) == ListAt(g, n, sym, h, a, b) /\ Frozen(g, h)

OperatorTokens == {"LOR", "LAND"} \cup Relops \cup Addops \cup Mulops

\* The fields of each kind of node, and the tokens around its parts.
FormedOperator(g, n, sym, v, a, b) ==
  \/ /\ v.binary = TRUE
     /\ Part(g, n, v.left, sym, a, v.op - 1)
     /\ Leaf(g, v.op, OperatorTokens, v.op)
     /\ Part(g, n, v.right, Operand(sym), v.op + 1, b)
  \/ v.binary = FALSE /\ Part(g, n, v.right, Operand(sym), a, b)

FormedFactor(g, n, v, a, b) ==
  \/ v.type = "ID" /\ a = b /\ Leaf(g, v.is, {"ID"}, a)
  \/ v.type = "NUMBER" /\ Part(g, n, v.is, "NUMBER", a, b)
  \/ v.type = "STR" /\ a = b /\ Leaf(g, v.is, {"STRING_LIT"}, a)
  \/ v.type = "EXPR" /\ Kind(g, a) = "LP" /\ Part(g, n, v.is, "EXPRESSION", a + 1, b - 1) /\ Kind(g, b) = "RP"
  \/ v.type = "FUNC_CALL" /\ Part(g, n, v.is, "FUNC_CALL", a, b)
  \/ v.type = "DEREF" /\ Part(g, n, v.is, "DEREF", a, b)

FormedNumber(g, v, a, b) ==
  /\ a = b
  /\ \/ Kind(g, a) = "DECIMAL_LIT" /\ v = ToInt(g.literals[a].value)
     \/ Kind(g, a) = "HEX_LIT" /\ v = 0

\* The type itself ends before its stars.
FormedType(g, n, v, a, b) ==
  /\ v = [type |-> v.type, id |-> v.id, exprList |-> v.exprList, pointerDepth |-> v.pointerDepth]
  /\ v.pointerDepth \in Nat
  /\ \A i \in (b - v.pointerDepth + 1)..b : Kind(g, i) = "MUL"
  /\ LET e == b - v.pointerDepth IN
     \/ v.type = "ID" /\ a = e /\ Leaf(g, v.id, IdTokens, a) /\ Kind(g, a - 1) \in {"COLON", "ARROW"}
     \/ v.type = "NONE" /\ a = e /\ Kind(g, a) = "UNDERSCORE" /\ Kind(g, a + 1) = "ARROW"
     \/ /\ v.type = "ARRAY" /\ Kind(g, a) = "LBRK" /\ Leaf(g, v.id, IdTokens, a + 1) /\ Kind(g, a + 2) = "SEMI"
        /\ Held(g, n, "EXPRESSION_LIST", v.exprList, a + 3, e - 1) /\ Kind(g, e) = "RBRK"
     \/ v.type = "NESTED" /\ Kind(g, a) = "LBRK" /\ Kind(g, a + 1) = "LBRK" /\ a < e

FormedTypedId(g, n, v, a, b) ==
  \/ v.id = Unwritten /\ Part(g, n, v.type, "VAR_TYPE", a, b)
  \/ Leaf(g, v.id, IdTokens, a) /\ Kind(g, a + 1) = "COLON" /\ Part(g, n, v.type, "VAR_TYPE", a + 2, b)

FormedDeref(g, n, v, a, b) ==
  /\ Leaf(g, v.id, IdTokens, a) /\ Kind(g, a + 1) = "LBRK"
  /\ Held(g, n, "EXPRESSION_LIST", v.exprList, a + 2, b - 1) /\ Kind(g, b) = "RBRK"

FormedCall(g, n, v, a, b) ==
  /\ Leaf(g, v.id, IdTokens, a) /\ Kind(g, a + 1) = "LP"
  /\ \/ v.exprList = NULL /\ b = a + 2
     \/ Held(g, n, "EXPRESSION_LIST", v.exprList, a + 2, b - 1)
  /\ Kind(g, b) = "RP"

FormedFuncHeader(g, n, v, a, b) ==
  \E c \in a..b : /\ Held(g, n, "TYPED_ID_LIST", v.params, a, c) /\ Kind(g, c + 1) = "ARROW"
                 /\ Part(g, n, v.returnType, "VAR_TYPE", c + 2, b)

FormedIf(g, n, v, a, b) ==
  /\ Kind(g, a) = "IF"
  /\ \E c \in a..b : Part(g, n, v.expr, "EXPRESSION", a + 1, c) /\ Part(g, n, v.block, "BLOCK", c + 1, b)

FormedAssignment(g, n, v, a, b) ==
  \E c \in a..b :
    /\ \/ v.typed = TRUE /\ Part(g, n, v.id, "TYPED_ID", a, c)
       \/ v.typed = FALSE /\ Leaf(g, v.id, IdTokens, a) /\ c = a
    /\ Kind(g, c + 1) = "EQ"
    /\ Part(g, n, v.expr, "EXPRESSION", c + 2, b)

FormedStatement(g, n, v, a, b) ==
  \/ v.type = "ASSIGN" /\ Part(g, n, v.is, "ASSIGNMENT", a, b)
  \/ v.type = "NT_IF" /\ Part(g, n, v.is, "NT_IF", a, b)
  \/ v.type = "RETURN" /\ Kind(g, a) = "RETURN" /\ Part(g, n, v.is, "EXPRESSION", a + 1, b)
  \/ v.type = "EXPR" /\ Part(g, n, v.is, "EXPRESSION", a, b)

FormedBlock(g, n, v, a, b) ==
  /\ Kind(g, a) = "LBRC" /\ Kind(g, b) = "RBRC"
  /\ \/ v = NULL /\ b = a + 1
     \/ Held(g, n, "STATEMENT_LIST", v, a + 1, b - 1)

FormedFunction(g, n, v, a, b) ==
  /\ Leaf(g, v.id, IdTokens, a) /\ Kind(g, a + 1) = "EQ"
  /\ \E c \in a..b : Part(g, n, v.header, "FUNC_HEADER", a + 2, c) /\ Part(g, n, v.block, "BLOCK", c + 1, b)

\* v is what the node n, of the tokens a..b, holds.
Formed(g, n, sym, v, a, b) ==
  /\ sym \in NonTerminals \ ListKinds
  /\ sym \in Operators => FormedOperator(g, n, sym, v, a, b)
  /\ sym = "EXPRESSION" => Part(g, n, v, "LOGIC_DISJ", a, b)
  /\ sym = "FACTOR" => FormedFactor(g, n, v, a, b)
  /\ sym = "NUMBER" => FormedNumber(g, v, a, b)
  /\ sym = "HEADER" => b = a + 1 /\ Kind(g, a) = "MODULE" /\ Leaf(g, v, Tokens \ {"DECIMAL_LIT", "HEX_LIT"}, b)
  /\ sym = "VAR_TYPE" => FormedType(g, n, v, a, b)
  /\ sym = "TYPED_ID" => FormedTypedId(g, n, v, a, b)
  /\ sym = "DEREF" => FormedDeref(g, n, v, a, b)
  /\ sym = "FUNC_CALL" => FormedCall(g, n, v, a, b)
  /\ sym = "FUNC_HEADER" => FormedFuncHeader(g, n, v, a, b)
  /\ sym = "BLOCK" => FormedBlock(g, n, v, a, b)
  /\ sym = "NT_IF" => FormedIf(g, n, v, a, b)
  /\ sym = "ASSIGNMENT" => FormedAssignment(g, n, v, a, b)
  /\ sym = "STATEMENT" => FormedStatement(g, n, v, a, b)
  /\ sym = "FUNCTION" => FormedFunction(g, n, v, a, b)

\* The first and the last token of a node, and the one behind it.
ExprKinds == Operators \cup {"EXPRESSION", "FACTOR", "NUMBER", "DEREF", "FUNC_CALL"}

Edges(g, sym, a, b) ==
  /\ a \in 1..b /\ b \in 1..Len(g.input)
  /\ sym \in ExprKinds => Kind(g, a) \notin {"LBRK", "RP"}
  /\ sym # "HEADER" => /\ Kind(g, b) \notin {"LBRK", "LP"}
                       /\ Kind(g, b) \in IdTokens => Kind(g, b + 1) # "LP"

\* A node of the tree, and all of them.
NodeFormed(g, n, v) == Formed(g, n, v.sym, v.is, v.from, v.to) /\ Edges(g, v.sym, v.from, v.to)

TreeFormed == \A n \in DOMAIN tree : NodeFormed(Store, n, tree[n])

\* Next to each other in a list.
Joined(g, sym, b, a) ==
  IF sym = "STATEMENT" THEN a = b + 1 ELSE Kind(g, b + 1) = "COMMA" /\ a = b + 2

ItemsJoined(g, u, w) == w.sym = u.sym /\ Joined(g, u.sym, u.to, w.from)

CellFormed(g, p) ==
  /\ g.cells[p].item \in DOMAIN g.tree
  /\ g.tree[g.cells[p].item].sym \in {"TYPED_ID", "EXPRESSION", "STATEMENT"}
  /\ g.cells[p].next \in DOMAIN g.cells =>
       ItemsJoined(g, g.tree[g.cells[p].item], g.tree[g.cells[g.cells[p].next].item])

CellsFormed == \A p \in DOMAIN cells : CellFormed(Store, p)

-----------------------------------------------------------------------------
(* Property. *)

\* Every node and every cell that lalr_reduce has built, in any input, right or
\* wrong, is made of the parts that its tokens are made of: its fields refer to
\* the nodes built from the stretches of the input where its production has
\* them, a list has the elements of its stretch, in their order and all of
\* them, and no append reaches into a list that is already part of a node.
TreeWellFormed == TreeFormed /\ CellsFormed
=============================================================================
