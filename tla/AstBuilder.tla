----------------------------- MODULE AstBuilder -----------------------------
(***************************************************************************)
(* What the reductions of lalr_reduce (src/lalr.c) put into the nodes of   *)
(* ast.h, on top of LalrParser, which only knows the kind of a node.       *)
(*                                                                         *)
(* The nodes are written once and never again, so it makes no difference   *)
(* which of them are held by value and which by pointer: tree has them all *)
(* in the order they were built, and a node refers to another by its       *)
(* index.  The cells of the three lists are linked one behind the other    *)
(* and changed afterwards; they live in a heap of their own, in the order  *)
(* of their allocation, and a pointer is an index.  values[i] says where   *)
(* stack[i] is: the position of a token in the input (its text), the index *)
(* of a node, or for a list the pointer to its first cell.                 *)
(*                                                                         *)
(* Like a node of the stack, one of the tree is kept with the tokens it    *)
(* was built from (from..to).                                              *)
(*                                                                         *)
(* arena_alloc does not clear what it returns: a field that no reduction   *)
(* writes holds Unwritten.  What reading one yields is not determined; it  *)
(* is NULL where the memory is fresh from the system.                      *)
(*                                                                         *)
(* Of the texts of the tokens only the decimal literals matter: value is   *)
(* what number_parse_integer_base answers (NumberParser), a long, and      *)
(* plain says that the text is that number in the usual notation, which is *)
(* not so of 007 or of one that the answer does not come out right for.    *)
(***************************************************************************)
EXTENDS LalrParser, Integers

CONSTANTS
  Literals,      \* the decimal literals considered
  IntLimit,      \* an int is below 2^31
  Unwritten      \* the contents of a field nobody wrote

NULL == 0
ASSUME UnwrittenAssumption == Unwritten \notin Nat

ASSUME LiteralsAssumption ==
  /\ Literals \subseteq [value : Int, plain : BOOLEAN]
  /\ \A x \in Literals : x.plain => x.value \in Nat
  /\ IntLimit \in Nat \ {0}

VARIABLES
  literals,      \* the decimal literals of the input, by their positions
  values,        \* where the nodes on the stack are
  tree,          \* the nodes built so far, lists aside
  cells,         \* TypedIdList, ExpressionList and StatementList in the arena
  curr,          \* the loop variable of an append, NULL outside the loop
  defined        \* FALSE once something not determined has been followed

buildVars == <<input, pos, lookahead, stack, phase, literals, values, tree, cells, curr, defined>>

ListKinds == {"TYPED_ID_LIST", "EXPRESSION_LIST", "STATEMENT_LIST"}

\* The decimal literals that a sequence of tokens may have.
Spellings(w) == [{i \in DOMAIN w : w[i] = "DECIMAL_LIT"} -> Literals]

\* Where peeked[n] is.
Value(n) == values[Depth - n]

-----------------------------------------------------------------------------
(* Lists. *)

\* lines of the branches that walk to the end of a list, and of those that
\* allocate the first cell of one
Appending == {195, 506, 703}
Starting == {130, 212, 526, 558, 610, 641, 720}

\* Variant: arena_alloc hands out the last cell again.
NewCellReused == Len(cells)

NewCell == Len(cells) + 1
NewNode == Len(tree) + 1

\* What a new cell holds: one of the nodes of the handle, or the typed id that
\* line 641 makes for it.
ItemOf(r) ==
  CASE r.at = 641 -> NewNode
    [] r.at \in {130, 558, 610} -> Value(1)
    [] OTHER -> Value(0)

NextOf(r) == IF r.at \in {212, 526} THEN Unwritten ELSE NULL

\* Where an append stands: curr, which starts at the first cell.
Stand(r) == IF curr = NULL THEN Value(Len(r.rhs) - 1) ELSE curr
After(r) == cells[Stand(r)].next

\* Variant: the link set to where the cell after the next will be.
HungBeyond(p) == [cells EXCEPT ![p].next = NewCell + 1]

\* curr->next = the cell about to be allocated
Hung(p) == [cells EXCEPT ![p].next = NewCell]

CellsWith(r) ==
  LET cell == [item |-> ItemOf(r), next |-> NextOf(r)]
  IN CASE r.at \in Appending -> Append(Hung(Stand(r)), cell)
       [] r.at \in Starting -> Append(cells, cell)
       [] OTHER -> cells

-----------------------------------------------------------------------------
(* Payloads. *)

\* A piece of text: the kind of token it is, and the token it was copied from
\* (NULL when there is none).
Piece(sym, at) == [sym |-> sym, at |-> at]
TokenPiece(at) == Piece(input[at], at)

\* Variant: a type that does not start from zeros.
ZeroTypeOneStar == [type |-> "ID", id |-> NULL, exprList |-> NULL, pointerDepth |-> 1]

ZeroType == [type |-> "ID", id |-> NULL, exprList |-> NULL, pointerDepth |-> 0]

\* The type inside the brackets and its list are dropped: the VarType that
\* nested points to is allocated and left as it is.
TypePayload(r) ==
  CASE r.at \in {84, 94} -> [ZeroType EXCEPT !.id = Value(0)]
    [] r.at = 105 -> [ZeroType EXCEPT !.type = "NONE"]
    [] r.at = 115 -> [ZeroType EXCEPT !.type = "ARRAY", !.id = Value(3), !.exprList = Value(1)]
    [] r.at = 130 -> [ZeroType EXCEPT !.type = "ARRAY", !.id = Value(3), !.exprList = NewCell]
    [] r.at = 148 -> [ZeroType EXCEPT !.type = "NESTED"]
    [] r.at = 162 -> [tree[Value(1)].is EXCEPT !.pointerDepth = @ + 1]

\* A long put into an int keeps its last bits.
ToInt(x) ==
  LET low == x % (2 * IntLimit) IN IF low < IntLimit THEN low ELSE low - 2 * IntLimit

\* number.i is an int.  A hexadecimal literal is read as 0 (NumberParser).
NumberPayload(r) == IF r.at = 42 THEN ToInt(literals[Value(0)].value) ELSE 0

FactorPayload(r) ==
  CASE r.at = 231 -> [type |-> "ID", is |-> Value(0)]
    [] r.at = 242 -> [type |-> "NUMBER", is |-> Value(0)]
    [] r.at = 252 -> [type |-> "STR", is |-> Value(0)]
    [] r.at = 261 -> [type |-> "EXPR", is |-> Value(1)]
    [] r.at = 273 -> [type |-> "FUNC_CALL", is |-> Value(0)]
    [] r.at = 282 -> [type |-> "DEREF", is |-> Value(0)]

\* Variant: the operands of an operator exchanged.
OperatorPayloadSwapped(r) ==
  IF Len(r.rhs) = 3
    THEN [binary |-> TRUE, left |-> Value(0), op |-> Value(1), right |-> Value(2)]
    ELSE [binary |-> FALSE, left |-> IF r.lhs = "TERM" THEN NULL ELSE Unwritten,
          op |-> Unwritten, right |-> Value(0)]

\* Term, MathExpression, Relational, LogicalConj and LogicalDisj: of one
\* operand, only Term has its left operand cleared.
OperatorPayload(r) ==
  IF Len(r.rhs) = 3
    THEN [binary |-> TRUE, left |-> Value(2), op |-> Value(1), right |-> Value(0)]
    ELSE [binary |-> FALSE, left |-> IF r.lhs = "TERM" THEN NULL ELSE Unwritten,
          op |-> Unwritten, right |-> Value(0)]

\* Variant: the name looked for one place too high in the handle.
SubscriptPayloadShifted(r) ==
  [id |-> Value(2),
   exprList |-> CASE r.at = 599 -> NULL [] r.at \in Starting -> NewCell [] OTHER -> Value(1)]

\* Variant: the list of a single argument allocated and not kept.
SubscriptPayloadDropped(r) ==
  [id |-> Value(Len(r.rhs) - 1),
   exprList |-> IF r.at \in {599, 610} THEN NULL ELSE IF r.at \in Starting THEN NewCell ELSE Value(1)]

SubscriptPayload(r) ==
  [id |-> Value(Len(r.rhs) - 1),
   exprList |-> CASE r.at = 599 -> NULL [] r.at \in Starting -> NewCell [] OTHER -> Value(1)]

StatementPayload(r) ==
  CASE r.at = 741 -> [type |-> "ASSIGN", is |-> Value(0)]
    [] r.at = 749 -> [type |-> "NT_IF", is |-> Value(0)]
    [] r.at = 757 -> [type |-> "RETURN", is |-> Value(0)]
    [] r.at \in {767, 775} -> [type |-> "EXPR", is |-> Value(0)]

\* What the node built by a rule holds.
Payload(r) ==
  CASE r.lhs = "NUMBER" -> NumberPayload(r)
    [] r.lhs \in {"HEADER", "EXPRESSION"} -> Value(0)
    [] r.lhs = "VAR_TYPE" -> TypePayload(r)
    [] r.lhs = "TYPED_ID" -> [id |-> Value(2), type |-> Value(0)]
    [] r.lhs = "FACTOR" -> FactorPayload(r)
    [] r.lhs \in {"TERM", "MATH_EXPR", "RELATE", "LOGIC_CONJ", "LOGIC_DISJ"} -> OperatorPayload(r)
    [] r.lhs \in {"DEREF", "FUNC_CALL"} -> SubscriptPayload(r)
    [] r.lhs = "FUNC_HEADER" -> [params |-> IF r.at = 641 THEN NewCell ELSE Value(2), returnType |-> Value(0)]
    [] r.lhs = "NT_IF" -> [expr |-> Value(1), block |-> Value(0)]
    [] r.lhs = "ASSIGNMENT" -> [typed |-> r.at = 676, id |-> Value(2), expr |-> Value(0)]
    [] r.lhs = "STATEMENT" -> StatementPayload(r)
    [] r.lhs = "BLOCK" -> IF r.at = 791 THEN NULL ELSE Value(1)
    [] r.lhs = "FUNCTION" -> [id |-> Value(3), header |-> Value(1), block |-> Value(0)]

Made(sym, from, to, is) == [sym |-> sym, from |-> from, to |-> to, is |-> is]
Finished(r) == Made(r.lhs, Built(r).from, Built(r).to, Payload(r))

\* The typed id made for a parameter list that is only a type has no name.
Unnamed == Made("TYPED_ID", stack[Depth - 2].from, stack[Depth - 2].to, [id |-> Unwritten, type |-> Value(2)])

TreeWith(r) ==
  IF r.lhs \in ListKinds THEN tree
  ELSE IF r.at = 641 THEN tree \o <<Unnamed, Finished(r)>>
  ELSE Append(tree, Finished(r))

\* Where the answer of a rule is: an append answers the list it was given.
Answer(r) ==
  IF r.at \in Appending THEN Value(Len(r.rhs) - 1)
  ELSE IF r.lhs \in ListKinds THEN NewCell
  ELSE Len(TreeWith(r))

-----------------------------------------------------------------------------
BuildInit ==
  /\ Init
  /\ literals \in Spellings(input)
  /\ values = <<>>
  /\ tree = <<>>
  /\ cells = <<>>
  /\ curr = NULL
  /\ defined = TRUE

\* lalr_reduce_tok_to_term
BuildShift ==
  /\ Shift
  /\ values' = Append(values, pos + 1)
  /\ UNCHANGED <<literals, tree, cells, curr, defined>>

\* while (curr->next) curr = curr->next;
Walk(r) ==
  /\ r.at \in Appending
  /\ After(r) \notin {NULL, Unwritten}
  /\ curr' = After(r)
  /\ UNCHANGED <<stack, values, tree, cells, defined>>

\* The walk follows a pointer that was never written.
WalkAstray(r) ==
  /\ r.at \in Appending
  /\ After(r) = Unwritten
  /\ defined' = FALSE
  /\ UNCHANGED <<stack, values, tree, cells, curr>>

\* Variant: an append that goes on where the last one stopped.
BuildKeepsCurr(r) ==
  /\ r.at \in Appending => After(r) \in {NULL, Unwritten}
  /\ Apply(r)
  /\ values' = Push(PopN(values, r.pops), Answer(r))
  /\ tree' = TreeWith(r)
  /\ cells' = CellsWith(r)
  /\ UNCHANGED <<curr, defined>>

Build(r) ==
  /\ r.at \in Appending => After(r) \in {NULL, Unwritten}
  /\ Apply(r)
  /\ values' = Push(PopN(values, r.pops), Answer(r))
  /\ tree' = TreeWith(r)
  /\ cells' = CellsWith(r)
  /\ curr' = NULL
  /\ UNCHANGED defined

BuildReduce ==
  /\ phase = "reduce"
  /\ \E r \in Takeable : Walk(r) \/ WalkAstray(r) \/ Build(r)
  /\ UNCHANGED <<input, pos, lookahead, phase, literals>>

BuildRest ==
  /\ Overflow \/ NothingToReduce \/ Finish
  /\ UNCHANGED <<literals, values, tree, cells, curr, defined>>

BuildStep ==
  /\ defined
  /\ BuildShift \/ BuildReduce \/ BuildRest

BuildTerminated ==
  /\ phase \in {"done", "overrun"} \/ ~defined
  /\ UNCHANGED buildVars

BuildSpec == BuildInit /\ [][BuildStep \/ BuildTerminated]_buildVars

-----------------------------------------------------------------------------
(* Properties. *)

\* Every node of the stack is somewhere: a node of the tree is of its kind, and
\* a list that holds something starts at a cell.  A pointer that was written
\* leads to a cell that has been allocated.
BuildTypeOK ==
  /\ Len(values) = Depth
  /\ \A i \in 1..Depth : stack[i].sym \in NonTerminals \ ListKinds =>
        values[i] \in DOMAIN tree /\ tree[values[i]].sym = stack[i].sym
  /\ \A p \in DOMAIN cells : cells[p].next \in {NULL, Unwritten} \cup DOMAIN cells
  /\ curr \in {NULL} \cup DOMAIN cells
  /\ defined \in BOOLEAN

\* An append moves along a list it finds on the stack and writes into its last
\* cell; the list it came from and the list it answers are the same.  That is
\* safe, and the walk ends, because every cell is in one list only: next leads
\* to a younger cell, no two cells lead to the same one, and the lists on the
\* stack start at different cells that no other cell leads to.
ListsOwned ==
  LET pointers == DOMAIN cells
      next(p)  == cells[p].next
      lists    == {i \in 1..Depth : stack[i].sym \in ListKinds}
  IN /\ \A p \in pointers : next(p) \in pointers => next(p) > p
     /\ \A p, q \in pointers : p # q /\ next(p) \in pointers => next(p) # next(q)
     /\ \A i \in lists : values[i] \in pointers /\ \A p \in pointers : next(p) # values[i]
     /\ \A i, j \in lists : i # j => values[i] # values[j]

\* The inner loop of parse does not run on in a list: as long as what is
\* followed was written, a step of it finishes a reduction, which leaves less
\* to do, or takes an append on to a younger cell and changes nothing else.
WalkAdvances ==
  [][phase = "reduce" /\ phase' = "reduce" /\ defined' =>
       \/ Remaining' < Remaining /\ curr' = NULL
       \/ /\ UNCHANGED <<stack, values, tree, cells>>
          /\ curr' > curr
          /\ curr' \in DOMAIN cells]_buildVars
=============================================================================
