-------------------------- MODULE AstBuilderProofs --------------------------
(***************************************************************************)
(* Proofs about AstBuilder and AstTree, for every set of inputs and every  *)
(* stack size.  The builder implements LalrParser, so all that is proved   *)
(* of the parser holds of it too; the lists it builds never share a cell;  *)
(* and every node and every cell is made of the parts that its text is     *)
(* made of, each with its stretch of the text: the invariant of the tree,  *)
(* from which DriverProofs proves what the walks over the tree write.      *)
(***************************************************************************)
EXTENDS AstTree, LalrParserProofs, NaturalNumbers

(***************************************************************************)
(* FIRST PART.  AstBuilder: the refinement, and the lists.                 *)
(***************************************************************************)

-----------------------------------------------------------------------------
(* AstBuilder implements LalrParser. *)

\* A step of the builder is a step of the parser, or, while an append walks
\* along its list, none.
LEMMA BuildStepIsNext == BuildStep \/ BuildTerminated \/ UNCHANGED buildVars => [Next]_vars
  <1>1. BuildShift => Next
    BY DEF BuildShift, Next
  <1>2. BuildReduce => [Next]_vars
    <2> SUFFICES ASSUME BuildReduce PROVE [Next]_vars
      OBVIOUS
    <2>1. PICK r \in Takeable : Walk(r) \/ WalkAstray(r) \/ Build(r)
      BY DEF BuildReduce
    <2>2. phase = "reduce" /\ UNCHANGED <<input, pos, lookahead, phase, literals>>
      BY DEF BuildReduce
    <2>3. CASE Walk(r) \/ WalkAstray(r)
      BY <2>2, <2>3 DEF Walk, WalkAstray, vars
    <2>4. CASE Build(r)
      BY <2>2, <2>4 DEF Build, Reduce, Next
    <2> QED
      BY <2>1, <2>3, <2>4
  <1>3. BuildRest => Next
    BY DEF BuildRest, Next
  <1>4. BuildTerminated \/ UNCHANGED buildVars => UNCHANGED vars
    BY DEF BuildTerminated, buildVars, vars
  <1> QED
    BY <1>1, <1>2, <1>3, <1>4 DEF BuildStep

\* Whatever the builder does, seen without its payloads, is a behaviour of the
\* parser: building the nodes adds steps to the parse loop, and changes none.
THEOREM BuilderImplementsParser == BuildSpec => Spec
  <1>1. BuildInit => Init
    BY DEF BuildInit
  <1>2. [BuildStep \/ BuildTerminated]_buildVars => [Next]_vars
    BY BuildStepIsNext
  <1> QED
    BY <1>1, <1>2, PTL DEF BuildSpec, Spec
-----------------------------------------------------------------------------
(* The catalogue of the rules: what is built of what, line by line.         *)

Is(r, at, lhs, rhs) == r.at = at /\ r.lhs = lhs /\ r.rhs = rhs

NumberRule(r) ==
  \/ Is(r, 42, "NUMBER", <<{"DECIMAL_LIT"}>>)
  \/ Is(r, 49, "NUMBER", <<{"HEX_LIT"}>>)

HeaderRule(r) == Is(r, 64, "HEADER", <<{"MODULE"}, Tokens>>)

TypeNameRule(r) ==
  \/ Is(r, 84, "VAR_TYPE", <<Id>>) /\ r.under = {"COLON"} /\ r.la = Lookaheads \ {"LP"}
  \/ Is(r, 94, "VAR_TYPE", <<Id>>) /\ r.under = {"ARROW"} /\ r.la = Lookaheads \ {"LP"}
  \/ Is(r, 105, "VAR_TYPE", <<{"UNDERSCORE"}>>) /\ r.la = {"ARROW"}

ArrayTypeRule(r) ==
  \/ Is(r, 115, "VAR_TYPE", <<{"LBRK"}, Id, {"SEMI"}, {"EXPRESSION_LIST"}, {"RBRK"}>>)
  \/ Is(r, 130, "VAR_TYPE", <<{"LBRK"}, Id, {"SEMI"}, {"EXPRESSION"}, {"RBRK"}>>)
  \/ Is(r, 148, "VAR_TYPE", <<{"LBRK"}, {"VAR_TYPE"}, {"SEMI"}, {"EXPRESSION_LIST"}, {"RBRK"}>>)

PointerTypeRule(r) == Is(r, 162, "VAR_TYPE", <<{"VAR_TYPE"}, {"MUL"}>>)

TypedIdRule(r) ==
  \/ Is(r, 177, "TYPED_ID", <<Id, {"COLON"}, {"VAR_TYPE"}>>)
  \/ Is(r, 195, "TYPED_ID_LIST", <<{"TYPED_ID_LIST"}, {"COMMA"}, {"TYPED_ID"}>>)
  \/ Is(r, 212, "TYPED_ID_LIST", <<{"TYPED_ID"}>>)

FactorRule(r) ==
  \/ Is(r, 231, "FACTOR", <<{"ID"}>>) /\ "LP" \notin r.la
  \/ Is(r, 242, "FACTOR", <<{"NUMBER"}>>)
  \/ Is(r, 252, "FACTOR", <<{"STRING_LIT"}>>)
  \/ Is(r, 273, "FACTOR", <<{"FUNC_CALL"}>>)
  \/ Is(r, 282, "FACTOR", <<{"DEREF"}>>)

ParenthesesRule(r) == Is(r, 261, "FACTOR", <<{"LP"}, {"EXPRESSION"}, {"RP"}>>)

TermRule(r) ==
  \/ Is(r, 299, "TERM", <<{"TERM"}, Mulops, {"FACTOR"}>>)
  \/ Is(r, 314, "TERM", <<{"FACTOR"}>>)

MathRule(r) ==
  \/ Is(r, 332, "MATH_EXPR", <<{"MATH_EXPR"}, Addops, {"TERM"}>>)
  \/ Is(r, 350, "MATH_EXPR", <<{"TERM"}>>)

RelationalRule(r) ==
  \/ Is(r, 377, "RELATE", <<{"RELATE"}, Relops, {"MATH_EXPR"}>>)
  \/ Is(r, 399, "RELATE", <<{"MATH_EXPR"}>>)

ConjRule(r) ==
  \/ Is(r, 419, "LOGIC_CONJ", <<{"LOGIC_CONJ"}, {"LAND"}, {"RELATE"}>>)
  \/ Is(r, 435, "LOGIC_CONJ", <<{"RELATE"}>>)

DisjRule(r) ==
  \/ Is(r, 453, "LOGIC_DISJ", <<{"LOGIC_DISJ"}, {"LOR"}, {"LOGIC_CONJ"}>>)
  \/ Is(r, 468, "LOGIC_DISJ", <<{"LOGIC_CONJ"}>>)

ExpressionRule(r) == Is(r, 483, "EXPRESSION", <<{"LOGIC_DISJ"}>>)

ExpressionListRule(r) ==
  \/ Is(r, 506, "EXPRESSION_LIST", <<{"EXPRESSION_LIST"}, {"COMMA"}, {"EXPRESSION"}>>)
  \/ Is(r, 526, "EXPRESSION_LIST", <<{"EXPRESSION"}>>)

DerefRule(r) ==
  \/ Is(r, 542, "DEREF", <<Id, {"LBRK"}, {"EXPRESSION_LIST"}, {"RBRK"}>>)
  \/ Is(r, 558, "DEREF", <<Id, {"LBRK"}, {"EXPRESSION"}, {"RBRK"}>>)

CallRule(r) ==
  \/ Is(r, 584, "FUNC_CALL", <<Id, {"LP"}, {"EXPRESSION_LIST"}, {"RP"}>>)
  \/ Is(r, 599, "FUNC_CALL", <<Id, {"LP"}, {"RP"}>>)
  \/ Is(r, 610, "FUNC_CALL", <<Id, {"LP"}, {"EXPRESSION"}, {"RP"}>>)

FuncHeaderRule(r) ==
  \/ Is(r, 630, "FUNC_HEADER", <<{"TYPED_ID_LIST"}, {"ARROW"}, {"VAR_TYPE"}>>)
  \/ Is(r, 641, "FUNC_HEADER", <<{"VAR_TYPE"}, {"ARROW"}, {"VAR_TYPE"}>>)

IfRule(r) == Is(r, 661, "NT_IF", <<{"IF"}, {"EXPRESSION"}, {"BLOCK"}>>)

AssignmentRule(r) ==
  \/ Is(r, 676, "ASSIGNMENT", <<{"TYPED_ID"}, {"EQ"}, {"EXPRESSION"}>>)
  \/ Is(r, 686, "ASSIGNMENT", <<Id, {"EQ"}, {"EXPRESSION"}>>)

StatementListRule(r) ==
  \/ Is(r, 703, "STATEMENT_LIST", <<{"STATEMENT_LIST"}, {"STATEMENT"}>>)
  \/ Is(r, 720, "STATEMENT_LIST", <<{"STATEMENT"}>>)

StatementRule(r) ==
  \/ Is(r, 741, "STATEMENT", <<{"ASSIGNMENT"}>>)
  \/ Is(r, 749, "STATEMENT", <<{"NT_IF"}>>)
  \/ Is(r, 757, "STATEMENT", <<{"RETURN"}, {"EXPRESSION"}>>)
  \/ Is(r, 767, "STATEMENT", <<{"EXPRESSION"}>>)
  \/ Is(r, 775, "STATEMENT", <<{"EXPRESSION"}>>)

BlockRule(r) ==
  \/ Is(r, 791, "BLOCK", <<{"LBRC"}, {"RBRC"}>>)
  \/ Is(r, 802, "BLOCK", <<{"LBRC"}, {"STATEMENT_LIST"}, {"RBRC"}>>)

FunctionRule(r) == Is(r, 818, "FUNCTION", <<Id, {"EQ"}, {"FUNC_HEADER"}, {"BLOCK"}>>)

LEMMA Catalogue ==
  \A r \in Rules :
    \/ NumberRule(r) \/ HeaderRule(r) \/ TypeNameRule(r) \/ ArrayTypeRule(r)
    \/ PointerTypeRule(r) \/ TypedIdRule(r) \/ FactorRule(r) \/ ParenthesesRule(r)
    \/ TermRule(r) \/ MathRule(r) \/ RelationalRule(r) \/ ConjRule(r)
    \/ DisjRule(r) \/ ExpressionRule(r) \/ ExpressionListRule(r) \/ DerefRule(r)
    \/ CallRule(r) \/ FuncHeaderRule(r) \/ IfRule(r) \/ AssignmentRule(r)
    \/ StatementListRule(r) \/ StatementRule(r) \/ BlockRule(r) \/ FunctionRule(r)
  <1>1. \A r \in NumberRules : NumberRule(r)
    BY DEF NumberRules, NumberRule, Is, Rule, S
  <1>2. \A r \in HeaderRules : HeaderRule(r)
    BY DEF HeaderRules, HeaderRule, Is, Rule, S
  <1>3. \A r \in TypeNameRules : TypeNameRule(r)
    BY ZenonT(60) DEF TypeNameRules, TypeNameRule, Is, Rule, S, Under, Before, NotBefore, Id
  <1>4. \A r \in ArrayTypeRules : ArrayTypeRule(r)
    BY DEF ArrayTypeRules, ArrayTypeRule, Is, Rule, S, Id
  <1>5. \A r \in PointerTypeRules : PointerTypeRule(r)
    BY DEF PointerTypeRules, PointerTypeRule, Is, Rule, S
  <1>6. \A r \in TypedIdRules : TypedIdRule(r)
    BY DEF TypedIdRules, TypedIdRule, Is, Rule, S, Before, NotBefore, Id
  <1>7. \A r \in FactorRules : FactorRule(r)
    BY DEF FactorRules, FactorRule, Is, Rule, S, Before, NotBefore
  <1>8. \A r \in ParenthesesRules : ParenthesesRule(r)
    <2> SUFFICES ASSUME NEW r \in ParenthesesRules PROVE ParenthesesRule(r)
      OBVIOUS
    <2>1. CASE r = Under(Tokens \ IdTokens, Parentheses)
      <3>1. r.at = 261 /\ r.lhs = "FACTOR"
        BY <2>1 DEF Under, Parentheses, Rule
      <3>2. r.rhs = <<{"LP"}, {"EXPRESSION"}, {"RP"}>>
        BY <2>1 DEF Under, Parentheses, Rule, S
      <3> QED
        BY <3>1, <3>2 DEF ParenthesesRule, Is
    <2>2. CASE r = [Under(NonTerminals, Parentheses) EXCEPT !.sure = FALSE]
      <3>1. r.at = 261 /\ r.lhs = "FACTOR"
        BY <2>2 DEF Under, Parentheses, Rule
      <3>2. r.rhs = <<{"LP"}, {"EXPRESSION"}, {"RP"}>>
        BY <2>2 DEF Under, Parentheses, Rule, S
      <3> QED
        BY <3>1, <3>2 DEF ParenthesesRule, Is
    <2> QED
      BY <2>1, <2>2 DEF ParenthesesRules
  <1>9. \A r \in TermRules : TermRule(r)
    BY DEF TermRules, TermRule, Is, Rule, S
  <1>10. \A r \in MathRules : MathRule(r)
    BY DEF MathRules, MathRule, Is, Rule, S, Before, NotBefore
  <1>11. \A r \in RelationalRules : RelationalRule(r)
    BY DEF RelationalRules, RelationalRule, Is, Rule, S, Before, NotBefore
  <1>12. \A r \in ConjRules : ConjRule(r)
    BY DEF ConjRules, ConjRule, Is, Rule, S, Before, NotBefore
  <1>13. \A r \in DisjRules : DisjRule(r)
    BY DEF DisjRules, DisjRule, Is, Rule, S, Before, NotBefore
  <1>14. \A r \in ExpressionRules : ExpressionRule(r)
    BY DEF ExpressionRules, ExpressionRule, Is, Rule, S, Before, NotBefore
  <1>15. \A r \in ExpressionListRules : ExpressionListRule(r)
    BY DEF ExpressionListRules, ExpressionListRule, Is, Rule, S, Before, NotBefore
  <1>16. \A r \in DerefRules : DerefRule(r)
    BY DEF DerefRules, DerefRule, Is, Rule, S, Id
  <1>17. \A r \in CallRules : CallRule(r)
    BY DEF CallRules, CallRule, Is, Rule, S, Id
  <1>18. \A r \in FuncHeaderRules : FuncHeaderRule(r)
    BY DEF FuncHeaderRules, FuncHeaderRule, Is, Rule, S, Before, NotBefore
  <1>19. \A r \in IfRules : IfRule(r)
    BY DEF IfRules, IfRule, Is, Rule, S
  <1>20. \A r \in AssignmentRules : AssignmentRule(r)
    BY DEF AssignmentRules, AssignmentRule, Is, Rule, S, Id
  <1>21. \A r \in StatementListRules : StatementListRule(r)
    BY DEF StatementListRules, StatementListRule, Is, Rule, S
  <1>22. \A r \in StatementRules : StatementRule(r)
    BY DEF StatementRules, StatementRule, Is, Rule, S, Under
  <1>23. \A r \in BlockRules : BlockRule(r)
    BY DEF BlockRules, BlockRule, Is, Rule, S
  <1>24. \A r \in FunctionRules : FunctionRule(r)
    BY DEF FunctionRules, FunctionRule, Is, Rule, S, Id
  <1> QED
    BY <1>1, <1>2, <1>3, <1>4, <1>5, <1>6, <1>7, <1>8, <1>9, <1>10, <1>11, <1>12, <1>13, <1>14, <1>15, <1>16, <1>17, <1>18, <1>19, <1>20, <1>21, <1>22, <1>23, <1>24 DEF Rules

-----------------------------------------------------------------------------
(* The rules that build lists. *)

\* A branch that appends finds a list at the bottom of its handle and answers a
\* list; the other branches that answer a list allocate its first cell.
ListRule(r) ==
  /\ r.at \in Appending => r.lhs \in ListKinds /\ r.rhs[1] \subseteq ListKinds
  /\ r.lhs \in ListKinds => r.at \in Appending \cup Starting

LEMMA ListRules == \A r \in Rules : ListRule(r)
  <1>1. ASSUME NEW r, TypedIdRule(r) PROVE ListRule(r)
    BY <1>1 DEF TypedIdRule, Is, ListRule, Appending, Starting, ListKinds
  <1>2. ASSUME NEW r, ExpressionListRule(r) PROVE ListRule(r)
    BY <1>2 DEF ExpressionListRule, Is, ListRule, Appending, Starting, ListKinds
  <1>3. ASSUME NEW r, StatementListRule(r) PROVE ListRule(r)
    BY <1>3 DEF StatementListRule, Is, ListRule, Appending, Starting, ListKinds
  <1>4. ASSUME NEW r, NumberRule(r) \/ HeaderRule(r) \/ TypeNameRule(r) \/ ArrayTypeRule(r) PROVE ListRule(r)
    BY <1>4 DEF NumberRule, HeaderRule, TypeNameRule, ArrayTypeRule, Is, ListRule, Appending, Starting, ListKinds
  <1>5. ASSUME NEW r, PointerTypeRule(r) \/ FactorRule(r) \/ ParenthesesRule(r) \/ TermRule(r) PROVE ListRule(r)
    BY <1>5 DEF PointerTypeRule, FactorRule, ParenthesesRule, TermRule, Is, ListRule, Appending, Starting, ListKinds
  <1>6. ASSUME NEW r, MathRule(r) \/ RelationalRule(r) \/ ConjRule(r) \/ DisjRule(r) PROVE ListRule(r)
    BY <1>6 DEF MathRule, RelationalRule, ConjRule, DisjRule, Is, ListRule, Appending, Starting, ListKinds
  <1>7. ASSUME NEW r, ExpressionRule(r) \/ DerefRule(r) \/ CallRule(r) \/ FuncHeaderRule(r) PROVE ListRule(r)
    BY <1>7 DEF ExpressionRule, DerefRule, CallRule, FuncHeaderRule, Is, ListRule, Appending, Starting, ListKinds
  <1>8. ASSUME NEW r, IfRule(r) \/ AssignmentRule(r) \/ StatementRule(r) \/ BlockRule(r) PROVE ListRule(r)
    BY <1>8 DEF IfRule, AssignmentRule, StatementRule, BlockRule, Is, ListRule, Appending, Starting, ListKinds
  <1>9. ASSUME NEW r, FunctionRule(r) PROVE ListRule(r)
    BY <1>9 DEF FunctionRule, Is, ListRule, Appending, Starting, ListKinds
  <1> QED
    BY Catalogue, <1>1, <1>2, <1>3, <1>4, <1>5, <1>6, <1>7, <1>8, <1>9

-----------------------------------------------------------------------------
(* The invariant of the lists.  ListsOwned is kept by a reduction because    *)
(* the handle of an append holds a list, the walk stays in the cells, and a  *)
(* new cell is one that nothing leads to yet.                                *)

CellsOver(I) == [item : I, next : Nat \cup {Unwritten}]

BInv ==
  /\ IInv
  /\ BuildTypeOK
  /\ ListsOwned
  /\ \E V : values \in Seq(V)
  /\ \E W : tree \in Seq(W)
  /\ \E I : cells \in Seq(CellsOver(I))

\* What BInv says of the heap.
LEMMA Heap ==
  ASSUME BInv
  PROVE  /\ Depth \in Nat /\ Len(values) = Depth /\ DOMAIN values = 1..Depth
         /\ Len(tree) \in Nat /\ DOMAIN tree = 1..Len(tree)
         /\ Len(cells) \in Nat /\ DOMAIN cells = 1..Len(cells)
         /\ \A p \in 1..Len(cells) : cells[p].next \in {NULL, Unwritten} \cup 1..Len(cells)
         /\ curr \in {NULL} \cup 1..Len(cells)
         /\ \A i \in 1..Depth : stack[i].sym \in ListKinds =>
               values[i] \in 1..Len(cells) /\ \A p \in 1..Len(cells) : cells[p].next # values[i]
  <1>1. Depth \in Nat
    BY StackNodes DEF BInv, IInv
  <1>2. DOMAIN values = 1..Len(values)
    BY DEF BInv
  <1>3. Len(cells) \in Nat /\ DOMAIN cells = 1..Len(cells)
    BY DEF BInv
  <1>4. Len(values) = Depth
    BY DEF BInv, BuildTypeOK
  <1>t. Len(tree) \in Nat /\ DOMAIN tree = 1..Len(tree)
    BY DEF BInv
  <1>5. /\ \A p \in DOMAIN cells : cells[p].next \in {NULL, Unwritten} \cup DOMAIN cells
        /\ curr \in {NULL} \cup DOMAIN cells
    BY DEF BInv, BuildTypeOK
  <1>6. \A i \in 1..Depth : stack[i].sym \in ListKinds =>
          values[i] \in DOMAIN cells /\ \A p \in DOMAIN cells : cells[p].next # values[i]
    BY DEF BInv, ListsOwned
  <1> QED
    BY <1>1, <1>2, <1>3, <1>4, <1>t, <1>5, <1>6

\* An append starts at a list of the stack and stays in the cells.
LEMMA StandsInList ==
  ASSUME BInv, NEW r \in Takeable, r.at \in Appending
  PROVE  /\ stack[Depth - Len(r.rhs) + 1].sym \in ListKinds
         /\ Value(Len(r.rhs) - 1) = values[Depth - Len(r.rhs) + 1]
         /\ Stand(r) \in 1..Len(cells)
         /\ After(r) \in {NULL, Unwritten} \cup 1..Len(cells)
  <1> DEFINE k == Len(r.rhs)
             m == Depth - k + 1
  <1>1. r \in Rules /\ Matches(r)
    BY DEF Takeable
  <1>2. ListRule(r)
    BY <1>1, ListRules
  <1>3. k \in 1..5 /\ k <= Depth
    BY TakenRule DEF BInv, IInv
  <1>4. Depth \in Nat
    BY Heap
  <1>5. Peek(k - 1) \in r.rhs[1]
    BY <1>1, <1>3 DEF Matches
  <1>m. m = Depth - k + 1
    OBVIOUS
  <1>k. k = Len(r.rhs)
    OBVIOUS
  <1> HIDE DEF k, m
  <1>6. Peek(k - 1) = stack[m].sym
    BY <1>3, <1>4, <1>m DEF Peek
  <1>7. stack[m].sym \in ListKinds
    BY <1>2, <1>5, <1>6 DEF ListRule
  <1>8. Value(k - 1) = values[m]
    BY <1>3, <1>4, <1>m DEF Value
  <1>9. m \in 1..Depth
    BY <1>3, <1>4, <1>m
  <1>10. values[m] \in 1..Len(cells)
    BY <1>7, <1>9, Heap
  <1>11. curr = NULL \/ curr \in 1..Len(cells)
    BY Heap
  <1>12. Stand(r) \in 1..Len(cells)
    BY <1>8, <1>10, <1>11, <1>k DEF Stand
  <1>13. After(r) \in {NULL, Unwritten} \cup 1..Len(cells)
    BY <1>12, Heap DEF After
  <1> QED
    BY <1>7, <1>8, <1>12, <1>13, <1>m, <1>k

\* What a reduction does to the stack and to the payloads.
LEMMA BuildEffect ==
  ASSUME BInv, NEW r \in Takeable, Build(r)
  PROVE  LET m == Depth - Len(r.rhs) + 1 IN
         /\ m \in 1..Depth
         /\ Depth' = m /\ Len(values') = m
         /\ \E V : values' \in Seq(V)
         /\ \A i \in 1..(m - 1) : stack'[i] = stack[i] /\ values'[i] = values[i]
         /\ stack'[m] = Built(r) /\ stack'[m].sym = r.lhs
         /\ values'[m] = Answer(r)
  <1> DEFINE k == Len(r.rhs)
             m == Depth - k + 1
             b == Built(r)
             v == Answer(r)
  <1>1. k \in 1..5 /\ k <= Depth
    BY TakenRule DEF BInv, IInv
  <1>p. r.pops = k
    BY TakenRule DEF BInv, IInv
  <1>2. b \in Nodes /\ b.sym = r.lhs
    BY BuiltNode DEF BInv, IInv
  <1>3. Depth \in Nat /\ Depth = Len(stack) /\ stack \in Seq(Nodes)
    BY StackNodes DEF BInv, IInv, TypeOK
  <1>4. Len(values) = Depth
    BY Heap
  <1>5. stack' = Push(PopN(stack, k), b) /\ values' = Push(PopN(values, k), v)
    BY <1>p DEF Build, Apply
  <1>6. PICK V : values \in Seq(V)
    BY DEF BInv
  <1>m. m = Depth - k + 1
    OBVIOUS
  <1>k. k = Len(r.rhs) /\ v = Answer(r) /\ b = Built(r)
    OBVIOUS
  <1> HIDE DEF k, m, b, v
  <1>7. k \in 1..Len(stack) /\ k \in 1..Len(values) /\ m = Len(stack) - k + 1
    BY <1>1, <1>3, <1>4, <1>m
  <1>8. m \in 1..Depth /\ m - 1 = Len(stack) - k /\ m - 1 = Len(values) - k
    BY <1>3, <1>4, <1>7
  <1>9. /\ Len(stack') = m
        /\ \A i \in 1..(m - 1) : stack'[i] = stack[i]
        /\ stack'[m] = b
    <2> DEFINE t == Push(PopN(stack, k), b)
    <2>0. k \in 1..Len(stack) /\ stack \in Seq(Nodes) /\ b \in Nodes
      BY <1>2, <1>3, <1>7
    <2>1. /\ t \in Seq(Nodes)
          /\ Len(t) = Len(stack) - k + 1
          /\ \A i \in 1..(Len(stack) - k) : t[i] = stack[i]
          /\ t[Len(stack) - k + 1] = b
      BY <2>0, Replace
    <2>2. stack' = t
      BY <1>5
    <2> HIDE DEF t
    <2> QED
      BY <1>7, <1>8, <2>1, <2>2
  <1>10. /\ Len(values') = m /\ values' \in Seq(V \cup {v})
         /\ \A i \in 1..(m - 1) : values'[i] = values[i]
         /\ values'[m] = v
    <2> DEFINE t == Push(PopN(values, k), v)
               W == V \cup {v}
    <2>1. values \in Seq(W) /\ v \in W
      BY <1>6
    <2> HIDE DEF W
    <2>0. k \in 1..Len(values)
      BY <1>7
    <2>2. /\ t \in Seq(W)
          /\ Len(t) = Len(values) - k + 1
          /\ \A i \in 1..(Len(values) - k) : t[i] = values[i]
          /\ t[Len(values) - k + 1] = v
      BY <2>0, <2>1, Replace
    <2>3. values' = t
      BY <1>5
    <2> HIDE DEF t
    <2> QED
      BY <1>3, <1>4, <1>7, <1>8, <2>2, <2>3 DEF W
  <1> QED
    BY <1>2, <1>8, <1>9, <1>10, <1>m, <1>k DEF Depth

\* What a reduction does to the cells: an append hangs a new cell below the one
\* it stands at, a branch that starts a list adds one, the others do nothing.
LEMMA CellsEffect ==
  ASSUME BInv, NEW r \in Takeable, Build(r)
  PROVE  /\ \E I : cells' \in Seq(CellsOver(I))
         /\ \/ /\ r.at \in Appending
               /\ Len(cells') = Len(cells) + 1
               /\ \A p \in 1..Len(cells) :
                    cells'[p].next = IF p = Stand(r) THEN Len(cells) + 1 ELSE cells[p].next
               /\ cells'[Len(cells) + 1].next \in {NULL, Unwritten}
            \/ /\ r.at \in Starting
               /\ Len(cells') = Len(cells) + 1
               /\ \A p \in 1..Len(cells) : cells'[p].next = cells[p].next
               /\ cells'[Len(cells) + 1].next \in {NULL, Unwritten}
            \/ r.at \notin Appending \cup Starting /\ cells' = cells
         /\ \A p \in 1..Len(cells) : cells'[p].item = cells[p].item
         /\ r.at \in Appending \cup Starting => cells'[Len(cells) + 1].item = ItemOf(r)
  <1> DEFINE cell == [item |-> ItemOf(r), next |-> NextOf(r)]
             L == Len(cells)
             q == Stand(r)
  <1>1. PICK I : cells \in Seq(CellsOver(I))
    BY DEF BInv
  <1> DEFINE J == I \cup {ItemOf(r)}
  <1>2. L \in Nat /\ DOMAIN cells = 1..L
    BY <1>1
  <1>3. NextOf(r) \in {NULL, Unwritten} /\ NULL \in Nat
    BY DEF NextOf, NULL
  <1>4. cell \in CellsOver(J) /\ cell.next \in {NULL, Unwritten} /\ cell.item = ItemOf(r)
    BY <1>3 DEF CellsOver
  <1>5. cells \in Seq(CellsOver(J))
    <2>1. CellsOver(I) \subseteq CellsOver(J)
      BY DEF CellsOver
    <2> HIDE DEF J
    <2> QED
      BY <1>1, <2>1
  <1> HIDE DEF J, cell
  <1>6. CASE r.at \in Appending
    <2> DEFINE c == Hung(q)
    <2>1. cells' = Append(c, cell)
      <3>1. cells' = CellsWith(r)
        BY DEF Build
      <3>2. r.at \notin Starting
        BY <1>6 DEF Appending, Starting
      <3>3. CellsWith(r) = Append(c, cell)
        BY <1>6, <3>2 DEF CellsWith, cell
      <3> QED
        BY <3>1, <3>3
    <2>2. q \in 1..L
      BY <1>6, StandsInList
    <2> HIDE DEF q, L
    <2>3. \A p \in 1..L : cells[p] \in CellsOver(J)
      BY <1>5, <1>2
    <2>4. c = [cells EXCEPT ![q] = [cells[q] EXCEPT !.next = L + 1]]
      BY DEF Hung, NewCell, L
    <2>5. /\ [cells[q] EXCEPT !.next = L + 1] \in CellsOver(J)
          /\ [cells[q] EXCEPT !.next = L + 1].next = L + 1
          /\ [cells[q] EXCEPT !.next = L + 1].item = cells[q].item
      BY <1>2, <2>2, <2>3 DEF CellsOver
    <2>l. L = Len(cells) /\ q = Stand(r)
      BY DEF L, q
    <2>6. /\ c \in Seq(CellsOver(J)) /\ Len(c) = L
          /\ c[q].next = L + 1 /\ c[q].item = cells[q].item
          /\ \A p \in 1..L : p # q => c[p] = cells[p]
      BY <1>2, <1>5, <2>2, <2>4, <2>5, <2>l
    <2> HIDE DEF c
    <2>7. /\ cells' \in Seq(CellsOver(J))
          /\ Len(cells') = L + 1
          /\ \A p \in 1..L : cells'[p] = c[p]
          /\ cells'[L + 1] = cell
      BY <1>4, <2>1, <2>6
    <2> QED
      BY <1>4, <1>6, <2>6, <2>7, <2>l
  <1>7. CASE r.at \in Starting
    <2>1. r.at \notin Appending
      BY <1>7 DEF Appending, Starting
    <2>2. cells' = Append(cells, cell)
      BY <1>7, <2>1 DEF Build, CellsWith, cell
    <2>3. /\ cells' \in Seq(CellsOver(J))
          /\ Len(cells') = Len(cells) + 1
          /\ \A p \in 1..Len(cells) : cells'[p] = cells[p]
          /\ cells'[Len(cells) + 1] = cell
      BY <1>4, <1>5, <2>2
    <2> QED
      BY <1>4, <1>7, <2>3
  <1>8. CASE r.at \notin Appending \cup Starting
    <2>1. cells' = cells
      BY <1>8 DEF Build, CellsWith
    <2> QED
      BY <1>5, <1>8, <2>1
  <1> QED
    BY <1>6, <1>7, <1>8

\* A reduction that answers a list answers the one its handle began with, or a
\* new cell.
LEMMA ListAnswer ==
  ASSUME BInv, NEW r \in Takeable, r.lhs \in ListKinds
  PROVE  \/ /\ r.at \in Appending
            /\ stack[Depth - Len(r.rhs) + 1].sym \in ListKinds
            /\ Answer(r) = values[Depth - Len(r.rhs) + 1]
         \/ r.at \in Starting \ Appending /\ Answer(r) = Len(cells) + 1
  <1>1. ListRule(r)
    BY ListRules DEF Takeable
  <1>3. CASE r.at \in Appending
    BY <1>3, StandsInList DEF Answer
  <1>4. CASE r.at \notin Appending
    BY <1>1, <1>4 DEF ListRule, NewCell, Answer
  <1> QED
    BY <1>3, <1>4

\* What a reduction does to the tree: a list adds nothing to it, another node is
\* added behind those there are, with the typed id line 641 makes before it.
LEMMA TreeEffect ==
  ASSUME BInv, NEW r \in Takeable, Build(r)
  PROVE  /\ \E W : tree' \in Seq(W)
         /\ Len(tree') \in Nat /\ DOMAIN tree' = 1..Len(tree')
         /\ \A n \in 1..Len(tree) : n \in 1..Len(tree') /\ tree'[n] = tree[n]
         /\ r.lhs \in ListKinds => tree' = tree
         /\ r.lhs \notin ListKinds =>
              /\ Len(tree') = Len(tree) + (IF r.at = 641 THEN 2 ELSE 1)
              /\ Answer(r) = Len(tree')
              /\ tree'[Len(tree')] = Finished(r)
              /\ r.at = 641 => tree'[Len(tree) + 1] = Unnamed
  <1>1. PICK W : tree \in Seq(W)
    BY DEF BInv
  <1> DEFINE f == Finished(r)
             u == Unnamed
  <1>2. tree' = TreeWith(r)
    BY DEF Build
  <1>3. r.lhs \notin ListKinds => r.at \notin Appending
    BY ListRules DEF Takeable, ListRule
  <1>4. r.lhs \notin ListKinds => Answer(r) = Len(tree')
    BY <1>2, <1>3 DEF Answer
  <1>5. CASE r.lhs \in ListKinds
    BY <1>1, <1>2, <1>5 DEF TreeWith
  <1>6. CASE r.lhs \notin ListKinds /\ r.at = 641
    <2>1. tree' = tree \o <<u, f>>
      BY <1>2, <1>6 DEF TreeWith
    <2> HIDE DEF u, f
    <2>2. tree \in Seq(W \cup {u, f}) /\ <<u, f>> \in Seq(W \cup {u, f})
      BY <1>1
    <2>3. /\ tree' \in Seq(W \cup {u, f})
          /\ Len(tree') = Len(tree) + 2
          /\ \A n \in 1..Len(tree) : tree'[n] = tree[n]
          /\ tree'[Len(tree) + 1] = u
          /\ tree'[Len(tree) + 2] = f
      BY <2>1, <2>2
    <2> QED
      BY <1>1, <1>4, <1>6, <2>3 DEF u, f
  <1>7. CASE r.lhs \notin ListKinds /\ r.at # 641
    <2>1. tree' = Append(tree, f)
      BY <1>2, <1>7 DEF TreeWith
    <2> HIDE DEF f
    <2>2. tree \in Seq(W \cup {f})
      BY <1>1
    <2>3. /\ tree' \in Seq(W \cup {f})
          /\ Len(tree') = Len(tree) + 1
          /\ \A n \in 1..Len(tree) : tree'[n] = tree[n]
          /\ tree'[Len(tree) + 1] = f
      BY <2>1, <2>2
    <2> QED
      BY <1>1, <1>4, <1>7, <2>3 DEF f
  <1> QED
    BY <1>5, <1>6, <1>7

-----------------------------------------------------------------------------
(* The steps. *)

LEMMA BuildInitBInv == BuildInit => BInv
  <1> SUFFICES ASSUME BuildInit PROVE BInv
    OBVIOUS
  <1>1. IInv
    BY InitIInv DEF BuildInit
  <1>2. /\ stack = <<>> /\ values = <<>> /\ tree = <<>> /\ cells = <<>> /\ curr = NULL /\ defined = TRUE
        /\ Depth = 0
    BY DEF BuildInit, Init, Depth
  <1>3. BuildTypeOK
    BY <1>2 DEF BuildTypeOK
  <1>4. ListsOwned
    BY <1>2 DEF ListsOwned
  <1>5. values \in Seq({}) /\ tree \in Seq({}) /\ cells \in Seq(CellsOver({}))
    BY <1>2
  <1> QED
    BY <1>1, <1>3, <1>4, <1>5 DEF BInv

LEMMA BuildShiftBInv == BInv /\ BuildShift => BInv'
  <1> SUFFICES ASSUME BInv, BuildShift PROVE BInv'
    OBVIOUS
  <1>1. IInv'
    BY ShiftIInv DEF BInv, BuildShift
  <1>2. /\ Depth \in Nat /\ Len(values) = Depth
        /\ stack \in Seq(Nodes) /\ Len(stack) = Depth
    BY Heap DEF BInv, IInv, TypeOK, Depth
  <1>3. /\ UNCHANGED <<tree, cells, curr, defined>>
        /\ stack' = Append(stack, Node(input[pos + 1], pos + 1, pos + 1, pos + 1))
        /\ values' = Append(values, pos + 1)
    BY DEF BuildShift, Shift, Push
  <1>4. input[pos + 1] \notin NonTerminals \cup ListKinds
    <2>1. input[pos + 1] \in Tokens
      BY DEF BInv, IInv, TypeOK, BuildShift, Shift
    <2> QED
      BY <2>1 DEF Tokens, NonTerminals, ListKinds, IdTokens, Relops, Mulops, Addops
  <1>5. /\ Depth' = Depth + 1 /\ Len(values') = Depth + 1
        /\ \E V : values' \in Seq(V)
        /\ \A i \in 1..Depth : stack'[i] = stack[i] /\ values'[i] = values[i]
        /\ stack'[Depth + 1].sym \notin NonTerminals \cup ListKinds
    <2>1. PICK V : values \in Seq(V)
      BY DEF BInv
    <2> DEFINE n == Node(input[pos + 1], pos + 1, pos + 1, pos + 1)
    <2>2. n.sym \notin NonTerminals \cup ListKinds
      BY <1>4 DEF Node
    <2> HIDE DEF n
    <2>3. stack' = Append(stack, n)
      BY <1>3 DEF n
    <2>4. values \in Seq(V \cup {pos + 1})
      BY <2>1
    <2>5. /\ values' \in Seq(V \cup {pos + 1})
          /\ Len(values') = Len(values) + 1
          /\ \A i \in 1..Len(values) : values'[i] = values[i]
      BY <1>3, <2>4
    <2>6. /\ Len(stack') = Len(stack) + 1
          /\ \A i \in 1..Len(stack) : stack'[i] = stack[i]
          /\ stack'[Len(stack) + 1] = n
      BY <1>2, <2>3
    <2>7. \E W : values' \in Seq(W)
      BY <2>5
    <2>8. \A i \in 1..Depth : stack'[i] = stack[i] /\ values'[i] = values[i]
      BY <1>2, <2>5, <2>6 DEF Depth
    <2>9. Depth' = Depth + 1 /\ Len(values') = Depth + 1
      BY <1>2, <2>5, <2>6 DEF Depth
    <2>10. stack'[Depth + 1].sym \notin NonTerminals \cup ListKinds
      BY <2>2, <2>6 DEF Depth
    <2> QED
      BY <2>7, <2>8, <2>9, <2>10
  <1>6. BuildTypeOK'
    <2>1. \A i \in 1..Depth' : stack'[i].sym \in NonTerminals \ ListKinds =>
            i \in 1..Depth /\ stack'[i] = stack[i] /\ values'[i] = values[i]
      BY <1>2, <1>5
    <2> QED
      BY <1>3, <1>5, <2>1, ZenonT(60) DEF BInv, BuildTypeOK
  <1>7. ListsOwned'
    <2>1. \A i \in 1..Depth' : stack'[i].sym \in ListKinds =>
            i \in 1..Depth /\ stack[i].sym \in ListKinds /\ values'[i] = values[i]
      BY <1>2, <1>5
    <2> QED
      BY <1>3, <2>1, ZenonT(60) DEF BInv, ListsOwned
  <1> QED
    BY <1>1, <1>3, <1>5, <1>6, <1>7 DEF BInv

\* The steps that leave the stack, the payloads and the cells as they are.
LEMMA BuildOtherBInv ==
  ASSUME BInv, IInv', UNCHANGED <<stack, values, tree, cells>>,
         curr' \in {NULL} \cup DOMAIN cells, defined' \in BOOLEAN
  PROVE  BInv'
  <1>1. Depth' = Depth
    BY DEF Depth
  <1>2. BuildTypeOK'
    BY <1>1 DEF BInv, BuildTypeOK
  <1>3. ListsOwned'
    BY <1>1 DEF BInv, ListsOwned
  <1> QED
    BY <1>2, <1>3 DEF BInv

LEMMA WalkBInv ==
  ASSUME BInv, IInv', NEW r \in Takeable, Walk(r) \/ WalkAstray(r)
  PROVE  BInv'
  <1>1. UNCHANGED <<stack, values, tree, cells>>
    BY DEF Walk, WalkAstray
  <1>2. curr' \in {NULL} \cup DOMAIN cells
    <2>1. CASE Walk(r)
      <3>1. After(r) \in {NULL, Unwritten} \cup 1..Len(cells) /\ DOMAIN cells = 1..Len(cells)
        BY <2>1, StandsInList, Heap DEF Walk
      <3> QED
        BY <2>1, <3>1 DEF Walk
    <2>2. CASE WalkAstray(r)
      BY <2>2 DEF WalkAstray, BInv, BuildTypeOK
    <2> QED
      BY <2>1, <2>2
  <1>3. defined' \in BOOLEAN
    BY DEF Walk, WalkAstray, BInv, BuildTypeOK
  <1> QED
    BY <1>1, <1>2, <1>3, BuildOtherBInv

LEMMA BuildBInv ==
  ASSUME BInv, IInv', NEW r \in Takeable, Build(r)
  PROVE  BInv'
  <1> DEFINE m == Depth - Len(r.rhs) + 1
             L == Len(cells)
             M == Len(cells')
             q == Stand(r)
             adds == r.at \in Appending \cup Starting
  <1>1. /\ m \in 1..Depth /\ Depth' = m /\ Len(values') = m
        /\ \A i \in 1..(m - 1) : stack'[i] = stack[i] /\ values'[i] = values[i]
        /\ stack'[m].sym = r.lhs
        /\ values'[m] = Answer(r)
    BY BuildEffect
  <1>2. \E V : values' \in Seq(V)
    BY BuildEffect
  <1>3. \E I : cells' \in Seq(CellsOver(I))
    BY CellsEffect
  <1>4. DOMAIN cells' = 1..M /\ M \in Nat
    BY <1>3
  <1>5. /\ Depth \in Nat /\ L \in Nat /\ DOMAIN cells = 1..L
        /\ \A p \in 1..L : cells[p].next \in {NULL, Unwritten} \cup 1..L
        /\ \A i \in 1..Depth : stack[i].sym \in ListKinds =>
               values[i] \in 1..L /\ \A p \in 1..L : cells[p].next # values[i]
    BY Heap
  <1>6. /\ adds => M = L + 1 /\ cells'[L + 1].next \in {NULL, Unwritten}
        /\ ~adds => M = L
        /\ \A p \in 1..L : \/ cells'[p].next = cells[p].next
                           \/ r.at \in Appending /\ p = q /\ cells'[p].next = L + 1
    BY CellsEffect DEF Appending, Starting
  <1>7. r.at \in Appending => adds
    OBVIOUS
  <1>8. r.at \in Starting \ Appending => adds
    OBVIOUS
  <1>9. r.lhs \in ListKinds =>
          \/ /\ stack[m].sym \in ListKinds
             /\ Answer(r) = values[m]
          \/ r.at \in Starting \ Appending /\ Answer(r) = L + 1
    BY ListAnswer
  <1>10. NULL \notin 1..M /\ Unwritten \notin 1..M
    BY <1>4, UnwrittenAssumption DEF NULL
  <1>11. curr' = NULL /\ defined' = defined
    BY DEF Build
  <1>t. \E W : tree' \in Seq(W)
    BY TreeEffect
  <1>n. /\ \A n \in DOMAIN tree : n \in DOMAIN tree' /\ tree'[n] = tree[n]
        /\ r.lhs \notin ListKinds => Answer(r) \in DOMAIN tree' /\ tree'[Answer(r)].sym = r.lhs
    <2>1. DOMAIN tree = 1..Len(tree) /\ Len(tree) \in Nat
      BY Heap
    <2>2. Finished(r).sym = r.lhs
      BY DEF Finished, Made
    <2> QED
      BY <2>1, <2>2, TreeEffect
  <1> HIDE DEF m, L, M, q, adds
  \* In the new heap, next leads where it led, or from the cell an append
  \* stood at to the new one, or nowhere.
  <1>12. \A p \in 1..M :
           \/ p \in 1..L /\ cells'[p].next = cells[p].next
           \/ r.at \in Appending /\ p = q /\ p \in 1..L /\ M = L + 1 /\ cells'[p].next = M
           \/ cells'[p].next \in {NULL, Unwritten}
    <2> SUFFICES ASSUME NEW p \in 1..M
                 PROVE  \/ p \in 1..L /\ cells'[p].next = cells[p].next
                        \/ r.at \in Appending /\ p = q /\ p \in 1..L /\ M = L + 1 /\ cells'[p].next = M
                        \/ cells'[p].next \in {NULL, Unwritten}
      OBVIOUS
    <2>1. CASE p \in 1..L
      BY <1>6, <1>7, <2>1
    <2>2. CASE p \notin 1..L
      <3>1. adds /\ p = L + 1
        BY <1>4, <1>5, <1>6, <2>2
      <3> QED
        BY <1>6, <3>1
    <2> QED
      BY <2>1, <2>2
  <1>13. 1..L \subseteq 1..M /\ (M = L \/ M = L + 1)
    BY <1>5, <1>6
  <1>14. BuildTypeOK'
    <2>1. \A p \in DOMAIN cells' : cells'[p].next \in {NULL, Unwritten} \cup DOMAIN cells'
      <3> SUFFICES ASSUME NEW p \in 1..M
                   PROVE  cells'[p].next \in {NULL, Unwritten} \cup 1..M
        BY <1>4
      <3>1. CASE p \in 1..L /\ cells'[p].next = cells[p].next
        BY <1>5, <1>13, <3>1
      <3>2. CASE M = L + 1 /\ cells'[p].next = M
        BY <1>5, <3>2
      <3> QED
        BY <1>12, <3>1, <3>2
    <2>2. Len(values') = Depth'
      BY <1>1
    <2>3. \A i \in 1..Depth' : stack'[i].sym \in NonTerminals \ ListKinds =>
            values'[i] \in DOMAIN tree' /\ tree'[values'[i]].sym = stack'[i].sym
      <3> SUFFICES ASSUME NEW i \in 1..m, stack'[i].sym \in NonTerminals \ ListKinds
                   PROVE  values'[i] \in DOMAIN tree' /\ tree'[values'[i]].sym = stack'[i].sym
        BY <1>1
      <3>1. CASE i = m
        BY <1>1, <1>n, <3>1
      <3>2. CASE i # m
        <4>1. i \in 1..(m - 1) /\ i \in 1..Depth
          BY <1>1, <1>5, <3>2
        <4>2. stack'[i] = stack[i] /\ values'[i] = values[i]
          BY <1>1, <4>1
        <4>3. values[i] \in DOMAIN tree /\ tree[values[i]].sym = stack[i].sym
          BY <4>1, <4>2 DEF BInv, BuildTypeOK
        <4> QED
          BY <1>n, <4>2, <4>3
      <3> QED
        BY <3>1, <3>2
    <2> QED
      BY <1>11, <2>1, <2>2, <2>3 DEF BuildTypeOK, BInv
  \* The lists of the new stack: those below the handle, and the new node.
  <1>15. \A i \in 1..m : stack'[i].sym \in ListKinds =>
           \/ i \in 1..Depth /\ stack[i].sym \in ListKinds /\ values'[i] = values[i]
           \/ i = m /\ M = L + 1 /\ r.at \notin Appending /\ values'[i] = M
    <2> SUFFICES ASSUME NEW i \in 1..m, stack'[i].sym \in ListKinds
                 PROVE  \/ i \in 1..Depth /\ stack[i].sym \in ListKinds /\ values'[i] = values[i]
                        \/ i = m /\ M = L + 1 /\ r.at \notin Appending /\ values'[i] = M
      OBVIOUS
    <2>1. CASE i = m
      BY <1>1, <1>6, <1>8, <1>9, <2>1
    <2>2. CASE i # m
      <3>1. i \in 1..(m - 1) /\ i \in 1..Depth
        BY <1>1, <1>5, <2>2
      <3> QED
        BY <1>1, <3>1
    <2> QED
      BY <2>1, <2>2
  <1>16. ListsOwned'
    <2>1. \A p \in 1..M : cells'[p].next \in 1..M => cells'[p].next > p
      <3> SUFFICES ASSUME NEW p \in 1..M, cells'[p].next \in 1..M
                   PROVE  cells'[p].next > p
        OBVIOUS
      <3>1. CASE p \in 1..L /\ cells'[p].next = cells[p].next
        <4>1. cells[p].next \in 1..L
          BY <1>5, <1>10, <3>1
        <4> QED
          BY <1>5, <3>1, <4>1 DEF BInv, ListsOwned
      <3>2. CASE p \in 1..L /\ M = L + 1 /\ cells'[p].next = M
        BY <1>5, <3>2
      <3> QED
        BY <1>10, <1>12, <3>1, <3>2
    <2>2. \A p, s \in 1..M : p # s /\ cells'[p].next \in 1..M => cells'[p].next # cells'[s].next
      <3> SUFFICES ASSUME NEW p \in 1..M, NEW s \in 1..M, p # s,
                          cells'[p].next \in 1..M, cells'[p].next = cells'[s].next
                   PROVE  FALSE
        OBVIOUS
      <3>1. CASE p \in 1..L /\ cells'[p].next = cells[p].next
        <4>1. cells[p].next \in 1..L
          BY <1>5, <1>10, <3>1
        <4>2. cells[p].next # L + 1
          BY <1>5, <4>1
        <4>3. s \in 1..L /\ cells'[s].next = cells[s].next
          BY <1>10, <1>12, <3>1, <4>2
        <4> QED
          BY <1>5, <3>1, <4>1, <4>3 DEF BInv, ListsOwned
      <3>2. CASE p = q /\ M = L + 1 /\ cells'[p].next = M
        <4>1. s # q /\ cells'[s].next = L + 1
          BY <3>2
        <4>2. s \in 1..L /\ cells'[s].next = cells[s].next
          BY <1>10, <1>12, <4>1, <3>2
        <4>3. cells[s].next \in {NULL, Unwritten} \cup 1..L
          BY <1>5, <4>2
        <4>4. cells[s].next \in 1..L
          BY <1>10, <3>2, <4>1, <4>2, <4>3
        <4> QED
          BY <1>5, <4>1, <4>2, <4>4
      <3> QED
        BY <1>10, <1>12, <3>1, <3>2
    <2>3. \A i \in 1..m : stack'[i].sym \in ListKinds =>
            values'[i] \in 1..M /\ \A p \in 1..M : cells'[p].next # values'[i]
      <3> SUFFICES ASSUME NEW i \in 1..m, stack'[i].sym \in ListKinds
                   PROVE  values'[i] \in 1..M /\ \A p \in 1..M : cells'[p].next # values'[i]
        OBVIOUS
      <3>1. CASE i \in 1..Depth /\ stack[i].sym \in ListKinds /\ values'[i] = values[i]
        <4>1. values'[i] \in 1..L /\ \A p \in 1..L : cells[p].next # values'[i]
          BY <1>5, <3>1
        <4>2. values'[i] # L + 1 /\ values'[i] \in 1..M
          BY <1>5, <1>13, <4>1
        <4> QED
          BY <1>10, <1>12, <4>1, <4>2
      <3>2. CASE M = L + 1 /\ r.at \notin Appending /\ values'[i] = M
        <4>1. M \in 1..M
          BY <1>4, <1>5, <3>2
        <4>2. \A p \in 1..L : cells[p].next # M
          <5> SUFFICES ASSUME NEW p \in 1..L, cells[p].next = M PROVE FALSE
            OBVIOUS
          <5>1. M \in 1..L
            BY <1>5, <1>10, <4>1
          <5> QED
            BY <1>5, <3>2, <5>1
        <4> QED
          BY <1>10, <1>12, <3>2, <4>1, <4>2
      <3> QED
        BY <1>15, <3>1, <3>2
    <2>4. \A i, j \in 1..m :
            stack'[i].sym \in ListKinds /\ stack'[j].sym \in ListKinds /\ i # j => values'[i] # values'[j]
      <3> SUFFICES ASSUME NEW i \in 1..m, NEW j \in 1..m, i # j,
                          stack'[i].sym \in ListKinds, stack'[j].sym \in ListKinds
                   PROVE  values'[i] # values'[j]
        OBVIOUS
      <3>1. \A h \in {i, j} :
              \/ h \in 1..Depth /\ stack[h].sym \in ListKinds /\ values'[h] = values[h] /\ values[h] \in 1..L
              \/ h = m /\ M = L + 1 /\ values'[h] = M
        BY <1>5, <1>15
      <3>2. CASE i = m /\ M = L + 1 /\ values'[i] = M
        BY <1>5, <3>1, <3>2
      <3>3. CASE j = m /\ M = L + 1 /\ values'[j] = M
        BY <1>5, <3>1, <3>3
      <3>4. CASE \A h \in {i, j} : h \in 1..Depth /\ stack[h].sym \in ListKinds /\ values'[h] = values[h]
        BY <3>4 DEF BInv, ListsOwned
      <3> QED
        BY <3>1, <3>2, <3>3, <3>4
    <2> QED
      BY <1>1, <1>4, <2>1, <2>2, <2>3, <2>4 DEF ListsOwned
  <1> QED
    BY <1>2, <1>3, <1>t, <1>14, <1>16 DEF BInv

LEMMA BuildStepBInv == BInv /\ [BuildStep \/ BuildTerminated]_buildVars => BInv'
  <1> SUFFICES ASSUME BInv, BuildStep \/ BuildTerminated \/ UNCHANGED buildVars PROVE BInv'
    OBVIOUS
  <1>1. IInv'
    BY BuildStepIsNext, StepIInv DEF BInv
  <1>2. CASE BuildShift
    BY <1>2, BuildShiftBInv
  <1>3. CASE BuildReduce
    <2>1. PICK r \in Takeable : Walk(r) \/ WalkAstray(r) \/ Build(r)
      BY <1>3 DEF BuildReduce
    <2> QED
      BY <1>1, <2>1, WalkBInv, BuildBInv
  <1>4. CASE BuildRest \/ BuildTerminated \/ UNCHANGED buildVars
    <2>1. UNCHANGED <<stack, values, tree, cells, curr, defined>>
      BY <1>4 DEF BuildRest, Overflow, NothingToReduce, Finish, BuildTerminated, buildVars
    <2>2. curr' \in {NULL} \cup DOMAIN cells /\ defined' \in BOOLEAN
      BY <2>1 DEF BInv, BuildTypeOK
    <2> QED
      BY <1>1, <2>1, <2>2, BuildOtherBInv
  <1> QED
    BY <1>2, <1>3, <1>4 DEF BuildStep

LEMMA BuildInvariance == BuildSpec => []BInv
  <1> QED
    BY BuildInitBInv, BuildStepBInv, PTL DEF BuildSpec

-----------------------------------------------------------------------------
(* The theorems. *)

\* Every node on the stack is where it is looked for, and no pointer that was written
\* leads outside the cells.
THEOREM BuildTypeCorrect == BuildSpec => []BuildTypeOK
  BY BuildInvariance, PTL DEF BInv

\* Whatever is parsed, no two lists share a cell and none runs in a circle: an
\* append changes the list it belongs to and no other.
THEOREM ListsAreOwned == BuildSpec => []ListsOwned
  BY BuildInvariance, PTL DEF BInv

\* Every append walks to the end of its list: the cells it passes are younger
\* and younger, and there are only so many.
THEOREM WalksAdvance == BuildSpec => WalkAdvances
  <1> DEFINE Advance ==
        phase = "reduce" /\ phase' = "reduce" /\ defined' =>
          \/ Remaining' < Remaining /\ curr' = NULL
          \/ /\ UNCHANGED <<stack, values, tree, cells>>
             /\ curr' > curr
             /\ curr' \in DOMAIN cells
  <1>1. BInv /\ [BuildStep \/ BuildTerminated]_buildVars => [Advance]_buildVars
    <2> SUFFICES ASSUME BInv, BuildStep \/ BuildTerminated, buildVars' # buildVars,
                        phase = "reduce", phase' = "reduce", defined'
                 PROVE  Advance
      OBVIOUS
    <2>1. BuildReduce
      BY DEF BuildStep, BuildShift, Shift, BuildRest, Overflow, NothingToReduce, Finish, BuildTerminated
    <2>2. PICK r \in Takeable : Walk(r) \/ WalkAstray(r) \/ Build(r)
      BY <2>1 DEF BuildReduce
    <2>3. CASE Walk(r)
      <3>1. /\ r.at \in Appending /\ After(r) \notin {NULL, Unwritten} /\ curr' = After(r)
            /\ UNCHANGED <<stack, values, tree, cells>>
        BY <2>3 DEF Walk
      <3>2. /\ Stand(r) \in 1..Len(cells) /\ After(r) \in 1..Len(cells)
            /\ DOMAIN cells = 1..Len(cells) /\ Len(cells) \in Nat
            /\ curr \in {NULL} \cup 1..Len(cells)
        BY <3>1, StandsInList, Heap
      <3>3. cells[Stand(r)].next > Stand(r)
        BY <3>2 DEF BInv, ListsOwned, After
      <3>4. Stand(r) = curr \/ curr = NULL
        BY DEF Stand
      <3>5. curr' > curr
        BY <3>1, <3>2, <3>3, <3>4 DEF After, NULL
      <3> QED
        BY <3>1, <3>2, <3>5
    <2>4. CASE WalkAstray(r)
      BY <2>4 DEF WalkAstray
    <2>5. CASE Build(r)
      <3>1. Reduce
        BY <2>1, <2>5 DEF BuildReduce, Build, Reduce
      <3>2. Remaining' < Remaining
        BY <3>1, ReduceShrinks DEF BInv
      <3> QED
        BY <2>5, <3>2 DEF Build
    <2> QED
      BY <2>2, <2>3, <2>4, <2>5
  <1> QED
    BY <1>1, BuildInvariance, PTL DEF BuildSpec, WalkAdvances

\* What is proved of the parser holds of the parser that builds nodes.
THEOREM BuilderLosesNoToken == BuildSpec => []TilesInput /\ []LocInSpan
  BY BuildInvariance, PTL DEF BInv, IInv

(***************************************************************************)
(* SECOND PART.  The tree is formed.                                       *)
(***************************************************************************)

-----------------------------------------------------------------------------
(* The invariant of the tree. *)

\* What the value of a node on the stack says of it.
Placed(g, v, sym, a, b) ==
  /\ sym \in Tokens => v = a /\ b = a /\ Kind(g, a) = sym
  /\ sym \in NonTerminals \ ListKinds => Part(g, Len(g.tree) + 1, v, sym, a, b)
  /\ sym \in ListKinds => ListAt(g, Len(g.tree) + 1, sym, v, a, b)

StackPlaced == \A i \in 1..Depth : Placed(Store, values[i], stack[i].sym, stack[i].from, stack[i].to)

\* No two lists of the stack are the same one.
ListsApart ==
  \A i, j \in 1..Depth : i # j /\ stack[i].sym \in ListKinds /\ stack[j].sym \in ListKinds =>
    Last(Store, values[i]) # Last(Store, values[j])

\* The loop variable of an append is in the list that the append is about.
CurrInList ==
  curr # NULL =>
    \E r \in Takeable : r.at \in Appending /\ Last(Store, curr) = Last(Store, Value(Len(r.rhs) - 1))

LookaheadIsNext == phase = "reduce" => lookahead = TypeOf(pos + 1)

\* The invariant.
TreeInv ==
  /\ BInv
  /\ TreeFormed
  /\ CellsFormed
  /\ StackPlaced
  /\ ListsApart
  /\ CurrInList /\ (curr # NULL => phase = "reduce")
  /\ LookaheadIsNext
  /\ literals \in Spellings(input)

-----------------------------------------------------------------------------
(* Following a list to its last cell. *)

\* A pointer leads to a younger cell.
Forward(c) ==
  /\ Len(c) \in Nat /\ DOMAIN c = 1..Len(c)
  /\ \A p \in 1..Len(c) : c[p].next \in 1..Len(c) => c[p].next > p

\* Following a list comes to an end, at a cell that leads nowhere.
LEMMA LastDefined ==
  ASSUME NEW c, Forward(c)
  PROVE  \A p \in 1..Len(c) :
           LastOf(c)[p] = IF c[p].next \in 1..Len(c) THEN LastOf(c)[c[p].next] ELSE p
  <1> DEFINE L == Len(c)
             Solves(f, k) == f = [p \in (L - k + 1)..L |-> IF c[p].next \in 1..L THEN f[c[p].next] ELSE p]
             T == {k \in Nat : k <= L => \E f : Solves(f, k)}
  <1>1. L \in Nat /\ DOMAIN c = 1..L /\ \A p \in 1..L : c[p].next \in 1..L => c[p].next > p
    BY DEF Forward
  <1> HIDE DEF L
  <1>2. 0 \in T
    <2>1. (L - 0 + 1)..L = {}
      BY <1>1
    <2>2. Solves([p \in {} |-> p], 0)
      BY <2>1
    <2> QED
      BY <2>2
  <1>3. ASSUME NEW k \in T, k \in Nat PROVE k + 1 \in T
    <2> SUFFICES ASSUME k + 1 <= L PROVE \E g : Solves(g, k + 1)
      BY <1>3
    <2>1. PICK f : Solves(f, k)
      BY <1>1, <1>3
    <2> DEFINE q == L - k
               g == [p \in (L - (k + 1) + 1)..L |->
                       IF p = q THEN (IF c[q].next \in 1..L THEN f[c[q].next] ELSE q) ELSE f[p]]
    <2>2. q \in 1..L /\ (L - (k + 1) + 1)..L = q..L /\ (L - k + 1)..L = (q + 1)..L
      BY <1>1, <1>3
    <2> HIDE DEF q
    <2>3. \A p \in q..L : c[p].next \in 1..L => c[p].next \in (q + 1)..L /\ c[p].next \in q..L /\ c[p].next # q
      BY <1>1, <2>2
    <2>4. \A p \in (q + 1)..L : f[p] = IF c[p].next \in 1..L THEN f[c[p].next] ELSE p
      BY <2>1, <2>2
    <2>5. \A p \in q..L : g[p] = IF p = q THEN (IF c[q].next \in 1..L THEN f[c[q].next] ELSE q) ELSE f[p]
      BY <2>2
    <2>6. g = [p \in q..L |-> g[p]]
      BY <2>2
    <2> HIDE DEF g
    <2>7. \A p \in q..L : g[p] = IF c[p].next \in 1..L THEN g[c[p].next] ELSE p
      <3> SUFFICES ASSUME NEW p \in q..L
                   PROVE  g[p] = IF c[p].next \in 1..L THEN g[c[p].next] ELSE p
        OBVIOUS
      <3>1. c[p].next \in 1..L => g[c[p].next] = f[c[p].next]
        BY <2>3, <2>5
      <3>2. CASE p = q
        BY <2>5, <3>1, <3>2
      <3>3. CASE p # q
        <4>1. p \in (q + 1)..L
          BY <1>1, <2>2, <3>3
        <4> QED
          BY <2>4, <2>5, <3>1, <3>3, <4>1
      <3> QED
        BY <3>2, <3>3
    <2>8. g = [p \in q..L |-> IF c[p].next \in 1..L THEN g[c[p].next] ELSE p]
      BY <2>6, <2>7
    <2>9. Solves(g, k + 1)
      BY <2>2, <2>8
    <2> QED
      BY <2>9
  <1>4. Nat \subseteq T
    <2> HIDE DEF T
    <2> QED
      BY <1>2, <1>3, Induction
  <1>5. PICK f : Solves(f, L)
    BY <1>1, <1>4
  <1>6. (L - L + 1)..L = 1..L
    BY <1>1
  <1>7. f = [p \in DOMAIN c |-> IF c[p].next \in DOMAIN c THEN f[c[p].next] ELSE p]
    BY <1>1, <1>5, <1>6
  <1> DEFINE h == LastOf(c)
  <1>8. h = [p \in DOMAIN c |-> IF c[p].next \in DOMAIN c THEN h[c[p].next] ELSE p]
    BY <1>7 DEF LastOf
  <1> HIDE DEF h
  <1>9. \A p \in 1..L : h[p] = IF c[p].next \in 1..L THEN h[c[p].next] ELSE p
    BY <1>1, <1>8
  <1> QED
    BY <1>9 DEF h, L

\* The last cell is one of the list, and the last of its own.
LEMMA LastCells ==
  ASSUME NEW c, Forward(c)
  PROVE  \A p \in 1..Len(c) : /\ LastOf(c)[p] \in 1..Len(c)
                              /\ LastOf(c)[p] >= p
                              /\ c[LastOf(c)[p]].next \notin 1..Len(c)
                              /\ LastOf(c)[LastOf(c)[p]] = LastOf(c)[p]
  <1> DEFINE L == Len(c)
             h == LastOf(c)
             Fine(p) == h[p] \in 1..L /\ h[p] >= p /\ c[h[p]].next \notin 1..L /\ h[h[p]] = h[p]
             T == {k \in Nat : \A p \in 1..L : L - p <= k => Fine(p)}
  <1>1. L \in Nat /\ \A p \in 1..L : c[p].next \in 1..L => c[p].next > p
    BY DEF Forward
  <1>2. \A p \in 1..L : h[p] = IF c[p].next \in 1..L THEN h[c[p].next] ELSE p
    BY LastDefined
  <1> HIDE DEF L, h
  <1>3. 0 \in T
    <2>1. ASSUME NEW p \in 1..L, L - p <= 0 PROVE Fine(p)
      <3>1. p = L /\ c[p].next \notin 1..L
        BY <1>1, <2>1
      <3> QED
        BY <1>1, <1>2, <3>1
    <2> QED
      BY <2>1
  <1>4. ASSUME NEW k \in T, k \in Nat PROVE k + 1 \in T
    <2>1. ASSUME NEW p \in 1..L, L - p <= k + 1 PROVE Fine(p)
      <3>1. CASE c[p].next \in 1..L
        <4>1. L - c[p].next <= k /\ c[p].next > p
          BY <1>1, <1>4, <2>1, <3>1
        <4>2. Fine(c[p].next)
          BY <1>4, <3>1, <4>1
        <4>3. h[p] = h[c[p].next]
          BY <1>2, <3>1
        <4> QED
          BY <1>1, <3>1, <4>1, <4>2, <4>3
      <3>2. CASE c[p].next \notin 1..L
        BY <1>1, <1>2, <3>2
      <3> QED
        BY <3>1, <3>2
    <2> QED
      BY <1>4, <2>1
  <1>5. Nat \subseteq T
    <2> HIDE DEF T
    <2> QED
      BY <1>3, <1>4, Induction
  <1>6. ASSUME NEW p \in 1..L PROVE Fine(p)
    <2>1. L - p \in T /\ L - p \in Nat
      BY <1>1, <1>5
    <2> QED
      BY <2>1
  <1> QED
    BY <1>6 DEF L, h

\* d is c with a new cell, hung below the last cell q of a list, or by itself.
Extends(d, c, q, hangs) ==
  /\ Len(d) = Len(c) + 1
  /\ \A p \in 1..Len(c) : d[p].next = IF hangs /\ p = q THEN Len(c) + 1 ELSE c[p].next
  /\ hangs => q \in 1..Len(c) /\ c[q].next \notin 1..Len(c)
  /\ \A p \in 1..Len(c) : c[p].next # Len(c) + 1
  /\ d[Len(c) + 1].next \notin 1..(Len(c) + 1)

\* What a new cell does to the ends of the lists.
LEMMA LastExtended ==
  ASSUME NEW c, NEW d, NEW q, NEW hangs \in BOOLEAN, Forward(c), Forward(d), Extends(d, c, q, hangs)
  PROVE  /\ LastOf(d)[Len(c) + 1] = Len(c) + 1
         /\ \A p \in 1..Len(c) :
              LastOf(d)[p] = IF hangs /\ LastOf(c)[p] = q THEN Len(c) + 1 ELSE LastOf(c)[p]
  <1> DEFINE L == Len(c)
             h == LastOf(c)
             g == LastOf(d)
             Fine(p) == g[p] = IF hangs /\ h[p] = q THEN L + 1 ELSE h[p]
             T == {k \in Nat : \A p \in 1..L : L - p <= k => Fine(p)}
  <1>1. L \in Nat /\ \A p \in 1..L : c[p].next \in 1..L => c[p].next > p
    BY DEF Forward
  <1>2. \A p \in 1..L : h[p] = IF c[p].next \in 1..L THEN h[c[p].next] ELSE p
    BY LastDefined
  <1>3. \A p \in 1..(L + 1) : g[p] = IF d[p].next \in 1..(L + 1) THEN g[d[p].next] ELSE p
    BY LastDefined DEF Extends
  <1>4. /\ \A p \in 1..L : d[p].next = IF hangs /\ p = q THEN L + 1 ELSE c[p].next
        /\ hangs => q \in 1..L /\ c[q].next \notin 1..L
        /\ \A p \in 1..L : c[p].next # L + 1
        /\ d[L + 1].next \notin 1..(L + 1)
    BY DEF Extends
  <1> HIDE DEF L, h, g
  <1>5. g[L + 1] = L + 1
    BY <1>1, <1>3, <1>4
  <1>6. ASSUME NEW p \in 1..L, c[p].next \in 1..L => Fine(c[p].next)
        PROVE  Fine(p)
    <2>0. p \in 1..(L + 1) /\ L + 1 \in 1..(L + 1)
      BY <1>1
    <2>1. CASE c[p].next \in 1..L
      <3>1. ~(hangs /\ p = q) /\ d[p].next = c[p].next /\ c[p].next \in 1..(L + 1)
        BY <1>1, <1>4, <2>1
      <3>2. g[p] = g[c[p].next] /\ h[p] = h[c[p].next]
        BY <1>2, <1>3, <2>0, <2>1, <3>1
      <3> QED
        BY <1>6, <2>1, <3>2
    <2>2. CASE c[p].next \notin 1..L /\ hangs /\ p = q
      <3>1. d[p].next = L + 1 /\ h[p] = p
        BY <1>2, <1>4, <2>2
      <3>2. g[p] = L + 1
        BY <1>3, <1>5, <2>0, <3>1
      <3> QED
        BY <2>2, <3>1, <3>2
    <2>3. CASE c[p].next \notin 1..L /\ ~(hangs /\ p = q)
      <3>1. d[p].next = c[p].next /\ h[p] = p /\ c[p].next # L + 1
        BY <1>2, <1>4, <2>3
      <3>2. d[p].next \notin 1..(L + 1)
        BY <1>1, <2>3, <3>1
      <3>3. g[p] = p
        BY <1>3, <2>0, <3>2
      <3> QED
        BY <2>3, <3>1, <3>3
    <2> QED
      BY <2>1, <2>2, <2>3
  <1>7. 0 \in T
    <2>1. ASSUME NEW p \in 1..L, L - p <= 0 PROVE Fine(p)
      <3>1. c[p].next \notin 1..L
        BY <1>1, <2>1
      <3> HIDE DEF Fine
      <3> QED
        BY <1>6, <3>1
    <2> HIDE DEF Fine
    <2> QED
      BY <2>1
  <1>8. ASSUME NEW k \in T, k \in Nat PROVE k + 1 \in T
    <2>1. ASSUME NEW p \in 1..L, L - p <= k + 1 PROVE Fine(p)
      <3>1. c[p].next \in 1..L => L - c[p].next <= k
        BY <1>1, <1>8, <2>1
      <3> HIDE DEF Fine
      <3> QED
        BY <1>6, <1>8, <3>1
    <2> HIDE DEF Fine
    <2> QED
      BY <1>8, <2>1
  <1>9. Nat \subseteq T
    <2> HIDE DEF T
    <2> QED
      BY <1>7, <1>8, Induction
  <1>10. ASSUME NEW p \in 1..L PROVE Fine(p)
    <2>1. L - p \in T /\ L - p \in Nat
      BY <1>1, <1>9
    <2> HIDE DEF Fine
    <2> QED
      BY <2>1
  <1> QED
    BY <1>5, <1>10 DEF L, h, g

-----------------------------------------------------------------------------
(* A store that grows keeps what its nodes are made of. *)

\* h has the nodes and the cells of g, and perhaps more; a new cell is a list of
\* its own, or hangs below q, the last cell of a list of the stack.
Grows(g, h, q, hangs) ==
  /\ h.input = g.input /\ h.literals = g.literals
  /\ Len(g.tree) \in Nat /\ DOMAIN g.tree = 1..Len(g.tree)
  /\ \A n \in 1..Len(g.tree) : n \in DOMAIN h.tree /\ h.tree[n] = g.tree[n]
  /\ Len(g.cells) \in Nat /\ DOMAIN g.cells = 1..Len(g.cells)
  /\ \A p \in DOMAIN h.cells : p \in 1..Len(g.cells) \/ p = Len(g.cells) + 1
  /\ \A p \in 1..Len(g.cells) :
       /\ p \in DOMAIN h.cells
       /\ h.cells[p].item = g.cells[p].item
       /\ Last(g, p) \in 1..Len(g.cells) /\ Last(g, Last(g, p)) = Last(g, p)
       /\ Last(h, p) = IF hangs /\ Last(g, p) = q THEN Len(g.cells) + 1 ELSE Last(g, p)
  /\ Len(g.cells) + 1 \in DOMAIN h.cells => Last(h, Len(g.cells) + 1) = Len(g.cells) + 1
  /\ hangs => \E l \in g.lists : Last(g, l) = q
  /\ g.lists \subseteq 1..Len(g.cells)
  /\ h.lists \subseteq g.lists \cup (DOMAIN h.cells \ 1..Len(g.cells))

\* The input stays what it is.
LEMMA KindGrows ==
  ASSUME NEW g, NEW h, NEW q, NEW hangs, Grows(g, h, q, hangs)
  PROVE  \A i : Kind(h, i) = Kind(g, i)
  BY DEF Kind, Grows

\* A node stays what it is.
LEMMA PartGrows ==
  ASSUME NEW g, NEW h, NEW q, NEW hangs, Grows(g, h, q, hangs),
         NEW n \in 1..(Len(g.tree) + 1), NEW v, NEW sym, NEW a, NEW b, Part(g, n, v, sym, a, b)
  PROVE  Part(h, n, v, sym, a, b)
  <1>1. Len(g.tree) \in Nat /\ v \in 1..(n - 1)
    BY DEF Grows, Part
  <1>2. v \in 1..Len(g.tree)
    BY <1>1
  <1>3. h.tree[v] = g.tree[v]
    BY <1>2 DEF Grows
  <1> QED
    BY <1>3 DEF Part

\* A list that nothing is appended to.
LEMMA ListGrows ==
  ASSUME NEW g, NEW h, NEW q, NEW hangs, Grows(g, h, q, hangs),
         NEW n \in 1..(Len(g.tree) + 1), NEW sym, NEW f, NEW a, NEW b, ListAt(g, n, sym, f, a, b),
         ~(hangs /\ Last(g, f) = q)
  PROVE  ListAt(h, n, sym, f, a, b) /\ Last(h, f) = Last(g, f)
  <1> DEFINE L == Len(g.cells)
             N == Len(g.tree)
  <1>1. /\ L \in Nat /\ DOMAIN g.cells = 1..L /\ N \in Nat
        /\ \A p \in DOMAIN h.cells : p \in 1..L \/ p = L + 1
        /\ \A p \in 1..L : /\ p \in DOMAIN h.cells
                           /\ h.cells[p].item = g.cells[p].item
                           /\ Last(g, p) \in 1..L /\ Last(g, Last(g, p)) = Last(g, p)
                           /\ Last(h, p) = IF hangs /\ Last(g, p) = q THEN L + 1 ELSE Last(g, p)
        /\ L + 1 \in DOMAIN h.cells => Last(h, L + 1) = L + 1
        /\ \A m \in 1..N : h.tree[m] = g.tree[m]
    BY DEF Grows
  <1>2. /\ f \in DOMAIN g.cells
        /\ \A p \in DOMAIN g.cells : Last(g, p) = Last(g, f) =>
             g.cells[p].item \in 1..(n - 1) /\ g.tree[g.cells[p].item].sym = Element(sym)
        /\ g.tree[g.cells[f].item].from = a
        /\ g.tree[g.cells[Last(g, f)].item].to = b
    BY DEF ListAt
  <1> HIDE DEF L, N
  <1>3. f \in 1..L /\ Last(h, f) = Last(g, f) /\ Last(g, f) \in 1..L
    BY <1>1, <1>2
  <1>4. ASSUME NEW p \in DOMAIN h.cells, Last(h, p) = Last(h, f)
        PROVE  /\ p \in 1..L /\ Last(g, p) = Last(g, f)
               /\ h.cells[p].item = g.cells[p].item
               /\ g.cells[p].item \in 1..(n - 1) /\ g.cells[p].item \in 1..N
    <2>1. p \in 1..L \/ p = L + 1
      BY <1>1
    <2>2. p \in 1..L
      BY <1>1, <1>3, <1>4, <2>1
    <2>3. Last(g, p) = Last(g, f)
      BY <1>1, <1>3, <1>4, <2>2
    <2>4. g.cells[p].item \in 1..(n - 1)
      BY <1>1, <1>2, <2>2, <2>3
    <2>5. n \in 1..(N + 1)
      BY DEF N
    <2> QED
      BY <1>1, <2>2, <2>3, <2>4, <2>5
  <1>5. f \in DOMAIN h.cells
    BY <1>1, <1>3
  <1>6. /\ Last(g, f) \in DOMAIN h.cells
        /\ Last(h, Last(g, f)) = Last(h, f)
    BY <1>1, <1>3
  <1>7. ASSUME NEW p \in DOMAIN h.cells, Last(h, p) = Last(h, f)
        PROVE  h.cells[p].item \in 1..(n - 1) /\ h.tree[h.cells[p].item].sym = Element(sym)
    BY <1>1, <1>2, <1>4, <1>7
  <1>8. h.tree[h.cells[f].item].from = a
    <2>1. h.cells[f].item = g.cells[f].item /\ g.cells[f].item \in 1..N
      BY <1>4, <1>5
    <2> QED
      BY <1>1, <1>2, <2>1
  <1>9. h.tree[h.cells[Last(h, f)].item].to = b
    <2>1. h.cells[Last(g, f)].item = g.cells[Last(g, f)].item /\ g.cells[Last(g, f)].item \in 1..N
      BY <1>4, <1>6
    <2> QED
      BY <1>1, <1>2, <1>3, <2>1
  <1> QED
    BY <1>3, <1>5, <1>7, <1>8, <1>9 DEF ListAt

\* A list that is part of a node stays what it is: nothing can be appended to it.
LEMMA HeldGrows ==
  ASSUME NEW g, NEW h, NEW q, NEW hangs, Grows(g, h, q, hangs),
         NEW n \in 1..(Len(g.tree) + 1), NEW sym, NEW f, NEW a, NEW b, Held(g, n, sym, f, a, b)
  PROVE  Held(h, n, sym, f, a, b)
  <1>1. ~(hangs /\ Last(g, f) = q)
    BY DEF Grows, Held, Frozen
  <1>2. ListAt(h, n, sym, f, a, b) /\ Last(h, f) = Last(g, f)
    BY <1>1, ListGrows DEF Held
  <1>3. f \in 1..Len(g.cells)
    BY DEF Held, ListAt, Grows
  <1>4. ASSUME NEW l \in h.lists PROVE Last(h, l) # Last(h, f)
    <2> DEFINE L == Len(g.cells)
    <2>1. /\ L \in Nat
          /\ \A p \in DOMAIN h.cells : p \in 1..L \/ p = L + 1
          /\ \A p \in 1..L : /\ Last(g, p) \in 1..L
                             /\ Last(h, p) = IF hangs /\ Last(g, p) = q THEN L + 1 ELSE Last(g, p)
          /\ L + 1 \in DOMAIN h.cells => Last(h, L + 1) = L + 1
          /\ l \in g.lists \/ l \in DOMAIN h.cells \ 1..L
          /\ l \in g.lists => l \in 1..L /\ Last(g, l) # Last(g, f)
          /\ Last(g, f) \in 1..L
      BY <1>3, <1>4 DEF Grows, Held, Frozen
    <2> HIDE DEF L
    <2>2. CASE l \in g.lists
      BY <1>2, <2>1, <2>2
    <2>3. CASE l \in DOMAIN h.cells \ 1..L
      <3>1. l = L + 1 /\ l \in DOMAIN h.cells
        BY <2>1, <2>3
      <3> QED
        BY <1>2, <2>1, <3>1
    <2> QED
      BY <2>1, <2>2, <2>3
  <1> QED
    BY <1>2, <1>4 DEF Held, Frozen

\* So a node that was formed stays so.
LEMMA FormedGrows ==
  ASSUME NEW g, NEW h, NEW q, NEW hangs, Grows(g, h, q, hangs),
         NEW n \in 1..(Len(g.tree) + 1), NEW sym, NEW v, NEW a, NEW b, Formed(g, n, sym, v, a, b)
  PROVE  Formed(h, n, sym, v, a, b)
  <1>1. \A i : Kind(h, i) = Kind(g, i)
    BY KindGrows
  <1>2. \A u, s, c, d : Part(g, n, u, s, c, d) => Part(h, n, u, s, c, d)
    BY PartGrows
  <1>3. \A s, f, c, d : Held(g, n, s, f, c, d) => Held(h, n, s, f, c, d)
    BY HeldGrows
  <1>4. \A u, syms, c : Leaf(g, u, syms, c) => Leaf(h, u, syms, c)
    BY <1>1 DEF Leaf
  <1>5. FormedOperator(g, n, sym, v, a, b) => FormedOperator(h, n, sym, v, a, b)
    BY <1>2, <1>4, Zenon DEF FormedOperator
  <1>6. FormedFactor(g, n, v, a, b) => FormedFactor(h, n, v, a, b)
    BY <1>1, <1>2, <1>4, Zenon DEF FormedFactor
  <1>7. FormedNumber(g, v, a, b) => FormedNumber(h, v, a, b)
    <2>1. h.literals = g.literals
      BY DEF Grows
    <2> QED
      BY <1>1, <2>1, Zenon DEF FormedNumber
  <1>8. FormedType(g, n, v, a, b) => FormedType(h, n, v, a, b)
    BY <1>1, <1>3, <1>4, Zenon DEF FormedType
  <1>9. FormedTypedId(g, n, v, a, b) => FormedTypedId(h, n, v, a, b)
    BY <1>1, <1>2, <1>4, Zenon DEF FormedTypedId
  <1>10. FormedDeref(g, n, v, a, b) => FormedDeref(h, n, v, a, b)
    BY <1>1, <1>3, <1>4, Zenon DEF FormedDeref
  <1>11. FormedCall(g, n, v, a, b) => FormedCall(h, n, v, a, b)
    BY <1>1, <1>3, <1>4, Zenon DEF FormedCall
  <1>12. FormedFuncHeader(g, n, v, a, b) => FormedFuncHeader(h, n, v, a, b)
    BY <1>1, <1>2, <1>3, Zenon DEF FormedFuncHeader
  <1>13. FormedIf(g, n, v, a, b) => FormedIf(h, n, v, a, b)
    BY <1>1, <1>2, Zenon DEF FormedIf
  <1>14. FormedAssignment(g, n, v, a, b) => FormedAssignment(h, n, v, a, b)
    BY <1>1, <1>2, <1>4, Zenon DEF FormedAssignment
  <1>15. FormedStatement(g, n, v, a, b) => FormedStatement(h, n, v, a, b)
    BY <1>1, <1>2, Zenon DEF FormedStatement
  <1>16. FormedBlock(g, n, v, a, b) => FormedBlock(h, n, v, a, b)
    BY <1>1, <1>3, Zenon DEF FormedBlock
  <1>17. FormedFunction(g, n, v, a, b) => FormedFunction(h, n, v, a, b)
    BY <1>1, <1>2, <1>4, Zenon DEF FormedFunction
  <1>18. Part(g, n, v, "LOGIC_DISJ", a, b) => Part(h, n, v, "LOGIC_DISJ", a, b)
    BY <1>2
  <1>19. b = a + 1 /\ Kind(g, a) = "MODULE" /\ Leaf(g, v, Tokens \ {"DECIMAL_LIT", "HEX_LIT"}, b) =>
           b = a + 1 /\ Kind(h, a) = "MODULE" /\ Leaf(h, v, Tokens \ {"DECIMAL_LIT", "HEX_LIT"}, b)
    BY <1>1, <1>4
  <1> QED
    BY <1>5, <1>6, <1>7, <1>8, <1>9, <1>10, <1>11, <1>12, <1>13, <1>14, <1>15, <1>16, <1>17, <1>18, <1>19 DEF Formed

\* The nodes of g are still formed in h.
LEMMA NodesGrow ==
  ASSUME NEW g, NEW h, NEW q, NEW hangs, Grows(g, h, q, hangs),
         NEW n \in 1..Len(g.tree), NodeFormed(g, n, g.tree[n])
  PROVE  NodeFormed(h, n, h.tree[n])
  <1>1. n \in 1..(Len(g.tree) + 1) /\ h.tree[n] = g.tree[n]
    BY DEF Grows
  <1>2. Formed(h, n, g.tree[n].sym, g.tree[n].is, g.tree[n].from, g.tree[n].to)
    BY <1>1, FormedGrows DEF NodeFormed
  <1>3. h.input = g.input
    BY DEF Grows
  <1>k. \A i : Kind(h, i) = Kind(g, i)
    BY KindGrows
  <1>4. Edges(h, g.tree[n].sym, g.tree[n].from, g.tree[n].to)
    BY <1>3, <1>k, Zenon DEF NodeFormed, Edges
  <1> QED
    BY <1>1, <1>2, <1>4 DEF NodeFormed

-----------------------------------------------------------------------------
(* What a reduction finds, and what it leaves. *)

\* The tokens of peeked[n].
From(n) == stack[Depth - n].from
To(n) == stack[Depth - n].to

\* What is known of the node peeked[n] before the reduction.
Found(n) ==
  /\ Peek(n) \in Symbols
  /\ From(n) \in 1..To(n) /\ To(n) \in 1..Len(input)
  /\ Placed(Store, Value(n), Peek(n), From(n), To(n))
  /\ Peek(n) \in NonTerminals \ ListKinds => Edges(Store, Peek(n), From(n), To(n))

\* What is known of the handle of a rule before the reduction.
Finds(r) ==
  LET k == Len(r.rhs) IN
  /\ k \in 1..5
  /\ \A n \in 0..(k - 1) : Peek(n) \in r.rhs[k - n] /\ Found(n)
  /\ \A n \in 0..(k - 2) : From(n) = To(n + 1) + 1
  /\ TypeOf(To(0) + 1) \in r.la
  /\ Peek(k) \in r.under
  /\ Peek(k) \in Tokens => TypeOf(From(k - 1) - 1) = Peek(k)
  /\ Built(r).from = From(k - 1) /\ Built(r).to = To(0)
  /\ r.at = 64 => Peek(0) \notin {"DECIMAL_LIT", "HEX_LIT"}

LEMMA StoreKind == \A i : Kind(Store, i) = TypeOf(i)
  BY DEF Kind, Store, TypeOf

\* Tokens, nodes and the bottom of the stack are different things.
LEMMA Distinct ==
  /\ Tokens \cap NonTerminals = {} /\ Bottom \notin Symbols /\ ListKinds \subseteq NonTerminals
  /\ Symbols = Tokens \cup NonTerminals
  BY DEF Tokens, NonTerminals, ListKinds, IdTokens, Relops, Mulops, Addops, Bottom, Symbols

\* The nodes that a rule can look at cover tokens.
LEMMA StackSpans ==
  ASSUME IInv, NEW i \in 1..Depth, Depth - i <= 4
  PROVE  stack[i].from \in 1..stack[i].to /\ stack[i].to \in 1..Len(input)
  <1>1. Depth \in Nat /\ stack[i].from \in Nat /\ stack[i].to \in Nat
        /\ (i > 1 => stack[i - 1].to \in Nat)
    BY StackNodes DEF IInv
  <1>2. stack[i].from <= stack[i].to /\ stack[Depth].to = pos
    BY <1>1 DEF IInv, TilesInput
  <1>3. stack[i].from >= 1
    BY <1>1 DEF IInv, TilesInput
  <1>4. stack[i].to <= stack[Depth].to
    BY <1>1, InOrder DEF IInv
  <1>5. pos \in 0..Len(input) /\ Len(input) \in Nat
    BY DEF IInv, TypeOK
  <1> QED
    BY <1>1, <1>2, <1>3, <1>4, <1>5

\* A number is reduced before the header it might be the name of is looked for.
LEMMA NumberFirst ==
  ASSUME TypeOK, NEW r \in Takeable, r.at = 64
  PROVE  Peek(0) \notin {"DECIMAL_LIT", "HEX_LIT"}
  <1> SUFFICES ASSUME NEW sym \in {"DECIMAL_LIT", "HEX_LIT"}, Peek(0) = sym PROVE FALSE
    OBVIOUS
  <1> DEFINE q == Rule(IF sym = "DECIMAL_LIT" THEN 42 ELSE 49, "NUMBER", <<S(sym)>>, 1, 0)
  <1>1. q \in Rules
    BY DEF Rules, NumberRules
  <1>2. /\ q.at \in {42, 49} /\ q.rhs = <<{sym}>> /\ q.under = Symbols \cup {Bottom} /\ q.la = Lookaheads /\ q.sure
    BY DEF Rule, S
  <1>3. Depth \in Nat /\ 1 <= Depth /\ \A i \in 1..Depth : stack[i].sym \in Symbols
    <2> DEFINE k == Len(r.rhs)
    <2>1. k \in 1..5 /\ k <= Depth
      BY TakenRule
    <2>2. Depth \in Nat /\ \A i \in 1..Depth : stack[i].sym \in Symbols
      BY StackNodes
    <2> HIDE DEF k
    <2> QED
      BY <2>1, <2>2
  <1> HIDE DEF q
  <1>4. Len(q.rhs) = 1 /\ q.rhs[1] = {sym}
    BY <1>2
  <1>5. Peek(1) \in Symbols \cup {Bottom}
    <2>1. 1 < Depth => Depth - 1 \in 1..Depth
      BY <1>3
    <2> QED
      BY <1>3, <2>1 DEF Peek
  <1>6. \A i \in 0..(1 - 1) : Peek(i) \in q.rhs[1 - i]
    BY <1>4
  <1>7. lookahead \in Lookaheads
    BY DEF TypeOK
  <1>8. Matches(q)
    BY <1>2, <1>3, <1>4, <1>5, <1>6, <1>7 DEF Matches
  <1>9. r.at <= q.at
    BY <1>1, <1>2, <1>8 DEF Takeable
  <1> QED
    BY <1>2, <1>9

\* What a rule that is taken finds: its handle, end to end, and the tokens around it.
LEMMA RuleFinds ==
  ASSUME TreeInv, phase = "reduce", NEW r \in Takeable
  PROVE  Finds(r)
  <1> DEFINE k == Len(r.rhs)
  <1>1. /\ k \in 1..5 /\ k <= Depth /\ Depth \in Nat /\ Depth = Len(stack)
        /\ \A i \in 1..Depth : stack[i].sym \in Symbols
    BY TakenRule, StackNodes DEF TreeInv, BInv, IInv
  <1>2. Matches(r)
    BY DEF Takeable
  <1>k. k = Len(r.rhs)
    OBVIOUS
  <1> HIDE DEF k
  <1>3. ASSUME NEW n \in 0..(k - 1)
        PROVE  Peek(n) \in r.rhs[k - n] /\ Found(n)
    <2> DEFINE i == Depth - n
    <2>1. i \in 1..Depth /\ Depth - i <= 4 /\ n < Depth
      BY <1>1
    <2>2. Peek(n) = stack[i].sym /\ Value(n) = values[i] /\ From(n) = stack[i].from /\ To(n) = stack[i].to
      BY <2>1 DEF Peek, Value, From, To
    <2>3. Peek(n) \in r.rhs[k - n]
      BY <1>2, <1>3, <1>k DEF Matches
    <2> HIDE DEF i
    <2>4. Peek(n) \in Symbols /\ From(n) \in 1..To(n) /\ To(n) \in 1..Len(input)
      BY <1>1, <2>1, <2>2, StackSpans DEF TreeInv, BInv
    <2>5. Placed(Store, Value(n), Peek(n), From(n), To(n))
      BY <2>1, <2>2 DEF TreeInv, StackPlaced
    <2>6. Peek(n) \in NonTerminals \ ListKinds => Edges(Store, Peek(n), From(n), To(n))
      <3> SUFFICES ASSUME Peek(n) \in NonTerminals \ ListKinds PROVE Edges(Store, Peek(n), From(n), To(n))
        OBVIOUS
      <3>1. /\ Value(n) \in 1..Len(tree)
            /\ tree[Value(n)].sym = Peek(n) /\ tree[Value(n)].from = From(n) /\ tree[Value(n)].to = To(n)
        <4>1. Part(Store, Len(tree) + 1, Value(n), Peek(n), From(n), To(n))
          BY <2>5 DEF Placed, Store
        <4>2. Len(tree) \in Nat
          BY Heap DEF TreeInv
        <4> QED
          BY <4>1, <4>2 DEF Part, Store
      <3>2. NodeFormed(Store, Value(n), tree[Value(n)])
        BY <3>1, Heap DEF TreeInv, TreeFormed
      <3> QED
        BY <3>1, <3>2 DEF NodeFormed
    <2> QED
      BY <2>3, <2>4, <2>5, <2>6 DEF Found
  <1>4. ASSUME NEW n \in 0..(k - 2) PROVE From(n) = To(n + 1) + 1
    <2>1. Depth - n \in 1..Depth /\ Depth - n > 1 /\ Depth - (n + 1) = (Depth - n) - 1
      BY <1>1
    <2> QED
      BY <2>1 DEF TreeInv, BInv, IInv, TilesInput, From, To
  <1>5. TypeOf(To(0) + 1) \in r.la
    <2>1. To(0) = pos
      BY <1>1 DEF TreeInv, BInv, IInv, TilesInput, To
    <2> QED
      BY <1>2, <2>1 DEF TreeInv, LookaheadIsNext, Matches
  <1>6. Peek(k) \in r.under
    BY <1>2, <1>k DEF Matches
  <1>7. Peek(k) \in Tokens => TypeOf(From(k - 1) - 1) = Peek(k)
    <2> SUFFICES ASSUME Peek(k) \in Tokens PROVE TypeOf(From(k - 1) - 1) = Peek(k)
      OBVIOUS
    <2>1. k < Depth
      BY Distinct DEF Peek
    <2> DEFINE j == Depth - k
    <2>2. j \in 1..Depth /\ j + 1 \in 1..Depth /\ Depth - (k - 1) = j + 1 /\ j = (j + 1) - 1
      BY <1>1, <2>1
    <2>3. Peek(k) = stack[j].sym /\ From(k - 1) = stack[j + 1].from
      BY <2>1, <2>2 DEF Peek, From
    <2>4. stack[j + 1].from = stack[j].to + 1
      BY <1>1, <2>2 DEF TreeInv, BInv, IInv, TilesInput
    <2> HIDE DEF j
    <2>5. stack[j].from = stack[j].to /\ stack[j].sym = TypeOf(stack[j].from)
      BY <2>2, <2>3 DEF TreeInv, BInv, IInv, TilesInput
    <2>6. stack[j].to \in Nat
      BY <2>2, StackNodes DEF TreeInv, BInv, IInv
    <2> QED
      BY <2>3, <2>4, <2>5, <2>6
  <1>8. Built(r).from = From(k - 1) /\ Built(r).to = To(0)
    <2>1. Depth - (k - 1) = Depth - k + 1 /\ Depth - 0 = Depth
      BY <1>1
    <2> QED
      BY <2>1, <1>k DEF Built, Node, From, To
  <1>9. r.at = 64 => Peek(0) \notin {"DECIMAL_LIT", "HEX_LIT"}
    BY NumberFirst DEF TreeInv, BInv, IInv
  <1> QED
    BY <1>1, <1>3, <1>4, <1>5, <1>6, <1>7, <1>8, <1>9 DEF Finds, k

-----------------------------------------------------------------------------
(* The store after a reduction. *)

LEMMA CellsForward == BInv => Forward(cells)
  BY DEF BInv, ListsOwned, Forward

LEMMA ListsPlaced ==
  ASSUME BInv
  PROVE  \A l : l \in Lists <=> \E i \in 1..Depth : stack[i].sym \in ListKinds /\ l = values[i]
  BY DEF Lists

\* The appending branches, and what they append to.
Appends(r) ==
  \/ Is(r, 195, "TYPED_ID_LIST", <<{"TYPED_ID_LIST"}, {"COMMA"}, {"TYPED_ID"}>>)
  \/ Is(r, 506, "EXPRESSION_LIST", <<{"EXPRESSION_LIST"}, {"COMMA"}, {"EXPRESSION"}>>)
  \/ Is(r, 703, "STATEMENT_LIST", <<{"STATEMENT_LIST"}, {"STATEMENT"}>>)

LEMMA AppendingRules == \A r \in Rules : r.at \in Appending => Appends(r)
  <1> SUFFICES ASSUME NEW r \in Rules, r.at \in Appending PROVE Appends(r)
    OBVIOUS
  <1>1. CASE TypedIdRule(r) \/ ExpressionListRule(r) \/ StatementListRule(r)
    BY <1>1 DEF TypedIdRule, ExpressionListRule, StatementListRule, Is, Appends, Appending
  <1>2. CASE NumberRule(r) \/ HeaderRule(r) \/ TypeNameRule(r) \/ ArrayTypeRule(r) \/ PointerTypeRule(r)
    BY <1>2 DEF NumberRule, HeaderRule, TypeNameRule, ArrayTypeRule, PointerTypeRule, Is, Appending
  <1>3. CASE FactorRule(r) \/ ParenthesesRule(r) \/ TermRule(r) \/ MathRule(r) \/ RelationalRule(r)
    BY <1>3 DEF FactorRule, ParenthesesRule, TermRule, MathRule, RelationalRule, Is, Appending
  <1>4. CASE ConjRule(r) \/ DisjRule(r) \/ ExpressionRule(r) \/ DerefRule(r) \/ CallRule(r)
    BY <1>4 DEF ConjRule, DisjRule, ExpressionRule, DerefRule, CallRule, Is, Appending
  <1>5. CASE FuncHeaderRule(r) \/ IfRule(r) \/ AssignmentRule(r) \/ StatementRule(r) \/ BlockRule(r) \/ FunctionRule(r)
    BY <1>5 DEF FuncHeaderRule, IfRule, AssignmentRule, StatementRule, BlockRule, FunctionRule, Is, Appending
  <1> QED
    BY <1>1, <1>2, <1>3, <1>4, <1>5, Catalogue

\* The top of the stack says which append it is.
LEMMA AppendTop ==
  ASSUME NEW r \in Takeable, r.at \in Appending
  PROVE  \/ Peek(0) = "TYPED_ID" /\ Len(r.rhs) = 3
         \/ Peek(0) = "EXPRESSION" /\ Len(r.rhs) = 3
         \/ Peek(0) = "STATEMENT" /\ Len(r.rhs) = 2
  <1>1. Appends(r) /\ Matches(r)
    BY AppendingRules DEF Takeable
  <1>2. \/ Len(r.rhs) = 3 /\ r.rhs[3] = {"TYPED_ID"}
        \/ Len(r.rhs) = 3 /\ r.rhs[3] = {"EXPRESSION"}
        \/ Len(r.rhs) = 2 /\ r.rhs[2] = {"STATEMENT"}
    BY <1>1 DEF Appends, Is
  <1>3. CASE Len(r.rhs) = 3
    <2>1. Peek(0) \in r.rhs[3]
      BY <1>1, <1>3 DEF Matches
    <2> QED
      BY <1>2, <1>3, <2>1
  <1>4. CASE Len(r.rhs) = 2
    <2>1. Peek(0) \in r.rhs[2]
      BY <1>1, <1>4 DEF Matches
    <2> QED
      BY <1>2, <1>4, <2>1
  <1> QED
    BY <1>2, <1>3, <1>4

\* An append stands somewhere in the list it found on the stack, and ends at its last cell.
LEMMA StandsLast ==
  ASSUME TreeInv, NEW r \in Takeable, r.at \in Appending
  PROVE  /\ Stand(r) \in 1..Len(cells)
         /\ Value(Len(r.rhs) - 1) \in Lists
         /\ LastOf(cells)[Stand(r)] = LastOf(cells)[Value(Len(r.rhs) - 1)]
  <1>1. /\ stack[Depth - Len(r.rhs) + 1].sym \in ListKinds
        /\ Value(Len(r.rhs) - 1) = values[Depth - Len(r.rhs) + 1]
        /\ Stand(r) \in 1..Len(cells)
    BY StandsInList DEF TreeInv
  <1>2. Depth - Len(r.rhs) + 1 \in 1..Depth
    <2>1. Len(r.rhs) \in 1..5 /\ Len(r.rhs) <= Depth
      BY TakenRule DEF TreeInv, BInv, IInv
    <2>2. Depth \in Nat
      BY Heap DEF TreeInv
    <2> DEFINE k == Len(r.rhs)
    <2> HIDE DEF k
    <2>3. k \in 1..5 /\ k <= Depth
      BY <2>1 DEF k
    <2>4. Depth - k + 1 \in 1..Depth
      BY <2>2, <2>3
    <2> QED
      BY <2>4 DEF k
  <1>3. Value(Len(r.rhs) - 1) \in Lists
    BY <1>1, <1>2 DEF Lists
  <1>4. CASE curr = NULL
    BY <1>1, <1>3, <1>4 DEF Stand
  <1>5. CASE curr # NULL
    <2>1. PICK s \in Takeable : s.at \in Appending /\ Last(Store, curr) = Last(Store, Value(Len(s.rhs) - 1))
      BY <1>5 DEF TreeInv, CurrInList
    <2>2. Len(s.rhs) = Len(r.rhs)
      BY <2>1, AppendTop
    <2> QED
      BY <1>1, <1>3, <1>5, <2>1, <2>2 DEF Stand, Last, Store
  <1> QED
    BY <1>4, <1>5

\* A reduction adds to the store and changes nothing else: one cell hung below the list it appends to.
LEMMA StoreGrows ==
  ASSUME TreeInv, BInv', NEW r \in Takeable, Build(r), input' = input, literals' = literals
  PROVE  Grows(Store, Store', Stand(r), r.at \in Appending)
  <1> DEFINE L == Len(cells)
             M == Len(cells')
             q == Stand(r)
             hangs == r.at \in Appending
             g == Store
             h == Store'
             m == Depth - Len(r.rhs) + 1
  <1>1. /\ g.input = input /\ g.literals = literals /\ g.tree = tree /\ g.cells = cells /\ g.lists = Lists
        /\ h.input = input' /\ h.literals = literals' /\ h.tree = tree' /\ h.cells = cells' /\ h.lists = Lists'
    BY DEF Store
  <1>2. /\ Len(tree) \in Nat /\ DOMAIN tree = 1..Len(tree)
        /\ L \in Nat /\ DOMAIN cells = 1..L
        /\ Depth \in Nat
        /\ \A p \in 1..L : cells[p].next \in {NULL, Unwritten} \cup 1..L
        /\ \A i \in 1..Depth : stack[i].sym \in ListKinds => values[i] \in 1..L
    BY Heap DEF TreeInv
  <1>3. \A n \in 1..Len(tree) : n \in DOMAIN tree' /\ tree'[n] = tree[n]
    BY TreeEffect DEF TreeInv
  <1>4. Forward(cells) /\ Forward(cells')
    BY CellsForward DEF TreeInv, BInv, ListsOwned, Forward
  <1>5. M \in Nat /\ DOMAIN cells' = 1..M
    BY DEF BInv
  <1>6. /\ \A p \in 1..L : cells'[p].item = cells[p].item
        /\ \/ /\ r.at \in Appending \cup Starting /\ M = L + 1
              /\ \A p \in 1..L : cells'[p].next = IF hangs /\ p = q THEN L + 1 ELSE cells[p].next
              /\ cells'[L + 1].next \in {NULL, Unwritten}
           \/ r.at \notin Appending \cup Starting /\ cells' = cells
    BY CellsEffect, SMTT(30) DEF TreeInv, Appending, Starting
  <1>7. \A p \in 1..L : /\ LastOf(cells)[p] \in 1..L
                        /\ cells[LastOf(cells)[p]].next \notin 1..L
                        /\ LastOf(cells)[LastOf(cells)[p]] = LastOf(cells)[p]
    BY <1>4, LastCells
  <1>8. hangs => /\ q \in 1..L /\ cells[q].next \notin 1..L
                 /\ LastOf(cells)[q] = q
                 /\ \E l \in Lists : LastOf(cells)[l] = q
    <2> SUFFICES ASSUME hangs
                 PROVE  /\ q \in 1..L /\ cells[q].next \notin 1..L
                        /\ LastOf(cells)[q] = q
                        /\ \E l \in Lists : LastOf(cells)[l] = q
      OBVIOUS
    <2>1. q \in 1..L /\ Value(Len(r.rhs) - 1) \in Lists /\ LastOf(cells)[q] = LastOf(cells)[Value(Len(r.rhs) - 1)]
      BY StandsLast
    <2>2. cells[q].next \in {NULL, Unwritten}
      BY DEF Build, After
    <2>3. cells[q].next \notin 1..L
      BY <1>2, <2>2, UnwrittenAssumption DEF NULL
    <2>4. LastOf(cells)[q] = q
      BY <1>2, <1>4, <2>1, <2>3, LastDefined
    <2> QED
      BY <2>1, <2>3, <2>4
  <1>9. /\ \A p \in 1..L : LastOf(cells')[p] = IF hangs /\ LastOf(cells)[p] = q THEN L + 1 ELSE LastOf(cells)[p]
        /\ M = L + 1 => LastOf(cells')[L + 1] = L + 1
        /\ M \in {L, L + 1} /\ (hangs => M = L + 1)
    <2>1. CASE r.at \in Appending \cup Starting
      <3>1. M = L + 1 /\ cells'[L + 1].next \in {NULL, Unwritten}
            /\ \A p \in 1..L : cells'[p].next = IF hangs /\ p = q THEN L + 1 ELSE cells[p].next
        BY <1>6, <2>1
      <3>2. cells'[L + 1].next \notin 1..(L + 1) /\ \A p \in 1..L : cells[p].next # L + 1
        BY <1>2, <3>1, UnwrittenAssumption DEF NULL
      <3>3. Extends(cells', cells, q, hangs)
        BY <1>8, <3>1, <3>2 DEF Extends
      <3>4. hangs \in BOOLEAN
        OBVIOUS
      <3> HIDE DEF hangs, q
      <3> QED
        BY <1>4, <3>1, <3>3, <3>4, LastExtended
    <2>2. CASE r.at \notin Appending \cup Starting
      BY <1>2, <1>6, <2>2
    <2> QED
      BY <2>1, <2>2
  <1>10. \A l \in Lists : l \in 1..L
    BY <1>2 DEF Lists
  <1>11. ASSUME NEW l \in Lists' PROVE l \in Lists \/ l \in DOMAIN cells' \ 1..L
    <2>1. /\ m \in 1..Depth /\ Depth' = m
          /\ \A i \in 1..(m - 1) : stack'[i] = stack[i] /\ values'[i] = values[i]
          /\ stack'[m].sym = r.lhs
          /\ values'[m] = Answer(r)
      BY BuildEffect DEF TreeInv
    <2> HIDE DEF m
    <2>2. PICK i \in 1..m : stack'[i].sym \in ListKinds /\ l = values'[i]
      BY <1>11, <2>1 DEF Lists
    <2>3. CASE i # m
      <3>1. i \in 1..(m - 1) /\ i \in 1..Depth
        BY <1>2, <2>1, <2>3
      <3> QED
        BY <2>1, <2>2, <3>1 DEF Lists
    <2>4. CASE i = m
      <3>1. \/ stack[m].sym \in ListKinds /\ Answer(r) = values[m]
            \/ r.at \in Starting \ Appending /\ Answer(r) = L + 1
        <4>1. r.lhs \in ListKinds
          BY <2>1, <2>2, <2>4
        <4> QED
          BY <4>1, ListAnswer DEF TreeInv, m
      <3>2. CASE stack[m].sym \in ListKinds /\ Answer(r) = values[m]
        BY <2>1, <2>2, <2>4, <3>2 DEF Lists
      <3>3. CASE r.at \in Starting \ Appending /\ Answer(r) = L + 1
        <4>1. l = L + 1 /\ M = L + 1
          BY <1>6, <2>1, <2>2, <2>4, <3>3
        <4> QED
          BY <1>2, <1>5, <4>1
      <3> QED
        BY <3>1, <3>2, <3>3
    <2> QED
      BY <2>3, <2>4
  <1> HIDE DEF g, h, q, hangs, L, M
  <1>12. \A p \in DOMAIN cells' : p \in 1..L \/ p = L + 1
    BY <1>2, <1>5, <1>9
  <1>13. \A p \in 1..L : p \in DOMAIN cells'
    BY <1>2, <1>5, <1>9
  <1>14. L + 1 \in DOMAIN cells' => LastOf(cells')[L + 1] = L + 1
    BY <1>2, <1>5, <1>9
  <1> QED
    BY <1>1, <1>2, <1>3, <1>6, <1>7, <1>8, <1>9, <1>10, <1>11, <1>12, <1>13, <1>14 DEF Grows, Last, g, h, L, q, hangs

-----------------------------------------------------------------------------
(* What the branches that build a node have at hand: the parts of the handle, *)
(* as they are in the store h that the reduction leaves.                      *)

\* What is known of the node peeked[n] in the store that the reduction leaves.
Given(h, n) ==
  /\ Peek(n) \in Symbols
  /\ From(n) \in 1..To(n) /\ To(n) \in 1..Len(h.input)
  /\ Peek(n) \in Tokens => Value(n) = From(n) /\ To(n) = From(n) /\ Kind(h, From(n)) = Peek(n)
  /\ Peek(n) \in NonTerminals \ ListKinds =>
       Part(h, NewNode, Value(n), Peek(n), From(n), To(n)) /\ Edges(h, Peek(n), From(n), To(n))
  /\ Peek(n) \in ListKinds => Held(h, NewNode, Peek(n), Value(n), From(n), To(n))

\* A new cell that holds a node is a list of one.
GivesList(h, item) ==
  \A n \in Nat : \A sym, a, b : Part(h, n, item, Element(sym), a, b) => Held(h, n, sym, NewCell, a, b)

\* What is known of the handle of a rule there.
Gives(h, r) ==
  LET k == Len(r.rhs) IN
  /\ k \in 1..5
  /\ Len(tree) \in Nat
  /\ \A n \in 0..(k - 1) : Peek(n) \in r.rhs[k - n] /\ Given(h, n)
  /\ \A n \in 0..(k - 2) : From(n) = To(n + 1) + 1
  /\ Kind(h, To(0) + 1) \in r.la
  /\ Peek(k) \in r.under
  /\ Peek(k) \in Tokens => Kind(h, From(k - 1) - 1) = Peek(k)
  /\ Built(r).from = From(k - 1) /\ Built(r).to = To(0)
  /\ r.at = 64 => Peek(0) \notin {"DECIMAL_LIT", "HEX_LIT"}
  /\ r.at \in Starting => GivesList(h, ItemOf(r))
  /\ h.literals = literals

\* The lists left on the stack were there before.
LEMMA ListsBelow ==
  ASSUME BInv, NEW r \in Takeable, Build(r), r.lhs \notin ListKinds, NEW l \in Lists'
  PROVE  \E i \in 1..(Depth - Len(r.rhs)) : stack[i].sym \in ListKinds /\ l = values[i]
  <1> DEFINE m == Depth - Len(r.rhs) + 1
  <1>1. /\ m \in 1..Depth /\ Depth' = m
        /\ \A i \in 1..(m - 1) : stack'[i] = stack[i] /\ values'[i] = values[i]
        /\ stack'[m].sym = r.lhs
    BY BuildEffect
  <1>2. m - 1 = Depth - Len(r.rhs)
    BY TakenRule, Heap DEF BInv, IInv
  <1>3. Depth \in Nat
    BY Heap
  <1> HIDE DEF m
  <1>4. PICK i \in 1..m : stack'[i].sym \in ListKinds /\ l = values'[i]
    BY <1>1 DEF Lists
  <1>5. i \in 1..(m - 1)
    BY <1>1, <1>3, <1>4
  <1> QED
    BY <1>1, <1>2, <1>4, <1>5

\* The handle in the store after the reduction.  The lists of the handle have left the
\* stack, so they are the node's own.
LEMMA RuleGives ==
  ASSUME TreeInv, BInv', phase = "reduce", NEW r \in Takeable, Build(r), input' = input, literals' = literals, r.lhs \notin ListKinds,
         NEW h, h = Store'
  PROVE  Gives(h, r)
  <1> DEFINE k == Len(r.rhs)
             L == Len(cells)
             q == Stand(r)
             hangs == r.at \in Appending
             g == Store
  <1>1. Finds(r)
    BY RuleFinds
  <1>2. Grows(g, h, q, hangs) /\ ~hangs
    BY StoreGrows, ListRules DEF Takeable, ListRule
  <1>3. /\ h.input = input /\ h.literals = literals /\ h.cells = cells' /\ h.tree = tree' /\ h.lists = Lists'
        /\ g.input = input /\ g.cells = cells /\ g.tree = tree /\ g.lists = Lists
    BY DEF Store
  <1>4. \A i : Kind(h, i) = TypeOf(i)
    BY <1>2, KindGrows, StoreKind
  <1>5. /\ Len(tree) \in Nat /\ L \in Nat /\ DOMAIN cells = 1..L /\ Depth \in Nat
        /\ \A i \in 1..Depth : stack[i].sym \in ListKinds => values[i] \in 1..L
    BY Heap DEF TreeInv
  <1>6. \A p \in 1..L : Last(h, p) = Last(g, p) /\ Last(g, p) \in 1..L
    BY <1>2, <1>3 DEF Grows
  <1>7. \A l \in h.lists : \E i \in 1..(Depth - k) : stack[i].sym \in ListKinds /\ l = values[i]
    BY <1>3, ListsBelow DEF TreeInv
  <1>k. k \in 1..5 /\ k <= Depth /\ k = Len(r.rhs)
    BY TakenRule DEF TreeInv, BInv, IInv
  <1> HIDE DEF k, L, q, hangs, g
  <1>8. ASSUME NEW n \in 0..(k - 1)
        PROVE  Given(h, n)
    <2>1. Found(n)
      BY <1>1, <1>k DEF Finds
    <2>2. Peek(n) \in NonTerminals \ ListKinds =>
            Part(h, NewNode, Value(n), Peek(n), From(n), To(n)) /\ Edges(h, Peek(n), From(n), To(n))
      <3> SUFFICES ASSUME Peek(n) \in NonTerminals \ ListKinds
                   PROVE  Part(h, NewNode, Value(n), Peek(n), From(n), To(n)) /\ Edges(h, Peek(n), From(n), To(n))
        OBVIOUS
      <3>1. Part(g, NewNode, Value(n), Peek(n), From(n), To(n))
        BY <1>3, <2>1 DEF Found, Placed, NewNode, g
      <3>2. NewNode \in 1..(Len(g.tree) + 1)
        BY <1>3, <1>5 DEF NewNode
      <3>3. Part(h, NewNode, Value(n), Peek(n), From(n), To(n))
        BY <1>2, <3>1, <3>2, PartGrows
      <3>4. Edges(g, Peek(n), From(n), To(n))
        BY <2>1 DEF Found, g
      <3>5. \A i : Kind(g, i) = TypeOf(i)
        BY StoreKind DEF g
      <3>6. Edges(h, Peek(n), From(n), To(n))
        BY <1>3, <1>4, <3>4, <3>5, Zenon DEF Edges
      <3> QED
        BY <3>3, <3>6
    <2>3. Peek(n) \in ListKinds => Held(h, NewNode, Peek(n), Value(n), From(n), To(n))
      <3> SUFFICES ASSUME Peek(n) \in ListKinds
                   PROVE  Held(h, NewNode, Peek(n), Value(n), From(n), To(n))
        OBVIOUS
      <3>1. ListAt(g, NewNode, Peek(n), Value(n), From(n), To(n))
        BY <1>3, <2>1 DEF Found, Placed, NewNode, g
      <3>2. NewNode \in 1..(Len(g.tree) + 1)
        BY <1>3, <1>5 DEF NewNode
      <3>3. ListAt(h, NewNode, Peek(n), Value(n), From(n), To(n)) /\ Last(h, Value(n)) = Last(g, Value(n))
        BY <1>2, <3>1, <3>2, ListGrows
      <3>4. ASSUME NEW l \in h.lists PROVE Last(h, l) # Last(h, Value(n))
        <4>1. PICK i \in 1..(Depth - k) : stack[i].sym \in ListKinds /\ l = values[i]
          BY <1>7
        <4> DEFINE j == Depth - n
        <4>2. j \in 1..Depth /\ i \in 1..Depth /\ i # j /\ n < Depth
          BY <1>5, <1>k
        <4>3. stack[j].sym \in ListKinds /\ Value(n) = values[j]
          BY <4>2 DEF Peek, Value
        <4> HIDE DEF j
        <4>4. Last(g, values[i]) # Last(g, values[j])
          BY <4>1, <4>2, <4>3 DEF TreeInv, ListsApart, g
        <4> QED
          BY <1>5, <1>6, <4>1, <4>2, <4>3, <4>4
      <3> QED
        BY <3>3, <3>4 DEF Held, Frozen
    <2> QED
      BY <1>3, <1>4, <2>1, <2>2, <2>3, StoreKind DEF Found, Placed, Given
  <1>9. r.at \in Starting => GivesList(h, ItemOf(r))
    <2> SUFFICES ASSUME r.at \in Starting,
                        NEW n \in Nat, NEW sym, NEW a, NEW b, Part(h, n, ItemOf(r), Element(sym), a, b)
                 PROVE  Held(h, n, sym, NewCell, a, b)
      BY DEF GivesList
    <2>1. Len(cells') = L + 1 /\ DOMAIN cells' = 1..(L + 1) /\ cells'[L + 1].item = ItemOf(r)
      <3>1. Len(cells') = L + 1
        BY <1>2, CellsEffect DEF TreeInv, hangs, L, Starting, Appending
      <3>2. DOMAIN cells' = 1..Len(cells')
        BY DEF BInv
      <3>3. cells'[L + 1].item = ItemOf(r)
        BY CellsEffect DEF TreeInv, L
      <3> QED
        BY <3>1, <3>2, <3>3
    <2>2. NewCell = L + 1 /\ Last(h, L + 1) = L + 1 /\ L + 1 \in DOMAIN h.cells
      BY <1>2, <1>3, <1>5, <2>1 DEF NewCell, L, Grows
    <2>3. \A p \in DOMAIN h.cells : Last(h, p) = L + 1 => p = L + 1
      BY <1>3, <1>5, <1>6, <2>1
    <2>4. ListAt(h, n, sym, NewCell, a, b)
      BY <1>3, <2>1, <2>2, <2>3 DEF ListAt, Part
    <2>5. ASSUME NEW l \in h.lists PROVE Last(h, l) # L + 1
      <3>1. PICK i \in 1..(Depth - k) : stack[i].sym \in ListKinds /\ l = values[i]
        BY <1>7
      <3>2. l \in 1..L
        BY <1>5, <1>k, <3>1
      <3> QED
        BY <1>5, <1>6, <3>2
    <2> QED
      BY <2>2, <2>4, <2>5 DEF Held, Frozen
  <1> QED
    BY <1>1, <1>3, <1>4, <1>5, <1>8, <1>9, <1>k DEF Finds, Gives

-----------------------------------------------------------------------------
(* The first and the last token of a new node. *)

\* What a node can begin and end with.
Firsts == IdTokens \cup {"LP", "DECIMAL_LIT", "HEX_LIT", "STRING_LIT"} \cup ExprKinds
Lasts == {"RBRK", "RP", "RBRC", "DECIMAL_LIT", "HEX_LIT", "STRING_LIT", "UNDERSCORE", "MUL"}
           \cup (NonTerminals \ (ListKinds \cup {"HEADER"}))

EdgeRule(r) ==
  /\ r.lhs \in ExprKinds => r.rhs[1] \subseteq Firsts
  /\ r.lhs \notin ListKinds \cup {"HEADER"} =>
       \/ r.rhs[Len(r.rhs)] \subseteq Lasts
       \/ r.rhs[Len(r.rhs)] \subseteq IdTokens /\ "LP" \notin r.la

LEMMA EdgeSymbols ==
  /\ IdTokens \subseteq Firsts /\ {"ID"} \subseteq IdTokens
  /\ \A sym \in {"ID", "LP", "DECIMAL_LIT", "HEX_LIT", "STRING_LIT", "LOGIC_DISJ", "LOGIC_CONJ", "RELATE",
                 "MATH_EXPR", "TERM", "EXPRESSION", "FACTOR", "NUMBER", "DEREF", "FUNC_CALL"} : {sym} \subseteq Firsts
  /\ \A sym \in {"RBRK", "RP", "RBRC", "DECIMAL_LIT", "HEX_LIT", "STRING_LIT", "UNDERSCORE", "MUL",
                 "FACTOR", "NUMBER", "EXPRESSION", "STATEMENT", "LOGIC_DISJ", "LOGIC_CONJ", "RELATE", "MATH_EXPR",
                 "TERM", "FUNC_CALL", "TYPED_ID", "DEREF", "VAR_TYPE", "FUNC_HEADER", "NT_IF", "BLOCK", "FUNCTION",
                 "ASSIGNMENT"} : {sym} \subseteq Lasts
  /\ \A sym \in {"VAR_TYPE", "TYPED_ID", "HEADER", "FUNC_HEADER", "BLOCK", "NT_IF", "ASSIGNMENT", "STATEMENT",
                 "FUNCTION", "TYPED_ID_LIST", "EXPRESSION_LIST", "STATEMENT_LIST"} : sym \notin ExprKinds
  /\ \A sym \in {"TYPED_ID_LIST", "EXPRESSION_LIST", "STATEMENT_LIST"} : sym \in ListKinds
  <1>1. IdTokens \subseteq Firsts /\ {"ID"} \subseteq IdTokens
    BY DEF Firsts, IdTokens
  <1>2. \A sym \in {"ID", "LP", "DECIMAL_LIT", "HEX_LIT", "STRING_LIT", "LOGIC_DISJ", "LOGIC_CONJ", "RELATE",
                    "MATH_EXPR", "TERM", "EXPRESSION", "FACTOR", "NUMBER", "DEREF", "FUNC_CALL"} : sym \in Firsts
    BY DEF Firsts, ExprKinds, Operators, IdTokens
  <1>3. \A sym \in {"RBRK", "RP", "RBRC", "DECIMAL_LIT", "HEX_LIT", "STRING_LIT", "UNDERSCORE", "MUL",
                    "FACTOR", "NUMBER", "EXPRESSION", "STATEMENT", "LOGIC_DISJ", "LOGIC_CONJ", "RELATE", "MATH_EXPR",
                    "TERM", "FUNC_CALL", "TYPED_ID", "DEREF", "VAR_TYPE", "FUNC_HEADER", "NT_IF", "BLOCK", "FUNCTION",
                    "ASSIGNMENT"} : sym \in Lasts
    BY DEF Lasts, NonTerminals, ListKinds
  <1>4. \A sym \in {"VAR_TYPE", "TYPED_ID", "HEADER", "FUNC_HEADER", "BLOCK", "NT_IF", "ASSIGNMENT", "STATEMENT",
                    "FUNCTION", "TYPED_ID_LIST", "EXPRESSION_LIST", "STATEMENT_LIST"} : sym \notin ExprKinds
    BY DEF ExprKinds, Operators
  <1>5. \A sym \in {"TYPED_ID_LIST", "EXPRESSION_LIST", "STATEMENT_LIST"} : sym \in ListKinds
    BY DEF ListKinds
  <1> QED
    BY <1>1, <1>2, <1>3, <1>4, <1>5

\* What the rules begin and end with.
LEMMA EdgeRules == \A r \in Rules : EdgeRule(r)
  <1>1. ASSUME NEW r, NumberRule(r) PROVE EdgeRule(r)
    <2>1. \/ r.lhs = "NUMBER" /\ r.rhs[1] = {"DECIMAL_LIT"} /\ r.rhs[Len(r.rhs)] = {"DECIMAL_LIT"}
          \/ r.lhs = "NUMBER" /\ r.rhs[1] = {"HEX_LIT"} /\ r.rhs[Len(r.rhs)] = {"HEX_LIT"}
      BY <1>1 DEF NumberRule, Is
    <2> QED
      BY <2>1, EdgeSymbols DEF EdgeRule, Id
  <1>2. ASSUME NEW r, HeaderRule(r) PROVE EdgeRule(r)
    <2>1. r.lhs = "HEADER"
      BY <1>2 DEF HeaderRule, Is
    <2> QED
      BY <2>1, EdgeSymbols DEF EdgeRule, Id
  <1>3. ASSUME NEW r, TypeNameRule(r) PROVE EdgeRule(r)
    <2>1. CASE Is(r, 84, "VAR_TYPE", <<Id>>) /\ "LP" \notin r.la
      <3>1. r.lhs = "VAR_TYPE" /\ r.rhs[Len(r.rhs)] = Id
        BY <2>1 DEF Is
      <3> QED
        BY <2>1, <3>1, EdgeSymbols DEF EdgeRule, Id
    <2>2. CASE Is(r, 94, "VAR_TYPE", <<Id>>) /\ "LP" \notin r.la
      <3>1. r.lhs = "VAR_TYPE" /\ r.rhs[Len(r.rhs)] = Id
        BY <2>2 DEF Is
      <3> QED
        BY <2>2, <3>1, EdgeSymbols DEF EdgeRule, Id
    <2>3. CASE Is(r, 105, "VAR_TYPE", <<{"UNDERSCORE"}>>)
      <3>1. r.lhs = "VAR_TYPE" /\ r.rhs[Len(r.rhs)] = {"UNDERSCORE"}
        BY <2>3 DEF Is
      <3> QED
        BY <2>3, <3>1, EdgeSymbols DEF EdgeRule, Id
    <2> QED
      BY <1>3, <2>1, <2>2, <2>3 DEF TypeNameRule
  <1>4. ASSUME NEW r, ArrayTypeRule(r) PROVE EdgeRule(r)
    <2>1. CASE Is(r, 115, "VAR_TYPE", <<{"LBRK"}, Id, {"SEMI"}, {"EXPRESSION_LIST"}, {"RBRK"}>>)
      <3>1. r.lhs = "VAR_TYPE" /\ r.rhs[Len(r.rhs)] = {"RBRK"}
        BY <2>1 DEF Is
      <3> QED
        BY <2>1, <3>1, EdgeSymbols DEF EdgeRule, Id
    <2>2. CASE Is(r, 130, "VAR_TYPE", <<{"LBRK"}, Id, {"SEMI"}, {"EXPRESSION"}, {"RBRK"}>>)
      <3>1. r.lhs = "VAR_TYPE" /\ r.rhs[Len(r.rhs)] = {"RBRK"}
        BY <2>2 DEF Is
      <3> QED
        BY <2>2, <3>1, EdgeSymbols DEF EdgeRule, Id
    <2>3. CASE Is(r, 148, "VAR_TYPE", <<{"LBRK"}, {"VAR_TYPE"}, {"SEMI"}, {"EXPRESSION_LIST"}, {"RBRK"}>>)
      <3>1. r.lhs = "VAR_TYPE" /\ r.rhs[Len(r.rhs)] = {"RBRK"}
        BY <2>3 DEF Is
      <3> QED
        BY <2>3, <3>1, EdgeSymbols DEF EdgeRule, Id
    <2> QED
      BY <1>4, <2>1, <2>2, <2>3 DEF ArrayTypeRule
  <1>5. ASSUME NEW r, PointerTypeRule(r) PROVE EdgeRule(r)
    <2>1. r.lhs = "VAR_TYPE" /\ r.rhs[Len(r.rhs)] = {"MUL"}
      BY <1>5 DEF PointerTypeRule, Is
    <2> QED
      BY <2>1, EdgeSymbols DEF EdgeRule, Id
  <1>6. ASSUME NEW r, TypedIdRule(r) PROVE EdgeRule(r)
    <2>1. CASE Is(r, 177, "TYPED_ID", <<Id, {"COLON"}, {"VAR_TYPE"}>>)
      <3>1. r.lhs = "TYPED_ID" /\ r.rhs[Len(r.rhs)] = {"VAR_TYPE"}
        BY <2>1 DEF Is
      <3> QED
        BY <2>1, <3>1, EdgeSymbols DEF EdgeRule, Id
    <2>2. CASE Is(r, 195, "TYPED_ID_LIST", <<{"TYPED_ID_LIST"}, {"COMMA"}, {"TYPED_ID"}>>)
      <3>1. r.lhs = "TYPED_ID_LIST"
        BY <2>2 DEF Is
      <3> QED
        BY <2>2, <3>1, EdgeSymbols DEF EdgeRule, Id
    <2>3. CASE Is(r, 212, "TYPED_ID_LIST", <<{"TYPED_ID"}>>)
      <3>1. r.lhs = "TYPED_ID_LIST"
        BY <2>3 DEF Is
      <3> QED
        BY <2>3, <3>1, EdgeSymbols DEF EdgeRule, Id
    <2> QED
      BY <1>6, <2>1, <2>2, <2>3 DEF TypedIdRule
  <1>7. ASSUME NEW r, FactorRule(r) PROVE EdgeRule(r)
    <2>1. CASE Is(r, 231, "FACTOR", <<{"ID"}>>) /\ "LP" \notin r.la
      <3>1. r.lhs = "FACTOR" /\ r.rhs[1] = {"ID"} /\ r.rhs[Len(r.rhs)] = {"ID"}
        BY <2>1 DEF Is
      <3> QED
        BY <2>1, <3>1, EdgeSymbols DEF EdgeRule, Id
    <2>2. CASE Is(r, 242, "FACTOR", <<{"NUMBER"}>>)
      <3>1. r.lhs = "FACTOR" /\ r.rhs[1] = {"NUMBER"} /\ r.rhs[Len(r.rhs)] = {"NUMBER"}
        BY <2>2 DEF Is
      <3> QED
        BY <2>2, <3>1, EdgeSymbols DEF EdgeRule, Id
    <2>3. CASE Is(r, 252, "FACTOR", <<{"STRING_LIT"}>>)
      <3>1. r.lhs = "FACTOR" /\ r.rhs[1] = {"STRING_LIT"} /\ r.rhs[Len(r.rhs)] = {"STRING_LIT"}
        BY <2>3 DEF Is
      <3> QED
        BY <2>3, <3>1, EdgeSymbols DEF EdgeRule, Id
    <2>4. CASE Is(r, 273, "FACTOR", <<{"FUNC_CALL"}>>)
      <3>1. r.lhs = "FACTOR" /\ r.rhs[1] = {"FUNC_CALL"} /\ r.rhs[Len(r.rhs)] = {"FUNC_CALL"}
        BY <2>4 DEF Is
      <3> QED
        BY <2>4, <3>1, EdgeSymbols DEF EdgeRule, Id
    <2>5. CASE Is(r, 282, "FACTOR", <<{"DEREF"}>>)
      <3>1. r.lhs = "FACTOR" /\ r.rhs[1] = {"DEREF"} /\ r.rhs[Len(r.rhs)] = {"DEREF"}
        BY <2>5 DEF Is
      <3> QED
        BY <2>5, <3>1, EdgeSymbols DEF EdgeRule, Id
    <2> QED
      BY <1>7, <2>1, <2>2, <2>3, <2>4, <2>5 DEF FactorRule
  <1>8. ASSUME NEW r, ParenthesesRule(r) PROVE EdgeRule(r)
    <2>1. r.lhs = "FACTOR" /\ r.rhs[1] = {"LP"} /\ r.rhs[Len(r.rhs)] = {"RP"}
      BY <1>8 DEF ParenthesesRule, Is
    <2> QED
      BY <2>1, EdgeSymbols DEF EdgeRule, Id
  <1>9. ASSUME NEW r, TermRule(r) PROVE EdgeRule(r)
    <2>1. \/ r.lhs = "TERM" /\ r.rhs[1] = {"TERM"} /\ r.rhs[Len(r.rhs)] = {"FACTOR"}
          \/ r.lhs = "TERM" /\ r.rhs[1] = {"FACTOR"} /\ r.rhs[Len(r.rhs)] = {"FACTOR"}
      BY <1>9 DEF TermRule, Is
    <2> QED
      BY <2>1, EdgeSymbols DEF EdgeRule, Id
  <1>10. ASSUME NEW r, MathRule(r) PROVE EdgeRule(r)
    <2>1. CASE Is(r, 332, "MATH_EXPR", <<{"MATH_EXPR"}, Addops, {"TERM"}>>)
      <3>1. r.lhs = "MATH_EXPR" /\ r.rhs[1] = {"MATH_EXPR"} /\ r.rhs[Len(r.rhs)] = {"TERM"}
        BY <2>1 DEF Is
      <3> QED
        BY <2>1, <3>1, EdgeSymbols DEF EdgeRule, Id
    <2>2. CASE Is(r, 350, "MATH_EXPR", <<{"TERM"}>>)
      <3>1. r.lhs = "MATH_EXPR" /\ r.rhs[1] = {"TERM"} /\ r.rhs[Len(r.rhs)] = {"TERM"}
        BY <2>2 DEF Is
      <3> QED
        BY <2>2, <3>1, EdgeSymbols DEF EdgeRule, Id
    <2> QED
      BY <1>10, <2>1, <2>2 DEF MathRule
  <1>11. ASSUME NEW r, RelationalRule(r) PROVE EdgeRule(r)
    <2>1. \/ r.lhs = "RELATE" /\ r.rhs[1] = {"RELATE"} /\ r.rhs[Len(r.rhs)] = {"MATH_EXPR"}
          \/ r.lhs = "RELATE" /\ r.rhs[1] = {"MATH_EXPR"} /\ r.rhs[Len(r.rhs)] = {"MATH_EXPR"}
      BY <1>11 DEF RelationalRule, Is
    <2> QED
      BY <2>1, EdgeSymbols DEF EdgeRule, Id
  <1>12. ASSUME NEW r, ConjRule(r) PROVE EdgeRule(r)
    <2>1. CASE Is(r, 419, "LOGIC_CONJ", <<{"LOGIC_CONJ"}, {"LAND"}, {"RELATE"}>>)
      <3>1. r.lhs = "LOGIC_CONJ" /\ r.rhs[1] = {"LOGIC_CONJ"} /\ r.rhs[Len(r.rhs)] = {"RELATE"}
        BY <2>1 DEF Is
      <3> QED
        BY <2>1, <3>1, EdgeSymbols DEF EdgeRule, Id
    <2>2. CASE Is(r, 435, "LOGIC_CONJ", <<{"RELATE"}>>)
      <3>1. r.lhs = "LOGIC_CONJ" /\ r.rhs[1] = {"RELATE"} /\ r.rhs[Len(r.rhs)] = {"RELATE"}
        BY <2>2 DEF Is
      <3> QED
        BY <2>2, <3>1, EdgeSymbols DEF EdgeRule, Id
    <2> QED
      BY <1>12, <2>1, <2>2 DEF ConjRule
  <1>13. ASSUME NEW r, DisjRule(r) PROVE EdgeRule(r)
    <2>1. CASE Is(r, 453, "LOGIC_DISJ", <<{"LOGIC_DISJ"}, {"LOR"}, {"LOGIC_CONJ"}>>)
      <3>1. r.lhs = "LOGIC_DISJ" /\ r.rhs[1] = {"LOGIC_DISJ"} /\ r.rhs[Len(r.rhs)] = {"LOGIC_CONJ"}
        BY <2>1 DEF Is
      <3> QED
        BY <2>1, <3>1, EdgeSymbols DEF EdgeRule, Id
    <2>2. CASE Is(r, 468, "LOGIC_DISJ", <<{"LOGIC_CONJ"}>>)
      <3>1. r.lhs = "LOGIC_DISJ" /\ r.rhs[1] = {"LOGIC_CONJ"} /\ r.rhs[Len(r.rhs)] = {"LOGIC_CONJ"}
        BY <2>2 DEF Is
      <3> QED
        BY <2>2, <3>1, EdgeSymbols DEF EdgeRule, Id
    <2> QED
      BY <1>13, <2>1, <2>2 DEF DisjRule
  <1>14. ASSUME NEW r, ExpressionRule(r) PROVE EdgeRule(r)
    <2>1. r.lhs = "EXPRESSION" /\ r.rhs[1] = {"LOGIC_DISJ"} /\ r.rhs[Len(r.rhs)] = {"LOGIC_DISJ"}
      BY <1>14 DEF ExpressionRule, Is
    <2> QED
      BY <2>1, EdgeSymbols DEF EdgeRule, Id
  <1>15. ASSUME NEW r, ExpressionListRule(r) PROVE EdgeRule(r)
    <2>1. r.lhs = "EXPRESSION_LIST"
      BY <1>15 DEF ExpressionListRule, Is
    <2> QED
      BY <2>1, EdgeSymbols DEF EdgeRule, Id
  <1>16. ASSUME NEW r, DerefRule(r) PROVE EdgeRule(r)
    <2>1. CASE Is(r, 542, "DEREF", <<Id, {"LBRK"}, {"EXPRESSION_LIST"}, {"RBRK"}>>)
      <3>1. r.lhs = "DEREF" /\ r.rhs[1] = Id /\ r.rhs[Len(r.rhs)] = {"RBRK"}
        BY <2>1 DEF Is
      <3> QED
        BY <2>1, <3>1, EdgeSymbols DEF EdgeRule, Id
    <2>2. CASE Is(r, 558, "DEREF", <<Id, {"LBRK"}, {"EXPRESSION"}, {"RBRK"}>>)
      <3>1. r.lhs = "DEREF" /\ r.rhs[1] = Id /\ r.rhs[Len(r.rhs)] = {"RBRK"}
        BY <2>2 DEF Is
      <3> QED
        BY <2>2, <3>1, EdgeSymbols DEF EdgeRule, Id
    <2> QED
      BY <1>16, <2>1, <2>2 DEF DerefRule
  <1>17. ASSUME NEW r, CallRule(r) PROVE EdgeRule(r)
    <2>1. CASE Is(r, 584, "FUNC_CALL", <<Id, {"LP"}, {"EXPRESSION_LIST"}, {"RP"}>>)
      <3>1. r.lhs = "FUNC_CALL" /\ r.rhs[1] = Id /\ r.rhs[Len(r.rhs)] = {"RP"}
        BY <2>1 DEF Is
      <3> QED
        BY <2>1, <3>1, EdgeSymbols DEF EdgeRule, Id
    <2>2. CASE Is(r, 599, "FUNC_CALL", <<Id, {"LP"}, {"RP"}>>)
      <3>1. r.lhs = "FUNC_CALL" /\ r.rhs[1] = Id /\ r.rhs[Len(r.rhs)] = {"RP"}
        BY <2>2 DEF Is
      <3> QED
        BY <2>2, <3>1, EdgeSymbols DEF EdgeRule, Id
    <2>3. CASE Is(r, 610, "FUNC_CALL", <<Id, {"LP"}, {"EXPRESSION"}, {"RP"}>>)
      <3>1. r.lhs = "FUNC_CALL" /\ r.rhs[1] = Id /\ r.rhs[Len(r.rhs)] = {"RP"}
        BY <2>3 DEF Is
      <3> QED
        BY <2>3, <3>1, EdgeSymbols DEF EdgeRule, Id
    <2> QED
      BY <1>17, <2>1, <2>2, <2>3 DEF CallRule
  <1>18. ASSUME NEW r, FuncHeaderRule(r) PROVE EdgeRule(r)
    <2>1. CASE Is(r, 630, "FUNC_HEADER", <<{"TYPED_ID_LIST"}, {"ARROW"}, {"VAR_TYPE"}>>)
      <3>1. r.lhs = "FUNC_HEADER" /\ r.rhs[Len(r.rhs)] = {"VAR_TYPE"}
        BY <2>1 DEF Is
      <3> QED
        BY <2>1, <3>1, EdgeSymbols DEF EdgeRule, Id
    <2>2. CASE Is(r, 641, "FUNC_HEADER", <<{"VAR_TYPE"}, {"ARROW"}, {"VAR_TYPE"}>>)
      <3>1. r.lhs = "FUNC_HEADER" /\ r.rhs[Len(r.rhs)] = {"VAR_TYPE"}
        BY <2>2 DEF Is
      <3> QED
        BY <2>2, <3>1, EdgeSymbols DEF EdgeRule, Id
    <2> QED
      BY <1>18, <2>1, <2>2 DEF FuncHeaderRule
  <1>19. ASSUME NEW r, IfRule(r) PROVE EdgeRule(r)
    <2>1. r.lhs = "NT_IF" /\ r.rhs[Len(r.rhs)] = {"BLOCK"}
      BY <1>19 DEF IfRule, Is
    <2> QED
      BY <2>1, EdgeSymbols DEF EdgeRule, Id
  <1>20. ASSUME NEW r, AssignmentRule(r) PROVE EdgeRule(r)
    <2>1. CASE Is(r, 676, "ASSIGNMENT", <<{"TYPED_ID"}, {"EQ"}, {"EXPRESSION"}>>)
      <3>1. r.lhs = "ASSIGNMENT" /\ r.rhs[Len(r.rhs)] = {"EXPRESSION"}
        BY <2>1 DEF Is
      <3> QED
        BY <2>1, <3>1, EdgeSymbols DEF EdgeRule, Id
    <2>2. CASE Is(r, 686, "ASSIGNMENT", <<Id, {"EQ"}, {"EXPRESSION"}>>)
      <3>1. r.lhs = "ASSIGNMENT" /\ r.rhs[Len(r.rhs)] = {"EXPRESSION"}
        BY <2>2 DEF Is
      <3> QED
        BY <2>2, <3>1, EdgeSymbols DEF EdgeRule, Id
    <2> QED
      BY <1>20, <2>1, <2>2 DEF AssignmentRule
  <1>21. ASSUME NEW r, StatementListRule(r) PROVE EdgeRule(r)
    <2>1. r.lhs = "STATEMENT_LIST"
      BY <1>21 DEF StatementListRule, Is
    <2> QED
      BY <2>1, EdgeSymbols DEF EdgeRule, Id
  <1>22. ASSUME NEW r, StatementRule(r) PROVE EdgeRule(r)
    <2>1. CASE Is(r, 741, "STATEMENT", <<{"ASSIGNMENT"}>>)
      <3>1. r.lhs = "STATEMENT" /\ r.rhs[Len(r.rhs)] = {"ASSIGNMENT"}
        BY <2>1 DEF Is
      <3> QED
        BY <2>1, <3>1, EdgeSymbols DEF EdgeRule, Id
    <2>2. CASE Is(r, 749, "STATEMENT", <<{"NT_IF"}>>)
      <3>1. r.lhs = "STATEMENT" /\ r.rhs[Len(r.rhs)] = {"NT_IF"}
        BY <2>2 DEF Is
      <3> QED
        BY <2>2, <3>1, EdgeSymbols DEF EdgeRule, Id
    <2>3. CASE Is(r, 757, "STATEMENT", <<{"RETURN"}, {"EXPRESSION"}>>)
      <3>1. r.lhs = "STATEMENT" /\ r.rhs[Len(r.rhs)] = {"EXPRESSION"}
        BY <2>3 DEF Is
      <3> QED
        BY <2>3, <3>1, EdgeSymbols DEF EdgeRule, Id
    <2>4. CASE Is(r, 767, "STATEMENT", <<{"EXPRESSION"}>>)
      <3>1. r.lhs = "STATEMENT" /\ r.rhs[Len(r.rhs)] = {"EXPRESSION"}
        BY <2>4 DEF Is
      <3> QED
        BY <2>4, <3>1, EdgeSymbols DEF EdgeRule, Id
    <2>5. CASE Is(r, 775, "STATEMENT", <<{"EXPRESSION"}>>)
      <3>1. r.lhs = "STATEMENT" /\ r.rhs[Len(r.rhs)] = {"EXPRESSION"}
        BY <2>5 DEF Is
      <3> QED
        BY <2>5, <3>1, EdgeSymbols DEF EdgeRule, Id
    <2> QED
      BY <1>22, <2>1, <2>2, <2>3, <2>4, <2>5 DEF StatementRule
  <1>23. ASSUME NEW r, BlockRule(r) PROVE EdgeRule(r)
    <2>1. CASE Is(r, 791, "BLOCK", <<{"LBRC"}, {"RBRC"}>>)
      <3>1. r.lhs = "BLOCK" /\ r.rhs[Len(r.rhs)] = {"RBRC"}
        BY <2>1 DEF Is
      <3> QED
        BY <2>1, <3>1, EdgeSymbols DEF EdgeRule, Id
    <2>2. CASE Is(r, 802, "BLOCK", <<{"LBRC"}, {"STATEMENT_LIST"}, {"RBRC"}>>)
      <3>1. r.lhs = "BLOCK" /\ r.rhs[Len(r.rhs)] = {"RBRC"}
        BY <2>2 DEF Is
      <3> QED
        BY <2>2, <3>1, EdgeSymbols DEF EdgeRule, Id
    <2> QED
      BY <1>23, <2>1, <2>2 DEF BlockRule
  <1>24. ASSUME NEW r, FunctionRule(r) PROVE EdgeRule(r)
    <2>1. r.lhs = "FUNCTION" /\ r.rhs[Len(r.rhs)] = {"BLOCK"}
      BY <1>24 DEF FunctionRule, Is
    <2> QED
      BY <2>1, EdgeSymbols DEF EdgeRule, Id
  <1> QED
    BY <1>1, <1>2, <1>3, <1>4, <1>5, <1>6, <1>7, <1>8, <1>9, <1>10, <1>11, <1>12, <1>13, <1>14, <1>15, <1>16, <1>17, <1>18, <1>19, <1>20, <1>21, <1>22, <1>23, <1>24, Catalogue

LEMMA FirstToken ==
  ASSUME NEW h, NEW n, Given(h, n), Peek(n) \in Firsts
  PROVE  Kind(h, From(n)) \notin {"LBRK", "RP"}
  <1>1. CASE Peek(n) \in ExprKinds
    <2>1. Peek(n) \in NonTerminals \ ListKinds
      BY <1>1 DEF ExprKinds, Operators, NonTerminals, ListKinds
    <2> QED
      BY <1>1, <2>1 DEF Given, Edges
  <1>2. CASE Peek(n) \in IdTokens \cup {"LP", "DECIMAL_LIT", "HEX_LIT", "STRING_LIT"}
    <2>1. Peek(n) \in Tokens /\ Peek(n) \notin {"LBRK", "RP"}
      BY <1>2 DEF Tokens, IdTokens
    <2> QED
      BY <2>1 DEF Given
  <1> QED
    BY <1>1, <1>2 DEF Firsts

LEMMA LastToken ==
  ASSUME NEW h, NEW n, Given(h, n), Peek(n) \in Lasts \/ (Peek(n) \in IdTokens /\ Kind(h, To(n) + 1) # "LP")
  PROVE  /\ Kind(h, To(n)) \notin {"LBRK", "LP"}
         /\ Kind(h, To(n)) \in IdTokens => Kind(h, To(n) + 1) # "LP"
  <1>1. CASE Peek(n) \in NonTerminals \ (ListKinds \cup {"HEADER"})
    BY <1>1 DEF Given, Edges
  <1>2. CASE Peek(n) \in {"RBRK", "RP", "RBRC", "DECIMAL_LIT", "HEX_LIT", "STRING_LIT", "UNDERSCORE", "MUL"}
    <2>1. Peek(n) \in Tokens /\ Peek(n) \notin {"LBRK", "LP"} \cup IdTokens
      BY <1>2 DEF Tokens, IdTokens, Mulops
    <2> QED
      BY <2>1 DEF Given
  <1>3. CASE Peek(n) \in IdTokens /\ Kind(h, To(n) + 1) # "LP"
    <2>1. Peek(n) \in Tokens /\ Peek(n) \notin {"LBRK", "LP"}
      BY <1>3 DEF Tokens, IdTokens
    <2> QED
      BY <1>3, <2>1 DEF Given
  <1> QED
    BY <1>1, <1>2, <1>3 DEF Lasts

\* The handles, by their length.
Spans(h, r) ==
  /\ Built(r).to = To(0) /\ Built(r).from \in 1..To(0) /\ To(0) \in 1..Len(h.input)
  /\ Len(tree) \in Nat

LEMMA One ==
  ASSUME NEW h, NEW r, Gives(h, r), Len(r.rhs) = 1
  PROVE  /\ Peek(0) \in r.rhs[1] /\ Given(h, 0)
         /\ Built(r).from = From(0) /\ Spans(h, r)
         /\ Peek(1) \in r.under /\ (Peek(1) \in Tokens => Kind(h, From(0) - 1) = Peek(1))
  BY DEF Gives, Given, Spans

LEMMA Two ==
  ASSUME NEW h, NEW r, Gives(h, r), Len(r.rhs) = 2
  PROVE  /\ Peek(0) \in r.rhs[2] /\ Given(h, 0)
         /\ Peek(1) \in r.rhs[1] /\ Given(h, 1)
         /\ Built(r).from = From(1) /\ Spans(h, r)
         /\ From(0) = To(1) + 1
  <1>1. /\ Peek(0) \in r.rhs[2] /\ Given(h, 0)
        /\ Peek(1) \in r.rhs[1] /\ Given(h, 1)
        /\ Built(r).from = From(1) /\ Built(r).to = To(0)
        /\ From(0) = To(1) + 1
    BY DEF Gives
  <1> QED
    BY <1>1 DEF Given, Spans, Gives

LEMMA Three ==
  ASSUME NEW h, NEW r, Gives(h, r), Len(r.rhs) = 3
  PROVE  /\ Peek(0) \in r.rhs[3] /\ Given(h, 0)
         /\ Peek(1) \in r.rhs[2] /\ Given(h, 1)
         /\ Peek(2) \in r.rhs[1] /\ Given(h, 2)
         /\ Built(r).from = From(2) /\ Spans(h, r)
         /\ From(0) = To(1) + 1 /\ From(1) = To(2) + 1
  <1>1. /\ Peek(0) \in r.rhs[3] /\ Given(h, 0)
        /\ Peek(1) \in r.rhs[2] /\ Given(h, 1)
        /\ Peek(2) \in r.rhs[1] /\ Given(h, 2)
        /\ Built(r).from = From(2) /\ Built(r).to = To(0)
        /\ From(0) = To(1) + 1 /\ From(1) = To(2) + 1
    BY DEF Gives
  <1> QED
    BY <1>1 DEF Given, Spans, Gives

LEMMA Four ==
  ASSUME NEW h, NEW r, Gives(h, r), Len(r.rhs) = 4
  PROVE  /\ Peek(0) \in r.rhs[4] /\ Given(h, 0)
         /\ Peek(1) \in r.rhs[3] /\ Given(h, 1)
         /\ Peek(2) \in r.rhs[2] /\ Given(h, 2)
         /\ Peek(3) \in r.rhs[1] /\ Given(h, 3)
         /\ Built(r).from = From(3) /\ Spans(h, r)
         /\ From(0) = To(1) + 1 /\ From(1) = To(2) + 1 /\ From(2) = To(3) + 1
  <1>1. /\ Peek(0) \in r.rhs[4] /\ Given(h, 0)
        /\ Peek(1) \in r.rhs[3] /\ Given(h, 1)
        /\ Peek(2) \in r.rhs[2] /\ Given(h, 2)
        /\ Peek(3) \in r.rhs[1] /\ Given(h, 3)
        /\ Built(r).from = From(3) /\ Built(r).to = To(0)
        /\ From(0) = To(1) + 1 /\ From(1) = To(2) + 1 /\ From(2) = To(3) + 1
    BY DEF Gives
  <1> QED
    BY <1>1 DEF Given, Spans, Gives

LEMMA Five ==
  ASSUME NEW h, NEW r, Gives(h, r), Len(r.rhs) = 5
  PROVE  /\ Peek(0) \in r.rhs[5] /\ Given(h, 0)
         /\ Peek(1) \in r.rhs[4] /\ Given(h, 1)
         /\ Peek(2) \in r.rhs[3] /\ Given(h, 2)
         /\ Peek(3) \in r.rhs[2] /\ Given(h, 3)
         /\ Peek(4) \in r.rhs[1] /\ Given(h, 4)
         /\ Built(r).from = From(4) /\ Spans(h, r)
         /\ From(0) = To(1) + 1 /\ From(1) = To(2) + 1 /\ From(2) = To(3) + 1 /\ From(3) = To(4) + 1
  <1>1. /\ Peek(0) \in r.rhs[5] /\ Given(h, 0)
        /\ Peek(1) \in r.rhs[4] /\ Given(h, 1)
        /\ Peek(2) \in r.rhs[3] /\ Given(h, 2)
        /\ Peek(3) \in r.rhs[2] /\ Given(h, 3)
        /\ Peek(4) \in r.rhs[1] /\ Given(h, 4)
        /\ Built(r).from = From(4) /\ Built(r).to = To(0)
        /\ From(0) = To(1) + 1 /\ From(1) = To(2) + 1 /\ From(2) = To(3) + 1 /\ From(3) = To(4) + 1
    BY DEF Gives
  <1>g. \A n \in {0, 1, 2, 3, 4} : From(n) \in 1..To(n) /\ To(n) \in 1..Len(h.input)
    BY <1>1, Zenon DEF Given
  <1>2. /\ From(0) \in 1..To(0) /\ To(0) \in 1..Len(h.input) /\ From(1) \in 1..To(1) /\ To(1) \in Nat
        /\ From(2) \in 1..To(2) /\ To(2) \in Nat /\ From(3) \in 1..To(3) /\ To(3) \in Nat
        /\ From(4) \in 1..To(4) /\ To(4) \in Nat
    BY <1>g
  <1>3. From(4) \in 1..To(0)
    BY <1>1, <1>2, SMTT(30)
  <1>4. Spans(h, r)
    BY <1>1, <1>2, <1>3 DEF Spans, Gives
  <1> QED
    BY <1>1, <1>4

LEMMA AllSpan ==
  ASSUME NEW h, NEW r, Gives(h, r)
  PROVE  Spans(h, r)
  <1>1. Len(r.rhs) \in {1, 2, 3, 4, 5}
    BY DEF Gives
  <1> QED
    BY <1>1, One, Two, Three, Four, Five

\* So no node begins or ends where a call or a nested type could come about by accident.
LEMMA NewEdges ==
  ASSUME NEW h, NEW r \in Rules, Gives(h, r), r.lhs \notin ListKinds
  PROVE  Edges(h, r.lhs, Built(r).from, Built(r).to)
  <1> DEFINE k == Len(r.rhs)
  <1>1. /\ k \in 1..5
        /\ \A n \in 0..(k - 1) : Peek(n) \in r.rhs[k - n] /\ Given(h, n)
        /\ Kind(h, To(0) + 1) \in r.la
        /\ Built(r).from = From(k - 1) /\ Built(r).to = To(0)
    BY DEF Gives
  <1>2. EdgeRule(r)
    BY EdgeRules
  <1>k. k = Len(r.rhs)
    OBVIOUS
  <1> HIDE DEF k
  <1>3. /\ Peek(k - 1) \in r.rhs[1] /\ Given(h, k - 1)
        /\ Peek(0) \in r.rhs[k] /\ Given(h, 0)
    <2>1. k - 1 \in 0..(k - 1) /\ 0 \in 0..(k - 1) /\ k - (k - 1) = 1 /\ k - 0 = k
      BY <1>1
    <2> QED
      BY <1>1, <2>1
  <1>4. r.lhs \in ExprKinds => Kind(h, Built(r).from) \notin {"LBRK", "RP"}
    BY <1>1, <1>2, <1>3, FirstToken DEF EdgeRule
  <1>5. r.lhs # "HEADER" => /\ Kind(h, Built(r).to) \notin {"LBRK", "LP"}
                            /\ Kind(h, Built(r).to) \in IdTokens => Kind(h, Built(r).to + 1) # "LP"
    BY <1>1, <1>2, <1>3, <1>k, LastToken DEF EdgeRule
  <1>6. Built(r).from \in 1..Built(r).to /\ Built(r).to \in 1..Len(h.input)
    BY AllSpan DEF Spans
  <1> QED
    BY <1>4, <1>5, <1>6 DEF Edges

-----------------------------------------------------------------------------
(* The new node is what its rule says. *)

LEMMA GivenSpan ==
  ASSUME NEW h, NEW n, Given(h, n)
  PROVE  From(n) \in 1..To(n) /\ To(n) \in Nat
  <1>1. From(n) \in 1..To(n) /\ To(n) \in 1..Len(h.input)
    BY DEF Given
  <1> QED
    BY <1>1

LEMMA FormedKinds ==
  ASSUME NEW h, NEW n, NEW v, NEW a, NEW b
  PROVE
         /\ FormedNumber(h, v, a, b) => Formed(h, n, "NUMBER", v, a, b)
         /\ Part(h, n, v, "LOGIC_DISJ", a, b) => Formed(h, n, "EXPRESSION", v, a, b)
         /\ FormedFactor(h, n, v, a, b) => Formed(h, n, "FACTOR", v, a, b)
         /\ FormedType(h, n, v, a, b) => Formed(h, n, "VAR_TYPE", v, a, b)
         /\ FormedTypedId(h, n, v, a, b) => Formed(h, n, "TYPED_ID", v, a, b)
         /\ FormedDeref(h, n, v, a, b) => Formed(h, n, "DEREF", v, a, b)
         /\ FormedCall(h, n, v, a, b) => Formed(h, n, "FUNC_CALL", v, a, b)
         /\ FormedFuncHeader(h, n, v, a, b) => Formed(h, n, "FUNC_HEADER", v, a, b)
         /\ FormedBlock(h, n, v, a, b) => Formed(h, n, "BLOCK", v, a, b)
         /\ FormedIf(h, n, v, a, b) => Formed(h, n, "NT_IF", v, a, b)
         /\ FormedAssignment(h, n, v, a, b) => Formed(h, n, "ASSIGNMENT", v, a, b)
         /\ FormedStatement(h, n, v, a, b) => Formed(h, n, "STATEMENT", v, a, b)
         /\ FormedFunction(h, n, v, a, b) => Formed(h, n, "FUNCTION", v, a, b)
  <1>1. FormedNumber(h, v, a, b) => Formed(h, n, "NUMBER", v, a, b)
    BY DEF Formed, NonTerminals, ListKinds, Operators
  <1>2. Part(h, n, v, "LOGIC_DISJ", a, b) => Formed(h, n, "EXPRESSION", v, a, b)
    BY DEF Formed, NonTerminals, ListKinds, Operators
  <1>3. FormedFactor(h, n, v, a, b) => Formed(h, n, "FACTOR", v, a, b)
    BY DEF Formed, NonTerminals, ListKinds, Operators
  <1>4. FormedType(h, n, v, a, b) => Formed(h, n, "VAR_TYPE", v, a, b)
    BY DEF Formed, NonTerminals, ListKinds, Operators
  <1>5. FormedTypedId(h, n, v, a, b) => Formed(h, n, "TYPED_ID", v, a, b)
    BY DEF Formed, NonTerminals, ListKinds, Operators
  <1>6. FormedDeref(h, n, v, a, b) => Formed(h, n, "DEREF", v, a, b)
    BY DEF Formed, NonTerminals, ListKinds, Operators
  <1>7. FormedCall(h, n, v, a, b) => Formed(h, n, "FUNC_CALL", v, a, b)
    BY DEF Formed, NonTerminals, ListKinds, Operators
  <1>8. FormedFuncHeader(h, n, v, a, b) => Formed(h, n, "FUNC_HEADER", v, a, b)
    BY DEF Formed, NonTerminals, ListKinds, Operators
  <1>9. FormedBlock(h, n, v, a, b) => Formed(h, n, "BLOCK", v, a, b)
    BY DEF Formed, NonTerminals, ListKinds, Operators
  <1>10. FormedIf(h, n, v, a, b) => Formed(h, n, "NT_IF", v, a, b)
    BY DEF Formed, NonTerminals, ListKinds, Operators
  <1>11. FormedAssignment(h, n, v, a, b) => Formed(h, n, "ASSIGNMENT", v, a, b)
    BY DEF Formed, NonTerminals, ListKinds, Operators
  <1>12. FormedStatement(h, n, v, a, b) => Formed(h, n, "STATEMENT", v, a, b)
    BY DEF Formed, NonTerminals, ListKinds, Operators
  <1>13. FormedFunction(h, n, v, a, b) => Formed(h, n, "FUNCTION", v, a, b)
    BY DEF Formed, NonTerminals, ListKinds, Operators
  <1> QED
    BY <1>1, <1>2, <1>3, <1>4, <1>5, <1>6, <1>7, <1>8, <1>9, <1>10, <1>11, <1>12, <1>13

LEMMA Sorts ==
  /\ "LP" \in Tokens /\ "RP" \in Tokens /\ "LBRC" \in Tokens /\ "RBRC" \in Tokens /\ "LBRK" \in Tokens /\ "RBRK" \in Tokens /\ "RETURN" \in Tokens /\ "ARROW" \in Tokens /\ "UNDERSCORE" \in Tokens /\ "EQ" \in Tokens /\ "LOR" \in Tokens /\ "LAND" \in Tokens /\ "COLON" \in Tokens /\ "COMMA" \in Tokens /\ "SEMI" \in Tokens /\ "MUL" \in Tokens /\ "ID" \in Tokens /\ "MODULE" \in Tokens /\ "DECIMAL_LIT" \in Tokens /\ "HEX_LIT" \in Tokens /\ "STRING_LIT" \in Tokens /\ "IF" \in Tokens
  /\ \A syms \in {IdTokens, Relops, Mulops, Addops} : syms \subseteq Tokens
  /\ "FACTOR" \in NonTerminals \ ListKinds
  /\ "NUMBER" \in NonTerminals \ ListKinds
  /\ "EXPRESSION" \in NonTerminals \ ListKinds
  /\ "STATEMENT" \in NonTerminals \ ListKinds
  /\ "LOGIC_DISJ" \in NonTerminals \ ListKinds
  /\ "LOGIC_CONJ" \in NonTerminals \ ListKinds
  /\ "RELATE" \in NonTerminals \ ListKinds
  /\ "MATH_EXPR" \in NonTerminals \ ListKinds
  /\ "TERM" \in NonTerminals \ ListKinds
  /\ "FUNC_CALL" \in NonTerminals \ ListKinds
  /\ "HEADER" \in NonTerminals \ ListKinds
  /\ "TYPED_ID" \in NonTerminals \ ListKinds
  /\ "DEREF" \in NonTerminals \ ListKinds
  /\ "VAR_TYPE" \in NonTerminals \ ListKinds
  /\ "FUNC_HEADER" \in NonTerminals \ ListKinds
  /\ "NT_IF" \in NonTerminals \ ListKinds
  /\ "BLOCK" \in NonTerminals \ ListKinds
  /\ "FUNCTION" \in NonTerminals \ ListKinds
  /\ "ASSIGNMENT" \in NonTerminals \ ListKinds
  /\ "TYPED_ID_LIST" \in ListKinds /\ "EXPRESSION_LIST" \in ListKinds /\ "STATEMENT_LIST" \in ListKinds
  <1>1. "LP" \in Tokens /\ "RP" \in Tokens /\ "LBRC" \in Tokens /\ "RBRC" \in Tokens /\ "LBRK" \in Tokens /\ "RBRK" \in Tokens /\ "RETURN" \in Tokens /\ "ARROW" \in Tokens /\ "UNDERSCORE" \in Tokens /\ "EQ" \in Tokens /\ "LOR" \in Tokens /\ "LAND" \in Tokens /\ "COLON" \in Tokens /\ "COMMA" \in Tokens /\ "SEMI" \in Tokens /\ "MUL" \in Tokens /\ "ID" \in Tokens /\ "MODULE" \in Tokens /\ "DECIMAL_LIT" \in Tokens /\ "HEX_LIT" \in Tokens /\ "STRING_LIT" \in Tokens /\ "IF" \in Tokens
    BY DEF Tokens, IdTokens, Mulops
  <1>2. \A syms \in {IdTokens, Relops, Mulops, Addops} : syms \subseteq Tokens
    BY DEF Tokens
  <1>3. /\ "FACTOR" \in NonTerminals \ ListKinds
        /\ "NUMBER" \in NonTerminals \ ListKinds
        /\ "EXPRESSION" \in NonTerminals \ ListKinds
        /\ "STATEMENT" \in NonTerminals \ ListKinds
        /\ "LOGIC_DISJ" \in NonTerminals \ ListKinds
        /\ "LOGIC_CONJ" \in NonTerminals \ ListKinds
        /\ "RELATE" \in NonTerminals \ ListKinds
        /\ "MATH_EXPR" \in NonTerminals \ ListKinds
        /\ "TERM" \in NonTerminals \ ListKinds
        /\ "FUNC_CALL" \in NonTerminals \ ListKinds
        /\ "HEADER" \in NonTerminals \ ListKinds
        /\ "TYPED_ID" \in NonTerminals \ ListKinds
        /\ "DEREF" \in NonTerminals \ ListKinds
        /\ "VAR_TYPE" \in NonTerminals \ ListKinds
        /\ "FUNC_HEADER" \in NonTerminals \ ListKinds
        /\ "NT_IF" \in NonTerminals \ ListKinds
        /\ "BLOCK" \in NonTerminals \ ListKinds
        /\ "FUNCTION" \in NonTerminals \ ListKinds
        /\ "ASSIGNMENT" \in NonTerminals \ ListKinds
    BY DEF NonTerminals, ListKinds
  <1>4. "TYPED_ID_LIST" \in ListKinds /\ "EXPRESSION_LIST" \in ListKinds /\ "STATEMENT_LIST" \in ListKinds
    BY DEF ListKinds
  <1> QED
    BY <1>1, <1>2, <1>3, <1>4

LEMMA FormedOperators ==
  ASSUME NEW h, NEW n, NEW sym \in Operators, NEW v, NEW a, NEW b, FormedOperator(h, n, sym, v, a, b)
  PROVE  Formed(h, n, sym, v, a, b)
  <1>1. sym \in {"LOGIC_DISJ", "LOGIC_CONJ", "RELATE", "MATH_EXPR", "TERM"}
    BY DEF Operators
  <1>2. sym \in NonTerminals \ ListKinds
    BY <1>1 DEF NonTerminals, ListKinds
  <1> QED
    BY <1>1, <1>2 DEF Formed

LEMMA FormedHeader ==
  ASSUME NEW h, NEW n, NEW v, NEW a, NEW b, b = a + 1, Kind(h, a) = "MODULE", Leaf(h, v, Tokens \ {"DECIMAL_LIT", "HEX_LIT"}, b)
  PROVE  Formed(h, n, "HEADER", v, a, b)
  BY DEF Formed, NonTerminals, ListKinds, Operators

LEMMA NumberFormed ==
  ASSUME NEW r, NumberRule(r), NEW h, Gives(h, r)
  PROVE  Formed(h, NewNode, r.lhs, Payload(r), Built(r).from, Built(r).to)
  <1>1. CASE Is(r, 42, "NUMBER", <<{"DECIMAL_LIT"}>>)
    <2>1. r.at = 42 /\ r.lhs = "NUMBER" /\ Len(r.rhs) = 1 /\ r.rhs[1] = {"DECIMAL_LIT"}
      BY <1>1 DEF Is
    <2>2. /\ Peek(0) = "DECIMAL_LIT"
          /\ Given(h, 0)
          /\ Built(r).from = From(0) /\ Spans(h, r)
      BY <2>1, One DEF Id
    <2>3. /\ To(0) = From(0) /\ Value(0) = From(0) /\ Kind(h, From(0)) = "DECIMAL_LIT"
      BY <2>2, Sorts DEF Given
    <2>4. /\ From(0) \in 1..To(0) /\ To(0) \in Nat
      BY <2>2, GivenSpan
    <2>5. Built(r).to = To(0)
      BY <2>2 DEF Spans
    <2>6. Payload(r) = ToInt(h.literals[Value(0)].value)
      BY <2>1 DEF Payload, NumberPayload, Gives
    <2>8. FormedNumber(h, Payload(r), Built(r).from, Built(r).to)
      BY <2>1, <2>2, <2>3, <2>4, <2>5, <2>6 DEF FormedNumber
    <2> QED
      BY <2>1, <2>8, FormedKinds
  <1>2. CASE Is(r, 49, "NUMBER", <<{"HEX_LIT"}>>)
    <2>1. r.at = 49 /\ r.lhs = "NUMBER" /\ Len(r.rhs) = 1 /\ r.rhs[1] = {"HEX_LIT"}
      BY <1>2 DEF Is
    <2>2. /\ Peek(0) = "HEX_LIT"
          /\ Given(h, 0)
          /\ Built(r).from = From(0) /\ Spans(h, r)
      BY <2>1, One DEF Id
    <2>3. /\ To(0) = From(0) /\ Value(0) = From(0) /\ Kind(h, From(0)) = "HEX_LIT"
      BY <2>2, Sorts DEF Given
    <2>4. /\ From(0) \in 1..To(0) /\ To(0) \in Nat
      BY <2>2, GivenSpan
    <2>5. Built(r).to = To(0)
      BY <2>2 DEF Spans
    <2>6. Payload(r) = 0
      BY <2>1 DEF Payload, NumberPayload
    <2>8. FormedNumber(h, Payload(r), Built(r).from, Built(r).to)
      BY <2>1, <2>2, <2>3, <2>4, <2>5, <2>6 DEF FormedNumber
    <2> QED
      BY <2>1, <2>8, FormedKinds
  <1> QED
    BY <1>1, <1>2 DEF NumberRule

LEMMA HeaderFormed ==
  ASSUME NEW r, HeaderRule(r), NEW h, Gives(h, r)
  PROVE  Formed(h, NewNode, r.lhs, Payload(r), Built(r).from, Built(r).to)
  <1>1. CASE Is(r, 64, "HEADER", <<{"MODULE"}, Tokens>>)
    <2>1. r.at = 64 /\ r.lhs = "HEADER" /\ Len(r.rhs) = 2 /\ r.rhs[1] = {"MODULE"} /\ r.rhs[2] = Tokens
      BY <1>1 DEF Is
    <2>h. Peek(0) \notin {"DECIMAL_LIT", "HEX_LIT"}
      BY <2>1 DEF Gives
    <2>2. /\ Peek(0) \in Tokens /\ Peek(1) = "MODULE"
          /\ Given(h, 0) /\ Given(h, 1)
          /\ Built(r).from = From(1) /\ Spans(h, r) /\ From(0) = To(1) + 1
      BY <2>1, Two DEF Id
    <2>3. /\ To(0) = From(0) /\ Value(0) = From(0) /\ Kind(h, From(0)) \in Tokens \ {"DECIMAL_LIT", "HEX_LIT"}
          /\ To(1) = From(1) /\ Value(1) = From(1) /\ Kind(h, From(1)) = "MODULE"
      BY <2>2, <2>h, Sorts DEF Given
    <2>4. /\ From(0) \in 1..To(0) /\ To(0) \in Nat
          /\ From(1) \in 1..To(1) /\ To(1) \in Nat
      BY <2>2, GivenSpan
    <2>5. Built(r).to = To(0)
      BY <2>2 DEF Spans
    <2>6. Payload(r) = Value(0)
      BY <2>1 DEF Payload
    <2>8. Built(r).to = Built(r).from + 1 /\ Kind(h, Built(r).from) = "MODULE" /\ Leaf(h, Payload(r), Tokens \ {"DECIMAL_LIT", "HEX_LIT"}, Built(r).to)
      BY <2>1, <2>2, <2>3, <2>4, <2>5, <2>6 DEF Leaf
    <2> QED
      BY <2>1, <2>8, FormedHeader
  <1> QED
    BY <1>1 DEF HeaderRule

LEMMA TypeNameFormed ==
  ASSUME NEW r, TypeNameRule(r), NEW h, Gives(h, r)
  PROVE  Formed(h, NewNode, r.lhs, Payload(r), Built(r).from, Built(r).to)
  <1>1. CASE Is(r, 84, "VAR_TYPE", <<Id>>) /\ r.under = {"COLON"}
    <2>1. r.at = 84 /\ r.lhs = "VAR_TYPE" /\ Len(r.rhs) = 1 /\ r.rhs[1] = Id
      BY <1>1 DEF Is
    <2>2. /\ Peek(0) \in IdTokens
          /\ Given(h, 0)
          /\ Built(r).from = From(0) /\ Spans(h, r)
      BY <2>1, One DEF Id
    <2>3. /\ To(0) = From(0) /\ Value(0) = From(0) /\ Kind(h, From(0)) \in IdTokens
      BY <2>2, Sorts DEF Given
    <2>4. /\ From(0) \in 1..To(0) /\ To(0) \in Nat
      BY <2>2, GivenSpan
    <2>5. Built(r).to = To(0)
      BY <2>2 DEF Spans
    <2>6. Payload(r) = [type |-> "ID", id |-> Value(0), exprList |-> NULL, pointerDepth |-> 0]
      BY <2>1 DEF Payload, TypePayload, ZeroType
    <2>7. Kind(h, From(0) - 1) \in {"COLON", "ARROW"}
      BY <1>1, <2>1, One, Sorts
    <2>8. FormedType(h, NewNode, Payload(r), Built(r).from, Built(r).to)
      BY <2>1, <2>2, <2>3, <2>4, <2>5, <2>6, <2>7 DEF FormedType, Leaf
    <2> QED
      BY <2>1, <2>8, FormedKinds
  <1>2. CASE Is(r, 94, "VAR_TYPE", <<Id>>) /\ r.under = {"ARROW"}
    <2>1. r.at = 94 /\ r.lhs = "VAR_TYPE" /\ Len(r.rhs) = 1 /\ r.rhs[1] = Id
      BY <1>2 DEF Is
    <2>2. /\ Peek(0) \in IdTokens
          /\ Given(h, 0)
          /\ Built(r).from = From(0) /\ Spans(h, r)
      BY <2>1, One DEF Id
    <2>3. /\ To(0) = From(0) /\ Value(0) = From(0) /\ Kind(h, From(0)) \in IdTokens
      BY <2>2, Sorts DEF Given
    <2>4. /\ From(0) \in 1..To(0) /\ To(0) \in Nat
      BY <2>2, GivenSpan
    <2>5. Built(r).to = To(0)
      BY <2>2 DEF Spans
    <2>6. Payload(r) = [type |-> "ID", id |-> Value(0), exprList |-> NULL, pointerDepth |-> 0]
      BY <2>1 DEF Payload, TypePayload, ZeroType
    <2>7. Kind(h, From(0) - 1) \in {"COLON", "ARROW"}
      BY <1>2, <2>1, One, Sorts
    <2>8. FormedType(h, NewNode, Payload(r), Built(r).from, Built(r).to)
      BY <2>1, <2>2, <2>3, <2>4, <2>5, <2>6, <2>7 DEF FormedType, Leaf
    <2> QED
      BY <2>1, <2>8, FormedKinds
  <1>3. CASE Is(r, 105, "VAR_TYPE", <<{"UNDERSCORE"}>>) /\ r.la = {"ARROW"}
    <2>1. r.at = 105 /\ r.lhs = "VAR_TYPE" /\ Len(r.rhs) = 1 /\ r.rhs[1] = {"UNDERSCORE"}
      BY <1>3 DEF Is
    <2>2. /\ Peek(0) = "UNDERSCORE"
          /\ Given(h, 0)
          /\ Built(r).from = From(0) /\ Spans(h, r)
      BY <2>1, One DEF Id
    <2>3. /\ To(0) = From(0) /\ Value(0) = From(0) /\ Kind(h, From(0)) = "UNDERSCORE"
      BY <2>2, Sorts DEF Given
    <2>4. /\ From(0) \in 1..To(0) /\ To(0) \in Nat
      BY <2>2, GivenSpan
    <2>5. Built(r).to = To(0)
      BY <2>2 DEF Spans
    <2>6. Payload(r) = [type |-> "NONE", id |-> NULL, exprList |-> NULL, pointerDepth |-> 0]
      BY <2>1 DEF Payload, TypePayload, ZeroType
    <2>7. Kind(h, From(0) + 1) = "ARROW"
      BY <1>3, <2>3 DEF Gives
    <2>8. FormedType(h, NewNode, Payload(r), Built(r).from, Built(r).to)
      BY <2>1, <2>2, <2>3, <2>4, <2>5, <2>6, <2>7 DEF FormedType
    <2> QED
      BY <2>1, <2>8, FormedKinds
  <1> QED
    BY <1>1, <1>2, <1>3 DEF TypeNameRule

LEMMA ArrayTypeFormed ==
  ASSUME NEW r, ArrayTypeRule(r), NEW h, Gives(h, r), \A m \in 1..Len(tree) : NodeFormed(h, m, h.tree[m])
  PROVE  Formed(h, NewNode, r.lhs, Payload(r), Built(r).from, Built(r).to)
  <1>1. CASE Is(r, 115, "VAR_TYPE", <<{"LBRK"}, Id, {"SEMI"}, {"EXPRESSION_LIST"}, {"RBRK"}>>)
    <2>1. r.at = 115 /\ r.lhs = "VAR_TYPE" /\ Len(r.rhs) = 5 /\ r.rhs[1] = {"LBRK"} /\ r.rhs[2] = Id /\ r.rhs[3] = {"SEMI"} /\ r.rhs[4] = {"EXPRESSION_LIST"} /\ r.rhs[5] = {"RBRK"}
      BY <1>1 DEF Is
    <2>2. /\ Peek(0) = "RBRK" /\ Peek(1) = "EXPRESSION_LIST" /\ Peek(2) = "SEMI" /\ Peek(3) \in IdTokens /\ Peek(4) = "LBRK"
          /\ Given(h, 0) /\ Given(h, 1) /\ Given(h, 2) /\ Given(h, 3) /\ Given(h, 4)
          /\ Built(r).from = From(4) /\ Spans(h, r) /\ From(0) = To(1) + 1 /\ From(1) = To(2) + 1 /\ From(2) = To(3) + 1 /\ From(3) = To(4) + 1
      BY <2>1, Five DEF Id
    <2>3. /\ To(0) = From(0) /\ Value(0) = From(0) /\ Kind(h, From(0)) = "RBRK"
          /\ Held(h, NewNode, "EXPRESSION_LIST", Value(1), From(1), To(1))
          /\ To(2) = From(2) /\ Value(2) = From(2) /\ Kind(h, From(2)) = "SEMI"
          /\ To(3) = From(3) /\ Value(3) = From(3) /\ Kind(h, From(3)) \in IdTokens
          /\ To(4) = From(4) /\ Value(4) = From(4) /\ Kind(h, From(4)) = "LBRK"
      BY <2>2, Sorts DEF Given
    <2>4. /\ From(0) \in 1..To(0) /\ To(0) \in Nat
          /\ From(1) \in 1..To(1) /\ To(1) \in Nat
          /\ From(2) \in 1..To(2) /\ To(2) \in Nat
          /\ From(3) \in 1..To(3) /\ To(3) \in Nat
          /\ From(4) \in 1..To(4) /\ To(4) \in Nat
      BY <2>2, GivenSpan
    <2>5. Built(r).to = To(0)
      BY <2>2 DEF Spans
    <2>6. Payload(r) = [type |-> "ARRAY", id |-> Value(3), exprList |-> Value(1), pointerDepth |-> 0]
      <3>1. Payload(r) = TypePayload(r) /\ TypePayload(r) = [ZeroType EXCEPT !.type = "ARRAY", !.id = Value(3), !.exprList = Value(1)]
        BY <2>1 DEF Payload, TypePayload
      <3> QED
        BY <3>1 DEF ZeroType
    <2>8. FormedType(h, NewNode, Payload(r), Built(r).from, Built(r).to)
      BY <2>1, <2>2, <2>3, <2>4, <2>5, <2>6, SMTT(30) DEF FormedType, Leaf
    <2> QED
      BY <2>1, <2>8, FormedKinds
  <1>2. CASE Is(r, 130, "VAR_TYPE", <<{"LBRK"}, Id, {"SEMI"}, {"EXPRESSION"}, {"RBRK"}>>)
    <2>1. r.at = 130 /\ r.lhs = "VAR_TYPE" /\ Len(r.rhs) = 5 /\ r.rhs[1] = {"LBRK"} /\ r.rhs[2] = Id /\ r.rhs[3] = {"SEMI"} /\ r.rhs[4] = {"EXPRESSION"} /\ r.rhs[5] = {"RBRK"}
      BY <1>2 DEF Is
    <2>2. /\ Peek(0) = "RBRK" /\ Peek(1) = "EXPRESSION" /\ Peek(2) = "SEMI" /\ Peek(3) \in IdTokens /\ Peek(4) = "LBRK"
          /\ Given(h, 0) /\ Given(h, 1) /\ Given(h, 2) /\ Given(h, 3) /\ Given(h, 4)
          /\ Built(r).from = From(4) /\ Spans(h, r) /\ From(0) = To(1) + 1 /\ From(1) = To(2) + 1 /\ From(2) = To(3) + 1 /\ From(3) = To(4) + 1
      BY <2>1, Five DEF Id
    <2>3. /\ To(0) = From(0) /\ Value(0) = From(0) /\ Kind(h, From(0)) = "RBRK"
          /\ Part(h, NewNode, Value(1), "EXPRESSION", From(1), To(1))
          /\ To(2) = From(2) /\ Value(2) = From(2) /\ Kind(h, From(2)) = "SEMI"
          /\ To(3) = From(3) /\ Value(3) = From(3) /\ Kind(h, From(3)) \in IdTokens
          /\ To(4) = From(4) /\ Value(4) = From(4) /\ Kind(h, From(4)) = "LBRK"
      BY <2>2, Sorts DEF Given
    <2>4. /\ From(0) \in 1..To(0) /\ To(0) \in Nat
          /\ From(1) \in 1..To(1) /\ To(1) \in Nat
          /\ From(2) \in 1..To(2) /\ To(2) \in Nat
          /\ From(3) \in 1..To(3) /\ To(3) \in Nat
          /\ From(4) \in 1..To(4) /\ To(4) \in Nat
      BY <2>2, GivenSpan
    <2>5. Built(r).to = To(0)
      BY <2>2 DEF Spans
    <2>6. Payload(r) = [type |-> "ARRAY", id |-> Value(3), exprList |-> NewCell, pointerDepth |-> 0]
      <3>1. Payload(r) = TypePayload(r) /\ TypePayload(r) = [ZeroType EXCEPT !.type = "ARRAY", !.id = Value(3), !.exprList = NewCell]
        BY <2>1 DEF Payload, TypePayload
      <3> QED
        BY <3>1 DEF ZeroType
    <2>7. Held(h, NewNode, "EXPRESSION_LIST", NewCell, From(1), To(1))
      <3>1. GivesList(h, Value(1)) /\ NewNode \in Nat
        BY <2>1 DEF Gives, Starting, ItemOf, NewNode
      <3>2. Element("EXPRESSION_LIST") = "EXPRESSION"
        BY DEF Element
      <3> QED
        BY <2>3, <3>1, <3>2 DEF GivesList
    <2>8. FormedType(h, NewNode, Payload(r), Built(r).from, Built(r).to)
      BY <2>1, <2>2, <2>3, <2>4, <2>5, <2>6, <2>7, SMTT(30) DEF FormedType, Leaf
    <2> QED
      BY <2>1, <2>8, FormedKinds
  <1>3. CASE Is(r, 148, "VAR_TYPE", <<{"LBRK"}, {"VAR_TYPE"}, {"SEMI"}, {"EXPRESSION_LIST"}, {"RBRK"}>>)
    <2>1. r.at = 148 /\ r.lhs = "VAR_TYPE" /\ Len(r.rhs) = 5 /\ r.rhs[1] = {"LBRK"} /\ r.rhs[2] = {"VAR_TYPE"} /\ r.rhs[3] = {"SEMI"} /\ r.rhs[4] = {"EXPRESSION_LIST"} /\ r.rhs[5] = {"RBRK"}
      BY <1>3 DEF Is
    <2>2. /\ Peek(0) = "RBRK" /\ Peek(1) = "EXPRESSION_LIST" /\ Peek(2) = "SEMI" /\ Peek(3) = "VAR_TYPE" /\ Peek(4) = "LBRK"
          /\ Given(h, 0) /\ Given(h, 1) /\ Given(h, 2) /\ Given(h, 3) /\ Given(h, 4)
          /\ Built(r).from = From(4) /\ Spans(h, r) /\ From(0) = To(1) + 1 /\ From(1) = To(2) + 1 /\ From(2) = To(3) + 1 /\ From(3) = To(4) + 1
      BY <2>1, Five DEF Id
    <2>3. /\ To(0) = From(0) /\ Value(0) = From(0) /\ Kind(h, From(0)) = "RBRK"
          /\ Held(h, NewNode, "EXPRESSION_LIST", Value(1), From(1), To(1))
          /\ To(2) = From(2) /\ Value(2) = From(2) /\ Kind(h, From(2)) = "SEMI"
          /\ Part(h, NewNode, Value(3), "VAR_TYPE", From(3), To(3))
          /\ To(4) = From(4) /\ Value(4) = From(4) /\ Kind(h, From(4)) = "LBRK"
      BY <2>2, Sorts DEF Given
    <2>4. /\ From(0) \in 1..To(0) /\ To(0) \in Nat
          /\ From(1) \in 1..To(1) /\ To(1) \in Nat
          /\ From(2) \in 1..To(2) /\ To(2) \in Nat
          /\ From(3) \in 1..To(3) /\ To(3) \in Nat
          /\ From(4) \in 1..To(4) /\ To(4) \in Nat
      BY <2>2, GivenSpan
    <2>5. Built(r).to = To(0)
      BY <2>2 DEF Spans
    <2>6. Payload(r) = [type |-> "NESTED", id |-> NULL, exprList |-> NULL, pointerDepth |-> 0]
      BY <2>1 DEF Payload, TypePayload, ZeroType
    <2>7. Kind(h, From(3)) = "LBRK"
      <3> DEFINE m == Value(3)
                 v == h.tree[m].is
      <3>1. m \in 1..Len(tree) /\ h.tree[m].sym = "VAR_TYPE" /\ h.tree[m].from = From(3) /\ h.tree[m].to = To(3)
        BY <2>2, <2>3 DEF Part, NewNode, Spans
      <3>2. FormedType(h, m, v, From(3), To(3))
        BY <3>1 DEF NodeFormed, Formed
      <3> HIDE DEF m, v
      <3>3. Kind(h, From(3) - 1) = "LBRK" /\ Kind(h, To(3) + 1) = "SEMI"
        BY <2>2, <2>3, <2>4
      <3>4. From(3) \in Nat /\ To(3) \in Nat
        BY <2>4
      <3>5. CASE v.type = "NONE" /\ From(3) = To(3) - v.pointerDepth /\ Kind(h, From(3) + 1) = "ARROW"
        <4>1. v.pointerDepth \in Nat /\ \A i \in (From(3) + 1)..To(3) : Kind(h, i) = "MUL"
          BY <3>2, <3>4, <3>5 DEF FormedType
        <4>2. CASE v.pointerDepth = 0
          BY <3>3, <3>4, <3>5, <4>2
        <4>3. CASE v.pointerDepth # 0
          <5>1. From(3) + 1 \in (From(3) + 1)..To(3)
            BY <3>4, <3>5, <4>1, <4>3
          <5> QED
            BY <3>5, <4>1, <5>1
        <4> QED
          BY <4>2, <4>3
      <3> QED
        BY <3>2, <3>3, <3>5, Zenon DEF FormedType
    <2>8. FormedType(h, NewNode, Payload(r), Built(r).from, Built(r).to)
      BY <2>1, <2>2, <2>3, <2>4, <2>5, <2>6, <2>7, SMTT(30) DEF FormedType
    <2> QED
      BY <2>1, <2>8, FormedKinds
  <1> QED
    BY <1>1, <1>2, <1>3 DEF ArrayTypeRule

LEMMA TypedIdFormed ==
  ASSUME NEW r, TypedIdRule(r), NEW h, Gives(h, r), r.lhs \notin ListKinds
  PROVE  Formed(h, NewNode, r.lhs, Payload(r), Built(r).from, Built(r).to)
  <1>1. CASE Is(r, 177, "TYPED_ID", <<Id, {"COLON"}, {"VAR_TYPE"}>>)
    <2>1. r.at = 177 /\ r.lhs = "TYPED_ID" /\ Len(r.rhs) = 3 /\ r.rhs[1] = Id /\ r.rhs[2] = {"COLON"} /\ r.rhs[3] = {"VAR_TYPE"}
      BY <1>1 DEF Is
    <2>2. /\ Peek(0) = "VAR_TYPE" /\ Peek(1) = "COLON" /\ Peek(2) \in IdTokens
          /\ Given(h, 0) /\ Given(h, 1) /\ Given(h, 2)
          /\ Built(r).from = From(2) /\ Spans(h, r) /\ From(0) = To(1) + 1 /\ From(1) = To(2) + 1
      BY <2>1, Three DEF Id
    <2>3. /\ Part(h, NewNode, Value(0), "VAR_TYPE", From(0), To(0))
          /\ To(1) = From(1) /\ Value(1) = From(1) /\ Kind(h, From(1)) = "COLON"
          /\ To(2) = From(2) /\ Value(2) = From(2) /\ Kind(h, From(2)) \in IdTokens
      BY <2>2, Sorts DEF Given
    <2>4. /\ From(0) \in 1..To(0) /\ To(0) \in Nat
          /\ From(1) \in 1..To(1) /\ To(1) \in Nat
          /\ From(2) \in 1..To(2) /\ To(2) \in Nat
      BY <2>2, GivenSpan
    <2>5. Built(r).to = To(0)
      BY <2>2 DEF Spans
    <2>6. Payload(r) = [id |-> Value(2), type |-> Value(0)]
      BY <2>1 DEF Payload
    <2>8. FormedTypedId(h, NewNode, Payload(r), Built(r).from, Built(r).to)
      BY <2>1, <2>2, <2>3, <2>4, <2>5, <2>6 DEF FormedTypedId, Leaf
    <2> QED
      BY <2>1, <2>8, FormedKinds
  <1> QED
    BY <1>1 DEF TypedIdRule, Is, ListKinds

LEMMA FactorFormed ==
  ASSUME NEW r, FactorRule(r), NEW h, Gives(h, r)
  PROVE  Formed(h, NewNode, r.lhs, Payload(r), Built(r).from, Built(r).to)
  <1>1. CASE Is(r, 231, "FACTOR", <<{"ID"}>>)
    <2>1. r.at = 231 /\ r.lhs = "FACTOR" /\ Len(r.rhs) = 1 /\ r.rhs[1] = {"ID"}
      BY <1>1 DEF Is
    <2>2. /\ Peek(0) = "ID"
          /\ Given(h, 0)
          /\ Built(r).from = From(0) /\ Spans(h, r)
      BY <2>1, One DEF Id
    <2>3. /\ To(0) = From(0) /\ Value(0) = From(0) /\ Kind(h, From(0)) = "ID"
      BY <2>2, Sorts DEF Given
    <2>4. /\ From(0) \in 1..To(0) /\ To(0) \in Nat
      BY <2>2, GivenSpan
    <2>5. Built(r).to = To(0)
      BY <2>2 DEF Spans
    <2>6. Payload(r) = [type |-> "ID", is |-> Value(0)]
      BY <2>1 DEF Payload, FactorPayload
    <2>8. FormedFactor(h, NewNode, Payload(r), Built(r).from, Built(r).to)
      BY <2>1, <2>2, <2>3, <2>4, <2>5, <2>6 DEF FormedFactor, Leaf
    <2> QED
      BY <2>1, <2>8, FormedKinds
  <1>2. CASE Is(r, 242, "FACTOR", <<{"NUMBER"}>>)
    <2>1. r.at = 242 /\ r.lhs = "FACTOR" /\ Len(r.rhs) = 1 /\ r.rhs[1] = {"NUMBER"}
      BY <1>2 DEF Is
    <2>2. /\ Peek(0) = "NUMBER"
          /\ Given(h, 0)
          /\ Built(r).from = From(0) /\ Spans(h, r)
      BY <2>1, One DEF Id
    <2>3. /\ Part(h, NewNode, Value(0), "NUMBER", From(0), To(0))
      BY <2>2, Sorts DEF Given
    <2>4. /\ From(0) \in 1..To(0) /\ To(0) \in Nat
      BY <2>2, GivenSpan
    <2>5. Built(r).to = To(0)
      BY <2>2 DEF Spans
    <2>6. Payload(r) = [type |-> "NUMBER", is |-> Value(0)]
      BY <2>1 DEF Payload, FactorPayload
    <2>8. FormedFactor(h, NewNode, Payload(r), Built(r).from, Built(r).to)
      BY <2>1, <2>2, <2>3, <2>4, <2>5, <2>6 DEF FormedFactor, Leaf
    <2> QED
      BY <2>1, <2>8, FormedKinds
  <1>3. CASE Is(r, 252, "FACTOR", <<{"STRING_LIT"}>>)
    <2>1. r.at = 252 /\ r.lhs = "FACTOR" /\ Len(r.rhs) = 1 /\ r.rhs[1] = {"STRING_LIT"}
      BY <1>3 DEF Is
    <2>2. /\ Peek(0) = "STRING_LIT"
          /\ Given(h, 0)
          /\ Built(r).from = From(0) /\ Spans(h, r)
      BY <2>1, One DEF Id
    <2>3. /\ To(0) = From(0) /\ Value(0) = From(0) /\ Kind(h, From(0)) = "STRING_LIT"
      BY <2>2, Sorts DEF Given
    <2>4. /\ From(0) \in 1..To(0) /\ To(0) \in Nat
      BY <2>2, GivenSpan
    <2>5. Built(r).to = To(0)
      BY <2>2 DEF Spans
    <2>6. Payload(r) = [type |-> "STR", is |-> Value(0)]
      BY <2>1 DEF Payload, FactorPayload
    <2>8. FormedFactor(h, NewNode, Payload(r), Built(r).from, Built(r).to)
      BY <2>1, <2>2, <2>3, <2>4, <2>5, <2>6 DEF FormedFactor, Leaf
    <2> QED
      BY <2>1, <2>8, FormedKinds
  <1>4. CASE Is(r, 273, "FACTOR", <<{"FUNC_CALL"}>>)
    <2>1. r.at = 273 /\ r.lhs = "FACTOR" /\ Len(r.rhs) = 1 /\ r.rhs[1] = {"FUNC_CALL"}
      BY <1>4 DEF Is
    <2>2. /\ Peek(0) = "FUNC_CALL"
          /\ Given(h, 0)
          /\ Built(r).from = From(0) /\ Spans(h, r)
      BY <2>1, One DEF Id
    <2>3. /\ Part(h, NewNode, Value(0), "FUNC_CALL", From(0), To(0))
      BY <2>2, Sorts DEF Given
    <2>4. /\ From(0) \in 1..To(0) /\ To(0) \in Nat
      BY <2>2, GivenSpan
    <2>5. Built(r).to = To(0)
      BY <2>2 DEF Spans
    <2>6. Payload(r) = [type |-> "FUNC_CALL", is |-> Value(0)]
      BY <2>1 DEF Payload, FactorPayload
    <2>8. FormedFactor(h, NewNode, Payload(r), Built(r).from, Built(r).to)
      BY <2>1, <2>2, <2>3, <2>4, <2>5, <2>6 DEF FormedFactor, Leaf
    <2> QED
      BY <2>1, <2>8, FormedKinds
  <1>5. CASE Is(r, 282, "FACTOR", <<{"DEREF"}>>)
    <2>1. r.at = 282 /\ r.lhs = "FACTOR" /\ Len(r.rhs) = 1 /\ r.rhs[1] = {"DEREF"}
      BY <1>5 DEF Is
    <2>2. /\ Peek(0) = "DEREF"
          /\ Given(h, 0)
          /\ Built(r).from = From(0) /\ Spans(h, r)
      BY <2>1, One DEF Id
    <2>3. /\ Part(h, NewNode, Value(0), "DEREF", From(0), To(0))
      BY <2>2, Sorts DEF Given
    <2>4. /\ From(0) \in 1..To(0) /\ To(0) \in Nat
      BY <2>2, GivenSpan
    <2>5. Built(r).to = To(0)
      BY <2>2 DEF Spans
    <2>6. Payload(r) = [type |-> "DEREF", is |-> Value(0)]
      BY <2>1 DEF Payload, FactorPayload
    <2>8. FormedFactor(h, NewNode, Payload(r), Built(r).from, Built(r).to)
      BY <2>1, <2>2, <2>3, <2>4, <2>5, <2>6 DEF FormedFactor, Leaf
    <2> QED
      BY <2>1, <2>8, FormedKinds
  <1> QED
    BY <1>1, <1>2, <1>3, <1>4, <1>5 DEF FactorRule

LEMMA ParenthesesFormed ==
  ASSUME NEW r, ParenthesesRule(r), NEW h, Gives(h, r)
  PROVE  Formed(h, NewNode, r.lhs, Payload(r), Built(r).from, Built(r).to)
  <1>1. CASE Is(r, 261, "FACTOR", <<{"LP"}, {"EXPRESSION"}, {"RP"}>>)
    <2>1. r.at = 261 /\ r.lhs = "FACTOR" /\ Len(r.rhs) = 3 /\ r.rhs[1] = {"LP"} /\ r.rhs[2] = {"EXPRESSION"} /\ r.rhs[3] = {"RP"}
      BY <1>1 DEF Is
    <2>2. /\ Peek(0) = "RP" /\ Peek(1) = "EXPRESSION" /\ Peek(2) = "LP"
          /\ Given(h, 0) /\ Given(h, 1) /\ Given(h, 2)
          /\ Built(r).from = From(2) /\ Spans(h, r) /\ From(0) = To(1) + 1 /\ From(1) = To(2) + 1
      BY <2>1, Three DEF Id
    <2>3. /\ To(0) = From(0) /\ Value(0) = From(0) /\ Kind(h, From(0)) = "RP"
          /\ Part(h, NewNode, Value(1), "EXPRESSION", From(1), To(1))
          /\ To(2) = From(2) /\ Value(2) = From(2) /\ Kind(h, From(2)) = "LP"
      BY <2>2, Sorts DEF Given
    <2>4. /\ From(0) \in 1..To(0) /\ To(0) \in Nat
          /\ From(1) \in 1..To(1) /\ To(1) \in Nat
          /\ From(2) \in 1..To(2) /\ To(2) \in Nat
      BY <2>2, GivenSpan
    <2>5. Built(r).to = To(0)
      BY <2>2 DEF Spans
    <2>6. Payload(r) = [type |-> "EXPR", is |-> Value(1)]
      BY <2>1 DEF Payload, FactorPayload
    <2>8. FormedFactor(h, NewNode, Payload(r), Built(r).from, Built(r).to)
      BY <2>1, <2>2, <2>3, <2>4, <2>5, <2>6 DEF FormedFactor, Leaf
    <2> QED
      BY <2>1, <2>8, FormedKinds
  <1> QED
    BY <1>1 DEF ParenthesesRule

LEMMA TermFormed ==
  ASSUME NEW r, TermRule(r), NEW h, Gives(h, r)
  PROVE  Formed(h, NewNode, r.lhs, Payload(r), Built(r).from, Built(r).to)
  <1>1. CASE Is(r, 299, "TERM", <<{"TERM"}, Mulops, {"FACTOR"}>>)
    <2>1. r.at = 299 /\ r.lhs = "TERM" /\ Len(r.rhs) = 3 /\ r.rhs[1] = {"TERM"} /\ r.rhs[2] = Mulops /\ r.rhs[3] = {"FACTOR"}
      BY <1>1 DEF Is
    <2>2. /\ Peek(0) = "FACTOR" /\ Peek(1) \in Mulops /\ Peek(2) = "TERM"
          /\ Given(h, 0) /\ Given(h, 1) /\ Given(h, 2)
          /\ Built(r).from = From(2) /\ Spans(h, r) /\ From(0) = To(1) + 1 /\ From(1) = To(2) + 1
      BY <2>1, Three DEF Id
    <2>3. /\ Part(h, NewNode, Value(0), "FACTOR", From(0), To(0))
          /\ To(1) = From(1) /\ Value(1) = From(1) /\ Kind(h, From(1)) \in Mulops
          /\ Part(h, NewNode, Value(2), "TERM", From(2), To(2))
      BY <2>2, Sorts DEF Given
    <2>4. /\ From(0) \in 1..To(0) /\ To(0) \in Nat
          /\ From(1) \in 1..To(1) /\ To(1) \in Nat
          /\ From(2) \in 1..To(2) /\ To(2) \in Nat
      BY <2>2, GivenSpan
    <2>5. Built(r).to = To(0)
      BY <2>2 DEF Spans
    <2>6. Payload(r) = [binary |-> TRUE, left |-> Value(2), op |-> Value(1), right |-> Value(0)]
      BY <2>1 DEF Payload, OperatorPayload
    <2>8. FormedOperator(h, NewNode, r.lhs, Payload(r), Built(r).from, Built(r).to) /\ r.lhs \in Operators
      BY <2>1, <2>2, <2>3, <2>4, <2>5, <2>6 DEF FormedOperator, Leaf, Operand, OperatorTokens, Operators
    <2> QED
      BY <2>1, <2>8, FormedOperators
  <1>2. CASE Is(r, 314, "TERM", <<{"FACTOR"}>>)
    <2>1. r.at = 314 /\ r.lhs = "TERM" /\ Len(r.rhs) = 1 /\ r.rhs[1] = {"FACTOR"}
      BY <1>2 DEF Is
    <2>2. /\ Peek(0) = "FACTOR"
          /\ Given(h, 0)
          /\ Built(r).from = From(0) /\ Spans(h, r)
      BY <2>1, One DEF Id
    <2>3. /\ Part(h, NewNode, Value(0), "FACTOR", From(0), To(0))
      BY <2>2, Sorts DEF Given
    <2>4. /\ From(0) \in 1..To(0) /\ To(0) \in Nat
      BY <2>2, GivenSpan
    <2>5. Built(r).to = To(0)
      BY <2>2 DEF Spans
    <2>6. Payload(r).binary = FALSE /\ Payload(r).right = Value(0)
      BY <2>1 DEF Payload, OperatorPayload
    <2>8. FormedOperator(h, NewNode, r.lhs, Payload(r), Built(r).from, Built(r).to) /\ r.lhs \in Operators
      BY <2>1, <2>2, <2>3, <2>4, <2>5, <2>6 DEF FormedOperator, Operand, Operators
    <2> QED
      BY <2>1, <2>8, FormedOperators
  <1> QED
    BY <1>1, <1>2 DEF TermRule

LEMMA MathFormed ==
  ASSUME NEW r, MathRule(r), NEW h, Gives(h, r)
  PROVE  Formed(h, NewNode, r.lhs, Payload(r), Built(r).from, Built(r).to)
  <1>1. CASE Is(r, 332, "MATH_EXPR", <<{"MATH_EXPR"}, Addops, {"TERM"}>>)
    <2>1. r.at = 332 /\ r.lhs = "MATH_EXPR" /\ Len(r.rhs) = 3 /\ r.rhs[1] = {"MATH_EXPR"} /\ r.rhs[2] = Addops /\ r.rhs[3] = {"TERM"}
      BY <1>1 DEF Is
    <2>2. /\ Peek(0) = "TERM" /\ Peek(1) \in Addops /\ Peek(2) = "MATH_EXPR"
          /\ Given(h, 0) /\ Given(h, 1) /\ Given(h, 2)
          /\ Built(r).from = From(2) /\ Spans(h, r) /\ From(0) = To(1) + 1 /\ From(1) = To(2) + 1
      BY <2>1, Three DEF Id
    <2>3. /\ Part(h, NewNode, Value(0), "TERM", From(0), To(0))
          /\ To(1) = From(1) /\ Value(1) = From(1) /\ Kind(h, From(1)) \in Addops
          /\ Part(h, NewNode, Value(2), "MATH_EXPR", From(2), To(2))
      BY <2>2, Sorts DEF Given
    <2>4. /\ From(0) \in 1..To(0) /\ To(0) \in Nat
          /\ From(1) \in 1..To(1) /\ To(1) \in Nat
          /\ From(2) \in 1..To(2) /\ To(2) \in Nat
      BY <2>2, GivenSpan
    <2>5. Built(r).to = To(0)
      BY <2>2 DEF Spans
    <2>6. Payload(r) = [binary |-> TRUE, left |-> Value(2), op |-> Value(1), right |-> Value(0)]
      BY <2>1 DEF Payload, OperatorPayload
    <2>8. FormedOperator(h, NewNode, r.lhs, Payload(r), Built(r).from, Built(r).to) /\ r.lhs \in Operators
      BY <2>1, <2>2, <2>3, <2>4, <2>5, <2>6 DEF FormedOperator, Leaf, Operand, OperatorTokens, Operators
    <2> QED
      BY <2>1, <2>8, FormedOperators
  <1>2. CASE Is(r, 350, "MATH_EXPR", <<{"TERM"}>>)
    <2>1. r.at = 350 /\ r.lhs = "MATH_EXPR" /\ Len(r.rhs) = 1 /\ r.rhs[1] = {"TERM"}
      BY <1>2 DEF Is
    <2>2. /\ Peek(0) = "TERM"
          /\ Given(h, 0)
          /\ Built(r).from = From(0) /\ Spans(h, r)
      BY <2>1, One DEF Id
    <2>3. /\ Part(h, NewNode, Value(0), "TERM", From(0), To(0))
      BY <2>2, Sorts DEF Given
    <2>4. /\ From(0) \in 1..To(0) /\ To(0) \in Nat
      BY <2>2, GivenSpan
    <2>5. Built(r).to = To(0)
      BY <2>2 DEF Spans
    <2>6. Payload(r).binary = FALSE /\ Payload(r).right = Value(0)
      BY <2>1 DEF Payload, OperatorPayload
    <2>8. FormedOperator(h, NewNode, r.lhs, Payload(r), Built(r).from, Built(r).to) /\ r.lhs \in Operators
      BY <2>1, <2>2, <2>3, <2>4, <2>5, <2>6 DEF FormedOperator, Operand, Operators
    <2> QED
      BY <2>1, <2>8, FormedOperators
  <1> QED
    BY <1>1, <1>2 DEF MathRule

LEMMA RelationalFormed ==
  ASSUME NEW r, RelationalRule(r), NEW h, Gives(h, r)
  PROVE  Formed(h, NewNode, r.lhs, Payload(r), Built(r).from, Built(r).to)
  <1>1. CASE Is(r, 377, "RELATE", <<{"RELATE"}, Relops, {"MATH_EXPR"}>>)
    <2>1. r.at = 377 /\ r.lhs = "RELATE" /\ Len(r.rhs) = 3 /\ r.rhs[1] = {"RELATE"} /\ r.rhs[2] = Relops /\ r.rhs[3] = {"MATH_EXPR"}
      BY <1>1 DEF Is
    <2>2. /\ Peek(0) = "MATH_EXPR" /\ Peek(1) \in Relops /\ Peek(2) = "RELATE"
          /\ Given(h, 0) /\ Given(h, 1) /\ Given(h, 2)
          /\ Built(r).from = From(2) /\ Spans(h, r) /\ From(0) = To(1) + 1 /\ From(1) = To(2) + 1
      BY <2>1, Three DEF Id
    <2>3. /\ Part(h, NewNode, Value(0), "MATH_EXPR", From(0), To(0))
          /\ To(1) = From(1) /\ Value(1) = From(1) /\ Kind(h, From(1)) \in Relops
          /\ Part(h, NewNode, Value(2), "RELATE", From(2), To(2))
      BY <2>2, Sorts DEF Given
    <2>4. /\ From(0) \in 1..To(0) /\ To(0) \in Nat
          /\ From(1) \in 1..To(1) /\ To(1) \in Nat
          /\ From(2) \in 1..To(2) /\ To(2) \in Nat
      BY <2>2, GivenSpan
    <2>5. Built(r).to = To(0)
      BY <2>2 DEF Spans
    <2>6. Payload(r) = [binary |-> TRUE, left |-> Value(2), op |-> Value(1), right |-> Value(0)]
      BY <2>1 DEF Payload, OperatorPayload
    <2>8. FormedOperator(h, NewNode, r.lhs, Payload(r), Built(r).from, Built(r).to) /\ r.lhs \in Operators
      BY <2>1, <2>2, <2>3, <2>4, <2>5, <2>6 DEF FormedOperator, Leaf, Operand, OperatorTokens, Operators
    <2> QED
      BY <2>1, <2>8, FormedOperators
  <1>2. CASE Is(r, 399, "RELATE", <<{"MATH_EXPR"}>>)
    <2>1. r.at = 399 /\ r.lhs = "RELATE" /\ Len(r.rhs) = 1 /\ r.rhs[1] = {"MATH_EXPR"}
      BY <1>2 DEF Is
    <2>2. /\ Peek(0) = "MATH_EXPR"
          /\ Given(h, 0)
          /\ Built(r).from = From(0) /\ Spans(h, r)
      BY <2>1, One DEF Id
    <2>3. /\ Part(h, NewNode, Value(0), "MATH_EXPR", From(0), To(0))
      BY <2>2, Sorts DEF Given
    <2>4. /\ From(0) \in 1..To(0) /\ To(0) \in Nat
      BY <2>2, GivenSpan
    <2>5. Built(r).to = To(0)
      BY <2>2 DEF Spans
    <2>6. Payload(r).binary = FALSE /\ Payload(r).right = Value(0)
      BY <2>1 DEF Payload, OperatorPayload
    <2>8. FormedOperator(h, NewNode, r.lhs, Payload(r), Built(r).from, Built(r).to) /\ r.lhs \in Operators
      BY <2>1, <2>2, <2>3, <2>4, <2>5, <2>6 DEF FormedOperator, Operand, Operators
    <2> QED
      BY <2>1, <2>8, FormedOperators
  <1> QED
    BY <1>1, <1>2 DEF RelationalRule

LEMMA ConjFormed ==
  ASSUME NEW r, ConjRule(r), NEW h, Gives(h, r)
  PROVE  Formed(h, NewNode, r.lhs, Payload(r), Built(r).from, Built(r).to)
  <1>1. CASE Is(r, 419, "LOGIC_CONJ", <<{"LOGIC_CONJ"}, {"LAND"}, {"RELATE"}>>)
    <2>1. r.at = 419 /\ r.lhs = "LOGIC_CONJ" /\ Len(r.rhs) = 3 /\ r.rhs[1] = {"LOGIC_CONJ"} /\ r.rhs[2] = {"LAND"} /\ r.rhs[3] = {"RELATE"}
      BY <1>1 DEF Is
    <2>2. /\ Peek(0) = "RELATE" /\ Peek(1) = "LAND" /\ Peek(2) = "LOGIC_CONJ"
          /\ Given(h, 0) /\ Given(h, 1) /\ Given(h, 2)
          /\ Built(r).from = From(2) /\ Spans(h, r) /\ From(0) = To(1) + 1 /\ From(1) = To(2) + 1
      BY <2>1, Three DEF Id
    <2>3. /\ Part(h, NewNode, Value(0), "RELATE", From(0), To(0))
          /\ To(1) = From(1) /\ Value(1) = From(1) /\ Kind(h, From(1)) = "LAND"
          /\ Part(h, NewNode, Value(2), "LOGIC_CONJ", From(2), To(2))
      BY <2>2, Sorts DEF Given
    <2>4. /\ From(0) \in 1..To(0) /\ To(0) \in Nat
          /\ From(1) \in 1..To(1) /\ To(1) \in Nat
          /\ From(2) \in 1..To(2) /\ To(2) \in Nat
      BY <2>2, GivenSpan
    <2>5. Built(r).to = To(0)
      BY <2>2 DEF Spans
    <2>6. Payload(r) = [binary |-> TRUE, left |-> Value(2), op |-> Value(1), right |-> Value(0)]
      BY <2>1 DEF Payload, OperatorPayload
    <2>8. FormedOperator(h, NewNode, r.lhs, Payload(r), Built(r).from, Built(r).to) /\ r.lhs \in Operators
      BY <2>1, <2>2, <2>3, <2>4, <2>5, <2>6 DEF FormedOperator, Leaf, Operand, OperatorTokens, Operators
    <2> QED
      BY <2>1, <2>8, FormedOperators
  <1>2. CASE Is(r, 435, "LOGIC_CONJ", <<{"RELATE"}>>)
    <2>1. r.at = 435 /\ r.lhs = "LOGIC_CONJ" /\ Len(r.rhs) = 1 /\ r.rhs[1] = {"RELATE"}
      BY <1>2 DEF Is
    <2>2. /\ Peek(0) = "RELATE"
          /\ Given(h, 0)
          /\ Built(r).from = From(0) /\ Spans(h, r)
      BY <2>1, One DEF Id
    <2>3. /\ Part(h, NewNode, Value(0), "RELATE", From(0), To(0))
      BY <2>2, Sorts DEF Given
    <2>4. /\ From(0) \in 1..To(0) /\ To(0) \in Nat
      BY <2>2, GivenSpan
    <2>5. Built(r).to = To(0)
      BY <2>2 DEF Spans
    <2>6. Payload(r).binary = FALSE /\ Payload(r).right = Value(0)
      BY <2>1 DEF Payload, OperatorPayload
    <2>8. FormedOperator(h, NewNode, r.lhs, Payload(r), Built(r).from, Built(r).to) /\ r.lhs \in Operators
      BY <2>1, <2>2, <2>3, <2>4, <2>5, <2>6 DEF FormedOperator, Operand, Operators
    <2> QED
      BY <2>1, <2>8, FormedOperators
  <1> QED
    BY <1>1, <1>2 DEF ConjRule

LEMMA DisjFormed ==
  ASSUME NEW r, DisjRule(r), NEW h, Gives(h, r)
  PROVE  Formed(h, NewNode, r.lhs, Payload(r), Built(r).from, Built(r).to)
  <1>1. CASE Is(r, 453, "LOGIC_DISJ", <<{"LOGIC_DISJ"}, {"LOR"}, {"LOGIC_CONJ"}>>)
    <2>1. r.at = 453 /\ r.lhs = "LOGIC_DISJ" /\ Len(r.rhs) = 3 /\ r.rhs[1] = {"LOGIC_DISJ"} /\ r.rhs[2] = {"LOR"} /\ r.rhs[3] = {"LOGIC_CONJ"}
      BY <1>1 DEF Is
    <2>2. /\ Peek(0) = "LOGIC_CONJ" /\ Peek(1) = "LOR" /\ Peek(2) = "LOGIC_DISJ"
          /\ Given(h, 0) /\ Given(h, 1) /\ Given(h, 2)
          /\ Built(r).from = From(2) /\ Spans(h, r) /\ From(0) = To(1) + 1 /\ From(1) = To(2) + 1
      BY <2>1, Three DEF Id
    <2>3. /\ Part(h, NewNode, Value(0), "LOGIC_CONJ", From(0), To(0))
          /\ To(1) = From(1) /\ Value(1) = From(1) /\ Kind(h, From(1)) = "LOR"
          /\ Part(h, NewNode, Value(2), "LOGIC_DISJ", From(2), To(2))
      BY <2>2, Sorts DEF Given
    <2>4. /\ From(0) \in 1..To(0) /\ To(0) \in Nat
          /\ From(1) \in 1..To(1) /\ To(1) \in Nat
          /\ From(2) \in 1..To(2) /\ To(2) \in Nat
      BY <2>2, GivenSpan
    <2>5. Built(r).to = To(0)
      BY <2>2 DEF Spans
    <2>6. Payload(r) = [binary |-> TRUE, left |-> Value(2), op |-> Value(1), right |-> Value(0)]
      BY <2>1 DEF Payload, OperatorPayload
    <2>8. FormedOperator(h, NewNode, r.lhs, Payload(r), Built(r).from, Built(r).to) /\ r.lhs \in Operators
      BY <2>1, <2>2, <2>3, <2>4, <2>5, <2>6 DEF FormedOperator, Leaf, Operand, OperatorTokens, Operators
    <2> QED
      BY <2>1, <2>8, FormedOperators
  <1>2. CASE Is(r, 468, "LOGIC_DISJ", <<{"LOGIC_CONJ"}>>)
    <2>1. r.at = 468 /\ r.lhs = "LOGIC_DISJ" /\ Len(r.rhs) = 1 /\ r.rhs[1] = {"LOGIC_CONJ"}
      BY <1>2 DEF Is
    <2>2. /\ Peek(0) = "LOGIC_CONJ"
          /\ Given(h, 0)
          /\ Built(r).from = From(0) /\ Spans(h, r)
      BY <2>1, One DEF Id
    <2>3. /\ Part(h, NewNode, Value(0), "LOGIC_CONJ", From(0), To(0))
      BY <2>2, Sorts DEF Given
    <2>4. /\ From(0) \in 1..To(0) /\ To(0) \in Nat
      BY <2>2, GivenSpan
    <2>5. Built(r).to = To(0)
      BY <2>2 DEF Spans
    <2>6. Payload(r).binary = FALSE /\ Payload(r).right = Value(0)
      BY <2>1 DEF Payload, OperatorPayload
    <2>8. FormedOperator(h, NewNode, r.lhs, Payload(r), Built(r).from, Built(r).to) /\ r.lhs \in Operators
      BY <2>1, <2>2, <2>3, <2>4, <2>5, <2>6 DEF FormedOperator, Operand, Operators
    <2> QED
      BY <2>1, <2>8, FormedOperators
  <1> QED
    BY <1>1, <1>2 DEF DisjRule

LEMMA ExpressionFormed ==
  ASSUME NEW r, ExpressionRule(r), NEW h, Gives(h, r)
  PROVE  Formed(h, NewNode, r.lhs, Payload(r), Built(r).from, Built(r).to)
  <1>1. CASE Is(r, 483, "EXPRESSION", <<{"LOGIC_DISJ"}>>)
    <2>1. r.at = 483 /\ r.lhs = "EXPRESSION" /\ Len(r.rhs) = 1 /\ r.rhs[1] = {"LOGIC_DISJ"}
      BY <1>1 DEF Is
    <2>2. /\ Peek(0) = "LOGIC_DISJ"
          /\ Given(h, 0)
          /\ Built(r).from = From(0) /\ Spans(h, r)
      BY <2>1, One DEF Id
    <2>3. /\ Part(h, NewNode, Value(0), "LOGIC_DISJ", From(0), To(0))
      BY <2>2, Sorts DEF Given
    <2>4. /\ From(0) \in 1..To(0) /\ To(0) \in Nat
      BY <2>2, GivenSpan
    <2>5. Built(r).to = To(0)
      BY <2>2 DEF Spans
    <2>6. Payload(r) = Value(0)
      BY <2>1 DEF Payload
    <2>8. Part(h, NewNode, Payload(r), "LOGIC_DISJ", Built(r).from, Built(r).to)
      BY <2>1, <2>2, <2>3, <2>4, <2>5, <2>6
    <2> QED
      BY <2>1, <2>8, FormedKinds
  <1> QED
    BY <1>1 DEF ExpressionRule

LEMMA DerefFormed ==
  ASSUME NEW r, DerefRule(r), NEW h, Gives(h, r)
  PROVE  Formed(h, NewNode, r.lhs, Payload(r), Built(r).from, Built(r).to)
  <1>1. CASE Is(r, 542, "DEREF", <<Id, {"LBRK"}, {"EXPRESSION_LIST"}, {"RBRK"}>>)
    <2>1. r.at = 542 /\ r.lhs = "DEREF" /\ Len(r.rhs) = 4 /\ r.rhs[1] = Id /\ r.rhs[2] = {"LBRK"} /\ r.rhs[3] = {"EXPRESSION_LIST"} /\ r.rhs[4] = {"RBRK"}
      BY <1>1 DEF Is
    <2>2. /\ Peek(0) = "RBRK" /\ Peek(1) = "EXPRESSION_LIST" /\ Peek(2) = "LBRK" /\ Peek(3) \in IdTokens
          /\ Given(h, 0) /\ Given(h, 1) /\ Given(h, 2) /\ Given(h, 3)
          /\ Built(r).from = From(3) /\ Spans(h, r) /\ From(0) = To(1) + 1 /\ From(1) = To(2) + 1 /\ From(2) = To(3) + 1
      BY <2>1, Four DEF Id
    <2>3. /\ To(0) = From(0) /\ Value(0) = From(0) /\ Kind(h, From(0)) = "RBRK"
          /\ Held(h, NewNode, "EXPRESSION_LIST", Value(1), From(1), To(1))
          /\ To(2) = From(2) /\ Value(2) = From(2) /\ Kind(h, From(2)) = "LBRK"
          /\ To(3) = From(3) /\ Value(3) = From(3) /\ Kind(h, From(3)) \in IdTokens
      BY <2>2, Sorts DEF Given
    <2>4. /\ From(0) \in 1..To(0) /\ To(0) \in Nat
          /\ From(1) \in 1..To(1) /\ To(1) \in Nat
          /\ From(2) \in 1..To(2) /\ To(2) \in Nat
          /\ From(3) \in 1..To(3) /\ To(3) \in Nat
      BY <2>2, GivenSpan
    <2>5. Built(r).to = To(0)
      BY <2>2 DEF Spans
    <2>6. Payload(r) = [id |-> Value(3), exprList |-> Value(1)]
      BY <2>1 DEF Payload, SubscriptPayload, Starting
    <2>8. FormedDeref(h, NewNode, Payload(r), Built(r).from, Built(r).to)
      BY <2>1, <2>2, <2>3, <2>4, <2>5, <2>6 DEF FormedDeref, Leaf
    <2> QED
      BY <2>1, <2>8, FormedKinds
  <1>2. CASE Is(r, 558, "DEREF", <<Id, {"LBRK"}, {"EXPRESSION"}, {"RBRK"}>>)
    <2>1. r.at = 558 /\ r.lhs = "DEREF" /\ Len(r.rhs) = 4 /\ r.rhs[1] = Id /\ r.rhs[2] = {"LBRK"} /\ r.rhs[3] = {"EXPRESSION"} /\ r.rhs[4] = {"RBRK"}
      BY <1>2 DEF Is
    <2>2. /\ Peek(0) = "RBRK" /\ Peek(1) = "EXPRESSION" /\ Peek(2) = "LBRK" /\ Peek(3) \in IdTokens
          /\ Given(h, 0) /\ Given(h, 1) /\ Given(h, 2) /\ Given(h, 3)
          /\ Built(r).from = From(3) /\ Spans(h, r) /\ From(0) = To(1) + 1 /\ From(1) = To(2) + 1 /\ From(2) = To(3) + 1
      BY <2>1, Four DEF Id
    <2>3. /\ To(0) = From(0) /\ Value(0) = From(0) /\ Kind(h, From(0)) = "RBRK"
          /\ Part(h, NewNode, Value(1), "EXPRESSION", From(1), To(1))
          /\ To(2) = From(2) /\ Value(2) = From(2) /\ Kind(h, From(2)) = "LBRK"
          /\ To(3) = From(3) /\ Value(3) = From(3) /\ Kind(h, From(3)) \in IdTokens
      BY <2>2, Sorts DEF Given
    <2>4. /\ From(0) \in 1..To(0) /\ To(0) \in Nat
          /\ From(1) \in 1..To(1) /\ To(1) \in Nat
          /\ From(2) \in 1..To(2) /\ To(2) \in Nat
          /\ From(3) \in 1..To(3) /\ To(3) \in Nat
      BY <2>2, GivenSpan
    <2>5. Built(r).to = To(0)
      BY <2>2 DEF Spans
    <2>6. Payload(r) = [id |-> Value(3), exprList |-> NewCell]
      BY <2>1 DEF Payload, SubscriptPayload, Starting
    <2>7. Held(h, NewNode, "EXPRESSION_LIST", NewCell, From(1), To(1))
      <3>1. GivesList(h, Value(1)) /\ NewNode \in Nat
        BY <2>1 DEF Gives, Starting, ItemOf, NewNode
      <3>2. Element("EXPRESSION_LIST") = "EXPRESSION"
        BY DEF Element
      <3> QED
        BY <2>3, <3>1, <3>2 DEF GivesList
    <2>8. FormedDeref(h, NewNode, Payload(r), Built(r).from, Built(r).to)
      BY <2>1, <2>2, <2>3, <2>4, <2>5, <2>6, <2>7 DEF FormedDeref, Leaf
    <2> QED
      BY <2>1, <2>8, FormedKinds
  <1> QED
    BY <1>1, <1>2 DEF DerefRule

LEMMA CallFormed ==
  ASSUME NEW r, CallRule(r), NEW h, Gives(h, r)
  PROVE  Formed(h, NewNode, r.lhs, Payload(r), Built(r).from, Built(r).to)
  <1>1. CASE Is(r, 584, "FUNC_CALL", <<Id, {"LP"}, {"EXPRESSION_LIST"}, {"RP"}>>)
    <2>1. r.at = 584 /\ r.lhs = "FUNC_CALL" /\ Len(r.rhs) = 4 /\ r.rhs[1] = Id /\ r.rhs[2] = {"LP"} /\ r.rhs[3] = {"EXPRESSION_LIST"} /\ r.rhs[4] = {"RP"}
      BY <1>1 DEF Is
    <2>2. /\ Peek(0) = "RP" /\ Peek(1) = "EXPRESSION_LIST" /\ Peek(2) = "LP" /\ Peek(3) \in IdTokens
          /\ Given(h, 0) /\ Given(h, 1) /\ Given(h, 2) /\ Given(h, 3)
          /\ Built(r).from = From(3) /\ Spans(h, r) /\ From(0) = To(1) + 1 /\ From(1) = To(2) + 1 /\ From(2) = To(3) + 1
      BY <2>1, Four DEF Id
    <2>3. /\ To(0) = From(0) /\ Value(0) = From(0) /\ Kind(h, From(0)) = "RP"
          /\ Held(h, NewNode, "EXPRESSION_LIST", Value(1), From(1), To(1))
          /\ To(2) = From(2) /\ Value(2) = From(2) /\ Kind(h, From(2)) = "LP"
          /\ To(3) = From(3) /\ Value(3) = From(3) /\ Kind(h, From(3)) \in IdTokens
      BY <2>2, Sorts DEF Given
    <2>4. /\ From(0) \in 1..To(0) /\ To(0) \in Nat
          /\ From(1) \in 1..To(1) /\ To(1) \in Nat
          /\ From(2) \in 1..To(2) /\ To(2) \in Nat
          /\ From(3) \in 1..To(3) /\ To(3) \in Nat
      BY <2>2, GivenSpan
    <2>5. Built(r).to = To(0)
      BY <2>2 DEF Spans
    <2>6. Payload(r) = [id |-> Value(3), exprList |-> Value(1)]
      BY <2>1 DEF Payload, SubscriptPayload, Starting
    <2>8. FormedCall(h, NewNode, Payload(r), Built(r).from, Built(r).to)
      BY <2>1, <2>2, <2>3, <2>4, <2>5, <2>6 DEF FormedCall, Leaf
    <2> QED
      BY <2>1, <2>8, FormedKinds
  <1>2. CASE Is(r, 599, "FUNC_CALL", <<Id, {"LP"}, {"RP"}>>)
    <2>1. r.at = 599 /\ r.lhs = "FUNC_CALL" /\ Len(r.rhs) = 3 /\ r.rhs[1] = Id /\ r.rhs[2] = {"LP"} /\ r.rhs[3] = {"RP"}
      BY <1>2 DEF Is
    <2>2. /\ Peek(0) = "RP" /\ Peek(1) = "LP" /\ Peek(2) \in IdTokens
          /\ Given(h, 0) /\ Given(h, 1) /\ Given(h, 2)
          /\ Built(r).from = From(2) /\ Spans(h, r) /\ From(0) = To(1) + 1 /\ From(1) = To(2) + 1
      BY <2>1, Three DEF Id
    <2>3. /\ To(0) = From(0) /\ Value(0) = From(0) /\ Kind(h, From(0)) = "RP"
          /\ To(1) = From(1) /\ Value(1) = From(1) /\ Kind(h, From(1)) = "LP"
          /\ To(2) = From(2) /\ Value(2) = From(2) /\ Kind(h, From(2)) \in IdTokens
      BY <2>2, Sorts DEF Given
    <2>4. /\ From(0) \in 1..To(0) /\ To(0) \in Nat
          /\ From(1) \in 1..To(1) /\ To(1) \in Nat
          /\ From(2) \in 1..To(2) /\ To(2) \in Nat
      BY <2>2, GivenSpan
    <2>5. Built(r).to = To(0)
      BY <2>2 DEF Spans
    <2>6. Payload(r) = [id |-> Value(2), exprList |-> NULL]
      BY <2>1 DEF Payload, SubscriptPayload, Starting
    <2>8. FormedCall(h, NewNode, Payload(r), Built(r).from, Built(r).to)
      BY <2>1, <2>2, <2>3, <2>4, <2>5, <2>6 DEF FormedCall, Leaf
    <2> QED
      BY <2>1, <2>8, FormedKinds
  <1>3. CASE Is(r, 610, "FUNC_CALL", <<Id, {"LP"}, {"EXPRESSION"}, {"RP"}>>)
    <2>1. r.at = 610 /\ r.lhs = "FUNC_CALL" /\ Len(r.rhs) = 4 /\ r.rhs[1] = Id /\ r.rhs[2] = {"LP"} /\ r.rhs[3] = {"EXPRESSION"} /\ r.rhs[4] = {"RP"}
      BY <1>3 DEF Is
    <2>2. /\ Peek(0) = "RP" /\ Peek(1) = "EXPRESSION" /\ Peek(2) = "LP" /\ Peek(3) \in IdTokens
          /\ Given(h, 0) /\ Given(h, 1) /\ Given(h, 2) /\ Given(h, 3)
          /\ Built(r).from = From(3) /\ Spans(h, r) /\ From(0) = To(1) + 1 /\ From(1) = To(2) + 1 /\ From(2) = To(3) + 1
      BY <2>1, Four DEF Id
    <2>3. /\ To(0) = From(0) /\ Value(0) = From(0) /\ Kind(h, From(0)) = "RP"
          /\ Part(h, NewNode, Value(1), "EXPRESSION", From(1), To(1))
          /\ To(2) = From(2) /\ Value(2) = From(2) /\ Kind(h, From(2)) = "LP"
          /\ To(3) = From(3) /\ Value(3) = From(3) /\ Kind(h, From(3)) \in IdTokens
      BY <2>2, Sorts DEF Given
    <2>4. /\ From(0) \in 1..To(0) /\ To(0) \in Nat
          /\ From(1) \in 1..To(1) /\ To(1) \in Nat
          /\ From(2) \in 1..To(2) /\ To(2) \in Nat
          /\ From(3) \in 1..To(3) /\ To(3) \in Nat
      BY <2>2, GivenSpan
    <2>5. Built(r).to = To(0)
      BY <2>2 DEF Spans
    <2>6. Payload(r) = [id |-> Value(3), exprList |-> NewCell]
      BY <2>1 DEF Payload, SubscriptPayload, Starting
    <2>7. Held(h, NewNode, "EXPRESSION_LIST", NewCell, From(1), To(1))
      <3>1. GivesList(h, Value(1)) /\ NewNode \in Nat
        BY <2>1 DEF Gives, Starting, ItemOf, NewNode
      <3>2. Element("EXPRESSION_LIST") = "EXPRESSION"
        BY DEF Element
      <3> QED
        BY <2>3, <3>1, <3>2 DEF GivesList
    <2>8. FormedCall(h, NewNode, Payload(r), Built(r).from, Built(r).to)
      BY <2>1, <2>2, <2>3, <2>4, <2>5, <2>6, <2>7 DEF FormedCall, Leaf
    <2> QED
      BY <2>1, <2>8, FormedKinds
  <1> QED
    BY <1>1, <1>2, <1>3 DEF CallRule

LEMMA FuncHeaderFormed ==
  ASSUME NEW r, FuncHeaderRule(r), NEW h, Gives(h, r), r.at # 641
  PROVE  Formed(h, NewNode, r.lhs, Payload(r), Built(r).from, Built(r).to)
  <1>1. CASE Is(r, 630, "FUNC_HEADER", <<{"TYPED_ID_LIST"}, {"ARROW"}, {"VAR_TYPE"}>>)
    <2>1. r.at = 630 /\ r.lhs = "FUNC_HEADER" /\ Len(r.rhs) = 3 /\ r.rhs[1] = {"TYPED_ID_LIST"} /\ r.rhs[2] = {"ARROW"} /\ r.rhs[3] = {"VAR_TYPE"}
      BY <1>1 DEF Is
    <2>2. /\ Peek(0) = "VAR_TYPE" /\ Peek(1) = "ARROW" /\ Peek(2) = "TYPED_ID_LIST"
          /\ Given(h, 0) /\ Given(h, 1) /\ Given(h, 2)
          /\ Built(r).from = From(2) /\ Spans(h, r) /\ From(0) = To(1) + 1 /\ From(1) = To(2) + 1
      BY <2>1, Three DEF Id
    <2>3. /\ Part(h, NewNode, Value(0), "VAR_TYPE", From(0), To(0))
          /\ To(1) = From(1) /\ Value(1) = From(1) /\ Kind(h, From(1)) = "ARROW"
          /\ Held(h, NewNode, "TYPED_ID_LIST", Value(2), From(2), To(2))
      BY <2>2, Sorts DEF Given
    <2>4. /\ From(0) \in 1..To(0) /\ To(0) \in Nat
          /\ From(1) \in 1..To(1) /\ To(1) \in Nat
          /\ From(2) \in 1..To(2) /\ To(2) \in Nat
      BY <2>2, GivenSpan
    <2>5. Built(r).to = To(0)
      BY <2>2 DEF Spans
    <2>6. Payload(r) = [params |-> Value(2), returnType |-> Value(0)]
      BY <2>1 DEF Payload
    <2>7. To(2) \in Built(r).from..Built(r).to
      BY <2>2, <2>4, <2>5
    <2>8. FormedFuncHeader(h, NewNode, Payload(r), Built(r).from, Built(r).to)
      BY <2>1, <2>2, <2>3, <2>4, <2>5, <2>6, <2>7 DEF FormedFuncHeader
    <2> QED
      BY <2>1, <2>8, FormedKinds
  <1> QED
    BY <1>1 DEF FuncHeaderRule, Is

LEMMA IfFormed ==
  ASSUME NEW r, IfRule(r), NEW h, Gives(h, r)
  PROVE  Formed(h, NewNode, r.lhs, Payload(r), Built(r).from, Built(r).to)
  <1>1. CASE Is(r, 661, "NT_IF", <<{"IF"}, {"EXPRESSION"}, {"BLOCK"}>>)
    <2>1. r.at = 661 /\ r.lhs = "NT_IF" /\ Len(r.rhs) = 3 /\ r.rhs[1] = {"IF"} /\ r.rhs[2] = {"EXPRESSION"} /\ r.rhs[3] = {"BLOCK"}
      BY <1>1 DEF Is
    <2>2. /\ Peek(0) = "BLOCK" /\ Peek(1) = "EXPRESSION" /\ Peek(2) = "IF"
          /\ Given(h, 0) /\ Given(h, 1) /\ Given(h, 2)
          /\ Built(r).from = From(2) /\ Spans(h, r) /\ From(0) = To(1) + 1 /\ From(1) = To(2) + 1
      BY <2>1, Three DEF Id
    <2>3. /\ Part(h, NewNode, Value(0), "BLOCK", From(0), To(0))
          /\ Part(h, NewNode, Value(1), "EXPRESSION", From(1), To(1))
          /\ To(2) = From(2) /\ Value(2) = From(2) /\ Kind(h, From(2)) = "IF"
      BY <2>2, Sorts DEF Given
    <2>4. /\ From(0) \in 1..To(0) /\ To(0) \in Nat
          /\ From(1) \in 1..To(1) /\ To(1) \in Nat
          /\ From(2) \in 1..To(2) /\ To(2) \in Nat
      BY <2>2, GivenSpan
    <2>5. Built(r).to = To(0)
      BY <2>2 DEF Spans
    <2>6. Payload(r) = [expr |-> Value(1), block |-> Value(0)]
      BY <2>1 DEF Payload
    <2>7. To(1) \in Built(r).from..Built(r).to
      BY <2>2, <2>4, <2>5
    <2>8. FormedIf(h, NewNode, Payload(r), Built(r).from, Built(r).to)
      BY <2>1, <2>2, <2>3, <2>4, <2>5, <2>6, <2>7 DEF FormedIf
    <2> QED
      BY <2>1, <2>8, FormedKinds
  <1> QED
    BY <1>1 DEF IfRule

LEMMA AssignmentFormed ==
  ASSUME NEW r, AssignmentRule(r), NEW h, Gives(h, r)
  PROVE  Formed(h, NewNode, r.lhs, Payload(r), Built(r).from, Built(r).to)
  <1>1. CASE Is(r, 676, "ASSIGNMENT", <<{"TYPED_ID"}, {"EQ"}, {"EXPRESSION"}>>)
    <2>1. r.at = 676 /\ r.lhs = "ASSIGNMENT" /\ Len(r.rhs) = 3 /\ r.rhs[1] = {"TYPED_ID"} /\ r.rhs[2] = {"EQ"} /\ r.rhs[3] = {"EXPRESSION"}
      BY <1>1 DEF Is
    <2>2. /\ Peek(0) = "EXPRESSION" /\ Peek(1) = "EQ" /\ Peek(2) = "TYPED_ID"
          /\ Given(h, 0) /\ Given(h, 1) /\ Given(h, 2)
          /\ Built(r).from = From(2) /\ Spans(h, r) /\ From(0) = To(1) + 1 /\ From(1) = To(2) + 1
      BY <2>1, Three DEF Id
    <2>3. /\ Part(h, NewNode, Value(0), "EXPRESSION", From(0), To(0))
          /\ To(1) = From(1) /\ Value(1) = From(1) /\ Kind(h, From(1)) = "EQ"
          /\ Part(h, NewNode, Value(2), "TYPED_ID", From(2), To(2))
      BY <2>2, Sorts DEF Given
    <2>4. /\ From(0) \in 1..To(0) /\ To(0) \in Nat
          /\ From(1) \in 1..To(1) /\ To(1) \in Nat
          /\ From(2) \in 1..To(2) /\ To(2) \in Nat
      BY <2>2, GivenSpan
    <2>5. Built(r).to = To(0)
      BY <2>2 DEF Spans
    <2>6. Payload(r) = [typed |-> TRUE, id |-> Value(2), expr |-> Value(0)]
      BY <2>1 DEF Payload
    <2>7. To(2) \in Built(r).from..Built(r).to
      BY <2>2, <2>4, <2>5
    <2>8. FormedAssignment(h, NewNode, Payload(r), Built(r).from, Built(r).to)
      BY <2>1, <2>2, <2>3, <2>4, <2>5, <2>6, <2>7 DEF FormedAssignment
    <2> QED
      BY <2>1, <2>8, FormedKinds
  <1>2. CASE Is(r, 686, "ASSIGNMENT", <<Id, {"EQ"}, {"EXPRESSION"}>>)
    <2>1. r.at = 686 /\ r.lhs = "ASSIGNMENT" /\ Len(r.rhs) = 3 /\ r.rhs[1] = Id /\ r.rhs[2] = {"EQ"} /\ r.rhs[3] = {"EXPRESSION"}
      BY <1>2 DEF Is
    <2>2. /\ Peek(0) = "EXPRESSION" /\ Peek(1) = "EQ" /\ Peek(2) \in IdTokens
          /\ Given(h, 0) /\ Given(h, 1) /\ Given(h, 2)
          /\ Built(r).from = From(2) /\ Spans(h, r) /\ From(0) = To(1) + 1 /\ From(1) = To(2) + 1
      BY <2>1, Three DEF Id
    <2>3. /\ Part(h, NewNode, Value(0), "EXPRESSION", From(0), To(0))
          /\ To(1) = From(1) /\ Value(1) = From(1) /\ Kind(h, From(1)) = "EQ"
          /\ To(2) = From(2) /\ Value(2) = From(2) /\ Kind(h, From(2)) \in IdTokens
      BY <2>2, Sorts DEF Given
    <2>4. /\ From(0) \in 1..To(0) /\ To(0) \in Nat
          /\ From(1) \in 1..To(1) /\ To(1) \in Nat
          /\ From(2) \in 1..To(2) /\ To(2) \in Nat
      BY <2>2, GivenSpan
    <2>5. Built(r).to = To(0)
      BY <2>2 DEF Spans
    <2>6. Payload(r).typed = FALSE /\ Payload(r).id = Value(2) /\ Payload(r).expr = Value(0)
      <3>1. Payload(r) = [typed |-> r.at = 676, id |-> Value(2), expr |-> Value(0)]
        BY <2>1 DEF Payload
      <3>2. Payload(r).id = Value(2) /\ Payload(r).expr = Value(0) /\ Payload(r).typed = (r.at = 676)
        BY <3>1
      <3>3. r.at # 676
        BY <2>1
      <3>4. Payload(r).typed = FALSE
        BY <3>2, <3>3, Zenon
      <3> QED
        BY <3>2, <3>4
    <2>7. To(2) \in Built(r).from..Built(r).to
      BY <2>2, <2>4, <2>5
    <2>8. FormedAssignment(h, NewNode, Payload(r), Built(r).from, Built(r).to)
      BY <2>1, <2>2, <2>3, <2>4, <2>5, <2>6, <2>7 DEF FormedAssignment, Leaf
    <2> QED
      BY <2>1, <2>8, FormedKinds
  <1> QED
    BY <1>1, <1>2 DEF AssignmentRule

LEMMA StatementFormed ==
  ASSUME NEW r, StatementRule(r), NEW h, Gives(h, r)
  PROVE  Formed(h, NewNode, r.lhs, Payload(r), Built(r).from, Built(r).to)
  <1>1. CASE Is(r, 741, "STATEMENT", <<{"ASSIGNMENT"}>>)
    <2>1. r.at = 741 /\ r.lhs = "STATEMENT" /\ Len(r.rhs) = 1 /\ r.rhs[1] = {"ASSIGNMENT"}
      BY <1>1 DEF Is
    <2>2. /\ Peek(0) = "ASSIGNMENT"
          /\ Given(h, 0)
          /\ Built(r).from = From(0) /\ Spans(h, r)
      BY <2>1, One DEF Id
    <2>3. /\ Part(h, NewNode, Value(0), "ASSIGNMENT", From(0), To(0))
      BY <2>2, Sorts DEF Given
    <2>4. /\ From(0) \in 1..To(0) /\ To(0) \in Nat
      BY <2>2, GivenSpan
    <2>5. Built(r).to = To(0)
      BY <2>2 DEF Spans
    <2>6. Payload(r) = [type |-> "ASSIGN", is |-> Value(0)]
      BY <2>1 DEF Payload, StatementPayload
    <2>8. FormedStatement(h, NewNode, Payload(r), Built(r).from, Built(r).to)
      BY <2>1, <2>2, <2>3, <2>4, <2>5, <2>6 DEF FormedStatement
    <2> QED
      BY <2>1, <2>8, FormedKinds
  <1>2. CASE Is(r, 749, "STATEMENT", <<{"NT_IF"}>>)
    <2>1. r.at = 749 /\ r.lhs = "STATEMENT" /\ Len(r.rhs) = 1 /\ r.rhs[1] = {"NT_IF"}
      BY <1>2 DEF Is
    <2>2. /\ Peek(0) = "NT_IF"
          /\ Given(h, 0)
          /\ Built(r).from = From(0) /\ Spans(h, r)
      BY <2>1, One DEF Id
    <2>3. /\ Part(h, NewNode, Value(0), "NT_IF", From(0), To(0))
      BY <2>2, Sorts DEF Given
    <2>4. /\ From(0) \in 1..To(0) /\ To(0) \in Nat
      BY <2>2, GivenSpan
    <2>5. Built(r).to = To(0)
      BY <2>2 DEF Spans
    <2>6. Payload(r) = [type |-> "NT_IF", is |-> Value(0)]
      BY <2>1 DEF Payload, StatementPayload
    <2>8. FormedStatement(h, NewNode, Payload(r), Built(r).from, Built(r).to)
      BY <2>1, <2>2, <2>3, <2>4, <2>5, <2>6 DEF FormedStatement
    <2> QED
      BY <2>1, <2>8, FormedKinds
  <1>3. CASE Is(r, 757, "STATEMENT", <<{"RETURN"}, {"EXPRESSION"}>>)
    <2>1. r.at = 757 /\ r.lhs = "STATEMENT" /\ Len(r.rhs) = 2 /\ r.rhs[1] = {"RETURN"} /\ r.rhs[2] = {"EXPRESSION"}
      BY <1>3 DEF Is
    <2>2. /\ Peek(0) = "EXPRESSION" /\ Peek(1) = "RETURN"
          /\ Given(h, 0) /\ Given(h, 1)
          /\ Built(r).from = From(1) /\ Spans(h, r) /\ From(0) = To(1) + 1
      BY <2>1, Two DEF Id
    <2>3. /\ Part(h, NewNode, Value(0), "EXPRESSION", From(0), To(0))
          /\ To(1) = From(1) /\ Value(1) = From(1) /\ Kind(h, From(1)) = "RETURN"
      BY <2>2, Sorts DEF Given
    <2>4. /\ From(0) \in 1..To(0) /\ To(0) \in Nat
          /\ From(1) \in 1..To(1) /\ To(1) \in Nat
      BY <2>2, GivenSpan
    <2>5. Built(r).to = To(0)
      BY <2>2 DEF Spans
    <2>6. Payload(r) = [type |-> "RETURN", is |-> Value(0)]
      BY <2>1 DEF Payload, StatementPayload
    <2>8. FormedStatement(h, NewNode, Payload(r), Built(r).from, Built(r).to)
      BY <2>1, <2>2, <2>3, <2>4, <2>5, <2>6 DEF FormedStatement
    <2> QED
      BY <2>1, <2>8, FormedKinds
  <1>4. CASE Is(r, 767, "STATEMENT", <<{"EXPRESSION"}>>)
    <2>1. r.at = 767 /\ r.lhs = "STATEMENT" /\ Len(r.rhs) = 1 /\ r.rhs[1] = {"EXPRESSION"}
      BY <1>4 DEF Is
    <2>2. /\ Peek(0) = "EXPRESSION"
          /\ Given(h, 0)
          /\ Built(r).from = From(0) /\ Spans(h, r)
      BY <2>1, One DEF Id
    <2>3. /\ Part(h, NewNode, Value(0), "EXPRESSION", From(0), To(0))
      BY <2>2, Sorts DEF Given
    <2>4. /\ From(0) \in 1..To(0) /\ To(0) \in Nat
      BY <2>2, GivenSpan
    <2>5. Built(r).to = To(0)
      BY <2>2 DEF Spans
    <2>6. Payload(r) = [type |-> "EXPR", is |-> Value(0)]
      BY <2>1 DEF Payload, StatementPayload
    <2>8. FormedStatement(h, NewNode, Payload(r), Built(r).from, Built(r).to)
      BY <2>1, <2>2, <2>3, <2>4, <2>5, <2>6 DEF FormedStatement
    <2> QED
      BY <2>1, <2>8, FormedKinds
  <1>5. CASE Is(r, 775, "STATEMENT", <<{"EXPRESSION"}>>)
    <2>1. r.at = 775 /\ r.lhs = "STATEMENT" /\ Len(r.rhs) = 1 /\ r.rhs[1] = {"EXPRESSION"}
      BY <1>5 DEF Is
    <2>2. /\ Peek(0) = "EXPRESSION"
          /\ Given(h, 0)
          /\ Built(r).from = From(0) /\ Spans(h, r)
      BY <2>1, One DEF Id
    <2>3. /\ Part(h, NewNode, Value(0), "EXPRESSION", From(0), To(0))
      BY <2>2, Sorts DEF Given
    <2>4. /\ From(0) \in 1..To(0) /\ To(0) \in Nat
      BY <2>2, GivenSpan
    <2>5. Built(r).to = To(0)
      BY <2>2 DEF Spans
    <2>6. Payload(r) = [type |-> "EXPR", is |-> Value(0)]
      BY <2>1 DEF Payload, StatementPayload
    <2>8. FormedStatement(h, NewNode, Payload(r), Built(r).from, Built(r).to)
      BY <2>1, <2>2, <2>3, <2>4, <2>5, <2>6 DEF FormedStatement
    <2> QED
      BY <2>1, <2>8, FormedKinds
  <1> QED
    BY <1>1, <1>2, <1>3, <1>4, <1>5 DEF StatementRule

LEMMA BlockFormed ==
  ASSUME NEW r, BlockRule(r), NEW h, Gives(h, r)
  PROVE  Formed(h, NewNode, r.lhs, Payload(r), Built(r).from, Built(r).to)
  <1>1. CASE Is(r, 791, "BLOCK", <<{"LBRC"}, {"RBRC"}>>)
    <2>1. r.at = 791 /\ r.lhs = "BLOCK" /\ Len(r.rhs) = 2 /\ r.rhs[1] = {"LBRC"} /\ r.rhs[2] = {"RBRC"}
      BY <1>1 DEF Is
    <2>2. /\ Peek(0) = "RBRC" /\ Peek(1) = "LBRC"
          /\ Given(h, 0) /\ Given(h, 1)
          /\ Built(r).from = From(1) /\ Spans(h, r) /\ From(0) = To(1) + 1
      BY <2>1, Two DEF Id
    <2>3. /\ To(0) = From(0) /\ Value(0) = From(0) /\ Kind(h, From(0)) = "RBRC"
          /\ To(1) = From(1) /\ Value(1) = From(1) /\ Kind(h, From(1)) = "LBRC"
      BY <2>2, Sorts DEF Given
    <2>4. /\ From(0) \in 1..To(0) /\ To(0) \in Nat
          /\ From(1) \in 1..To(1) /\ To(1) \in Nat
      BY <2>2, GivenSpan
    <2>5. Built(r).to = To(0)
      BY <2>2 DEF Spans
    <2>6. Payload(r) = NULL
      BY <2>1 DEF Payload
    <2>8. FormedBlock(h, NewNode, Payload(r), Built(r).from, Built(r).to)
      BY <2>1, <2>2, <2>3, <2>4, <2>5, <2>6 DEF FormedBlock
    <2> QED
      BY <2>1, <2>8, FormedKinds
  <1>2. CASE Is(r, 802, "BLOCK", <<{"LBRC"}, {"STATEMENT_LIST"}, {"RBRC"}>>)
    <2>1. r.at = 802 /\ r.lhs = "BLOCK" /\ Len(r.rhs) = 3 /\ r.rhs[1] = {"LBRC"} /\ r.rhs[2] = {"STATEMENT_LIST"} /\ r.rhs[3] = {"RBRC"}
      BY <1>2 DEF Is
    <2>2. /\ Peek(0) = "RBRC" /\ Peek(1) = "STATEMENT_LIST" /\ Peek(2) = "LBRC"
          /\ Given(h, 0) /\ Given(h, 1) /\ Given(h, 2)
          /\ Built(r).from = From(2) /\ Spans(h, r) /\ From(0) = To(1) + 1 /\ From(1) = To(2) + 1
      BY <2>1, Three DEF Id
    <2>3. /\ To(0) = From(0) /\ Value(0) = From(0) /\ Kind(h, From(0)) = "RBRC"
          /\ Held(h, NewNode, "STATEMENT_LIST", Value(1), From(1), To(1))
          /\ To(2) = From(2) /\ Value(2) = From(2) /\ Kind(h, From(2)) = "LBRC"
      BY <2>2, Sorts DEF Given
    <2>4. /\ From(0) \in 1..To(0) /\ To(0) \in Nat
          /\ From(1) \in 1..To(1) /\ To(1) \in Nat
          /\ From(2) \in 1..To(2) /\ To(2) \in Nat
      BY <2>2, GivenSpan
    <2>5. Built(r).to = To(0)
      BY <2>2 DEF Spans
    <2>6. Payload(r) = Value(1)
      BY <2>1 DEF Payload
    <2>8. FormedBlock(h, NewNode, Payload(r), Built(r).from, Built(r).to)
      BY <2>1, <2>2, <2>3, <2>4, <2>5, <2>6 DEF FormedBlock
    <2> QED
      BY <2>1, <2>8, FormedKinds
  <1> QED
    BY <1>1, <1>2 DEF BlockRule

LEMMA FunctionFormed ==
  ASSUME NEW r, FunctionRule(r), NEW h, Gives(h, r)
  PROVE  Formed(h, NewNode, r.lhs, Payload(r), Built(r).from, Built(r).to)
  <1>1. CASE Is(r, 818, "FUNCTION", <<Id, {"EQ"}, {"FUNC_HEADER"}, {"BLOCK"}>>)
    <2>1. r.at = 818 /\ r.lhs = "FUNCTION" /\ Len(r.rhs) = 4 /\ r.rhs[1] = Id /\ r.rhs[2] = {"EQ"} /\ r.rhs[3] = {"FUNC_HEADER"} /\ r.rhs[4] = {"BLOCK"}
      BY <1>1 DEF Is
    <2>2. /\ Peek(0) = "BLOCK" /\ Peek(1) = "FUNC_HEADER" /\ Peek(2) = "EQ" /\ Peek(3) \in IdTokens
          /\ Given(h, 0) /\ Given(h, 1) /\ Given(h, 2) /\ Given(h, 3)
          /\ Built(r).from = From(3) /\ Spans(h, r) /\ From(0) = To(1) + 1 /\ From(1) = To(2) + 1 /\ From(2) = To(3) + 1
      BY <2>1, Four DEF Id
    <2>3. /\ Part(h, NewNode, Value(0), "BLOCK", From(0), To(0))
          /\ Part(h, NewNode, Value(1), "FUNC_HEADER", From(1), To(1))
          /\ To(2) = From(2) /\ Value(2) = From(2) /\ Kind(h, From(2)) = "EQ"
          /\ To(3) = From(3) /\ Value(3) = From(3) /\ Kind(h, From(3)) \in IdTokens
      BY <2>2, Sorts DEF Given
    <2>4. /\ From(0) \in 1..To(0) /\ To(0) \in Nat
          /\ From(1) \in 1..To(1) /\ To(1) \in Nat
          /\ From(2) \in 1..To(2) /\ To(2) \in Nat
          /\ From(3) \in 1..To(3) /\ To(3) \in Nat
      BY <2>2, GivenSpan
    <2>5. Built(r).to = To(0)
      BY <2>2 DEF Spans
    <2>6. Payload(r) = [id |-> Value(3), header |-> Value(1), block |-> Value(0)]
      BY <2>1 DEF Payload
    <2>7. To(1) \in Built(r).from..Built(r).to
      BY <2>2, <2>4, <2>5
    <2>8. FormedFunction(h, NewNode, Payload(r), Built(r).from, Built(r).to)
      BY <2>1, <2>2, <2>3, <2>4, <2>5, <2>6, <2>7 DEF FormedFunction, Leaf
    <2> QED
      BY <2>1, <2>8, FormedKinds
  <1> QED
    BY <1>1 DEF FunctionRule

LEMMA PointerFormed ==
  ASSUME NEW r, PointerTypeRule(r), NEW h, Gives(h, r),
         \A m \in 1..Len(tree) : NodeFormed(h, m, h.tree[m]) /\ h.tree[m] = tree[m]
  PROVE  Formed(h, NewNode, r.lhs, Payload(r), Built(r).from, Built(r).to)
  <1>1. r.at = 162 /\ r.lhs = "VAR_TYPE" /\ Len(r.rhs) = 2 /\ r.rhs[1] = {"VAR_TYPE"} /\ r.rhs[2] = {"MUL"}
    BY DEF PointerTypeRule, Is
  <1>2. /\ Peek(0) = "MUL" /\ Peek(1) = "VAR_TYPE" /\ Given(h, 0) /\ Given(h, 1)
        /\ Built(r).from = From(1) /\ Spans(h, r) /\ From(0) = To(1) + 1
    BY <1>1, Two
  <1>3. /\ To(0) = From(0) /\ Kind(h, From(0)) = "MUL"
        /\ Part(h, NewNode, Value(1), "VAR_TYPE", From(1), To(1))
    BY <1>2, Sorts DEF Given
  <1>4. From(1) \in 1..To(1) /\ To(1) \in Nat
    BY <1>2 DEF Given
  <1>5. Built(r).to = To(1) + 1 /\ Len(tree) \in Nat
    BY <1>2, <1>3 DEF Spans
  <1> DEFINE m == Value(1)
             v == tree[m].is
             w == Payload(r)
             a == From(1)
             b == To(1)
             e == b - v.pointerDepth
  <1>6. m \in 1..Len(tree) /\ h.tree[m].sym = "VAR_TYPE" /\ h.tree[m].from = a /\ h.tree[m].to = b
    BY <1>3, <1>5 DEF Part, NewNode
  <1>7. FormedType(h, m, v, a, b)
    BY <1>6 DEF NodeFormed, Formed
  <1>8. w = [v EXCEPT !.pointerDepth = @ + 1]
    <2>1. Payload(r) = TypePayload(r)
      BY <1>1 DEF Payload
    <2>2. TypePayload(r) = [tree[Value(1)].is EXCEPT !.pointerDepth = @ + 1]
      BY <1>1 DEF TypePayload
    <2> QED
      BY <2>1, <2>2
  <1>9. m < NewNode /\ m \in Nat /\ NewNode \in Nat
    BY <1>5, <1>6 DEF NewNode
  <1> HIDE DEF m, v, w
  <1>10. v.pointerDepth \in Nat /\ v = [type |-> v.type, id |-> v.id, exprList |-> v.exprList, pointerDepth |-> v.pointerDepth]
    BY <1>7 DEF FormedType
  <1>11. w = [type |-> v.type, id |-> v.id, exprList |-> v.exprList, pointerDepth |-> v.pointerDepth + 1]
    BY <1>8, <1>10
  <1>12. /\ w = [type |-> w.type, id |-> w.id, exprList |-> w.exprList, pointerDepth |-> w.pointerDepth]
         /\ w.pointerDepth = v.pointerDepth + 1 /\ w.pointerDepth \in Nat
         /\ w.type = v.type /\ w.id = v.id /\ w.exprList = v.exprList
    BY <1>10, <1>11
  <1>13. a \in Nat /\ b \in Nat /\ (b + 1) - w.pointerDepth = e
    BY <1>4, <1>10, <1>12
  <1>14. \A i \in ((b + 1) - w.pointerDepth + 1)..(b + 1) : Kind(h, i) = "MUL"
    <2>1. \A i \in (b - v.pointerDepth + 1)..b : Kind(h, i) = "MUL"
      BY <1>7 DEF FormedType
    <2>2. Kind(h, b + 1) = "MUL"
      BY <1>2, <1>3
    <2> SUFFICES ASSUME NEW i \in ((b + 1) - w.pointerDepth + 1)..(b + 1) PROVE Kind(h, i) = "MUL"
      OBVIOUS
    <2>3. i = b + 1 \/ i \in (b - v.pointerDepth + 1)..b
      BY <1>10, <1>12, <1>13, SMTT(30)
    <2> QED
      BY <2>1, <2>2, <2>3
  <1>15. ASSUME Held(h, m, "EXPRESSION_LIST", v.exprList, a + 3, e - 1)
         PROVE  Held(h, NewNode, "EXPRESSION_LIST", v.exprList, a + 3, e - 1)
    <2>1. \A i : i \in 1..(m - 1) => i \in 1..(NewNode - 1)
      BY <1>9
    <2> QED
      BY <1>15, <2>1 DEF Held, ListAt
  <1> HIDE DEF a, b
  <1>16. FormedType(h, NewNode, w, a, b + 1)
    <2>1. \/ v.type = "ID" /\ a = e /\ Leaf(h, v.id, IdTokens, a) /\ Kind(h, a - 1) \in {"COLON", "ARROW"}
          \/ v.type = "NONE" /\ a = e /\ Kind(h, a) = "UNDERSCORE" /\ Kind(h, a + 1) = "ARROW"
          \/ /\ v.type = "ARRAY" /\ Kind(h, a) = "LBRK" /\ Leaf(h, v.id, IdTokens, a + 1) /\ Kind(h, a + 2) = "SEMI"
             /\ Held(h, m, "EXPRESSION_LIST", v.exprList, a + 3, e - 1) /\ Kind(h, e) = "RBRK"
          \/ v.type = "NESTED" /\ Kind(h, a) = "LBRK" /\ Kind(h, a + 1) = "LBRK" /\ a < e
      BY <1>7, Zenon DEF FormedType
    <2> HIDE DEF e
    <2> QED
      BY <1>12, <1>13, <1>14, <1>15, <2>1, Zenon DEF FormedType
  <1> QED
    BY <1>1, <1>2, <1>5, <1>16, FormedKinds DEF w, a, b

LEMMA HeaderOfTypeFormed ==
  ASSUME NEW r, FuncHeaderRule(r), r.at = 641, NEW h, Gives(h, r), h.tree[NewNode] = Unnamed
  PROVE  /\ Formed(h, NewNode, "TYPED_ID", Unnamed.is, Unnamed.from, Unnamed.to)
         /\ Edges(h, "TYPED_ID", Unnamed.from, Unnamed.to)
         /\ Formed(h, NewNode + 1, r.lhs, Payload(r), Built(r).from, Built(r).to)
  <1>1. r.lhs = "FUNC_HEADER" /\ Len(r.rhs) = 3 /\ r.rhs[1] = {"VAR_TYPE"} /\ r.rhs[2] = {"ARROW"} /\ r.rhs[3] = {"VAR_TYPE"}
    BY DEF FuncHeaderRule, Is
  <1>2. /\ Peek(0) = "VAR_TYPE" /\ Peek(1) = "ARROW" /\ Peek(2) = "VAR_TYPE"
        /\ Given(h, 0) /\ Given(h, 1) /\ Given(h, 2)
        /\ Built(r).from = From(2) /\ Spans(h, r) /\ From(0) = To(1) + 1 /\ From(1) = To(2) + 1
    BY <1>1, Three
  <1>3. /\ Part(h, NewNode, Value(0), "VAR_TYPE", From(0), To(0))
        /\ To(1) = From(1) /\ Kind(h, From(1)) = "ARROW"
        /\ Part(h, NewNode, Value(2), "VAR_TYPE", From(2), To(2)) /\ Edges(h, "VAR_TYPE", From(2), To(2))
    BY <1>2, Sorts DEF Given
  <1>4. /\ From(0) \in 1..To(0) /\ To(0) \in Nat
        /\ From(2) \in 1..To(2) /\ To(2) \in Nat
    BY <1>2 DEF Given
  <1>5. Built(r).to = To(0) /\ NewNode \in Nat
    BY <1>2 DEF Spans, NewNode
  <1>6. /\ Unnamed.sym = "TYPED_ID" /\ Unnamed.from = From(2) /\ Unnamed.to = To(2)
        /\ Unnamed.is.id = Unwritten /\ Unnamed.is.type = Value(2)
    BY DEF Unnamed, Made, From, To
  <1>7. FormedTypedId(h, NewNode, Unnamed.is, Unnamed.from, Unnamed.to)
    BY <1>3, <1>6 DEF FormedTypedId
  <1>8. Edges(h, "TYPED_ID", Unnamed.from, Unnamed.to)
    BY <1>3, <1>6 DEF Edges, ExprKinds, Operators
  <1>9. Payload(r).params = NewCell /\ Payload(r).returnType = Value(0)
    BY <1>1 DEF Payload
  <1>10. Held(h, NewNode + 1, "TYPED_ID_LIST", NewCell, From(2), To(2))
    <2>1. GivesList(h, NewNode) /\ NewNode + 1 \in Nat
      BY <1>5 DEF Gives, Starting, ItemOf
    <2>2. Element("TYPED_ID_LIST") = "TYPED_ID"
      BY DEF Element
    <2>3. Part(h, NewNode + 1, NewNode, "TYPED_ID", From(2), To(2))
      BY <1>2, <1>5, <1>6 DEF Part, Spans, NewNode
    <2> QED
      BY <2>1, <2>2, <2>3 DEF GivesList
  <1>11. Part(h, NewNode + 1, Value(0), "VAR_TYPE", From(0), To(0))
    BY <1>3, <1>5 DEF Part
  <1>12. FormedFuncHeader(h, NewNode + 1, Payload(r), Built(r).from, Built(r).to)
    <2>1. To(2) \in From(2)..To(0)
      BY <1>2, <1>3, <1>4
    <2>2. Kind(h, To(2) + 1) = "ARROW" /\ From(0) = To(2) + 2
      BY <1>2, <1>3, <1>4
    <2> QED
      BY <1>2, <1>5, <1>9, <1>10, <1>11, <2>1, <2>2 DEF FormedFuncHeader
  <1> QED
    BY <1>1, <1>7, <1>8, <1>12, FormedKinds

LEMMA NewFormed ==
  ASSUME NEW r \in Rules, r.lhs \notin ListKinds, r.at # 641, NEW h, Gives(h, r),
         \A m \in 1..Len(tree) : NodeFormed(h, m, h.tree[m]) /\ h.tree[m] = tree[m]
  PROVE  Formed(h, NewNode, r.lhs, Payload(r), Built(r).from, Built(r).to)
  <1>1. ~ExpressionListRule(r) /\ ~StatementListRule(r)
    BY DEF ExpressionListRule, StatementListRule, Is, ListKinds
  <1> QED
    BY <1>1, Catalogue, NumberFormed, HeaderFormed, TypeNameFormed, ArrayTypeFormed, PointerFormed, TypedIdFormed,
       FactorFormed, ParenthesesFormed, TermFormed, MathFormed, RelationalFormed, ConjFormed, DisjFormed,
       ExpressionFormed, DerefFormed, CallFormed, FuncHeaderFormed, IfFormed, AssignmentFormed, StatementFormed,
       BlockFormed, FunctionFormed

-----------------------------------------------------------------------------
(* The tree and the cells after a reduction. *)

LEMMA HeaderOfTypeRule == \A r \in Rules : r.at = 641 => FuncHeaderRule(r)
  <1> SUFFICES ASSUME NEW r \in Rules, r.at = 641, ~FuncHeaderRule(r) PROVE FALSE
    OBVIOUS
  <1>1. ~(NumberRule(r) \/ HeaderRule(r) \/ TypeNameRule(r) \/ ArrayTypeRule(r) \/ PointerTypeRule(r))
    BY DEF NumberRule, HeaderRule, TypeNameRule, ArrayTypeRule, PointerTypeRule, Is
  <1>2. ~(TypedIdRule(r) \/ FactorRule(r) \/ ParenthesesRule(r) \/ TermRule(r) \/ MathRule(r) \/ RelationalRule(r))
    BY DEF TypedIdRule, FactorRule, ParenthesesRule, TermRule, MathRule, RelationalRule, Is
  <1>3. ~(ConjRule(r) \/ DisjRule(r) \/ ExpressionRule(r) \/ ExpressionListRule(r) \/ DerefRule(r) \/ CallRule(r))
    BY DEF ConjRule, DisjRule, ExpressionRule, ExpressionListRule, DerefRule, CallRule, Is
  <1>4. ~(IfRule(r) \/ AssignmentRule(r) \/ StatementListRule(r) \/ StatementRule(r) \/ BlockRule(r) \/ FunctionRule(r))
    BY DEF IfRule, AssignmentRule, StatementListRule, StatementRule, BlockRule, FunctionRule, Is
  <1> QED
    BY <1>1, <1>2, <1>3, <1>4, Catalogue

\* Every node is formed after a reduction, the new one and the one of line 641 as well.
LEMMA BuildTreeFormed ==
  ASSUME TreeInv, BInv', phase = "reduce", NEW r \in Takeable, Build(r), input' = input, literals' = literals
  PROVE  TreeFormed'
  <1> DEFINE h == Store'
  <1>1. h.tree = tree' /\ Store.tree = tree
    BY DEF Store
  <1>2. /\ Len(tree) \in Nat /\ DOMAIN tree = 1..Len(tree)
        /\ Len(tree') \in Nat /\ DOMAIN tree' = 1..Len(tree')
    BY TreeEffect, Heap DEF TreeInv
  <1>e. /\ \A n \in 1..Len(tree) : tree'[n] = tree[n]
        /\ r.lhs \in ListKinds => tree' = tree
        /\ r.lhs \notin ListKinds =>
             /\ Len(tree') = Len(tree) + (IF r.at = 641 THEN 2 ELSE 1)
             /\ tree'[Len(tree')] = Finished(r)
             /\ r.at = 641 => tree'[Len(tree) + 1] = Unnamed
    BY TreeEffect DEF TreeInv
  <1>l. r.lhs \notin ListKinds =>
          /\ r.at # 641 => Len(tree') = Len(tree) + 1
          /\ r.at = 641 => Len(tree') = Len(tree) + 2
    BY <1>2, <1>e
  <1>3. Grows(Store, h, Stand(r), r.at \in Appending)
    BY StoreGrows
  <1>h. h = Store'
    OBVIOUS
  <1> HIDE DEF h
  <1>o. \A n \in 1..Len(tree) : NodeFormed(Store, n, tree[n])
    BY <1>2 DEF TreeInv, TreeFormed
  <1>4. ASSUME NEW n \in 1..Len(tree) PROVE NodeFormed(h, n, h.tree[n]) /\ h.tree[n] = tree[n]
    <2>1. NodeFormed(Store, n, Store.tree[n])
      BY <1>1, <1>o
    <2> QED
      BY <1>1, <1>e, <1>3, <2>1, NodesGrow
  <1>5. ASSUME r.lhs \notin ListKinds
        PROVE  /\ r.at # 641 => NodeFormed(h, NewNode, Finished(r))
               /\ r.at = 641 => NodeFormed(h, NewNode, Unnamed) /\ NodeFormed(h, NewNode + 1, Finished(r))
    <2>1. Gives(h, r)
      BY <1>5, <1>h, RuleGives
    <2>2. r \in Rules
      BY DEF Takeable
    <2>3. Edges(h, r.lhs, Built(r).from, Built(r).to)
      BY <1>5, <2>1, <2>2, NewEdges
    <2>4. /\ Finished(r).sym = r.lhs /\ Finished(r).is = Payload(r)
          /\ Finished(r).from = Built(r).from /\ Finished(r).to = Built(r).to
          /\ Unnamed.sym = "TYPED_ID"
      BY DEF Finished, Made, Unnamed
    <2>5. CASE r.at # 641
      <3>1. Formed(h, NewNode, r.lhs, Payload(r), Built(r).from, Built(r).to)
        BY <1>4, <1>5, <2>1, <2>2, <2>5, NewFormed
      <3> QED
        BY <2>3, <2>4, <2>5, <3>1 DEF NodeFormed
    <2>6. CASE r.at = 641
      <3>1. FuncHeaderRule(r)
        BY <2>2, <2>6, HeaderOfTypeRule
      <3>2. h.tree[NewNode] = Unnamed
        BY <1>1, <1>e, <1>5, <2>6 DEF NewNode
      <3>3. /\ Formed(h, NewNode, "TYPED_ID", Unnamed.is, Unnamed.from, Unnamed.to)
            /\ Edges(h, "TYPED_ID", Unnamed.from, Unnamed.to)
            /\ Formed(h, NewNode + 1, r.lhs, Payload(r), Built(r).from, Built(r).to)
        BY <2>1, <2>6, <3>1, <3>2, HeaderOfTypeFormed
      <3> QED
        BY <2>3, <2>4, <2>6, <3>3 DEF NodeFormed
    <2> QED
      BY <2>5, <2>6
  <1>6. ASSUME NEW n \in DOMAIN tree' PROVE NodeFormed(h, n, tree'[n])
    <2>0. n \in 1..Len(tree')
      BY <1>2
    <2>1. CASE n \in 1..Len(tree)
      BY <1>1, <1>4, <2>1
    <2>2. CASE n \notin 1..Len(tree)
      <3>1. r.lhs \notin ListKinds
        BY <1>2, <1>e, <2>2
      <3>2. CASE r.at # 641
        <4>0. Len(tree') = Len(tree) + 1
          BY <1>l, <3>1, <3>2
        <4>1. n = NewNode /\ n = Len(tree')
          BY <1>2, <2>0, <2>2, <4>0 DEF NewNode
        <4> QED
          BY <1>e, <1>5, <3>1, <3>2, <4>1
      <3>3. CASE r.at = 641
        <4>0. Len(tree') = Len(tree) + 2
          BY <1>l, <3>1, <3>3
        <4>1. \/ n = NewNode /\ n = Len(tree) + 1
              \/ n = NewNode + 1 /\ n = Len(tree')
          BY <1>2, <2>0, <2>2, <4>0 DEF NewNode
        <4>2. n = NewNode => tree'[n] = Unnamed
          BY <1>e, <3>1, <3>3 DEF NewNode
        <4>4. NewNode + 1 = Len(tree')
          BY <1>2, <4>0 DEF NewNode
        <4>3. n = NewNode + 1 => tree'[n] = Finished(r)
          BY <1>e, <3>1, <4>4
        <4> QED
          BY <1>5, <3>1, <3>3, <4>1, <4>2, <4>3
      <3> QED
        BY <3>2, <3>3
    <2> QED
      BY <2>1, <2>2
  <1> QED
    BY <1>6, <1>h DEF TreeFormed

\* What the branches that add a cell put into it.
Adds(r) ==
  \/ Appends(r)
  \/ Is(r, 130, "VAR_TYPE", <<{"LBRK"}, Id, {"SEMI"}, {"EXPRESSION"}, {"RBRK"}>>)
  \/ Is(r, 212, "TYPED_ID_LIST", <<{"TYPED_ID"}>>)
  \/ Is(r, 526, "EXPRESSION_LIST", <<{"EXPRESSION"}>>)
  \/ Is(r, 558, "DEREF", <<Id, {"LBRK"}, {"EXPRESSION"}, {"RBRK"}>>)
  \/ Is(r, 610, "FUNC_CALL", <<Id, {"LP"}, {"EXPRESSION"}, {"RP"}>>)
  \/ Is(r, 641, "FUNC_HEADER", <<{"VAR_TYPE"}, {"ARROW"}, {"VAR_TYPE"}>>)
  \/ Is(r, 720, "STATEMENT_LIST", <<{"STATEMENT"}>>)
LEMMA AddingRules == \A r \in Rules : r.at \in Appending \cup Starting => Adds(r)
  <1> SUFFICES ASSUME NEW r \in Rules, r.at \in Appending \cup Starting PROVE Adds(r)
    OBVIOUS
  <1>a. r.at \in {130, 212, 526, 558, 610, 641, 720} \/ Appends(r)
    BY AppendingRules DEF Starting
  <1> SUFFICES ASSUME r.at \in {130, 212, 526, 558, 610, 641, 720} PROVE Adds(r)
    BY <1>a DEF Adds
  <1>1. CASE TypedIdRule(r) \/ ExpressionListRule(r) \/ StatementListRule(r)
    BY <1>1 DEF TypedIdRule, ExpressionListRule, StatementListRule, Is, Adds
  <1>2. CASE NumberRule(r) \/ HeaderRule(r) \/ TypeNameRule(r) \/ ArrayTypeRule(r) \/ PointerTypeRule(r)
    BY <1>2 DEF NumberRule, HeaderRule, TypeNameRule, ArrayTypeRule, PointerTypeRule, Is, Adds
  <1>3. CASE FactorRule(r) \/ ParenthesesRule(r) \/ TermRule(r) \/ MathRule(r) \/ RelationalRule(r)
    BY <1>3 DEF FactorRule, ParenthesesRule, TermRule, MathRule, RelationalRule, Is
  <1>4. CASE ConjRule(r) \/ DisjRule(r) \/ ExpressionRule(r) \/ DerefRule(r) \/ CallRule(r)
    BY <1>4 DEF ConjRule, DisjRule, ExpressionRule, DerefRule, CallRule, Is, Adds
  <1>5. CASE FuncHeaderRule(r) \/ IfRule(r) \/ AssignmentRule(r) \/ StatementRule(r) \/ BlockRule(r) \/ FunctionRule(r)
    BY <1>5 DEF FuncHeaderRule, IfRule, AssignmentRule, StatementRule, BlockRule, FunctionRule, Is, Adds
  <1> QED
    BY <1>1, <1>2, <1>3, <1>4, <1>5, Catalogue

-----------------------------------------------------------------------------
(* What an added cell holds, and what it is hung below. *)

LEMMA FoundNode ==
  ASSUME Len(tree) \in Nat, NEW n, Found(n), Peek(n) \in NonTerminals \ ListKinds
  PROVE  /\ Value(n) \in 1..Len(tree)
         /\ tree[Value(n)].sym = Peek(n) /\ tree[Value(n)].from = From(n) /\ tree[Value(n)].to = To(n)
  <1>1. Part(Store, Len(tree) + 1, Value(n), Peek(n), From(n), To(n))
    BY DEF Found, Placed, Store
  <1> QED
    BY <1>1 DEF Part, Store

LEMMA FoundList ==
  ASSUME NEW n, Found(n), Peek(n) \in ListKinds
  PROVE  ListAt(Store, Len(tree) + 1, Peek(n), Value(n), From(n), To(n))
  BY DEF Found, Placed, Store

LEMMA FoundToken ==
  ASSUME NEW n, Found(n), Peek(n) \in Tokens
  PROVE  Value(n) = From(n) /\ To(n) = From(n) /\ Kind(Store, From(n)) = Peek(n)
  BY DEF Found, Placed

LEMMA FoundTop ==
  ASSUME NEW r, Finds(r)
  PROVE  Peek(0) \in r.rhs[Len(r.rhs)] /\ Found(0)
  <1> DEFINE k == Len(r.rhs)
  <1>1. k \in 1..5 /\ \A n \in 0..(k - 1) : Peek(n) \in r.rhs[k - n] /\ Found(n)
    BY DEF Finds
  <1> HIDE DEF k
  <1>2. 0 \in 0..(k - 1) /\ k - 0 = k
    BY <1>1
  <1>3. Peek(0) \in r.rhs[k] /\ Found(0)
    BY <1>1, <1>2
  <1> QED
    BY <1>3 DEF k

\* The node that an added cell holds.
LEMMA AddedItem ==
  ASSUME TreeInv, phase = "reduce", NEW r \in Takeable, r.at \in Appending \cup Starting, r.at # 641
  PROVE  /\ ItemOf(r) \in 1..Len(tree)
         /\ tree[ItemOf(r)].sym \in {"TYPED_ID", "EXPRESSION", "STATEMENT"}
         /\ r.lhs \in ListKinds => /\ ItemOf(r) = Value(0)
                                   /\ tree[ItemOf(r)].sym = Element(r.lhs)
                                   /\ tree[ItemOf(r)].from = From(0) /\ tree[ItemOf(r)].to = To(0)
  <1>1. Finds(r) /\ Adds(r) /\ Len(tree) \in Nat
    BY RuleFinds, AddingRules, Heap DEF Takeable, TreeInv
  <1>2. CASE Appends(r)
    <2>1. /\ Len(r.rhs) \in {2, 3}
          /\ r.rhs[Len(r.rhs)] = {Element(r.lhs)}
          /\ Element(r.lhs) \in {"TYPED_ID", "EXPRESSION", "STATEMENT"}
          /\ ItemOf(r) = Value(0)
      <3>1. CASE Is(r, 195, "TYPED_ID_LIST", <<{"TYPED_ID_LIST"}, {"COMMA"}, {"TYPED_ID"}>>)
        BY <3>1 DEF Is, Element, ItemOf
      <3>2. CASE Is(r, 506, "EXPRESSION_LIST", <<{"EXPRESSION_LIST"}, {"COMMA"}, {"EXPRESSION"}>>)
        BY <3>2 DEF Is, Element, ItemOf
      <3>3. CASE Is(r, 703, "STATEMENT_LIST", <<{"STATEMENT_LIST"}, {"STATEMENT"}>>)
        BY <3>3 DEF Is, Element, ItemOf
      <3> QED
        BY <1>2, <3>1, <3>2, <3>3 DEF Appends
    <2>2. Peek(0) = Element(r.lhs) /\ Found(0)
      BY <1>1, <2>1, FoundTop
    <2> QED
      BY <1>1, <2>1, <2>2, FoundNode, Sorts
  <1>3. CASE Is(r, 212, "TYPED_ID_LIST", <<{"TYPED_ID"}>>)
    <2>1. r.lhs = "TYPED_ID_LIST" /\ Len(r.rhs) = 1 /\ r.rhs[1] = {"TYPED_ID"} /\ ItemOf(r) = Value(0)
      BY <1>3 DEF Is, ItemOf
    <2>2. Peek(0) = "TYPED_ID" /\ Found(0)
      BY <1>1, <2>1 DEF Finds
    <2> QED
      BY <1>1, <2>1, <2>2, FoundNode, Sorts DEF Element
  <1>4. CASE Is(r, 526, "EXPRESSION_LIST", <<{"EXPRESSION"}>>)
    <2>1. r.lhs = "EXPRESSION_LIST" /\ Len(r.rhs) = 1 /\ r.rhs[1] = {"EXPRESSION"} /\ ItemOf(r) = Value(0)
      BY <1>4 DEF Is, ItemOf
    <2>2. Peek(0) = "EXPRESSION" /\ Found(0)
      BY <1>1, <2>1 DEF Finds
    <2> QED
      BY <1>1, <2>1, <2>2, FoundNode, Sorts DEF Element
  <1>5. CASE Is(r, 720, "STATEMENT_LIST", <<{"STATEMENT"}>>)
    <2>1. r.lhs = "STATEMENT_LIST" /\ Len(r.rhs) = 1 /\ r.rhs[1] = {"STATEMENT"} /\ ItemOf(r) = Value(0)
      BY <1>5 DEF Is, ItemOf
    <2>2. Peek(0) = "STATEMENT" /\ Found(0)
      BY <1>1, <2>1 DEF Finds
    <2> QED
      BY <1>1, <2>1, <2>2, FoundNode, Sorts DEF Element
  <1>6. CASE Is(r, 130, "VAR_TYPE", <<{"LBRK"}, Id, {"SEMI"}, {"EXPRESSION"}, {"RBRK"}>>)
    <2>1. r.lhs = "VAR_TYPE" /\ Len(r.rhs) = 5 /\ r.rhs[4] = {"EXPRESSION"} /\ ItemOf(r) = Value(1)
      BY <1>6 DEF Is, ItemOf
    <2>2. Peek(1) = "EXPRESSION" /\ Found(1)
      BY <1>1, <2>1 DEF Finds
    <2> QED
      BY <1>1, <2>1, <2>2, FoundNode, Sorts
  <1>7. CASE Is(r, 558, "DEREF", <<Id, {"LBRK"}, {"EXPRESSION"}, {"RBRK"}>>)
    <2>1. r.lhs = "DEREF" /\ Len(r.rhs) = 4 /\ r.rhs[3] = {"EXPRESSION"} /\ ItemOf(r) = Value(1)
      BY <1>7 DEF Is, ItemOf
    <2>2. Peek(1) = "EXPRESSION" /\ Found(1)
      BY <1>1, <2>1 DEF Finds
    <2> QED
      BY <1>1, <2>1, <2>2, FoundNode, Sorts
  <1>8. CASE Is(r, 610, "FUNC_CALL", <<Id, {"LP"}, {"EXPRESSION"}, {"RP"}>>)
    <2>1. r.lhs = "FUNC_CALL" /\ Len(r.rhs) = 4 /\ r.rhs[3] = {"EXPRESSION"} /\ ItemOf(r) = Value(1)
      BY <1>8 DEF Is, ItemOf
    <2>2. Peek(1) = "EXPRESSION" /\ Found(1)
      BY <1>1, <2>1 DEF Finds
    <2> QED
      BY <1>1, <2>1, <2>2, FoundNode, Sorts
  <1> QED
    BY <1>1, <1>2, <1>3, <1>4, <1>5, <1>6, <1>7, <1>8 DEF Adds, Is

\* An append goes on where its list ends.
LEMMA AppendsJoined ==
  ASSUME TreeInv, phase = "reduce", NEW r \in Takeable, r.at \in Appending
  PROVE  LET f == Value(Len(r.rhs) - 1)
             a == From(Len(r.rhs) - 1)
             b == To(Len(r.rhs) - 1)
         IN /\ r.lhs \in ListKinds
            /\ ListAt(Store, Len(tree) + 1, r.lhs, f, a, b)
            /\ Joined(Store, Element(r.lhs), b, From(0))
            /\ stack[Depth - Len(r.rhs) + 1].sym = r.lhs
  <1>1. Finds(r) /\ Appends(r) /\ Depth \in Nat /\ Len(r.rhs) <= Depth /\ Len(r.rhs) \in Nat
    BY RuleFinds, AppendingRules, TakenRule, Heap DEF Takeable, TreeInv, BInv, IInv
  <1>2. /\ Len(r.rhs) \in {2, 3}
        /\ r.lhs \in ListKinds
        /\ r.rhs[1] = {r.lhs}
        /\ Len(r.rhs) = 3 => r.rhs[2] = {"COMMA"} /\ Element(r.lhs) # "STATEMENT"
        /\ Len(r.rhs) = 2 => Element(r.lhs) = "STATEMENT"
    <2>1. CASE Is(r, 195, "TYPED_ID_LIST", <<{"TYPED_ID_LIST"}, {"COMMA"}, {"TYPED_ID"}>>)
      BY <2>1 DEF Is, Element, ListKinds
    <2>2. CASE Is(r, 506, "EXPRESSION_LIST", <<{"EXPRESSION_LIST"}, {"COMMA"}, {"EXPRESSION"}>>)
      BY <2>2 DEF Is, Element, ListKinds
    <2>3. CASE Is(r, 703, "STATEMENT_LIST", <<{"STATEMENT_LIST"}, {"STATEMENT"}>>)
      BY <2>3 DEF Is, Element, ListKinds
    <2> QED
      BY <1>1, <2>1, <2>2, <2>3 DEF Appends
  <1>3. CASE Len(r.rhs) = 3
    <2>1. /\ Peek(2) = r.lhs /\ Found(2) /\ Peek(1) = "COMMA" /\ Found(1)
          /\ From(0) = To(1) + 1 /\ From(1) = To(2) + 1
      BY <1>1, <1>2, <1>3 DEF Finds
    <2>2. ListAt(Store, Len(tree) + 1, r.lhs, Value(2), From(2), To(2))
      BY <1>2, <2>1, FoundList
    <2>3. To(1) = From(1) /\ Kind(Store, From(1)) = "COMMA"
      BY <2>1, FoundToken, Sorts
    <2>4. To(2) \in Nat
      BY <2>1 DEF Found
    <2>5. Joined(Store, Element(r.lhs), To(2), From(0))
      BY <1>2, <1>3, <2>1, <2>3, <2>4 DEF Joined
    <2>6. stack[Depth - 3 + 1].sym = r.lhs
      <3>1. 2 < Depth /\ Depth - 3 + 1 = Depth - 2
        BY <1>1, <1>3
      <3> QED
        BY <2>1, <3>1 DEF Peek
    <2> QED
      BY <1>2, <1>3, <2>2, <2>5, <2>6
  <1>4. CASE Len(r.rhs) = 2
    <2>1. /\ Peek(1) = r.lhs /\ Found(1)
          /\ From(0) = To(1) + 1
      BY <1>1, <1>2, <1>4 DEF Finds
    <2>2. ListAt(Store, Len(tree) + 1, r.lhs, Value(1), From(1), To(1))
      BY <1>2, <2>1, FoundList
    <2>5. Joined(Store, Element(r.lhs), To(1), From(0))
      BY <1>2, <1>4, <2>1 DEF Joined
    <2>6. stack[Depth - 2 + 1].sym = r.lhs
      <3>1. 1 < Depth /\ Depth - 2 + 1 = Depth - 1
        BY <1>1, <1>4
      <3> QED
        BY <2>1, <3>1 DEF Peek
    <2> QED
      BY <1>2, <1>4, <2>2, <2>5, <2>6
  <1> QED
    BY <1>2, <1>3, <1>4

-----------------------------------------------------------------------------
(* The cells and the stack after a reduction. *)

\* The cells after a reduction.
LEMMA BuildCells ==
  ASSUME TreeInv, BInv', NEW r \in Takeable, Build(r)
  PROVE  /\ Len(cells) \in Nat /\ DOMAIN cells = 1..Len(cells)
         /\ Len(cells') \in Nat /\ DOMAIN cells' = 1..Len(cells')
         /\ Len(cells') = Len(cells) + (IF r.at \in Appending \cup Starting THEN 1 ELSE 0)
         /\ \A p \in 1..Len(cells) : cells'[p].item = cells[p].item
         /\ \A p \in 1..Len(cells) :
              cells'[p].next \in 1..Len(cells') =>
                \/ cells'[p].next = cells[p].next /\ cells[p].next \in 1..Len(cells)
                \/ r.at \in Appending /\ p = Stand(r) /\ cells'[p].next = Len(cells) + 1
         /\ r.at \in Appending \cup Starting =>
              /\ cells'[Len(cells) + 1].item = ItemOf(r)
              /\ cells'[Len(cells) + 1].next \notin 1..Len(cells')
  <1> DEFINE L == Len(cells)
             M == Len(cells')
             q == Stand(r)
             hangs == r.at \in Appending
             adds == r.at \in Appending \cup Starting
  <1>1. /\ L \in Nat /\ DOMAIN cells = 1..L
        /\ \A p \in 1..L : cells[p].next \in {NULL, Unwritten} \cup 1..L
    BY Heap DEF TreeInv
  <1>2. M \in Nat /\ DOMAIN cells' = 1..M
    BY DEF BInv
  <1>3. /\ \A p \in 1..L : cells'[p].item = cells[p].item
        /\ \/ /\ adds /\ M = L + 1
              /\ \A p \in 1..L : cells'[p].next = IF hangs /\ p = q THEN L + 1 ELSE cells[p].next
              /\ cells'[L + 1].next \in {NULL, Unwritten}
           \/ ~adds /\ cells' = cells
        /\ adds => cells'[L + 1].item = ItemOf(r)
    BY CellsEffect DEF TreeInv, Appending, Starting
  <1>4. NULL \notin 1..M /\ Unwritten \notin 1..M
    BY <1>2, UnwrittenAssumption DEF NULL
  <1>5. M = L + (IF adds THEN 1 ELSE 0)
    BY <1>1, <1>3
  <1> HIDE DEF L, M, q, adds, hangs
  <1>6. ASSUME NEW p \in 1..L, cells'[p].next \in 1..M
        PROVE  \/ cells'[p].next = cells[p].next /\ cells[p].next \in 1..L
               \/ hangs /\ p = q /\ cells'[p].next = L + 1
    BY <1>1, <1>3, <1>4, <1>6
  <1>7. adds => cells'[L + 1].item = ItemOf(r) /\ cells'[L + 1].next \notin 1..M
    BY <1>3, <1>4
  <1> QED
    BY <1>1, <1>2, <1>3, <1>5, <1>6, <1>7 DEF L, M, q, adds, hangs

\* The tree after a reduction.
LEMMA BuildTree ==
  ASSUME TreeInv, NEW r \in Takeable, Build(r)
  PROVE  /\ Len(tree) \in Nat /\ Len(tree') \in Nat /\ Len(tree) <= Len(tree')
         /\ DOMAIN tree = 1..Len(tree) /\ DOMAIN tree' = 1..Len(tree')
         /\ \A n \in 1..Len(tree) : n \in 1..Len(tree') /\ tree'[n] = tree[n]
         /\ r.lhs \notin ListKinds => /\ Len(tree') \in 1..Len(tree')
                                      /\ Answer(r) = Len(tree')
                                      /\ tree'[Len(tree')] = Finished(r)
         /\ r.at = 641 => NewNode \in 1..Len(tree') /\ tree'[NewNode] = Unnamed
  <1>1. /\ Len(tree) \in Nat /\ DOMAIN tree = 1..Len(tree)
        /\ Len(tree') \in Nat /\ DOMAIN tree' = 1..Len(tree')
    BY TreeEffect, Heap DEF TreeInv
  <1>2. /\ \A n \in 1..Len(tree) : n \in 1..Len(tree') /\ tree'[n] = tree[n]
        /\ r.lhs \in ListKinds => tree' = tree
        /\ r.lhs \notin ListKinds =>
             /\ Len(tree') = Len(tree) + (IF r.at = 641 THEN 2 ELSE 1)
             /\ Answer(r) = Len(tree')
             /\ tree'[Len(tree')] = Finished(r)
             /\ r.at = 641 => tree'[Len(tree) + 1] = Unnamed
    BY TreeEffect DEF TreeInv
  <1>3. r.at = 641 => r.lhs \notin ListKinds
    BY HeaderOfTypeRule DEF Takeable, FuncHeaderRule, Is, ListKinds
  <1>4. CASE r.lhs \in ListKinds
    <2>1. tree' = tree /\ r.at # 641
      BY <1>2, <1>3, <1>4
    <2>2. Len(tree') = Len(tree)
      BY <2>1
    <2>3. Len(tree) <= Len(tree')
      BY <1>1, <2>2
    <2> QED
      BY <1>1, <1>2, <1>4, <2>1, <2>3
  <1>5. CASE r.lhs \notin ListKinds /\ r.at = 641
    <2>1. Len(tree') = Len(tree) + 2
      BY <1>2, <1>5
    <2> QED
      BY <1>1, <1>2, <1>5, <2>1 DEF NewNode
  <1>6. CASE r.lhs \notin ListKinds /\ r.at # 641
    <2>1. Len(tree') = Len(tree) + 1
      BY <1>2, <1>6
    <2> QED
      BY <1>1, <1>2, <1>6, <2>1
  <1> QED
    BY <1>4, <1>5, <1>6

\* The cell an append stands at is the last of the list it was given.
LEMMA StandsAtEnd ==
  ASSUME TreeInv, BInv', NEW r \in Takeable, Build(r), r.at \in Appending, input' = input, literals' = literals
  PROVE  /\ Stand(r) \in 1..Len(cells)
         /\ Last(Store, Value(Len(r.rhs) - 1)) = Stand(r) /\ Last(Store, Stand(r)) = Stand(r)
         /\ Value(Len(r.rhs) - 1) \in 1..Len(cells)
         /\ Last(Store', Value(Len(r.rhs) - 1)) = Len(cells) + 1
  <1> DEFINE f == Value(Len(r.rhs) - 1)
             g == Store
             h == Store'
             q == Stand(r)
             L == Len(cells)
  <1>1. Grows(g, h, q, TRUE)
    <2>1. (r.at \in Appending) = TRUE
      OBVIOUS
    <2>2. Grows(g, h, q, r.at \in Appending)
      BY StoreGrows
    <2> QED
      BY <2>1, <2>2
  <1>2. q \in 1..L /\ f \in Lists /\ Last(g, q) = Last(g, f)
    BY StandsLast DEF Last, Store
  <1>3. g.cells = cells /\ g.lists = Lists
    BY DEF Store
  <1> HIDE DEF f, g, h, q, L
  <1>4. PICK l \in Lists : Last(g, l) = q
    BY <1>1, <1>3 DEF Grows
  <1>5. Lists \subseteq 1..Len(g.cells)
    BY <1>1, <1>3 DEF Grows
  <1>6. Last(g, q) = q
    BY <1>1, <1>4, <1>5 DEF Grows
  <1>7. f \in 1..Len(g.cells) /\ Last(g, f) = q
    BY <1>2, <1>5, <1>6
  <1>8. Last(h, f) = Len(g.cells) + 1
    BY <1>1, <1>7 DEF Grows
  <1> QED
    BY <1>2, <1>3, <1>6, <1>7, <1>8 DEF f, g, h, q, L

\* Every cell is formed after a reduction, and the last one of an append joins the new one.
LEMMA BuildCellsFormed ==
  ASSUME TreeInv, BInv', phase = "reduce", NEW r \in Takeable, Build(r), input' = input, literals' = literals
  PROVE  CellsFormed'
  <1> DEFINE L == Len(cells)
             M == Len(cells')
             q == Stand(r)
             N == Len(tree)
             f == Value(Len(r.rhs) - 1)
             b == To(Len(r.rhs) - 1)
             g == Store
             h == Store'
  <1>1. /\ h.tree = tree' /\ h.cells = cells' /\ g.tree = tree /\ g.cells = cells
    BY DEF Store
  <1>2. /\ L \in Nat /\ DOMAIN cells = 1..L /\ M \in Nat /\ DOMAIN cells' = 1..M
        /\ M = L + (IF r.at \in Appending \cup Starting THEN 1 ELSE 0)
        /\ \A p \in 1..L : cells'[p].item = cells[p].item
        /\ \A p \in 1..L : cells'[p].next \in 1..M =>
              \/ cells'[p].next = cells[p].next /\ cells[p].next \in 1..L
              \/ r.at \in Appending /\ p = q /\ cells'[p].next = L + 1
        /\ r.at \in Appending \cup Starting => cells'[L + 1].item = ItemOf(r) /\ cells'[L + 1].next \notin 1..M
    BY BuildCells
  <1>3. /\ DOMAIN tree = 1..N
        /\ \A n \in 1..N : n \in DOMAIN tree' /\ tree'[n] = tree[n]
        /\ r.at = 641 => NewNode \in DOMAIN tree' /\ tree'[NewNode] = Unnamed
    BY BuildTree
  <1>4. \A i : Kind(h, i) = Kind(g, i)
    BY StoreGrows, KindGrows
  <1>5. \A p \in 1..L : CellFormed(g, p)
    BY <1>2 DEF TreeInv, CellsFormed
  <1>6. r.at \in Appending \cup Starting /\ r.at # 641 =>
          /\ ItemOf(r) \in 1..N
          /\ tree[ItemOf(r)].sym \in {"TYPED_ID", "EXPRESSION", "STATEMENT"}
          /\ r.lhs \in ListKinds => /\ tree[ItemOf(r)].sym = Element(r.lhs)
                                    /\ tree[ItemOf(r)].from = From(0)
    BY AddedItem
  <1>7. r.at \in Appending =>
          /\ r.lhs \in ListKinds
          /\ ListAt(g, N + 1, r.lhs, f, From(Len(r.rhs) - 1), b)
          /\ Joined(g, Element(r.lhs), b, From(0))
          /\ q \in 1..L /\ Last(g, f) = q /\ Last(g, q) = q
          /\ r.at # 641
    BY AppendsJoined, StandsAtEnd DEF Appending
  <1> HIDE DEF L, M, q, N, f, b, g, h
  <1>8. \A u, w : ItemsJoined(g, u, w) => ItemsJoined(h, u, w)
    BY <1>4 DEF ItemsJoined, Joined
  <1>9. ASSUME NEW p \in 1..L PROVE CellFormed(h, p)
    <2>1. /\ cells[p].item \in 1..N
          /\ tree[cells[p].item].sym \in {"TYPED_ID", "EXPRESSION", "STATEMENT"}
          /\ cells[p].next \in 1..L => ItemsJoined(g, tree[cells[p].item], tree[cells[cells[p].next].item])
      BY <1>1, <1>2, <1>3, <1>5 DEF CellFormed
    <2>2. cells'[p].item = cells[p].item /\ tree'[cells[p].item] = tree[cells[p].item] /\ cells[p].item \in DOMAIN tree'
      BY <1>2, <1>3, <2>1
    <2>3. ASSUME cells'[p].next = cells[p].next, cells[p].next \in 1..L
          PROVE  ItemsJoined(h, tree'[cells'[p].item], tree'[cells'[cells'[p].next].item])
      <3>1. cells[cells[p].next].item \in 1..N
        BY <1>1, <1>3, <1>5, <2>3 DEF CellFormed
      <3>2. cells'[cells'[p].next].item = cells[cells[p].next].item
        BY <1>2, <2>3
      <3>3. tree'[cells[cells[p].next].item] = tree[cells[cells[p].next].item]
        BY <1>3, <3>1
      <3> QED
        BY <1>8, <2>1, <2>2, <2>3, <3>2, <3>3
    <2>4. ASSUME r.at \in Appending, p = q, cells'[p].next = L + 1
          PROVE  ItemsJoined(h, tree'[cells'[p].item], tree'[cells'[cells'[p].next].item])
      <3>1. /\ tree[cells[q].item].sym = Element(r.lhs)
            /\ tree[cells[q].item].to = b
        <4>1. \A s \in DOMAIN cells : Last(g, s) = Last(g, f) => tree[cells[s].item].sym = Element(r.lhs)
          BY <1>1, <1>7, <2>4 DEF ListAt
        <4>2. tree[cells[Last(g, f)].item].to = b
          BY <1>1, <1>7, <2>4 DEF ListAt
        <4> QED
          BY <1>2, <1>7, <2>4, <4>1, <4>2
      <3>2. /\ ItemOf(r) \in 1..N /\ tree[ItemOf(r)].sym = Element(r.lhs) /\ tree[ItemOf(r)].from = From(0)
            /\ cells'[L + 1].item = ItemOf(r)
        BY <1>2, <1>6, <1>7, <2>4
      <3>3. ItemsJoined(g, tree[cells[q].item], tree[ItemOf(r)])
        BY <1>7, <2>4, <3>1, <3>2 DEF ItemsJoined
      <3> QED
        BY <1>3, <1>8, <2>2, <2>4, <3>2, <3>3
    <2>5. cells'[p].next \in DOMAIN cells' =>
            ItemsJoined(h, tree'[cells'[p].item], tree'[cells'[cells'[p].next].item])
      BY <1>2, <2>3, <2>4
    <2> QED
      BY <1>1, <2>1, <2>2, <2>5 DEF CellFormed
  <1>10. ASSUME r.at \in Appending \cup Starting PROVE CellFormed(h, L + 1)
    <2>1. cells'[L + 1].item = ItemOf(r) /\ cells'[L + 1].next \notin DOMAIN cells'
      BY <1>2, <1>10
    <2>2. ItemOf(r) \in DOMAIN tree' /\ tree'[ItemOf(r)].sym \in {"TYPED_ID", "EXPRESSION", "STATEMENT"}
      <3>1. CASE r.at = 641
        <4>1. ItemOf(r) = NewNode /\ Unnamed.sym = "TYPED_ID"
          BY <3>1 DEF ItemOf, Unnamed, Made
        <4> QED
          BY <1>3, <3>1, <4>1
      <3>2. CASE r.at # 641
        BY <1>3, <1>6, <1>10, <3>2
      <3> QED
        BY <3>1, <3>2
    <2> QED
      BY <1>1, <2>1, <2>2 DEF CellFormed
  <1>11. ASSUME NEW p \in DOMAIN cells' PROVE CellFormed(h, p)
    <2>1. p \in 1..M /\ L \in Nat
      BY <1>2
    <2>2. CASE r.at \in Appending \cup Starting
      <3>1. M = L + 1
        BY <1>2, <2>2
      <3>2. p \in 1..L \/ p = L + 1
        BY <2>1, <3>1
      <3> QED
        BY <1>9, <1>10, <2>2, <3>2
    <2>3. CASE r.at \notin Appending \cup Starting
      <3>1. M = L + 0
        BY <1>2, <2>3
      <3>2. p \in 1..L
        BY <2>1, <3>1
      <3> QED
        BY <1>9, <3>2
    <2> QED
      BY <2>2, <2>3
  <1> QED
    BY <1>11 DEF CellsFormed, h

-----------------------------------------------------------------------------
(* The stack after a reduction. *)

\* A value on the stack still says of its node what it said, unless it is the list appended to.
LEMMA PlacedGrows ==
  ASSUME NEW g, NEW h, NEW q, NEW hangs, Grows(g, h, q, hangs),
         Len(h.tree) \in Nat, Len(g.tree) <= Len(h.tree),
         NEW v, NEW sym, NEW a, NEW b, Placed(g, v, sym, a, b),
         sym \in ListKinds => ~(hangs /\ Last(g, v) = q)
  PROVE  Placed(h, v, sym, a, b)
  <1> DEFINE n == Len(g.tree) + 1
             m == Len(h.tree) + 1
  <1>1. n \in Nat /\ m \in Nat /\ n \in 1..(Len(g.tree) + 1) /\ 1..(n - 1) \subseteq 1..(m - 1)
    BY DEF Grows
  <1>2. ASSUME sym \in Tokens PROVE v = a /\ b = a /\ Kind(h, a) = sym
    BY <1>2, KindGrows DEF Placed
  <1>p. Placed(g, v, sym, a, b)
    OBVIOUS
  <1>n. n = Len(g.tree) + 1 /\ m = Len(h.tree) + 1
    OBVIOUS
  <1> HIDE DEF n, m
  <1>3. ASSUME sym \in NonTerminals \ ListKinds PROVE Part(h, m, v, sym, a, b)
    <2>1. Part(h, n, v, sym, a, b)
      BY <1>1, <1>3, <1>n, <1>p, PartGrows DEF Placed
    <2> QED
      BY <1>1, <2>1 DEF Part
  <1>4. ASSUME sym \in ListKinds PROVE ListAt(h, m, sym, v, a, b)
    <2>1. ListAt(g, n, sym, v, a, b)
      BY <1>4, <1>n, <1>p DEF Placed
    <2>2. ListAt(h, n, sym, v, a, b)
      BY <1>1, <1>4, <2>1, ListGrows
    <2> QED
      BY <1>1, <2>2 DEF ListAt
  <1> QED
    BY <1>2, <1>3, <1>4, <1>n DEF Placed

\* A list on the stack is of cells, and what is appended to is one of the lists.
LEMMA ListCells ==
  ASSUME TreeInv
  PROVE  /\ \A i \in 1..Depth : stack[i].sym \in ListKinds => values[i] \in 1..Len(cells)
         /\ \A p \in 1..Len(cells) : Last(Store, p) \in 1..Len(cells)
         /\ Len(cells) \in Nat /\ DOMAIN cells = 1..Len(cells) /\ Depth \in Nat
  BY Heap, CellsForward, LastCells DEF TreeInv, Last, Store

\* So do the values below the handle.
LEMMA BuildKeepsBelow ==
  ASSUME TreeInv, BInv', NEW r \in Takeable, Build(r), input' = input, literals' = literals,
         NEW i \in 1..(Depth - Len(r.rhs)), stack[i].sym \in ListKinds, r.at \in Appending,
         phase = "reduce"
  PROVE  Last(Store, values[i]) # Stand(r)
  <1> DEFINE m == Depth - Len(r.rhs) + 1
  <1>1. /\ stack[m].sym = r.lhs /\ r.lhs \in ListKinds
        /\ Value(Len(r.rhs) - 1) = values[m]
    BY AppendsJoined, StandsInList DEF TreeInv
  <1>2. Last(Store, values[m]) = Stand(r)
    BY <1>1, StandsAtEnd
  <1>3. m \in 1..Depth /\ Depth \in Nat /\ m - 1 = Depth - Len(r.rhs)
    <2>1. m \in 1..Depth /\ Depth \in Nat
      BY BuildEffect, Heap DEF TreeInv
    <2>2. Len(r.rhs) \in Nat
      BY TakenRule DEF TreeInv, BInv, IInv
    <2> QED
      BY <2>1, <2>2
  <1>4. i \in 1..Depth /\ i # m
    <2> HIDE DEF m
    <2>1. i \in 1..(m - 1)
      BY <1>3
    <2> QED
      BY <1>3, <2>1
  <1> HIDE DEF m
  <1>5. Last(Store, values[i]) # Last(Store, values[m])
    BY <1>1, <1>3, <1>4 DEF TreeInv, ListsApart
  <1> QED
    BY <1>2, <1>5

\* The list an append answers, longer by one cell.
LEMMA BuildAppended ==
  ASSUME TreeInv, BInv', phase = "reduce", NEW r \in Takeable, Build(r), input' = input, literals' = literals, r.at \in Appending
  PROVE  ListAt(Store', Len(tree') + 1, r.lhs, Value(Len(r.rhs) - 1), From(Len(r.rhs) - 1), To(0))
  <1> DEFINE g == Store
             h == Store'
             L == Len(cells)
             N == Len(tree)
             q == Stand(r)
             f == Value(Len(r.rhs) - 1)
             a == From(Len(r.rhs) - 1)
             b == To(Len(r.rhs) - 1)
             e == Element(r.lhs)
  <1>1. /\ h.tree = tree' /\ h.cells = cells' /\ g.tree = tree /\ g.cells = cells
    BY DEF Store
  <1>2. r.lhs \in ListKinds /\ ListAt(g, N + 1, r.lhs, f, a, b)
    BY AppendsJoined
  <1>3. /\ f \in 1..L /\ Last(g, f) = q /\ Last(h, f) = L + 1
    BY StandsAtEnd
  <1>4. Grows(g, h, q, r.at \in Appending)
    BY StoreGrows
  <1>5. tree' = tree /\ N \in Nat
    BY <1>2, TreeEffect, Heap DEF TreeInv
  <1>6. /\ ItemOf(r) \in 1..N /\ tree[ItemOf(r)].sym = e
        /\ tree[ItemOf(r)].to = To(0)
        /\ cells'[L + 1].item = ItemOf(r)
    <2>1. r.at # 641 /\ r.at \in Appending \cup Starting
      BY DEF Appending
    <2> QED
      BY <1>2, <2>1, AddedItem, BuildCells
  <1>7. /\ L \in Nat /\ DOMAIN cells = 1..L
        /\ \A p \in DOMAIN cells' : p \in 1..L \/ p = L + 1
        /\ \A p \in 1..L : /\ p \in DOMAIN cells'
                           /\ cells'[p].item = cells[p].item
                           /\ Last(g, p) \in 1..L
                           /\ Last(h, p) = IF Last(g, p) = q THEN L + 1 ELSE Last(g, p)
    BY <1>1, <1>4 DEF Grows
  <1>8. /\ \A p \in DOMAIN cells : Last(g, p) = Last(g, f) =>
             cells[p].item \in 1..((N + 1) - 1) /\ tree[cells[p].item].sym = e
        /\ tree[cells[f].item].from = a
    BY <1>1, <1>2 DEF ListAt
  <1>n. (N + 1) - 1 = N
    BY <1>5
  <1> HIDE DEF g, h, L, N, q, f, a, b, e
  <1>9. ASSUME NEW p \in DOMAIN cells', Last(h, p) = Last(h, f)
        PROVE  cells'[p].item \in 1..N /\ tree[cells'[p].item].sym = e
    <2>1. CASE p = L + 1
      BY <1>6, <2>1
    <2>2. CASE p \in 1..L
      <3>1. Last(g, p) = Last(g, f)
        BY <1>3, <1>7, <1>9, <2>2
      <3> QED
        BY <1>7, <1>8, <1>n, <2>2, <3>1
    <2> QED
      BY <1>7, <2>1, <2>2
  <1>10. f \in DOMAIN cells' /\ tree[cells'[f].item].from = a
    BY <1>3, <1>7, <1>8
  <1>11. tree[cells'[Last(h, f)].item].to = To(0)
    BY <1>3, <1>6
  <1>12. ListAt(h, N + 1, r.lhs, f, a, To(0))
    BY <1>1, <1>5, <1>9, <1>10, <1>11, <1>n DEF ListAt, e
  <1>13. Len(tree') = N
    BY <1>5 DEF N
  <1> QED
    BY <1>12, <1>13 DEF f, h, a, N

\* A list that was just started has one cell.
LEMMA BuildStarted ==
  ASSUME TreeInv, BInv', phase = "reduce", NEW r \in Takeable, Build(r), input' = input, literals' = literals,
         r.at \in Starting, r.lhs \in ListKinds
  PROVE  /\ ListAt(Store', Len(tree') + 1, r.lhs, Len(cells) + 1, From(0), To(0))
         /\ Len(r.rhs) = 1
  <1> DEFINE g == Store
             h == Store'
             L == Len(cells)
             N == Len(tree)
             e == Element(r.lhs)
  <1>0. Len(r.rhs) = 1 /\ r.at # 641 /\ r.at \notin Appending
    <2>1. Adds(r)
      BY AddingRules DEF Takeable
    <2>2. CASE Appends(r)
      BY <2>2 DEF Appends, Is, Starting
    <2>3. CASE Is(r, 212, "TYPED_ID_LIST", <<{"TYPED_ID"}>>) \/ Is(r, 526, "EXPRESSION_LIST", <<{"EXPRESSION"}>>)
               \/ Is(r, 720, "STATEMENT_LIST", <<{"STATEMENT"}>>)
      BY <2>3 DEF Is, Appending
    <2>4. CASE r.lhs \in {"VAR_TYPE", "DEREF", "FUNC_CALL", "FUNC_HEADER"}
      BY <2>4 DEF ListKinds
    <2> QED
      BY <2>1, <2>2, <2>3, <2>4 DEF Adds, Is
  <1>1. /\ h.tree = tree' /\ h.cells = cells' /\ g.tree = tree /\ g.cells = cells
    BY DEF Store
  <1>4. Grows(g, h, Stand(r), r.at \in Appending)
    BY StoreGrows
  <1>5. tree' = tree /\ N \in Nat
    BY TreeEffect, Heap DEF TreeInv
  <1>6. /\ ItemOf(r) \in 1..N /\ tree[ItemOf(r)].sym = e
        /\ tree[ItemOf(r)].from = From(0) /\ tree[ItemOf(r)].to = To(0)
        /\ cells'[L + 1].item = ItemOf(r)
    BY <1>0, AddedItem, BuildCells
  <1>7. /\ L \in Nat /\ DOMAIN cells = 1..L
        /\ \A p \in DOMAIN cells' : p \in 1..L \/ p = L + 1
        /\ \A p \in 1..L : Last(g, p) \in 1..L /\ Last(h, p) = Last(g, p)
    BY <1>0, <1>1, <1>4 DEF Grows
  <1>8. L + 1 \in DOMAIN cells'
    <2>1. DOMAIN cells' = 1..Len(cells') /\ Len(cells') = L + (IF r.at \in Appending \cup Starting THEN 1 ELSE 0)
      BY BuildCells
    <2>2. Len(cells') = L + 1
      BY <2>1
    <2> QED
      BY <1>7, <2>1, <2>2
  <1>n. (N + 1) - 1 = N
    BY <1>5
  <1>9. Last(h, L + 1) = L + 1
    BY <1>1, <1>4, <1>8 DEF Grows
  <1> HIDE DEF g, h, L, N, e
  <1>10. ASSUME NEW p \in DOMAIN cells', Last(h, p) = Last(h, L + 1)
         PROVE  p = L + 1
    BY <1>7, <1>9, <1>10
  <1>11. ASSUME NEW p \in DOMAIN cells', Last(h, p) = Last(h, L + 1)
         PROVE  cells'[p].item \in 1..N /\ tree[cells'[p].item].sym = e
    BY <1>6, <1>10, <1>11
  <1>12. ListAt(h, N + 1, r.lhs, L + 1, From(0), To(0))
    BY <1>1, <1>5, <1>6, <1>8, <1>9, <1>11, <1>n DEF ListAt, e
  <1>13. Len(tree') = N
    BY <1>5 DEF N
  <1> QED
    BY <1>0, <1>12, <1>13 DEF h, N, L

\* The node that a reduction pushes.
LEMMA BuildPlacesNew ==
  ASSUME TreeInv, BInv', phase = "reduce", NEW r \in Takeable, Build(r), input' = input, literals' = literals
  PROVE  Placed(Store', Answer(r), r.lhs, Built(r).from, Built(r).to)
  <1>1. r.lhs \in NonTerminals /\ r.lhs \notin Tokens
    BY TakenRule, Distinct DEF TreeInv, BInv, IInv
  <1>2. Built(r).from = From(Len(r.rhs) - 1) /\ Built(r).to = To(0)
    BY RuleFinds DEF Finds
  <1>3. CASE r.lhs \in ListKinds /\ r.at \in Appending
    <2>1. Answer(r) = Value(Len(r.rhs) - 1)
      BY <1>3 DEF Answer
    <2>2. Store'.tree = tree'
      BY DEF Store
    <2> QED
      BY <1>1, <1>2, <1>3, <2>1, <2>2, BuildAppended DEF Placed
  <1>4. CASE r.lhs \in ListKinds /\ r.at \notin Appending
    <2>1. Answer(r) = Len(cells) + 1 /\ r.at \in Starting
      BY <1>4, ListRules DEF Answer, NewCell, Takeable, ListRule
    <2>2. Store'.tree = tree'
      BY DEF Store
    <2>3. Len(r.rhs) = 1
      BY <1>4, <2>1, BuildStarted
    <2>4. Len(r.rhs) - 1 = 0
      BY <2>3
    <2>5. Built(r).from = From(0)
      BY <1>2, <2>4
    <2> QED
      BY <1>1, <1>2, <1>4, <2>1, <2>2, <2>5, BuildStarted DEF Placed
  <1>5. CASE r.lhs \notin ListKinds
    <2>1. Answer(r) = Len(tree') /\ tree'[Len(tree')] = Finished(r) /\ Len(tree') \in 1..Len(tree') /\ Len(tree') \in Nat
      BY <1>5, BuildTree
    <2>2. Store'.tree = tree'
      BY DEF Store
    <2>3. Finished(r).sym = r.lhs /\ Finished(r).from = Built(r).from /\ Finished(r).to = Built(r).to
      BY DEF Finished, Made
    <2> DEFINE n == Len(tree')
    <2>4. (n + 1) - 1 = n
      BY <2>1
    <2>5. Part(Store', n + 1, n, r.lhs, Built(r).from, Built(r).to)
      BY <2>1, <2>2, <2>3, <2>4 DEF Part
    <2> QED
      BY <1>1, <1>5, <2>1, <2>2, <2>5 DEF Placed
  <1> QED
    BY <1>3, <1>4, <1>5

\* The value of the answer says where its tokens are.
LEMMA BuildStackPlaced ==
  ASSUME TreeInv, BInv', phase = "reduce", NEW r \in Takeable, Build(r), input' = input, literals' = literals
  PROVE  StackPlaced'
  <1> DEFINE m == Depth - Len(r.rhs) + 1
             g == Store
             h == Store'
  <1>1. /\ m \in 1..Depth /\ Depth' = m
        /\ \A i \in 1..(m - 1) : stack'[i] = stack[i] /\ values'[i] = values[i]
        /\ stack'[m] = Built(r) /\ stack'[m].sym = r.lhs
        /\ values'[m] = Answer(r)
    BY BuildEffect DEF TreeInv
  <1>2. Depth \in Nat /\ m - 1 = Depth - Len(r.rhs)
    <2>1. Len(r.rhs) \in Nat /\ Depth \in Nat
      BY TakenRule, Heap DEF TreeInv, BInv, IInv
    <2> QED
      BY <2>1
  <1>3. Grows(g, h, Stand(r), r.at \in Appending)
    BY StoreGrows
  <1>4. /\ Len(g.tree) <= Len(h.tree) /\ Len(h.tree) \in Nat
    BY BuildTree DEF Store
  <1>5. Placed(h, Answer(r), r.lhs, Built(r).from, Built(r).to)
    BY BuildPlacesNew
  <1>6. \A i \in 1..(m - 1) : stack[i].sym \in ListKinds => ~(r.at \in Appending /\ Last(g, values[i]) = Stand(r))
    BY <1>2, BuildKeepsBelow
  <1>7. \A i \in 1..Depth : Placed(g, values[i], stack[i].sym, stack[i].from, stack[i].to)
    BY DEF TreeInv, StackPlaced
  <1>s. h = Store'
    OBVIOUS
  <1> HIDE DEF m, g, h
  <1>8. ASSUME NEW i \in 1..m
        PROVE  Placed(h, values'[i], stack'[i].sym, stack'[i].from, stack'[i].to)
    <2>1. CASE i = m
      BY <1>1, <1>5, <2>1
    <2>2. CASE i # m
      <3>1. i \in 1..(m - 1) /\ i \in 1..Depth
        BY <1>1, <1>2, <2>2
      <3>2. stack'[i] = stack[i] /\ values'[i] = values[i]
        BY <1>1, <3>1
      <3>3. Placed(g, values[i], stack[i].sym, stack[i].from, stack[i].to)
        BY <1>7, <3>1
      <3>4. Placed(h, values[i], stack[i].sym, stack[i].from, stack[i].to)
        BY <1>3, <1>4, <1>6, <3>1, <3>3, PlacedGrows
      <3> QED
        BY <3>2, <3>4
    <2> QED
      BY <2>1, <2>2
  <1> QED
    BY <1>1, <1>8, <1>s DEF StackPlaced

-----------------------------------------------------------------------------
(* The invariant of the tree is kept. *)

\* No two lists of the stack end in the same cell after a reduction.
LEMMA BuildListsApart ==
  ASSUME TreeInv, BInv', phase = "reduce", NEW r \in Takeable, Build(r), input' = input, literals' = literals
  PROVE  ListsApart'
  <1> DEFINE m == Depth - Len(r.rhs) + 1
             g == Store
             h == Store'
             L == Len(cells)
             q == Stand(r)
  <1>1. /\ m \in 1..Depth /\ Depth' = m
        /\ \A i \in 1..(m - 1) : stack'[i] = stack[i] /\ values'[i] = values[i]
        /\ stack'[m] = Built(r) /\ stack'[m].sym = r.lhs
        /\ values'[m] = Answer(r)
    BY BuildEffect DEF TreeInv
  <1>2. Depth \in Nat /\ m - 1 = Depth - Len(r.rhs)
    <2>1. Len(r.rhs) \in Nat /\ Depth \in Nat
      BY TakenRule, Heap DEF TreeInv, BInv, IInv
    <2> QED
      BY <2>1
  <1>3. Grows(g, h, q, r.at \in Appending)
    BY StoreGrows
  <1>c. g.cells = cells /\ h.cells = cells'
    BY DEF Store
  <1>4. \A i \in 1..(m - 1) : stack[i].sym \in ListKinds => ~(r.at \in Appending /\ Last(g, values[i]) = q)
    BY <1>2, BuildKeepsBelow
  <1>5. /\ \A i \in 1..Depth : stack[i].sym \in ListKinds => values[i] \in 1..L
        /\ \A p \in 1..L : Last(g, p) \in 1..L
        /\ L \in Nat
    BY ListCells
  <1>6. r.lhs \in ListKinds => Last(h, Answer(r)) = L + 1
    <2>1. CASE r.lhs \in ListKinds /\ r.at \in Appending
      BY <2>1, StandsAtEnd DEF Answer
    <2>2. CASE r.lhs \in ListKinds /\ r.at \notin Appending
      <3>1. Answer(r) = L + 1 /\ r.at \in Starting
        BY <2>2, ListRules DEF Answer, NewCell, Takeable, ListRule
      <3>2. L + 1 \in DOMAIN cells'
        <4>1. ListAt(h, Len(tree') + 1, r.lhs, L + 1, From(0), To(0))
          BY <2>2, <3>1, BuildStarted
        <4> QED
          BY <1>c, <4>1 DEF ListAt
      <3> QED
        BY <1>3, <1>c, <3>1, <3>2 DEF Grows
    <2> QED
      BY <2>1, <2>2
  <1>7. \A p \in 1..L : Last(h, p) = IF r.at \in Appending /\ Last(g, p) = q THEN L + 1 ELSE Last(g, p)
    BY <1>3, <1>c DEF Grows
  <1>8. \A i, j \in 1..Depth : i # j /\ stack[i].sym \in ListKinds /\ stack[j].sym \in ListKinds =>
          Last(g, values[i]) # Last(g, values[j])
    BY DEF TreeInv, ListsApart
  <1>s. h = Store'
    OBVIOUS
  <1> HIDE DEF m, g, h, q, L
  <1>9. ASSUME NEW i \in 1..(m - 1), stack'[i].sym \in ListKinds
        PROVE  /\ i \in 1..Depth /\ stack[i].sym \in ListKinds
               /\ Last(h, values'[i]) = Last(g, values[i]) /\ Last(g, values[i]) \in 1..L
    <2>1. i \in 1..Depth /\ stack'[i] = stack[i] /\ values'[i] = values[i]
      BY <1>1, <1>2
    <2>2. values[i] \in 1..L
      BY <1>5, <1>9, <2>1
    <2> QED
      BY <1>4, <1>5, <1>7, <1>9, <2>1, <2>2
  <1>10. ASSUME NEW i \in 1..m, NEW j \in 1..m, i # j, stack'[i].sym \in ListKinds, stack'[j].sym \in ListKinds
         PROVE  Last(h, values'[i]) # Last(h, values'[j])
    <2>0. L + 1 \notin 1..L /\ \A k \in 1..m : k # m => k \in 1..(m - 1)
      BY <1>1, <1>2, <1>5
    <2>1. CASE i # m /\ j # m
      <3>1. i \in 1..(m - 1) /\ j \in 1..(m - 1)
        BY <2>0, <2>1
      <3> QED
        BY <1>8, <1>9, <1>10, <3>1
    <2>2. CASE i = m
      <3>1. Last(h, values'[i]) = L + 1
        BY <1>1, <1>6, <1>10, <2>2
      <3>2. j \in 1..(m - 1)
        BY <1>10, <2>0, <2>2
      <3> QED
        BY <1>9, <1>10, <2>0, <3>1, <3>2
    <2>3. CASE j = m
      <3>1. Last(h, values'[j]) = L + 1
        BY <1>1, <1>6, <1>10, <2>3
      <3>2. i \in 1..(m - 1)
        BY <1>10, <2>0, <2>3
      <3> QED
        BY <1>9, <1>10, <2>0, <3>1, <3>2
    <2> QED
      BY <2>1, <2>2, <2>3
  <1> QED
    BY <1>1, <1>10, <1>s DEF ListsApart

\* A reduction keeps the invariant.
LEMMA BuildTreeInv ==
  ASSUME TreeInv, BInv', phase = "reduce", NEW r \in Takeable, Build(r),
         UNCHANGED <<input, pos, lookahead, phase, literals>>
  PROVE  TreeInv'
  <1>1. input' = input /\ literals' = literals
    OBVIOUS
  <1>2. TreeFormed' /\ CellsFormed' /\ StackPlaced' /\ ListsApart'
    BY <1>1, BuildTreeFormed, BuildCellsFormed, BuildStackPlaced, BuildListsApart
  <1>3. curr' = NULL
    BY DEF Build
  <1>4. CurrInList' /\ (curr' # NULL => phase' = "reduce")
    BY <1>3 DEF CurrInList
  <1>5. LookaheadIsNext'
    BY DEF TreeInv, LookaheadIsNext, TypeOf
  <1>6. (literals \in Spellings(input))'
    BY <1>1 DEF TreeInv
  <1> QED
    BY <1>2, <1>4, <1>5, <1>6 DEF TreeInv

\* The other steps of the reduction leave the store and the stack alone.
LEMMA SameStore ==
  ASSUME UNCHANGED <<input, literals, stack, values, tree, cells>>
  PROVE  /\ Depth' = Depth /\ Lists' = Lists /\ Store' = Store
         /\ TreeFormed' = TreeFormed /\ CellsFormed' = CellsFormed
         /\ StackPlaced' = StackPlaced /\ ListsApart' = ListsApart
  <1>1. Depth' = Depth
    BY DEF Depth
  <1>2. Lists' = Lists
    BY <1>1 DEF Lists
  <1>3. Store' = Store
    BY <1>2 DEF Store
  <1>4. TreeFormed' = TreeFormed /\ CellsFormed' = CellsFormed
    BY <1>3 DEF TreeFormed, CellsFormed
  <1>5. StackPlaced' = StackPlaced /\ ListsApart' = ListsApart
    BY <1>1, <1>3 DEF StackPlaced, ListsApart
  <1> QED
    BY <1>1, <1>2, <1>3, <1>4, <1>5

LEMMA SameTakeable ==
  ASSUME UNCHANGED <<stack, lookahead>>
  PROVE  Takeable' = Takeable /\ \A n : Value(n)' = values'[Depth - n]
  BY DEF Takeable, Matches, Peek, Depth, Value

\* A turn of the loop of an append keeps the invariant.
LEMMA WalkTreeInv ==
  ASSUME TreeInv, BInv', phase = "reduce", NEW r \in Takeable, Walk(r) \/ WalkAstray(r),
         UNCHANGED <<input, pos, lookahead, phase, literals>>
  PROVE  TreeInv'
  <1>1. UNCHANGED <<input, literals, stack, values, tree, cells>>
    BY DEF Walk, WalkAstray
  <1>2. TreeFormed' /\ CellsFormed' /\ StackPlaced' /\ ListsApart' /\ Store' = Store
    BY <1>1, SameStore DEF TreeInv
  <1>3. Takeable' = Takeable /\ \A n : Value(n)' = Value(n)
    BY <1>1, SameTakeable DEF Value
  <1>4. LookaheadIsNext'
    BY <1>1 DEF TreeInv, LookaheadIsNext, TypeOf
  <1>5. CurrInList'
    <2>1. CASE WalkAstray(r)
      <3>1. curr' = curr
        BY <2>1 DEF WalkAstray
      <3> QED
        BY <1>2, <1>3, <3>1 DEF TreeInv, CurrInList
    <2>2. CASE Walk(r)
      <3>1. r.at \in Appending /\ curr' = After(r) /\ After(r) \notin {NULL, Unwritten}
        BY <2>2 DEF Walk
      <3>2. Stand(r) \in 1..Len(cells) /\ After(r) \in 1..Len(cells)
        BY <3>1, StandsInList DEF TreeInv
      <3>3. LastOf(cells)[Stand(r)] = LastOf(cells)[After(r)]
        BY <3>2, CellsForward, LastDefined DEF TreeInv, After
      <3>4. LastOf(cells)[Stand(r)] = LastOf(cells)[Value(Len(r.rhs) - 1)]
        BY <3>1, StandsLast
      <3>5. Last(Store, curr') = Last(Store, Value(Len(r.rhs) - 1))
        BY <3>1, <3>3, <3>4 DEF Last, Store
      <3>6. Last(Store', curr') = Last(Store', Value(Len(r.rhs) - 1)')
        BY <1>2, <1>3, <3>5
      <3> QED
        BY <1>3, <3>1, <3>6 DEF CurrInList
    <2> QED
      BY <2>1, <2>2
  <1>6. (literals \in Spellings(input))'
    BY <1>1 DEF TreeInv
  <1> QED
    BY <1>2, <1>4, <1>5, <1>6 DEF TreeInv

\* Only line 261 reads what it did not ask for.
LEMMA SureRules == \A r \in Rules \ ParenthesesRules : r.sure
  <1>1. \A r \in NumberRules : r.sure
    BY DEF NumberRules, Rule, Under, Before, NotBefore
  <1>2. \A r \in HeaderRules : r.sure
    BY DEF HeaderRules, Rule, Under, Before, NotBefore
  <1>3. \A r \in TypeNameRules : r.sure
    BY DEF TypeNameRules, Rule, Under, Before, NotBefore
  <1>4. \A r \in ArrayTypeRules : r.sure
    BY DEF ArrayTypeRules, Rule, Under, Before, NotBefore
  <1>5. \A r \in PointerTypeRules : r.sure
    BY DEF PointerTypeRules, Rule, Under, Before, NotBefore
  <1>6. \A r \in TypedIdRules : r.sure
    BY DEF TypedIdRules, Rule, Under, Before, NotBefore
  <1>7. \A r \in FactorRules : r.sure
    BY DEF FactorRules, Rule, Under, Before, NotBefore
  <1>8. \A r \in TermRules : r.sure
    BY DEF TermRules, Rule, Under, Before, NotBefore
  <1>9. \A r \in MathRules : r.sure
    BY DEF MathRules, Rule, Under, Before, NotBefore
  <1>10. \A r \in RelationalRules : r.sure
    BY DEF RelationalRules, Rule, Under, Before, NotBefore
  <1>11. \A r \in ConjRules : r.sure
    BY DEF ConjRules, Rule, Under, Before, NotBefore
  <1>12. \A r \in DisjRules : r.sure
    BY DEF DisjRules, Rule, Under, Before, NotBefore
  <1>13. \A r \in ExpressionRules : r.sure
    BY DEF ExpressionRules, Rule, Under, Before, NotBefore
  <1>14. \A r \in ExpressionListRules : r.sure
    BY DEF ExpressionListRules, Rule, Under, Before, NotBefore
  <1>15. \A r \in DerefRules : r.sure
    BY DEF DerefRules, Rule, Under, Before, NotBefore
  <1>16. \A r \in CallRules : r.sure
    BY DEF CallRules, Rule, Under, Before, NotBefore
  <1>17. \A r \in FuncHeaderRules : r.sure
    BY DEF FuncHeaderRules, Rule, Under, Before, NotBefore
  <1>18. \A r \in IfRules : r.sure
    BY DEF IfRules, Rule, Under, Before, NotBefore
  <1>19. \A r \in AssignmentRules : r.sure
    BY DEF AssignmentRules, Rule, Under, Before, NotBefore
  <1>20. \A r \in StatementListRules : r.sure
    BY DEF StatementListRules, Rule, Under, Before, NotBefore
  <1>21. \A r \in StatementRules : r.sure
    BY DEF StatementRules, Rule, Under, Before, NotBefore
  <1>22. \A r \in BlockRules : r.sure
    BY DEF BlockRules, Rule, Under, Before, NotBefore
  <1>23. \A r \in FunctionRules : r.sure
    BY DEF FunctionRules, Rule, Under, Before, NotBefore
  <1> QED
    BY <1>1, <1>2, <1>3, <1>4, <1>5, <1>6, <1>7, <1>8, <1>9, <1>10, <1>11, <1>12, <1>13, <1>14, <1>15, <1>16, <1>17, <1>18, <1>19, <1>20, <1>21, <1>22, <1>23 DEF Rules

LEMMA AppendSure == \A r \in Rules : r.at \in Appending => r.sure
  <1>1. ASSUME NEW r \in ParenthesesRules PROVE ParenthesesRule(r)
    <2>1. Parentheses = [at |-> 261, lhs |-> "FACTOR", rhs |-> <<{"LP"}, {"EXPRESSION"}, {"RP"}>>, pops |-> 3, loc |-> 2,
                         under |-> Symbols \cup {Bottom}, la |-> Lookaheads, sure |-> TRUE]
      BY DEF Parentheses, Rule, S
    <2>2. CASE r = Under(Tokens \ IdTokens, Parentheses)
      BY <2>1, <2>2 DEF Under, ParenthesesRule, Is
    <2>3. CASE r = [Under(NonTerminals, Parentheses) EXCEPT !.sure = FALSE]
      BY <2>1, <2>3 DEF Under, ParenthesesRule, Is
    <2> QED
      BY <2>2, <2>3 DEF ParenthesesRules
  <1>2. \A r : ParenthesesRule(r) => r.at \notin Appending
    BY DEF ParenthesesRule, Is, Appending
  <1> QED
    BY <1>1, <1>2, SureRules

LEMMA BuildRestTreeInv ==
  ASSUME TreeInv, BInv', BuildRest \/ UNCHANGED buildVars
  PROVE  TreeInv'
  <1>1. UNCHANGED <<input, pos, lookahead, stack, literals, values, tree, cells, curr>>
    BY DEF BuildRest, Overflow, NothingToReduce, Finish, buildVars
  <1>2. TreeFormed' /\ CellsFormed' /\ StackPlaced' /\ ListsApart' /\ Store' = Store
    BY <1>1, SameStore DEF TreeInv
  <1>3. CurrInList'
    BY <1>1, <1>2, SameTakeable DEF TreeInv, CurrInList, Value, Depth
  <1>4. curr' # NULL => phase' = "reduce"
    <2>1. CASE phase = "next"
      BY <1>1, <2>1 DEF TreeInv
    <2>2. CASE NothingToReduce
      <3>1. \A r \in Takeable : r.at \notin Appending
        BY <2>2, AppendSure DEF NothingToReduce, TakesNothing, Takeable
      <3>2. curr = NULL
        BY <3>1 DEF TreeInv, CurrInList
      <3> QED
        BY <1>1, <3>2
    <2>3. CASE UNCHANGED buildVars
      BY <2>3 DEF buildVars, TreeInv
    <2> QED
      BY <2>1, <2>2, <2>3 DEF BuildRest, Overflow, Finish
  <1>5. LookaheadIsNext'
    BY <1>1 DEF TreeInv, LookaheadIsNext, TypeOf, BuildRest, Overflow, NothingToReduce, Finish, buildVars
  <1>6. (literals \in Spellings(input))'
    BY <1>1 DEF TreeInv
  <1> QED
    BY <1>2, <1>3, <1>4, <1>5, <1>6 DEF TreeInv

\* A token is pushed.
LEMMA ShiftTreeInv ==
  ASSUME TreeInv, BInv', BuildShift
  PROVE  TreeInv'
  <1> DEFINE d == Depth
             new == Node(input[pos + 1], pos + 1, pos + 1, pos + 1)
  <1>1. /\ phase = "next" /\ phase' = "reduce" /\ pos < Len(input) /\ pos' = pos + 1
        /\ lookahead' = TypeOf(pos + 2)
        /\ stack' = Append(stack, new) /\ values' = Append(values, pos + 1)
        /\ UNCHANGED <<input, literals, tree, cells, curr>>
    BY DEF BuildShift, Shift, Push
  <1>2. /\ input \in Seq(Tokens) /\ pos \in Nat /\ pos + 1 \in 1..Len(input)
        /\ stack \in Seq(Nodes) /\ d = Len(stack) /\ d \in Nat
        /\ Len(values) = d /\ \E V : values \in Seq(V)
    <2>1. TypeOK /\ Len(values) = Depth /\ \E V : values \in Seq(V)
      BY Heap DEF TreeInv, BInv, IInv
    <2> QED
      BY <1>1, <2>1 DEF TypeOK, Depth
  <1>3. /\ Depth' = d + 1
        /\ \A i \in 1..d : stack'[i] = stack[i] /\ values'[i] = values[i]
        /\ stack'[d + 1] = new /\ values'[d + 1] = pos + 1
    <2>1. stack' \in Seq(Nodes \cup {new}) /\ stack \in Seq(Nodes \cup {new})
      BY <1>1, <1>2
    <2>2. Len(stack') = d + 1
      BY <1>1, <1>2, <2>1
    <2>3. PICK V : values \in Seq(V)
      BY <1>2
    <2>4. values \in Seq(V \cup {pos + 1})
      BY <2>3
    <2> QED
      BY <1>1, <1>2, <2>1, <2>2, <2>4 DEF Depth
  <1>4. new.sym = input[pos + 1] /\ new.from = pos + 1 /\ new.to = pos + 1 /\ new.sym \in Tokens
        /\ new.sym \notin NonTerminals
    BY <1>2, Distinct DEF Node
  <1> HIDE DEF d, new
  <1>5. Lists' = Lists
    <2>1. new.sym \notin ListKinds
      BY <1>4, Distinct
    <2>2. \A i \in 1..(d + 1) : i \in 1..d \/ i = d + 1
      BY <1>2
    <2>3. \A i \in 1..d : i \in 1..(d + 1)
      BY <1>2
    <2>4. \A i \in 1..Depth' : stack'[i].sym \in ListKinds => i \in 1..d /\ stack[i].sym \in ListKinds /\ values'[i] = values[i]
      BY <1>3, <2>1, <2>2
    <2>5. \A l \in Lists' : l \in Lists
      BY <2>4 DEF Lists, d
    <2>6. \A i \in 1..Depth : stack[i].sym \in ListKinds => i \in 1..Depth' /\ stack'[i].sym \in ListKinds /\ values[i] = values'[i]
      BY <1>3, <2>3 DEF d
    <2>7. \A l \in Lists : l \in Lists'
      BY <2>6 DEF Lists
    <2> QED
      BY <2>5, <2>7
  <1>6. Store' = Store
    BY <1>1, <1>5 DEF Store
  <1>7. TreeFormed' /\ CellsFormed'
    BY <1>1, <1>6 DEF TreeInv, TreeFormed, CellsFormed
  <1>8. StackPlaced'
    <2>1. ASSUME NEW i \in 1..(d + 1) PROVE Placed(Store, values'[i], stack'[i].sym, stack'[i].from, stack'[i].to)
      <3>1. CASE i \in 1..d
        BY <1>3, <3>1 DEF TreeInv, StackPlaced, d
      <3>2. CASE i = d + 1
        <4>1. Kind(Store, pos + 1) = input[pos + 1]
          BY <1>2 DEF Kind, Store
        <4> QED
          BY <1>3, <1>4, <3>2, <4>1, Distinct DEF Placed
      <3> QED
        BY <1>2, <2>1, <3>1, <3>2
    <2> QED
      BY <1>3, <1>6, <2>1 DEF StackPlaced
  <1>9. ListsApart'
    <2>1. ASSUME NEW i \in 1..(d + 1), stack'[i].sym \in ListKinds PROVE i \in 1..d /\ stack'[i] = stack[i] /\ values'[i] = values[i]
      <3>1. new.sym \notin ListKinds
        BY <1>4, Distinct
      <3>2. i # d + 1
        BY <1>3, <2>1, <3>1
      <3>3. i \in 1..d
        BY <1>2, <2>1, <3>2
      <3> QED
        BY <1>3, <3>3
    <2> QED
      BY <1>3, <1>6, <2>1 DEF ListsApart, TreeInv, d
  <1>10. curr' = NULL
    BY <1>1 DEF TreeInv
  <1>11. LookaheadIsNext'
    <2>1. (pos + 1) + 1 = pos + 2
      BY <1>2
    <2> QED
      BY <1>1, <2>1 DEF LookaheadIsNext, TypeOf
  <1>12. (literals \in Spellings(input))'
    BY <1>1 DEF TreeInv
  <1> QED
    BY <1>7, <1>8, <1>9, <1>10, <1>11, <1>12 DEF TreeInv, CurrInList

\* Every step of the parser keeps the tree as it is described.
LEMMA StepTreeInv ==
  ASSUME TreeInv, BuildStep \/ UNCHANGED buildVars
  PROVE  TreeInv'
  <1>1. BInv'
    BY BuildStepBInv DEF TreeInv
  <1>2. CASE BuildShift
    BY <1>1, <1>2, ShiftTreeInv
  <1>3. CASE BuildReduce
    <2>1. phase = "reduce" /\ UNCHANGED <<input, pos, lookahead, phase, literals>>
      BY <1>3 DEF BuildReduce
    <2>2. PICK r \in Takeable : Walk(r) \/ WalkAstray(r) \/ Build(r)
      BY <1>3 DEF BuildReduce
    <2>3. CASE Build(r)
      BY <1>1, <2>1, <2>3, BuildTreeInv
    <2>4. CASE Walk(r) \/ WalkAstray(r)
      BY <1>1, <2>1, <2>4, WalkTreeInv
    <2> QED
      BY <2>2, <2>3, <2>4
  <1>4. CASE BuildRest \/ UNCHANGED buildVars
    BY <1>1, <1>4, BuildRestTreeInv
  <1> QED
    BY <1>2, <1>3, <1>4 DEF BuildStep

LEMMA InitTreeInv ==
  ASSUME BuildInit
  PROVE  TreeInv
  <1>1. BInv
    BY BuildInitBInv
  <1>2. stack = <<>> /\ values = <<>> /\ tree = <<>> /\ cells = <<>> /\ curr = NULL /\ phase = "next"
    BY DEF BuildInit, Init
  <1>3. Depth = 0 /\ Len(tree) = 0 /\ Len(cells) = 0
    BY <1>2 DEF Depth
  <1>4. 1..0 = {}
    OBVIOUS
  <1>5. DOMAIN tree = {} /\ DOMAIN cells = {} /\ 1..Depth = {}
    BY <1>1, <1>3, <1>4, Heap
  <1>6. literals \in Spellings(input)
    BY DEF BuildInit
  <1> QED
    BY <1>1, <1>2, <1>5, <1>6 DEF TreeInv, TreeFormed, CellsFormed, StackPlaced, ListsApart, CurrInList, LookaheadIsNext

\* What holds of the tree holds as long as lalr.c builds it: no reduction takes
\* a part from another node or list, and no append reaches into one that is
\* already part of a node.
LEMMA TreeInvariance == BuildSpec => []TreeInv
  <1>1. TreeInv /\ [BuildStep \/ BuildTerminated]_buildVars => TreeInv'
    BY StepTreeInv DEF BuildTerminated
  <1> QED
    BY <1>1, InitTreeInv, PTL DEF BuildSpec

\* In every input, right or wrong, each node that lalr_reduce has built is made
\* of the parts that its tokens are made of, and each list of the elements of its
\* stretch of the input; no append reaches into a list that is part of a node.
THEOREM TreesAreFormed == BuildSpec => []TreeWellFormed
  <1>1. TreeInv => TreeWellFormed
    BY DEF TreeInv, TreeWellFormed
  <1> QED
    BY <1>1, TreeInvariance, PTL

=============================================================================
