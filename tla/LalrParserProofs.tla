-------------------------- MODULE LalrParserProofs --------------------------
(***************************************************************************)
(* Proofs about LalrParser, for every set of inputs and every stack size.  *)
(*                                                                         *)
(* What the parser needs of its rules is stated once, as RulesSound, and   *)
(* proved from the table of LalrRules group by group; the rest of the      *)
(* module uses nothing else of the table.                                  *)
(***************************************************************************)
EXTENDS LalrParser, TLAPS

-----------------------------------------------------------------------------
(* The rules. *)

\* The kinds of node whose location may never have been written.
Unlocated == {"TYPED_ID_LIST", "FUNC_HEADER"}

\* The value returned is the length of the handle, and the location is that
\* of a part of the handle: one that has a location, unless the node may go
\* without.
Handle(r, k) ==
  /\ r.pops = k
  /\ Len(r.rhs) = k
  /\ \/ r.loc = Unset /\ r.lhs \in Unlocated
     \/ /\ r.loc \in 0..(k - 1)
        /\ \/ r.rhs[k - r.loc] \cap Unlocated = {}
           \/ r.lhs \in Unlocated

Sound(r) ==
  /\ Handle(r, 1) \/ Handle(r, 2) \/ Handle(r, 3) \/ Handle(r, 4) \/ Handle(r, 5)
  /\ r.lhs \in NonTerminals

\* A rule of one symbol leads to a higher rank.
Rises(r) == Len(r.rhs) = 1 => \A sym \in r.rhs[1] : Rank(sym) < Rank(r.lhs)

\* The lengths of the tuples that occur as right-hand sides.
LEMMA Lengths ==
  /\ \A a : Len(<<a>>) = 1
  /\ \A a, b : Len(<<a, b>>) = 2
  /\ \A a, b, c : Len(<<a, b, c>>) = 3
  /\ \A a, b, c, d : Len(<<a, b, c, d>>) = 4
  /\ \A a, b, c, d, e : Len(<<a, b, c, d, e>>) = 5
  OBVIOUS

\* The ranks, one by one.
LEMMA RankValues ==
  /\ \A sym \in Tokens : Rank(sym) = 0
  /\ \A sym \in {"NUMBER", "FUNC_CALL", "DEREF", "TYPED_ID", "NT_IF", "ASSIGNMENT"} : Rank(sym) = 1
  /\ \A sym \in {"FACTOR", "TYPED_ID_LIST"} : Rank(sym) = 2
  /\ Rank("TERM") = 3
  /\ Rank("MATH_EXPR") = 4
  /\ Rank("RELATE") = 5
  /\ Rank("LOGIC_CONJ") = 6
  /\ Rank("LOGIC_DISJ") = 7
  /\ Rank("EXPRESSION") = 8
  /\ \A sym \in {"EXPRESSION_LIST", "STATEMENT"} : Rank(sym) = 9
  /\ Rank("STATEMENT_LIST") = 10
  /\ Rank("VAR_TYPE") = 11
  BY DEF Rank, Tokens, IdTokens, Relops, Mulops, Addops

LEMMA NumberSound == \A r \in NumberRules : Sound(r) /\ Rises(r)
  <1>1. \A r \in NumberRules : Sound(r)
    BY Lengths DEF NumberRules, Sound, Handle, Rule, NonTerminals, Unlocated, Unset, S
  <1>2. \A r \in NumberRules : Rises(r)
    BY Lengths, RankValues DEF NumberRules, Rises, Rule, S, Tokens
  <1> QED
    BY <1>1, <1>2

LEMMA HeaderSound == \A r \in HeaderRules : Sound(r) /\ Rises(r)
  <1>1. \A r \in HeaderRules : Sound(r)
    BY Lengths DEF HeaderRules, Sound, Handle, Rule, Tokens, IdTokens, Relops, Mulops, Addops, NonTerminals, Unlocated, Unset, S
  <1>2. \A r \in HeaderRules : Rises(r)
    BY Lengths, RankValues DEF HeaderRules, Rises, Rule, Tokens, IdTokens, Relops, Mulops, Addops, S
  <1> QED
    BY <1>1, <1>2

LEMMA TypeNameSound == \A r \in TypeNameRules : Sound(r) /\ Rises(r)
  <1> SUFFICES ASSUME NEW r \in TypeNameRules PROVE Sound(r) /\ Rises(r)
    OBVIOUS
  <1>1. CASE r.rhs = <<Id>> /\ r.pops = 1 /\ r.loc = 0 /\ r.lhs = "VAR_TYPE"
    BY <1>1, Lengths, RankValues DEF Sound, Rises, Handle, NonTerminals, Unlocated, Id, IdTokens, Tokens
  <1>2. CASE r.rhs = <<S("UNDERSCORE")>> /\ r.pops = 1 /\ r.loc = 0 /\ r.lhs = "VAR_TYPE"
    BY <1>2, Lengths, RankValues DEF Sound, Rises, Handle, NonTerminals, Unlocated, S, Tokens
  <1>3. CASE r = Under(S("COLON"), NotBefore(S("LP"), Rule(84, "VAR_TYPE", <<Id>>, 1, 0)))
    BY <1>1, <1>3 DEF Rule, Under, NotBefore
  <1>4. CASE r = Under(S("ARROW"), NotBefore(S("LP"), Rule(94, "VAR_TYPE", <<Id>>, 1, 0)))
    BY <1>1, <1>4 DEF Rule, Under, NotBefore
  <1>5. CASE r = Before(S("ARROW"), Rule(105, "VAR_TYPE", <<S("UNDERSCORE")>>, 1, 0))
    BY <1>2, <1>5 DEF Rule, Before
  <1> QED
    BY <1>3, <1>4, <1>5 DEF TypeNameRules

LEMMA ArrayTypeSound == \A r \in ArrayTypeRules : Sound(r) /\ Rises(r)
  <1>1. \A r \in ArrayTypeRules : Sound(r)
    BY Lengths DEF ArrayTypeRules, Sound, Handle, Rule, Id, IdTokens, NonTerminals, Unlocated, Unset, S
  <1>2. \A r \in ArrayTypeRules : Rises(r)
    BY Lengths, RankValues DEF ArrayTypeRules, Rises, Rule, Id, IdTokens, S, Tokens
  <1> QED
    BY <1>1, <1>2

LEMMA PointerTypeSound == \A r \in PointerTypeRules : Sound(r) /\ Rises(r)
  <1>1. \A r \in PointerTypeRules : Sound(r)
    BY Lengths DEF PointerTypeRules, Sound, Handle, Rule, NonTerminals, Unlocated, Unset, S
  <1>2. \A r \in PointerTypeRules : Rises(r)
    BY Lengths, RankValues DEF PointerTypeRules, Rises, Rule, S, Tokens
  <1> QED
    BY <1>1, <1>2

LEMMA TypedIdSound == \A r \in TypedIdRules : Sound(r) /\ Rises(r)
  <1>1. \A r \in TypedIdRules : Sound(r)
    BY Lengths DEF TypedIdRules, Sound, Handle, Rule, NotBefore, Before, Id, IdTokens, NonTerminals, Unlocated, Unset, S
  <1>2. \A r \in TypedIdRules : Rises(r)
    BY Lengths, RankValues DEF TypedIdRules, Rises, Rule, NotBefore, Before, Id, IdTokens, S, Tokens
  <1> QED
    BY <1>1, <1>2

LEMMA FactorSound == \A r \in FactorRules : Sound(r) /\ Rises(r)
  <1> SUFFICES ASSUME NEW r \in FactorRules PROVE Sound(r) /\ Rises(r)
    OBVIOUS
  <1> DEFINE parts == {"ID", "NUMBER", "STRING_LIT", "FUNC_CALL", "DEREF"}
  <1>1. /\ \E p \in parts : r.rhs = <<S(p)>>
        /\ r.pops = 1 /\ r.loc = 0 /\ r.lhs = "FACTOR"
    BY DEF FactorRules, Rule, NotBefore
  <1>2. \A p \in parts : p \notin Unlocated /\ Rank(p) < 2
    BY RankValues DEF Unlocated, Tokens, IdTokens
  <1>3. Rank("FACTOR") = 2
    BY RankValues
  <1> QED
    BY <1>1, <1>2, <1>3, Lengths DEF Sound, Rises, Handle, NonTerminals, S

LEMMA ParenthesesSound == \A r \in ParenthesesRules : Sound(r) /\ Rises(r)
  <1> SUFFICES ASSUME NEW r \in ParenthesesRules PROVE Sound(r) /\ Rises(r)
    OBVIOUS
  <1>1. /\ r.rhs = <<S("LP"), S("EXPRESSION"), S("RP")>>
        /\ r.pops = 3 /\ r.loc = 2 /\ r.lhs = "FACTOR"
    <2>1. CASE r = Under(Tokens \ IdTokens, Parentheses)
      BY <2>1 DEF Parentheses, Rule, Under
    <2>2. CASE r = [Under(NonTerminals, Parentheses) EXCEPT !.sure = FALSE]
      BY <2>2 DEF Parentheses, Rule, Under
    <2> QED
      BY <2>1, <2>2 DEF ParenthesesRules
  <1> QED
    BY <1>1, Lengths DEF Sound, Rises, Handle, NonTerminals, Unlocated, S

LEMMA TermSound == \A r \in TermRules : Sound(r) /\ Rises(r)
  <1>1. \A r \in TermRules : Sound(r)
    BY Lengths DEF TermRules, Sound, Handle, Rule, Mulops, NonTerminals, Unlocated, Unset, S
  <1>2. \A r \in TermRules : Rises(r)
    BY Lengths, RankValues DEF TermRules, Rises, Rule, Mulops, S, Tokens
  <1> QED
    BY <1>1, <1>2

LEMMA MathSound == \A r \in MathRules : Sound(r) /\ Rises(r)
  <1>1. \A r \in MathRules : Sound(r)
    BY Lengths DEF MathRules, Sound, Handle, Rule, NotBefore, Addops, NonTerminals, Unlocated, Unset, S
  <1>2. \A r \in MathRules : Rises(r)
    BY Lengths, RankValues DEF MathRules, Rises, Rule, NotBefore, Addops, S, Tokens
  <1> QED
    BY <1>1, <1>2

LEMMA RelationalSound == \A r \in RelationalRules : Sound(r) /\ Rises(r)
  <1>1. \A r \in RelationalRules : Sound(r)
    BY Lengths DEF RelationalRules, Sound, Handle, Rule, NotBefore, Relops, NonTerminals, Unlocated, Unset, S
  <1>2. \A r \in RelationalRules : Rises(r)
    BY Lengths, RankValues DEF RelationalRules, Rises, Rule, NotBefore, Relops, S, Tokens
  <1> QED
    BY <1>1, <1>2

LEMMA ConjSound == \A r \in ConjRules : Sound(r) /\ Rises(r)
  <1>1. \A r \in ConjRules : Sound(r)
    BY Lengths DEF ConjRules, Sound, Handle, Rule, NotBefore, NonTerminals, Unlocated, Unset, S
  <1>2. \A r \in ConjRules : Rises(r)
    BY Lengths, RankValues DEF ConjRules, Rises, Rule, NotBefore, S, Tokens
  <1> QED
    BY <1>1, <1>2

LEMMA DisjSound == \A r \in DisjRules : Sound(r) /\ Rises(r)
  <1>1. \A r \in DisjRules : Sound(r)
    BY Lengths DEF DisjRules, Sound, Handle, Rule, NotBefore, NonTerminals, Unlocated, Unset, S
  <1>2. \A r \in DisjRules : Rises(r)
    BY Lengths, RankValues DEF DisjRules, Rises, Rule, NotBefore, S, Tokens
  <1> QED
    BY <1>1, <1>2

LEMMA ExpressionSound == \A r \in ExpressionRules : Sound(r) /\ Rises(r)
  <1>1. \A r \in ExpressionRules : Sound(r)
    BY Lengths DEF ExpressionRules, Sound, Handle, Rule, NotBefore, NonTerminals, Unlocated, Unset, S
  <1>2. \A r \in ExpressionRules : Rises(r)
    BY Lengths, RankValues DEF ExpressionRules, Rises, Rule, NotBefore, S, Tokens
  <1> QED
    BY <1>1, <1>2

LEMMA ExpressionListSound == \A r \in ExpressionListRules : Sound(r) /\ Rises(r)
  <1>1. \A r \in ExpressionListRules : Sound(r)
    BY Lengths DEF ExpressionListRules, Sound, Handle, Rule, Before, NonTerminals, Unlocated, Unset, S
  <1>2. \A r \in ExpressionListRules : Rises(r)
    BY Lengths, RankValues DEF ExpressionListRules, Rises, Rule, Before, S, Tokens
  <1> QED
    BY <1>1, <1>2

LEMMA DerefSound == \A r \in DerefRules : Sound(r) /\ Rises(r)
  <1>1. \A r \in DerefRules : Sound(r)
    BY Lengths DEF DerefRules, Sound, Handle, Rule, Id, IdTokens, NonTerminals, Unlocated, Unset, S
  <1>2. \A r \in DerefRules : Rises(r)
    BY Lengths, RankValues DEF DerefRules, Rises, Rule, Id, IdTokens, S, Tokens
  <1> QED
    BY <1>1, <1>2

LEMMA CallSound == \A r \in CallRules : Sound(r) /\ Rises(r)
  <1>1. \A r \in CallRules : Sound(r)
    BY Lengths DEF CallRules, Sound, Handle, Rule, Id, IdTokens, NonTerminals, Unlocated, Unset, S
  <1>2. \A r \in CallRules : Rises(r)
    BY Lengths, RankValues DEF CallRules, Rises, Rule, Id, IdTokens, S, Tokens
  <1> QED
    BY <1>1, <1>2

LEMMA FuncHeaderSound == \A r \in FuncHeaderRules : Sound(r) /\ Rises(r)
  <1>1. \A r \in FuncHeaderRules : Sound(r)
    BY Lengths DEF FuncHeaderRules, Sound, Handle, Rule, NotBefore, NonTerminals, Unlocated, Unset, S
  <1>2. \A r \in FuncHeaderRules : Rises(r)
    BY Lengths, RankValues DEF FuncHeaderRules, Rises, Rule, NotBefore, S, Tokens
  <1> QED
    BY <1>1, <1>2

LEMMA IfSound == \A r \in IfRules : Sound(r) /\ Rises(r)
  <1>1. \A r \in IfRules : Sound(r)
    BY Lengths DEF IfRules, Sound, Handle, Rule, NonTerminals, Unlocated, Unset, S
  <1>2. \A r \in IfRules : Rises(r)
    BY Lengths, RankValues DEF IfRules, Rises, Rule, S, Tokens
  <1> QED
    BY <1>1, <1>2

LEMMA AssignmentSound == \A r \in AssignmentRules : Sound(r) /\ Rises(r)
  <1>1. \A r \in AssignmentRules : Sound(r)
    BY Lengths DEF AssignmentRules, Sound, Handle, Rule, Id, IdTokens, NonTerminals, Unlocated, Unset, S
  <1>2. \A r \in AssignmentRules : Rises(r)
    BY Lengths, RankValues DEF AssignmentRules, Rises, Rule, Id, IdTokens, S, Tokens
  <1> QED
    BY <1>1, <1>2

LEMMA StatementListSound == \A r \in StatementListRules : Sound(r) /\ Rises(r)
  <1>1. \A r \in StatementListRules : Sound(r)
    BY Lengths DEF StatementListRules, Sound, Handle, Rule, NonTerminals, Unlocated, Unset, S
  <1>2. \A r \in StatementListRules : Rises(r)
    BY Lengths, RankValues DEF StatementListRules, Rises, Rule, S, Tokens
  <1> QED
    BY <1>1, <1>2

LEMMA StatementSound == \A r \in StatementRules : Sound(r) /\ Rises(r)
  <1>1. \A r \in StatementRules : Sound(r)
    BY Lengths DEF StatementRules, Sound, Handle, Rule, Under, NonTerminals, Unlocated, Unset, S
  <1>2. \A r \in StatementRules : Rises(r)
    BY Lengths, RankValues DEF StatementRules, Rises, Rule, Under, S, Tokens
  <1> QED
    BY <1>1, <1>2

LEMMA BlockSound == \A r \in BlockRules : Sound(r) /\ Rises(r)
  <1>1. \A r \in BlockRules : Sound(r)
    BY Lengths DEF BlockRules, Sound, Handle, Rule, NonTerminals, Unlocated, Unset, S
  <1>2. \A r \in BlockRules : Rises(r)
    BY Lengths, RankValues DEF BlockRules, Rises, Rule, S, Tokens
  <1> QED
    BY <1>1, <1>2

LEMMA FunctionSound == \A r \in FunctionRules : Sound(r) /\ Rises(r)
  <1>1. \A r \in FunctionRules : Sound(r)
    BY Lengths DEF FunctionRules, Sound, Handle, Rule, Id, IdTokens, NonTerminals, Unlocated, Unset, S
  <1>2. \A r \in FunctionRules : Rises(r)
    BY Lengths, RankValues DEF FunctionRules, Rises, Rule, Id, IdTokens, S, Tokens
  <1> QED
    BY <1>1, <1>2

LEMMA RulesSound == \A r \in Rules : Sound(r) /\ Rises(r)
  BY NumberSound, HeaderSound, TypeNameSound, ArrayTypeSound, PointerTypeSound,
     TypedIdSound, FactorSound, ParenthesesSound, TermSound, MathSound,
     RelationalSound, ConjSound, DisjSound, ExpressionSound, ExpressionListSound,
     DerefSound, CallSound, FuncHeaderSound, IfSound, AssignmentSound,
     StatementListSound, StatementSound, BlockSound, FunctionSound
  DEF Rules

-----------------------------------------------------------------------------
(* One reduction. *)

\* The last k elements of a sequence replaced by one.
LEMMA Replace ==
  ASSUME NEW T, NEW s \in Seq(T), NEW k \in 1..Len(s), NEW n \in T
  PROVE  /\ Push(PopN(s, k), n) \in Seq(T)
         /\ Len(Push(PopN(s, k), n)) = Len(s) - k + 1
         /\ \A i \in 1..(Len(s) - k) : Push(PopN(s, k), n)[i] = s[i]
         /\ Push(PopN(s, k), n)[Len(s) - k + 1] = n
  BY DEF Push, PopN

LEMMA TypeOfInput ==
  ASSUME input \in Seq(Tokens), NEW i \in Nat
  PROVE  /\ TypeOf(i) \in Lookaheads
         /\ i \in 1..Len(input) => TypeOf(i) = input[i] /\ TypeOf(i) \in Tokens
  BY DEF TypeOf, Lookaheads

LEMMA StackNodes ==
  ASSUME TypeOK
  PROVE  /\ Depth = Len(stack) /\ Depth \in Nat
         /\ \A i \in 1..Depth : /\ stack[i] \in Nodes
                                /\ stack[i].sym \in Symbols
                                /\ stack[i].from \in Nat
                                /\ stack[i].to \in Nat
                                /\ stack[i].loc \in Nat
  <1>1. stack \in Seq(Nodes)
    BY DEF TypeOK
  <1>2. Depth = Len(stack) /\ Depth \in Nat
    BY <1>1 DEF Depth
  <1>3. \A i \in 1..Depth : stack[i] \in Nodes
    BY <1>1, <1>2
  <1> QED
    BY <1>2, <1>3 DEF Nodes

\* What is known of a rule that lalr_reduce may take.
LEMMA TakenRule ==
  ASSUME TypeOK, NEW r \in Takeable
  PROVE  /\ Len(r.rhs) \in 1..5
         /\ Len(r.rhs) <= Depth
         /\ r.pops = Len(r.rhs)
         /\ r.lhs \in NonTerminals
         /\ r.loc = Unset \/ r.loc \in 0..(Len(r.rhs) - 1)
         /\ r.loc = Unset => r.lhs \in Unlocated
         /\ r.loc # Unset /\ stack[Depth - r.loc].sym \in Unlocated => r.lhs \in Unlocated
         /\ Len(r.rhs) = 1 => Rank(stack[Depth].sym) < Rank(r.lhs)
  <1>1. r \in Rules /\ Matches(r)
    BY DEF Takeable
  <1>2. Sound(r) /\ Rises(r)
    BY <1>1, RulesSound
  <1>3. PICK k \in 1..5 : Handle(r, k)
    BY <1>2 DEF Sound
  <1>4. Len(r.rhs) = k /\ r.pops = k /\ k <= Depth
    BY <1>1, <1>3 DEF Handle, Matches
  <1>5. Depth \in Nat
    BY DEF TypeOK, Depth
  <1>6. \A i \in 0..(k - 1) : stack[Depth - i].sym \in r.rhs[k - i]
    BY <1>1, <1>4, <1>5 DEF Matches, Peek
  <1>7. r.loc = Unset \/ r.loc \in 0..(k - 1)
    BY <1>3 DEF Handle
  <1>8. r.loc = Unset => r.lhs \in Unlocated
    BY <1>3 DEF Handle, Unset
  <1>9. r.loc # Unset /\ stack[Depth - r.loc].sym \in Unlocated => r.lhs \in Unlocated
    BY <1>3, <1>6, <1>7 DEF Handle
  <1>10. k = 1 => Rank(stack[Depth].sym) < Rank(r.lhs)
    BY <1>2, <1>4, <1>5, <1>6 DEF Rises
  <1> QED
    BY <1>2, <1>4, <1>7, <1>8, <1>9, <1>10 DEF Sound

\* Nodes that lie within a handle of each other are in the order of the input.
LEMMA InOrder ==
  ASSUME TypeOK, TilesInput,
         NEW i \in 1..Depth, NEW j \in i..Depth, j - i <= 4
  PROVE  stack[i].from <= stack[j].from /\ stack[i].to <= stack[j].to
  <1>1. /\ Depth \in Nat
        /\ \A q \in 1..Depth : stack[q].from \in Nat /\ stack[q].to \in Nat
    BY StackNodes
  <1>2. \A q \in 1..Depth : q + 1 <= Depth =>
          stack[q].from <= stack[q + 1].from /\ stack[q].to <= stack[q + 1].to
    BY <1>1 DEF TilesInput
  <1>3. j = i \/ j = i + 1 \/ j = i + 2 \/ j = i + 3 \/ j = i + 4
    OBVIOUS
  <1>4. CASE j = i
    BY <1>1, <1>4
  <1>5. CASE j = i + 1
    BY <1>2, <1>5
  <1>6. CASE j = i + 2
    BY <1>1, <1>2, <1>6
  <1>7. CASE j = i + 3
    <2>1. /\ stack[i].from <= stack[i + 1].from /\ stack[i].to <= stack[i + 1].to
          /\ stack[i + 1].from <= stack[i + 2].from /\ stack[i + 1].to <= stack[i + 2].to
          /\ stack[i + 2].from <= stack[i + 3].from /\ stack[i + 2].to <= stack[i + 3].to
      BY <1>1, <1>2, <1>7
    <2> QED
      BY <1>1, <1>7, <2>1
  <1>8. CASE j = i + 4
    <2>1. /\ stack[i].from <= stack[i + 1].from /\ stack[i].to <= stack[i + 1].to
          /\ stack[i + 1].from <= stack[i + 2].from /\ stack[i + 1].to <= stack[i + 2].to
          /\ stack[i + 2].from <= stack[i + 3].from /\ stack[i + 2].to <= stack[i + 3].to
          /\ stack[i + 3].from <= stack[i + 4].from /\ stack[i + 3].to <= stack[i + 4].to
      BY <1>1, <1>2, <1>8
    <2> QED
      BY <1>1, <1>8, <2>1
  <1> QED
    BY <1>3, <1>4, <1>5, <1>6, <1>7, <1>8

\* The node a reduction builds: a nonterminal that spans its handle.
LEMMA BuiltNode ==
  ASSUME TypeOK, TilesInput, LocInSpan, NEW r \in Takeable
  PROVE  /\ Built(r) \in Nodes
         /\ Built(r).sym = r.lhs
         /\ Built(r).from = stack[Depth - Len(r.rhs) + 1].from
         /\ Built(r).to = stack[Depth].to
         /\ Built(r).from <= Built(r).to
         /\ \/ Built(r).loc \in Built(r).from..Built(r).to
            \/ Built(r).loc = 0 /\ Built(r).sym \in Unlocated
  <1> DEFINE b == Built(r)
             k == Len(r.rhs)
             m == Depth - k + 1
  <1> SUFFICES /\ b \in Nodes
               /\ b.sym = r.lhs
               /\ b.from = stack[m].from
               /\ b.to = stack[Depth].to
               /\ b.from <= b.to
               /\ b.loc \in b.from..b.to \/ (b.loc = 0 /\ b.sym \in Unlocated)
    OBVIOUS
  <1>1. /\ k \in 1..5 /\ k <= Depth /\ r.lhs \in NonTerminals
        /\ r.loc = Unset \/ r.loc \in 0..(k - 1)
        /\ r.loc = Unset => r.lhs \in Unlocated
        /\ r.loc # Unset /\ stack[Depth - r.loc].sym \in Unlocated => r.lhs \in Unlocated
    BY TakenRule
  <1>2. /\ Depth \in Nat
        /\ \A q \in 1..Depth : /\ stack[q].from \in Nat
                               /\ stack[q].to \in Nat
                               /\ stack[q].loc \in Nat
    BY StackNodes
  <1>m. m = Depth - k + 1
    OBVIOUS
  <1>k. k = Len(r.rhs)
    OBVIOUS
  <1> HIDE DEF k, m
  <1>3. m \in 1..Depth /\ Depth \in m..Depth /\ Depth - m <= 4
    BY <1>1, <1>2, <1>m
  <1>4. /\ b.sym = r.lhs
        /\ b.from = stack[m].from
        /\ b.to = stack[Depth].to
        /\ b.loc = IF r.loc = Unset THEN 0 ELSE PeekLoc(r.loc)
        /\ b = [sym |-> b.sym, from |-> b.from, to |-> b.to, loc |-> b.loc]
    BY <1>m, <1>k DEF Built, Node
  <1> HIDE DEF b
  <1>5. b.from <= b.to
    <2>1. stack[m].from <= stack[Depth].from
      BY <1>3, InOrder
    <2>2. stack[Depth].from <= stack[Depth].to
      BY <1>3 DEF TilesInput
    <2> QED
      BY <1>2, <1>3, <1>4, <2>1, <2>2
  <1>6. CASE r.loc = Unset
    <2>1. b.loc = 0 /\ b.sym \in Unlocated
      BY <1>1, <1>4, <1>6
    <2>2. b \in Nodes
      BY <1>1, <1>2, <1>3, <1>4, <2>1 DEF Nodes, Symbols
    <2> QED
      BY <1>4, <1>5, <2>1, <2>2
  <1>7. CASE r.loc # Unset
    <2> DEFINE p == Depth - r.loc
    <2>1. p \in m..Depth /\ p \in 1..Depth /\ Depth \in p..Depth /\ p - m <= 4 /\ Depth - p <= 4
      BY <1>1, <1>2, <1>7, <1>m
    <2>p. p = Depth - r.loc
      OBVIOUS
    <2> HIDE DEF p
    <2>2. b.loc = stack[p].loc
      BY <1>1, <1>2, <1>4, <1>7, <2>1, <2>p DEF PeekLoc
    <2>3. stack[m].from <= stack[p].from
      BY <1>3, <2>1, InOrder
    <2>4. stack[p].to <= stack[Depth].to
      BY <1>3, <2>1, InOrder
    <2>5. \/ stack[p].loc \in stack[p].from..stack[p].to
          \/ stack[p].loc = 0 /\ stack[p].sym \in Unlocated
      BY <2>1 DEF LocInSpan, Unlocated
    <2>6. b.loc \in b.from..b.to \/ (b.loc = 0 /\ b.sym \in Unlocated)
      <3>1. CASE stack[p].loc \in stack[p].from..stack[p].to
        <4>1. /\ stack[m].from \in Nat /\ stack[p].from \in Nat /\ stack[p].to \in Nat
              /\ stack[p].loc \in Nat /\ stack[Depth].to \in Nat
          BY <1>2, <1>3, <2>1
        <4>2. stack[p].loc \in stack[m].from..stack[Depth].to
          BY <2>3, <2>4, <3>1, <4>1
        <4>3. b.loc = stack[p].loc /\ b.from = stack[m].from /\ b.to = stack[Depth].to
          BY <1>4, <2>2
        <4> QED
          BY <4>2, <4>3
      <3>2. CASE stack[p].loc = 0 /\ stack[p].sym \in Unlocated
        BY <1>1, <1>4, <1>7, <2>2, <2>p, <3>2
      <3> QED
        BY <2>5, <3>1, <3>2
    <2>7. b \in Nodes
      BY <1>1, <1>2, <1>3, <1>4, <2>1, <2>2 DEF Nodes, Symbols
    <2> QED
      BY <1>4, <1>5, <2>6, <2>7
  <1> QED
    BY <1>6, <1>7

-----------------------------------------------------------------------------
(* The invariant.  TypeOK, TilesInput and LocInSpan are inductive together: *)
(* the span of a new node is that of its handle only because the nodes on   *)
(* the stack are in order, and its location lies in that span only because  *)
(* the location of the part it comes from does.                             *)

IInv == TypeOK /\ TilesInput /\ LocInSpan

LEMMA InitIInv == Init => IInv
  <1> SUFFICES ASSUME Init PROVE IInv
    OBVIOUS
  <1>1. input \in Seq(Tokens) /\ Len(input) \in Nat
    BY InputsAssumption DEF Init
  <1>2. stack = <<>> /\ Depth = 0 /\ stack \in Seq(Nodes)
    BY DEF Init, Depth
  <1>3. TypeOK
    BY <1>1, <1>2, StackSizeAssumption
    DEF Init, TypeOK, Lookaheads, Tokens, IdTokens, Phases
  <1>4. TilesInput
    BY <1>2 DEF Init, TilesInput
  <1>5. LocInSpan
    BY <1>2 DEF LocInSpan
  <1> QED
    BY <1>3, <1>4, <1>5 DEF IInv

LEMMA ShiftIInv == IInv /\ Shift => IInv'
  <1> SUFFICES ASSUME IInv, Shift PROVE IInv'
    OBVIOUS
  <1> USE DEF IInv
  <1> DEFINE n == Node(input[pos + 1], pos + 1, pos + 1, pos + 1)
  <1>1. /\ input \in Seq(Tokens) /\ pos \in Nat /\ Len(input) \in Nat /\ pos + 1 \in 1..Len(input)
        /\ stack \in Seq(Nodes) /\ Depth \in Nat /\ Depth = Len(stack)
        /\ StackSize \in Nat /\ Depth < StackSize
    BY StackSizeAssumption DEF TypeOK, Shift, Depth
  <1>2. input[pos + 1] \in Tokens /\ TypeOf(pos + 1) = input[pos + 1]
    BY <1>1, TypeOfInput
  <1>3. n \in Nodes
    BY <1>1, <1>2 DEF Node, Nodes, Symbols
  <1>4. /\ n.sym = input[pos + 1] /\ n.from = pos + 1 /\ n.to = pos + 1 /\ n.loc = pos + 1
    BY DEF Node
  <1>5. /\ stack' = Append(stack, n)
        /\ pos' = pos + 1 /\ input' = input /\ phase' = "reduce"
        /\ lookahead' = TypeOf(pos + 2)
    BY DEF Shift, Push
  <1>6. /\ stack' \in Seq(Nodes)
        /\ Depth' = Depth + 1
        /\ \A i \in 1..Depth : stack'[i] = stack[i]
        /\ stack'[Depth + 1] = n
    BY <1>1, <1>3, <1>5 DEF Depth
  <1>7. \A i \in 1..Depth' : i \in 1..Depth \/ i = Depth + 1
    <2>1. Depth' = Depth + 1 /\ Depth \in Nat
      BY <1>1, <1>6
    <2> QED
      BY <2>1
  <1>8. TypeOK'
    <2>1. lookahead' \in Lookaheads
      BY <1>1, <1>5, TypeOfInput
    <2> QED
      BY <1>1, <1>5, <1>6, <2>1 DEF TypeOK, Phases
  <1>9. TilesInput'
    <2>1. \A i \in 1..Depth : stack[i].to \in Nat /\ stack[i].from \in Nat
      BY StackNodes
    <2>2. \A i \in 1..Depth' : stack'[i].from <= stack'[i].to
      <3> SUFFICES ASSUME NEW i \in 1..Depth'
                   PROVE  stack'[i].from <= stack'[i].to
        OBVIOUS
      <3>1. CASE i \in 1..Depth
        <4>1. stack[i].from <= stack[i].to
          BY <3>1 DEF TilesInput
        <4> QED
          BY <1>6, <3>1, <4>1
      <3>2. CASE i = Depth + 1
        <4>1. stack'[i] = n
          BY <1>6, <3>2
        <4> QED
          BY <1>1, <1>4, <4>1
      <3> QED
        BY <1>7, <3>1, <3>2
    <2>3. \A i \in 1..Depth' : i > 1 => stack'[i].from = stack'[i - 1].to + 1
      <3> SUFFICES ASSUME NEW i \in 1..Depth', i > 1
                   PROVE  stack'[i].from = stack'[i - 1].to + 1
        OBVIOUS
      <3>1. CASE i \in 1..Depth
        <4>1. i - 1 \in 1..Depth /\ stack'[i] = stack[i] /\ stack'[i - 1] = stack[i - 1]
          BY <1>1, <1>6, <3>1
        <4>2. stack[i].from = stack[i - 1].to + 1
          BY <3>1 DEF TilesInput
        <4> QED
          BY <4>1, <4>2
      <3>2. CASE i = Depth + 1
        <4>1. stack'[i - 1] = stack[Depth] /\ stack[Depth].to = pos
          BY <1>1, <1>6, <3>2 DEF TilesInput
        <4> QED
          BY <1>4, <1>6, <3>2, <4>1
      <3> QED
        BY <1>7, <3>1, <3>2
    <2>4. \A i \in 1..Depth' : stack'[i].sym \in Tokens =>
            stack'[i].from = stack'[i].to /\ stack'[i].sym = (TypeOf(stack[i].from))'
      <3> SUFFICES ASSUME NEW i \in 1..Depth', stack'[i].sym \in Tokens
                   PROVE  stack'[i].from = stack'[i].to /\ stack'[i].sym = (TypeOf(stack[i].from))'
        OBVIOUS
      <3>1. CASE i \in 1..Depth
        <4>1. stack'[i] = stack[i] /\ stack[i].sym \in Tokens /\ stack[i].from \in Nat
          BY <1>6, <2>1, <3>1
        <4>2. stack[i].from = stack[i].to /\ stack[i].sym = TypeOf(stack[i].from)
          BY <3>1, <4>1 DEF TilesInput
        <4> QED
          BY <1>5, <4>1, <4>2 DEF TypeOf
      <3>2. CASE i = Depth + 1
        <4>1. stack'[i].from = pos + 1 /\ stack'[i].to = pos + 1 /\ stack'[i].sym = input[pos + 1]
          BY <1>4, <1>6, <3>2
        <4> QED
          BY <1>1, <1>5, <4>1 DEF TypeOf
      <3> QED
        BY <1>7, <3>1, <3>2
    <2>5. Depth' > 0 /\ stack'[1].from = 1 /\ stack'[Depth'].to = pos'
      <3>1. CASE Depth = 0
        BY <1>1, <1>4, <1>5, <1>6, <3>1 DEF TilesInput
      <3>2. CASE Depth > 0
        BY <1>1, <1>4, <1>5, <1>6, <3>2 DEF TilesInput
      <3> QED
        BY <1>1, <3>1, <3>2
    <2> QED
      BY <2>2, <2>3, <2>4, <2>5 DEF TilesInput
  <1>10. LocInSpan'
    <2>1. stack'[Depth + 1].loc \in stack'[Depth + 1].from..stack'[Depth + 1].to
      BY <1>1, <1>4, <1>6
    <2>2. \A i \in 1..Depth :
            \/ stack'[i].loc \in stack'[i].from..stack'[i].to
            \/ stack'[i].loc = 0 /\ stack'[i].sym \in Unlocated
      BY <1>6 DEF LocInSpan, Unlocated
    <2> QED
      BY <1>7, <2>1, <2>2 DEF LocInSpan, Unlocated
  <1> QED
    BY <1>8, <1>9, <1>10

LEMMA ReduceIInv == IInv /\ Reduce => IInv'
  <1> SUFFICES ASSUME IInv, Reduce PROVE IInv'
    OBVIOUS
  <1> USE DEF IInv
  <1>1. PICK r \in Takeable : stack' = Push(PopN(stack, r.pops), Built(r))
    BY DEF Reduce, Apply
  <1> DEFINE b == Built(r)
             k == Len(r.rhs)
             m == Depth - k + 1
  <1>2. /\ k \in 1..5 /\ k <= Depth /\ r.pops = k /\ r.lhs \in NonTerminals
    BY TakenRule
  <1>m. m = Depth - k + 1 /\ k = Len(r.rhs) /\ b = Built(r)
    OBVIOUS
  <1> HIDE DEF b, k, m
  <1>3. /\ b \in Nodes /\ b.sym = r.lhs
        /\ b.from = stack[m].from /\ b.to = stack[Depth].to /\ b.from <= b.to
        /\ b.loc \in b.from..b.to \/ (b.loc = 0 /\ b.sym \in Unlocated)
    BY <1>m, BuiltNode
  <1>4. /\ stack \in Seq(Nodes) /\ Depth = Len(stack) /\ Depth \in Nat
        /\ Depth <= StackSize /\ StackSize \in Nat
        /\ m \in 1..Depth
    <2>1. /\ stack \in Seq(Nodes) /\ Depth = Len(stack) /\ Depth \in Nat
          /\ Depth <= StackSize /\ StackSize \in Nat
      BY StackNodes, StackSizeAssumption DEF TypeOK
    <2>2. k \in 1..5 /\ k <= Depth
      BY <1>2
    <2>3. m = Depth - k + 1
      BY <1>m
    <2>4. m \in 1..Depth
      BY <2>1, <2>2, <2>3
    <2> QED
      BY <2>1, <2>4
  <1>5. /\ stack' \in Seq(Nodes)
        /\ Depth' = m
        /\ \A i \in 1..(m - 1) : stack'[i] = stack[i]
        /\ stack'[m] = b
    <2>1. k \in 1..Len(stack) /\ m = Len(stack) - k + 1
      BY <1>2, <1>4, <1>m
    <2>2. stack' = Push(PopN(stack, k), b)
      BY <1>1, <1>2, <1>m
    <2>3. b \in Nodes /\ stack \in Seq(Nodes)
      BY <1>3, <1>4
    <2> DEFINE s == Push(PopN(stack, k), b)
    <2>4. /\ s \in Seq(Nodes)
          /\ Len(s) = Len(stack) - k + 1
          /\ \A i \in 1..(Len(stack) - k) : s[i] = stack[i]
          /\ s[Len(stack) - k + 1] = b
      BY <2>1, <2>3, Replace
    <2> HIDE DEF s
    <2>5. stack' = s
      BY <2>2 DEF s
    <2>6. m - 1 = Len(stack) - k
      BY <1>4, <2>1
    <2> QED
      BY <2>1, <2>4, <2>5, <2>6 DEF Depth
  <1>6. UNCHANGED <<input, pos, lookahead, phase>>
    BY DEF Reduce
  <1>8. TypeOK'
    BY <1>4, <1>5, <1>6 DEF TypeOK
  <1>9. b.sym \notin Tokens
    BY <1>2, <1>3 DEF NonTerminals, Tokens, IdTokens, Relops, Mulops, Addops
  <1>10. TilesInput'
    <2>d. \A i \in 1..m : i # m => i \in 1..(m - 1) /\ i \in 1..Depth /\ stack'[i] = stack[i]
      BY <1>4, <1>5
    <2>1. \A i \in 1..m : stack'[i].from <= stack'[i].to
      <3> SUFFICES ASSUME NEW i \in 1..m
                   PROVE  stack'[i].from <= stack'[i].to
        OBVIOUS
      <3>1. CASE i = m
        BY <1>3, <1>5, <3>1
      <3>2. CASE i # m
        BY <2>d, <3>2 DEF TilesInput
      <3> QED
        BY <3>1, <3>2
    <2>2. \A i \in 1..m : i > 1 => stack'[i].from = stack'[i - 1].to + 1
      <3> SUFFICES ASSUME NEW i \in 1..m, i > 1
                   PROVE  stack'[i].from = stack'[i - 1].to + 1
        OBVIOUS
      <3>1. stack'[i].from = stack[i].from
        BY <1>3, <1>5, <2>d
      <3>2. stack'[i - 1].to = stack[i - 1].to
        BY <1>4, <2>d
      <3>3. stack[i].from = stack[i - 1].to + 1
        BY <1>4 DEF TilesInput
      <3> QED
        BY <3>1, <3>2, <3>3
    <2>3. \A i \in 1..m : stack'[i].sym \in Tokens =>
            stack'[i].from = stack'[i].to /\ stack'[i].sym = (TypeOf(stack[i].from))'
      <3> SUFFICES ASSUME NEW i \in 1..m, stack'[i].sym \in Tokens
                   PROVE  stack'[i].from = stack'[i].to /\ stack'[i].sym = (TypeOf(stack[i].from))'
        OBVIOUS
      <3>1. i # m
        BY <1>5, <1>9
      <3>2. stack'[i] = stack[i] /\ i \in 1..Depth
        BY <2>d, <3>1
      <3>3. stack[i].from = stack[i].to /\ stack[i].sym = TypeOf(stack[i].from)
        BY <3>2 DEF TilesInput
      <3> QED
        BY <1>6, <3>2, <3>3 DEF TypeOf
    <2>4. stack'[1].from = 1 /\ stack'[m].to = pos
      <3>1. stack[1].from = 1 /\ stack[Depth].to = pos
        BY <1>4 DEF TilesInput
      <3>2. stack'[m].to = pos
        BY <1>3, <1>5, <3>1
      <3>3. stack'[1].from = 1
        <4>1. CASE m = 1
          BY <1>3, <1>5, <3>1, <4>1
        <4>2. CASE m # 1
          BY <1>4, <2>d, <3>1, <4>2
        <4> QED
          BY <4>1, <4>2
      <3> QED
        BY <3>2, <3>3
    <2>5. Depth' = m /\ m > 0 /\ pos' = pos
      BY <1>4, <1>5, <1>6
    <2> QED
      BY <2>1, <2>2, <2>3, <2>4, <2>5 DEF TilesInput
  <1>11. LocInSpan'
    <2> SUFFICES ASSUME NEW i \in 1..m
                 PROVE  \/ stack'[i].loc \in stack'[i].from..stack'[i].to
                        \/ stack'[i].loc = 0 /\ stack'[i].sym \in Unlocated
      BY <1>5 DEF LocInSpan, Unlocated
    <2>1. CASE i = m
      BY <1>3, <1>5, <2>1
    <2>2. CASE i # m
      <3>1. stack'[i] = stack[i] /\ i \in 1..Depth
        BY <1>4, <1>5, <2>2
      <3> QED
        BY <3>1 DEF LocInSpan, Unlocated
    <2> QED
      BY <2>1, <2>2
  <1> QED
    BY <1>8, <1>10, <1>11

\* The other steps only move the phase.
LEMMA OtherIInv ==
  IInv /\ (Overflow \/ NothingToReduce \/ Finish \/ Terminated \/ UNCHANGED vars) => IInv'
  <1> SUFFICES ASSUME IInv, Overflow \/ NothingToReduce \/ Finish \/ Terminated \/ UNCHANGED vars
               PROVE  IInv'
    OBVIOUS
  <1>1. UNCHANGED <<input, pos, lookahead, stack>> /\ phase' \in Phases
    BY DEF IInv, TypeOK, Overflow, NothingToReduce, Finish, Terminated, vars, Phases
  <1>2. Depth' = Depth
    BY <1>1 DEF Depth
  <1>3. TypeOK'
    BY <1>1, <1>2 DEF IInv, TypeOK
  <1>4. TilesInput'
    BY <1>1, <1>2 DEF IInv, TilesInput, TypeOf
  <1>5. LocInSpan'
    BY <1>1, <1>2 DEF IInv, LocInSpan
  <1> QED
    BY <1>3, <1>4, <1>5 DEF IInv

LEMMA StepIInv == IInv /\ [Next]_vars => IInv'
  BY ShiftIInv, ReduceIInv, OtherIInv DEF Next

LEMMA Invariance == Spec => []IInv
  <1> QED
    BY InitIInv, StepIInv, PTL DEF Spec

-----------------------------------------------------------------------------
(* The theorems. *)

\* The state of the parser is well formed, and a push never leaves the array
\* in a state the model goes on from: for every input and every stack size.
THEOREM TypeCorrect == Spec => []TypeOK
  BY Invariance, PTL DEF IInv

\* No token of any input is lost, read twice or put out of order by any
\* sequence of reductions.
THEOREM NoTokenLost == Spec => []TilesInput
  BY Invariance, PTL DEF IInv

\* A location always points into the text its node was built from.
THEOREM LocationsHold == Spec => []LocInSpan
  BY Invariance, PTL DEF IInv

-----------------------------------------------------------------------------
(* The work that is left. *)

LEMMA RankRange == \A sym : Rank(sym) \in 0..11
  BY DEF Rank

LEMMA RemainingParts ==
  ASSUME IInv
  PROVE  /\ Depth \in Nat /\ Depth = Len(stack)
         /\ Len(input) \in Nat /\ pos \in 0..Len(input)
         /\ TopRank \in 0..11
         /\ Turn \in 0..2
  <1>1. Depth \in Nat /\ Depth = Len(stack)
    BY StackNodes DEF IInv
  <1>2. Len(input) \in Nat /\ pos \in 0..Len(input)
    BY DEF IInv, TypeOK
  <1>3. TopRank \in 0..11
    BY RankRange DEF TopRank
  <1>4. Turn \in 0..2
    BY DEF Turn
  <1> QED
    BY <1>1, <1>2, <1>3, <1>4

LEMMA Weights ==
  ASSUME NEW a \in Nat, NEW t \in 0..11, NEW u \in 0..2
  PROVE  /\ 13 * a + (11 - t) + u \in Nat
         /\ \A a1 \in Nat, t1 \in 0..11, u1 \in 0..2 :
              \/ a1 < a /\ u1 <= u + 1
              \/ a1 = a /\ t < t1 /\ u1 = u
              \/ a1 = a /\ t1 = t /\ u1 < u
              => 13 * a1 + (11 - t1) + u1 < 13 * a + (11 - t) + u
  OBVIOUS

\* Room for the nodes on the stack and for those of the tokens to come.
Room == 2 * (Len(input) - pos) + Depth

LEMMA RoomIsNat == IInv => Room \in Nat
  <1> SUFFICES ASSUME IInv PROVE Room \in Nat
    OBVIOUS
  <1>1. Depth \in Nat /\ Len(input) - pos \in Nat
    BY RemainingParts
  <1> QED
    BY <1>1 DEF Room

LEMMA RemainingIsNat == IInv => Remaining \in Nat
  <1> SUFFICES ASSUME IInv PROVE Remaining \in Nat
    OBVIOUS
  <1>1. Remaining = 13 * Room + (11 - TopRank) + Turn
    BY DEF Remaining, Room
  <1> QED
    BY <1>1, RemainingParts, RoomIsNat, Weights

\* A step that takes less room, or leaves it and raises the rank of the top, or
\* only turns the loop on.
LEMMA Shrinks ==
  ASSUME IInv, IInv',
         \/ Room' < Room /\ Turn' <= Turn + 1
         \/ Room' = Room /\ TopRank < TopRank' /\ Turn' = Turn
         \/ Room' = Room /\ TopRank' = TopRank /\ Turn' < Turn
  PROVE  Remaining' < Remaining
  <1>1. Remaining = 13 * Room + (11 - TopRank) + Turn
    BY DEF Remaining, Room
  <1>2. Remaining' = 13 * Room' + (11 - TopRank') + Turn'
    BY DEF Remaining, Room
  <1>3. Room \in Nat /\ TopRank \in 0..11 /\ Turn \in 0..2
    BY RemainingParts, RoomIsNat
  <1>4. Room' \in Nat /\ TopRank' \in 0..11 /\ Turn' \in 0..2
    <2>1. (IInv => Room \in Nat /\ TopRank \in 0..11 /\ Turn \in 0..2)'
      BY RemainingParts, RoomIsNat, PTL
    <2> QED
      BY <2>1
  <1> QED
    BY <1>1, <1>2, <1>3, <1>4, Weights

\* A token costs two, its place on the stack one, and its rank is the lowest.
LEMMA ShiftShrinks == IInv /\ Shift => Remaining' < Remaining
  <1> SUFFICES ASSUME IInv, Shift PROVE Remaining' < Remaining
    OBVIOUS
  <1>1. IInv'
    BY ShiftIInv
  <1>2. pos' = pos + 1 /\ input' = input /\ phase = "next" /\ phase' = "reduce"
    BY DEF Shift
  <1>3. Depth' = Depth + 1
    BY StackNodes DEF IInv, TypeOK, Shift, Push, Depth
  <1>4. Turn = 1 /\ Turn' = 2
    BY <1>2 DEF Turn
  <1>5. Room' < Room
    <2>1. Depth \in Nat /\ Len(input) \in Nat /\ pos \in Nat
      BY RemainingParts
    <2> QED
      BY <1>2, <1>3, <2>1 DEF Room
  <1> QED
    BY <1>1, <1>4, <1>5, Shrinks

\* What a reduction does to the depth, and to the symbol on top.
LEMMA ReduceEffect ==
  ASSUME IInv, Reduce
  PROVE  \E r \in Takeable :
           /\ Len(r.rhs) \in 1..Depth
           /\ Depth' = Depth - Len(r.rhs) + 1
           /\ stack'[Depth'].sym = r.lhs
           /\ Len(r.rhs) = 1 => Rank(stack[Depth].sym) < Rank(r.lhs)
  <1>1. PICK r \in Takeable : stack' = Push(PopN(stack, r.pops), Built(r))
    BY DEF Reduce, Apply
  <1> DEFINE k == Len(r.rhs)
             b == Built(r)
  <1>2. /\ k \in 1..5 /\ k <= Depth /\ r.pops = k
        /\ k = 1 => Rank(stack[Depth].sym) < Rank(r.lhs)
    BY TakenRule DEF IInv
  <1>3. b \in Nodes /\ b.sym = r.lhs
    BY BuiltNode DEF IInv
  <1>4. stack \in Seq(Nodes) /\ Depth = Len(stack) /\ Depth \in Nat
    BY StackNodes DEF IInv, TypeOK
  <1>5. stack' = Push(PopN(stack, k), b)
    BY <1>1, <1>2
  <1> HIDE DEF b, k
  <1>6. k \in 1..Depth
    BY <1>2, <1>4
  <1>7. Len(stack') = Len(stack) - k + 1 /\ stack'[Len(stack) - k + 1] = b
    <2> DEFINE t == Push(PopN(stack, k), b)
    <2>k. k \in 1..Len(stack) /\ b \in Nodes /\ stack \in Seq(Nodes)
      BY <1>3, <1>4, <1>6
    <2>1. /\ t \in Seq(Nodes)
          /\ Len(t) = Len(stack) - k + 1
          /\ \A i \in 1..(Len(stack) - k) : t[i] = stack[i]
          /\ t[Len(stack) - k + 1] = b
      BY <2>k, Replace
    <2> HIDE DEF t
    <2>2. stack' = t
      BY <1>5 DEF t
    <2> QED
      BY <2>1, <2>2
  <1>8. Depth' = Depth - k + 1 /\ stack'[Depth'].sym = r.lhs
    BY <1>3, <1>4, <1>7 DEF Depth
  <1> QED
    BY <1>2, <1>6, <1>8 DEF k

\* Between two pushes of tokens, every reduction shortens the stack or raises
\* the rank of its top.
LEMMA ReduceShrinks == IInv /\ Reduce => Remaining' < Remaining
  <1> SUFFICES ASSUME IInv, Reduce PROVE Remaining' < Remaining
    OBVIOUS
  <1>1. PICK r \in Takeable :
          /\ Len(r.rhs) \in 1..Depth
          /\ Depth' = Depth - Len(r.rhs) + 1
          /\ stack'[Depth'].sym = r.lhs
          /\ Len(r.rhs) = 1 => Rank(stack[Depth].sym) < Rank(r.lhs)
    BY ReduceEffect
  <1> DEFINE k == Len(r.rhs)
  <1>2. Depth \in Nat /\ k \in 1..Depth /\ Depth' = Depth - k + 1
    BY <1>1, RemainingParts
  <1>3. TopRank = Rank(stack[Depth].sym) /\ TopRank' = Rank(r.lhs)
    <2> HIDE DEF k
    <2>1. Depth > 0 /\ Depth' > 0
      BY <1>2
    <2> QED
      BY <1>1, <2>1 DEF TopRank
  <1>4. UNCHANGED <<input, pos, phase>>
    BY DEF Reduce
  <1>5. IInv'
    BY ReduceIInv
  <1>6. Turn' = Turn /\ Turn \in 0..2
    BY <1>4 DEF Turn
  <1>7. CASE k = 1
    <2>1. TopRank < TopRank'
      BY <1>1, <1>3, <1>7
    <2> HIDE DEF k
    <2>2. Room' = Room
      BY <1>2, <1>4, <1>7 DEF Room
    <2> QED
      BY <1>5, <1>6, <2>1, <2>2, Shrinks
  <1>8. CASE k # 1
    <2> HIDE DEF k
    <2>1. Depth' \in Nat /\ Depth' < Depth
      BY <1>2, <1>8
    <2>2. Len(input) \in Nat /\ pos \in Nat
      BY RemainingParts
    <2>3. Room' < Room
      BY <1>2, <1>4, <2>1, <2>2 DEF Room
    <2> QED
      BY <1>5, <1>6, <2>3, Shrinks
  <1> QED
    BY <1>7, <1>8

LEMMA OtherShrinks ==
  IInv /\ (Overflow \/ NothingToReduce \/ Finish) => Remaining' < Remaining
  <1> SUFFICES ASSUME IInv, Overflow \/ NothingToReduce \/ Finish PROVE Remaining' < Remaining
    OBVIOUS
  <1>1. UNCHANGED <<input, pos, stack>>
    BY DEF Overflow, NothingToReduce, Finish
  <1>2. Turn' < Turn /\ Turn' \in 0..2
    BY DEF Overflow, NothingToReduce, Finish, Turn
  <1>3. Room' = Room /\ TopRank' = TopRank
    BY <1>1 DEF Room, Depth, TopRank
  <1>4. IInv'
    BY OtherIInv
  <1> QED
    BY <1>2, <1>3, <1>4, Shrinks

\* On every input, a step of parse leaves less to do.  What is left is a
\* natural number, so parse ends as long as it keeps taking steps.
THEOREM ParseRunsOut == Spec => WorkShrinks
  <1>1. IInv /\ IInv' /\ [Next]_vars => [Remaining' \in Nat /\ Remaining' < Remaining]_vars
    <2> SUFFICES ASSUME IInv, IInv', Next, vars' # vars
                 PROVE  Remaining' \in Nat /\ Remaining' < Remaining
      OBVIOUS
    <2>1. Remaining \in Nat /\ (Remaining \in Nat)'
      BY RemainingIsNat, PTL
    <2>2. Remaining' < Remaining
      <3>1. Shift \/ Reduce \/ Overflow \/ NothingToReduce \/ Finish
        BY DEF Next, Terminated
      <3> QED
        BY <3>1, ShiftShrinks, ReduceShrinks, OtherShrinks
    <2> QED
      BY <2>1, <2>2
  <1> QED
    BY <1>1, Invariance, PTL DEF Spec, WorkShrinks

-----------------------------------------------------------------------------
(* The size of the stack. *)

\* Every node covers a token of its own.
FInv ==
  /\ Depth <= pos
  /\ phase = "overrun" => Len(input) > StackSize

LEMMA FInvNext == IInv /\ FInv /\ [Next]_vars => FInv'
  <1> SUFFICES ASSUME IInv, FInv, [Next]_vars PROVE FInv'
    OBVIOUS
  <1>1. /\ Depth \in Nat /\ Len(input) \in Nat /\ pos \in 0..Len(input) /\ StackSize \in Nat
    BY RemainingParts, StackSizeAssumption
  <1>2. CASE Shift
    <2>1. Depth' = Depth + 1 /\ pos' = pos + 1 /\ phase' = "reduce"
      BY <1>2, StackNodes DEF IInv, TypeOK, Shift, Push, Depth
    <2> QED
      BY <1>1, <2>1 DEF FInv
  <1>3. CASE Reduce
    <2>1. PICK r \in Takeable : Len(r.rhs) \in 1..Depth /\ Depth' = Depth - Len(r.rhs) + 1
      BY <1>3, ReduceEffect
    <2>3. Depth' <= Depth /\ Depth' \in Nat
      BY <1>1, <2>1
    <2>4. UNCHANGED <<input, pos, phase>>
      BY <1>3 DEF Reduce
    <2> QED
      BY <1>1, <2>3, <2>4 DEF FInv
  <1>4. CASE Overflow
    <2>1. Depth >= StackSize /\ pos < Len(input) /\ UNCHANGED <<input, pos, stack>>
      BY <1>4 DEF Overflow
    <2>2. Depth' = Depth
      BY <2>1 DEF Depth
    <2> QED
      BY <1>1, <2>1, <2>2 DEF FInv
  <1>5. CASE NothingToReduce \/ Finish \/ Terminated \/ UNCHANGED vars
    <2>1. UNCHANGED <<input, pos, stack>> /\ (phase' = "overrun" => phase = "overrun")
      BY <1>5 DEF NothingToReduce, Finish, Terminated, vars
    <2>2. Depth' = Depth
      BY <2>1 DEF Depth
    <2> QED
      BY <2>1, <2>2 DEF FInv
  <1> QED
    BY <1>2, <1>3, <1>4, <1>5 DEF Next

\* lalr_push never asks whether there is room, but a file of no more tokens
\* than the stack has places cannot overrun it, however deeply it nests.
THEOREM ShortFilesFit == Spec => []OverrunNeedsTokens
  <1>1. Init => FInv
    BY DEF Init, FInv, Depth
  <1>2. IInv /\ FInv /\ [Next]_vars => FInv'
    BY FInvNext
  <1>3. FInv => OverrunNeedsTokens
    BY DEF FInv, OverrunNeedsTokens
  <1> QED
    BY <1>1, <1>2, <1>3, Invariance, PTL DEF Spec
=============================================================================
