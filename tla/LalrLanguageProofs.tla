-------------------------- MODULE LalrLanguageProofs --------------------------
(***************************************************************************)
(* Proofs about LalrLanguage: every node the parser builds, on any input,  *)
(* covers what the documented grammar derives from its kind.               *)
(*                                                                         *)
(* The argument has two parts.  Each condition of lalr_reduce, whatever    *)
(* its lookahead and whatever comes before it in the file, is an instance  *)
(* of a documented production (RulesDocumented, group by group).  And what *)
(* the nodes of a handle cover are the pieces, in order and without a gap, *)
(* of what the new node covers (HandlePieces, from TilesInput).            *)
(***************************************************************************)
EXTENDS LalrLanguage, LalrParserProofs

-----------------------------------------------------------------------------
(* The rules and the productions. *)

\* A handle h of the kinds that r asks for, position by position.
Fits(h, r) == \A j \in 1..Len(r.rhs) : h[j] \in r.rhs[j]

\* The handle is the right-hand side of a documented production for r.lhs.
Instance(h, r) ==
  \E p \in Productions :
    /\ p.lhs = r.lhs
    /\ Len(p.rhs) = Len(r.rhs)
    /\ \A j \in 1..Len(r.rhs) : h[j] \in Stands(p.rhs[j])

Known(r) == \A h : Fits(h, r) => Instance(h, r)

\* A kind stands for itself.
LEMMA StandsFor == (\A sym : sym \in Stands(sym)) /\ Stands("ID") = IdTokens
  BY DEF Stands, IdTokens

\* A production of one to five symbols, and a handle it describes.
LEMMA MadeOne ==
  ASSUME NEW r, Len(r.rhs) = 1, NEW h, NEW a,
         Production(r.lhs, <<a>>) \in Productions,
         h[1] \in Stands(a)
  PROVE  Instance(h, r)
  <1> DEFINE p == Production(r.lhs, <<a>>)
  <1>1. /\ p \in Productions /\ p.lhs = r.lhs /\ Len(p.rhs) = 1
        /\ p.rhs[1] = a
    BY Lengths DEF Production
  <1> HIDE DEF p
  <1> QED
    BY <1>1 DEF Instance

LEMMA MadeTwo ==
  ASSUME NEW r, Len(r.rhs) = 2, NEW h, NEW a, NEW b,
         Production(r.lhs, <<a, b>>) \in Productions,
         h[1] \in Stands(a), h[2] \in Stands(b)
  PROVE  Instance(h, r)
  <1> DEFINE p == Production(r.lhs, <<a, b>>)
  <1>1. /\ p \in Productions /\ p.lhs = r.lhs /\ Len(p.rhs) = 2
        /\ p.rhs[1] = a /\ p.rhs[2] = b
    BY Lengths DEF Production
  <1> HIDE DEF p
  <1> QED
    BY <1>1 DEF Instance

LEMMA MadeThree ==
  ASSUME NEW r, Len(r.rhs) = 3, NEW h, NEW a, NEW b, NEW c,
         Production(r.lhs, <<a, b, c>>) \in Productions,
         h[1] \in Stands(a), h[2] \in Stands(b), h[3] \in Stands(c)
  PROVE  Instance(h, r)
  <1> DEFINE p == Production(r.lhs, <<a, b, c>>)
  <1>1. /\ p \in Productions /\ p.lhs = r.lhs /\ Len(p.rhs) = 3
        /\ p.rhs[1] = a /\ p.rhs[2] = b /\ p.rhs[3] = c
    BY Lengths DEF Production
  <1> HIDE DEF p
  <1> QED
    BY <1>1 DEF Instance

LEMMA MadeFour ==
  ASSUME NEW r, Len(r.rhs) = 4, NEW h, NEW a, NEW b, NEW c, NEW d,
         Production(r.lhs, <<a, b, c, d>>) \in Productions,
         h[1] \in Stands(a), h[2] \in Stands(b), h[3] \in Stands(c), h[4] \in Stands(d)
  PROVE  Instance(h, r)
  <1> DEFINE p == Production(r.lhs, <<a, b, c, d>>)
  <1>1. /\ p \in Productions /\ p.lhs = r.lhs /\ Len(p.rhs) = 4
        /\ p.rhs[1] = a /\ p.rhs[2] = b /\ p.rhs[3] = c /\ p.rhs[4] = d
    BY Lengths DEF Production
  <1> HIDE DEF p
  <1> QED
    BY <1>1 DEF Instance

LEMMA MadeFive ==
  ASSUME NEW r, Len(r.rhs) = 5, NEW h, NEW a, NEW b, NEW c, NEW d, NEW e,
         Production(r.lhs, <<a, b, c, d, e>>) \in Productions,
         h[1] \in Stands(a), h[2] \in Stands(b), h[3] \in Stands(c), h[4] \in Stands(d), h[5] \in Stands(e)
  PROVE  Instance(h, r)
  <1> DEFINE p == Production(r.lhs, <<a, b, c, d, e>>)
  <1>1. /\ p \in Productions /\ p.lhs = r.lhs /\ Len(p.rhs) = 5
        /\ p.rhs[1] = a /\ p.rhs[2] = b /\ p.rhs[3] = c /\ p.rhs[4] = d /\ p.rhs[5] = e
    BY Lengths DEF Production
  <1> HIDE DEF p
  <1> QED
    BY <1>1 DEF Instance

\* What a handle of one to five symbols holds.
LEMMA FitsOne ==
  ASSUME NEW r, NEW A, r.rhs = <<A>>, NEW h, Fits(h, r)
  PROVE  Len(r.rhs) = 1 /\ h[1] \in A
  BY Lengths DEF Fits

LEMMA FitsTwo ==
  ASSUME NEW r, NEW A, NEW B, r.rhs = <<A, B>>, NEW h, Fits(h, r)
  PROVE  Len(r.rhs) = 2 /\ h[1] \in A /\ h[2] \in B
  BY Lengths DEF Fits

LEMMA FitsThree ==
  ASSUME NEW r, NEW A, NEW B, NEW C, r.rhs = <<A, B, C>>, NEW h, Fits(h, r)
  PROVE  Len(r.rhs) = 3 /\ h[1] \in A /\ h[2] \in B /\ h[3] \in C
  BY Lengths DEF Fits

LEMMA FitsFour ==
  ASSUME NEW r, NEW A, NEW B, NEW C, NEW D, r.rhs = <<A, B, C, D>>, NEW h, Fits(h, r)
  PROVE  Len(r.rhs) = 4 /\ h[1] \in A /\ h[2] \in B /\ h[3] \in C /\ h[4] \in D
  BY Lengths DEF Fits

LEMMA FitsFive ==
  ASSUME NEW r, NEW A, NEW B, NEW C, NEW D, NEW E, r.rhs = <<A, B, C, D, E>>, NEW h, Fits(h, r)
  PROVE  Len(r.rhs) = 5 /\ h[1] \in A /\ h[2] \in B /\ h[3] \in C /\ h[4] \in D /\ h[5] \in E
  BY Lengths DEF Fits

\* The groups of rules, in the order of lalr_reduce.
LEMMA NumberKnown == \A r \in NumberRules : Known(r)
  <1> SUFFICES ASSUME NEW r \in NumberRules, NEW h, Fits(h, r) PROVE Instance(h, r)
    BY DEF Known
  <1>p. /\ Production("NUMBER", <<"DECIMAL_LIT">>) \in Productions
        /\ Production("NUMBER", <<"HEX_LIT">>) \in Productions
    BY DEF Productions, Documented, ExpressionGrammar, P, Production, NonTerminals
  <1>1. CASE r.lhs = "NUMBER" /\ r.rhs = <<S("DECIMAL_LIT")>>
    BY <1>p, <1>1, FitsOne, MadeOne, StandsFor DEF S
  <1>2. CASE r.lhs = "NUMBER" /\ r.rhs = <<S("HEX_LIT")>>
    BY <1>p, <1>2, FitsOne, MadeOne, StandsFor DEF S
  <1> QED
    BY <1>1, <1>2 DEF NumberRules, Rule

LEMMA HeaderKnown == \A r \in HeaderRules : Known(r)
  <1> SUFFICES ASSUME NEW r \in HeaderRules, NEW h, Fits(h, r) PROVE Instance(h, r)
    BY DEF Known
  <1>p. \A t \in Tokens : Production("HEADER", <<"MODULE", t>>) \in Productions
    BY DEF Productions, AnyHeader, P, Production, NonTerminals
  <1>1. CASE r.lhs = "HEADER" /\ r.rhs = <<S("MODULE"), Tokens>>
    <2>1. Len(r.rhs) = 2 /\ h[1] \in {"MODULE"} /\ h[2] \in Tokens
      BY <1>1, FitsTwo DEF S
    <2>2. Production(r.lhs, <<"MODULE", h[2]>>) \in Productions
      BY <1>p, <1>1, <2>1
    <2> QED
      BY <2>1, <2>2, MadeTwo, StandsFor
  <1> QED
    BY <1>1 DEF HeaderRules, Rule

LEMMA TypeNameKnown == \A r \in TypeNameRules : Known(r)
  <1> SUFFICES ASSUME NEW r \in TypeNameRules, NEW h, Fits(h, r) PROVE Instance(h, r)
    BY DEF Known
  <1>p. /\ Production("VAR_TYPE", <<"ID">>) \in Productions
        /\ Production("VAR_TYPE", <<"UNDERSCORE">>) \in Productions
    BY DEF Productions, Documented, TypeGrammar, P, Production, NonTerminals
  <1>1. CASE r.lhs = "VAR_TYPE" /\ r.rhs = <<Id>>
    BY <1>p, <1>1, FitsOne, MadeOne, StandsFor DEF Id
  <1>2. CASE r.lhs = "VAR_TYPE" /\ r.rhs = <<S("UNDERSCORE")>>
    BY <1>p, <1>2, FitsOne, MadeOne, StandsFor DEF S
  <1> QED
    BY <1>1, <1>2 DEF TypeNameRules, Rule, Under, NotBefore, Before

LEMMA ArrayTypeKnown == \A r \in ArrayTypeRules : Known(r)
  <1> SUFFICES ASSUME NEW r \in ArrayTypeRules, NEW h, Fits(h, r) PROVE Instance(h, r)
    BY DEF Known
  <1>p. /\ Production("VAR_TYPE", <<"LBRK", "ID", "SEMI", "EXPRESSION_LIST", "RBRK">>) \in Productions
        /\ Production("VAR_TYPE", <<"LBRK", "ID", "SEMI", "EXPRESSION", "RBRK">>) \in Productions
        /\ Production("VAR_TYPE", <<"LBRK", "VAR_TYPE", "SEMI", "EXPRESSION_LIST", "RBRK">>) \in Productions
    BY DEF Productions, Documented, TypeGrammar, P, Production, NonTerminals
  <1>1. CASE r.lhs = "VAR_TYPE" /\ r.rhs = <<S("LBRK"), Id, S("SEMI"), S("EXPRESSION_LIST"), S("RBRK")>>
    BY <1>p, <1>1, FitsFive, MadeFive, StandsFor DEF Id, S
  <1>2. CASE r.lhs = "VAR_TYPE" /\ r.rhs = <<S("LBRK"), Id, S("SEMI"), S("EXPRESSION"), S("RBRK")>>
    BY <1>p, <1>2, FitsFive, MadeFive, StandsFor DEF Id, S
  <1>3. CASE r.lhs = "VAR_TYPE" /\ r.rhs = <<S("LBRK"), S("VAR_TYPE"), S("SEMI"), S("EXPRESSION_LIST"), S("RBRK")>>
    BY <1>p, <1>3, FitsFive, MadeFive, StandsFor DEF S
  <1> QED
    BY <1>1, <1>2, <1>3 DEF ArrayTypeRules, Rule

LEMMA PointerTypeKnown == \A r \in PointerTypeRules : Known(r)
  <1> SUFFICES ASSUME NEW r \in PointerTypeRules, NEW h, Fits(h, r) PROVE Instance(h, r)
    BY DEF Known
  <1>p. Production("VAR_TYPE", <<"VAR_TYPE", "MUL">>) \in Productions
    BY DEF Productions, Documented, TypeGrammar, P, Production, NonTerminals
  <1>1. CASE r.lhs = "VAR_TYPE" /\ r.rhs = <<S("VAR_TYPE"), S("MUL")>>
    BY <1>p, <1>1, FitsTwo, MadeTwo, StandsFor DEF S
  <1> QED
    BY <1>1 DEF PointerTypeRules, Rule

LEMMA TypedIdKnown == \A r \in TypedIdRules : Known(r)
  <1> SUFFICES ASSUME NEW r \in TypedIdRules, NEW h, Fits(h, r) PROVE Instance(h, r)
    BY DEF Known
  <1>p. /\ Production("TYPED_ID", <<"ID", "COLON", "VAR_TYPE">>) \in Productions
        /\ Production("TYPED_ID_LIST", <<"TYPED_ID_LIST", "COMMA", "TYPED_ID">>) \in Productions
        /\ Production("TYPED_ID_LIST", <<"TYPED_ID">>) \in Productions
    BY DEF Productions, Documented, TypeGrammar, P, Production, NonTerminals
  <1>1. CASE r.lhs = "TYPED_ID" /\ r.rhs = <<Id, S("COLON"), S("VAR_TYPE")>>
    BY <1>p, <1>1, FitsThree, MadeThree, StandsFor DEF Id, S
  <1>2. CASE r.lhs = "TYPED_ID_LIST" /\ r.rhs = <<S("TYPED_ID_LIST"), S("COMMA"), S("TYPED_ID")>>
    BY <1>p, <1>2, FitsThree, MadeThree, StandsFor DEF S
  <1>3. CASE r.lhs = "TYPED_ID_LIST" /\ r.rhs = <<S("TYPED_ID")>>
    BY <1>p, <1>3, FitsOne, MadeOne, StandsFor DEF S
  <1> QED
    BY <1>1, <1>2, <1>3 DEF TypedIdRules, Rule, NotBefore, Before

LEMMA FactorKnown == \A r \in FactorRules : Known(r)
  <1> SUFFICES ASSUME NEW r \in FactorRules, NEW h, Fits(h, r) PROVE Instance(h, r)
    BY DEF Known
  <1>p. /\ Production("FACTOR", <<"ID">>) \in Productions
        /\ Production("FACTOR", <<"NUMBER">>) \in Productions
        /\ Production("FACTOR", <<"STRING_LIT">>) \in Productions
        /\ Production("FACTOR", <<"FUNC_CALL">>) \in Productions
        /\ Production("FACTOR", <<"DEREF">>) \in Productions
    BY DEF Productions, Documented, ExpressionGrammar, P, Production, NonTerminals
  <1>1. CASE r.lhs = "FACTOR" /\ r.rhs = <<S("ID")>>
    BY <1>p, <1>1, FitsOne, MadeOne, StandsFor DEF S
  <1>2. CASE r.lhs = "FACTOR" /\ r.rhs = <<S("NUMBER")>>
    BY <1>p, <1>2, FitsOne, MadeOne, StandsFor DEF S
  <1>3. CASE r.lhs = "FACTOR" /\ r.rhs = <<S("STRING_LIT")>>
    BY <1>p, <1>3, FitsOne, MadeOne, StandsFor DEF S
  <1>4. CASE r.lhs = "FACTOR" /\ r.rhs = <<S("FUNC_CALL")>>
    BY <1>p, <1>4, FitsOne, MadeOne, StandsFor DEF S
  <1>5. CASE r.lhs = "FACTOR" /\ r.rhs = <<S("DEREF")>>
    BY <1>p, <1>5, FitsOne, MadeOne, StandsFor DEF S
  <1> QED
    BY <1>1, <1>2, <1>3, <1>4, <1>5 DEF FactorRules, Rule, NotBefore

LEMMA ParenthesesKnown == \A r \in ParenthesesRules : Known(r)
  <1> SUFFICES ASSUME NEW r \in ParenthesesRules, NEW h, Fits(h, r) PROVE Instance(h, r)
    BY DEF Known
  <1>p. Production("FACTOR", <<"LP", "EXPRESSION", "RP">>) \in Productions
    BY DEF Productions, Documented, ExpressionGrammar, P, Production, NonTerminals
  <1>1. CASE r.lhs = "FACTOR" /\ r.rhs = <<S("LP"), S("EXPRESSION"), S("RP")>>
    BY <1>p, <1>1, FitsThree, MadeThree, StandsFor DEF S
  <1> QED
    BY <1>1 DEF ParenthesesRules, Parentheses, Rule, Under

LEMMA TermKnown == \A r \in TermRules : Known(r)
  <1> SUFFICES ASSUME NEW r \in TermRules, NEW h, Fits(h, r) PROVE Instance(h, r)
    BY DEF Known
  <1>p. /\ \A op \in Mulops : Production("TERM", <<"TERM", op, "FACTOR">>) \in Productions
        /\ Production("TERM", <<"FACTOR">>) \in Productions
    BY DEF Productions, Documented, ExpressionGrammar, P, Production, NonTerminals
  <1>1. CASE r.lhs = "TERM" /\ r.rhs = <<S("TERM"), Mulops, S("FACTOR")>>
    <2>1. Len(r.rhs) = 3 /\ h[1] \in {"TERM"} /\ h[2] \in Mulops /\ h[3] \in {"FACTOR"}
      BY <1>1, FitsThree DEF S
    <2>2. Production(r.lhs, <<"TERM", h[2], "FACTOR">>) \in Productions
      BY <1>p, <1>1, <2>1
    <2> QED
      BY <2>1, <2>2, MadeThree, StandsFor
  <1>2. CASE r.lhs = "TERM" /\ r.rhs = <<S("FACTOR")>>
    BY <1>p, <1>2, FitsOne, MadeOne, StandsFor DEF S
  <1> QED
    BY <1>1, <1>2 DEF TermRules, Rule

LEMMA MathKnown == \A r \in MathRules : Known(r)
  <1> SUFFICES ASSUME NEW r \in MathRules, NEW h, Fits(h, r) PROVE Instance(h, r)
    BY DEF Known
  <1>p. /\ \A op \in Addops : Production("MATH_EXPR", <<"MATH_EXPR", op, "TERM">>) \in Productions
        /\ Production("MATH_EXPR", <<"TERM">>) \in Productions
    BY DEF Productions, Documented, ExpressionGrammar, P, Production, NonTerminals
  <1>1. CASE r.lhs = "MATH_EXPR" /\ r.rhs = <<S("MATH_EXPR"), Addops, S("TERM")>>
    <2>1. Len(r.rhs) = 3 /\ h[1] \in {"MATH_EXPR"} /\ h[2] \in Addops /\ h[3] \in {"TERM"}
      BY <1>1, FitsThree DEF S
    <2>2. Production(r.lhs, <<"MATH_EXPR", h[2], "TERM">>) \in Productions
      BY <1>p, <1>1, <2>1
    <2> QED
      BY <2>1, <2>2, MadeThree, StandsFor
  <1>2. CASE r.lhs = "MATH_EXPR" /\ r.rhs = <<S("TERM")>>
    BY <1>p, <1>2, FitsOne, MadeOne, StandsFor DEF S
  <1> QED
    BY <1>1, <1>2 DEF MathRules, Rule, NotBefore

LEMMA RelationalKnown == \A r \in RelationalRules : Known(r)
  <1> SUFFICES ASSUME NEW r \in RelationalRules, NEW h, Fits(h, r) PROVE Instance(h, r)
    BY DEF Known
  <1>p. /\ \A op \in Relops : Production("RELATE", <<"RELATE", op, "MATH_EXPR">>) \in Productions
        /\ Production("RELATE", <<"MATH_EXPR">>) \in Productions
    BY DEF Productions, Documented, ExpressionGrammar, P, Production, NonTerminals
  <1>1. CASE r.lhs = "RELATE" /\ r.rhs = <<S("RELATE"), Relops, S("MATH_EXPR")>>
    <2>1. Len(r.rhs) = 3 /\ h[1] \in {"RELATE"} /\ h[2] \in Relops /\ h[3] \in {"MATH_EXPR"}
      BY <1>1, FitsThree DEF S
    <2>2. Production(r.lhs, <<"RELATE", h[2], "MATH_EXPR">>) \in Productions
      BY <1>p, <1>1, <2>1
    <2> QED
      BY <2>1, <2>2, MadeThree, StandsFor
  <1>2. CASE r.lhs = "RELATE" /\ r.rhs = <<S("MATH_EXPR")>>
    BY <1>p, <1>2, FitsOne, MadeOne, StandsFor DEF S
  <1> QED
    BY <1>1, <1>2 DEF RelationalRules, Rule, NotBefore

LEMMA ConjKnown == \A r \in ConjRules : Known(r)
  <1> SUFFICES ASSUME NEW r \in ConjRules, NEW h, Fits(h, r) PROVE Instance(h, r)
    BY DEF Known
  <1>p. /\ Production("LOGIC_CONJ", <<"LOGIC_CONJ", "LAND", "RELATE">>) \in Productions
        /\ Production("LOGIC_CONJ", <<"RELATE">>) \in Productions
    BY DEF Productions, Documented, ExpressionGrammar, P, Production, NonTerminals
  <1>1. CASE r.lhs = "LOGIC_CONJ" /\ r.rhs = <<S("LOGIC_CONJ"), S("LAND"), S("RELATE")>>
    <2>1. Len(r.rhs) = 3 /\ h[1] \in {"LOGIC_CONJ"} /\ h[2] \in {"LAND"} /\ h[3] \in {"RELATE"}
      BY <1>1, FitsThree DEF S
    <2>2. Production(r.lhs, <<"LOGIC_CONJ", "LAND", "RELATE">>) \in Productions
      BY <1>p, <1>1, <2>1
    <2> QED
      BY <2>1, <2>2, MadeThree, StandsFor
  <1>2. CASE r.lhs = "LOGIC_CONJ" /\ r.rhs = <<S("RELATE")>>
    BY <1>p, <1>2, FitsOne, MadeOne, StandsFor DEF S
  <1> QED
    BY <1>1, <1>2 DEF ConjRules, Rule, NotBefore

LEMMA DisjKnown == \A r \in DisjRules : Known(r)
  <1> SUFFICES ASSUME NEW r \in DisjRules, NEW h, Fits(h, r) PROVE Instance(h, r)
    BY DEF Known
  <1>p. /\ Production("LOGIC_DISJ", <<"LOGIC_DISJ", "LOR", "LOGIC_CONJ">>) \in Productions
        /\ Production("LOGIC_DISJ", <<"LOGIC_CONJ">>) \in Productions
    BY DEF Productions, Documented, ExpressionGrammar, P, Production, NonTerminals
  <1>1. CASE r.lhs = "LOGIC_DISJ" /\ r.rhs = <<S("LOGIC_DISJ"), S("LOR"), S("LOGIC_CONJ")>>
    <2>1. Len(r.rhs) = 3 /\ h[1] \in {"LOGIC_DISJ"} /\ h[2] \in {"LOR"} /\ h[3] \in {"LOGIC_CONJ"}
      BY <1>1, FitsThree DEF S
    <2>2. Production(r.lhs, <<"LOGIC_DISJ", "LOR", "LOGIC_CONJ">>) \in Productions
      BY <1>p, <1>1, <2>1
    <2> QED
      BY <2>1, <2>2, MadeThree, StandsFor
  <1>2. CASE r.lhs = "LOGIC_DISJ" /\ r.rhs = <<S("LOGIC_CONJ")>>
    BY <1>p, <1>2, FitsOne, MadeOne, StandsFor DEF S
  <1> QED
    BY <1>1, <1>2 DEF DisjRules, Rule, NotBefore

LEMMA ExpressionKnown == \A r \in ExpressionRules : Known(r)
  <1> SUFFICES ASSUME NEW r \in ExpressionRules, NEW h, Fits(h, r) PROVE Instance(h, r)
    BY DEF Known
  <1>p. Production("EXPRESSION", <<"LOGIC_DISJ">>) \in Productions
    BY DEF Productions, Documented, ExpressionGrammar, P, Production, NonTerminals
  <1>1. CASE r.lhs = "EXPRESSION" /\ r.rhs = <<S("LOGIC_DISJ")>>
    BY <1>p, <1>1, FitsOne, MadeOne, StandsFor DEF S
  <1> QED
    BY <1>1 DEF ExpressionRules, Rule, NotBefore

LEMMA ExpressionListKnown == \A r \in ExpressionListRules : Known(r)
  <1> SUFFICES ASSUME NEW r \in ExpressionListRules, NEW h, Fits(h, r) PROVE Instance(h, r)
    BY DEF Known
  <1>p. /\ Production("EXPRESSION_LIST", <<"EXPRESSION_LIST", "COMMA", "EXPRESSION">>) \in Productions
        /\ Production("EXPRESSION_LIST", <<"EXPRESSION">>) \in Productions
    BY DEF Productions, Documented, ExpressionGrammar, P, Production, NonTerminals
  <1>1. CASE r.lhs = "EXPRESSION_LIST" /\ r.rhs = <<S("EXPRESSION_LIST"), S("COMMA"), S("EXPRESSION")>>
    BY <1>p, <1>1, FitsThree, MadeThree, StandsFor DEF S
  <1>2. CASE r.lhs = "EXPRESSION_LIST" /\ r.rhs = <<S("EXPRESSION")>>
    BY <1>p, <1>2, FitsOne, MadeOne, StandsFor DEF S
  <1> QED
    BY <1>1, <1>2 DEF ExpressionListRules, Rule, Before

LEMMA DerefKnown == \A r \in DerefRules : Known(r)
  <1> SUFFICES ASSUME NEW r \in DerefRules, NEW h, Fits(h, r) PROVE Instance(h, r)
    BY DEF Known
  <1>p. /\ Production("DEREF", <<"ID", "LBRK", "EXPRESSION_LIST", "RBRK">>) \in Productions
        /\ Production("DEREF", <<"ID", "LBRK", "EXPRESSION", "RBRK">>) \in Productions
    BY DEF Productions, Documented, ExpressionGrammar, P, Production, NonTerminals
  <1>1. CASE r.lhs = "DEREF" /\ r.rhs = <<Id, S("LBRK"), S("EXPRESSION_LIST"), S("RBRK")>>
    BY <1>p, <1>1, FitsFour, MadeFour, StandsFor DEF Id, S
  <1>2. CASE r.lhs = "DEREF" /\ r.rhs = <<Id, S("LBRK"), S("EXPRESSION"), S("RBRK")>>
    BY <1>p, <1>2, FitsFour, MadeFour, StandsFor DEF Id, S
  <1> QED
    BY <1>1, <1>2 DEF DerefRules, Rule

LEMMA CallKnown == \A r \in CallRules : Known(r)
  <1> SUFFICES ASSUME NEW r \in CallRules, NEW h, Fits(h, r) PROVE Instance(h, r)
    BY DEF Known
  <1>p. /\ Production("FUNC_CALL", <<"ID", "LP", "EXPRESSION_LIST", "RP">>) \in Productions
        /\ Production("FUNC_CALL", <<"ID", "LP", "RP">>) \in Productions
        /\ Production("FUNC_CALL", <<"ID", "LP", "EXPRESSION", "RP">>) \in Productions
    BY DEF Productions, Documented, ExpressionGrammar, P, Production, NonTerminals
  <1>1. CASE r.lhs = "FUNC_CALL" /\ r.rhs = <<Id, S("LP"), S("EXPRESSION_LIST"), S("RP")>>
    BY <1>p, <1>1, FitsFour, MadeFour, StandsFor DEF Id, S
  <1>2. CASE r.lhs = "FUNC_CALL" /\ r.rhs = <<Id, S("LP"), S("RP")>>
    BY <1>p, <1>2, FitsThree, MadeThree, StandsFor DEF Id, S
  <1>3. CASE r.lhs = "FUNC_CALL" /\ r.rhs = <<Id, S("LP"), S("EXPRESSION"), S("RP")>>
    BY <1>p, <1>3, FitsFour, MadeFour, StandsFor DEF Id, S
  <1> QED
    BY <1>1, <1>2, <1>3 DEF CallRules, Rule

LEMMA FuncHeaderKnown == \A r \in FuncHeaderRules : Known(r)
  <1> SUFFICES ASSUME NEW r \in FuncHeaderRules, NEW h, Fits(h, r) PROVE Instance(h, r)
    BY DEF Known
  <1>p. /\ Production("FUNC_HEADER", <<"TYPED_ID_LIST", "ARROW", "VAR_TYPE">>) \in Productions
        /\ Production("FUNC_HEADER", <<"VAR_TYPE", "ARROW", "VAR_TYPE">>) \in Productions
    BY DEF Productions, Documented, TypeGrammar, P, Production, NonTerminals
  <1>1. CASE r.lhs = "FUNC_HEADER" /\ r.rhs = <<S("TYPED_ID_LIST"), S("ARROW"), S("VAR_TYPE")>>
    BY <1>p, <1>1, FitsThree, MadeThree, StandsFor DEF S
  <1>2. CASE r.lhs = "FUNC_HEADER" /\ r.rhs = <<S("VAR_TYPE"), S("ARROW"), S("VAR_TYPE")>>
    BY <1>p, <1>2, FitsThree, MadeThree, StandsFor DEF S
  <1> QED
    BY <1>1, <1>2 DEF FuncHeaderRules, Rule, NotBefore

LEMMA IfKnown == \A r \in IfRules : Known(r)
  <1> SUFFICES ASSUME NEW r \in IfRules, NEW h, Fits(h, r) PROVE Instance(h, r)
    BY DEF Known
  <1>p. Production("NT_IF", <<"IF", "EXPRESSION", "BLOCK">>) \in Productions
    BY DEF Productions, Documented, StatementGrammar, P, Production, NonTerminals
  <1>1. CASE r.lhs = "NT_IF" /\ r.rhs = <<S("IF"), S("EXPRESSION"), S("BLOCK")>>
    BY <1>p, <1>1, FitsThree, MadeThree, StandsFor DEF S
  <1> QED
    BY <1>1 DEF IfRules, Rule

LEMMA AssignmentKnown == \A r \in AssignmentRules : Known(r)
  <1> SUFFICES ASSUME NEW r \in AssignmentRules, NEW h, Fits(h, r) PROVE Instance(h, r)
    BY DEF Known
  <1>p. /\ Production("ASSIGNMENT", <<"TYPED_ID", "EQ", "EXPRESSION">>) \in Productions
        /\ Production("ASSIGNMENT", <<"ID", "EQ", "EXPRESSION">>) \in Productions
    BY DEF Productions, Documented, StatementGrammar, P, Production, NonTerminals
  <1>1. CASE r.lhs = "ASSIGNMENT" /\ r.rhs = <<S("TYPED_ID"), S("EQ"), S("EXPRESSION")>>
    BY <1>p, <1>1, FitsThree, MadeThree, StandsFor DEF S
  <1>2. CASE r.lhs = "ASSIGNMENT" /\ r.rhs = <<Id, S("EQ"), S("EXPRESSION")>>
    BY <1>p, <1>2, FitsThree, MadeThree, StandsFor DEF Id, S
  <1> QED
    BY <1>1, <1>2 DEF AssignmentRules, Rule

LEMMA StatementListKnown == \A r \in StatementListRules : Known(r)
  <1> SUFFICES ASSUME NEW r \in StatementListRules, NEW h, Fits(h, r) PROVE Instance(h, r)
    BY DEF Known
  <1>p. /\ Production("STATEMENT_LIST", <<"STATEMENT_LIST", "STATEMENT">>) \in Productions
        /\ Production("STATEMENT_LIST", <<"STATEMENT">>) \in Productions
    BY DEF Productions, Documented, StatementGrammar, P, Production, NonTerminals
  <1>1. CASE r.lhs = "STATEMENT_LIST" /\ r.rhs = <<S("STATEMENT_LIST"), S("STATEMENT")>>
    BY <1>p, <1>1, FitsTwo, MadeTwo, StandsFor DEF S
  <1>2. CASE r.lhs = "STATEMENT_LIST" /\ r.rhs = <<S("STATEMENT")>>
    BY <1>p, <1>2, FitsOne, MadeOne, StandsFor DEF S
  <1> QED
    BY <1>1, <1>2 DEF StatementListRules, Rule

LEMMA StatementKnown == \A r \in StatementRules : Known(r)
  <1> SUFFICES ASSUME NEW r \in StatementRules, NEW h, Fits(h, r) PROVE Instance(h, r)
    BY DEF Known
  <1>p. /\ Production("STATEMENT", <<"ASSIGNMENT">>) \in Productions
        /\ Production("STATEMENT", <<"NT_IF">>) \in Productions
        /\ Production("STATEMENT", <<"RETURN", "EXPRESSION">>) \in Productions
        /\ Production("STATEMENT", <<"EXPRESSION">>) \in Productions
    BY DEF Productions, Documented, StatementGrammar, P, Production, NonTerminals
  <1>1. CASE r.lhs = "STATEMENT" /\ r.rhs = <<S("ASSIGNMENT")>>
    BY <1>p, <1>1, FitsOne, MadeOne, StandsFor DEF S
  <1>2. CASE r.lhs = "STATEMENT" /\ r.rhs = <<S("NT_IF")>>
    BY <1>p, <1>2, FitsOne, MadeOne, StandsFor DEF S
  <1>3. CASE r.lhs = "STATEMENT" /\ r.rhs = <<S("RETURN"), S("EXPRESSION")>>
    BY <1>p, <1>3, FitsTwo, MadeTwo, StandsFor DEF S
  <1>4. CASE r.lhs = "STATEMENT" /\ r.rhs = <<S("EXPRESSION")>>
    BY <1>p, <1>4, FitsOne, MadeOne, StandsFor DEF S
  <1> QED
    BY <1>1, <1>2, <1>3, <1>4 DEF StatementRules, Rule, Under

LEMMA BlockKnown == \A r \in BlockRules : Known(r)
  <1> SUFFICES ASSUME NEW r \in BlockRules, NEW h, Fits(h, r) PROVE Instance(h, r)
    BY DEF Known
  <1>p. /\ Production("BLOCK", <<"LBRC", "RBRC">>) \in Productions
        /\ Production("BLOCK", <<"LBRC", "STATEMENT_LIST", "RBRC">>) \in Productions
    BY DEF Productions, Documented, StatementGrammar, P, Production, NonTerminals
  <1>1. CASE r.lhs = "BLOCK" /\ r.rhs = <<S("LBRC"), S("RBRC")>>
    BY <1>p, <1>1, FitsTwo, MadeTwo, StandsFor DEF S
  <1>2. CASE r.lhs = "BLOCK" /\ r.rhs = <<S("LBRC"), S("STATEMENT_LIST"), S("RBRC")>>
    BY <1>p, <1>2, FitsThree, MadeThree, StandsFor DEF S
  <1> QED
    BY <1>1, <1>2 DEF BlockRules, Rule

LEMMA FunctionKnown == \A r \in FunctionRules : Known(r)
  <1> SUFFICES ASSUME NEW r \in FunctionRules, NEW h, Fits(h, r) PROVE Instance(h, r)
    BY DEF Known
  <1>p. Production("FUNCTION", <<"ID", "EQ", "FUNC_HEADER", "BLOCK">>) \in Productions
    BY DEF Productions, Documented, ProgramGrammar, P, Production, NonTerminals
  <1>1. CASE r.lhs = "FUNCTION" /\ r.rhs = <<Id, S("EQ"), S("FUNC_HEADER"), S("BLOCK")>>
    BY <1>p, <1>1, FitsFour, MadeFour, StandsFor DEF Id, S
  <1> QED
    BY <1>1 DEF FunctionRules, Rule

\* No condition of lalr_reduce puts together what no production does.
LEMMA RulesDocumented == \A r \in Rules : Known(r)
  BY NumberKnown, HeaderKnown, TypeNameKnown, ArrayTypeKnown, PointerTypeKnown,
     TypedIdKnown, FactorKnown, ParenthesesKnown, TermKnown, MathKnown,
     RelationalKnown, ConjKnown, DisjKnown, ExpressionKnown,
     ExpressionListKnown, DerefKnown, CallKnown, FuncHeaderKnown, IfKnown,
     AssignmentKnown, StatementListKnown, StatementKnown, BlockKnown,
     FunctionKnown
  DEF Rules

-----------------------------------------------------------------------------
(* What the nodes of a handle cover. *)

\* A part of a part.
LEMMA PartOfPart ==
  ASSUME NEW T, NEW v \in Seq(T), NEW a \in 1..Len(v), NEW b \in a..Len(v),
         NEW c \in 1..(b - a + 1), NEW d \in c..(b - a + 1)
  PROVE  SubSeq(SubSeq(v, a, b), c, d) = SubSeq(v, a + c - 1, a + d - 1)
  OBVIOUS

\* A part of an input is one of the words.
LEMMA PartIsWord ==
  ASSUME NEW v \in Inputs, NEW a \in 1..Len(v), NEW b \in a..Len(v)
  PROVE  /\ SubSeq(v, a, b) \in Words
         /\ Len(SubSeq(v, a, b)) = b - a + 1
  <1>1. v \in Seq(Tokens) /\ Len(v) \in Nat /\ DOMAIN v = 1..Len(v)
    BY InputsAssumption
  <1> DEFINE e == SubSeq(v, a, Len(v))
             q == b - a + 1
  <1>2. a \in Positions /\ q \in Positions
    BY <1>1 DEF Positions
  <1>3. e \in Ends
    BY <1>2 DEF Ends
  <1>4. e \in Seq(Tokens) /\ Len(e) = Len(v) - a + 1 /\ q \in 1..Len(e)
    BY <1>1
  <1>5. SubSeq(e, 1, q) = SubSeq(v, a, b)
    <2>1. /\ a \in 1..Len(v) /\ Len(v) \in a..Len(v)
          /\ 1 \in 1..(Len(v) - a + 1) /\ q \in 1..(Len(v) - a + 1)
          /\ a + 1 - 1 = a /\ a + q - 1 = b
      BY <1>1
    <2> HIDE DEF q
    <2> QED
      BY <1>1, <2>1, PartOfPart
  <1> HIDE DEF e, q
  <1>6. q \in DOMAIN e
    BY <1>4
  <1>7. SubSeq(e, 1, IF q \in DOMAIN e THEN q ELSE 0) \in Words
    BY <1>2, <1>3 DEF Words
  <1>8. SubSeq(e, 1, q) \in Words
    BY <1>6, <1>7
  <1>9. Len(SubSeq(v, a, b)) = b - a + 1
    BY <1>1
  <1> QED
    BY <1>5, <1>8, <1>9

\* What the stack holds under a handle of k nodes: the node at depth j of the
\* handle covers the j-th piece of what the handle covers.
LEMMA HandlePieces ==
  ASSUME TypeOK, TilesInput, NEW k \in 1..5, k <= Depth,
         NEW m, m = Depth - k + 1,
         NEW j \in 1..k
  PROVE  /\ m \in 1..Depth /\ m + j - 1 \in m..Depth
         /\ stack[m].from \in 1..Len(input)
         /\ stack[Depth].to \in stack[m].from..Len(input)
         /\ stack[m + j - 1].from \in stack[m].from..stack[m + j - 1].to
         /\ stack[m + j - 1].to \in stack[m].from..stack[Depth].to
         /\ j > 1 => stack[m + j - 1].from = stack[m + j - 2].to + 1
  <1>1. /\ Depth \in Nat
        /\ \A i \in 1..Depth : /\ stack[i].from \in Nat /\ stack[i].to \in Nat
                               /\ stack[i].from <= stack[i].to
                               /\ i > 1 => stack[i].from = stack[i - 1].to + 1
        /\ pos \in Nat /\ Len(input) \in Nat /\ pos <= Len(input)
    BY StackNodes DEF TypeOK, TilesInput
  <1> DEFINE q == m + j - 1
  <1>2. /\ m \in 1..Depth /\ q \in m..Depth /\ q \in 1..Depth /\ Depth \in q..Depth
        /\ Depth \in m..Depth /\ q - m <= 4 /\ Depth - q <= 4 /\ Depth - m <= 4
        /\ j > 1 => q > 1 /\ q - 1 = m + j - 2
    <2> HIDE DEF q
    <2>q. q = m + j - 1
      BY DEF q
    <2> QED
      BY <1>1, <2>q
  <1>3. stack[Depth].to = pos /\ stack[1].from = 1
    <2>1. Depth > 0
      BY <1>1, <1>2
    <2>2. Depth > 0 => stack[1].from = 1 /\ stack[Depth].to = pos
      BY Zenon DEF TilesInput
    <2> QED
      BY <2>1, <2>2
  <1> HIDE DEF q
  <1>4. stack[m].from <= stack[q].from /\ stack[q].to <= stack[Depth].to
    BY <1>2, InOrder
  <1>5. stack[m].from >= 1
    <2>1. CASE m = 1
      BY <1>3, <2>1
    <2>2. CASE m > 1
      <3>1. m - 1 \in 1..Depth /\ stack[m].from = stack[m - 1].to + 1
        BY <1>1, <1>2, <2>2
      <3> QED
        BY <1>1, <3>1
    <2> QED
      BY <1>1, <1>2, <2>1, <2>2
  <1>6. /\ stack[m].from \in Nat /\ stack[q].from \in Nat /\ stack[q].to \in Nat
        /\ stack[Depth].to \in Nat /\ stack[q].from <= stack[q].to
    BY <1>1, <1>2
  <1>7. j > 1 => stack[q].from = stack[q - 1].to + 1
    BY <1>1, <1>2
  <1>8. stack[m].from \in 1..Len(input)
    BY <1>1, <1>3, <1>4, <1>5, <1>6
  <1>9. stack[Depth].to \in stack[m].from..Len(input)
    BY <1>1, <1>3, <1>4, <1>6
  <1>10. stack[q].from \in stack[m].from..stack[q].to
    BY <1>4, <1>6
  <1>11. stack[q].to \in stack[m].from..stack[Depth].to
    BY <1>4, <1>6
  <1>12. j > 1 => stack[q].from = stack[m + j - 2].to + 1
    BY <1>2, <1>7
  <1> QED
    BY <1>2, <1>8, <1>9, <1>10, <1>11, <1>12, Zenon DEF q

\* Whatever a node on the stack stands for, it covers.
LEMMA StackCovers ==
  ASSUME TypeOK, TilesInput, NEW L \in Languages, NodesIn(L),
         NEW i \in 1..Depth, stack[i].from \in 1..Len(input),
         NEW sym, stack[i].sym \in Stands(sym)
  PROVE  Covers(L, sym, SubSeq(input, stack[i].from, stack[i].to))
  <1> DEFINE w == SubSeq(input, stack[i].from, stack[i].to)
  <1>1. stack[i].sym \in Symbols /\ input \in Seq(Tokens)
    BY StackNodes DEF TypeOK
  <1>2. CASE sym \in NonTerminals
    <2>1. stack[i].sym = sym
      BY <1>2 DEF Stands, NonTerminals
    <2>2. w \in L[sym]
      BY <1>2, <2>1 DEF NodesIn
    <2> QED
      BY <1>2, <2>2 DEF Covers
  <1>3. CASE sym \notin NonTerminals
    <2>1. stack[i].sym \in Tokens
      BY <1>1, <1>3 DEF Stands, Symbols, Tokens
    <2>2. stack[i].from = stack[i].to /\ stack[i].sym = TypeOf(stack[i].from)
      BY <2>1 DEF TilesInput
    <2>3. TypeOf(stack[i].from) = input[stack[i].from]
      BY <1>1, TypeOfInput
    <2>4. Len(w) = 1 /\ w[1] = input[stack[i].from]
      <3> DEFINE f == stack[i].from
      <3>1. f \in 1..Len(input) /\ w = SubSeq(input, f, f)
        BY <2>2
      <3> HIDE DEF f, w
      <3>2. Len(w) = 1 /\ w[1] = input[f]
        BY <1>1, <3>1
      <3> QED
        BY <3>2 DEF f, w
    <2> HIDE DEF w
    <2> QED
      BY <1>3, <2>2, <2>3, <2>4 DEF Covers, w
  <1> QED
    BY <1>2, <1>3

\* The node a reduction builds covers a string of its kind: the handle is the
\* right-hand side of a production, and what its nodes cover are the pieces.
LEMMA BuiltDerived ==
  ASSUME IInv, input \in Inputs, NEW L \in Languages, Closed(L), NodesIn(L),
         NEW r \in Takeable
  PROVE  SubSeq(input, Built(r).from, Built(r).to) \in L[r.lhs]
  <1> DEFINE k == Len(r.rhs)
             m == Depth - k + 1
             h == [j \in 1..k |-> stack[m + j - 1].sym]
  <1>1. k \in 1..5 /\ k <= Depth
    BY TakenRule DEF IInv
  <1>2. r \in Rules /\ Matches(r)
    BY DEF Takeable
  <1>3. Depth \in Nat /\ TypeOK /\ TilesInput
    BY StackNodes DEF IInv
  <1>4. Fits(h, r)
    <2> SUFFICES ASSUME NEW j \in 1..k PROVE h[j] \in r.rhs[j]
      BY DEF Fits
    <2>1. k - j \in 0..(k - 1) /\ k - (k - j) = j /\ Depth - (k - j) = m + j - 1
          /\ k - j < Depth
      BY <1>1, <1>3
    <2>2. Peek(k - j) \in r.rhs[j]
      BY <1>2, <2>1 DEF Matches
    <2>3. Peek(k - j) = stack[m + j - 1].sym
      BY <2>1 DEF Peek
    <2> QED
      BY <2>2, <2>3
  <1>5. Instance(h, r)
    BY <1>2, <1>4, RulesDocumented DEF Known
  <1>6. PICK p \in Productions : /\ p.lhs = r.lhs
                                 /\ Len(p.rhs) = k
                                 /\ \A j \in 1..k : h[j] \in Stands(p.rhs[j])
    BY <1>5 DEF Instance
  <1>m. m = Depth - k + 1
    OBVIOUS
  <1>h. \A j \in 1..k : h[j] = stack[m + j - 1].sym
    OBVIOUS
  <1>b. Built(r).from = stack[m].from /\ Built(r).to = stack[Depth].to
    BY BuiltNode DEF IInv
  <1> HIDE DEF k, m, h
  <1> DEFINE a == stack[m].from
             b == stack[Depth].to
             w == SubSeq(input, a, b)
             n == b - a + 1
             cut == [j \in 0..k |-> IF j = 0 THEN 0 ELSE stack[m + j - 1].to - a + 1]
  <1>7. \A j \in 1..k :
           /\ m \in 1..Depth /\ m + j - 1 \in m..Depth
           /\ a \in 1..Len(input)
           /\ b \in a..Len(input)
           /\ stack[m + j - 1].from \in a..stack[m + j - 1].to
           /\ stack[m + j - 1].to \in a..b
           /\ j > 1 => stack[m + j - 1].from = stack[m + j - 2].to + 1
    BY <1>1, <1>3, <1>m, HandlePieces
  <1>8. 1 \in 1..k /\ a \in 1..Len(input) /\ b \in a..Len(input) /\ Len(input) \in Nat
        /\ input \in Seq(Tokens)
    BY <1>1, <1>3, <1>7 DEF TypeOK
  <1>9. w \in Words /\ Len(w) = n
    BY <1>8, PartIsWord
  <1>e. stack[m + k - 1].to = b /\ stack[m].from = a
    BY <1>1, <1>3, <1>m
  <1>c. /\ cut[0] = 0
        /\ \A j \in 1..k : cut[j] = stack[m + j - 1].to - a + 1
        /\ \A j \in 1..k : cut[j - 1] = stack[m + j - 1].from - a
    <2>1. cut[0] = 0 /\ \A j \in 1..k : cut[j] = stack[m + j - 1].to - a + 1
      BY <1>1
    <2>2. ASSUME NEW j \in 1..k
          PROVE  cut[j - 1] = stack[m + j - 1].from - a
      <3>1. CASE j = 1
        <4>1. cut[j - 1] = 0 /\ m + j - 1 = m
          BY <1>3, <1>1, <1>m, <2>1, <3>1
        <4> HIDE DEF cut
        <4> QED
          BY <1>8, <4>1
      <3>2. CASE j # 1
        <4>1. j - 1 \in 1..k /\ j > 1 /\ m + (j - 1) - 1 = m + j - 2
          BY <1>1, <1>3, <1>m, <3>2
        <4>2. cut[j - 1] = stack[m + j - 2].to - a + 1
          BY <2>1, <4>1
        <4>3. stack[m + j - 2].to \in a..b
          BY <1>7, <4>1
        <4>4. stack[m + j - 1].from = stack[m + j - 2].to + 1
          BY <1>7, <4>1
        <4> HIDE DEF cut
        <4> QED
          BY <1>8, <4>2, <4>3, <4>4
      <3> QED
        BY <3>1, <3>2
    <2> QED
      BY <2>1, <2>2
  <1> HIDE DEF w
  <1>10. cut \in Cuts(k, n)
    <2>1. \A j \in 0..k : cut[j] \in 0..n
      <3> SUFFICES ASSUME NEW j \in 0..k PROVE cut[j] \in 0..n
        OBVIOUS
      <3>1. CASE j = 0
        BY <1>8, <1>c, <3>1
      <3>2. CASE j # 0
        <4>1. j \in 1..k
          BY <3>2
        <4>2. cut[j] = stack[m + j - 1].to - a + 1 /\ stack[m + j - 1].to \in a..b
          BY <1>7, <1>c, <4>1
        <4> HIDE DEF cut
        <4> QED
          BY <1>8, <4>2
      <3> QED
        BY <3>1, <3>2
    <2>2. cut[k] = n
      BY <1>1, <1>c, <1>e
    <2>3. \A j \in 1..k : cut[j - 1] < cut[j]
      <3> SUFFICES ASSUME NEW j \in 1..k PROVE cut[j - 1] < cut[j]
        OBVIOUS
      <3>1. /\ cut[j] = stack[m + j - 1].to - a + 1
            /\ cut[j - 1] = stack[m + j - 1].from - a
            /\ stack[m + j - 1].from \in a..stack[m + j - 1].to
            /\ stack[m + j - 1].to \in a..b
        BY <1>7, <1>c
      <3> HIDE DEF cut
      <3> QED
        BY <1>8, <3>1
    <2>4. cut \in [0..k -> 0..n]
      BY <2>1
    <2> QED
      BY <1>c, <2>2, <2>3, <2>4 DEF Cuts
  <1>11. ASSUME NEW j \in 1..k
         PROVE  Covers(L, p.rhs[j], Piece(w, cut, j))
    <2> DEFINE i == m + j - 1
    <2>1. i \in 1..Depth /\ stack[i].from \in 1..Len(input)
      <3>1. m \in 1..Depth /\ i \in m..Depth
        BY <1>7
      <3>2. stack[i].from \in a..stack[i].to /\ stack[i].to \in a..b
        BY <1>7
      <3> HIDE DEF a, b, i
      <3> QED
        BY <1>3, <1>8, <3>1, <3>2
    <2>2. stack[i].sym \in Stands(p.rhs[j])
      BY <1>6, <1>h
    <2>3. Covers(L, p.rhs[j], SubSeq(input, stack[i].from, stack[i].to))
      <3> HIDE DEF i
      <3> QED
        BY <1>3, <2>1, <2>2, StackCovers
    <2>4. Piece(w, cut, j) = SubSeq(input, stack[i].from, stack[i].to)
      <3> DEFINE s == stack[i].from
                 t == stack[i].to
                 c == s - a + 1
                 d == t - a + 1
      <3>1. cut[j - 1] + 1 = c /\ cut[j] = d
        BY <1>c
      <3>2. s \in a..t /\ t \in a..b
        BY <1>7
      <3> HIDE DEF cut, i, a, b, s, t
      <3>3. /\ c \in 1..(b - a + 1) /\ d \in c..(b - a + 1)
            /\ a + c - 1 = s /\ a + d - 1 = t
        BY <1>8, <3>2
      <3> HIDE DEF c, d
      <3>4. SubSeq(SubSeq(input, a, b), c, d) = SubSeq(input, a + c - 1, a + d - 1)
        BY <1>8, <3>3, PartOfPart
      <3>5. Piece(w, cut, j) = SubSeq(SubSeq(input, a, b), cut[j - 1] + 1, cut[j])
        BY Zenon DEF Piece, w, a, b
      <3> QED
        BY <3>1, <3>3, <3>4, <3>5, Zenon DEF s, t
    <2> QED
      BY <2>3, <2>4
  <1>12. n \in {Len(u) : u \in Words} /\ w \in WordsOf(n)
    BY <1>9 DEF WordsOf
  <1> HIDE DEF cut, n
  <1>13. w \in L[p.lhs]
    BY <1>6, <1>10, <1>11, <1>12 DEF Closed
  <1> QED
    BY <1>6, <1>13, <1>b DEF w

-----------------------------------------------------------------------------
(* The invariant. *)

\* What Spec keeps of every closed language.
LInv == /\ IInv
        /\ input \in Inputs
        /\ \A L \in Languages : Closed(L) => NodesIn(L)

LEMMA InitLInv == Init => LInv
  <1> SUFFICES ASSUME Init PROVE LInv
    OBVIOUS
  <1>1. IInv /\ input \in Inputs
    BY InitIInv DEF Init
  <1>2. Depth = 0
    BY DEF Init, Depth
  <1> QED
    BY <1>1, <1>2 DEF LInv, NodesIn

LEMMA ShiftLInv == LInv /\ Shift => LInv'
  <1> SUFFICES ASSUME LInv, Shift PROVE LInv'
    OBVIOUS
  <1>1. IInv' /\ input' = input
    BY ShiftIInv DEF LInv, Shift
  <1> DEFINE n == Node(input[pos + 1], pos + 1, pos + 1, pos + 1)
  <1>2. n.sym \notin NonTerminals /\ n \in Nodes
    <2>1. input \in Seq(Tokens) /\ pos + 1 \in 1..Len(input) /\ pos \in Nat
      BY DEF LInv, IInv, TypeOK, Shift
    <2>2. input[pos + 1] \in Tokens
      BY <2>1
    <2> QED
      BY <2>1, <2>2 DEF Node, Nodes, Symbols, NonTerminals, Tokens, IdTokens, Relops, Mulops, Addops
  <1>3. /\ stack \in Seq(Nodes) /\ Depth = Len(stack) /\ Depth \in Nat
        /\ stack' = Append(stack, n)
    BY DEF LInv, IInv, TypeOK, Shift, Push, Depth
  <1> HIDE DEF n
  <1>4. /\ Depth' = Depth + 1
        /\ \A i \in 1..Depth : stack'[i] = stack[i]
        /\ stack'[Depth + 1] = n
    BY <1>2, <1>3 DEF Depth
  <1>5. ASSUME NEW L \in Languages, Closed(L)
        PROVE  NodesIn(L)'
    <2> SUFFICES ASSUME NEW i \in 1..Depth', stack'[i].sym \in NonTerminals
                 PROVE  SubSeq(input, stack'[i].from, stack'[i].to) \in L[stack'[i].sym]
      BY <1>1 DEF NodesIn
    <2>1. i \in 1..Depth /\ stack'[i] = stack[i]
      BY <1>2, <1>3, <1>4
    <2>2. NodesIn(L)
      BY <1>5 DEF LInv
    <2> QED
      BY <2>1, <2>2 DEF NodesIn
  <1> QED
    BY <1>1, <1>5 DEF LInv

LEMMA ReduceLInv == LInv /\ Reduce => LInv'
  <1> SUFFICES ASSUME LInv, Reduce PROVE LInv'
    OBVIOUS
  <1>1. IInv' /\ input' = input /\ IInv /\ input \in Inputs
    BY ReduceIInv DEF LInv, Reduce
  <1>2. PICK r \in Takeable : stack' = Push(PopN(stack, r.pops), Built(r))
    BY DEF Reduce, Apply
  <1> DEFINE b == Built(r)
             k == Len(r.rhs)
  <1>3. /\ stack \in Seq(Nodes) /\ Depth = Len(stack) /\ Depth \in Nat
        /\ k \in 1..Len(stack) /\ r.pops = k /\ r.lhs \in NonTerminals
    <2>1. TypeOK /\ stack \in Seq(Nodes) /\ Depth = Len(stack) /\ Depth \in Nat
      BY <1>1, StackNodes DEF IInv, TypeOK
    <2>2. k \in 1..5 /\ k <= Depth /\ r.pops = k /\ r.lhs \in NonTerminals
      BY <2>1, TakenRule
    <2> HIDE DEF k
    <2> QED
      BY <2>1, <2>2
  <1>4. b \in Nodes /\ b.sym = r.lhs
    BY <1>1, BuiltNode DEF IInv
  <1>5. ASSUME NEW L \in Languages, Closed(L)
        PROVE  SubSeq(input, b.from, b.to) \in L[b.sym]
    BY <1>1, <1>4, <1>5, BuiltDerived DEF LInv
  <1> HIDE DEF b, k
  <1>6. /\ Depth' = Depth - k + 1
        /\ \A i \in 1..(Depth - k) : stack'[i] = stack[i]
        /\ stack'[Depth - k + 1] = b
    <2> DEFINE s == Push(PopN(stack, k), b)
    <2>1. /\ s \in Seq(Nodes)
          /\ Len(s) = Len(stack) - k + 1
          /\ \A i \in 1..(Len(stack) - k) : s[i] = stack[i]
          /\ s[Len(stack) - k + 1] = b
      <3>1. k \in 1..Len(stack) /\ b \in Nodes /\ stack \in Seq(Nodes)
        BY <1>3, <1>4
      <3> QED
        BY <3>1, Replace
    <2>2. stack' = s
      BY <1>2, <1>3 DEF b
    <2> HIDE DEF s
    <2> QED
      BY <1>3, <2>1, <2>2 DEF Depth
  <1>7. ASSUME NEW L \in Languages, Closed(L)
        PROVE  NodesIn(L)'
    <2> SUFFICES ASSUME NEW i \in 1..Depth', stack'[i].sym \in NonTerminals
                 PROVE  SubSeq(input, stack'[i].from, stack'[i].to) \in L[stack'[i].sym]
      BY <1>1 DEF NodesIn
    <2>1. CASE i = Depth - k + 1
      BY <1>5, <1>6, <1>7, <2>1
    <2>2. CASE i # Depth - k + 1
      <3>1. i \in 1..(Depth - k) /\ i \in 1..Depth
        <4>1. Depth' = Depth - k + 1 /\ Depth \in Nat /\ k \in 1..Depth
          BY <1>3, <1>6
        <4> QED
          BY <2>2, <4>1
      <3>3. stack'[i] = stack[i]
        BY <1>6, <3>1
      <3>2. NodesIn(L)
        BY <1>7 DEF LInv
      <3> QED
        BY <3>1, <3>2, <3>3 DEF NodesIn
    <2> QED
      BY <2>1, <2>2
  <1> QED
    BY <1>1, <1>7 DEF LInv

LEMMA OtherLInv ==
  LInv /\ (Overflow \/ NothingToReduce \/ Finish \/ Terminated \/ UNCHANGED vars) => LInv'
  <1> SUFFICES ASSUME LInv, Overflow \/ NothingToReduce \/ Finish \/ Terminated \/ UNCHANGED vars
               PROVE  LInv'
    OBVIOUS
  <1>1. IInv'
    BY OtherIInv DEF LInv
  <1>2. UNCHANGED <<input, stack>> /\ Depth' = Depth
    BY DEF Overflow, NothingToReduce, Finish, Terminated, vars, Depth
  <1>3. ASSUME NEW L \in Languages, NodesIn(L)
        PROVE  NodesIn(L)'
    BY <1>2, <1>3 DEF NodesIn
  <1> QED
    BY <1>1, <1>2, <1>3 DEF LInv

LEMMA LInvariance == Spec => []LInv
  <1>1. LInv /\ [Next]_vars => LInv'
    BY ShiftLInv, ReduceLInv, OtherLInv DEF Next
  <1> QED
    BY <1>1, InitLInv, PTL DEF Spec

-----------------------------------------------------------------------------
(* The theorems. *)

\* Every node the parser ever builds covers a string that the documented
\* productions derive from its kind: it is in every language closed under
\* them, so in the least one.  For every set of inputs, correct or not, and
\* every stack size.
THEOREM NodesInEveryClosedLanguage ==
  Spec => [](\A L \in Languages : Closed(L) => NodesIn(L))
  BY LInvariance, PTL DEF LInv

\* In particular for the language the run enumerates.
THEOREM NodesAreDerived == Spec => []NodesDerive
  <1>1. LInv => NodesDerive
    BY LanguageAssumption DEF LInv, NodesDerive
  <1> QED
    BY <1>1, LInvariance, PTL
=============================================================================
