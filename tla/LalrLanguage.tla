----------------------------- MODULE LalrLanguage -----------------------------
(***************************************************************************)
(* What a node of the parser may cover, by the documented grammar.         *)
(*                                                                         *)
(* A language gives for every kind of node a set of token strings.  It is  *)
(* closed under the productions when whatever a production puts together   *)
(* out of its strings is one of them again; what the productions derive is *)
(* the least closed language.                                              *)
(***************************************************************************)
EXTENDS LalrParser, RfProductions

CONSTANT Language     \* what the nodes are compared with

\* lalr.c:66 tests peeked[1] twice, so that whatever token follows the word
\* module is taken for the name: the one thing the parser accepts that nothing
\* documents.
AnyHeader == P("HEADER", {<<"MODULE", t>> : t \in Tokens})

Productions == {p \in Documented : p.lhs \in NonTerminals} \cup AnyHeader

\* The word module is a name like any other, and comes as a kind of its own.
Stands(sym) == IF sym = "ID" THEN IdTokens ELSE {sym}

Covers(L, sym, w) ==
  IF sym \in NonTerminals THEN w \in L[sym]
  ELSE Len(w) = 1 /\ w[1] \in Stands(sym)

-----------------------------------------------------------------------------
(* Closure.  Only the parts of inputs matter. *)

Languages == [NonTerminals -> SUBSET Seq(Tokens)]

Positions == UNION {DOMAIN w : w \in Inputs}
Ends == {SubSeq(w, a, Len(w)) : w \in Inputs, a \in Positions}
Words == {SubSeq(w, 1, IF b \in DOMAIN w THEN b ELSE 0) : w \in Ends, b \in Positions}
WordsOf(n) == {w \in Words : Len(w) = n}

\* The ways to cut n tokens into k pieces, and the pieces.
Cuts(k, n) ==
  {cut \in [0..k -> 0..n] : cut[0] = 0 /\ cut[k] = n /\ \A j \in 1..k : cut[j - 1] < cut[j]}
Piece(w, cut, j) == SubSeq(w, cut[j - 1] + 1, cut[j])

\* Whatever is cut into pieces that the symbols of a production cover belongs
\* to the symbol on its left.
Closed(L) ==
  \A n \in {Len(w) : w \in Words} :
    LET words == WordsOf(n)
    IN \A p \in Productions :
         LET k    == Len(p.rhs)
             cuts == Cuts(k, n)
         IN \A w \in words, cut \in cuts :
              (\A j \in 1..k : Covers(L, p.rhs[j], Piece(w, cut, j))) => w \in L[p.lhs]

ASSUME LanguageAssumption == Language \in Languages /\ Closed(Language)

-----------------------------------------------------------------------------
(* Properties. *)

\* The nodes on the stack cover strings of L.
NodesIn(L) ==
  \A i \in 1..Depth :
    stack[i].sym \in NonTerminals =>
      SubSeq(input, stack[i].from, stack[i].to) \in L[stack[i].sym]

\* Whatever the input, correct or not, and whatever the order in which the
\* conditions of lalr_reduce are tried, a node is only built over tokens that
\* the documented grammar derives from its kind: no operator is swallowed by
\* a node that binds tighter, no bracket is left unbalanced inside a node.
NodesDerive == NodesIn(Language)
=============================================================================
