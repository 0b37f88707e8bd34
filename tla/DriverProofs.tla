---------------------------- MODULE DriverProofs ----------------------------
(***************************************************************************)
(* Proofs about the process that runs one action of the command line, for  *)
(* every set of inputs and command lines and every stack size: what the    *)
(* reconstruction and the printer write of a node is, token by token, what *)
(* stands in the source, by induction over the nodes and along the lists.  *)
(***************************************************************************)
EXTENDS Driver, AstBuilderProofs, SequenceTheorems

(***************************************************************************)
(* FIRST PART.  The reconstruction of trees.                               *)
(***************************************************************************)

-----------------------------------------------------------------------------
(* The pieces of some kinds. *)

\* The loop behind Only.
Keeps(kept, syms, s) ==
  /\ kept[0] = <<>>
  /\ \A n \in 1..Len(s) :
       kept[n] = IF s[n].sym \in syms THEN Append(kept[n - 1], s[n]) ELSE kept[n - 1]

LEMMA OnlyDefined ==
  ASSUME NEW U, NEW s \in Seq(U), NEW syms
  PROVE  \E kept \in [0..Len(s) -> Seq(U)] : Keeps(kept, syms, s) /\ Only(syms, s) = kept[Len(s)]
  <1> DEFINE N == Len(s)
             E(kept) == kept = [n \in 0..N |->
                           IF n = 0 THEN <<>> ELSE IF s[n].sym \in syms THEN Append(kept[n - 1], s[n]) ELSE kept[n - 1]]
             Step == [x \in Seq(U) \X Nat |->
                        IF x[2] + 1 \in 1..N /\ s[x[2] + 1].sym \in syms THEN Append(x[1], s[x[2] + 1]) ELSE x[1]]
  <1>1. N \in Nat /\ \A n \in 1..N : s[n] \in U
    OBVIOUS
  <1> HIDE DEF N
  <1>2. <<>> \in Seq(U) /\ Step \in [Seq(U) \X Nat -> Seq(U)]
    <2>1. ASSUME NEW x \in Seq(U) \X Nat PROVE Step[x] \in Seq(U)
      <3>1. x[1] \in Seq(U)
        OBVIOUS
      <3>2. x[2] + 1 \in 1..N => s[x[2] + 1] \in U
        BY <1>1
      <3>3. x[2] + 1 \in 1..N => Append(x[1], s[x[2] + 1]) \in Seq(U)
        BY <3>1, <3>2
      <3> QED
        BY <3>1, <3>3
    <2>2. <<>> \in Seq(U)
      OBVIOUS
    <2> QED
      BY <2>1, <2>2
  <1> HIDE DEF Step
  <1>3. PICK f : Follows(f, Seq(U), <<>>, Step)
    BY <1>2, Defined
  <1> DEFINE g == [n \in 0..N |-> f[n]]
  <1>4. ASSUME NEW n \in 0..N
        PROVE  f[n] = IF n = 0 THEN <<>> ELSE IF s[n].sym \in syms THEN Append(f[n - 1], s[n]) ELSE f[n - 1]
    <2>0. n \in Nat
      BY <1>1
    <2>1. CASE n = 0
      BY <1>3, <2>1 DEF Follows
    <2>2. CASE n # 0
      <3>1. n - 1 \in Nat /\ (n - 1) + 1 = n /\ n \in 1..N
        BY <1>1, <2>2
      <3>2. f[n] = Step[<<f[n - 1], n - 1>>] /\ f[n - 1] \in Seq(U)
        BY <1>3, <2>0, <2>2, <3>1 DEF Follows
      <3> QED
        BY <2>2, <3>1, <3>2 DEF Step
    <2> QED
      BY <2>1, <2>2
  <1>5. E(g)
    <2>1. \A n \in 0..N : n # 0 => g[n - 1] = f[n - 1]
      BY <1>1
    <2> QED
      BY <1>4, <2>1
  <1> HIDE DEF g
  <1> DEFINE kept == CHOOSE k : E(k)
  <1>6. E(kept)
    BY <1>5
  <1>7. Only(syms, s) = kept[N]
    BY DEF Only, N
  <1> HIDE DEF kept
  <1>8. \A n \in 0..N : kept[n] \in Seq(U)
    <2> DEFINE T == {n \in Nat : n <= N => kept[n] \in Seq(U)}
    <2>1. 0 \in T
      BY <1>1, <1>6
    <2>2. ASSUME NEW n \in T, n \in Nat PROVE n + 1 \in T
      <3> SUFFICES ASSUME n + 1 <= N PROVE kept[n + 1] \in Seq(U)
        BY <2>2
      <3>1. n + 1 \in 0..N /\ n + 1 # 0 /\ (n + 1) - 1 = n /\ n + 1 \in 1..N /\ n <= N
        BY <1>1, <2>2
      <3>2. kept[n] \in Seq(U) /\ s[n + 1] \in U
        BY <1>1, <2>2, <3>1
      <3>3. kept[n + 1] = IF s[n + 1].sym \in syms THEN Append(kept[n], s[n + 1]) ELSE kept[n]
        BY <1>6, <3>1
      <3> QED
        BY <3>2, <3>3
    <2>3. Nat \subseteq T
      <3> HIDE DEF T
      <3> QED
        BY <2>1, <2>2, Induction
    <2> QED
      BY <1>1, <2>3
  <1>9. kept \in [0..N -> Seq(U)]
    <2>1. kept = [n \in 0..N |-> kept[n]]
      BY <1>6
    <2> QED
      BY <1>8, <2>1
  <1>10. Keeps(kept, syms, s)
    <2>1. kept[0] = <<>>
      BY <1>1, <1>6
    <2>2. ASSUME NEW n \in 1..N
          PROVE  kept[n] = IF s[n].sym \in syms THEN Append(kept[n - 1], s[n]) ELSE kept[n - 1]
      <3>1. n \in 0..N /\ n # 0
        BY <1>1
      <3> QED
        BY <1>6, <3>1
    <2> QED
      BY <2>1, <2>2 DEF Keeps, N
  <1> QED
    BY <1>7, <1>9, <1>10 DEF N

LEMMA OnlyType ==
  ASSUME NEW U, NEW s \in Seq(U), NEW syms
  PROVE  Only(syms, s) \in Seq(U)
  <1>1. Len(s) \in 0..Len(s)
    OBVIOUS
  <1> QED
    BY <1>1, OnlyDefined

LEMMA OnlyEmpty ==
  ASSUME NEW syms
  PROVE  Only(syms, <<>>) = <<>>
  <1>1. <<>> \in Seq({}) /\ Len(<<>>) = 0
    OBVIOUS
  <1>2. PICK kept : Keeps(kept, syms, <<>>) /\ Only(syms, <<>>) = kept[Len(<<>>)]
    BY <1>1, OnlyDefined
  <1> QED
    BY <1>1, <1>2 DEF Keeps

LEMMA OnlyAppend ==
  ASSUME NEW U, NEW s \in Seq(U), NEW x \in U, NEW syms
  PROVE  Only(syms, Append(s, x)) = IF x.sym \in syms THEN Append(Only(syms, s), x) ELSE Only(syms, s)
  <1> DEFINE t == Append(s, x)
             N == Len(s)
  <1>1. /\ t \in Seq(U) /\ Len(t) = N + 1 /\ N \in Nat
        /\ \A n \in 1..N : t[n] = s[n]
        /\ t[N + 1] = x
    OBVIOUS
  <1>2. PICK a : Keeps(a, syms, s) /\ Only(syms, s) = a[N]
    BY OnlyDefined
  <1> HIDE DEF t
  <1>3. PICK b : Keeps(b, syms, t) /\ Only(syms, t) = b[N + 1]
    BY <1>1, OnlyDefined
  <1> HIDE DEF N
  <1>n. N = Len(s)
    BY DEF N
  <1> DEFINE T == {n \in Nat : n <= N => a[n] = b[n]}
  <1>4. 0 \in T
    BY <1>2, <1>3 DEF Keeps
  <1>5. ASSUME NEW n \in T, n \in Nat PROVE n + 1 \in T
    <2> SUFFICES ASSUME n + 1 <= N PROVE a[n + 1] = b[n + 1]
      BY <1>5
    <2>1. n + 1 \in 1..N /\ n + 1 \in 1..(N + 1) /\ (n + 1) - 1 = n /\ n <= N
      BY <1>1, <1>5
    <2>2. a[n] = b[n] /\ t[n + 1] = s[n + 1]
      BY <1>1, <1>5, <2>1
    <2>3. a[n + 1] = IF s[n + 1].sym \in syms THEN Append(a[n], s[n + 1]) ELSE a[n]
      BY <1>2, <1>n, <2>1 DEF Keeps
    <2>4. b[n + 1] = IF t[n + 1].sym \in syms THEN Append(b[n], t[n + 1]) ELSE b[n]
      BY <1>1, <1>3, <2>1 DEF Keeps
    <2> QED
      BY <2>2, <2>3, <2>4
  <1>6. Nat \subseteq T
    <2> HIDE DEF T
    <2> QED
      BY <1>4, <1>5, Induction
  <1>7. a[N] = b[N]
    BY <1>1, <1>6
  <1>8. N + 1 \in 1..(N + 1) /\ (N + 1) - 1 = N
    BY <1>1
  <1>9. b[N + 1] = IF t[N + 1].sym \in syms THEN Append(b[N], t[N + 1]) ELSE b[N]
    BY <1>1, <1>3, <1>8 DEF Keeps
  <1> QED
    BY <1>1, <1>2, <1>3, <1>7, <1>9 DEF t

LEMMA OnlyOne ==
  ASSUME NEW x, NEW syms
  PROVE  Only(syms, <<x>>) = IF x.sym \in syms THEN <<x>> ELSE <<>>
  <1>1. <<>> \in Seq({x}) /\ x \in {x} /\ Append(<<>>, x) = <<x>>
    OBVIOUS
  <1>2. Only(syms, Append(<<>>, x)) = IF x.sym \in syms THEN Append(Only(syms, <<>>), x) ELSE Only(syms, <<>>)
    BY <1>1, OnlyAppend
  <1> QED
    BY <1>1, <1>2, OnlyEmpty

\* A sequence that is not empty is one that something was appended to.
LEMMA Peeled ==
  ASSUME NEW U, NEW t \in Seq(U), NEW k \in Nat, Len(t) = k + 1
  PROVE  \E u \in Seq(U) : \E x \in U :
           /\ t = Append(u, x) /\ Len(u) = k /\ x = t[k + 1]
           /\ \A i \in 1..k : u[i] = t[i]
  <1> DEFINE u == SubSeq(t, 1, k)
  <1>1. u \in Seq(U) /\ Len(u) = k /\ t[k + 1] \in U /\ \A i \in 1..k : u[i] = t[i]
    OBVIOUS
  <1>2. t = Append(u, t[k + 1])
    OBVIOUS
  <1> QED
    BY <1>1, <1>2

\* A name for the operator, under which the provers take it as it is.
Concat(s, t) == s \o t

LEMMA AppendConcat ==
  ASSUME NEW U
  PROVE  \A a, b \in Seq(U) : \A y \in U : Append(Concat(a, b), y) = Concat(a, Append(b, y))
  BY DEF Concat

\* Picking out pieces distributes over walking one part behind the other.
LEMMA OnlyConcat ==
  ASSUME NEW U, NEW s \in Seq(U), NEW t \in Seq(U), NEW syms
  PROVE  Only(syms, s \o t) = Only(syms, s) \o Only(syms, t)
  <1> DEFINE T == {k \in Nat : \A u \in Seq(U) : Len(u) = k => Only(syms, Concat(s, u)) = Concat(Only(syms, s), Only(syms, u))}
  <1>1. 0 \in T
    <2>1. ASSUME NEW u \in Seq(U), Len(u) = 0 PROVE Only(syms, Concat(s, u)) = Concat(Only(syms, s), Only(syms, u))
      <3>1. u = <<>> /\ Concat(s, u) = s
        BY <2>1 DEF Concat
      <3>2. Only(syms, s) \in Seq(U) /\ Only(syms, u) = <<>>
        BY <3>1, OnlyType, OnlyEmpty
      <3>3. Concat(Only(syms, s), <<>>) = Only(syms, s)
        BY <3>2 DEF Concat
      <3> QED
        BY <3>1, <3>2, <3>3
    <2> QED
      BY <2>1
  <1>2. ASSUME NEW k \in T, k \in Nat PROVE k + 1 \in T
    <2>0. \A u \in Seq(U) : Len(u) = k => Only(syms, Concat(s, u)) = Concat(Only(syms, s), Only(syms, u))
      BY <1>2
    <2> HIDE DEF T
    <2>1. ASSUME NEW u \in Seq(U), Len(u) = k + 1 PROVE Only(syms, Concat(s, u)) = Concat(Only(syms, s), Only(syms, u))
      <3>1. PICK v \in Seq(U), x \in U : u = Append(v, x) /\ Len(v) = k
        BY <1>2, <2>1, Peeled, SMTT(30)
      <3>2. Concat(s, v) \in Seq(U) /\ Concat(s, u) = Append(Concat(s, v), x)
        <4>1. Concat(s, v) \in Seq(U)
          BY DEF Concat
        <4>2. Append(Concat(s, v), x) = Concat(s, Append(v, x))
          BY AppendConcat
        <4> QED
          BY <3>1, <4>1, <4>2, Zenon
      <3>3. Only(syms, Concat(s, v)) = Concat(Only(syms, s), Only(syms, v))
        BY <1>2, <2>0, <3>1
      <3>4. Only(syms, Concat(s, u)) = IF x.sym \in syms THEN Append(Only(syms, Concat(s, v)), x) ELSE Only(syms, Concat(s, v))
        <4>1. PICK w \in Seq(U) : w = Concat(s, v)
          BY <3>2
        <4>2. Only(syms, Append(w, x)) = IF x.sym \in syms THEN Append(Only(syms, w), x) ELSE Only(syms, w)
          BY OnlyAppend
        <4> QED
          BY <3>2, <4>1, <4>2
      <3>5. Only(syms, u) = IF x.sym \in syms THEN Append(Only(syms, v), x) ELSE Only(syms, v)
        BY <3>1, OnlyAppend
      <3>6. Only(syms, s) \in Seq(U) /\ Only(syms, v) \in Seq(U)
        BY OnlyType
      <3>7. Append(Concat(Only(syms, s), Only(syms, v)), x) = Concat(Only(syms, s), Append(Only(syms, v), x))
        BY <3>6, AppendConcat
      <3>8. CASE x.sym \in syms
        BY <3>3, <3>4, <3>5, <3>7, <3>8, Zenon
      <3>9. CASE x.sym \notin syms
        BY <3>3, <3>4, <3>5, <3>9, Zenon
      <3> QED
        BY <3>8, <3>9
    <2> QED
      BY <1>2, <2>1 DEF T
  <1>3. Nat \subseteq T
    <2> HIDE DEF T
    <2> QED
      BY <1>1, <1>2, Induction
  <1>4. Len(t) \in T
    BY <1>3
  <1>5. Only(syms, Concat(s, t)) = Concat(Only(syms, s), Only(syms, t))
    BY <1>4
  <1> QED
    BY <1>5 DEF Concat

LEMMA OnlyNone ==
  ASSUME NEW U, NEW s \in Seq(U), NEW syms, \A i \in 1..Len(s) : s[i].sym \notin syms
  PROVE  Only(syms, s) = <<>>
  <1> DEFINE T == {k \in Nat : \A u \in Seq(U) : Len(u) = k /\ (\A i \in 1..k : u[i].sym \notin syms) => Only(syms, u) = <<>>}
  <1>1. 0 \in T
    <2>1. ASSUME NEW u \in Seq(U), Len(u) = 0 PROVE Only(syms, u) = <<>>
      <3>1. u = <<>>
        BY <2>1
      <3> QED
        BY <3>1, OnlyEmpty
    <2> QED
      BY <2>1
  <1>2. ASSUME NEW k \in T, k \in Nat PROVE k + 1 \in T
    <2>0. \A u \in Seq(U) : Len(u) = k /\ (\A i \in 1..k : u[i].sym \notin syms) => Only(syms, u) = <<>>
      BY <1>2
    <2> HIDE DEF T
    <2>1. ASSUME NEW u \in Seq(U), Len(u) = k + 1, \A i \in 1..(k + 1) : u[i].sym \notin syms PROVE Only(syms, u) = <<>>
      <3>1. PICK v \in Seq(U), x \in U : u = Append(v, x) /\ Len(v) = k /\ x = u[k + 1] /\ \A i \in 1..k : v[i] = u[i]
        BY <1>2, <2>1, Peeled
      <3>2. x.sym \notin syms /\ \A i \in 1..k : v[i].sym \notin syms
        BY <1>2, <2>0, <2>1, <3>1
      <3>3. Only(syms, v) = <<>>
        BY <1>2, <2>0, <3>1, <3>2
      <3> QED
        BY <3>1, <3>2, <3>3, OnlyAppend
    <2> QED
      BY <1>2, <2>1 DEF T
  <1>3. Nat \subseteq T
    <2> HIDE DEF T
    <2> QED
      BY <1>1, <1>2, Induction
  <1>4. Len(s) \in T
    BY <1>3
  <1> QED
    BY <1>4

LEMMA OnlyAll ==
  ASSUME NEW U, NEW s \in Seq(U), NEW syms, \A i \in 1..Len(s) : s[i].sym \in syms
  PROVE  Only(syms, s) = s
  <1> DEFINE T == {k \in Nat : \A u \in Seq(U) : Len(u) = k /\ (\A i \in 1..k : u[i].sym \in syms) => Only(syms, u) = u}
  <1>1. 0 \in T
    <2>1. ASSUME NEW u \in Seq(U), Len(u) = 0 PROVE Only(syms, u) = u
      <3>1. u = <<>>
        BY <2>1
      <3> QED
        BY <3>1, OnlyEmpty
    <2> QED
      BY <2>1
  <1>2. ASSUME NEW k \in T, k \in Nat PROVE k + 1 \in T
    <2>0. \A u \in Seq(U) : Len(u) = k /\ (\A i \in 1..k : u[i].sym \in syms) => Only(syms, u) = u
      BY <1>2
    <2> HIDE DEF T
    <2>1. ASSUME NEW u \in Seq(U), Len(u) = k + 1, \A i \in 1..(k + 1) : u[i].sym \in syms PROVE Only(syms, u) = u
      <3>1. PICK v \in Seq(U), x \in U : u = Append(v, x) /\ Len(v) = k /\ x = u[k + 1] /\ \A i \in 1..k : v[i] = u[i]
        BY <1>2, <2>1, Peeled
      <3>2. x.sym \in syms /\ \A i \in 1..k : v[i].sym \in syms
        BY <1>2, <2>0, <2>1, <3>1
      <3>3. Only(syms, v) = v
        BY <1>2, <2>0, <3>1, <3>2
      <3> QED
        BY <3>1, <3>2, <3>3, OnlyAppend
    <2> QED
      BY <1>2, <2>1 DEF T
  <1>3. Nat \subseteq T
    <2> HIDE DEF T
    <2> QED
      BY <1>1, <1>2, Induction
  <1>4. Len(s) \in T
    BY <1>3
  <1> QED
    BY <1>4

LEMMA OnlyOnly ==
  ASSUME NEW U, NEW s \in Seq(U), NEW syms, NEW more, syms \subseteq more
  PROVE  Only(syms, Only(more, s)) = Only(syms, s)
  <1> DEFINE T == {k \in Nat : \A u \in Seq(U) : Len(u) = k => Only(syms, Only(more, u)) = Only(syms, u)}
  <1>1. 0 \in T
    <2>1. ASSUME NEW u \in Seq(U), Len(u) = 0 PROVE Only(syms, Only(more, u)) = Only(syms, u)
      <3>1. u = <<>>
        BY <2>1
      <3> QED
        BY <3>1, OnlyEmpty
    <2> QED
      BY <2>1
  <1>2. ASSUME NEW k \in T, k \in Nat PROVE k + 1 \in T
    <2>0. \A u \in Seq(U) : Len(u) = k => Only(syms, Only(more, u)) = Only(syms, u)
      BY <1>2
    <2> HIDE DEF T
    <2>1. ASSUME NEW u \in Seq(U), Len(u) = k + 1 PROVE Only(syms, Only(more, u)) = Only(syms, u)
      <3>1. PICK v \in Seq(U), x \in U : u = Append(v, x) /\ Len(v) = k
        BY <1>2, <2>1, Peeled
      <3>2. Only(syms, Only(more, v)) = Only(syms, v)
        BY <1>2, <2>0, <3>1
      <3>3. /\ Only(syms, u) = IF x.sym \in syms THEN Append(Only(syms, v), x) ELSE Only(syms, v)
            /\ Only(more, u) = IF x.sym \in more THEN Append(Only(more, v), x) ELSE Only(more, v)
        BY <3>1, OnlyAppend
      <3>4. Only(more, v) \in Seq(U)
        BY OnlyType
      <3>5. Only(syms, Append(Only(more, v), x))
              = IF x.sym \in syms THEN Append(Only(syms, Only(more, v)), x) ELSE Only(syms, Only(more, v))
        BY <3>4, OnlyAppend
      <3> QED
        BY <3>2, <3>3, <3>5
    <2> QED
      BY <1>2, <2>1 DEF T
  <1>3. Nat \subseteq T
    <2> HIDE DEF T
    <2> QED
      BY <1>1, <1>2, Induction
  <1>4. Len(s) \in T
    BY <1>3
  <1> QED
    BY <1>4

-----------------------------------------------------------------------------
(* Pieces, one behind the other. *)

\* Where a fault is noticed.
Places == {"TypedId.id", "next", "vartype", "factor", "nested", "disj", "op", "left"} \cup ListKinds

\* What a walk yields.
Pieces == [sym : Tokens \cup {"ABORT", "CRASH", "UNWRITTEN"}, at : Nat \cup Places]

LEMMA PieceOfToken ==
  ASSUME input \in Seq(Tokens), NEW i \in 1..Len(input)
  PROVE  TokenPiece(i) \in Pieces /\ TokenPiece(i).sym = TypeOf(i) /\ TokenPiece(i).at = i
  <1>1. input[i] \in Tokens /\ i \in Nat
    OBVIOUS
  <1> HIDE DEF Tokens
  <1> QED
    BY <1>1 DEF TokenPiece, Piece, Pieces, TypeOf

LEMMA SourcePieces ==
  ASSUME input \in Seq(Tokens), NEW a \in Nat \ {0}, NEW b \in Nat, a <= b + 1, b <= Len(input)
  PROVE  /\ Source(a, b) \in Seq(Pieces)
         /\ Len(Source(a, b)) = b - a + 1
         /\ \A i \in 1..(b - a + 1) : Source(a, b)[i] = TokenPiece(a + i - 1)
  <1> DEFINE n == b - a + 1
  <1>1. n \in Nat /\ \A i \in 1..n : a + i - 1 \in 1..Len(input)
    OBVIOUS
  <1>2. \A i \in 1..n : TokenPiece(a + i - 1) \in Pieces
    BY <1>1, PieceOfToken
  <1>3. Source(a, b) = [i \in 1..n |-> TokenPiece(a + i - 1)]
    BY DEF Source
  <1> HIDE DEF n, Pieces
  <1>4. Source(a, b) \in [1..n -> Pieces]
    BY <1>2, <1>3
  <1>5. Source(a, b) \in Seq(Pieces)
    BY <1>1, <1>4
  <1>6. DOMAIN Source(a, b) = 1..n
    BY <1>3
  <1>7. Len(Source(a, b)) = n
    BY <1>1, <1>5, <1>6
  <1>8. \A i \in 1..n : Source(a, b)[i] = TokenPiece(a + i - 1)
    BY <1>3
  <1> QED
    BY <1>5, <1>7, <1>8 DEF n

LEMMA Concatenated ==
  ASSUME NEW U, NEW s \in Seq(U), NEW t \in Seq(U)
  PROVE  /\ s \o t \in Seq(U)
         /\ Len(s \o t) = Len(s) + Len(t)
         /\ \A i \in 1..Len(s) : (s \o t)[i] = s[i]
         /\ \A i \in 1..Len(t) : (s \o t)[Len(s) + i] = t[i]
  OBVIOUS

\* The source of two parts, one behind the other.
LEMMA SourceConcat ==
  ASSUME input \in Seq(Tokens), NEW a \in Nat \ {0}, NEW b \in Nat, NEW c \in Nat,
         a <= b + 1, b <= c, c <= Len(input)
  PROVE  Source(a, c) = Source(a, b) \o Source(b + 1, c)
  <1> DEFINE s == Source(a, b)
             t == Source(b + 1, c)
             u == Source(a, c)
  <1>0. b + 1 \in Nat \ {0} /\ b + 1 <= c + 1 /\ a <= c + 1 /\ b <= Len(input)
    OBVIOUS
  <1>1. s \in Seq(Pieces) /\ Len(s) = b - a + 1 /\ \A i \in 1..(b - a + 1) : s[i] = TokenPiece(a + i - 1)
    BY <1>0, SourcePieces
  <1>2. t \in Seq(Pieces) /\ Len(t) = c - (b + 1) + 1 /\ \A i \in 1..(c - (b + 1) + 1) : t[i] = TokenPiece(b + 1 + i - 1)
    BY <1>0, SourcePieces
  <1>3. u \in Seq(Pieces) /\ Len(u) = c - a + 1 /\ \A i \in 1..(c - a + 1) : u[i] = TokenPiece(a + i - 1)
    BY <1>0, SourcePieces
  <1> HIDE DEF s, t, u
  <1>4. PICK w : w = s \o t
    OBVIOUS
  <1>5. /\ w \in Seq(Pieces) /\ Len(w) = Len(s) + Len(t)
        /\ \A i \in 1..Len(s) : w[i] = s[i]
        /\ \A i \in 1..Len(t) : w[Len(s) + i] = t[i]
    <2>1. s \in Seq(Pieces) /\ t \in Seq(Pieces)
      BY <1>1, <1>2
    <2>2. /\ s \o t \in Seq(Pieces)
          /\ Len(s \o t) = Len(s) + Len(t)
          /\ \A i \in 1..Len(s) : (s \o t)[i] = s[i]
          /\ \A i \in 1..Len(t) : (s \o t)[Len(s) + i] = t[i]
      BY <2>1, Concatenated
    <2> QED
      BY <1>4, <2>2
  <1>6. Len(w) = c - a + 1
    BY <1>1, <1>2, <1>5
  <1>7. ASSUME NEW i \in 1..(c - a + 1) PROVE w[i] = u[i]
    <2>1. CASE i <= b - a + 1
      BY <1>1, <1>3, <1>5, <2>1
    <2>2. CASE i > b - a + 1
      <3> DEFINE j == i - (b - a + 1)
      <3>1. j \in 1..(c - (b + 1) + 1) /\ j \in 1..Len(t) /\ i = Len(s) + j
        BY <1>1, <1>2, <2>2
      <3>2. w[i] = t[j]
        BY <1>5, <3>1
      <3>3. t[j] = TokenPiece(b + 1 + j - 1) /\ b + 1 + j - 1 = a + i - 1
        BY <1>2, <3>1
      <3> QED
        BY <1>3, <3>2, <3>3
    <2> QED
      BY <2>1, <2>2
  <1>8. w = u
    BY <1>3, <1>5, <1>6, <1>7, SeqEqual
  <1> QED
    BY <1>4, <1>8 DEF s, t, u

LEMMA SameConcat ==
  ASSUME NEW U, NEW s \in Seq(U), NEW t \in Seq(U), NEW x \in Seq(U), NEW y \in Seq(U),
         Same(s, x), Same(t, y)
  PROVE  Same(s \o t, x \o y)
  <1> DEFINE Right(p, q) == p.sym = q.sym /\ (p.at = q.at \/ (p.at = NULL /\ q.sym \notin Names))
  <1>1. /\ Len(s) = Len(x) /\ Len(t) = Len(y) /\ Len(x) \in Nat /\ Len(y) \in Nat
        /\ \A i \in 1..Len(x) : Right(s[i], x[i])
        /\ \A i \in 1..Len(y) : Right(t[i], y[i])
    BY SMTT(30) DEF Same
  <1>2. PICK p : p = s \o t
    OBVIOUS
  <1>3. PICK q : q = x \o y
    OBVIOUS
  <1>4. /\ Len(p) = Len(s) + Len(t) 
        /\ \A i \in 1..Len(s) : p[i] = s[i]
        /\ \A i \in 1..Len(t) : p[Len(s) + i] = t[i]
    BY <1>2, Concatenated
  <1>5. /\ q \in Seq(U) /\ Len(q) = Len(x) + Len(y)
        /\ \A i \in 1..Len(x) : q[i] = x[i]
        /\ \A i \in 1..Len(y) : q[Len(x) + i] = y[i]
    BY <1>3, Concatenated
  <1>6. ASSUME NEW i \in 1..(Len(x) + Len(y)) PROVE Right(p[i], q[i])
    <2> HIDE DEF Right
    <2>1. CASE i <= Len(x)
      BY <1>1, <1>4, <1>5, <2>1
    <2>2. CASE i > Len(x)
      <3> DEFINE j == i - Len(x)
      <3>1. j \in 1..Len(y) /\ i = Len(x) + j
        BY <1>1, <2>2
      <3> HIDE DEF j
      <3>2. p[i] = t[j] /\ q[i] = y[j]
        BY <1>1, <1>4, <1>5, <3>1
      <3> QED
        BY <1>1, <3>1, <3>2
    <2> QED
      BY <1>1, <2>1, <2>2
  <1>7. Len(p) = Len(q) /\ DOMAIN q = 1..(Len(x) + Len(y))
    BY <1>1, <1>4, <1>5
  <1>8. Same(p, q)
    BY <1>6, <1>7 DEF Same
  <1> QED
    BY <1>2, <1>3, <1>8

LEMMA ShowsConcat ==
  ASSUME NEW U, NEW s \in Seq(U), NEW t \in Seq(U), NEW x \in Seq(U), NEW y \in Seq(U),
         Shows(s, x), Shows(t, y)
  PROVE  Shows(s \o t, x \o y)
  <1> DEFINE Right(p, q) == p.at = IF Changed(q) THEN NULL ELSE q.at
  <1>1. /\ Len(s) = Len(x) /\ Len(t) = Len(y) /\ Len(x) \in Nat /\ Len(y) \in Nat
        /\ \A i \in 1..Len(x) : Right(s[i], x[i])
        /\ \A i \in 1..Len(y) : Right(t[i], y[i])
    BY SMTT(30) DEF Shows
  <1>2. PICK p : p = s \o t
    OBVIOUS
  <1>3. PICK q : q = x \o y
    OBVIOUS
  <1>4. /\ Len(p) = Len(s) + Len(t) 
        /\ \A i \in 1..Len(s) : p[i] = s[i]
        /\ \A i \in 1..Len(t) : p[Len(s) + i] = t[i]
    BY <1>2, Concatenated
  <1>5. /\ q \in Seq(U) /\ Len(q) = Len(x) + Len(y)
        /\ \A i \in 1..Len(x) : q[i] = x[i]
        /\ \A i \in 1..Len(y) : q[Len(x) + i] = y[i]
    BY <1>3, Concatenated
  <1>6. ASSUME NEW i \in 1..(Len(x) + Len(y)) PROVE Right(p[i], q[i])
    <2> HIDE DEF Right
    <2>1. CASE i <= Len(x)
      BY <1>1, <1>4, <1>5, <2>1
    <2>2. CASE i > Len(x)
      <3> DEFINE j == i - Len(x)
      <3>1. j \in 1..Len(y) /\ i = Len(x) + j
        BY <1>1, <2>2
      <3> HIDE DEF j
      <3>2. p[i] = t[j] /\ q[i] = y[j]
        BY <1>1, <1>4, <1>5, <3>1
      <3> QED
        BY <1>1, <3>1, <3>2
    <2> QED
      BY <1>1, <2>1, <2>2
  <1>7. Len(p) = Len(q) /\ DOMAIN q = 1..(Len(x) + Len(y))
    BY <1>1, <1>4, <1>5
  <1>8. Shows(p, q)
    BY <1>6, <1>7 DEF Shows
  <1> QED
    BY <1>2, <1>3, <1>8

LEMMA FatalConcat ==
  ASSUME NEW U, NEW s \in Seq(U), NEW t \in Seq(U)
  PROVE  Fatal(s \o t) = {} <=> Fatal(s) = {} /\ Fatal(t) = {}
  <1>1. PICK p : p = s \o t
    OBVIOUS
  <1>2. /\ p \in Seq(U) /\ Len(p) = Len(s) + Len(t) /\ Len(s) \in Nat /\ Len(t) \in Nat
        /\ \A i \in 1..Len(s) : p[i] = s[i]
        /\ \A i \in 1..Len(t) : p[Len(s) + i] = t[i]
    BY <1>1, Concatenated
  <1>3. \A i \in 1..Len(p) : i \in 1..Len(s) \/ (i - Len(s) \in 1..Len(t) /\ i = Len(s) + (i - Len(s)))
    BY <1>2
  <1>4. /\ \A i \in 1..Len(s) : i \in 1..Len(p)
        /\ \A i \in 1..Len(t) : Len(s) + i \in 1..Len(p)
    BY <1>2
  <1>5. /\ Fatal(p) = {} <=> \A i \in 1..Len(p) : p[i].sym \notin Ends
        /\ Fatal(s) = {} <=> \A i \in 1..Len(s) : s[i].sym \notin Ends
        /\ Fatal(t) = {} <=> \A i \in 1..Len(t) : t[i].sym \notin Ends
    <2>1. DOMAIN p = 1..Len(p) /\ DOMAIN s = 1..Len(s) /\ DOMAIN t = 1..Len(t)
      BY <1>2
    <2> QED
      BY <2>1 DEF Fatal
  <1> QED
    BY <1>1, <1>2, <1>3, <1>4, <1>5

\* A walk ends the process where the first fatal piece is.
LEMMA EndingOf ==
  ASSUME NEW U, NEW s \in Seq(U)
  PROVE  /\ Ending(s) = "none" <=> Fatal(s) = {}
         /\ Fatal(s) # {} => Ending(s) \in Ends /\ \E i \in 1..Len(s) : s[i].sym = Ending(s)
  <1>1. CASE Fatal(s) = {}
    BY <1>1 DEF Ending
  <1>2. CASE Fatal(s) # {}
    <2>1. Fatal(s) \subseteq Nat /\ \A i \in Fatal(s) : s[i].sym \in Ends /\ i \in 1..Len(s)
      BY DEF Fatal
    <2>2. \E x \in Fatal(s) : \A y \in Fatal(s) : x <= y
      <3> DEFINE T == Fatal(s)
      <3>1. T \subseteq Nat /\ T # {}
        BY <1>2, <2>1
      <3> HIDE DEF T
      <3>2. \E x \in T : \A y \in T : x <= y
        BY <3>1, LeastOf
      <3> QED
        BY <3>2 DEF T
    <2>3. Least(Fatal(s)) \in Fatal(s)
      BY <2>2 DEF Least
    <2>4. Ending(s) = s[Least(Fatal(s))].sym
      BY <1>2 DEF Ending
    <2>5. "none" \notin Ends
      BY DEF Ends
    <2> QED
      BY <1>2, <2>1, <2>3, <2>4, <2>5
  <1> QED
    BY <1>1, <1>2

\* Nothing is cut off a walk that does not end the process.
LEMMA WrittenAll ==
  ASSUME NEW s, Ending(s) = "none", Fatal(s) = {}
  PROVE  Written(s) = s
  BY DEF Written

-----------------------------------------------------------------------------
(* What a part of a walk is to the tokens a..b. *)

\* The tokens a..b, or the place between two tokens.
Interval(a, b) == a \in Nat \ {0} /\ b \in Nat /\ a <= b + 1 /\ b <= Len(input)

\* A reconstruction is not the source when a node has fields that are not
\* written (an unnamed parameter) or not used (the stars of an array or of a type
\* that is only an underscore).
RebuildableNode(x) ==
  /\ x.sym = "TYPED_ID" => x.is.id # Unwritten
  /\ x.sym = "VAR_TYPE" => x.is.type = "ID" \/ x.is.pointerDepth = 0

Rebuildable == \A n \in DOMAIN tree : RebuildableNode(tree[n])

StringIn(a, b) == \E i \in a..b : TypeOf(i) = "STRING_LIT"

\* What is written for the tokens a..b: an assertion where one must be, and otherwise
\* the tokens themselves, if their numbers are such that %d writes them so.
Rebuilds(s, a, b) ==
  /\ Interval(a, b) /\ s \in Seq(Pieces)
  /\ Fatal(s) # {} <=> NestedIn(a, b) \/ StringIn(a, b)
  /\ Rebuildable /\ Spelled(a, b) /\ Fatal(s) = {} => Same(Only(Tokens \ Parens, s), Only(Tokens \ Parens, Source(a, b)))

\* A call without arguments.
CallIn(a, b) ==
  \E i \in a..(b - 2) : TypeOf(i) \in IdTokens /\ TypeOf(i + 1) = "LP" /\ TypeOf(i + 2) = "RP"

\* What is shown for the tokens a..b: NULL is followed where there is a call without
\* arguments, and otherwise every name and number is there.
Displays(s, a, b) ==
  /\ Interval(a, b) /\ s \in Seq(Pieces)
  /\ \A i \in 1..Len(s) : s[i].sym # "ABORT"
  /\ ~NestedIn(a, b) => (Fatal(s) # {} <=> CallIn(a, b))
  /\ ~NestedIn(a, b) /\ Fatal(s) = {} =>
       Shows(Only(Names, s), Only(Names \cup {"HEX_LIT"}, Source(a, b)))

\* Where two parts meet, nothing comes about that neither of them has.
NestedAt(b) == TypeOf(b) = "LBRK" /\ TypeOf(b + 1) = "LBRK"
CallAt(b) ==
  \/ TypeOf(b) = "LP" /\ TypeOf(b + 1) = "RP"
  \/ TypeOf(b) \in IdTokens /\ TypeOf(b + 1) = "LP"

LEMMA NestedSplit ==
  ASSUME NEW a, NEW b, NEW c, Interval(a, b), Interval(b + 1, c)
  PROVE  /\ NestedIn(a, b) \/ NestedIn(b + 1, c) => NestedIn(a, c)
         /\ (a <= b /\ b < c => ~NestedAt(b)) => (NestedIn(a, c) => NestedIn(a, b) \/ NestedIn(b + 1, c))
  <1>1. a \in Nat /\ b \in Nat /\ c \in Nat /\ a <= b + 1 /\ b <= c
    BY DEF Interval
  <1>2. \A i \in a..(b - 1) : i \in a..(c - 1)
    BY <1>1
  <1>3. \A i \in (b + 1)..(c - 1) : i \in a..(c - 1)
    BY <1>1
  <1>4. \A i \in a..(c - 1) : i \in a..(b - 1) \/ i \in (b + 1)..(c - 1) \/ (i = b /\ a <= b /\ b < c)
    BY <1>1
  <1> QED
    BY <1>2, <1>3, <1>4 DEF NestedIn, NestedAt

LEMMA StringSplit ==
  ASSUME NEW a, NEW b, NEW c, Interval(a, b), Interval(b + 1, c)
  PROVE  StringIn(a, c) <=> StringIn(a, b) \/ StringIn(b + 1, c)
  <1>1. a \in Nat /\ b \in Nat /\ c \in Nat /\ a <= b + 1 /\ b <= c
    BY DEF Interval
  <1>2. \A i \in a..b : i \in a..c
    BY <1>1
  <1>3. \A i \in (b + 1)..c : i \in a..c
    BY <1>1
  <1>4. \A i \in a..c : i \in a..b \/ i \in (b + 1)..c
    BY <1>1
  <1> QED
    BY <1>2, <1>3, <1>4 DEF StringIn

LEMMA SpelledSplit ==
  ASSUME NEW a, NEW b, NEW c, Interval(a, b), Interval(b + 1, c)
  PROVE  Spelled(a, c) => Spelled(a, b) /\ Spelled(b + 1, c)
  <1>1. a \in Nat /\ b \in Nat /\ c \in Nat /\ a <= b + 1 /\ b <= c
    BY DEF Interval
  <1>2. \A i \in a..b : i \in a..c
    BY <1>1
  <1>3. \A i \in (b + 1)..c : i \in a..c
    BY <1>1
  <1> QED
    BY <1>2, <1>3 DEF Spelled

LEMMA CallSplit ==
  ASSUME NEW a, NEW b, NEW c, Interval(a, b), Interval(b + 1, c),
         a <= b /\ b < c => ~CallAt(b)
  PROVE  CallIn(a, c) <=> CallIn(a, b) \/ CallIn(b + 1, c)
  <1> DEFINE At(i) == TypeOf(i) \in IdTokens /\ TypeOf(i + 1) = "LP" /\ TypeOf(i + 2) = "RP"
  <1>1. a \in Nat /\ b \in Nat /\ c \in Nat /\ a <= b + 1 /\ b <= c
    BY DEF Interval
  <1>2. \A i \in a..(b - 2) : i \in a..(c - 2)
    BY <1>1
  <1>3. \A i \in (b + 1)..(c - 2) : i \in a..(c - 2)
    BY <1>1
  <1>4. \A i \in a..(c - 2) :
          \/ i \in a..(b - 2)
          \/ i \in (b + 1)..(c - 2)
          \/ i = b /\ a <= b /\ b < c
          \/ i = b - 1 /\ a <= b /\ b < c
    BY <1>1
  <1>5. At(b) => CallAt(b)
    BY DEF CallAt
  <1>6. At(b - 1) => CallAt(b)
    <2>1. (b - 1) + 1 = b /\ (b - 1) + 2 = b + 1
      BY <1>1
    <2> QED
      BY <2>1 DEF CallAt
  <1>7. \A i \in a..(c - 2) : At(i) => i \in a..(b - 2) \/ i \in (b + 1)..(c - 2)
    <2> HIDE DEF At
    <2> QED
      BY <1>4, <1>5, <1>6
  <1> QED
    BY <1>2, <1>3, <1>7 DEF CallIn

\* The step of the reconstruction: two parts, one behind the other.
LEMMA RebuildsConcat ==
  ASSUME BInv, NEW s, NEW t, NEW a, NEW b, NEW c, Rebuilds(s, a, b), Rebuilds(t, b + 1, c),
         a <= b /\ b < c => ~NestedAt(b)
  PROVE  Rebuilds(s \o t, a, c)
  <1> DEFINE K == Tokens \ Parens
  <1>1. input \in Seq(Tokens)
    BY DEF BInv, IInv, TypeOK
  <1>2. Interval(a, b) /\ Interval(b + 1, c) /\ s \in Seq(Pieces) /\ t \in Seq(Pieces)
    BY DEF Rebuilds
  <1>3. Interval(a, c)
    BY <1>2 DEF Interval
  <1>i. a \in Nat \ {0} /\ b \in Nat /\ c \in Nat /\ a <= b + 1 /\ b <= c /\ c <= Len(input)
    BY <1>2 DEF Interval
  <1>4. s \o t \in Seq(Pieces)
    BY <1>2, Concatenated
  <1>5. Fatal(s \o t) = {} <=> Fatal(s) = {} /\ Fatal(t) = {}
    BY <1>2, FatalConcat
  <1>6. NestedIn(a, c) \/ StringIn(a, c) <=>
          (NestedIn(a, b) \/ StringIn(a, b)) \/ (NestedIn(b + 1, c) \/ StringIn(b + 1, c))
    <2>1. NestedIn(a, c) <=> NestedIn(a, b) \/ NestedIn(b + 1, c)
      BY <1>2, NestedSplit
    <2>2. StringIn(a, c) <=> StringIn(a, b) \/ StringIn(b + 1, c)
      BY <1>2, StringSplit
    <2> QED
      BY <2>1, <2>2
  <1>7. Fatal(s \o t) # {} <=> NestedIn(a, c) \/ StringIn(a, c)
    BY <1>5, <1>6 DEF Rebuilds
  <1>8. ASSUME Rebuildable, Spelled(a, c), Fatal(s \o t) = {}
        PROVE  Same(Only(K, s \o t), Only(K, Source(a, c)))
    <2>a. Spelled(a, b) /\ Spelled(b + 1, c)
      BY <1>2, <1>8, SpelledSplit
    <2>1. Source(a, b) \in Seq(Pieces) /\ Source(b + 1, c) \in Seq(Pieces)
      BY <1>1, <1>2, SourcePieces DEF Interval
    <2>2. Source(a, c) = Source(a, b) \o Source(b + 1, c)
      BY <1>1, <1>i, SourceConcat
    <2>3. Same(Only(K, s), Only(K, Source(a, b))) /\ Same(Only(K, t), Only(K, Source(b + 1, c)))
      BY <1>5, <1>8, <2>a DEF Rebuilds
    <2> HIDE DEF K
    <2>4. /\ Only(K, s) \in Seq(Pieces) /\ Only(K, t) \in Seq(Pieces)
          /\ Only(K, Source(a, b)) \in Seq(Pieces) /\ Only(K, Source(b + 1, c)) \in Seq(Pieces)
      BY <1>2, <2>1, OnlyType
    <2>5. Same(Only(K, s) \o Only(K, t), Only(K, Source(a, b)) \o Only(K, Source(b + 1, c)))
      BY <2>3, <2>4, SameConcat
    <2>6. Only(K, s \o t) = Only(K, s) \o Only(K, t)
      BY <1>2, OnlyConcat
    <2>7. Only(K, Source(a, b) \o Source(b + 1, c)) = Only(K, Source(a, b)) \o Only(K, Source(b + 1, c))
      BY <2>1, OnlyConcat
    <2> QED
      BY <2>2, <2>5, <2>6, <2>7, Zenon
  <1> QED
    BY <1>3, <1>4, <1>7, <1>8 DEF Rebuilds

\* The step of the display: two parts, one behind the other.
LEMMA DisplaysJoin ==
  ASSUME BInv, NEW s, NEW t, NEW a, NEW b, NEW c, Displays(s, a, b), Displays(t, b + 1, c),
         CallIn(a, c) <=> CallIn(a, b) \/ CallIn(b + 1, c)
  PROVE  Displays(s \o t, a, c)
  <1> DEFINE K == Names \cup {"HEX_LIT"}
  <1>1. input \in Seq(Tokens)
    BY DEF BInv, IInv, TypeOK
  <1>2. Interval(a, b) /\ Interval(b + 1, c) /\ s \in Seq(Pieces) /\ t \in Seq(Pieces)
    BY DEF Displays
  <1>3. Interval(a, c)
    BY <1>2 DEF Interval
  <1>i. a \in Nat \ {0} /\ b \in Nat /\ c \in Nat /\ a <= b + 1 /\ b <= c /\ c <= Len(input)
    BY <1>2 DEF Interval
  <1>4. s \o t \in Seq(Pieces)
    BY <1>2, Concatenated
  <1>5. Fatal(s \o t) = {} <=> Fatal(s) = {} /\ Fatal(t) = {}
    BY <1>2, FatalConcat
  <1>6. CallIn(a, c) <=> CallIn(a, b) \/ CallIn(b + 1, c)
    OBVIOUS
  <1>n. ~NestedIn(a, c) => ~NestedIn(a, b) /\ ~NestedIn(b + 1, c)
    BY <1>2, NestedSplit
  <1>7. ~NestedIn(a, c) => (Fatal(s \o t) # {} <=> CallIn(a, c))
    BY <1>5, <1>6, <1>n DEF Displays
  <1>8. ASSUME ~NestedIn(a, c), Fatal(s \o t) = {}
        PROVE  Shows(Only(Names, s \o t), Only(K, Source(a, c)))
    <2>1. Source(a, b) \in Seq(Pieces) /\ Source(b + 1, c) \in Seq(Pieces)
      BY <1>1, <1>2, SourcePieces DEF Interval
    <2>2. Source(a, c) = Source(a, b) \o Source(b + 1, c)
      BY <1>1, <1>i, SourceConcat
    <2>3. Shows(Only(Names, s), Only(K, Source(a, b))) /\ Shows(Only(Names, t), Only(K, Source(b + 1, c)))
      BY <1>5, <1>8, <1>n DEF Displays
    <2> HIDE DEF K
    <2>4. /\ Only(Names, s) \in Seq(Pieces) /\ Only(Names, t) \in Seq(Pieces)
          /\ Only(K, Source(a, b)) \in Seq(Pieces) /\ Only(K, Source(b + 1, c)) \in Seq(Pieces)
      BY <1>2, <2>1, OnlyType
    <2>5. Shows(Only(Names, s) \o Only(Names, t), Only(K, Source(a, b)) \o Only(K, Source(b + 1, c)))
      BY <2>3, <2>4, ShowsConcat
    <2>6. Only(Names, s \o t) = Only(Names, s) \o Only(Names, t)
      BY <1>2, OnlyConcat
    <2>7. Only(K, Source(a, b) \o Source(b + 1, c)) = Only(K, Source(a, b)) \o Only(K, Source(b + 1, c))
      BY <2>1, OnlyConcat
    <2> QED
      BY <2>2, <2>5, <2>6, <2>7, Zenon
  <1>9. \A i \in 1..Len(s \o t) : (s \o t)[i].sym # "ABORT"
    <2>1. PICK w : w = s \o t
      OBVIOUS
    <2>2. /\ Len(w) = Len(s) + Len(t) /\ Len(s) \in Nat /\ Len(t) \in Nat
          /\ \A i \in 1..Len(s) : w[i] = s[i]
          /\ \A i \in 1..Len(t) : w[Len(s) + i] = t[i]
      BY <1>2, <2>1, Concatenated
    <2>3. \A i \in 1..Len(w) : i \in 1..Len(s) \/ (i - Len(s) \in 1..Len(t) /\ i = Len(s) + (i - Len(s)))
      BY <2>2
    <2>4. (\A i \in 1..Len(s) : s[i].sym # "ABORT") /\ (\A i \in 1..Len(t) : t[i].sym # "ABORT")
      BY DEF Displays
    <2>5. \A i \in 1..Len(w) : w[i].sym # "ABORT"
      BY <2>2, <2>3, <2>4
    <2> QED
      BY <2>1, <2>5
  <1> QED
    BY <1>3, <1>4, <1>7, <1>8, <1>9 DEF Displays

LEMMA DisplaysConcat ==
  ASSUME BInv, NEW s, NEW t, NEW a, NEW b, NEW c, Displays(s, a, b), Displays(t, b + 1, c),
         a <= b /\ b < c => ~CallAt(b)
  PROVE  Displays(s \o t, a, c)
  <1>1. Interval(a, b) /\ Interval(b + 1, c)
    BY DEF Displays
  <1>2. CallIn(a, c) <=> CallIn(a, b) \/ CallIn(b + 1, c)
    BY <1>1, CallSplit
  <1> QED
    BY <1>2, DisplaysJoin

-----------------------------------------------------------------------------
(* The smallest parts of a walk. *)

LEMMA InputTokens ==
  ASSUME BInv
  PROVE  input \in Seq(Tokens) /\ Len(input) \in Nat
  BY DEF BInv, IInv, TypeOK

LEMMA FatalOne ==
  ASSUME NEW x
  PROVE  Fatal(<<x>>) = IF x.sym \in Ends THEN {1} ELSE {}
  BY DEF Fatal

LEMMA FatalNone ==
  /\ Fatal(<<>>) = {}
  /\ \A U : \A s \in Seq(U) : (\A i \in 1..Len(s) : s[i].sym \notin Ends) => Fatal(s) = {}
  BY DEF Fatal

LEMMA SourceOne ==
  ASSUME BInv, NEW i \in 1..Len(input)
  PROVE  Interval(i, i) /\ Source(i, i) = <<TokenPiece(i)>>
  <1>1. Len(input) \in Nat /\ i \in Nat /\ i - i + 1 = 1 /\ i + 1 - 1 = i
    BY InputTokens
  <1>2. Source(i, i) = [k \in 1..1 |-> TokenPiece(i + k - 1)]
    BY <1>1 DEF Source
  <1>3. \A k \in 1..1 : TokenPiece(i + k - 1) = TokenPiece(i)
    BY <1>1
  <1>4. Source(i, i) = [k \in 1..1 |-> TokenPiece(i)]
    BY <1>2, <1>3
  <1>5. \A x : <<x>> = [k \in 1..1 |-> x]
    OBVIOUS
  <1>6. Interval(i, i)
    BY <1>1 DEF Interval
  <1> QED
    BY <1>4, <1>5, <1>6

LEMMA SourceNone ==
  ASSUME NEW a \in Nat
  PROVE  Source(a, a - 1) = <<>>
  <1>1. 1..((a - 1) - a + 1) = {}
    OBVIOUS
  <1> QED
    BY <1>1 DEF Source

LEMMA SmallIntervals ==
  ASSUME NEW i \in Nat
  PROVE  /\ ~NestedIn(i, i) /\ (StringIn(i, i) <=> TypeOf(i) = "STRING_LIT") /\ ~CallIn(i, i)
         /\ ~NestedIn(i, i - 1) /\ ~StringIn(i, i - 1) /\ ~CallIn(i, i - 1)
  <1>1. /\ i..(i - 1) = {} /\ i..i = {i} /\ i..(i - 2) = {}
        /\ i..((i - 1) - 1) = {} /\ i..((i - 1) - 2) = {}
    OBVIOUS
  <1> QED
    BY <1>1 DEF NestedIn, StringIn, CallIn

LEMMA SameOne ==
  /\ Same(<<>>, <<>>)
  /\ \A x, y : x.sym = y.sym /\ (x.at = y.at \/ (x.at = NULL /\ y.sym \notin Names)) => Same(<<x>>, <<y>>)
  BY DEF Same

LEMMA ShowsOne ==
  /\ Shows(<<>>, <<>>)
  /\ \A x, y : x.at = (IF Changed(y) THEN NULL ELSE y.at) => Shows(<<x>>, <<y>>)
  BY DEF Shows

LEMMA NoPieces == <<>> \in Seq(Pieces) /\ \A x \in Pieces : <<x>> \in Seq(Pieces)
  OBVIOUS

\* A part without tokens, or one written anyhow because it will not be the source.
LEMMA RebuildsPoorly ==
  ASSUME NEW s \in Seq(Pieces), Fatal(s) = {}, NEW a, NEW b, Interval(a, b), ~NestedIn(a, b), ~StringIn(a, b),
         ~Rebuildable \/ ~Spelled(a, b)
  PROVE  Rebuilds(s, a, b)
  BY DEF Rebuilds

\* A token and what is written for it.
LEMMA RebuildsOne ==
  ASSUME BInv, NEW i \in 1..Len(input), TypeOf(i) # "STRING_LIT", NEW x \in Pieces,
         x.sym = TypeOf(i), x.at = i \/ (x.at = NULL /\ TypeOf(i) \notin Names)
  PROVE  Rebuilds(<<x>>, i, i)
  <1> DEFINE K == Tokens \ Parens
             y == TokenPiece(i)
  <1>1. y \in Pieces /\ y.sym = TypeOf(i) /\ y.at = i /\ TypeOf(i) \in Tokens
    <2>1. TypeOf(i) \in Tokens
      BY InputTokens DEF TypeOf
    <2> QED
      BY <2>1, InputTokens, PieceOfToken
  <1>2. Interval(i, i) /\ Source(i, i) = <<y>>
    BY SourceOne
  <1>3. i \in Nat /\ ~NestedIn(i, i) /\ ~StringIn(i, i)
    BY InputTokens, SmallIntervals
  <1>4. x.sym \notin Ends
    BY <1>1 DEF Tokens, IdTokens, Relops, Mulops, Addops, Ends
  <1>5. <<x>> \in Seq(Pieces) /\ Fatal(<<x>>) = {}
    BY <1>4, NoPieces, FatalOne
  <1> HIDE DEF y, K
  <1>6. Only(K, <<x>>) = (IF x.sym \in K THEN <<x>> ELSE <<>>) /\ Only(K, <<y>>) = IF x.sym \in K THEN <<y>> ELSE <<>>
    BY <1>1, OnlyOne
  <1>7. Same(<<x>>, <<y>>) /\ Same(<<>>, <<>>)
    BY <1>1, SameOne
  <1>8. Same(Only(K, <<x>>), Only(K, <<y>>))
    BY <1>6, <1>7
  <1> QED
    BY <1>2, <1>3, <1>5, <1>8 DEF Rebuilds, K

LEMMA RebuildsToken ==
  ASSUME BInv, NEW i \in 1..Len(input), NEW sym, TypeOf(i) = sym, sym \notin Names
  PROVE  Rebuilds(Lit(sym), i, i)
  <1>1. sym \in Tokens
    BY InputTokens DEF TypeOf
  <1>2. Piece(sym, NULL) \in Pieces /\ Piece(sym, NULL).sym = sym /\ Piece(sym, NULL).at = NULL
    BY <1>1 DEF Piece, Pieces, NULL
  <1>3. TypeOf(i) # "STRING_LIT"
    BY DEF Names
  <1> QED
    BY <1>2, <1>3, RebuildsOne DEF Lit

LEMMA RebuildsText ==
  ASSUME BInv, NEW i \in 1..Len(input), TypeOf(i) # "STRING_LIT"
  PROVE  Rebuilds(Text(i), i, i)
  <1>1. TokenPiece(i) \in Pieces /\ TokenPiece(i).sym = TypeOf(i) /\ TokenPiece(i).at = i
    BY InputTokens, PieceOfToken
  <1>2. Text(i) = <<TokenPiece(i)>>
    BY InputTokens, UnwrittenAssumption DEF Text
  <1> QED
    BY <1>1, <1>2, RebuildsOne

\* Parentheses are neither here nor there.
LEMMA RebuildsInserted ==
  ASSUME NEW a, NEW b, Interval(a, b), a = b + 1, NEW sym \in Parens
  PROVE  Rebuilds(Lit(sym), a, b)
  <1> DEFINE K == Tokens \ Parens
             x == Piece(sym, NULL)
  <1>1. a \in Nat /\ b = a - 1 /\ sym \in Tokens /\ sym \notin Ends /\ sym \notin K
    BY DEF Interval, Parens, Tokens, Ends
  <1>2. x \in Pieces /\ x.sym = sym
    BY <1>1 DEF Pieces, Piece, NULL
  <1> HIDE DEF x, K
  <1>3. ~NestedIn(a, b) /\ ~StringIn(a, b) /\ Source(a, b) = <<>>
    BY <1>1, SmallIntervals, SourceNone
  <1>4. <<x>> \in Seq(Pieces) /\ Fatal(<<x>>) = {}
    BY <1>1, <1>2, NoPieces, FatalOne
  <1>5. Only(K, <<x>>) = <<>> /\ Only(K, <<>>) = <<>>
    BY <1>1, <1>2, OnlyOne, OnlyEmpty
  <1>6. Same(Only(K, <<x>>), Only(K, Source(a, b)))
    BY <1>3, <1>5, SameOne
  <1>7. Rebuilds(<<x>>, a, b)
    BY <1>3, <1>4, <1>6 DEF Rebuilds, K
  <1> QED
    BY <1>7 DEF Lit, x

LEMMA RebuildsDropped ==
  ASSUME BInv, NEW i \in 1..Len(input), TypeOf(i) \in Parens
  PROVE  Rebuilds(<<>>, i, i)
  <1> DEFINE K == Tokens \ Parens
             y == TokenPiece(i)
  <1>1. y.sym \notin K /\ TypeOf(i) # "STRING_LIT"
    BY InputTokens, PieceOfToken DEF Parens
  <1>2. Interval(i, i) /\ Source(i, i) = <<y>>
    BY SourceOne
  <1>3. i \in Nat /\ ~NestedIn(i, i) /\ ~StringIn(i, i)
    BY <1>1, InputTokens, SmallIntervals
  <1> HIDE DEF y, K
  <1>4. Only(K, <<y>>) = <<>> /\ Only(K, <<>>) = <<>>
    BY <1>1, OnlyOne, OnlyEmpty
  <1>5. Same(Only(K, <<>>), Only(K, Source(i, i)))
    BY <1>2, <1>4, SameOne
  <1> QED
    BY <1>2, <1>3, <1>5, NoPieces, FatalNone DEF Rebuilds, K

\* What ends the process.
LEMMA RebuildsAbort ==
  ASSUME NEW where \in Places, NEW a, NEW b, Interval(a, b), NestedIn(a, b) \/ StringIn(a, b)
  PROVE  Rebuilds(Fault("ABORT", where), a, b)
  <1> DEFINE x == Piece("ABORT", where)
  <1>1. x \in Pieces /\ x.sym = "ABORT"
    BY DEF Piece, Pieces
  <1> HIDE DEF x
  <1>2. <<x>> \in Seq(Pieces) /\ Fatal(<<x>>) # {}
    BY <1>1, NoPieces, FatalOne DEF Ends
  <1> QED
    BY <1>2 DEF Rebuilds, Fault, x

-----------------------------------------------------------------------------
(* Stars, which no part of the source is but the end of a type. *)

LEMMA StarsAre ==
  ASSUME NEW d \in Nat
  PROVE  Stars(d) = [i \in 1..d |-> Piece("MUL", NULL)]
  <1> DEFINE x == Piece("MUL", NULL)
             E(f) == f = [n \in 0..d |-> IF n = 0 THEN <<>> ELSE Append(f[n - 1], x)]
             g == [n \in 0..d |-> [i \in 1..n |-> x]]
  <1>1. E(g)
    <2>1. ASSUME NEW n \in 0..d PROVE g[n] = IF n = 0 THEN <<>> ELSE Append(g[n - 1], x)
      <3> HIDE DEF x
      <3>1. CASE n = 0
        BY <3>1
      <3>2. CASE n # 0
        <4>1. n - 1 \in 0..d /\ n - 1 \in Nat
          BY <3>2
        <4>2. g[n - 1] = [i \in 1..(n - 1) |-> x]
          BY <4>1
        <4>3. Append([i \in 1..(n - 1) |-> x], x) = [i \in 1..n |-> x]
          <5>1. [i \in 1..(n - 1) |-> x] \in Seq({x})
            BY <4>1, SMTT(30)
          <5> QED
            BY <4>1, <5>1
        <4> QED
          BY <3>2, <4>2, <4>3
      <3> QED
        BY <3>1, <3>2
    <2> QED
      BY <2>1
  <1> HIDE DEF g
  <1> DEFINE f == CHOOSE f : E(f)
  <1>2. E(f)
    BY <1>1
  <1>3. Stars(d) = f[d]
    BY DEF Stars
  <1> HIDE DEF f, x
  <1> DEFINE T == {k \in Nat : k <= d => f[k] = [i \in 1..k |-> x]}
  <1>4. 0 \in T
    <2>1. f[0] = <<>>
      BY <1>2
    <2>2. <<>> = [i \in 1..0 |-> x]
      OBVIOUS
    <2> QED
      BY <2>1, <2>2
  <1>5. ASSUME NEW k \in T, k \in Nat PROVE k + 1 \in T
    <2> SUFFICES ASSUME k + 1 <= d PROVE f[k + 1] = [i \in 1..(k + 1) |-> x]
      BY <1>5
    <2>1. f[k + 1] = Append(f[k], x)
      <3>1. k + 1 \in 0..d /\ k + 1 # 0 /\ (k + 1) - 1 = k
        BY <1>5
      <3> QED
        BY <1>2, <3>1
    <2>2. f[k] = [i \in 1..k |-> x]
      BY <1>5
    <2>3. Append([i \in 1..k |-> x], x) = [i \in 1..(k + 1) |-> x]
      <3>1. [i \in 1..k |-> x] \in Seq({x})
        BY <1>5
      <3> QED
        BY <1>5, <3>1
    <2> QED
      BY <2>1, <2>2, <2>3
  <1>6. Nat \subseteq T
    <2> HIDE DEF T
    <2> QED
      BY <1>4, <1>5, Induction
  <1> QED
    BY <1>3, <1>6 DEF x
LEMMA RebuildsStars ==
  ASSUME BInv, NEW a, NEW b, Interval(a, b), \A i \in a..b : TypeOf(i) = "MUL"
  PROVE  Rebuilds(Stars(b - a + 1), a, b)
  <1> DEFINE K == Tokens \ Parens
             d == b - a + 1
             s == Stars(d)
             u == Source(a, b)
  <1>1. a \in Nat \ {0} /\ b \in Nat /\ d \in Nat /\ a <= b + 1 /\ b <= Len(input)
    BY DEF Interval
  <1>2. u \in Seq(Pieces) /\ Len(u) = d /\ \A i \in 1..d : u[i] = TokenPiece(a + i - 1)
    BY <1>1, InputTokens, SourcePieces
  <1>3. \A i \in 1..d : u[i].sym = "MUL" /\ u[i].at = a + i - 1
    <2>1. \A i \in 1..d : a + i - 1 \in a..b /\ a + i - 1 \in 1..Len(input)
      BY <1>1
    <2> QED
      BY <1>2, <2>1, InputTokens, PieceOfToken
  <1>4. s = [i \in 1..d |-> Piece("MUL", NULL)]
    BY <1>1, StarsAre
  <1>5. Piece("MUL", NULL) \in Pieces
    BY DEF Piece, Pieces, NULL, Tokens, Mulops
  <1> HIDE DEF d, s, u, K
  <1>6. s \in Seq(Pieces) /\ Len(s) = d
    <2>1. s \in [1..d -> Pieces]
      BY <1>4, <1>5
    <2> QED
      BY <1>1, <2>1
  <1>7. \A i \in 1..d : s[i].sym = "MUL" /\ s[i].at = NULL
    BY <1>4 DEF Piece
  <1>8. "MUL" \in K /\ "MUL" \notin Ends /\ "MUL" # "LBRK" /\ "MUL" # "STRING_LIT" /\ "MUL" \notin Names
    BY DEF K, Tokens, Mulops, Parens, Ends, Names
  <1>9. Only(K, s) = s /\ Only(K, u) = u
    BY <1>2, <1>3, <1>6, <1>7, <1>8, OnlyAll
  <1>10. Same(s, u)
    <2>1. DOMAIN u = 1..d
      BY <1>2
    <2> QED
      BY <1>2, <1>3, <1>6, <1>7, <1>8, <2>1 DEF Same
  <1>11. Fatal(s) = {}
    BY <1>6, <1>7, <1>8, FatalNone
  <1>12. ~NestedIn(a, b) /\ ~StringIn(a, b)
    <2>1. \A i \in a..(b - 1) : i \in a..b
      BY <1>1
    <2> QED
      BY <1>8, <2>1 DEF NestedIn, StringIn
  <1>13. Rebuilds(s, a, b)
    BY <1>6, <1>9, <1>10, <1>11, <1>12 DEF Rebuilds, K, u
  <1> QED
    BY <1>13 DEF s, d

-----------------------------------------------------------------------------
(* The same for the tree. *)

\* A token and what is shown of it.
LEMMA DisplaysOne ==
  ASSUME BInv, NEW i \in 1..Len(input), NEW x \in Pieces, x.sym \in Tokens,
         x.sym \in Names <=> TypeOf(i) \in Names \cup {"HEX_LIT"},
         x.at = IF Changed(TokenPiece(i)) THEN NULL ELSE i
  PROVE  Displays(<<x>>, i, i)
  <1> DEFINE K == Names \cup {"HEX_LIT"}
             y == TokenPiece(i)
  <1>1. y \in Pieces /\ y.sym = TypeOf(i) /\ y.at = i
    BY InputTokens, PieceOfToken
  <1>2. Interval(i, i) /\ Source(i, i) = <<y>>
    BY SourceOne
  <1>3. i \in Nat /\ ~NestedIn(i, i) /\ ~CallIn(i, i)
    BY InputTokens, SmallIntervals
  <1>4. x.sym \notin Ends
    BY DEF Tokens, IdTokens, Relops, Mulops, Addops, Ends
  <1>5. <<x>> \in Seq(Pieces) /\ Fatal(<<x>>) = {}
    BY <1>4, NoPieces, FatalOne
  <1>a. \A k \in 1..Len(<<x>>) : <<x>>[k].sym # "ABORT"
    BY <1>4 DEF Ends
  <1>b. x.at = IF Changed(y) THEN NULL ELSE y.at
    BY <1>1
  <1> HIDE DEF y
  <1>6. Only(Names, <<x>>) = (IF x.sym \in Names THEN <<x>> ELSE <<>>) /\ Only(K, <<y>>) = IF x.sym \in Names THEN <<y>> ELSE <<>>
    BY <1>1, OnlyOne
  <1>7. Shows(<<x>>, <<y>>) /\ Shows(<<>>, <<>>)
    BY <1>1, <1>b, ShowsOne
  <1>8. Shows(Only(Names, <<x>>), Only(K, <<y>>))
    BY <1>6, <1>7
  <1> QED
    BY <1>2, <1>3, <1>5, <1>8, <1>a DEF Displays

LEMMA DisplaysText ==
  ASSUME BInv, NEW i \in 1..Len(input), TypeOf(i) \notin {"DECIMAL_LIT", "HEX_LIT"}
  PROVE  Displays(Text(i), i, i)
  <1>1. TokenPiece(i) \in Pieces /\ TokenPiece(i).sym = TypeOf(i) /\ TokenPiece(i).at = i /\ TypeOf(i) \in Tokens
    <2>1. TypeOf(i) \in Tokens
      BY InputTokens DEF TypeOf
    <2> QED
      BY <2>1, InputTokens, PieceOfToken
  <1>2. Text(i) = <<TokenPiece(i)>>
    BY InputTokens, UnwrittenAssumption DEF Text
  <1>3. ~Changed(TokenPiece(i))
    BY <1>1 DEF Changed
  <1> QED
    BY <1>1, <1>2, <1>3, DisplaysOne

\* A part that shows nothing, of tokens that are not shown.
LEMMA DisplaysNothing ==
  ASSUME BInv, NEW s \in Seq(Pieces), \A i \in 1..Len(s) : s[i].sym \notin Names \cup Ends,
         NEW a, NEW b, Interval(a, b), ~CallIn(a, b), \A i \in a..b : TypeOf(i) \notin Names \cup {"HEX_LIT"}
  PROVE  Displays(s, a, b)
  <1> DEFINE K == Names \cup {"HEX_LIT"}
             u == Source(a, b)
             d == b - a + 1
  <1>1. a \in Nat \ {0} /\ b \in Nat /\ d \in Nat /\ a <= b + 1 /\ b <= Len(input)
    BY DEF Interval
  <1>2. u \in Seq(Pieces) /\ Len(u) = d /\ \A i \in 1..d : u[i] = TokenPiece(a + i - 1)
    BY <1>1, InputTokens, SourcePieces
  <1>3. \A i \in 1..d : u[i].sym \notin K
    <2>1. \A i \in 1..d : a + i - 1 \in a..b /\ a + i - 1 \in 1..Len(input)
      BY <1>1
    <2> QED
      BY <1>2, <2>1, InputTokens, PieceOfToken
  <1> HIDE DEF u, d
  <1>4. Only(Names, s) = <<>>
    BY OnlyNone
  <1>5. Only(K, u) = <<>>
    BY <1>2, <1>3, OnlyNone
  <1>6. Shows(Only(Names, s), Only(K, u))
    BY <1>4, <1>5, ShowsOne
  <1>7. Fatal(s) = {}
    BY FatalNone
  <1>8. \A i \in 1..Len(s) : s[i].sym # "ABORT"
    BY DEF Ends
  <1> QED
    BY <1>6, <1>7, <1>8 DEF Displays, u

LEMMA DisplaysToken ==
  ASSUME BInv, NEW i \in 1..Len(input), TypeOf(i) \notin Names \cup {"HEX_LIT"}
  PROVE  Displays(<<>>, i, i)
  <1>1. Interval(i, i) /\ i \in Nat
    BY SourceOne, InputTokens
  <1>2. ~CallIn(i, i) /\ i..i = {i}
    BY <1>1, SmallIntervals
  <1>3. \A k \in 1..Len(<<>>) : FALSE
    OBVIOUS
  <1> QED
    BY <1>1, <1>2, <1>3, DisplaysNothing, NoPieces

\* Fields nobody wrote.
LEMMA Unknown ==
  ASSUME NEW where \in Places
  PROVE  Fault("UNWRITTEN", where) \in Seq(Pieces) /\ \A i \in 1..Len(Fault("UNWRITTEN", where)) :
           Fault("UNWRITTEN", where)[i].sym = "UNWRITTEN"
  <1> DEFINE x == Piece("UNWRITTEN", where)
  <1>1. x \in Pieces /\ x.sym = "UNWRITTEN"
    BY DEF Piece, Pieces
  <1> HIDE DEF x
  <1>2. <<x>> \in Seq(Pieces) /\ \A i \in 1..Len(<<x>>) : <<x>>[i].sym = "UNWRITTEN"
    BY <1>1, NoPieces
  <1> QED
    BY <1>2 DEF Fault, x

LEMMA DisplaysUnknown ==
  ASSUME BInv, NEW where \in Places, NEW a, NEW b, Interval(a, b), a = b + 1
  PROVE  Displays(Fault("UNWRITTEN", where), a, b)
  <1>1. a \in Nat /\ b = a - 1 /\ ~CallIn(a, b) /\ a..b = {}
    BY SmallIntervals DEF Interval
  <1>2. "UNWRITTEN" \notin Names \cup Ends
    BY DEF Names, Ends
  <1>3. PICK s \in Seq(Pieces) : s = Fault("UNWRITTEN", where) /\ \A i \in 1..Len(s) : s[i].sym = "UNWRITTEN"
    BY Unknown
  <1>4. Displays(s, a, b)
    BY <1>1, <1>2, <1>3, DisplaysNothing
  <1> QED
    BY <1>3, <1>4

LEMMA DisplaysNested ==
  ASSUME NEW where \in Places, NEW a, NEW b, Interval(a, b), NestedIn(a, b)
  PROVE  Displays(Fault("UNWRITTEN", where), a, b)
  <1>1. PICK s \in Seq(Pieces) : s = Fault("UNWRITTEN", where) /\ \A i \in 1..Len(s) : s[i].sym = "UNWRITTEN"
    BY Unknown
  <1>2. Displays(s, a, b)
    BY <1>1 DEF Displays
  <1> QED
    BY <1>1, <1>2

\* A call without arguments.
LEMMA DisplaysCrash ==
  ASSUME BInv, NEW a, Interval(a, a + 2), TypeOf(a) \in IdTokens, TypeOf(a + 1) = "LP", TypeOf(a + 2) = "RP",
         NEW where \in Places
  PROVE  Displays(Text(a) \o Fault("CRASH", where), a, a + 2)
  <1> DEFINE x == Piece("CRASH", where)
             y == TokenPiece(a)
  <1>0. a \in Nat \ {0} /\ a + 2 <= Len(input) /\ a \in 1..Len(input)
    BY InputTokens DEF Interval
  <1>1. x \in Pieces /\ x.sym = "CRASH"
    BY DEF Piece, Pieces
  <1>2. y \in Pieces /\ y.sym \in IdTokens
    BY <1>0, InputTokens, PieceOfToken
  <1>3. Text(a) \o Fault("CRASH", where) = <<y>> \o <<x>>
    BY <1>0, InputTokens, UnwrittenAssumption DEF Text, Fault
  <1>4. CallIn(a, a + 2)
    <2>1. a \in a..((a + 2) - 2)
      BY <1>0
    <2> QED
      BY <2>1 DEF CallIn
  <1> HIDE DEF x, y
  <1>5. PICK w : w = <<y>> \o <<x>>
    OBVIOUS
  <1>6. w \in Seq(Pieces) /\ Len(w) = 2 /\ DOMAIN w = 1..2 /\ w[1] = y /\ w[2] = x
    <2>1. PICK u \in Seq(Pieces), v \in Seq(Pieces) :
            u = <<y>> /\ v = <<x>> /\ Len(u) = 1 /\ Len(v) = 1 /\ u[1] = y /\ v[1] = x
      <3>1. <<y>> \in Seq(Pieces) /\ <<x>> \in Seq(Pieces)
        BY <1>1, <1>2, NoPieces
      <3>2. \A z : Len(<<z>>) = 1 /\ <<z>>[1] = z
        OBVIOUS
      <3> QED
        BY <3>1, <3>2
    <2>2. w = u \o v
      BY <1>5, <2>1
    <2>3. /\ w \in Seq(Pieces) /\ Len(w) = Len(u) + Len(v)
          /\ \A i \in 1..Len(u) : w[i] = u[i]
          /\ \A i \in 1..Len(v) : w[Len(u) + i] = v[i]
      BY <2>2, Concatenated
    <2>4. w[1] = u[1] /\ w[1 + 1] = v[1]
      BY <2>1, <2>3
    <2> QED
      BY <2>1, <2>3, <2>4
  <1>7. 2 \in Fatal(w)
    BY <1>1, <1>6 DEF Fatal, Ends
  <1>8. \A i \in 1..2 : w[i].sym # "ABORT"
    <2>1. \A i \in 1..2 : i = 1 \/ i = 2
      OBVIOUS
    <2> QED
      BY <1>1, <1>2, <1>6, <2>1 DEF IdTokens
  <1>9. Displays(w, a, a + 2)
    BY <1>4, <1>6, <1>7, <1>8 DEF Displays
  <1> QED
    BY <1>3, <1>5, <1>9

-----------------------------------------------------------------------------
(* What the recursive definitions of the walks yield. *)

LEMMA ReconstructionsDefined ==
  ASSUME BInv
  PROVE  \A n \in 1..Len(tree) : Reconstructions[n] = ReconstructNode(Earlier(Reconstructions, n), n)
  <1> DEFINE L == Len(tree)
             E(f, k) == f = [n \in 1..k |-> ReconstructNode(Earlier(f, n), n)]
             T == {k \in Nat : k <= L => \E f : E(f, k)}
  <1>1. L \in Nat /\ DOMAIN tree = 1..L
    BY Heap
  <1> HIDE DEF L
  <1>2. 0 \in T
    <2>1. E([n \in 1..0 |-> n], 0)
      <3>1. 1..0 = {}
        OBVIOUS
      <3> QED
        BY <3>1
    <2> QED
      BY <2>1
  <1>3. ASSUME NEW k \in T, k \in Nat PROVE k + 1 \in T
    <2> SUFFICES ASSUME k + 1 <= L PROVE \E g : E(g, k + 1)
      BY <1>3
    <2>1. PICK f : E(f, k)
      BY <1>1, <1>3
    <2> DEFINE g == [n \in 1..(k + 1) |-> IF n = k + 1 THEN ReconstructNode(Earlier(f, k + 1), k + 1) ELSE f[n]]
    <2>2. \A n \in 1..(k + 1) : n # k + 1 => n \in 1..k /\ g[n] = f[n]
      BY <1>3
    <2>3. ASSUME NEW n \in 1..(k + 1) PROVE Earlier(g, n) = Earlier(f, n)
      <3>1. \A m \in 1..(n - 1) : m \in 1..(k + 1) /\ m # k + 1
        BY <1>3
      <3>2. \A m \in 1..(n - 1) : g[m] = f[m]
        BY <2>2, <3>1
      <3> HIDE DEF g
      <3> QED
        BY <3>2 DEF Earlier
    <2>4. ASSUME NEW n \in 1..(k + 1) PROVE g[n] = ReconstructNode(Earlier(f, n), n)
      <3>1. CASE n = k + 1
        BY <3>1
      <3>2. CASE n # k + 1
        BY <2>1, <2>2, <3>2
      <3> QED
        BY <3>1, <3>2
    <2>5. g = [n \in 1..(k + 1) |-> g[n]]
      OBVIOUS
    <2> HIDE DEF g
    <2>6. \A n \in 1..(k + 1) : g[n] = ReconstructNode(Earlier(g, n), n)
      BY <2>3, <2>4
    <2>7. E(g, k + 1)
      BY <2>5, <2>6
    <2> QED
      BY <2>7
  <1>4. Nat \subseteq T
    <2> HIDE DEF T
    <2> QED
      BY <1>2, <1>3, Induction
  <1>5. PICK f : E(f, L)
    BY <1>1, <1>4
  <1> DEFINE h == CHOOSE h : h = [n \in DOMAIN tree |-> ReconstructNode(Earlier(h, n), n)]
  <1>6. h = [n \in DOMAIN tree |-> ReconstructNode(Earlier(h, n), n)]
    BY <1>1, <1>5
  <1>7. Reconstructions = h
    BY DEF Reconstructions
  <1> HIDE DEF h
  <1>8. \A n \in 1..L : h[n] = ReconstructNode(Earlier(h, n), n)
    BY <1>1, <1>6
  <1> QED
    BY <1>7, <1>8 DEF L

LEMMA ShowingsDefined ==
  ASSUME BInv
  PROVE  \A n \in 1..Len(tree) : Showings[n] = ShowNode(Earlier(Showings, n), n)
  <1> DEFINE L == Len(tree)
             E(f, k) == f = [n \in 1..k |-> ShowNode(Earlier(f, n), n)]
             T == {k \in Nat : k <= L => \E f : E(f, k)}
  <1>1. L \in Nat /\ DOMAIN tree = 1..L
    BY Heap
  <1> HIDE DEF L
  <1>2. 0 \in T
    <2>1. E([n \in 1..0 |-> n], 0)
      <3>1. 1..0 = {}
        OBVIOUS
      <3> QED
        BY <3>1
    <2> QED
      BY <2>1
  <1>3. ASSUME NEW k \in T, k \in Nat PROVE k + 1 \in T
    <2> SUFFICES ASSUME k + 1 <= L PROVE \E g : E(g, k + 1)
      BY <1>3
    <2>1. PICK f : E(f, k)
      BY <1>1, <1>3
    <2> DEFINE g == [n \in 1..(k + 1) |-> IF n = k + 1 THEN ShowNode(Earlier(f, k + 1), k + 1) ELSE f[n]]
    <2>2. \A n \in 1..(k + 1) : n # k + 1 => n \in 1..k /\ g[n] = f[n]
      BY <1>3
    <2>3. ASSUME NEW n \in 1..(k + 1) PROVE Earlier(g, n) = Earlier(f, n)
      <3>1. \A m \in 1..(n - 1) : m \in 1..(k + 1) /\ m # k + 1
        BY <1>3
      <3>2. \A m \in 1..(n - 1) : g[m] = f[m]
        BY <2>2, <3>1
      <3> HIDE DEF g
      <3> QED
        BY <3>2 DEF Earlier
    <2>4. ASSUME NEW n \in 1..(k + 1) PROVE g[n] = ShowNode(Earlier(f, n), n)
      <3>1. CASE n = k + 1
        BY <3>1
      <3>2. CASE n # k + 1
        BY <2>1, <2>2, <3>2
      <3> QED
        BY <3>1, <3>2
    <2>5. g = [n \in 1..(k + 1) |-> g[n]]
      OBVIOUS
    <2> HIDE DEF g
    <2>6. \A n \in 1..(k + 1) : g[n] = ShowNode(Earlier(g, n), n)
      BY <2>3, <2>4
    <2>7. E(g, k + 1)
      BY <2>5, <2>6
    <2> QED
      BY <2>7
  <1>4. Nat \subseteq T
    <2> HIDE DEF T
    <2> QED
      BY <1>2, <1>3, Induction
  <1>5. PICK f : E(f, L)
    BY <1>1, <1>4
  <1> DEFINE h == CHOOSE h : h = [n \in DOMAIN tree |-> ShowNode(Earlier(h, n), n)]
  <1>6. h = [n \in DOMAIN tree |-> ShowNode(Earlier(h, n), n)]
    BY <1>1, <1>5
  <1>7. Showings = h
    BY DEF Showings
  <1> HIDE DEF h
  <1>8. \A n \in 1..L : h[n] = ShowNode(Earlier(h, n), n)
    BY <1>1, <1>6
  <1> QED
    BY <1>7, <1>8 DEF L

LEMMA EarlierIs ==
  ASSUME NEW t, NEW n \in Nat, NEW v \in 1..(n - 1)
  PROVE  Earlier(t, n)[v] = t[v]
  BY DEF Earlier

\* The loop over a list is what its next cell leads to: links lead to younger cells, so it ends.
LEMMA WalkListDefined ==
  ASSUME BInv, NEW t, NEW separator
  PROVE  /\ WalkList(t, NULL, separator) = <<>>
         /\ \A p \in 1..Len(cells) :
              WalkList(t, p, separator) = t[cells[p].item] \o
                IF cells[p].next \in 1..Len(cells) THEN separator \o WalkList(t, cells[p].next, separator)
                ELSE IF cells[p].next = NULL THEN <<>> ELSE Fault("UNWRITTEN", "next")
  <1> DEFINE L == Len(cells)
             Val(w, p) == t[cells[p].item] \o
               CASE cells[p].next \in DOMAIN cells -> separator \o w[cells[p].next]
                 [] cells[p].next = NULL -> <<>>
                 [] OTHER -> Fault("UNWRITTEN", "next")
             E(f, k) == f = [p \in (L - k + 1)..L |-> Val(f, p)]
             T == {k \in Nat : k <= L => \E f : E(f, k)}
  <1>1. L \in Nat /\ DOMAIN cells = 1..L /\ \A p \in 1..L : cells[p].next \in 1..L => cells[p].next > p
    <2>1. Forward(cells)
      BY CellsForward
    <2> QED
      BY <2>1 DEF Forward
  <1>v. ASSUME NEW f, NEW g, NEW p \in 1..L, cells[p].next \in 1..L => f[cells[p].next] = g[cells[p].next]
        PROVE  Val(f, p) = Val(g, p)
    <2>1. CASE cells[p].next \in 1..L
      BY <1>1, <1>v, <2>1
    <2>2. CASE cells[p].next \notin 1..L
      BY <1>1, <2>2
    <2> QED
      BY <2>1, <2>2
  <1>w. \A f : \A p \in 1..L : Val(f, p) = t[cells[p].item] \o
                IF cells[p].next \in 1..L THEN separator \o f[cells[p].next]
                ELSE IF cells[p].next = NULL THEN <<>> ELSE Fault("UNWRITTEN", "next")
    <2> SUFFICES ASSUME NEW f, NEW p \in 1..L
                 PROVE  Val(f, p) = t[cells[p].item] \o
                          IF cells[p].next \in 1..L THEN separator \o f[cells[p].next]
                          ELSE IF cells[p].next = NULL THEN <<>> ELSE Fault("UNWRITTEN", "next")
      OBVIOUS
    <2>1. CASE cells[p].next \in 1..L
      <3> DEFINE x == separator \o f[cells[p].next]
      <3>1. cells[p].next \in DOMAIN cells /\ cells[p].next # NULL
        BY <1>1, <2>1 DEF NULL
      <3> HIDE DEF x
      <3>2. (CASE cells[p].next \in DOMAIN cells -> x
               [] cells[p].next = NULL -> <<>>
               [] OTHER -> Fault("UNWRITTEN", "next")) = x
        BY <3>1
      <3>3. (IF cells[p].next \in 1..L THEN x ELSE IF cells[p].next = NULL THEN <<>> ELSE Fault("UNWRITTEN", "next")) = x
        BY <2>1
      <3> QED
        BY <3>2, <3>3, Zenon DEF x
    <2>2. CASE cells[p].next \notin 1..L /\ cells[p].next = NULL
      BY <1>1, <2>2
    <2>3. CASE cells[p].next \notin 1..L /\ cells[p].next # NULL
      BY <1>1, <2>3
    <2> QED
      BY <2>1, <2>2, <2>3
  <1> HIDE DEF L, Val
  <1>2. 0 \in T
    <2>1. (L - 0 + 1)..L = {}
      BY <1>1
    <2>2. E([p \in {} |-> p], 0)
      BY <2>1
    <2> QED
      BY <2>2
  <1>3. ASSUME NEW k \in T, k \in Nat PROVE k + 1 \in T
    <2> SUFFICES ASSUME k + 1 <= L PROVE \E g : E(g, k + 1)
      BY <1>3
    <2>1. PICK f : E(f, k)
      BY <1>1, <1>3
    <2> DEFINE q == L - k
               g == [p \in (L - (k + 1) + 1)..L |-> IF p = q THEN Val(f, q) ELSE f[p]]
    <2>2. q \in 1..L /\ (L - (k + 1) + 1)..L = q..L /\ (L - k + 1)..L = (q + 1)..L
      BY <1>1, <1>3
    <2> HIDE DEF q
    <2>3. \A p \in q..L : p \in 1..L /\ (cells[p].next \in 1..L => cells[p].next \in (q + 1)..L /\ cells[p].next \in q..L /\ cells[p].next # q)
      BY <1>1, <2>2
    <2>4. \A p \in (q + 1)..L : f[p] = Val(f, p)
      BY <2>1, <2>2
    <2>5. \A p \in q..L : g[p] = IF p = q THEN Val(f, q) ELSE f[p]
      BY <2>2
    <2>6. g = [p \in q..L |-> g[p]]
      BY <2>2
    <2> HIDE DEF g
    <2>7. \A p \in q..L : g[p] = Val(g, p)
      <3> SUFFICES ASSUME NEW p \in q..L PROVE g[p] = Val(g, p)
        OBVIOUS
      <3>1. cells[p].next \in 1..L => f[cells[p].next] = g[cells[p].next]
        BY <2>3, <2>5
      <3>2. Val(f, p) = Val(g, p)
        BY <1>v, <2>3, <3>1
      <3>3. CASE p = q
        BY <2>5, <3>2, <3>3
      <3>4. CASE p # q
        <4>1. p \in (q + 1)..L
          BY <1>1, <2>2, <3>4
        <4> QED
          BY <2>4, <2>5, <3>2, <3>4, <4>1
      <3> QED
        BY <3>3, <3>4
    <2>8. E(g, k + 1)
      BY <2>2, <2>6, <2>7
    <2> QED
      BY <2>8
  <1>4. Nat \subseteq T
    <2> HIDE DEF T
    <2> QED
      BY <1>2, <1>3, Induction
  <1>5. PICK f : E(f, L)
    BY <1>1, <1>4
  <1>6. (L - L + 1)..L = 1..L
    BY <1>1
  <1> DEFINE h == CHOOSE h : h = [p \in DOMAIN cells |-> Val(h, p)]
  <1>7. h = [p \in DOMAIN cells |-> Val(h, p)]
    BY <1>1, <1>5, <1>6
  <1>8. \A p : WalkList(t, p, separator) = IF p = NULL THEN <<>> ELSE h[p]
    BY DEF WalkList, Val
  <1> HIDE DEF h
  <1>9. \A p \in 1..L : h[p] = Val(h, p)
    BY <1>1, <1>7
  <1>10. \A p \in 1..L : p # NULL
    BY <1>1 DEF NULL
  <1>11. \A p \in 1..L : WalkList(t, p, separator) = h[p]
    BY <1>8, <1>10
  <1>12. WalkList(t, NULL, separator) = <<>>
    BY <1>8
  <1>13. \A p \in 1..L : h[p] = t[cells[p].item] \o
                IF cells[p].next \in 1..L THEN separator \o h[cells[p].next]
                ELSE IF cells[p].next = NULL THEN <<>> ELSE Fault("UNWRITTEN", "next")
    BY <1>9, <1>w
  <1>14. ASSUME NEW p \in 1..L
         PROVE  WalkList(t, p, separator) = t[cells[p].item] \o
                IF cells[p].next \in 1..L THEN separator \o WalkList(t, cells[p].next, separator)
                ELSE IF cells[p].next = NULL THEN <<>> ELSE Fault("UNWRITTEN", "next")
    <2>1. cells[p].next \in 1..L => WalkList(t, cells[p].next, separator) = h[cells[p].next]
      BY <1>11
    <2>2. CASE cells[p].next \in 1..L
      BY <1>11, <1>13, <2>1, <2>2
    <2>3. CASE cells[p].next \notin 1..L
      BY <1>11, <1>13, <2>3
    <2> QED
      BY <2>2, <2>3
  <1> QED
    BY <1>12, <1>14 DEF L

-----------------------------------------------------------------------------
(* The reconstruction of lists. *)

\* The nodes before n are rebuilt.
RebuiltBefore(t, n) ==
  \A m \in 1..(n - 1) : tree[m].sym # "HEADER" => Rebuilds(t[m], tree[m].from, tree[m].to)

\* Tokens of a node that is not a header: nothing comes about where they end.
Solid(a, b) == a \in 1..b /\ b \in 1..Len(input) /\ ~NestedAt(b) /\ ~CallAt(b)

LEMMA NodeSolid ==
  ASSUME BInv, TreeFormed, NEW n \in 1..Len(tree), tree[n].sym # "HEADER"
  PROVE  /\ Solid(tree[n].from, tree[n].to)
         /\ tree[n].sym \in ExprKinds => TypeOf(tree[n].from) \notin {"LBRK", "RP"}
  <1>1. Edges(Store, tree[n].sym, tree[n].from, tree[n].to)
    BY Heap DEF TreeFormed, NodeFormed
  <1>2. \A i : Kind(Store, i) = TypeOf(i)
    BY StoreKind
  <1>3. Len(Store.input) = Len(input)
    BY DEF Store
  <1> QED
    BY <1>1, <1>2, <1>3 DEF Edges, Solid, NestedAt, CallAt

LEMMA SolidInterval ==
  ASSUME BInv, NEW a, NEW b, Solid(a, b)
  PROVE  Interval(a, b) /\ a \in Nat /\ b \in Nat /\ a <= b /\ 1 <= a /\ b <= Len(input)
  BY InputTokens DEF Solid, Interval

LEMMA PartSolid ==
  ASSUME BInv, TreeFormed, NEW n \in 1..(Len(tree) + 1), NEW v, NEW sym, NEW a, NEW b,
         Part(Store, n, v, sym, a, b), sym # "HEADER"
  PROVE  /\ Solid(a, b)
         /\ sym \in ExprKinds => TypeOf(a) \notin {"LBRK", "RP"}
  <1>1. v \in 1..(n - 1) /\ tree[v].sym = sym /\ tree[v].from = a /\ tree[v].to = b
    BY DEF Part, Store
  <1>2. v \in 1..Len(tree)
    BY <1>1, Heap
  <1> QED
    BY <1>1, <1>2, NodeSolid

LEMMA PartRebuilt ==
  ASSUME NEW n, NEW t, RebuiltBefore(t, n), NEW v, NEW sym, NEW a, NEW b,
         Part(Store, n, v, sym, a, b), sym # "HEADER"
  PROVE  Rebuilds(t[v], a, b)
  BY DEF Part, Store, RebuiltBefore

\* A field nobody wrote is no token.
LEMMA RebuildsUnknown ==
  ASSUME NEW where \in Places, NEW a, NEW b, Interval(a, b), a = b + 1
  PROVE  Rebuilds(Fault("UNWRITTEN", where), a, b)
  <1> DEFINE K == Tokens \ Parens
  <1>1. a \in Nat /\ b = a - 1
    BY DEF Interval
  <1>2. PICK s \in Seq(Pieces) : s = Fault("UNWRITTEN", where) /\ \A i \in 1..Len(s) : s[i].sym = "UNWRITTEN"
    BY Unknown
  <1>3. "UNWRITTEN" \notin K /\ "UNWRITTEN" \notin Ends
    BY DEF Tokens, IdTokens, Relops, Mulops, Addops, Ends
  <1>4. ~NestedIn(a, b) /\ ~StringIn(a, b) /\ Source(a, b) = <<>>
    BY <1>1, SmallIntervals, SourceNone
  <1>5. Fatal(s) = {}
    BY <1>2, <1>3, FatalNone
  <1> HIDE DEF K
  <1>6. Only(K, s) = <<>> /\ Only(K, <<>>) = <<>>
    BY <1>2, <1>3, OnlyNone, OnlyEmpty
  <1>7. Same(Only(K, s), Only(K, Source(a, b)))
    BY <1>4, <1>6, SameOne
  <1>8. Rebuilds(s, a, b)
    BY <1>4, <1>5, <1>7 DEF Rebuilds, K
  <1> QED
    BY <1>2, <1>8

\* The elements of a list and how they are joined.
LEMMA ListItems ==
  ASSUME BInv, TreeFormed, CellsFormed, NEW n \in 1..(Len(tree) + 1), NEW sym \in ListKinds, NEW h, NEW a, NEW b,
         ListAt(Store, n, sym, h, a, b)
  PROVE  LET c == LastOf(cells)[h] IN
         /\ h \in 1..Len(cells) /\ c \in 1..Len(cells) /\ LastOf(cells)[c] = c
         /\ tree[cells[h].item].from = a /\ tree[cells[c].item].to = b
         /\ cells[c].next \notin 1..Len(cells)
         /\ \A p \in 1..Len(cells) : LastOf(cells)[p] = c =>
              /\ Part(Store, n, cells[p].item, Element(sym), tree[cells[p].item].from, tree[cells[p].item].to)
              /\ cells[p].next \notin 1..Len(cells) => p = c
              /\ cells[p].next \in 1..Len(cells) =>
                   /\ cells[p].next > p /\ LastOf(cells)[cells[p].next] = c
                   /\ IF sym = "STATEMENT_LIST"
                        THEN tree[cells[cells[p].next].item].from = tree[cells[p].item].to + 1
                        ELSE /\ TypeOf(tree[cells[p].item].to + 1) = "COMMA"
                             /\ tree[cells[cells[p].next].item].from = tree[cells[p].item].to + 2
  <1> DEFINE c == LastOf(cells)[h]
  <1>1. Forward(cells) /\ DOMAIN cells = 1..Len(cells)
    BY CellsForward, Heap
  <1>2. /\ h \in 1..Len(cells)
        /\ \A p \in 1..Len(cells) : LastOf(cells)[p] = c =>
             cells[p].item \in 1..(n - 1) /\ tree[cells[p].item].sym = Element(sym)
        /\ tree[cells[h].item].from = a
        /\ tree[cells[c].item].to = b
    BY <1>1 DEF ListAt, Store, Last
  <1>3. c \in 1..Len(cells) /\ cells[c].next \notin 1..Len(cells) /\ LastOf(cells)[c] = c
    BY <1>1, <1>2, LastCells
  <1>4. ASSUME NEW p \in 1..Len(cells), LastOf(cells)[p] = c, cells[p].next \in 1..Len(cells)
        PROVE  /\ cells[p].next > p /\ LastOf(cells)[cells[p].next] = c
               /\ IF sym = "STATEMENT_LIST"
                    THEN tree[cells[cells[p].next].item].from = tree[cells[p].item].to + 1
                    ELSE /\ TypeOf(tree[cells[p].item].to + 1) = "COMMA"
                         /\ tree[cells[cells[p].next].item].from = tree[cells[p].item].to + 2
    <2>1. cells[p].next > p
      BY <1>1, <1>4 DEF Forward
    <2>2. LastOf(cells)[cells[p].next] = c
      BY <1>1, <1>4, LastDefined
    <2>3. CellFormed(Store, p)
      BY <1>1 DEF CellsFormed
    <2>4. Joined(Store, tree[cells[p].item].sym, tree[cells[p].item].to, tree[cells[cells[p].next].item].from)
      BY <1>1, <1>4, <2>3 DEF CellFormed, ItemsJoined, Store
    <2>5. tree[cells[p].item].sym = Element(sym)
      BY <1>2, <1>4
    <2>6. Element(sym) = "STATEMENT" <=> sym = "STATEMENT_LIST"
      BY DEF Element, ListKinds
    <2>7. Kind(Store, tree[cells[p].item].to + 1) = TypeOf(tree[cells[p].item].to + 1)
      BY StoreKind
    <2> QED
      BY <2>1, <2>2, <2>4, <2>5, <2>6, <2>7 DEF Joined
  <1>5. ASSUME NEW p \in 1..Len(cells), LastOf(cells)[p] = c
        PROVE  Part(Store, n, cells[p].item, Element(sym), tree[cells[p].item].from, tree[cells[p].item].to)
    BY <1>2, <1>5 DEF Part, Store
  <1>6. ASSUME NEW p \in 1..Len(cells), LastOf(cells)[p] = c, cells[p].next \notin 1..Len(cells)
        PROVE  p = c
    BY <1>1, <1>6, LastDefined
  <1> HIDE DEF c
  <1>7. /\ h \in 1..Len(cells) /\ c \in 1..Len(cells) /\ LastOf(cells)[c] = c
        /\ tree[cells[h].item].from = a /\ tree[cells[c].item].to = b
        /\ cells[c].next \notin 1..Len(cells)
    BY <1>2, <1>3
  <1> QED
    BY <1>4, <1>5, <1>6, <1>7 DEF c

LEMMA ElementKinds ==
  ASSUME NEW sym \in ListKinds
  PROVE  Element(sym) # "HEADER" /\ (sym = "EXPRESSION_LIST" => Element(sym) \in ExprKinds)
  BY DEF ListKinds, Element, ExprKinds

\* A list covers tokens, and nothing comes about where they end.
LEMMA ListSolid ==
  ASSUME BInv, TreeFormed, CellsFormed, NEW n \in 1..(Len(tree) + 1), NEW sym \in ListKinds, NEW h, NEW a, NEW b,
         ListAt(Store, n, sym, h, a, b)
  PROVE  a \in Nat /\ a >= 1 /\ b \in 1..Len(input) /\ ~NestedAt(b) /\ ~CallAt(b)
         /\ (sym = "EXPRESSION_LIST" => TypeOf(a) \notin {"LBRK", "RP"})
  <1> DEFINE c == LastOf(cells)[h]
  <1>1. /\ Part(Store, n, cells[h].item, Element(sym), a, tree[cells[h].item].to)
        /\ Part(Store, n, cells[c].item, Element(sym), tree[cells[c].item].from, b)
    BY ListItems
  <1>2. Solid(a, tree[cells[h].item].to) /\ Solid(tree[cells[c].item].from, b)
    BY <1>1, ElementKinds, PartSolid
  <1>3. sym = "EXPRESSION_LIST" => TypeOf(a) \notin {"LBRK", "RP"}
    BY <1>1, ElementKinds, PartSolid
  <1> HIDE DEF c
  <1> QED
    BY <1>2, <1>3, SolidInterval DEF Solid

\* A list is rebuilt when its elements are, by induction from its last cell.
LEMMA ListRebuilt ==
  ASSUME BInv, TreeFormed, CellsFormed, NEW n \in 1..(Len(tree) + 1), NEW sym \in ListKinds, NEW h, NEW a, NEW b,
         ListAt(Store, n, sym, h, a, b), NEW t, RebuiltBefore(t, n)
  PROVE  Rebuilds(ReconstructList(t, sym, h), a, b)
  <1> DEFINE L == Len(cells)
             c == LastOf(cells)[h]
             last == LastOf(cells)
             w(p) == WalkList(t, p, Separator(sym))
             from(p) == tree[cells[p].item].from
             to(p) == tree[cells[p].item].to
             T == {k \in Nat : \A p \in 1..L : last[p] = c /\ L - p <= k => Rebuilds(w(p), from(p), b)}
  <1>1. L \in Nat
    BY Heap
  <1>2. /\ h \in 1..L /\ c \in 1..L /\ last[c] = c /\ from(h) = a /\ to(c) = b
        /\ cells[c].next \notin 1..L
        /\ \A p \in 1..L : last[p] = c =>
              /\ cells[p].next \notin 1..L => p = c
              /\ cells[p].next \in 1..L => cells[p].next > p /\ last[cells[p].next] = c
    BY ListItems
  <1>3. ASSUME NEW p \in 1..L, last[p] = c
        PROVE  Rebuilds(t[cells[p].item], from(p), to(p)) /\ Solid(from(p), to(p))
    <2>1. Part(Store, n, cells[p].item, Element(sym), from(p), to(p)) /\ Element(sym) # "HEADER"
      BY <1>3, ListItems, ElementKinds
    <2> QED
      BY <2>1, PartRebuilt, PartSolid
  <1>4. ASSUME NEW p \in 1..L, last[p] = c, cells[p].next \in 1..L
        PROVE  IF sym = "STATEMENT_LIST" THEN from(cells[p].next) = to(p) + 1
               ELSE TypeOf(to(p) + 1) = "COMMA" /\ from(cells[p].next) = to(p) + 2
    BY <1>4, ListItems
  <1>5. \A p \in 1..L :
          w(p) = t[cells[p].item] \o
                IF cells[p].next \in 1..L THEN Separator(sym) \o w(cells[p].next)
                ELSE IF cells[p].next = NULL THEN <<>> ELSE Fault("UNWRITTEN", "next")
    BY WalkListDefined
  <1>6. ReconstructList(t, sym, h) = w(h)
    BY DEF ReconstructList
  <1> HIDE DEF L, c, last, w, from, to
  <1>7. ASSUME NEW p \in 1..L, last[p] = c, cells[p].next \notin 1..L
        PROVE  Rebuilds(w(p), from(p), b)
    <2>1. p = c /\ to(p) = b
      BY <1>2, <1>7
    <2>2. Rebuilds(t[cells[p].item], from(p), b) /\ Solid(from(p), b)
      BY <1>3, <1>7, <2>1
    <2>3. b \in Nat /\ Interval(b + 1, (b + 1) - 1) /\ (b + 1) - 1 = b
      BY <2>2, SolidInterval DEF Interval
    <2>4. CASE cells[p].next = NULL
      <3>1. w(p) = t[cells[p].item] \o <<>>
        BY <1>5, <1>7, <2>4
      <3>2. t[cells[p].item] \in Seq(Pieces)
        BY <2>2 DEF Rebuilds
      <3>3. t[cells[p].item] \o <<>> = t[cells[p].item]
        BY <3>2
      <3> QED
        BY <2>2, <3>1, <3>3
    <2>5. CASE cells[p].next # NULL
      <3>1. w(p) = t[cells[p].item] \o Fault("UNWRITTEN", "next")
        BY <1>5, <1>7, <2>5
      <3>2. Rebuilds(Fault("UNWRITTEN", "next"), b + 1, b)
        <4>1. "next" \in Places
          BY DEF Places
        <4>2. PICK e : e = b + 1
          OBVIOUS
        <4>3. Interval(e, b)
          BY <2>3, <4>2
        <4>4. Rebuilds(Fault("UNWRITTEN", "next"), e, b)
          BY <4>1, <4>2, <4>3, RebuildsUnknown
        <4> QED
          BY <4>2, <4>4
      <3> QED
        BY <2>2, <2>3, <3>1, <3>2, RebuildsConcat
    <2> QED
      BY <2>4, <2>5
  <1>8. ASSUME NEW p \in 1..L, last[p] = c, cells[p].next \in 1..L,
               Rebuilds(w(cells[p].next), from(cells[p].next), b)
        PROVE  Rebuilds(w(p), from(p), b)
    <2> DEFINE q == cells[p].next
    <2>0. w(p) = t[cells[p].item] \o (Separator(sym) \o w(q))
      BY <1>5, <1>8
    <2>1. Rebuilds(t[cells[p].item], from(p), to(p)) /\ Solid(from(p), to(p))
      BY <1>3, <1>8
    <2>2. /\ to(p) \in Nat /\ to(p) <= Len(input) /\ Len(input) \in Nat /\ ~NestedAt(to(p))
      BY <2>1, SolidInterval, InputTokens DEF Solid
    <2>3. Rebuilds(w(q), from(q), b)
      BY <1>8
    <2>4. CASE sym = "STATEMENT_LIST"
      <3>1. Separator(sym) = <<>> /\ w(q) \in Seq(Pieces)
        BY <2>3, <2>4 DEF Separator, Rebuilds
      <3>2. <<>> \o w(q) = w(q)
        BY <3>1
      <3>3. w(p) = t[cells[p].item] \o w(q)
        BY <2>0, <3>1, <3>2
      <3>4. from(q) = to(p) + 1
        BY <1>4, <1>8, <2>4
      <3> QED
        BY <2>1, <2>2, <2>3, <3>3, <3>4, RebuildsConcat
    <2>5. CASE sym # "STATEMENT_LIST"
      <3>1. Separator(sym) = Lit("COMMA")
        BY <2>5 DEF Separator
      <3>2. TypeOf(to(p) + 1) = "COMMA" /\ from(q) = to(p) + 2
        BY <1>4, <1>8, <2>5
      <3>3. from(q) = (to(p) + 1) + 1 /\ to(p) + 1 \in 1..Len(input)
        <4>1. from(q) <= b + 1 /\ b <= Len(input) /\ b \in Nat
          BY <2>3 DEF Rebuilds, Interval
        <4> QED
          BY <2>2, <3>2, <4>1 DEF TypeOf
      <3>4. Rebuilds(Lit("COMMA"), to(p) + 1, to(p) + 1)
        BY <3>2, <3>3, RebuildsToken DEF Names
      <3>5. ~NestedAt(to(p) + 1)
        BY <3>2 DEF NestedAt
      <3>6. Rebuilds(Lit("COMMA") \o w(q), to(p) + 1, b)
        BY <2>3, <3>3, <3>4, <3>5, RebuildsConcat
      <3> QED
        BY <2>0, <2>1, <2>2, <3>1, <3>6, RebuildsConcat
    <2> QED
      BY <2>4, <2>5
  <1>9. 0 \in T
    <2>1. ASSUME NEW p \in 1..L, last[p] = c, L - p <= 0 PROVE Rebuilds(w(p), from(p), b)
      <3>1. cells[p].next \notin 1..L
        BY <1>1, <1>2, <2>1
      <3> QED
        BY <1>7, <2>1, <3>1
    <2> QED
      BY <2>1
  <1>10. ASSUME NEW k \in T, k \in Nat PROVE k + 1 \in T
    <2>0. \A p \in 1..L : last[p] = c /\ L - p <= k => Rebuilds(w(p), from(p), b)
      BY <1>10
    <2> HIDE DEF T
    <2>1. ASSUME NEW p \in 1..L, last[p] = c, L - p <= k + 1 PROVE Rebuilds(w(p), from(p), b)
      <3>1. CASE cells[p].next \in 1..L
        <4>1. cells[p].next > p /\ last[cells[p].next] = c
          BY <1>2, <2>1, <3>1
        <4>2. L - cells[p].next <= k
          BY <1>1, <1>10, <2>1, <3>1, <4>1
        <4>3. Rebuilds(w(cells[p].next), from(cells[p].next), b)
          BY <2>0, <3>1, <4>1, <4>2
        <4> QED
          BY <1>8, <2>1, <3>1, <4>3
      <3>2. CASE cells[p].next \notin 1..L
        BY <1>7, <2>1, <3>2
      <3> QED
        BY <3>1, <3>2
    <2> QED
      BY <1>10, <2>1 DEF T
  <1>11. Nat \subseteq T
    <2> HIDE DEF T
    <2> QED
      BY <1>9, <1>10, Induction
  <1>12. last[h] = c /\ L - h \in Nat
    <2>1. last[h] = c
      BY DEF last, c
    <2> QED
      BY <1>1, <1>2, <2>1
  <1>13. Rebuilds(w(h), from(h), b)
    BY <1>2, <1>11, <1>12
  <1> QED
    BY <1>2, <1>6, <1>13

-----------------------------------------------------------------------------
(* The reconstruction of nodes. *)

LEMMA RebuildsThen ==
  ASSUME BInv, NEW s, NEW t, NEW a, NEW b, NEW c, NEW d,
         Rebuilds(s, a, b), d = b + 1, Rebuilds(t, d, c), b < a \/ ~NestedAt(b)
  PROVE  Rebuilds(s \o t, a, c)
  <1>1. a \in Nat /\ b \in Nat
    BY DEF Rebuilds, Interval
  <1>2. a <= b /\ b < c => ~NestedAt(b)
    BY <1>1
  <1> QED
    BY <1>2, RebuildsConcat

\* With nothing before or behind it.
LEMMA RebuildsBare ==
  ASSUME BInv, NEW s, NEW a, NEW b, NEW c, NEW d
  PROVE  /\ Rebuilds(<<>>, a, b) /\ d = b + 1 /\ Rebuilds(s, d, c) /\ ~NestedAt(b) => Rebuilds(s, a, c)
         /\ Rebuilds(s, a, b) /\ d = b + 1 /\ Rebuilds(<<>>, d, c) /\ ~NestedAt(b) => Rebuilds(s, a, c)
  <1>1. ASSUME Rebuilds(<<>>, a, b), d = b + 1, Rebuilds(s, d, c), ~NestedAt(b) PROVE Rebuilds(s, a, c)
    <2>1. Rebuilds(<<>> \o s, a, c)
      BY <1>1, RebuildsThen
    <2>2. s \in Seq(Pieces)
      BY <1>1 DEF Rebuilds
    <2>3. <<>> \o s = s
      BY <2>2
    <2> QED
      BY <2>1, <2>3
  <1>2. ASSUME Rebuilds(s, a, b), d = b + 1, Rebuilds(<<>>, d, c), ~NestedAt(b) PROVE Rebuilds(s, a, c)
    <2>1. Rebuilds(s \o <<>>, a, c)
      BY <1>2, RebuildsThen
    <2>2. s \in Seq(Pieces)
      BY <1>2 DEF Rebuilds
    <2>3. s \o <<>> = s
      BY <2>2
    <2> QED
      BY <2>1, <2>3
  <1> QED
    BY <1>1, <1>2

\* What a node says of its tokens.
LEMMA LeafOf ==
  ASSUME BInv, NEW v, NEW syms, NEW a, Leaf(Store, v, syms, a), "EOF" \notin syms
  PROVE  v = a /\ a \in 1..Len(input) /\ a \in Nat /\ TypeOf(a) \in syms
  BY StoreKind, InputTokens DEF Leaf, TypeOf

LEMMA TextOf ==
  ASSUME BInv, NEW v, NEW syms, NEW a, Leaf(Store, v, syms, a), "EOF" \notin syms, "STRING_LIT" \notin syms
  PROVE  Rebuilds(Text(v), a, a)
  BY LeafOf, RebuildsText

LEMMA TokenOf ==
  ASSUME BInv, NEW sym, NEW a, Kind(Store, a) = sym, sym # "EOF"
  PROVE  a \in 1..Len(input) /\ a \in Nat /\ TypeOf(a) = sym
  BY StoreKind, InputTokens DEF TypeOf

LEMMA LitOf ==
  ASSUME BInv, NEW sym, NEW a, Kind(Store, a) = sym, sym \notin Names \cup {"EOF"}
  PROVE  Rebuilds(Lit(sym), a, a)
  BY TokenOf, RebuildsToken

\* A part of a node, and what is written for it.
LEMMA PartOf ==
  ASSUME BInv, TreeFormed, NEW n \in 1..Len(tree), NEW t, RebuiltBefore(t, n), NEW v, NEW sym, NEW a, NEW b,
         Part(Store, n, v, sym, a, b), sym # "HEADER"
  PROVE  /\ Rebuilds(t[v], a, b)
         /\ a \in Nat /\ b \in Nat /\ 1 <= a /\ a <= b /\ b <= Len(input) /\ ~NestedAt(b) /\ ~CallAt(b)
         /\ sym \in ExprKinds => TypeOf(a) \notin {"LBRK", "RP"}
  BY PartRebuilt, PartSolid, SolidInterval DEF Solid

LEMMA OperatorRebuilt ==
  ASSUME BInv, TreeFormed, NEW n \in 1..Len(tree), NEW t, RebuiltBefore(t, n),
         NEW sym \in Operators, NEW v, NEW a, NEW b, FormedOperator(Store, n, sym, v, a, b)
  PROVE  Rebuilds(IF v.binary THEN Lit("LP") \o t[v.left] \o Text(v.op) \o t[v.right] \o Lit("RP") ELSE t[v.right], a, b)
  <1>0. sym # "HEADER" /\ Operand(sym) # "HEADER"
    BY DEF Operators, Operand
  <1>1. CASE v.binary = FALSE /\ Part(Store, n, v.right, Operand(sym), a, b)
    BY <1>0, <1>1, PartOf
  <1>2. CASE /\ v.binary = TRUE
             /\ Part(Store, n, v.left, sym, a, v.op - 1)
             /\ Leaf(Store, v.op, OperatorTokens, v.op)
             /\ Part(Store, n, v.right, Operand(sym), v.op + 1, b)
    <2> DEFINE op == v.op
               e == a - 1
               l == op - 1
               r == op + 1
               f == b + 1
    <2>1. "EOF" \notin OperatorTokens /\ "STRING_LIT" \notin OperatorTokens /\ "LBRK" \notin OperatorTokens
      BY DEF OperatorTokens, Relops, Addops, Mulops
    <2>2. op \in 1..Len(input) /\ op \in Nat /\ TypeOf(op) \in OperatorTokens /\ Rebuilds(Text(op), op, op)
      BY <1>2, <2>1, LeafOf, TextOf
    <2>3. ~NestedAt(op)
      BY <2>1, <2>2 DEF NestedAt
    <2>4. Rebuilds(t[v.left], a, l) /\ a \in Nat /\ 1 <= a /\ a <= l /\ l <= Len(input) /\ ~NestedAt(l)
      BY <1>0, <1>2, PartOf
    <2>5. Rebuilds(t[v.right], r, b) /\ b \in Nat /\ r <= b /\ b <= Len(input) /\ ~NestedAt(b)
      BY <1>0, <1>2, PartOf
    <2>6. /\ Interval(a, e) /\ a = e + 1 /\ e < a
          /\ op = l + 1 /\ r = op + 1
          /\ Interval(f, b) /\ f = b + 1
      BY <2>2, <2>4, <2>5, InputTokens DEF Interval
    <2>7. "LP" \in Parens /\ "RP" \in Parens
      BY DEF Parens
    <2> HIDE DEF op, e, l, r, f
    <2>8. Rebuilds(Lit("LP"), a, e) /\ Rebuilds(Lit("RP"), f, b)
      BY <2>6, <2>7, RebuildsInserted
    <2>9. Rebuilds(Lit("LP") \o t[v.left], a, l)
      BY <2>4, <2>6, <2>8, RebuildsThen
    <2>10. Rebuilds(Lit("LP") \o t[v.left] \o Text(op), a, op)
      BY <2>2, <2>4, <2>6, <2>9, RebuildsThen
    <2>11. Rebuilds(Lit("LP") \o t[v.left] \o Text(op) \o t[v.right], a, b)
      BY <2>3, <2>5, <2>6, <2>10, RebuildsThen
    <2>12. Rebuilds(Lit("LP") \o t[v.left] \o Text(op) \o t[v.right] \o Lit("RP"), a, b)
      BY <2>5, <2>6, <2>8, <2>11, RebuildsThen
    <2> QED
      BY <1>2, <2>12 DEF op
  <1> QED
    BY <1>1, <1>2 DEF FormedOperator

LEMMA FactorRebuilt ==
  ASSUME BInv, TreeFormed, NEW n \in 1..Len(tree), NEW t, RebuiltBefore(t, n),
         NEW v, NEW a, NEW b, FormedFactor(Store, n, v, a, b), Interval(a, b)
  PROVE  Rebuilds(CASE v.type = "ID" -> Text(v.is) [] v.type = "STR" -> Fault("ABORT", "factor") [] OTHER -> t[v.is], a, b)
  <1>1. CASE v.type = "ID" /\ a = b /\ Leaf(Store, v.is, {"ID"}, a)
    BY <1>1, TextOf
  <1>2. CASE v.type = "STR" /\ a = b /\ Leaf(Store, v.is, {"STRING_LIT"}, a)
    <2>1. a \in Nat /\ TypeOf(a) = "STRING_LIT"
      BY <1>2, LeafOf
    <2>2. StringIn(a, b)
      BY <1>2, <2>1, SmallIntervals
    <2>3. "factor" \in Places
      BY DEF Places
    <2> QED
      BY <1>2, <2>2, <2>3, RebuildsAbort
  <1>3. CASE v.type = "EXPR" /\ Kind(Store, a) = "LP" /\ Part(Store, n, v.is, "EXPRESSION", a + 1, b - 1) /\ Kind(Store, b) = "RP"
    <2> DEFINE c == a + 1
               e == b - 1
    <2>1. Rebuilds(t[v.is], c, e) /\ ~NestedAt(e)
      BY <1>3, PartOf
    <2>2. a \in 1..Len(input) /\ a \in Nat /\ TypeOf(a) = "LP" /\ b \in 1..Len(input) /\ b \in Nat /\ TypeOf(b) = "RP"
      BY <1>3, TokenOf
    <2>3. c = a + 1 /\ b = e + 1
      BY <2>2
    <2>4. Rebuilds(<<>>, a, a) /\ Rebuilds(<<>>, b, b)
      BY <2>2, RebuildsDropped DEF Parens
    <2>5. ~NestedAt(a)
      BY <2>2 DEF NestedAt
    <2> HIDE DEF c, e
    <2>6. Rebuilds(t[v.is], a, e)
      BY <2>1, <2>3, <2>4, <2>5, RebuildsBare
    <2>7. Rebuilds(t[v.is], a, b)
      BY <2>1, <2>3, <2>4, <2>6, RebuildsBare
    <2> QED
      BY <1>3, <2>7
  <1>4. CASE v.type = "NUMBER" /\ Part(Store, n, v.is, "NUMBER", a, b)
    BY <1>4, PartOf
  <1>5. CASE v.type = "FUNC_CALL" /\ Part(Store, n, v.is, "FUNC_CALL", a, b)
    BY <1>5, PartOf
  <1>6. CASE v.type = "DEREF" /\ Part(Store, n, v.is, "DEREF", a, b)
    BY <1>6, PartOf
  <1> QED
    BY <1>1, <1>2, <1>3, <1>4, <1>5, <1>6 DEF FormedFactor

\* A long that an int keeps is no other number.
LEMMA ToIntKeeps ==
  ASSUME NEW x \in Int
  PROVE  /\ ToInt(x) \in Int /\ ToInt(x) < IntLimit
         /\ x \in Nat /\ x < IntLimit => ToInt(x) = x
  <1> DEFINE m == x % (2 * IntLimit)
  <1>1. IntLimit \in Nat \ {0} /\ 2 * IntLimit \in Nat \ {0}
    BY LiteralsAssumption
  <1>2. ToInt(x) = IF m < IntLimit THEN m ELSE m - 2 * IntLimit
    BY DEF ToInt
  <1>3. m \in 0..(2 * IntLimit - 1)
    BY <1>1
  <1>4. x \in 0..(IntLimit - 1) => m = x
    BY <1>1
  <1> HIDE DEF m
  <1>5. ToInt(x) \in Int /\ ToInt(x) < IntLimit
    BY <1>1, <1>2, <1>3
  <1>6. x \in Nat /\ x < IntLimit => ToInt(x) = x
    BY <1>1, <1>2, <1>4
  <1> QED
    BY <1>5, <1>6

\* What %d prints of a number: the token it was read from where an int keeps it,
\* and a text of its own otherwise.
LEMMA DecimalIs ==
  ASSUME BInv, literals \in Spellings(input), NEW v, NEW a, NEW b, FormedNumber(Store, v, a, b)
  PROVE  /\ a = b /\ a \in 1..Len(input) /\ a \in Nat
         /\ \/ TypeOf(a) = "DECIMAL_LIT" /\ Kept(a) /\ Decimal(v, a) = <<TokenPiece(a)>>
            \/ /\ TypeOf(a) = "HEX_LIT" \/ (TypeOf(a) = "DECIMAL_LIT" /\ ~Kept(a))
               /\ Decimal(v, a) \in {Lit("DECIMAL_LIT"), Lit("MINUS") \o Lit("DECIMAL_LIT")}
  <1>1. CASE Kind(Store, a) = "DECIMAL_LIT" /\ v = ToInt(literals[a].value)
    <2> DEFINE x == literals[a]
    <2>1. a \in 1..Len(input) /\ a \in Nat /\ TypeOf(a) = "DECIMAL_LIT" /\ a = b
      BY <1>1, TokenOf DEF FormedNumber
    <2>2. x \in Literals
      <3>1. a \in {i \in DOMAIN input : input[i] = "DECIMAL_LIT"}
        BY <2>1, InputTokens DEF TypeOf
      <3> QED
        BY <3>1 DEF Spellings
    <2>3. x \in [value : Int, plain : BOOLEAN] /\ (x.plain => x.value \in Nat)
      BY <2>2, LiteralsAssumption
    <2>4. x = [value |-> x.value, plain |-> x.plain] /\ x.value \in Int /\ x.plain \in BOOLEAN
      BY <2>3
    <2>5. v \in Int /\ v < IntLimit /\ (x.value \in Nat /\ x.value < IntLimit => v = x.value)
      BY <1>1, <2>4, ToIntKeeps
    <2>6. Kept(a) <=> x.plain /\ x.value < IntLimit
      BY DEF Kept
    <2>i. IntLimit \in Nat
      BY LiteralsAssumption
    <2>7. Decimal(v, a) = IF v < 0 THEN Lit("MINUS") \o Lit("DECIMAL_LIT")
                          ELSE IF x = [value |-> v, plain |-> TRUE] THEN <<TokenPiece(a)>>
                          ELSE Lit("DECIMAL_LIT")
      BY <2>1 DEF Decimal
    <2> HIDE DEF x
    <2>8. CASE Kept(a)
      <3>1. v = x.value /\ x.plain = TRUE /\ ~(v < 0)
        BY <2>3, <2>4, <2>5, <2>6, <2>8
      <3>2. x = [value |-> v, plain |-> TRUE]
        BY <2>4, <3>1
      <3> QED
        BY <2>1, <2>7, <2>8, <3>1, <3>2
    <2>9. CASE ~Kept(a)
      <3>1. x # [value |-> v, plain |-> TRUE]
        <4> SUFFICES ASSUME x = [value |-> v, plain |-> TRUE] PROVE FALSE
          OBVIOUS
        <4>1. x.value = v /\ x.plain = TRUE
          OBVIOUS
        <4> QED
          BY <2>5, <2>6, <2>9, <4>1
      <3> QED
        BY <2>1, <2>7, <2>9, <3>1
    <2> QED
      BY <2>8, <2>9
  <1>2. CASE Kind(Store, a) = "HEX_LIT" /\ v = 0
    <2>1. a \in 1..Len(input) /\ a \in Nat /\ TypeOf(a) = "HEX_LIT" /\ a = b
      BY <1>2, TokenOf DEF FormedNumber
    <2>2. Decimal(v, a) = Lit("DECIMAL_LIT")
      BY <1>2, <2>1 DEF Decimal
    <2> QED
      BY <2>1, <2>2
  <1> QED
    BY <1>1, <1>2 DEF FormedNumber, Store

\* The tokens of a text of its own.
LEMMA SignAndDigits ==
  /\ Lit("DECIMAL_LIT") \in Seq(Pieces) /\ Fatal(Lit("DECIMAL_LIT")) = {}
  /\ Lit("MINUS") \in Seq(Pieces) /\ Fatal(Lit("MINUS")) = {}
  /\ Lit("MINUS") \o Lit("DECIMAL_LIT") \in Seq(Pieces) /\ Fatal(Lit("MINUS") \o Lit("DECIMAL_LIT")) = {}
  <1> DEFINE x == Piece("DECIMAL_LIT", NULL)
             y == Piece("MINUS", NULL)
  <1>1. x \in Pieces /\ x.sym \notin Ends /\ y \in Pieces /\ y.sym \notin Ends
    BY DEF Piece, Pieces, Tokens, IdTokens, Addops, NULL, Ends
  <1>2. Lit("DECIMAL_LIT") = <<x>> /\ Lit("MINUS") = <<y>>
    BY DEF Lit
  <1> HIDE DEF x, y
  <1>3. PICK s \in Seq(Pieces), t \in Seq(Pieces) : s = <<x>> /\ t = <<y>>
    BY <1>1, NoPieces
  <1>4. Fatal(s) = {} /\ Fatal(t) = {}
    BY <1>1, <1>3, FatalOne
  <1>5. t \o s \in Seq(Pieces) /\ Fatal(t \o s) = {}
    BY <1>4, Concatenated, FatalConcat
  <1> QED
    BY <1>2, <1>3, <1>4, <1>5

LEMMA NumberRebuilt ==
  ASSUME BInv, literals \in Spellings(input), NEW v, NEW a, NEW b, FormedNumber(Store, v, a, b)
  PROVE  Rebuilds(Decimal(v, a), a, b)
  <1>1. a = b /\ a \in 1..Len(input) /\ a \in Nat
    BY DecimalIs
  <1>2. CASE TypeOf(a) = "DECIMAL_LIT" /\ Decimal(v, a) = <<TokenPiece(a)>>
    <2>1. TokenPiece(a) \in Pieces /\ TokenPiece(a).sym = TypeOf(a) /\ TokenPiece(a).at = a
      BY <1>1, InputTokens, PieceOfToken
    <2>2. TypeOf(a) # "STRING_LIT"
      BY <1>2
    <2>3. Rebuilds(<<TokenPiece(a)>>, a, a)
      BY <1>1, <2>1, <2>2, RebuildsOne
    <2> QED
      BY <1>1, <1>2, <2>3
  <1>3. CASE /\ TypeOf(a) = "HEX_LIT" \/ (TypeOf(a) = "DECIMAL_LIT" /\ ~Kept(a))
             /\ Decimal(v, a) \in {Lit("DECIMAL_LIT"), Lit("MINUS") \o Lit("DECIMAL_LIT")}
    <2>1. PICK s \in Seq(Pieces) : s = Decimal(v, a) /\ Fatal(s) = {}
      BY <1>3, SignAndDigits
    <2>2. Interval(a, a) /\ ~NestedIn(a, a) /\ ~StringIn(a, a)
      BY <1>1, <1>3, SourceOne, SmallIntervals
    <2>3. ~Spelled(a, a)
      <3>1. a \in a..a
        BY <1>1
      <3> QED
        BY <1>3, <3>1 DEF Spelled
    <2>4. Rebuilds(s, a, a)
      BY <2>1, <2>2, <2>3, RebuildsPoorly
    <2> QED
      BY <1>1, <2>1, <2>4
  <1> QED
    BY <1>2, <1>3, DecimalIs

\* Stars that are not written.
LEMMA Starred ==
  ASSUME BInv, NEW s, NEW a, NEW e, NEW b, Rebuilds(s, a, e), e <= b, b \in Nat, b <= Len(input), ~NestedAt(e),
         \A i \in (e + 1)..b : TypeOf(i) = "MUL", e = b \/ ~Rebuildable
  PROVE  Rebuilds(s, a, b)
  <1>1. CASE e = b
    BY <1>1
  <1>2. CASE e # b
    <2> DEFINE d == e + 1
    <2>1. e \in Nat /\ d = e + 1 /\ Interval(d, b)
      BY <1>2 DEF Rebuilds, Interval
    <2>2. ~NestedIn(d, b) /\ ~StringIn(d, b)
      <3>1. \A i \in d..(b - 1) : i \in d..b
        BY <2>1
      <3> QED
        BY <3>1 DEF NestedIn, StringIn
    <2> HIDE DEF d
    <2>3. Rebuilds(<<>>, d, b)
      BY <1>2, <2>1, <2>2, NoPieces, FatalNone, RebuildsPoorly
    <2> QED
      BY <2>1, <2>3, RebuildsBare
  <1> QED
    BY <1>1, <1>2

\* The list of a node, and what is written for it.
LEMMA ListOf ==
  ASSUME BInv, TreeFormed, CellsFormed, NEW n \in 1..Len(tree), NEW t, RebuiltBefore(t, n),
         NEW sym \in ListKinds, NEW h, NEW a, NEW b, Held(Store, n, sym, h, a, b)
  PROVE  /\ Rebuilds(ReconstructList(t, sym, h), a, b)
         /\ a \in Nat /\ b \in Nat /\ b <= Len(input) /\ ~NestedAt(b) /\ ~CallAt(b)
         /\ sym = "EXPRESSION_LIST" => TypeOf(a) \notin {"LBRK", "RP"}
  <1>1. ListAt(Store, n, sym, h, a, b)
    BY DEF Held
  <1>2. Len(input) \in Nat
    BY InputTokens
  <1> QED
    BY <1>1, <1>2, ListRebuilt, ListSolid

LEMMA IdRebuilt ==
  ASSUME BInv, NEW v, NEW a, Leaf(Store, v, IdTokens, a)
  PROVE  Rebuilds(Text(v), a, a) /\ a \in Nat /\ a \in 1..Len(input) /\ TypeOf(a) \in IdTokens /\ ~NestedAt(a)
  <1>1. "EOF" \notin IdTokens /\ "STRING_LIT" \notin IdTokens /\ "LBRK" \notin IdTokens
    BY DEF IdTokens
  <1>2. Rebuilds(Text(v), a, a) /\ a \in Nat /\ a \in 1..Len(input) /\ TypeOf(a) \in IdTokens
    BY <1>1, TextOf, LeafOf
  <1> QED
    BY <1>1, <1>2 DEF NestedAt

\* A token that can be followed by anything.
LEMMA PlainRebuilt ==
  ASSUME BInv, NEW sym, NEW a, Kind(Store, a) = sym, sym \notin Names \cup {"EOF", "LBRK"}
  PROVE  Rebuilds(Lit(sym), a, a) /\ a \in Nat /\ a \in 1..Len(input) /\ TypeOf(a) = sym /\ ~NestedAt(a)
  <1>1. Rebuilds(Lit(sym), a, a) /\ a \in Nat /\ a \in 1..Len(input) /\ TypeOf(a) = sym
    BY LitOf, TokenOf
  <1> QED
    BY <1>1 DEF NestedAt

LEMMA TypeRebuilt ==
  ASSUME BInv, TreeFormed, CellsFormed, NEW n \in 1..Len(tree), NEW t, RebuiltBefore(t, n), tree[n].sym = "VAR_TYPE",
         NEW a, NEW b, FormedType(Store, n, tree[n].is, a, b), Interval(a, b)
  PROVE  Rebuilds(ReconstructType(t, tree[n].is), a, b)
  <1> DEFINE v == tree[n].is
             d == v.pointerDepth
             e == b - d
  <1>1. /\ d \in Nat /\ \A i \in (e + 1)..b : TypeOf(i) = "MUL"
        /\ \/ v.type = "ID" /\ a = e /\ Leaf(Store, v.id, IdTokens, a)
           \/ v.type = "NONE" /\ a = e /\ Kind(Store, a) = "UNDERSCORE"
           \/ /\ v.type = "ARRAY" /\ Kind(Store, a) = "LBRK" /\ Leaf(Store, v.id, IdTokens, a + 1) /\ Kind(Store, a + 2) = "SEMI"
              /\ Held(Store, n, "EXPRESSION_LIST", v.exprList, a + 3, e - 1) /\ Kind(Store, e) = "RBRK"
           \/ v.type = "NESTED" /\ Kind(Store, a) = "LBRK" /\ Kind(Store, a + 1) = "LBRK" /\ a < e
    <2>1. \A i : Kind(Store, i) = TypeOf(i)
      BY StoreKind
    <2> QED
      BY <2>1 DEF FormedType
  <1>2. a \in Nat /\ 1 <= a /\ b \in Nat /\ b <= Len(input) /\ Len(input) \in Nat
    BY InputTokens DEF Interval
  <1>3. v.type = "ID" \/ d = 0 \/ ~Rebuildable
    <2>1. n \in DOMAIN tree
      BY Heap
    <2> QED
      BY <2>1 DEF Rebuildable, RebuildableNode
  <1>d. d \in Nat
    BY <1>1
  <1>e. e = b - d
    OBVIOUS
  <1>4. e \in Int /\ e <= b /\ (d = 0 => e = b)
    <2> HIDE DEF d, e
    <2> QED
      BY <1>2, <1>d, <1>e
  <1>5. CASE v.type = "ID" /\ a = e /\ Leaf(Store, v.id, IdTokens, a)
    <2> DEFINE c == a + 1
    <2>1. Rebuilds(Text(v.id), a, a) /\ ~NestedAt(a) /\ a <= b
      BY <1>4, <1>5, IdRebuilt
    <2>c. c = a + 1 /\ a = e
      BY <1>5
    <2>m. \A i \in (e + 1)..b : TypeOf(i) = "MUL"
      BY <1>1
    <2>2. Interval(c, b) /\ b - c + 1 = d /\ \A i \in c..b : TypeOf(i) = "MUL"
      <3> HIDE DEF c, d, e
      <3> QED
        BY <1>2, <1>d, <1>e, <2>1, <2>c, <2>m, SMTT(30) DEF Interval
    <2>3. Rebuilds(Stars(d), c, b)
      <3> HIDE DEF c, d
      <3>1. Rebuilds(Stars(b - c + 1), c, b)
        BY <2>2, RebuildsStars
      <3> QED
        BY <2>2, <3>1
    <2>4. c = a + 1
      OBVIOUS
    <2> HIDE DEF c, d
    <2>5. Rebuilds(Text(v.id) \o Stars(d), a, b)
      BY <2>1, <2>3, <2>4, RebuildsThen
    <2> QED
      BY <1>5, <2>5 DEF ReconstructType, d
  <1>6. CASE v.type = "NONE" /\ a = e /\ Kind(Store, a) = "UNDERSCORE"
    <2> HIDE DEF d, e
    <2>1. Rebuilds(Lit("UNDERSCORE"), a, e) /\ ~NestedAt(e)
      BY <1>6, PlainRebuilt DEF Names
    <2>2. Rebuilds(Lit("UNDERSCORE"), a, b)
      BY <1>1, <1>2, <1>3, <1>4, <1>6, <2>1, Starred
    <2> QED
      BY <1>6, <2>2 DEF ReconstructType
  <1>7. CASE /\ v.type = "ARRAY" /\ Kind(Store, a) = "LBRK" /\ Leaf(Store, v.id, IdTokens, a + 1) /\ Kind(Store, a + 2) = "SEMI"
             /\ Held(Store, n, "EXPRESSION_LIST", v.exprList, a + 3, e - 1) /\ Kind(Store, e) = "RBRK"
    <2> DEFINE i1 == a + 1
               i2 == a + 2
               i3 == a + 3
               l == e - 1
               list == ReconstructList(t, "EXPRESSION_LIST", v.exprList)
    <2>1. i1 = a + 1 /\ i2 = i1 + 1 /\ i3 = i2 + 1 /\ e = l + 1
      BY <1>2, <1>4
    <2>2. Rebuilds(Lit("LBRK"), a, a) /\ TypeOf(a) = "LBRK"
      BY <1>7, LitOf, TokenOf DEF Names
    <2>3. Rebuilds(Text(v.id), i1, i1) /\ ~NestedAt(i1) /\ TypeOf(a + 1) \in IdTokens
      BY <1>7, IdRebuilt
    <2>4. ~NestedAt(a)
      BY <2>3 DEF NestedAt, IdTokens
    <2>5. Rebuilds(Lit("SEMI"), i2, i2) /\ ~NestedAt(i2)
      BY <1>7, PlainRebuilt DEF Names
    <2>6. Rebuilds(list, i3, l) /\ ~NestedAt(l)
      BY <1>7, ListOf DEF ListKinds
    <2>7. Rebuilds(Lit("RBRK"), e, e) /\ ~NestedAt(e)
      BY <1>7, PlainRebuilt DEF Names
    <2> HIDE DEF i1, i2, i3, l, list, d, e
    <2>8. Rebuilds(Lit("LBRK") \o Text(v.id), a, i1)
      BY <2>1, <2>2, <2>3, <2>4, RebuildsThen
    <2>9. Rebuilds(Lit("LBRK") \o Text(v.id) \o Lit("SEMI"), a, i2)
      BY <2>1, <2>3, <2>5, <2>8, RebuildsThen
    <2>10. Rebuilds(Lit("LBRK") \o Text(v.id) \o Lit("SEMI") \o list, a, l)
      BY <2>1, <2>5, <2>6, <2>9, RebuildsThen
    <2>11. Rebuilds(Lit("LBRK") \o Text(v.id) \o Lit("SEMI") \o list \o Lit("RBRK"), a, e)
      BY <2>1, <2>6, <2>7, <2>10, RebuildsThen
    <2>12. Rebuilds(Lit("LBRK") \o Text(v.id) \o Lit("SEMI") \o list \o Lit("RBRK"), a, b)
      <3>1. PICK s : s = Lit("LBRK") \o Text(v.id) \o Lit("SEMI") \o list \o Lit("RBRK")
        OBVIOUS
      <3>2. Rebuilds(s, a, e) /\ (e = b \/ ~Rebuildable)
        BY <1>3, <1>4, <1>7, <2>11, <3>1
      <3>3. Rebuilds(s, a, b)
        BY <1>1, <1>2, <1>4, <2>7, <3>2, Starred
      <3> QED
        BY <3>1, <3>3
    <2> QED
      BY <1>7, <2>12 DEF ReconstructType, list
  <1>8. CASE v.type = "NESTED" /\ Kind(Store, a) = "LBRK" /\ Kind(Store, a + 1) = "LBRK" /\ a < e
    <2>1. TypeOf(a) = "LBRK" /\ TypeOf(a + 1) = "LBRK"
      BY <1>8, TokenOf
    <2>2. a \in a..(b - 1)
      BY <1>2, <1>4, <1>8
    <2>3. NestedIn(a, b)
      BY <2>1, <2>2 DEF NestedIn
    <2>4. "vartype" \in Places
      BY DEF Places
    <2>5. Rebuilds(Fault("ABORT", "vartype"), a, b)
      BY <2>3, <2>4, RebuildsAbort
    <2> QED
      BY <1>8, <2>5 DEF ReconstructType
  <1> QED
    BY <1>1, <1>5, <1>6, <1>7, <1>8

LEMMA TypedIdRebuilt ==
  ASSUME BInv, TreeFormed, CellsFormed, NEW n \in 1..Len(tree), NEW t, RebuiltBefore(t, n), tree[n].sym = "TYPED_ID",
         NEW a, NEW b, FormedTypedId(Store, n, tree[n].is, a, b)
  PROVE  Rebuilds(Text(tree[n].is.id) \o Lit("COLON") \o t[tree[n].is.type], a, b)
  <1> DEFINE v == tree[n].is
  <1>1. CASE v.id = Unwritten /\ Part(Store, n, v.type, "VAR_TYPE", a, b)
    <2> DEFINE e == a - 1
               x == Piece("COLON", NULL)
               s == Fault("UNWRITTEN", "TypedId.id") \o Lit("COLON")
    <2>1. Rebuilds(t[v.type], a, b) /\ a \in Nat /\ 1 <= a /\ a <= b /\ b <= Len(input) /\ b \in Nat
      BY <1>1, PartOf
    <2>2. Interval(a, e) /\ a = e + 1 /\ e < a /\ e = a - 1
      BY <2>1, InputTokens DEF Interval
    <2>3. ~NestedIn(a, e) /\ ~StringIn(a, e)
      BY <2>1, SmallIntervals
    <2>4. ~Rebuildable
      <3>1. n \in DOMAIN tree
        BY Heap
      <3> QED
        BY <1>1, <3>1 DEF Rebuildable, RebuildableNode
    <2>5. s \in Seq(Pieces) /\ Fatal(s) = {}
      <3>1. "TypedId.id" \in Places /\ "UNWRITTEN" \notin Ends /\ "COLON" \notin Ends
        BY DEF Places, Ends
      <3>2. PICK u \in Seq(Pieces) : u = Fault("UNWRITTEN", "TypedId.id") /\ \A i \in 1..Len(u) : u[i].sym = "UNWRITTEN"
        BY <3>1, Unknown
      <3>3. Fatal(u) = {}
        BY <3>1, <3>2, FatalNone
      <3>4. x \in Pieces /\ x.sym = "COLON"
        BY DEF Piece, Pieces, Tokens, NULL
      <3> HIDE DEF x
      <3>5. PICK w \in Seq(Pieces) : w = <<x>>
        BY <3>4, NoPieces
      <3>6. Fatal(w) = {}
        BY <3>1, <3>4, <3>5, FatalOne
      <3>7. u \o w \in Seq(Pieces) /\ Fatal(u \o w) = {}
        BY <3>3, <3>6, Concatenated, FatalConcat
      <3> QED
        BY <3>2, <3>5, <3>7 DEF Lit, x
    <2> HIDE DEF e, s, x
    <2>6. Rebuilds(s, a, e)
      BY <2>2, <2>3, <2>4, <2>5, RebuildsPoorly
    <2>7. Rebuilds(s \o t[v.type], a, b)
      BY <2>1, <2>2, <2>6, RebuildsThen
    <2>8. Text(v.id) = Fault("UNWRITTEN", "TypedId.id")
      BY <1>1 DEF Text
    <2> QED
      BY <2>7, <2>8 DEF s
  <1>2. CASE Leaf(Store, v.id, IdTokens, a) /\ Kind(Store, a + 1) = "COLON" /\ Part(Store, n, v.type, "VAR_TYPE", a + 2, b)
    <2> DEFINE i1 == a + 1
               i2 == a + 2
    <2>1. Rebuilds(Text(v.id), a, a) /\ a \in Nat /\ ~NestedAt(a)
      BY <1>2, IdRebuilt
    <2>2. Rebuilds(Lit("COLON"), i1, i1) /\ ~NestedAt(i1)
      BY <1>2, PlainRebuilt DEF Names
    <2>3. Rebuilds(t[v.type], i2, b)
      BY <1>2, PartOf
    <2>4. i1 = a + 1 /\ i2 = i1 + 1
      BY <2>1
    <2> HIDE DEF i1, i2, v
    <2>5. Rebuilds(Text(v.id) \o Lit("COLON"), a, i1)
      BY <2>1, <2>2, <2>4, RebuildsThen
    <2>6. Rebuilds(Text(v.id) \o Lit("COLON") \o t[v.type], a, b)
      BY <2>2, <2>3, <2>4, <2>5, RebuildsThen
    <2> QED
      BY <2>6 DEF v
  <1> QED
    BY <1>1, <1>2 DEF FormedTypedId

LEMMA DerefRebuilt ==
  ASSUME BInv, TreeFormed, CellsFormed, NEW n \in 1..Len(tree), NEW t, RebuiltBefore(t, n), NEW v,
         NEW a, NEW b, FormedDeref(Store, n, v, a, b), Interval(a, b)
  PROVE  Rebuilds(Text(v.id) \o Lit("LBRK") \o ReconstructList(t, "EXPRESSION_LIST", v.exprList) \o Lit("RBRK"), a, b)
  <1> DEFINE i1 == a + 1
             i2 == a + 2
             l == b - 1
             list == ReconstructList(t, "EXPRESSION_LIST", v.exprList)
  <1>1. Leaf(Store, v.id, IdTokens, a) /\ Kind(Store, i1) = "LBRK"
        /\ Held(Store, n, "EXPRESSION_LIST", v.exprList, i2, l) /\ Kind(Store, b) = "RBRK"
    BY DEF FormedDeref
  <1>2. Rebuilds(Text(v.id), a, a) /\ a \in Nat /\ ~NestedAt(a)
    BY <1>1, IdRebuilt
  <1>3. Rebuilds(Lit("LBRK"), i1, i1) /\ TypeOf(i1) = "LBRK"
    BY <1>1, LitOf, TokenOf DEF Names
  <1>4. Rebuilds(list, i2, l) /\ ~NestedAt(l) /\ TypeOf(i2) \notin {"LBRK", "RP"}
    BY <1>1, ListOf DEF ListKinds
  <1>5. Rebuilds(Lit("RBRK"), b, b)
    BY <1>1, PlainRebuilt DEF Names
  <1>6. i1 = a + 1 /\ i2 = i1 + 1 /\ b = l + 1
    BY <1>2 DEF Interval
  <1> HIDE DEF i1, i2, l, list
  <1>7. ~NestedAt(i1)
    BY <1>4, <1>6 DEF NestedAt
  <1>8. Rebuilds(Text(v.id) \o Lit("LBRK"), a, i1)
    BY <1>2, <1>3, <1>6, RebuildsThen
  <1>9. Rebuilds(Text(v.id) \o Lit("LBRK") \o list, a, l)
    BY <1>4, <1>6, <1>7, <1>8, RebuildsThen
  <1>10. Rebuilds(Text(v.id) \o Lit("LBRK") \o list \o Lit("RBRK"), a, b)
    BY <1>4, <1>5, <1>6, <1>9, RebuildsThen
  <1> QED
    BY <1>10 DEF list

LEMMA CallRebuilt ==
  ASSUME BInv, TreeFormed, CellsFormed, NEW n \in 1..Len(tree), NEW t, RebuiltBefore(t, n), NEW v,
         NEW a, NEW b, FormedCall(Store, n, v, a, b), Interval(a, b)
  PROVE  Rebuilds(Text(v.id) \o Lit("LP") \o ReconstructList(t, "EXPRESSION_LIST", v.exprList) \o Lit("RP"), a, b)
  <1> DEFINE i1 == a + 1
             i2 == a + 2
             l == b - 1
             list == ReconstructList(t, "EXPRESSION_LIST", v.exprList)
  <1>1. /\ Leaf(Store, v.id, IdTokens, a) /\ Kind(Store, i1) = "LP" /\ Kind(Store, b) = "RP"
        /\ \/ v.exprList = NULL /\ b = i2
           \/ Held(Store, n, "EXPRESSION_LIST", v.exprList, i2, l)
    BY DEF FormedCall
  <1>2. Rebuilds(Text(v.id), a, a) /\ a \in Nat /\ ~NestedAt(a)
    BY <1>1, IdRebuilt
  <1>3. Rebuilds(Lit("LP"), i1, i1) /\ ~NestedAt(i1)
    BY <1>1, PlainRebuilt DEF Names
  <1>5. Rebuilds(Lit("RP"), b, b)
    BY <1>1, PlainRebuilt DEF Names
  <1>6. i1 = a + 1 /\ i2 = i1 + 1 /\ b = l + 1 /\ (b = i2 => l = i1)
    BY <1>2 DEF Interval
  <1>8. Rebuilds(Text(v.id) \o Lit("LP"), a, i1)
    <2> HIDE DEF i1, i2, l, list
    <2> QED
      BY <1>2, <1>3, <1>6, RebuildsThen
  <1>9. Rebuilds(Text(v.id) \o Lit("LP") \o list, a, l) /\ ~NestedAt(l)
    <2>1. CASE v.exprList = NULL /\ b = i2
      <3>1. list = <<>>
        BY <2>1, WalkListDefined DEF ReconstructList
      <3>2. PICK s : s = Text(v.id) \o Lit("LP")
        OBVIOUS
      <3>3. s \in Seq(Pieces)
        BY <1>8, <3>2 DEF Rebuilds
      <3>4. s \o <<>> = s
        BY <3>3
      <3> QED
        BY <1>3, <1>6, <1>8, <2>1, <3>1, <3>2, <3>4
    <2>2. CASE Held(Store, n, "EXPRESSION_LIST", v.exprList, i2, l)
      <3>1. Rebuilds(list, i2, l) /\ ~NestedAt(l)
        BY <2>2, ListOf DEF ListKinds
      <3> HIDE DEF i1, i2, l, list
      <3> QED
        BY <1>3, <1>6, <1>8, <3>1, RebuildsThen
    <2> QED
      BY <1>1, <2>1, <2>2
  <1> HIDE DEF i1, i2, l, list
  <1>10. Rebuilds(Text(v.id) \o Lit("LP") \o list \o Lit("RP"), a, b)
    BY <1>5, <1>6, <1>9, RebuildsThen
  <1> QED
    BY <1>10 DEF list

LEMMA FuncHeaderRebuilt ==
  ASSUME BInv, TreeFormed, CellsFormed, NEW n \in 1..Len(tree), NEW t, RebuiltBefore(t, n), NEW v,
         NEW a, NEW b, FormedFuncHeader(Store, n, v, a, b)
  PROVE  Rebuilds(ReconstructList(t, "TYPED_ID_LIST", v.params) \o Lit("ARROW") \o t[v.returnType], a, b)
  <1> DEFINE list == ReconstructList(t, "TYPED_ID_LIST", v.params)
  <1>1. PICK c : /\ Held(Store, n, "TYPED_ID_LIST", v.params, a, c) /\ Kind(Store, c + 1) = "ARROW"
                 /\ Part(Store, n, v.returnType, "VAR_TYPE", c + 2, b)
    BY DEF FormedFuncHeader
  <1> DEFINE i1 == c + 1
             i2 == c + 2
  <1>2. Rebuilds(list, a, c) /\ c \in Nat /\ ~NestedAt(c)
    BY <1>1, ListOf DEF ListKinds
  <1>3. Rebuilds(Lit("ARROW"), i1, i1) /\ ~NestedAt(i1)
    BY <1>1, PlainRebuilt DEF Names
  <1>4. Rebuilds(t[v.returnType], i2, b)
    BY <1>1, PartOf
  <1>5. i1 = c + 1 /\ i2 = i1 + 1
    BY <1>2
  <1> HIDE DEF i1, i2, list
  <1>6. Rebuilds(list \o Lit("ARROW"), a, i1)
    BY <1>2, <1>3, <1>5, RebuildsThen
  <1>7. Rebuilds(list \o Lit("ARROW") \o t[v.returnType], a, b)
    BY <1>3, <1>4, <1>5, <1>6, RebuildsThen
  <1> QED
    BY <1>7 DEF list

LEMMA BlockRebuilt ==
  ASSUME BInv, TreeFormed, CellsFormed, NEW n \in 1..Len(tree), NEW t, RebuiltBefore(t, n), NEW v,
         NEW a, NEW b, FormedBlock(Store, n, v, a, b), Interval(a, b)
  PROVE  Rebuilds(Lit("LBRC") \o ReconstructList(t, "STATEMENT_LIST", v) \o Lit("RBRC"), a, b)
  <1> DEFINE i1 == a + 1
             l == b - 1
             list == ReconstructList(t, "STATEMENT_LIST", v)
  <1>1. /\ Kind(Store, a) = "LBRC" /\ Kind(Store, b) = "RBRC"
        /\ \/ v = NULL /\ b = i1
           \/ Held(Store, n, "STATEMENT_LIST", v, i1, l)
    BY DEF FormedBlock
  <1>2. Rebuilds(Lit("LBRC"), a, a) /\ ~NestedAt(a) /\ a \in Nat
    BY <1>1, PlainRebuilt DEF Names
  <1>3. Rebuilds(Lit("RBRC"), b, b)
    BY <1>1, PlainRebuilt DEF Names
  <1>4. i1 = a + 1 /\ b = l + 1 /\ (b = i1 => l = a)
    BY <1>2 DEF Interval
  <1>5. Rebuilds(Lit("LBRC") \o list, a, l) /\ ~NestedAt(l)
    <2>1. CASE v = NULL /\ b = i1
      <3>1. list = <<>>
        BY <2>1, WalkListDefined DEF ReconstructList
      <3>2. Lit("LBRC") \in Seq(Pieces)
        BY <1>2 DEF Rebuilds
      <3>3. Lit("LBRC") \o <<>> = Lit("LBRC")
        BY <3>2
      <3> QED
        BY <1>2, <1>4, <2>1, <3>1, <3>3
    <2>2. CASE Held(Store, n, "STATEMENT_LIST", v, i1, l)
      <3>1. Rebuilds(list, i1, l) /\ ~NestedAt(l)
        BY <2>2, ListOf DEF ListKinds
      <3> HIDE DEF i1, l, list
      <3> QED
        BY <1>2, <1>4, <3>1, RebuildsThen
    <2> QED
      BY <1>1, <2>1, <2>2
  <1> HIDE DEF i1, l, list
  <1>6. Rebuilds(Lit("LBRC") \o list \o Lit("RBRC"), a, b)
    BY <1>3, <1>4, <1>5, RebuildsThen
  <1> QED
    BY <1>6 DEF list

LEMMA IfRebuilt ==
  ASSUME BInv, TreeFormed, NEW n \in 1..Len(tree), NEW t, RebuiltBefore(t, n), NEW v,
         NEW a, NEW b, FormedIf(Store, n, v, a, b)
  PROVE  Rebuilds(Lit("IF") \o t[v.expr] \o t[v.block], a, b)
  <1>1. PICK c : Part(Store, n, v.expr, "EXPRESSION", a + 1, c) /\ Part(Store, n, v.block, "BLOCK", c + 1, b)
    BY DEF FormedIf
  <1> DEFINE i1 == a + 1
             d == c + 1
  <1>2. Rebuilds(Lit("IF"), a, a) /\ ~NestedAt(a) /\ a \in Nat
    BY PlainRebuilt DEF FormedIf, Names
  <1>3. Rebuilds(t[v.expr], i1, c) /\ ~NestedAt(c)
    BY <1>1, PartOf
  <1>4. Rebuilds(t[v.block], d, b)
    BY <1>1, PartOf
  <1>5. i1 = a + 1 /\ d = c + 1
    OBVIOUS
  <1> HIDE DEF i1, d
  <1>6. Rebuilds(Lit("IF") \o t[v.expr], a, c)
    BY <1>2, <1>3, <1>5, RebuildsThen
  <1> QED
    BY <1>3, <1>4, <1>5, <1>6, RebuildsThen

LEMMA AssignmentRebuilt ==
  ASSUME BInv, TreeFormed, NEW n \in 1..Len(tree), NEW t, RebuiltBefore(t, n), NEW v,
         NEW a, NEW b, FormedAssignment(Store, n, v, a, b)
  PROVE  Rebuilds((IF v.typed THEN t[v.id] ELSE Text(v.id)) \o Lit("EQ") \o t[v.expr], a, b)
  <1> DEFINE s == IF v.typed THEN t[v.id] ELSE Text(v.id)
  <1>1. PICK c : /\ \/ v.typed = TRUE /\ Part(Store, n, v.id, "TYPED_ID", a, c)
                    \/ v.typed = FALSE /\ Leaf(Store, v.id, IdTokens, a) /\ c = a
                 /\ Kind(Store, c + 1) = "EQ"
                 /\ Part(Store, n, v.expr, "EXPRESSION", c + 2, b)
    BY DEF FormedAssignment
  <1> DEFINE i1 == c + 1
             i2 == c + 2
  <1>2. Rebuilds(s, a, c) /\ ~NestedAt(c) /\ c \in Nat
    <2>1. CASE v.typed = TRUE /\ Part(Store, n, v.id, "TYPED_ID", a, c)
      BY <2>1, PartOf
    <2>2. CASE v.typed = FALSE /\ Leaf(Store, v.id, IdTokens, a) /\ c = a
      BY <2>2, IdRebuilt
    <2> QED
      BY <1>1, <2>1, <2>2
  <1>3. Rebuilds(Lit("EQ"), i1, i1) /\ ~NestedAt(i1)
    BY <1>1, PlainRebuilt DEF Names
  <1>4. Rebuilds(t[v.expr], i2, b)
    BY <1>1, PartOf
  <1>5. i1 = c + 1 /\ i2 = i1 + 1
    BY <1>2
  <1> HIDE DEF i1, i2, s
  <1>6. Rebuilds(s \o Lit("EQ"), a, i1)
    BY <1>2, <1>3, <1>5, RebuildsThen
  <1>7. Rebuilds(s \o Lit("EQ") \o t[v.expr], a, b)
    BY <1>3, <1>4, <1>5, <1>6, RebuildsThen
  <1> QED
    BY <1>7 DEF s

LEMMA StatementRebuilt ==
  ASSUME BInv, TreeFormed, NEW n \in 1..Len(tree), NEW t, RebuiltBefore(t, n), NEW v,
         NEW a, NEW b, FormedStatement(Store, n, v, a, b)
  PROVE  Rebuilds((IF v.type = "RETURN" THEN Lit("RETURN") ELSE <<>>) \o t[v.is], a, b)
  <1>1. CASE v.type = "RETURN" /\ Kind(Store, a) = "RETURN" /\ Part(Store, n, v.is, "EXPRESSION", a + 1, b)
    <2> DEFINE i1 == a + 1
    <2>1. Rebuilds(Lit("RETURN"), a, a) /\ ~NestedAt(a)
      BY <1>1, PlainRebuilt DEF Names
    <2>2. Rebuilds(t[v.is], i1, b) /\ i1 = a + 1
      BY <1>1, PartOf
    <2> HIDE DEF i1
    <2>3. Rebuilds(Lit("RETURN") \o t[v.is], a, b)
      BY <2>1, <2>2, RebuildsThen
    <2> QED
      BY <1>1, <2>3
  <1>2. ASSUME v.type # "RETURN", NEW sym, sym # "HEADER", Part(Store, n, v.is, sym, a, b)
        PROVE  Rebuilds((IF v.type = "RETURN" THEN Lit("RETURN") ELSE <<>>) \o t[v.is], a, b)
    <2>1. Rebuilds(t[v.is], a, b)
      BY <1>2, PartOf
    <2>2. t[v.is] \in Seq(Pieces)
      BY <2>1 DEF Rebuilds
    <2>3. <<>> \o t[v.is] = t[v.is]
      BY <2>2
    <2> QED
      BY <1>2, <2>1, <2>3
  <1>3. CASE v.type = "ASSIGN" /\ Part(Store, n, v.is, "ASSIGNMENT", a, b)
    BY <1>2, <1>3
  <1>4. CASE v.type = "NT_IF" /\ Part(Store, n, v.is, "NT_IF", a, b)
    BY <1>2, <1>4
  <1>5. CASE v.type = "EXPR" /\ Part(Store, n, v.is, "EXPRESSION", a, b)
    BY <1>2, <1>5
  <1> QED
    BY <1>1, <1>3, <1>4, <1>5 DEF FormedStatement

LEMMA FunctionRebuilt ==
  ASSUME BInv, TreeFormed, NEW n \in 1..Len(tree), NEW t, RebuiltBefore(t, n), NEW v,
         NEW a, NEW b, FormedFunction(Store, n, v, a, b)
  PROVE  Rebuilds(Text(v.id) \o Lit("EQ") \o t[v.header] \o t[v.block], a, b)
  <1>1. PICK c : Part(Store, n, v.header, "FUNC_HEADER", a + 2, c) /\ Part(Store, n, v.block, "BLOCK", c + 1, b)
    BY DEF FormedFunction
  <1> DEFINE i1 == a + 1
             i2 == a + 2
             d == c + 1
  <1>2. Rebuilds(Text(v.id), a, a) /\ ~NestedAt(a) /\ a \in Nat
    BY IdRebuilt DEF FormedFunction
  <1>3. Rebuilds(Lit("EQ"), i1, i1) /\ ~NestedAt(i1)
    BY PlainRebuilt DEF FormedFunction, Names
  <1>4. Rebuilds(t[v.header], i2, c) /\ ~NestedAt(c)
    BY <1>1, PartOf
  <1>5. Rebuilds(t[v.block], d, b)
    BY <1>1, PartOf
  <1>6. i1 = a + 1 /\ i2 = i1 + 1 /\ d = c + 1
    BY <1>2
  <1> HIDE DEF i1, i2, d
  <1>7. Rebuilds(Text(v.id) \o Lit("EQ"), a, i1)
    BY <1>2, <1>3, <1>6, RebuildsThen
  <1>8. Rebuilds(Text(v.id) \o Lit("EQ") \o t[v.header], a, c)
    BY <1>3, <1>4, <1>6, <1>7, RebuildsThen
  <1> QED
    BY <1>4, <1>5, <1>6, <1>8, RebuildsThen

-----------------------------------------------------------------------------
(* The reconstruction of the whole tree. *)

\* Every kind of node is rebuilt, when the nodes before it are.
LEMMA NodeRebuilt ==
  ASSUME BInv, literals \in Spellings(input), TreeFormed, CellsFormed,
         NEW n \in 1..Len(tree), NEW t, RebuiltBefore(t, n), tree[n].sym # "HEADER"
  PROVE  Rebuilds(ReconstructNode(t, n), tree[n].from, tree[n].to)
  <1> DEFINE v == tree[n].is
             sym == tree[n].sym
             a == tree[n].from
             b == tree[n].to
  <1>1. Formed(Store, n, sym, v, a, b)
    BY Heap DEF TreeFormed, NodeFormed
  <1>2. Interval(a, b)
    BY NodeSolid, SolidInterval
  <1>3. sym \in NonTerminals \ ListKinds
    BY <1>1 DEF Formed
  <1>op. CASE sym \in Operators
    <2>1. FormedOperator(Store, n, sym, v, a, b)
      BY <1>1, <1>op DEF Formed
    <2>2. ReconstructNode(t, n) =
            IF v.binary THEN Lit("LP") \o t[v.left] \o Text(v.op) \o t[v.right] \o Lit("RP") ELSE t[v.right]
      BY <1>op DEF ReconstructNode, Operators
    <2> QED
      BY <1>op, <2>1, <2>2, OperatorRebuilt
  <1>4. CASE sym = "EXPRESSION"
    <2>1. Part(Store, n, v, "LOGIC_DISJ", a, b)
      BY <1>1, <1>4 DEF Formed
    <2>2. ReconstructNode(t, n) = t[v]
      BY <1>4 DEF ReconstructNode, Operators
    <2> QED
      BY <2>1, <2>2, PartOf
  <1>5. CASE sym = "FACTOR"
    <2>1. FormedFactor(Store, n, v, a, b)
      BY <1>1, <1>5 DEF Formed
    <2>2. ReconstructNode(t, n) = CASE v.type = "ID" -> Text(v.is) [] v.type = "STR" -> Fault("ABORT", "factor") [] OTHER -> t[v.is]
      BY <1>5 DEF ReconstructNode, Operators
    <2> QED
      BY <1>2, <1>5, <2>1, <2>2, FactorRebuilt
  <1>6. CASE sym = "NUMBER"
    <2>1. FormedNumber(Store, v, a, b)
      BY <1>1, <1>6 DEF Formed
    <2>2. ReconstructNode(t, n) = Decimal(v, a)
      BY <1>6 DEF ReconstructNode, Operators
    <2> QED
      BY <2>1, <2>2, NumberRebuilt
  <1>7. CASE sym = "VAR_TYPE"
    <2>1. FormedType(Store, n, v, a, b)
      BY <1>1, <1>7 DEF Formed
    <2>2. ReconstructNode(t, n) = ReconstructType(t, v)
      BY <1>7 DEF ReconstructNode, Operators
    <2> QED
      BY <1>2, <1>7, <2>1, <2>2, TypeRebuilt
  <1>8. CASE sym = "TYPED_ID"
    <2>1. FormedTypedId(Store, n, v, a, b)
      BY <1>1, <1>8 DEF Formed
    <2>2. ReconstructNode(t, n) = Text(v.id) \o Lit("COLON") \o t[v.type]
      BY <1>8 DEF ReconstructNode, Operators
    <2> QED
      BY <1>2, <1>8, <2>1, <2>2, TypedIdRebuilt
  <1>9. CASE sym = "DEREF"
    <2>1. FormedDeref(Store, n, v, a, b)
      BY <1>1, <1>9 DEF Formed
    <2>2. ReconstructNode(t, n) = Text(v.id) \o Lit("LBRK") \o ReconstructList(t, "EXPRESSION_LIST", v.exprList) \o Lit("RBRK")
      BY <1>9 DEF ReconstructNode, Operators
    <2> QED
      BY <1>2, <1>9, <2>1, <2>2, DerefRebuilt
  <1>10. CASE sym = "FUNC_CALL"
    <2>1. FormedCall(Store, n, v, a, b)
      BY <1>1, <1>10 DEF Formed
    <2>2. ReconstructNode(t, n) = Text(v.id) \o Lit("LP") \o ReconstructList(t, "EXPRESSION_LIST", v.exprList) \o Lit("RP")
      BY <1>10 DEF ReconstructNode, Operators
    <2> QED
      BY <1>2, <1>10, <2>1, <2>2, CallRebuilt
  <1>11. CASE sym = "FUNC_HEADER"
    <2>1. FormedFuncHeader(Store, n, v, a, b)
      BY <1>1, <1>11 DEF Formed
    <2>2. ReconstructNode(t, n) = ReconstructList(t, "TYPED_ID_LIST", v.params) \o Lit("ARROW") \o t[v.returnType]
      BY <1>11 DEF ReconstructNode, Operators
    <2> QED
      BY <1>2, <1>11, <2>1, <2>2, FuncHeaderRebuilt
  <1>12. CASE sym = "BLOCK"
    <2>1. FormedBlock(Store, n, v, a, b)
      BY <1>1, <1>12 DEF Formed
    <2>2. ReconstructNode(t, n) = Lit("LBRC") \o ReconstructList(t, "STATEMENT_LIST", v) \o Lit("RBRC")
      BY <1>12, SMTT(30) DEF ReconstructNode, Operators
    <2> QED
      BY <1>2, <1>12, <2>1, <2>2, BlockRebuilt
  <1>13. CASE sym = "NT_IF"
    <2>1. FormedIf(Store, n, v, a, b)
      BY <1>1, <1>13 DEF Formed
    <2>2. ReconstructNode(t, n) = Lit("IF") \o t[v.expr] \o t[v.block]
      BY <1>13 DEF ReconstructNode, Operators
    <2> QED
      BY <1>2, <1>13, <2>1, <2>2, IfRebuilt
  <1>14. CASE sym = "ASSIGNMENT"
    <2>1. FormedAssignment(Store, n, v, a, b)
      BY <1>1, <1>14, SMTT(30) DEF Formed
    <2>2. ReconstructNode(t, n) = (IF v.typed THEN t[v.id] ELSE Text(v.id)) \o Lit("EQ") \o t[v.expr]
      BY <1>14 DEF ReconstructNode, Operators
    <2> QED
      BY <1>2, <1>14, <2>1, <2>2, AssignmentRebuilt
  <1>15. CASE sym = "STATEMENT"
    <2>1. FormedStatement(Store, n, v, a, b)
      BY <1>1, <1>15 DEF Formed
    <2>2. ReconstructNode(t, n) = (IF v.type = "RETURN" THEN Lit("RETURN") ELSE <<>>) \o t[v.is]
      BY <1>15 DEF ReconstructNode, Operators
    <2> QED
      BY <1>2, <1>15, <2>1, <2>2, StatementRebuilt
  <1>16. CASE sym = "FUNCTION"
    <2>1. FormedFunction(Store, n, v, a, b)
      BY <1>1, <1>16 DEF Formed
    <2>2. ReconstructNode(t, n) = Text(v.id) \o Lit("EQ") \o t[v.header] \o t[v.block]
      BY <1>16 DEF ReconstructNode, Operators
    <2> QED
      BY <1>2, <1>16, <2>1, <2>2, FunctionRebuilt
  <1> HIDE DEF sym, v, a, b
  <1> QED
    BY <1>op, <1>3, <1>4, <1>5, <1>6, <1>7, <1>8, <1>9, <1>10, <1>11, <1>12, <1>13, <1>14, <1>15, <1>16 DEF NonTerminals, ListKinds, Operators, sym

\* A node refers to the nodes before it, and to no others.
LEMMA AllRebuilt ==
  ASSUME BInv, literals \in Spellings(input), TreeFormed, CellsFormed
  PROVE  RebuiltBefore(Reconstructions, Len(tree) + 1)
  <1> DEFINE R == Reconstructions
             T == {k \in Nat : k <= Len(tree) => RebuiltBefore(R, k + 1)}
  <1>1. Len(tree) \in Nat /\ \A n \in 1..Len(tree) : R[n] = ReconstructNode(Earlier(R, n), n)
    BY Heap, ReconstructionsDefined
  <1> HIDE DEF R
  <1>2. 0 \in T
    BY DEF RebuiltBefore
  <1>3. ASSUME NEW k \in T, k \in Nat PROVE k + 1 \in T
    <2>1. ASSUME k + 1 <= Len(tree), NEW m \in 1..((k + 1 + 1) - 1), tree[m].sym # "HEADER"
          PROVE  Rebuilds(R[m], tree[m].from, tree[m].to)
      <3>1. m \in 1..Len(tree) /\ m \in Nat /\ k <= Len(tree)
        BY <1>1, <1>3, <2>1
      <3>2. \A i \in 1..((k + 1) - 1) : tree[i].sym # "HEADER" => Rebuilds(R[i], tree[i].from, tree[i].to)
        BY <1>3, <3>1 DEF RebuiltBefore
      <3>3. \A i \in 1..(m - 1) : i \in 1..((k + 1) - 1)
        BY <1>3, <2>1, <3>1
      <3>4. \A i \in 1..(m - 1) : Earlier(R, m)[i] = R[i]
        BY <3>1, EarlierIs
      <3>5. RebuiltBefore(Earlier(R, m), m)
        BY <3>2, <3>3, <3>4 DEF RebuiltBefore
      <3>6. Rebuilds(ReconstructNode(Earlier(R, m), m), tree[m].from, tree[m].to)
        BY <2>1, <3>1, <3>5, NodeRebuilt
      <3> QED
        BY <1>1, <3>1, <3>6
    <2> QED
      BY <1>3, <2>1 DEF RebuiltBefore
  <1>4. Nat \subseteq T
    <2> HIDE DEF T
    <2> QED
      BY <1>2, <1>3, Induction
  <1>5. Len(tree) \in T
    BY <1>1, <1>4
  <1> QED
    BY <1>5 DEF R

\* A header is written with whatever token is its name.
LEMMA HeaderRebuilt ==
  ASSUME BInv, TreeFormed, NEW n \in 1..Len(tree), tree[n].sym = "HEADER"
  PROVE  LET a == tree[n].from
             b == tree[n].to
             s == Reconstructions[n]
         IN /\ Interval(a, b) /\ s \in Seq(Pieces) /\ Fatal(s) = {}
            /\ Same(Only(Tokens \ Parens, s), Only(Tokens \ Parens, Source(a, b)))
  <1> DEFINE K == Tokens \ Parens
             a == tree[n].from
             b == tree[n].to
             x == Piece("MODULE", NULL)
             y == TokenPiece(a)
             z == TokenPiece(b)
  <1>1. b = a + 1 /\ Kind(Store, a) = "MODULE" /\ tree[n].is = b /\ a \in 1..b /\ b \in 1..Len(input)
    BY Heap DEF TreeFormed, NodeFormed, Formed, Leaf, Edges, Store
  <1>2. Len(input) \in Nat /\ a \in Nat \ {0} /\ b \in Nat /\ a \in 1..Len(input) /\ TypeOf(a) = "MODULE"
    BY <1>1, InputTokens, StoreKind
  <1>3. Interval(a, b) /\ Interval(a, a) /\ Interval(b, b)
    BY <1>1, <1>2 DEF Interval
  <1>4. Source(a, a) = <<y>> /\ Source(b, b) = <<z>>
    BY <1>1, <1>2, SourceOne
  <1>5. Source(a, b) = <<y>> \o <<z>>
    <2>1. a <= a + 1 /\ a <= b /\ b <= Len(input) /\ a \in Nat
      BY <1>1, <1>2
    <2>2. input \in Seq(Tokens) /\ a \in Nat \ {0} /\ b \in Nat
      BY <1>2, InputTokens
    <2> HIDE DEF a, b, y, z
    <2>3. Source(a, b) = Source(a, a) \o Source(a + 1, b)
      BY <2>1, <2>2, SourceConcat
    <2> QED
      BY <1>1, <1>4, <2>3
  <1>6. Reconstructions[n] = <<x>> \o <<z>>
    <2>1. Reconstructions[n] = Lit("MODULE") \o Text(b)
      BY <1>1, ReconstructionsDefined DEF ReconstructNode, Operators
    <2>2. Text(b) = <<z>>
      BY <1>1, InputTokens, UnwrittenAssumption DEF Text
    <2> QED
      BY <2>1, <2>2 DEF Lit
  <1>7. y \in Pieces /\ y.sym = "MODULE" /\ z \in Pieces /\ z.sym \in Tokens
    <2>1. TypeOf(b) \in Tokens
      BY <1>1, InputTokens DEF TypeOf
    <2> QED
      BY <1>1, <1>2, <2>1, InputTokens, PieceOfToken
  <1>8. x \in Pieces /\ x.sym = "MODULE" /\ x.at = NULL
    BY DEF Piece, Pieces, Tokens, IdTokens, NULL
  <1>9. x.sym \notin Ends /\ z.sym \notin Ends /\ x.sym \in K /\ y.sym \in K
    BY <1>7, <1>8 DEF Ends, Tokens, IdTokens, Relops, Mulops, Addops, Parens
  <1> HIDE DEF a, b, x, y, z, K
  <1>10. PICK X \in Seq(Pieces), Y \in Seq(Pieces), Z \in Seq(Pieces) : X = <<x>> /\ Y = <<y>> /\ Z = <<z>>
    BY <1>7, <1>8, NoPieces
  <1>11. Fatal(X) = {} /\ Fatal(Z) = {}
    BY <1>9, <1>10, FatalOne
  <1>12. X \o Z \in Seq(Pieces) /\ Fatal(X \o Z) = {}
    BY <1>11, Concatenated, FatalConcat
  <1>m. "MODULE" \notin Names
    BY DEF Names
  <1>13. Same(Only(K, X), Only(K, Y))
    BY <1>7, <1>8, <1>9, <1>10, <1>m, OnlyOne, SameOne
  <1>14. Same(Only(K, Z), Only(K, Z))
    BY <1>10, OnlyOne, SameOne
  <1>15. Only(K, X) \in Seq(Pieces) /\ Only(K, Y) \in Seq(Pieces) /\ Only(K, Z) \in Seq(Pieces)
    BY OnlyType
  <1>16. Same(Only(K, X) \o Only(K, Z), Only(K, Y) \o Only(K, Z))
    BY <1>13, <1>14, <1>15, SameConcat
  <1>17. Only(K, X \o Z) = Only(K, X) \o Only(K, Z) /\ Only(K, Y \o Z) = Only(K, Y) \o Only(K, Z)
    BY OnlyConcat
  <1>18. Same(Only(K, X \o Z), Only(K, Y \o Z))
    BY <1>16, <1>17, Zenon
  <1>19. Reconstructions[n] = X \o Z /\ Source(a, b) = Y \o Z
    BY <1>5, <1>6, <1>10
  <1>20. /\ Interval(a, b) /\ Reconstructions[n] \in Seq(Pieces) /\ Fatal(Reconstructions[n]) = {}
         /\ Same(Only(K, Reconstructions[n]), Only(K, Source(a, b)))
    BY <1>3, <1>12, <1>18, <1>19, Zenon
  <1> QED
    BY <1>20 DEF a, b, K

\* What is written for a node of the stack.
LEMMA StackRebuilt ==
  ASSUME TreeInv, NEW i \in 1..Depth, stack[i].sym \in NonTerminals
  PROVE  LET s == Reconstruct(stack[i].sym, values[i])
             a == stack[i].from
             b == stack[i].to
         IN IF stack[i].sym = "HEADER"
              THEN /\ Interval(a, b) /\ s \in Seq(Pieces) /\ Fatal(s) = {}
                   /\ Same(Only(Tokens \ Parens, s), Only(Tokens \ Parens, Source(a, b)))
              ELSE Rebuilds(s, a, b)
  <1> DEFINE sym == stack[i].sym
             v == values[i]
             a == stack[i].from
             b == stack[i].to
  <1>1. BInv /\ literals \in Spellings(input) /\ TreeFormed /\ CellsFormed /\ Placed(Store, v, sym, a, b)
    BY DEF TreeInv, StackPlaced
  <1>2. Len(tree) \in Nat
    BY <1>1, Heap
  <1>3. RebuiltBefore(Reconstructions, Len(tree) + 1)
    BY <1>1, AllRebuilt
  <1>4. CASE sym \in ListKinds
    <2>1. ListAt(Store, Len(tree) + 1, sym, v, a, b)
      BY <1>1, <1>4 DEF Placed, Store
    <2>2. Reconstruct(sym, v) = ReconstructList(Reconstructions, sym, v)
      BY <1>4 DEF Reconstruct
    <2>3. PICK k \in 1..(Len(tree) + 1) : k = Len(tree) + 1
      BY <1>2
    <2>4. Rebuilds(ReconstructList(Reconstructions, sym, v), a, b)
      BY <1>1, <1>3, <1>4, <2>1, <2>3, ListRebuilt
    <2>5. sym # "HEADER"
      BY <1>4 DEF ListKinds
    <2> QED
      BY <2>2, <2>4, <2>5
  <1>5. CASE sym \in NonTerminals \ ListKinds
    <2>1. v \in 1..Len(tree) /\ tree[v].sym = sym /\ tree[v].from = a /\ tree[v].to = b
      BY <1>1, <1>2, <1>5 DEF Placed, Part, Store
    <2>2. Reconstruct(sym, v) = Reconstructions[v]
      BY <1>5 DEF Reconstruct
    <2>3. CASE sym = "HEADER"
      BY <1>1, <2>1, <2>2, <2>3, HeaderRebuilt
    <2>4. CASE sym # "HEADER"
      <3>1. v \in 1..((Len(tree) + 1) - 1)
        BY <1>2, <2>1
      <3>2. Rebuilds(Reconstructions[v], a, b)
        BY <1>3, <2>1, <2>4, <3>1 DEF RebuiltBefore
      <3> QED
        BY <2>2, <2>4, <3>2
    <2> QED
      BY <2>3, <2>4
  <1> QED
    BY <1>4, <1>5

(***************************************************************************)
(* SECOND PART.  The process.                                              *)
(***************************************************************************)

-----------------------------------------------------------------------------
(* The process. *)

\* A parser that has read nothing, of the first or of the second process.
Started ==
  /\ input \in Seq(Tokens) /\ literals \in Spellings(input) /\ pos = 0 /\ lookahead = "ID" /\ stack = <<>> /\ phase = "next"
  /\ values = <<>> /\ tree = <<>> /\ cells = <<>> /\ curr = NULL /\ defined = TRUE

\* The invariant of the tree holds of it.
LEMMA StartedTreeInv == Started => TreeInv
  <1> SUFFICES ASSUME Started PROVE TreeInv
    OBVIOUS
  <1>1. stack = <<>> /\ values = <<>> /\ tree = <<>> /\ cells = <<>> /\ curr = NULL /\ phase = "next"
    BY DEF Started
  <1>2. Depth = 0 /\ stack \in Seq(Nodes) /\ Len(input) \in Nat /\ Len(tree) = 0 /\ Len(cells) = 0
    BY <1>1 DEF Depth, Started
  <1>3. TypeOK
    BY <1>2, StackSizeAssumption DEF Started, TypeOK, Lookaheads, Tokens, IdTokens, Phases
  <1>4. TilesInput /\ LocInSpan
    BY <1>2 DEF Started, TilesInput, LocInSpan
  <1>5. BInv
    <2>1. values \in Seq({0}) /\ tree \in Seq({0}) /\ cells \in Seq(CellsOver({0})) /\ Len(values) = 0
      BY <1>1
    <2>2. BuildTypeOK /\ ListsOwned
      <3>1. 1..Depth = {} /\ DOMAIN cells = {} /\ defined = TRUE
        BY <1>1, <1>2 DEF Started
      <3>2. BuildTypeOK
        BY <1>1, <1>2, <2>1, <3>1 DEF BuildTypeOK
      <3>3. ListsOwned
        BY <3>1 DEF ListsOwned
      <3> QED
        BY <3>2, <3>3
    <2> QED
      BY <1>3, <1>4, <2>1, <2>2 DEF BInv, IInv
  <1>6. DOMAIN tree = {} /\ DOMAIN cells = {} /\ 1..Depth = {}
    BY <1>1, <1>2
  <1> QED
    BY <1>1, <1>5, <1>6 DEF Started, TreeInv, TreeFormed, CellsFormed, StackPlaced, ListsApart, CurrInList, LookaheadIsNext

\* So it does when the second process starts.
LEMMA RestartedTreeInv == Started' => TreeInv'
  BY StartedTreeInv, PTL

LEMMA InitStarted ==
  ASSUME BuildInit
  PROVE  Started
  BY InputsAssumption DEF BuildInit, Init, Started

\* Only the kinds asked for are kept.
LEMMA OnlyKept ==
  ASSUME NEW U, NEW s \in Seq(U), NEW syms
  PROVE  Only(syms, s) \in Seq({x \in U : x.sym \in syms})
  <1> DEFINE N == Len(s)
             W == {x \in U : x.sym \in syms}
             T == {n \in Nat : \A kept : n <= N /\ Keeps(kept, syms, s) => kept[n] \in Seq(W)}
  <1>1. N \in Nat /\ \A n \in 1..N : s[n] \in U
    OBVIOUS
  <1>2. 0 \in T
    <2>1. <<>> \in Seq(W)
      OBVIOUS
    <2> QED
      BY <2>1 DEF Keeps
  <1>3. ASSUME NEW n \in T, n \in Nat PROVE n + 1 \in T
    <2> SUFFICES ASSUME NEW kept, n + 1 <= N, Keeps(kept, syms, s) PROVE kept[n + 1] \in Seq(W)
      BY <1>3
    <2>1. n + 1 \in 1..N /\ (n + 1) - 1 = n /\ n <= N
      BY <1>1, <1>3
    <2>2. kept[n] \in Seq(W)
      BY <1>3, <2>1
    <2>3. kept[n + 1] = IF s[n + 1].sym \in syms THEN Append(kept[n], s[n + 1]) ELSE kept[n]
      BY <2>1 DEF Keeps
    <2>4. s[n + 1].sym \in syms => s[n + 1] \in W
      BY <1>1, <2>1
    <2> HIDE DEF W
    <2> QED
      BY <2>2, <2>3, <2>4
  <1>4. Nat \subseteq T
    <2> HIDE DEF T
    <2> QED
      BY <1>2, <1>3, Induction
  <1>5. PICK kept : Keeps(kept, syms, s) /\ Only(syms, s) = kept[Len(s)]
    BY OnlyDefined
  <1>6. kept[N] \in Seq(W)
    BY <1>1, <1>4, <1>5
  <1> QED
    BY <1>5, <1>6

\* What the next process reads.
Texts == {x \in Pieces : x.sym \in Tokens}

\* What was written can be read.
LEMMA SymsRead ==
  ASSUME NEW s \in Seq(Texts)
  PROVE  Syms(s) \in Seq(Tokens)
  <1>1. Len(s) \in Nat /\ DOMAIN s = 1..Len(s) /\ \A i \in 1..Len(s) : s[i].sym \in Tokens
    BY DEF Texts
  <1> HIDE DEF Tokens
  <1>2. Syms(s) \in [1..Len(s) -> Tokens]
    BY <1>1 DEF Syms
  <1> QED
    BY <1>1, <1>2

\* One more node has been written.
LEMMA WalkedOn ==
  ASSUME BInv, NEW a \in Nat, NEW b, NEW c, b = a + 1, Interval(b, c),
         NEW p \in Seq(Texts), NEW s \in Seq(Pieces),
         Same(Only(Tokens \ Parens, p), Only(Tokens \ Parens, Source(1, a))),
         Same(Only(Tokens \ Parens, s), Only(Tokens \ Parens, Source(b, c)))
  PROVE  Same(Only(Tokens \ Parens, p \o Zeroed(s)), Only(Tokens \ Parens, Source(1, c)))
  <1> DEFINE K == Tokens \ Parens
             u == Source(1, a)
             w == Source(b, c)
  <1>1. a <= c /\ c \in Nat /\ c <= Len(input) /\ input \in Seq(Tokens) /\ a <= Len(input) /\ Len(input) \in Nat
    BY InputTokens DEF Interval
  <1>2. u \in Seq(Pieces) /\ w \in Seq(Pieces)
    <2>1. 1 <= a + 1 /\ 1 \in Nat \ {0}
      OBVIOUS
    <2>2. u \in Seq(Pieces)
      BY <1>1, <2>1, SourcePieces
    <2>3. w \in Seq(Pieces)
      BY <1>1, SourcePieces DEF Interval
    <2> QED
      BY <2>2, <2>3
  <1>3. Source(1, c) = u \o w
    <2>1. 1 <= a + 1 /\ 1 \in Nat \ {0}
      OBVIOUS
    <2> QED
      BY <1>1, <2>1, SourceConcat
  <1>4. p \in Seq(Pieces)
    BY DEF Texts
  <1>5. K \subseteq Tokens
    OBVIOUS
  <1> HIDE DEF u, w, K
  <1>6. Zeroed(s) \in Seq(Pieces)
    BY OnlyType DEF Zeroed
  <1>7. Only(K, Zeroed(s)) = Only(K, s)
    BY <1>5, OnlyOnly DEF Zeroed
  <1>8. Only(K, p \o Zeroed(s)) = Only(K, p) \o Only(K, Zeroed(s))
    BY <1>4, <1>6, OnlyConcat
  <1>9. Only(K, u \o w) = Only(K, u) \o Only(K, w)
    BY <1>2, OnlyConcat
  <1>10. /\ Only(K, p) \in Seq(Pieces) /\ Only(K, s) \in Seq(Pieces)
         /\ Only(K, u) \in Seq(Pieces) /\ Only(K, w) \in Seq(Pieces)
    BY <1>2, <1>4, OnlyType
  <1>11. Same(Only(K, p), Only(K, u)) /\ Same(Only(K, s), Only(K, w))
    BY DEF K, u, w
  <1>12. Same(Only(K, p) \o Only(K, s), Only(K, u) \o Only(K, w))
    BY <1>10, <1>11, SameConcat
  <1>13. Same(Only(K, p \o Zeroed(s)), Only(K, u \o w))
    BY <1>7, <1>8, <1>9, <1>12, Zenon
  <1> QED
    BY <1>3, <1>13 DEF K

\* The file cannot be opened, and the walk goes over a context of zeros.
Blind == Action = "reconstruct" /\ ~args.opens

\* What has been written is the source up to the token b.
WrittenTo(b) ==
  Rebuildable /\ Spelled(1, b) => Same(Only(Tokens \ Parens, out), Only(Tokens \ Parens, Source(1, b)))

\* The last token of the nodes that have been walked over.
Reached == IF at = 1 THEN 0 ELSE stack[at - 1].to

\* The parser stops at the end of the input.
AllRead == phase = "done" => pos = Len(input)

\* The loop over the stack, and what it has done so far.
Walking ==
  /\ Parses /\ pos = Len(input) /\ at \in 1..(Depth + 1)
  /\ Action = "reconstruct" => out \in Seq(Texts) /\ WrittenTo(Reached)

\* A process that ended with 0.
Succeeded ==
  /\ Action \in {"tokenize", "reconstruct"} => args.opens
  /\ Action = "codegen" => args.writes /\ args.target = "x86_32"
  /\ Action = "reconstruct" => out \in Seq(Texts) /\ WrittenTo(Len(input))

\* The invariant.
DInv ==
  /\ stage \in {"main", "parse", "walk", "exit"}
  /\ stage # "exit" => status = "none"
  /\ stage \in {"main", "parse"} => at = 1 /\ out = <<>> /\ TreeInv /\ AllRead
  /\ stage = "parse" => Parses
  /\ stage = "walk" => \/ Blind /\ at = 1 /\ stack = <<Node(Bottom, 0, 0, 0)>>
                       \/ TreeInv /\ Walking
  /\ stage = "exit" /\ status = "0" => TreeInv /\ Succeeded

\* Nothing that is looked at changes.
LEMMA SameProcess ==
  ASSUME UNCHANGED <<buildVars, args, out>>
  PROVE  /\ TreeInv => TreeInv'
         /\ AllRead => AllRead'
         /\ Action' = Action /\ Parses' = Parses /\ Blind' = Blind /\ Depth' = Depth
         /\ Rebuildable' = Rebuildable
  <1>1. TreeInv => TreeInv'
    BY StepTreeInv
  <1>2. UNCHANGED <<input, tree, stack, phase, pos>> /\ UNCHANGED args
    BY DEF buildVars
  <1>a. AllRead => AllRead'
    BY <1>2 DEF AllRead
  <1>3. Action' = Action
    BY <1>2 DEF Action
  <1>4. Parses' = Parses /\ Blind' = Blind
    BY <1>2, <1>3 DEF Parses, Blind
  <1>5. Depth' = Depth
    BY <1>2 DEF Depth
  <1>6. Rebuildable' = Rebuildable
    BY <1>2 DEF Rebuildable
  <1> QED
    BY <1>1, <1>a, <1>3, <1>4, <1>5, <1>6

LEMMA SameSource ==
  ASSUME UNCHANGED input, NEW b
  PROVE  Source(1, b)' = Source(1, b)
  BY DEF Source, TokenPiece, Piece, TypeOf

LEMMA SameSpelled ==
  ASSUME UNCHANGED <<input, literals>>, NEW b
  PROVE  Spelled(1, b)' = Spelled(1, b)
  BY DEF Spelled, Kept, TypeOf

LEMMA SameWritten ==
  ASSUME UNCHANGED <<input, literals, tree, out>>, NEW b, WrittenTo(b)
  PROVE  WrittenTo(b)'
  <1>1. Source(1, b)' = Source(1, b)
    BY SameSource
  <1>2. Rebuildable' = Rebuildable
    BY DEF Rebuildable
  <1>3. Spelled(1, b)' = Spelled(1, b)
    BY SameSpelled
  <1> QED
    BY <1>1, <1>2, <1>3 DEF WrittenTo

\* The steps that only end the process, or open the file.
LEMMA ShortSteps ==
  ASSUME DInv, Refuse \/ Tokenize \/ CompileFails \/ Codegen \/ Open
  PROVE  DInv'
  <1>1. stage = "main" /\ UNCHANGED <<buildVars, args, out>> /\ at' = at
    BY DEF Refuse, Tokenize, CompileFails, Codegen, Open, Idle
  <1>2. TreeInv' /\ AllRead' /\ at' = 1 /\ out' = <<>> /\ Action' = Action /\ Parses' = Parses
    BY <1>1, SameProcess DEF DInv
  <1>3. args' = args
    BY <1>1
  <1>4. CASE Refuse
    BY <1>4 DEF DInv, Refuse, Exit
  <1>5. CASE CompileFails
    BY <1>5 DEF DInv, CompileFails, Exit
  <1>6. CASE Open
    <2>1. stage' = "parse" /\ status' = status /\ Parses
      BY <1>6 DEF Open
    <2> QED
      BY <1>1, <1>2, <2>1 DEF DInv
  <1>7. CASE Tokenize
    <2>1. stage' = "exit" /\ status' = (IF args.opens THEN "0" ELSE "2") /\ Action = "tokenize"
      BY <1>7 DEF Tokenize, Exit
    <2>2. status' = "0" => Succeeded'
      BY <1>2, <1>3, <2>1 DEF Succeeded
    <2> QED
      BY <1>2, <2>1, <2>2 DEF DInv
  <1>8. CASE Codegen
    <2>1. stage' = "exit" /\ Action = "codegen"
          /\ status' = (IF ~args.writes THEN "CRASH" ELSE IF args.target = "x86_32" THEN "0" ELSE "ABORT")
      BY <1>8 DEF Codegen, Exit
    <2>2. status' = "0" => args.writes /\ args.target = "x86_32"
      BY <2>1
    <2>3. status' = "0" => Succeeded'
      BY <1>2, <1>3, <2>1, <2>2 DEF Succeeded
    <2> QED
      BY <1>2, <2>1, <2>3 DEF DInv
  <1> QED
    BY <1>4, <1>5, <1>6, <1>7, <1>8

\* The steps of a process.
LEMMA ParseFailsStep ==
  ASSUME DInv, ParseFails
  PROVE  DInv'
  <1>1. stage = "main" /\ Blind /\ stack' = <<Node(Bottom, 0, 0, 0)>> /\ stage' = "walk"
        /\ args' = args /\ at' = at /\ status' = status
    BY DEF ParseFails, Blind
  <1>2. Blind'
    BY <1>1 DEF Blind, Action
  <1> QED
    BY <1>1, <1>2 DEF DInv

LEMMA ParseStep ==
  ASSUME DInv, Parse
  PROVE  DInv'
  <1>1. stage = "parse" /\ BuildStep /\ UNCHANGED <<args, stage, at, out, status>>
    BY DEF Parse
  <1>2. TreeInv'
    BY <1>1, StepTreeInv DEF DInv
  <1>3. Parses' = Parses
    BY <1>1 DEF Parses, Action
  <1>4. AllRead'
    BY <1>1 DEF DInv, AllRead, BuildStep, BuildShift, BuildReduce, BuildRest, Shift, Overflow, NothingToReduce, Finish
  <1> QED
    BY <1>1, <1>2, <1>3, <1>4 DEF DInv

LEMMA ParseEndsStep ==
  ASSUME DInv, ParseEnds
  PROVE  DInv'
  <1>1. stage = "parse" /\ UNCHANGED <<buildVars, args, out>> /\ at' = at /\ at = 1 /\ out = <<>> /\ TreeInv /\ Parses
    BY DEF ParseEnds, Idle, DInv
  <1>2. TreeInv' /\ Action' = Action /\ Parses' = Parses /\ Depth' = Depth
    BY <1>1, SameProcess
  <1>3. CASE phase = "done" /\ stage' = "walk" /\ UNCHANGED status
    <2>1. pos' = Len(input') /\ at' = 1 /\ out' = <<>> /\ Depth \in Nat
      BY <1>1, <1>3, Heap DEF buildVars, TreeInv, DInv, AllRead
    <2>2. Reached' = 0
      BY <2>1 DEF Reached
    <2>3. WrittenTo(0)
      <3>1. Source(1, 0) = <<>>
        <4>1. 0 - 1 + 1 = 0 /\ 1..0 = {}
          OBVIOUS
        <4> QED
          BY <4>1 DEF Source
      <3> QED
        BY <1>1, <3>1, OnlyEmpty, SameOne DEF WrittenTo
    <2>4. WrittenTo(0)'
      <3>1. UNCHANGED <<input, literals, tree, out>>
        BY <1>1 DEF buildVars
      <3> QED
        BY <2>3, <3>1, SameWritten
    <2>5. WrittenTo(Reached)'
      BY <2>2, <2>4 DEF WrittenTo
    <2>6. out' \in Seq(Texts)'
      BY <2>1
    <2>7. Walking'
      BY <1>1, <1>2, <2>1, <2>5, <2>6 DEF Walking
    <2> QED
      BY <1>1, <1>2, <1>3, <2>7 DEF DInv
  <1>4. CASE (phase = "overrun" \/ ~defined) /\ Exit("undefined")
    BY <1>4 DEF Exit, DInv
  <1> QED
    BY <1>3, <1>4 DEF ParseEnds

LEMMA WalkEndsStep ==
  ASSUME DInv, WalkEnds
  PROVE  DInv'
  <1>1. stage = "walk" /\ at > Depth /\ UNCHANGED <<buildVars, args, out>> /\ at' = at
        /\ stage' = "exit" /\ status' = IF Action = "parse" THEN "1" ELSE "0"
    BY DEF WalkEnds, Idle, Exit
  <1>2. ~(Blind /\ at = 1 /\ stack = <<Node(Bottom, 0, 0, 0)>>)
    <2>1. stack = <<Node(Bottom, 0, 0, 0)>> => Depth = 1
      BY DEF Depth
    <2> QED
      BY <1>1, <2>1
  <1>3. TreeInv /\ Walking
    BY <1>1, <1>2 DEF DInv
  <1>4. TreeInv' /\ Action' = Action /\ UNCHANGED <<args, input, literals, tree, out>>
    BY <1>1, <1>3, SameProcess DEF buildVars
  <1>5. CASE Action = "parse"
    BY <1>1, <1>5 DEF DInv
  <1>6. CASE Action # "parse"
    <2>1. Action = "reconstruct" /\ args.opens /\ out \in Seq(Texts) /\ WrittenTo(Reached)
      BY <1>3, <1>6 DEF Walking, Parses
    <2>2. Reached = Len(input)
      <3>1. BInv /\ Depth \in Nat /\ pos = Len(input)
        BY <1>3, Heap DEF TreeInv, Walking
      <3>2. TilesInput /\ at = Depth + 1
        BY <1>1, <1>3, <3>1 DEF BInv, IInv, Walking
      <3>3. pos = Len(input)
        BY <3>1
      <3>4. CASE Depth = 0
        BY <3>2, <3>3, <3>4 DEF Reached, TilesInput
      <3>5. CASE Depth > 0
        <4>1. at # 1 /\ at - 1 = Depth
          BY <3>1, <3>2, <3>5
        <4> QED
          BY <3>2, <3>3, <3>5, <4>1 DEF Reached, TilesInput
      <3> QED
        BY <3>1, <3>4, <3>5
    <2>3. PICK b : b = Len(input)
      OBVIOUS
    <2>4. WrittenTo(b)'
      BY <1>4, <2>1, <2>2, <2>3, SameWritten
    <2>5. Len(input)' = b
      BY <1>4, <2>3
    <2>6. WrittenTo(Len(input))'
      BY <2>4, <2>5 DEF WrittenTo
    <2>7. Succeeded'
      BY <1>4, <2>1, <2>6 DEF Succeeded, Texts
    <2> QED
      BY <1>1, <1>4, <2>7 DEF DInv
  <1> QED
    BY <1>5, <1>6

\* A token on the stack is not written.
LEMMA TokenNotWritten ==
  ASSUME NEW sym, NEW v, sym \notin NonTerminals, sym \notin ListKinds
  PROVE  Ending(Reconstruct(sym, v)) \in Ends
  <1> DEFINE x == Piece("ABORT", "ast_node")
  <1>1. Reconstruct(sym, v) = <<x>>
    BY DEF Reconstruct, Fault
  <1>2. x.sym = "ABORT"
    BY DEF Piece
  <1> HIDE DEF x
  <1>3. PICK s \in Seq({x}) : s = <<x>>
    <2>1. <<x>> \in Seq({x})
      OBVIOUS
    <2> QED
      BY <2>1
  <1>4. Fatal(s) # {}
    BY <1>2, <1>3, FatalOne DEF Ends
  <1> QED
    BY <1>1, <1>3, <1>4, EndingOf

\* A node of the stack that has been written without a fault.
LEMMA NodeWritten ==
  ASSUME TreeInv, NEW i \in 1..Depth, Ending(Reconstruct(stack[i].sym, values[i])) = "none"
  PROVE  LET s == Reconstruct(stack[i].sym, values[i])
             a == stack[i].from
             b == stack[i].to
         IN /\ s \in Seq(Pieces) /\ Fatal(s) = {} /\ Interval(a, b)
            /\ Rebuildable /\ Spelled(a, b) => Same(Only(Tokens \ Parens, s), Only(Tokens \ Parens, Source(a, b)))
  <1> DEFINE s == Reconstruct(stack[i].sym, values[i])
  <1>1. stack[i].sym \in NonTerminals
    <2>1. "none" \notin Ends
      BY DEF Ends
    <2>2. stack[i].sym \in NonTerminals \/ stack[i].sym \in ListKinds
      BY <2>1, TokenNotWritten
    <2>3. ListKinds \subseteq NonTerminals
      BY DEF ListKinds, NonTerminals
    <2> QED
      BY <2>2, <2>3
  <1>2. CASE stack[i].sym = "HEADER"
    BY <1>1, <1>2, StackRebuilt
  <1>3. CASE stack[i].sym # "HEADER"
    <2>1. Rebuilds(s, stack[i].from, stack[i].to)
      BY <1>1, <1>3, StackRebuilt
    <2>2. Fatal(s) = {}
      BY <2>1, EndingOf DEF Rebuilds
    <2> QED
      BY <2>1, <2>2 DEF Rebuilds
  <1> QED
    BY <1>2, <1>3

\* One turn of the loop over the stack writes one more node.
LEMMA WalkNodeStep ==
  ASSUME DInv, WalkNode
  PROVE  DInv'
  <1>1. stage = "walk" /\ at <= Depth /\ at' = at + 1 /\ UNCHANGED <<buildVars, args>>
    BY DEF WalkNode
  <1>2. /\ UNCHANGED <<input, literals, tree, stack, pos, args>>
        /\ TreeInv => TreeInv'
        /\ Action' = Action /\ Parses' = Parses /\ Depth' = Depth
    <2>1. UNCHANGED <<input, literals, tree, stack, pos>> /\ args' = args
      BY <1>1 DEF buildVars
    <2>2. Action' = Action
      BY <2>1 DEF Action
    <2>3. TreeInv => TreeInv'
      BY <1>1, StepTreeInv
    <2> QED
      BY <2>1, <2>2, <2>3 DEF Parses, Depth
  <1>3. \/ /\ out' = out \o Zeroed(Written(Walked(at)))
           /\ Ending(Walked(at)) = "none" /\ UNCHANGED <<stage, status>>
        \/ /\ Ending(Walked(at)) # "none"
           /\ stage' = "exit" /\ status' = Ending(Walked(at))
        \/ stage' = "exit" /\ status' = "undefined"
    <2>1. \/ /\ out' = out \o Zeroed(Written(Walked(at)))
             /\ IF Ending(Walked(at)) = "none" THEN UNCHANGED <<stage, status>> ELSE Exit(Ending(Walked(at)))
          \/ Exit("undefined")
      BY DEF WalkNode
    <2> QED
      BY <2>1 DEF Exit
  <1>4. status = "none"
    BY <1>1 DEF DInv
  <1>5. CASE Action = "parse"
    <2>1. TreeInv /\ Walking
      BY <1>1, <1>5 DEF DInv, Blind
    <2>2. Depth \in Nat
      BY <2>1, Heap DEF TreeInv
    <2>3. Walking'
      BY <1>1, <1>2, <1>5, <2>1, <2>2 DEF Walking
    <2>4. Succeeded'
      BY <1>2, <1>5 DEF Succeeded
    <2>5. stage' \in {"walk", "exit"} /\ (stage' = "walk" => status' = "none")
      BY <1>1, <1>3, <1>4
    <2> QED
      BY <1>2, <2>1, <2>3, <2>4, <2>5 DEF DInv
  <1>6. CASE Action = "reconstruct"
    <2>1. Walked(at) = Reconstruct(stack[at].sym, values[at])
      BY <1>6 DEF Walked
    <2>2. CASE Blind /\ at = 1 /\ stack = <<Node(Bottom, 0, 0, 0)>>
      <3>1. stack[at].sym = "UNDEF"
        BY <2>2 DEF Node, Bottom
      <3>2. "UNDEF" \notin NonTerminals /\ "UNDEF" \notin ListKinds
        BY DEF NonTerminals, ListKinds
      <3>3. Ending(Walked(at)) \in Ends
        BY <2>1, <3>1, <3>2, TokenNotWritten
      <3>4. stage' = "exit" /\ status' \in Ends \cup {"undefined"}
        BY <1>3, <3>3 DEF Ends
      <3> QED
        BY <3>4 DEF DInv, Ends
    <2>3. CASE TreeInv /\ Walking
      <3>1. at \in 1..Depth /\ Depth \in Nat
        BY <1>1, <2>3, Heap DEF Walking, TreeInv
      <3>2. Ending(Walked(at)) = "none" \/ Ending(Walked(at)) \in Ends
        <4>1. CASE stack[at].sym \in NonTerminals
          <5>1. Reconstruct(stack[at].sym, values[at]) \in Seq(Pieces)
            BY <2>3, <3>1, <4>1, StackRebuilt DEF Rebuilds
          <5> QED
            BY <2>1, <5>1, EndingOf
        <4>2. CASE stack[at].sym \notin NonTerminals
          <5>1. stack[at].sym \notin ListKinds
            BY <4>2 DEF ListKinds, NonTerminals
          <5> QED
            BY <2>1, <4>2, <5>1, TokenNotWritten
        <4> QED
          BY <4>1, <4>2
      <3>3. CASE stage' = "exit" /\ status' \in Ends \cup {"undefined"}
        BY <3>3 DEF DInv, Ends
      <3>4. CASE /\ out' = out \o Zeroed(Written(Walked(at)))
                 /\ Ending(Walked(at)) = "none" /\ UNCHANGED <<stage, status>>
        <4> DEFINE s == Reconstruct(stack[at].sym, values[at])
                   b == stack[at].from
                   c == stack[at].to
        <4>1. /\ s \in Seq(Pieces) /\ Fatal(s) = {} /\ Interval(b, c)
              /\ Rebuildable /\ Spelled(b, c) => Same(Only(Tokens \ Parens, s), Only(Tokens \ Parens, Source(b, c)))
          BY <2>1, <2>3, <3>1, <3>4, NodeWritten
        <4>2. Written(Walked(at)) = s
          BY <2>1, <3>4, <4>1, WrittenAll
        <4>3. out \in Seq(Texts) /\ WrittenTo(Reached) /\ BInv
          BY <1>6, <2>3 DEF Walking, TreeInv
        <4>4. PICK a : a = Reached
          OBVIOUS
        <4>5. a \in Nat /\ b = a + 1
          <5>1. TilesInput /\ TypeOK
            BY <4>3 DEF BInv, IInv
          <5>2. CASE at = 1
            BY <3>1, <4>4, <5>1, <5>2 DEF Reached, TilesInput
          <5>3. CASE at # 1
            <6>1. at > 1 /\ at - 1 \in 1..Depth
              BY <3>1, <5>3
            <6>2. stack[at - 1].to \in Nat
              BY <5>1, <6>1, StackNodes
            <6> QED
              BY <3>1, <4>4, <5>1, <5>3, <6>1, <6>2 DEF Reached, TilesInput
          <5> QED
            BY <5>2, <5>3
        <4> HIDE DEF s, b, c
        <4>6. out' = out \o Zeroed(s)
          BY <3>4, <4>2
        <4>7. Rebuildable /\ Spelled(1, c) => Same(Only(Tokens \ Parens, out'), Only(Tokens \ Parens, Source(1, c)))
          <5>1. SUFFICES ASSUME Rebuildable, Spelled(1, c)
                         PROVE  Same(Only(Tokens \ Parens, out'), Only(Tokens \ Parens, Source(1, c)))
            OBVIOUS
          <5>a. Spelled(1, a) /\ Spelled(b, c)
            <6>1. Interval(1, a) /\ Interval(a + 1, c)
              BY <4>1, <4>3, <4>5, InputTokens DEF Interval
            <6> QED
              BY <4>5, <5>1, <6>1, SpelledSplit
          <5>2. Same(Only(Tokens \ Parens, out), Only(Tokens \ Parens, Source(1, a)))
            BY <4>3, <4>4, <5>1, <5>a DEF WrittenTo
          <5>3. Same(Only(Tokens \ Parens, s), Only(Tokens \ Parens, Source(b, c)))
            BY <4>1, <5>1, <5>a
          <5>4. Same(Only(Tokens \ Parens, out \o Zeroed(s)), Only(Tokens \ Parens, Source(1, c)))
            BY <4>1, <4>3, <4>5, <5>2, <5>3, WalkedOn
          <5> QED
            BY <4>6, <5>4
        <4>8. PICK e : e = c
          OBVIOUS
        <4>9. WrittenTo(e)'
          <5>1. Source(1, e)' = Source(1, e) /\ Spelled(1, e)' = Spelled(1, e) /\ Rebuildable' = Rebuildable
            BY <1>2, SameSource, SameSpelled DEF Rebuildable
          <5> QED
            BY <4>7, <4>8, <5>1 DEF WrittenTo
        <4>10. Reached' = e
          <5>1. at' # 1 /\ at' - 1 = at
            BY <1>1, <3>1
          <5> QED
            BY <1>2, <4>8, <5>1 DEF Reached, c
        <4>11. WrittenTo(Reached)'
          BY <4>9, <4>10 DEF WrittenTo
        <4>12. out' \in Seq(Texts)
          <5>1. Zeroed(s) \in Seq(Texts)
            BY <4>1, OnlyKept DEF Zeroed, Texts
          <5> QED
            BY <4>3, <4>6, <5>1, Concatenated
        <4>13. Walking'
          BY <1>1, <1>2, <2>3, <3>1, <4>11, <4>12 DEF Walking, Texts
        <4> QED
          BY <1>1, <1>2, <1>4, <2>3, <3>4, <4>13 DEF DInv
      <3> QED
        BY <1>3, <3>2, <3>3, <3>4
    <2> QED
      BY <1>1, <2>2, <2>3 DEF DInv
  <1>7. Action \in {"parse", "reconstruct"}
    BY <1>1 DEF DInv, Blind, Walking, Parses
  <1> QED
    BY <1>5, <1>6, <1>7

LEMMA RunAgainStep ==
  ASSUME DInv, RunAgain
  PROVE  DInv'
  <1>1. /\ stage = "exit" /\ status = "0" /\ Action = "reconstruct"
        /\ input' = Syms(out) /\ stage' = "main" /\ at' = 1 /\ out' = <<>> /\ status' = "none"
    BY DEF RunAgain
  <1>2. out \in Seq(Texts)
    BY <1>1 DEF DInv, Succeeded
  <1>3. input' \in Seq(Tokens)
    BY <1>1, <1>2, SymsRead
  <1>a. literals' \in Spellings(input')
    BY DEF RunAgain
  <1>b. literals' \in Spellings(input)'
    BY <1>a DEF Spellings
  <1>4. Started'
    BY <1>3, <1>b DEF RunAgain, Started, Tokens, IdTokens, Relops, Mulops, Addops
  <1>5. TreeInv'
    BY <1>4, RestartedTreeInv
  <1>6. AllRead'
    BY <1>4 DEF AllRead, Started
  <1> QED
    BY <1>1, <1>5, <1>6 DEF DInv

LEMMA StepDInv ==
  ASSUME DInv, [DriverNext]_driverVars
  PROVE  DInv'
  <1>1. CASE UNCHANGED driverVars
    <2>1. UNCHANGED <<buildVars, args, out>> /\ UNCHANGED <<stage, at, status, input, literals, tree, stack, pos, args, out>>
      BY <1>1 DEF driverVars, buildVars
    <2>2. /\ TreeInv => TreeInv'
          /\ AllRead => AllRead'
          /\ Action' = Action /\ Parses' = Parses /\ Blind' = Blind /\ Depth' = Depth
      BY <2>1, SameProcess
    <2>3. Reached' = Reached /\ Len(input)' = Len(input)
      BY <2>1 DEF Reached
    <2>4. ASSUME NEW b, WrittenTo(b) PROVE WrittenTo(b)'
      BY <2>1, <2>4, SameWritten
    <2>5. WrittenTo(Reached) => WrittenTo(Reached)'
      <3>1. PICK b : b = Reached
        OBVIOUS
      <3> QED
        BY <2>3, <2>4, <3>1 DEF WrittenTo
    <2>6. WrittenTo(Len(input)) => WrittenTo(Len(input))'
      <3>1. PICK b : b = Len(input)
        OBVIOUS
      <3> QED
        BY <2>3, <2>4, <3>1 DEF WrittenTo
    <2>7. Walking => Walking'
      BY <2>1, <2>2, <2>5 DEF Walking, Texts
    <2>8. Succeeded => Succeeded'
      BY <2>1, <2>2, <2>6 DEF Succeeded, Texts
    <2> QED
      BY <2>1, <2>2, <2>7, <2>8 DEF DInv
  <1>2. CASE Refuse \/ Tokenize \/ CompileFails \/ Codegen \/ Open
    BY <1>2, ShortSteps
  <1>3. CASE ParseFails
    BY <1>3, ParseFailsStep
  <1>4. CASE Parse
    BY <1>4, ParseStep
  <1>5. CASE ParseEnds
    BY <1>5, ParseEndsStep
  <1>6. CASE WalkNode
    BY <1>6, WalkNodeStep
  <1>7. CASE WalkEnds
    BY <1>7, WalkEndsStep
  <1>8. CASE RunAgain
    BY <1>8, RunAgainStep
  <1>9. Stop => UNCHANGED driverVars
    BY DEF Stop
  <1> QED
    BY <1>1, <1>2, <1>3, <1>4, <1>5, <1>6, <1>7, <1>8, <1>9 DEF DriverNext

LEMMA InitDInv ==
  ASSUME DriverInit
  PROVE  DInv
  <1>1. BuildInit /\ stage = "main" /\ at = 1 /\ out = <<>> /\ status = "none"
    BY DEF DriverInit
  <1>2. Started
    BY <1>1, InitStarted
  <1>3. TreeInv /\ AllRead
    BY <1>2, StartedTreeInv DEF Started, AllRead
  <1> QED
    BY <1>1, <1>3 DEF DInv

\* The invariant of the process: while it walks, what is written is the source up to where the
\* walk has come, and when it has ended with 0, it had come to the end.
LEMMA DriverInvariance == DriverSpec => []DInv
  BY InitDInv, StepDInv, PTL DEF DriverSpec

\* The process in the state in which a node has just been pushed.
LEMMA FreshTree ==
  ASSUME DInv, NEW action, Fresh(action)
  PROVE  /\ TreeInv /\ Depth \in Nat /\ Depth \in 1..Depth
         /\ stack[Depth].sym \in NonTerminals
  <1>1. TreeInv /\ Depth > 0 /\ stack[Depth].sym \in NonTerminals
    BY DEF Fresh, DInv
  <1>2. Depth \in Nat
    BY <1>1, Heap DEF TreeInv
  <1> QED
    BY <1>1, <1>2

LEMMA RebuiltTop ==
  ASSUME DInv, Rebuildable
  PROVE  NodesRebuilt
  <1> SUFFICES ASSUME Fresh("reconstruct"), Ending(Rebuilt) = "none", Spelled(Top.from, Top.to)
               PROVE  Same(Only(Tokens \ Parens, Rebuilt), Only(Tokens \ Parens, Source(Top.from, Top.to)))
    BY DEF NodesRebuilt
  <1>1. TreeInv /\ Depth \in 1..Depth
    BY FreshTree
  <1> QED
    BY <1>1, NodeWritten DEF Rebuilt, Top

LEMMA GivesUp ==
  ASSUME DInv
  PROVE  ReconstructionGivesUp
  <1> DEFINE a == stack[Depth].from
             b == stack[Depth].to
             s == Reconstruct(stack[Depth].sym, values[Depth])
  <1> SUFFICES ASSUME Fresh("reconstruct")
               PROVE  Ending(s) # "none" <=>
                        /\ stack[Depth].sym # "HEADER"
                        /\ NestedIn(a, b) \/ \E i \in a..b : TypeOf(i) = "STRING_LIT"
    BY DEF ReconstructionGivesUp, Rebuilt, Top
  <1>1. TreeInv /\ Depth \in 1..Depth /\ stack[Depth].sym \in NonTerminals
    BY FreshTree
  <1>2. CASE stack[Depth].sym = "HEADER"
    <2>1. s \in Seq(Pieces) /\ Fatal(s) = {}
      BY <1>1, <1>2, StackRebuilt
    <2> QED
      BY <1>2, <2>1, EndingOf
  <1>3. CASE stack[Depth].sym # "HEADER"
    <2>1. Rebuilds(s, a, b)
      BY <1>1, <1>3, StackRebuilt
    <2>2. s \in Seq(Pieces) /\ (Fatal(s) # {} <=> NestedIn(a, b) \/ StringIn(a, b))
      BY <2>1 DEF Rebuilds
    <2>3. Ending(s) = "none" <=> Fatal(s) = {}
      BY <2>2, EndingOf
    <2> QED
      BY <1>3, <2>2, <2>3 DEF StringIn
  <1> QED
    BY <1>2, <1>3

LEMMA CompleteText ==
  ASSUME DInv, Rebuildable
  PROVE  SuccessIsComplete
  <1> SUFFICES ASSUME status = "0" PROVE SuccessIsComplete
    BY DEF SuccessIsComplete
  <1>1. Succeeded
    BY DEF DInv
  <1> QED
    BY <1>1 DEF Succeeded, WrittenTo, SuccessIsComplete

-----------------------------------------------------------------------------
(* The reconstruction and the status of the process. *)

\* ast_util_reconstruct_ast_node writes a node as its own tokens in their order,
\* parentheses aside, in every input, however large: no operand is swapped,
\* dropped or taken from another node, and no list has lost or gained an
\* element.  The trees that are not Rebuildable are the ones that lalr.c leaves
\* incomplete: a parameter list that is only a type, stars behind anything but a
\* name.  The numbers of the node are such as the property asks for: decimal,
\* in the usual notation, and below 2^31, as lalr.c keeps them in an int.
THEOREM NodesAreRebuilt == DriverSpec => [](Rebuildable => NodesRebuilt)
  <1>1. DInv => (Rebuildable => NodesRebuilt)
    BY RebuiltTop
  <1> QED
    BY <1>1, DriverInvariance, PTL

\* The assertions of ast_reconstruct.c are met exactly where a node has a string
\* or a nested array type somewhere in it, whatever the input.
THEOREM GivesUpWhereItMust == DriverSpec => []ReconstructionGivesUp
  <1>1. DInv => ReconstructionGivesUp
    BY GivesUp
  <1> QED
    BY <1>1, DriverInvariance, PTL

\* A process of main.c that ends with 0 found the files its action works on, and
\* a reconstruction that ends with 0 wrote the whole program, in its first and
\* in its second run, when the numbers of the program are as above.
THEOREM CompleteOnSuccess == DriverSpec => [](Rebuildable => SuccessIsComplete)
  <1>1. DInv => (Rebuildable => SuccessIsComplete)
    BY CompleteText
  <1> QED
    BY <1>1, DriverInvariance, PTL

(***************************************************************************)
(* THIRD PART.  The display of trees.                                      *)
(***************************************************************************)

-----------------------------------------------------------------------------
(* The display of nodes. *)

\* The nodes before n are shown.
DisplayedBefore(t, n) == \A m \in 1..(n - 1) : Displays(t[m], tree[m].from, tree[m].to)

LEMMA PartDisplayed ==
  ASSUME NEW n, NEW t, DisplayedBefore(t, n), NEW v, NEW sym, NEW a, NEW b, Part(Store, n, v, sym, a, b)
  PROVE  Displays(t[v], a, b)
  BY DEF Part, Store, DisplayedBefore

LEMMA DisplaysThen ==
  ASSUME BInv, NEW s, NEW t, NEW a, NEW b, NEW c, NEW d,
         Displays(s, a, b), d = b + 1, Displays(t, d, c), b < a \/ ~CallAt(b)
  PROVE  Displays(s \o t, a, c)
  <1>1. a \in Nat /\ b \in Nat
    BY DEF Displays, Interval
  <1>2. a <= b /\ b < c => ~CallAt(b)
    BY <1>1
  <1> QED
    BY <1>2, DisplaysConcat

\* With nothing before or behind it.
LEMMA DisplaysBare ==
  ASSUME BInv, NEW s, NEW a, NEW b, NEW c, NEW d
  PROVE  /\ Displays(<<>>, a, b) /\ d = b + 1 /\ Displays(s, d, c) /\ ~CallAt(b) => Displays(s, a, c)
         /\ Displays(s, a, b) /\ d = b + 1 /\ Displays(<<>>, d, c) /\ ~CallAt(b) => Displays(s, a, c)
  <1>1. ASSUME Displays(<<>>, a, b), d = b + 1, Displays(s, d, c), ~CallAt(b) PROVE Displays(s, a, c)
    <2>1. Displays(<<>> \o s, a, c)
      BY <1>1, DisplaysThen
    <2>2. s \in Seq(Pieces)
      BY <1>1 DEF Displays
    <2>3. <<>> \o s = s
      BY <2>2
    <2> QED
      BY <2>1, <2>3
  <1>2. ASSUME Displays(s, a, b), d = b + 1, Displays(<<>>, d, c), ~CallAt(b) PROVE Displays(s, a, c)
    <2>1. Displays(s \o <<>>, a, c)
      BY <1>2, DisplaysThen
    <2>2. s \in Seq(Pieces)
      BY <1>2 DEF Displays
    <2>3. s \o <<>> = s
      BY <2>2
    <2> QED
      BY <2>1, <2>3
  <1> QED
    BY <1>1, <1>2

\* A list is shown when its elements are, by induction from its last cell.
LEMMA ListDisplayed ==
  ASSUME BInv, TreeFormed, CellsFormed, NEW n \in 1..(Len(tree) + 1), NEW sym \in ListKinds, NEW h, NEW a, NEW b,
         ListAt(Store, n, sym, h, a, b), NEW t, DisplayedBefore(t, n)
  PROVE  Displays(ShowList(t, sym, h), a, b)
  <1> DEFINE L == Len(cells)
             c == LastOf(cells)[h]
             last == LastOf(cells)
             w(p) == WalkList(t, p, <<>>)
             from(p) == tree[cells[p].item].from
             to(p) == tree[cells[p].item].to
             T == {k \in Nat : \A p \in 1..L : last[p] = c /\ L - p <= k => Displays(w(p), from(p), b)}
  <1>1. L \in Nat
    BY Heap
  <1>2. /\ h \in 1..L /\ c \in 1..L /\ last[c] = c /\ from(h) = a /\ to(c) = b
        /\ cells[c].next \notin 1..L
        /\ \A p \in 1..L : last[p] = c =>
              /\ cells[p].next \notin 1..L => p = c
              /\ cells[p].next \in 1..L => cells[p].next > p /\ last[cells[p].next] = c
    BY ListItems
  <1>3. ASSUME NEW p \in 1..L, last[p] = c
        PROVE  Displays(t[cells[p].item], from(p), to(p)) /\ Solid(from(p), to(p))
    <2>1. Part(Store, n, cells[p].item, Element(sym), from(p), to(p)) /\ Element(sym) # "HEADER"
      BY <1>3, ListItems, ElementKinds
    <2> QED
      BY <2>1, PartDisplayed, PartSolid
  <1>4. ASSUME NEW p \in 1..L, last[p] = c, cells[p].next \in 1..L
        PROVE  IF sym = "STATEMENT_LIST" THEN from(cells[p].next) = to(p) + 1
               ELSE TypeOf(to(p) + 1) = "COMMA" /\ from(cells[p].next) = to(p) + 2
    BY <1>4, ListItems
  <1>5. \A p \in 1..L :
          w(p) = t[cells[p].item] \o
                IF cells[p].next \in 1..L THEN <<>> \o w(cells[p].next)
                ELSE IF cells[p].next = NULL THEN <<>> ELSE Fault("UNWRITTEN", "next")
    BY WalkListDefined
  <1>6. ShowList(t, sym, h) = w(h)
    BY <1>2, <1>1 DEF ShowList, NULL
  <1> HIDE DEF L, c, last, w, from, to
  <1>7. ASSUME NEW p \in 1..L, last[p] = c, cells[p].next \notin 1..L
        PROVE  Displays(w(p), from(p), b)
    <2>1. p = c /\ to(p) = b
      BY <1>2, <1>7
    <2>2. Displays(t[cells[p].item], from(p), b) /\ Solid(from(p), b)
      BY <1>3, <1>7, <2>1
    <2>3. b \in Nat /\ Interval(b + 1, (b + 1) - 1) /\ (b + 1) - 1 = b
      BY <2>2, SolidInterval DEF Interval
    <2>4. CASE cells[p].next = NULL
      <3>1. w(p) = t[cells[p].item] \o <<>>
        BY <1>5, <1>7, <2>4
      <3>2. t[cells[p].item] \in Seq(Pieces)
        BY <2>2 DEF Displays
      <3>3. t[cells[p].item] \o <<>> = t[cells[p].item]
        BY <3>2
      <3> QED
        BY <2>2, <3>1, <3>3
    <2>5. CASE cells[p].next # NULL
      <3>1. w(p) = t[cells[p].item] \o Fault("UNWRITTEN", "next")
        BY <1>5, <1>7, <2>5
      <3>2. Displays(Fault("UNWRITTEN", "next"), b + 1, b)
        <4>1. "next" \in Places
          BY DEF Places
        <4>2. PICK e : e = b + 1
          OBVIOUS
        <4>3. Interval(e, b)
          BY <2>3, <4>2
        <4>4. Displays(Fault("UNWRITTEN", "next"), e, b)
          BY <4>1, <4>2, <4>3, DisplaysUnknown
        <4> QED
          BY <4>2, <4>4
      <3> QED
        BY <2>2, <2>3, <3>1, <3>2, DisplaysConcat
    <2> QED
      BY <2>4, <2>5
  <1>8. ASSUME NEW p \in 1..L, last[p] = c, cells[p].next \in 1..L,
               Displays(w(cells[p].next), from(cells[p].next), b)
        PROVE  Displays(w(p), from(p), b)
    <2> DEFINE q == cells[p].next
    <2>0. w(p) = t[cells[p].item] \o (<<>> \o w(q))
      BY <1>5, <1>8
    <2>1. Displays(t[cells[p].item], from(p), to(p)) /\ Solid(from(p), to(p))
      BY <1>3, <1>8
    <2>2. /\ to(p) \in Nat /\ to(p) <= Len(input) /\ Len(input) \in Nat /\ ~CallAt(to(p))
      BY <2>1, SolidInterval, InputTokens DEF Solid
    <2>3. Displays(w(q), from(q), b)
      BY <1>8
    <2>4. w(p) = t[cells[p].item] \o w(q)
      <3>1. w(q) \in Seq(Pieces)
        BY <2>3 DEF Displays
      <3>2. <<>> \o w(q) = w(q)
        BY <3>1
      <3> QED
        BY <2>0, <3>2
    <2>5. CASE sym = "STATEMENT_LIST"
      <3>1. from(q) = to(p) + 1
        BY <1>4, <1>8, <2>5
      <3> QED
        BY <2>1, <2>2, <2>3, <2>4, <3>1, DisplaysConcat
    <2>6. CASE sym # "STATEMENT_LIST"
      <3>1. TypeOf(to(p) + 1) = "COMMA" /\ from(q) = to(p) + 2
        BY <1>4, <1>8, <2>6
      <3>2. PICK i : i = to(p) + 1
        OBVIOUS
      <3>3. from(q) = i + 1 /\ i \in 1..Len(input)
        <4>1. from(q) <= b + 1 /\ b <= Len(input) /\ b \in Nat
          BY <2>3 DEF Displays, Interval
        <4> QED
          BY <2>2, <3>1, <3>2, <4>1 DEF TypeOf
      <3>4. "COMMA" \notin Names \cup {"HEX_LIT"} /\ "COMMA" \notin IdTokens
        BY DEF Names, IdTokens
      <3>5. Displays(<<>>, i, i) /\ ~CallAt(i)
        BY <3>1, <3>2, <3>3, <3>4, DisplaysToken DEF CallAt
      <3>6. Displays(w(q), i, b)
        BY <2>3, <3>3, <3>5, DisplaysBare
      <3> QED
        BY <2>1, <2>2, <2>4, <3>2, <3>6, DisplaysConcat
    <2> QED
      BY <2>5, <2>6
  <1>9. 0 \in T
    <2>1. ASSUME NEW p \in 1..L, last[p] = c, L - p <= 0 PROVE Displays(w(p), from(p), b)
      <3>1. cells[p].next \notin 1..L
        BY <1>1, <1>2, <2>1
      <3> QED
        BY <1>7, <2>1, <3>1
    <2> QED
      BY <2>1
  <1>10. ASSUME NEW k \in T, k \in Nat PROVE k + 1 \in T
    <2>0. \A p \in 1..L : last[p] = c /\ L - p <= k => Displays(w(p), from(p), b)
      BY <1>10
    <2> HIDE DEF T
    <2>1. ASSUME NEW p \in 1..L, last[p] = c, L - p <= k + 1 PROVE Displays(w(p), from(p), b)
      <3>1. CASE cells[p].next \in 1..L
        <4>1. cells[p].next > p /\ last[cells[p].next] = c
          BY <1>2, <2>1, <3>1
        <4>2. L - cells[p].next <= k
          BY <1>1, <1>10, <2>1, <3>1, <4>1
        <4>3. Displays(w(cells[p].next), from(cells[p].next), b)
          BY <2>0, <3>1, <4>1, <4>2
        <4> QED
          BY <1>8, <2>1, <3>1, <4>3
      <3>2. CASE cells[p].next \notin 1..L
        BY <1>7, <2>1, <3>2
      <3> QED
        BY <3>1, <3>2
    <2> QED
      BY <1>10, <2>1 DEF T
  <1>11. Nat \subseteq T
    <2> HIDE DEF T
    <2> QED
      BY <1>9, <1>10, Induction
  <1>12. last[h] = c /\ L - h \in Nat
    <2>1. last[h] = c
      BY DEF last, c
    <2> QED
      BY <1>1, <1>2, <2>1
  <1>13. Displays(w(h), from(h), b)
    BY <1>2, <1>11, <1>12
  <1> QED
    BY <1>2, <1>6, <1>13

\* A part of a node, and what is shown for it.
LEMMA PartShown ==
  ASSUME BInv, TreeFormed, NEW n \in 1..Len(tree), NEW t, DisplayedBefore(t, n), NEW v, NEW sym, NEW a, NEW b,
         Part(Store, n, v, sym, a, b), sym # "HEADER"
  PROVE  /\ Displays(t[v], a, b)
         /\ a \in Nat /\ b \in Nat /\ 1 <= a /\ a <= b /\ b <= Len(input) /\ ~CallAt(b)
         /\ sym \in ExprKinds => TypeOf(a) \notin {"LBRK", "RP"}
  BY PartDisplayed, PartSolid, SolidInterval DEF Solid

LEMMA ListShown ==
  ASSUME BInv, TreeFormed, CellsFormed, NEW n \in 1..Len(tree), NEW t, DisplayedBefore(t, n),
         NEW sym \in ListKinds, NEW h, NEW a, NEW b, Held(Store, n, sym, h, a, b)
  PROVE  /\ Displays(ShowList(t, sym, h), a, b)
         /\ a \in Nat /\ b \in Nat /\ b <= Len(input) /\ ~CallAt(b) /\ h # NULL
         /\ sym = "EXPRESSION_LIST" => TypeOf(a) \notin {"LBRK", "RP"}
  <1>1. ListAt(Store, n, sym, h, a, b)
    BY DEF Held
  <1>2. Len(input) \in Nat
    BY InputTokens
  <1>3. n \in 1..(Len(tree) + 1)
    BY Heap
  <1>4. h # NULL
    BY <1>1, <1>3, ListItems DEF NULL
  <1>5. Displays(ShowList(t, sym, h), a, b)
    BY <1>1, <1>3, ListDisplayed
  <1>6. a \in Nat /\ b \in 1..Len(input) /\ ~CallAt(b) /\ (sym = "EXPRESSION_LIST" => TypeOf(a) \notin {"LBRK", "RP"})
    BY <1>1, <1>3, ListSolid
  <1> QED
    BY <1>2, <1>4, <1>5, <1>6

LEMMA IdShown ==
  ASSUME BInv, NEW v, NEW a, Leaf(Store, v, IdTokens, a)
  PROVE  /\ Displays(Text(v), a, a) /\ a \in Nat /\ a \in 1..Len(input) /\ TypeOf(a) \in IdTokens
         /\ TypeOf(a + 1) # "LP" => ~CallAt(a)
  <1>1. "EOF" \notin IdTokens /\ "DECIMAL_LIT" \notin IdTokens /\ "HEX_LIT" \notin IdTokens /\ "LP" \notin IdTokens
    BY DEF IdTokens
  <1>2. v = a /\ a \in Nat /\ a \in 1..Len(input) /\ TypeOf(a) \in IdTokens
    BY <1>1, LeafOf
  <1>3. Displays(Text(a), a, a)
    BY <1>1, <1>2, DisplaysText
  <1> QED
    BY <1>1, <1>2, <1>3 DEF CallAt

\* A token that is not shown, other than an opening parenthesis.
Plain == Tokens \ (Names \cup IdTokens \cup {"HEX_LIT", "LP"})

LEMMA PlainShown ==
  ASSUME BInv, NEW sym \in Plain, NEW a, Kind(Store, a) = sym
  PROVE  Displays(<<>>, a, a) /\ a \in Nat /\ a \in 1..Len(input) /\ TypeOf(a) = sym /\ ~CallAt(a)
  <1>1. sym # "EOF"
    BY DEF Plain, Tokens, IdTokens, Relops, Mulops, Addops
  <1>2. a \in 1..Len(input) /\ a \in Nat /\ TypeOf(a) = sym
    BY <1>1, TokenOf
  <1>3. sym \notin Names \cup {"HEX_LIT"} /\ sym \notin IdTokens /\ sym # "LP"
    BY DEF Plain
  <1>4. Displays(<<>>, a, a)
    BY <1>2, <1>3, DisplaysToken
  <1> QED
    BY <1>2, <1>3, <1>4 DEF CallAt

LEMMA PlainTokens ==
  /\ {"LBRK", "RBRK", "SEMI", "COLON", "ARROW", "LBRC", "RBRC", "EQ", "RP", "UNDERSCORE", "MUL"} \subseteq Plain
  /\ OperatorTokens \subseteq Plain
  BY DEF Plain, Tokens, Names, IdTokens, OperatorTokens, Relops, Mulops, Addops

\* Fields nobody wrote, at no token.
LEMMA UnwrittenShown ==
  ASSUME BInv, NEW sym \in Operators, NEW a, NEW b, Interval(a, b), a = b + 1
  PROVE  Displays(ShowUnwritten(sym), a, b)
  <1>1. "disj" \in Places /\ "op" \in Places /\ "left" \in Places
    BY DEF Places
  <1>2. \A where \in Places : Displays(Fault("UNWRITTEN", where), a, b)
    BY DisplaysUnknown
  <1>3. CASE sym = "LOGIC_DISJ"
    BY <1>1, <1>2, <1>3 DEF ShowUnwritten
  <1>4. CASE sym = "TERM"
    BY <1>1, <1>2, <1>4 DEF ShowUnwritten
  <1>5. CASE sym = "MATH_EXPR"
    <2>1. Displays(Fault("UNWRITTEN", "op"), a, b) /\ Displays(Fault("UNWRITTEN", "left"), a, b) /\ b < a
      BY <1>1, <1>2 DEF Interval
    <2>2. Displays(Fault("UNWRITTEN", "op") \o Fault("UNWRITTEN", "left"), a, b)
      BY <2>1, DisplaysThen
    <2> QED
      BY <1>5, <2>2 DEF ShowUnwritten
  <1>6. CASE sym \notin {"LOGIC_DISJ", "TERM", "MATH_EXPR"}
    <2>1. ShowUnwritten(sym) = <<>>
      BY <1>6 DEF ShowUnwritten
    <2>2. a \in Nat /\ b = a - 1 /\ a..b = {}
      BY DEF Interval
    <2>3. ~CallIn(a, b)
      BY <2>2, SmallIntervals
    <2>4. \A k \in 1..Len(<<>>) : FALSE
      OBVIOUS
    <2> QED
      BY <2>1, <2>2, <2>3, <2>4, DisplaysNothing, NoPieces
  <1> QED
    BY <1>3, <1>4, <1>5, <1>6

LEMMA OperatorShown ==
  ASSUME BInv, TreeFormed, NEW n \in 1..Len(tree), NEW t, DisplayedBefore(t, n),
         NEW sym \in Operators, NEW v, NEW a, NEW b, FormedOperator(Store, n, sym, v, a, b)
  PROVE  Displays((IF v.binary THEN t[v.left] ELSE ShowUnwritten(sym)) \o t[v.right], a, b)
  <1>0. sym # "HEADER" /\ Operand(sym) # "HEADER"
    BY DEF Operators, Operand
  <1>1. CASE v.binary = FALSE /\ Part(Store, n, v.right, Operand(sym), a, b)
    <2> DEFINE e == a - 1
    <2>1. Displays(t[v.right], a, b) /\ a \in Nat /\ 1 <= a /\ a <= b /\ b <= Len(input) /\ b \in Nat
      BY <1>0, <1>1, PartShown
    <2>2. Interval(a, e) /\ a = e + 1 /\ e < a
      BY <2>1, InputTokens DEF Interval
    <2> HIDE DEF e
    <2>3. Displays(ShowUnwritten(sym), a, e)
      BY <2>2, UnwrittenShown
    <2>4. Displays(ShowUnwritten(sym) \o t[v.right], a, b)
      BY <2>1, <2>2, <2>3, DisplaysThen
    <2> QED
      BY <1>1, <2>4
  <1>2. CASE /\ v.binary = TRUE
             /\ Part(Store, n, v.left, sym, a, v.op - 1)
             /\ Leaf(Store, v.op, OperatorTokens, v.op)
             /\ Part(Store, n, v.right, Operand(sym), v.op + 1, b)
    <2> DEFINE op == v.op
               l == op - 1
               r == op + 1
    <2>1. Kind(Store, op) \in Plain
      BY <1>2, PlainTokens DEF Leaf
    <2>2. Displays(<<>>, op, op) /\ op \in Nat /\ ~CallAt(op)
      BY <2>1, PlainShown
    <2>3. Displays(t[v.left], a, l) /\ ~CallAt(l)
      BY <1>0, <1>2, PartShown
    <2>4. Displays(t[v.right], r, b)
      BY <1>0, <1>2, PartShown
    <2>5. op = l + 1 /\ r = op + 1
      BY <2>2
    <2> HIDE DEF op, l, r
    <2>6. Displays(t[v.right], op, b)
      BY <2>2, <2>4, <2>5, DisplaysBare
    <2>7. Displays(t[v.left] \o t[v.right], a, b)
      BY <2>3, <2>5, <2>6, DisplaysThen
    <2> QED
      BY <1>2, <2>7
  <1> QED
    BY <1>1, <1>2 DEF FormedOperator

LEMMA FactorShown ==
  ASSUME BInv, TreeFormed, NEW n \in 1..Len(tree), NEW t, DisplayedBefore(t, n),
         NEW v, NEW a, NEW b, FormedFactor(Store, n, v, a, b)
  PROVE  Displays(IF v.type \in {"ID", "STR"} THEN Text(v.is) ELSE t[v.is], a, b)
  <1>1. ASSUME NEW sym, sym \in {"ID", "STRING_LIT"}, Leaf(Store, v.is, {sym}, a) PROVE Displays(Text(v.is), a, a)
    <2>1. sym # "EOF" /\ sym \notin {"DECIMAL_LIT", "HEX_LIT"}
      BY <1>1
    <2>2. v.is = a /\ a \in 1..Len(input) /\ TypeOf(a) = sym
      BY <1>1, <2>1, LeafOf
    <2> QED
      BY <2>1, <2>2, DisplaysText
  <1>2. CASE v.type = "ID" /\ a = b /\ Leaf(Store, v.is, {"ID"}, a)
    BY <1>1, <1>2
  <1>3. CASE v.type = "STR" /\ a = b /\ Leaf(Store, v.is, {"STRING_LIT"}, a)
    BY <1>1, <1>3
  <1>4. CASE v.type = "EXPR" /\ Kind(Store, a) = "LP" /\ Part(Store, n, v.is, "EXPRESSION", a + 1, b - 1) /\ Kind(Store, b) = "RP"
    <2> DEFINE c == a + 1
               e == b - 1
    <2>1. Displays(t[v.is], c, e) /\ ~CallAt(e) /\ TypeOf(c) \notin {"LBRK", "RP"}
      BY <1>4, PartShown DEF ExprKinds
    <2>2. a \in 1..Len(input) /\ a \in Nat /\ TypeOf(a) = "LP"
      BY <1>4, TokenOf
    <2>3. Displays(<<>>, b, b) /\ b \in Nat
      BY <1>4, PlainTokens, PlainShown
    <2>4. c = a + 1 /\ b = e + 1
      BY <2>2, <2>3
    <2>5. Displays(<<>>, a, a) /\ ~CallAt(a)
      <3>1. "LP" \notin Names \cup {"HEX_LIT"} /\ "LP" \notin IdTokens
        BY DEF Names, IdTokens
      <3>2. Displays(<<>>, a, a)
        BY <2>2, <3>1, DisplaysToken
      <3> QED
        BY <2>1, <2>2, <3>1, <3>2 DEF CallAt
    <2> HIDE DEF c, e
    <2>6. Displays(t[v.is], a, e)
      BY <2>1, <2>4, <2>5, DisplaysBare
    <2>7. Displays(t[v.is], a, b)
      BY <2>1, <2>3, <2>4, <2>6, DisplaysBare
    <2> QED
      BY <1>4, <2>7
  <1>5. CASE v.type = "NUMBER" /\ Part(Store, n, v.is, "NUMBER", a, b)
    BY <1>5, PartShown
  <1>6. CASE v.type = "FUNC_CALL" /\ Part(Store, n, v.is, "FUNC_CALL", a, b)
    BY <1>6, PartShown
  <1>7. CASE v.type = "DEREF" /\ Part(Store, n, v.is, "DEREF", a, b)
    BY <1>7, PartShown
  <1> QED
    BY <1>2, <1>3, <1>4, <1>5, <1>6, <1>7 DEF FormedFactor

LEMMA NumberShown ==
  ASSUME BInv, literals \in Spellings(input), NEW v, NEW a, NEW b, FormedNumber(Store, v, a, b)
  PROVE  Displays(Decimal(v, a), a, b)
  <1>1. a = b /\ a \in 1..Len(input) /\ a \in Nat
    BY DecimalIs
  <1>2. CASE TypeOf(a) = "DECIMAL_LIT" /\ Kept(a) /\ Decimal(v, a) = <<TokenPiece(a)>>
    <2>1. TokenPiece(a) \in Pieces /\ TokenPiece(a).sym = TypeOf(a) /\ TokenPiece(a).at = a
      BY <1>1, InputTokens, PieceOfToken
    <2>2. TypeOf(a) \in Tokens /\ TypeOf(a) \in Names
      BY <1>2 DEF Tokens, Names
    <2>3. ~Changed(TokenPiece(a))
      BY <1>2, <2>1 DEF Changed
    <2>4. Displays(<<TokenPiece(a)>>, a, a)
      BY <1>1, <2>1, <2>2, <2>3, DisplaysOne
    <2> QED
      BY <1>1, <1>2, <2>4
  <1>3. CASE /\ TypeOf(a) = "HEX_LIT" \/ (TypeOf(a) = "DECIMAL_LIT" /\ ~Kept(a))
             /\ Decimal(v, a) \in {Lit("DECIMAL_LIT"), Lit("MINUS") \o Lit("DECIMAL_LIT")}
    <2> DEFINE x == Piece("DECIMAL_LIT", NULL)
    <2>1. TokenPiece(a).sym = TypeOf(a) /\ TokenPiece(a).at = a
      BY <1>1, InputTokens, PieceOfToken
    <2>2. Changed(TokenPiece(a))
      BY <1>3, <2>1 DEF Changed
    <2>3. x \in Pieces /\ x.sym \in Tokens /\ x.sym \in Names /\ x.at = NULL
      BY DEF Piece, Pieces, Tokens, Names, NULL
    <2>4. TypeOf(a) \in Names \cup {"HEX_LIT"}
      BY <1>3 DEF Names
    <2> HIDE DEF x
    <2>5. Displays(<<x>>, a, a)
      BY <1>1, <2>2, <2>3, <2>4, DisplaysOne
    <2>6. Displays(Lit("DECIMAL_LIT"), a, a)
      BY <2>5 DEF Lit, x
    <2>7. PICK e : e = a - 1
      OBVIOUS
    <2>8. Interval(a, e) /\ a = e + 1 /\ ~CallIn(a, e) /\ a..e = {}
      BY <1>1, <2>7, InputTokens, SmallIntervals DEF Interval
    <2>9. Displays(Lit("MINUS"), a, e)
      <3>1. Lit("MINUS") \in Seq(Pieces) /\ Len(Lit("MINUS")) = 1 /\ Lit("MINUS")[1].sym = "MINUS"
        BY SignAndDigits DEF Lit, Piece
      <3>2. "MINUS" \notin Names \cup Ends
        BY DEF Names, Ends
      <3>3. \A i \in 1..Len(Lit("MINUS")) : Lit("MINUS")[i].sym \notin Names \cup Ends
        <4>1. \A i \in 1..1 : i = 1
          OBVIOUS
        <4> QED
          BY <3>1, <3>2, <4>1, Zenon
      <3> QED
        BY <2>8, <3>1, <3>3, DisplaysNothing
    <2>10. Displays(Lit("MINUS") \o Lit("DECIMAL_LIT"), a, a)
      <3>1. Displays(Lit("DECIMAL_LIT"), e + 1, a)
        BY <2>6, <2>8
      <3>2. CallIn(a, a) <=> CallIn(a, e) \/ CallIn(e + 1, a)
        BY <2>8
      <3> QED
        BY <2>9, <3>1, <3>2, DisplaysJoin
    <2> QED
      BY <1>1, <1>3, <2>6, <2>10
  <1> QED
    BY <1>2, <1>3, DecimalIs

\* Two tokens are no call.
LEMMA PairShown ==
  ASSUME BInv, NEW s, NEW t, NEW a, NEW b, b = a + 1, Displays(s, a, a), Displays(t, b, b)
  PROVE  Displays(s \o t, a, b)
  <1>1. a \in Nat /\ b \in Nat
    BY DEF Displays, Interval
  <1>2. a..(b - 2) = {} /\ a..(a - 2) = {} /\ b..(b - 2) = {}
    BY <1>1
  <1>3. CallIn(a, b) <=> CallIn(a, a) \/ CallIn(a + 1, b)
    BY <1>2 DEF CallIn
  <1> QED
    BY <1>3, DisplaysJoin

LEMMA HeaderShown ==
  ASSUME BInv, NEW v, NEW a, NEW b, b = a + 1, Kind(Store, a) = "MODULE", Leaf(Store, v, Tokens \ {"DECIMAL_LIT", "HEX_LIT"}, b)
  PROVE  Displays(Text(v), a, b)
  <1>1. "EOF" \notin Tokens \ {"DECIMAL_LIT", "HEX_LIT"}
    BY DEF Tokens, IdTokens, Relops, Mulops, Addops
  <1>2. v = b /\ b \in 1..Len(input) /\ TypeOf(b) \notin {"DECIMAL_LIT", "HEX_LIT"}
    BY <1>1, LeafOf
  <1>3. a \in 1..Len(input) /\ TypeOf(a) = "MODULE"
    BY TokenOf
  <1>4. Displays(Text(v), b, b)
    BY <1>2, DisplaysText
  <1>5. Displays(<<>>, a, a)
    <2>1. "MODULE" \notin Names \cup {"HEX_LIT"}
      BY DEF Names
    <2> QED
      BY <1>3, <2>1, DisplaysToken
  <1>6. Displays(<<>> \o Text(v), a, b)
    BY <1>4, <1>5, PairShown
  <1>7. Text(v) \in Seq(Pieces)
    BY <1>4 DEF Displays
  <1>8. <<>> \o Text(v) = Text(v)
    BY <1>7
  <1> QED
    BY <1>6, <1>8

\* Stars are not shown.
LEMMA StarsShown ==
  ASSUME BInv, NEW s, NEW a, NEW e, NEW b, Displays(s, a, e), e <= b, b \in Nat, b <= Len(input),
         \A i \in (e + 1)..b : TypeOf(i) = "MUL"
  PROVE  Displays(s, a, b)
  <1>1. CASE e = b
    BY <1>1
  <1>2. CASE e # b
    <2> DEFINE d == e + 1
    <2>1. e \in Nat /\ d = e + 1 /\ Interval(d, b) /\ d \in d..b
      BY <1>2 DEF Displays, Interval
    <2>2. "MUL" \notin Names \cup {"HEX_LIT"} /\ "MUL" \notin IdTokens
      BY DEF Names, IdTokens
    <2>3. \A i \in d..b : TypeOf(i) = "MUL"
      OBVIOUS
    <2> HIDE DEF d
    <2>4. ~CallIn(d, b)
      <3>1. \A i \in d..(b - 2) : i \in d..b
        BY <2>1
      <3> QED
        BY <2>2, <2>3, <3>1 DEF CallIn
    <2>5. Displays(<<>>, d, b)
      <3>1. \A k \in 1..Len(<<>>) : FALSE
        OBVIOUS
      <3> QED
        BY <2>1, <2>2, <2>3, <2>4, <3>1, DisplaysNothing, NoPieces
    <2>6. ~CallAt(e)
      BY <2>1, <2>3 DEF CallAt
    <2> QED
      BY <2>1, <2>5, <2>6, DisplaysBare
  <1> QED
    BY <1>1, <1>2

LEMMA TypeShown ==
  ASSUME BInv, TreeFormed, CellsFormed, NEW n \in 1..Len(tree), NEW t, DisplayedBefore(t, n), NEW v,
         NEW a, NEW b, FormedType(Store, n, v, a, b), Interval(a, b)
  PROVE  Displays(ShowType(t, v), a, b)
  <1> DEFINE d == v.pointerDepth
             e == b - d
  <1>1. /\ d \in Nat /\ \A i \in (e + 1)..b : TypeOf(i) = "MUL"
        /\ \/ v.type = "ID" /\ a = e /\ Leaf(Store, v.id, IdTokens, a)
           \/ v.type = "NONE" /\ a = e /\ Kind(Store, a) = "UNDERSCORE"
           \/ /\ v.type = "ARRAY" /\ Kind(Store, a) = "LBRK" /\ Leaf(Store, v.id, IdTokens, a + 1) /\ Kind(Store, a + 2) = "SEMI"
              /\ Held(Store, n, "EXPRESSION_LIST", v.exprList, a + 3, e - 1) /\ Kind(Store, e) = "RBRK"
           \/ v.type = "NESTED" /\ Kind(Store, a) = "LBRK" /\ Kind(Store, a + 1) = "LBRK" /\ a < e
    <2>1. \A i : Kind(Store, i) = TypeOf(i)
      BY StoreKind
    <2> QED
      BY <2>1 DEF FormedType
  <1>2. a \in Nat /\ 1 <= a /\ b \in Nat /\ b <= Len(input) /\ Len(input) \in Nat
    BY InputTokens DEF Interval
  <1>d. d \in Nat
    BY <1>1
  <1>e. e = b - d
    OBVIOUS
  <1>4. e \in Int /\ e <= b
    <2> HIDE DEF d, e
    <2> QED
      BY <1>2, <1>d, <1>e
  <1>5. CASE v.type = "ID" /\ a = e /\ Leaf(Store, v.id, IdTokens, a)
    <2> HIDE DEF d, e
    <2>1. Displays(Text(v.id), a, e)
      BY <1>5, IdShown
    <2>2. Displays(Text(v.id), a, b)
      BY <1>1, <1>2, <1>4, <2>1, StarsShown
    <2> QED
      BY <1>5, <2>2 DEF ShowType
  <1>6. CASE v.type = "NONE" /\ a = e /\ Kind(Store, a) = "UNDERSCORE"
    <2> HIDE DEF d, e
    <2>1. Displays(<<>>, a, e)
      BY <1>6, PlainTokens, PlainShown
    <2>2. Displays(<<>>, a, b)
      BY <1>1, <1>2, <1>4, <2>1, StarsShown
    <2> QED
      BY <1>6, <2>2 DEF ShowType
  <1>7. CASE /\ v.type = "ARRAY" /\ Kind(Store, a) = "LBRK" /\ Leaf(Store, v.id, IdTokens, a + 1) /\ Kind(Store, a + 2) = "SEMI"
             /\ Held(Store, n, "EXPRESSION_LIST", v.exprList, a + 3, e - 1) /\ Kind(Store, e) = "RBRK"
    <2> DEFINE i1 == a + 1
               i2 == a + 2
               i3 == a + 3
               l == e - 1
               list == ShowList(t, "EXPRESSION_LIST", v.exprList)
    <2>1. i1 = a + 1 /\ i2 = i1 + 1 /\ i3 = i2 + 1 /\ e = l + 1
      BY <1>2, <1>4
    <2>2. Displays(<<>>, a, a) /\ ~CallAt(a)
      BY <1>7, PlainTokens, PlainShown
    <2>3. Displays(<<>>, i2, i2) /\ ~CallAt(i2) /\ TypeOf(i2) = "SEMI"
      BY <1>7, PlainTokens, PlainShown
    <2>4. Displays(Text(v.id), i1, i1) /\ (TypeOf(i1 + 1) # "LP" => ~CallAt(i1))
      BY <1>7, IdShown
    <2>5. Displays(list, i3, l) /\ ~CallAt(l)
      BY <1>7, ListShown DEF ListKinds
    <2>6. Displays(<<>>, e, e)
      BY <1>7, PlainTokens, PlainShown
    <2> HIDE DEF i1, i2, i3, l, list, d, e
    <2>7. ~CallAt(i1)
      BY <2>1, <2>3, <2>4
    <2>8. Displays(Text(v.id), a, i1)
      BY <2>1, <2>2, <2>4, DisplaysBare
    <2>9. Displays(Text(v.id), a, i2)
      BY <2>1, <2>3, <2>7, <2>8, DisplaysBare
    <2>10. Displays(Text(v.id) \o list, a, l)
      BY <2>1, <2>3, <2>5, <2>9, DisplaysThen
    <2>11. Displays(Text(v.id) \o list, a, e)
      BY <2>1, <2>5, <2>6, <2>10, DisplaysBare
    <2>12. Displays(Text(v.id) \o list, a, b)
      BY <1>1, <1>2, <1>4, <2>11, StarsShown
    <2> QED
      BY <1>7, <2>12 DEF ShowType, list
  <1>8. CASE v.type = "NESTED" /\ Kind(Store, a) = "LBRK" /\ Kind(Store, a + 1) = "LBRK" /\ a < e
    <2>1. TypeOf(a) = "LBRK" /\ TypeOf(a + 1) = "LBRK"
      BY <1>8, TokenOf
    <2>2. a \in a..(b - 1)
      BY <1>2, <1>4, <1>8
    <2>3. NestedIn(a, b)
      BY <2>1, <2>2 DEF NestedIn
    <2>4. "nested" \in Places
      BY DEF Places
    <2>5. Displays(Fault("UNWRITTEN", "nested"), a, b)
      BY <2>3, <2>4, DisplaysNested
    <2> QED
      BY <1>8, <2>5 DEF ShowType
  <1> QED
    BY <1>1, <1>5, <1>6, <1>7, <1>8

LEMMA TypedIdShown ==
  ASSUME BInv, TreeFormed, NEW n \in 1..Len(tree), NEW t, DisplayedBefore(t, n), NEW v,
         NEW a, NEW b, FormedTypedId(Store, n, v, a, b)
  PROVE  Displays(Text(v.id) \o t[v.type], a, b)
  <1>1. CASE v.id = Unwritten /\ Part(Store, n, v.type, "VAR_TYPE", a, b)
    <2> DEFINE e == a - 1
    <2>1. Displays(t[v.type], a, b) /\ a \in Nat /\ 1 <= a /\ a <= b /\ b <= Len(input) /\ b \in Nat
      BY <1>1, PartShown
    <2>2. Interval(a, e) /\ a = e + 1 /\ e < a
      BY <2>1, InputTokens DEF Interval
    <2> HIDE DEF e
    <2>3. Displays(Fault("UNWRITTEN", "TypedId.id"), a, e)
      <3>1. "TypedId.id" \in Places
        BY DEF Places
      <3> QED
        BY <2>2, <3>1, DisplaysUnknown
    <2>4. Displays(Fault("UNWRITTEN", "TypedId.id") \o t[v.type], a, b)
      BY <2>1, <2>2, <2>3, DisplaysThen
    <2>5. Text(v.id) = Fault("UNWRITTEN", "TypedId.id")
      BY <1>1 DEF Text
    <2> QED
      BY <2>4, <2>5
  <1>2. CASE Leaf(Store, v.id, IdTokens, a) /\ Kind(Store, a + 1) = "COLON" /\ Part(Store, n, v.type, "VAR_TYPE", a + 2, b)
    <2> DEFINE i1 == a + 1
               i2 == a + 2
    <2>1. Displays(Text(v.id), a, a) /\ a \in Nat /\ (TypeOf(i1) # "LP" => ~CallAt(a))
      BY <1>2, IdShown
    <2>2. Displays(<<>>, i1, i1) /\ ~CallAt(i1) /\ TypeOf(i1) = "COLON"
      BY <1>2, PlainTokens, PlainShown
    <2>3. Displays(t[v.type], i2, b)
      BY <1>2, PartShown
    <2>4. i1 = a + 1 /\ i2 = i1 + 1
      BY <2>1
    <2> HIDE DEF i1, i2
    <2>5. Displays(Text(v.id), a, i1)
      BY <2>1, <2>2, <2>4, DisplaysBare
    <2> QED
      BY <2>2, <2>3, <2>4, <2>5, DisplaysThen
  <1> QED
    BY <1>1, <1>2 DEF FormedTypedId

LEMMA DerefShown ==
  ASSUME BInv, TreeFormed, CellsFormed, NEW n \in 1..Len(tree), NEW t, DisplayedBefore(t, n), NEW v,
         NEW a, NEW b, FormedDeref(Store, n, v, a, b)
  PROVE  Displays(Text(v.id) \o ShowList(t, "EXPRESSION_LIST", v.exprList), a, b)
  <1> DEFINE i1 == a + 1
             i2 == a + 2
             l == b - 1
             list == ShowList(t, "EXPRESSION_LIST", v.exprList)
  <1>1. Leaf(Store, v.id, IdTokens, a) /\ Kind(Store, i1) = "LBRK"
        /\ Held(Store, n, "EXPRESSION_LIST", v.exprList, i2, l) /\ Kind(Store, b) = "RBRK"
    BY DEF FormedDeref
  <1>2. Displays(Text(v.id), a, a) /\ a \in Nat /\ (TypeOf(i1) # "LP" => ~CallAt(a))
    BY <1>1, IdShown
  <1>3. Displays(<<>>, i1, i1) /\ ~CallAt(i1) /\ TypeOf(i1) = "LBRK"
    BY <1>1, PlainTokens, PlainShown
  <1>4. Displays(list, i2, l) /\ ~CallAt(l)
    BY <1>1, ListShown DEF ListKinds
  <1>5. Displays(<<>>, b, b) /\ b \in Nat
    BY <1>1, PlainTokens, PlainShown
  <1>6. i1 = a + 1 /\ i2 = i1 + 1 /\ b = l + 1
    BY <1>2, <1>5
  <1> HIDE DEF i1, i2, l, list
  <1>7. Displays(Text(v.id), a, i1)
    BY <1>2, <1>3, <1>6, DisplaysBare
  <1>8. Displays(Text(v.id) \o list, a, l)
    BY <1>3, <1>4, <1>6, <1>7, DisplaysThen
  <1>9. Displays(Text(v.id) \o list, a, b)
    BY <1>4, <1>5, <1>6, <1>8, DisplaysBare
  <1> QED
    BY <1>9 DEF list

LEMMA CallShown ==
  ASSUME BInv, TreeFormed, CellsFormed, NEW n \in 1..Len(tree), NEW t, DisplayedBefore(t, n), NEW v,
         NEW a, NEW b, FormedCall(Store, n, v, a, b), Interval(a, b)
  PROVE  Displays(Text(v.id) \o ShowList(t, "EXPRESSION_LIST", v.exprList), a, b)
  <1> DEFINE i1 == a + 1
             i2 == a + 2
             l == b - 1
             list == ShowList(t, "EXPRESSION_LIST", v.exprList)
  <1>1. /\ Leaf(Store, v.id, IdTokens, a) /\ Kind(Store, i1) = "LP" /\ Kind(Store, b) = "RP"
        /\ \/ v.exprList = NULL /\ b = i2
           \/ Held(Store, n, "EXPRESSION_LIST", v.exprList, i2, l)
    BY DEF FormedCall
  <1>2. Displays(Text(v.id), a, a) /\ a \in Nat /\ TypeOf(a) \in IdTokens /\ v.id = a
    BY <1>1, IdShown DEF Leaf
  <1>3. i1 \in 1..Len(input) /\ TypeOf(i1) = "LP"
    BY <1>1, TokenOf
  <1>4. Displays(<<>>, b, b) /\ b \in Nat /\ TypeOf(b) = "RP"
    BY <1>1, PlainTokens, PlainShown
  <1>5. CASE v.exprList = NULL /\ b = i2
    <2>1. "EXPRESSION_LIST" \in Places
      BY DEF Places, ListKinds
    <2>2. Displays(Text(a) \o Fault("CRASH", "EXPRESSION_LIST"), a, a + 2)
      BY <1>2, <1>3, <1>4, <1>5, <2>1, DisplaysCrash
    <2>3. list = Fault("CRASH", "EXPRESSION_LIST")
      BY <1>5 DEF ShowList
    <2> QED
      BY <1>2, <1>5, <2>2, <2>3
  <1>6. CASE Held(Store, n, "EXPRESSION_LIST", v.exprList, i2, l)
    <2>1. Displays(list, i2, l) /\ ~CallAt(l) /\ TypeOf(i2) \notin {"LBRK", "RP"}
      BY <1>6, ListShown DEF ListKinds
    <2>2. i1 = a + 1 /\ i2 = i1 + 1 /\ b = l + 1
      BY <1>2, <1>4
    <2>3. "LP" \notin Names \cup {"HEX_LIT"} /\ "LP" \notin IdTokens
      BY DEF Names, IdTokens
    <2> HIDE DEF i1, i2, l, list
    <2>4. Displays(<<>>, i1, i1) /\ ~CallAt(i1)
      BY <1>3, <2>1, <2>2, <2>3, DisplaysToken DEF CallAt
    <2>5. Displays(Text(v.id) \o <<>>, a, i1)
      BY <1>2, <2>2, <2>4, PairShown
    <2>6. Displays(Text(v.id), a, i1)
      <3>1. Text(v.id) \in Seq(Pieces)
        BY <1>2 DEF Displays
      <3>2. Text(v.id) \o <<>> = Text(v.id)
        BY <3>1
      <3> QED
        BY <2>5, <3>2
    <2>7. Displays(Text(v.id) \o list, a, l)
      BY <2>1, <2>2, <2>4, <2>6, DisplaysThen
    <2>8. Displays(Text(v.id) \o list, a, b)
      BY <1>4, <2>1, <2>2, <2>7, DisplaysBare
    <2> QED
      BY <2>8 DEF list
  <1> QED
    BY <1>1, <1>5, <1>6

LEMMA FuncHeaderShown ==
  ASSUME BInv, TreeFormed, CellsFormed, NEW n \in 1..Len(tree), NEW t, DisplayedBefore(t, n), NEW v,
         NEW a, NEW b, FormedFuncHeader(Store, n, v, a, b)
  PROVE  Displays(ShowList(t, "TYPED_ID_LIST", v.params) \o t[v.returnType], a, b)
  <1> DEFINE list == ShowList(t, "TYPED_ID_LIST", v.params)
  <1>1. PICK c : /\ Held(Store, n, "TYPED_ID_LIST", v.params, a, c) /\ Kind(Store, c + 1) = "ARROW"
                 /\ Part(Store, n, v.returnType, "VAR_TYPE", c + 2, b)
    BY DEF FormedFuncHeader
  <1> DEFINE i1 == c + 1
             i2 == c + 2
  <1>2. Displays(list, a, c) /\ c \in Nat /\ ~CallAt(c)
    BY <1>1, ListShown DEF ListKinds
  <1>3. Displays(<<>>, i1, i1) /\ ~CallAt(i1)
    BY <1>1, PlainTokens, PlainShown
  <1>4. Displays(t[v.returnType], i2, b)
    BY <1>1, PartShown
  <1>5. i1 = c + 1 /\ i2 = i1 + 1
    BY <1>2
  <1> HIDE DEF i1, i2, list
  <1>6. Displays(list, a, i1)
    BY <1>2, <1>3, <1>5, DisplaysBare
  <1>7. Displays(list \o t[v.returnType], a, b)
    BY <1>3, <1>4, <1>5, <1>6, DisplaysThen
  <1> QED
    BY <1>7 DEF list

LEMMA BlockShown ==
  ASSUME BInv, TreeFormed, CellsFormed, NEW n \in 1..Len(tree), NEW t, DisplayedBefore(t, n), NEW v,
         NEW a, NEW b, FormedBlock(Store, n, v, a, b)
  PROVE  Displays(IF v = NULL THEN <<>> ELSE ShowList(t, "STATEMENT_LIST", v), a, b)
  <1> DEFINE i1 == a + 1
             l == b - 1
  <1>1. /\ Kind(Store, a) = "LBRC" /\ Kind(Store, b) = "RBRC"
        /\ \/ v = NULL /\ b = i1
           \/ Held(Store, n, "STATEMENT_LIST", v, i1, l)
    BY DEF FormedBlock
  <1>2. Displays(<<>>, a, a) /\ ~CallAt(a) /\ a \in Nat
    BY <1>1, PlainTokens, PlainShown
  <1>3. Displays(<<>>, b, b) /\ b \in Nat
    BY <1>1, PlainTokens, PlainShown
  <1>4. i1 = a + 1 /\ b = l + 1
    BY <1>2, <1>3
  <1>5. CASE v = NULL /\ b = i1
    <2>1. Displays(<<>>, a, b)
      BY <1>2, <1>3, <1>5, DisplaysBare
    <2> QED
      BY <1>5, <2>1
  <1>6. CASE Held(Store, n, "STATEMENT_LIST", v, i1, l)
    <2> DEFINE list == ShowList(t, "STATEMENT_LIST", v)
    <2>1. Displays(list, i1, l) /\ ~CallAt(l) /\ v # NULL
      BY <1>6, ListShown DEF ListKinds
    <2> HIDE DEF i1, l, list
    <2>2. Displays(list, a, l)
      BY <1>2, <1>4, <2>1, DisplaysBare
    <2>3. Displays(list, a, b)
      BY <1>3, <1>4, <2>1, <2>2, DisplaysBare
    <2> QED
      BY <2>1, <2>3 DEF list
  <1> QED
    BY <1>1, <1>5, <1>6

LEMMA IfShown ==
  ASSUME BInv, TreeFormed, NEW n \in 1..Len(tree), NEW t, DisplayedBefore(t, n), NEW v,
         NEW a, NEW b, FormedIf(Store, n, v, a, b)
  PROVE  Displays(t[v.expr] \o t[v.block], a, b)
  <1>1. PICK c : Part(Store, n, v.expr, "EXPRESSION", a + 1, c) /\ Part(Store, n, v.block, "BLOCK", c + 1, b)
    BY DEF FormedIf
  <1> DEFINE i1 == a + 1
             d == c + 1
  <1>2. Displays(<<>>, a, a) /\ ~CallAt(a)
    <2>1. "IF" \in Plain
      BY DEF Plain, Tokens, Names, IdTokens
    <2> QED
      BY <2>1, PlainShown DEF FormedIf
  <1>3. Displays(t[v.expr], i1, c) /\ ~CallAt(c)
    BY <1>1, PartShown
  <1>4. Displays(t[v.block], d, b)
    BY <1>1, PartShown
  <1>5. i1 = a + 1 /\ d = c + 1
    OBVIOUS
  <1> HIDE DEF i1, d
  <1>6. Displays(t[v.expr], a, c)
    BY <1>2, <1>3, <1>5, DisplaysBare
  <1> QED
    BY <1>3, <1>4, <1>5, <1>6, DisplaysThen

LEMMA AssignmentShown ==
  ASSUME BInv, TreeFormed, NEW n \in 1..Len(tree), NEW t, DisplayedBefore(t, n), NEW v,
         NEW a, NEW b, FormedAssignment(Store, n, v, a, b)
  PROVE  Displays((IF v.typed THEN t[v.id] ELSE Text(v.id)) \o t[v.expr], a, b)
  <1> DEFINE s == IF v.typed THEN t[v.id] ELSE Text(v.id)
  <1>1. PICK c : /\ \/ v.typed = TRUE /\ Part(Store, n, v.id, "TYPED_ID", a, c)
                    \/ v.typed = FALSE /\ Leaf(Store, v.id, IdTokens, a) /\ c = a
                 /\ Kind(Store, c + 1) = "EQ"
                 /\ Part(Store, n, v.expr, "EXPRESSION", c + 2, b)
    BY DEF FormedAssignment
  <1> DEFINE i1 == c + 1
             i2 == c + 2
  <1>2. Displays(<<>>, i1, i1) /\ ~CallAt(i1) /\ TypeOf(c + 1) = "EQ"
    BY <1>1, PlainTokens, PlainShown
  <1>3. Displays(s, a, c) /\ ~CallAt(c) /\ c \in Nat
    <2>1. CASE v.typed = TRUE /\ Part(Store, n, v.id, "TYPED_ID", a, c)
      BY <2>1, PartShown
    <2>2. CASE v.typed = FALSE /\ Leaf(Store, v.id, IdTokens, a) /\ c = a
      BY <1>2, <2>2, IdShown
    <2> QED
      BY <1>1, <2>1, <2>2
  <1>4. Displays(t[v.expr], i2, b)
    BY <1>1, PartShown
  <1>5. i1 = c + 1 /\ i2 = i1 + 1
    BY <1>3
  <1> HIDE DEF i1, i2, s
  <1>6. Displays(s, a, i1)
    BY <1>2, <1>3, <1>5, DisplaysBare
  <1>7. Displays(s \o t[v.expr], a, b)
    BY <1>2, <1>4, <1>5, <1>6, DisplaysThen
  <1> QED
    BY <1>7 DEF s

LEMMA StatementShown ==
  ASSUME BInv, TreeFormed, NEW n \in 1..Len(tree), NEW t, DisplayedBefore(t, n), NEW v,
         NEW a, NEW b, FormedStatement(Store, n, v, a, b)
  PROVE  Displays(t[v.is], a, b)
  <1>1. CASE v.type = "RETURN" /\ Kind(Store, a) = "RETURN" /\ Part(Store, n, v.is, "EXPRESSION", a + 1, b)
    <2> DEFINE i1 == a + 1
    <2>1. Displays(<<>>, a, a) /\ ~CallAt(a)
      <3>1. "RETURN" \in Plain
        BY DEF Plain, Tokens, Names, IdTokens
      <3> QED
        BY <1>1, <3>1, PlainShown
    <2>2. Displays(t[v.is], i1, b) /\ i1 = a + 1
      BY <1>1, PartShown
    <2> HIDE DEF i1
    <2> QED
      BY <2>1, <2>2, DisplaysBare
  <1>2. CASE v.type = "ASSIGN" /\ Part(Store, n, v.is, "ASSIGNMENT", a, b)
    BY <1>2, PartShown
  <1>3. CASE v.type = "NT_IF" /\ Part(Store, n, v.is, "NT_IF", a, b)
    BY <1>3, PartShown
  <1>4. CASE v.type = "EXPR" /\ Part(Store, n, v.is, "EXPRESSION", a, b)
    BY <1>4, PartShown
  <1> QED
    BY <1>1, <1>2, <1>3, <1>4 DEF FormedStatement

LEMMA FunctionShown ==
  ASSUME BInv, TreeFormed, NEW n \in 1..Len(tree), NEW t, DisplayedBefore(t, n), NEW v,
         NEW a, NEW b, FormedFunction(Store, n, v, a, b)
  PROVE  Displays(Text(v.id) \o t[v.header] \o t[v.block], a, b)
  <1>1. PICK c : Part(Store, n, v.header, "FUNC_HEADER", a + 2, c) /\ Part(Store, n, v.block, "BLOCK", c + 1, b)
    BY DEF FormedFunction
  <1> DEFINE i1 == a + 1
             i2 == a + 2
             d == c + 1
  <1>2. Displays(<<>>, i1, i1) /\ ~CallAt(i1) /\ TypeOf(a + 1) = "EQ"
    BY PlainTokens, PlainShown DEF FormedFunction
  <1>3. Displays(Text(v.id), a, a) /\ ~CallAt(a) /\ a \in Nat
    BY <1>2, IdShown DEF FormedFunction
  <1>4. Displays(t[v.header], i2, c) /\ ~CallAt(c)
    BY <1>1, PartShown
  <1>5. Displays(t[v.block], d, b)
    BY <1>1, PartShown
  <1>6. i1 = a + 1 /\ i2 = i1 + 1 /\ d = c + 1
    BY <1>3
  <1> HIDE DEF i1, i2, d
  <1>7. Displays(Text(v.id), a, i1)
    BY <1>2, <1>3, <1>6, DisplaysBare
  <1>8. Displays(Text(v.id) \o t[v.header], a, c)
    BY <1>2, <1>4, <1>6, <1>7, DisplaysThen
  <1> QED
    BY <1>4, <1>5, <1>6, <1>8, DisplaysThen

\* Every kind of node shows its part of the source, when the nodes before it do.
LEMMA NodeShown ==
  ASSUME BInv, literals \in Spellings(input), TreeFormed, CellsFormed,
         NEW n \in 1..Len(tree), NEW t, DisplayedBefore(t, n)
  PROVE  Displays(ShowNode(t, n), tree[n].from, tree[n].to)
  <1> DEFINE v == tree[n].is
             sym == tree[n].sym
             a == tree[n].from
             b == tree[n].to
  <1>1. Formed(Store, n, sym, v, a, b) /\ Edges(Store, sym, a, b)
    BY Heap DEF TreeFormed, NodeFormed
  <1>2. Interval(a, b)
    <2>1. a \in 1..b /\ b \in 1..Len(input)
      BY <1>1 DEF Edges, Store
    <2> QED
      BY <2>1, InputTokens DEF Interval
  <1>3. sym \in NonTerminals \ ListKinds
    BY <1>1, SMTT(30) DEF Formed
  <1>op. CASE sym \in Operators
    <2>1. FormedOperator(Store, n, sym, v, a, b)
      BY <1>1, <1>op DEF Formed
    <2>2. ShowNode(t, n) = (IF v.binary THEN t[v.left] ELSE ShowUnwritten(sym)) \o t[v.right]
      BY <1>op DEF ShowNode, Operators
    <2> QED
      BY <1>op, <2>1, <2>2, OperatorShown
  <1>4. CASE sym = "EXPRESSION"
    <2>1. Part(Store, n, v, "LOGIC_DISJ", a, b)
      BY <1>1, <1>4 DEF Formed
    <2>2. ShowNode(t, n) = t[v]
      BY <1>4 DEF ShowNode, Operators
    <2> QED
      BY <2>1, <2>2, PartDisplayed
  <1>5. CASE sym = "FACTOR"
    <2>1. FormedFactor(Store, n, v, a, b)
      BY <1>1, <1>5 DEF Formed
    <2>2. ShowNode(t, n) = IF v.type \in {"ID", "STR"} THEN Text(v.is) ELSE t[v.is]
      BY <1>5 DEF ShowNode, Operators
    <2> QED
      BY <1>2, <2>1, <2>2, FactorShown
  <1>6. CASE sym = "NUMBER"
    <2>1. FormedNumber(Store, v, a, b)
      BY <1>1, <1>6 DEF Formed
    <2>2. ShowNode(t, n) = Decimal(v, a)
      BY <1>6 DEF ShowNode, Operators
    <2> QED
      BY <2>1, <2>2, NumberShown
  <1>7. CASE sym = "HEADER"
    <2>1. b = a + 1 /\ Kind(Store, a) = "MODULE" /\ Leaf(Store, v, Tokens \ {"DECIMAL_LIT", "HEX_LIT"}, b)
      BY <1>1, <1>7 DEF Formed
    <2>2. ShowNode(t, n) = Text(v)
      BY <1>7 DEF ShowNode, Operators
    <2> QED
      BY <1>2, <2>1, <2>2, HeaderShown
  <1>8. CASE sym = "VAR_TYPE"
    <2>1. FormedType(Store, n, v, a, b)
      BY <1>1, <1>8 DEF Formed
    <2>2. ShowNode(t, n) = ShowType(t, v)
      BY <1>8 DEF ShowNode, Operators
    <2> QED
      BY <1>2, <2>1, <2>2, TypeShown
  <1>9. CASE sym = "TYPED_ID"
    <2>1. FormedTypedId(Store, n, v, a, b)
      BY <1>1, <1>9 DEF Formed
    <2>2. ShowNode(t, n) = Text(v.id) \o t[v.type]
      BY <1>9 DEF ShowNode, Operators
    <2> QED
      BY <1>2, <2>1, <2>2, TypedIdShown
  <1>10. CASE sym = "DEREF"
    <2>1. FormedDeref(Store, n, v, a, b)
      BY <1>1, <1>10 DEF Formed
    <2>2. ShowNode(t, n) = Text(v.id) \o ShowList(t, "EXPRESSION_LIST", v.exprList)
      BY <1>10 DEF ShowNode, Operators
    <2> QED
      BY <1>2, <2>1, <2>2, DerefShown
  <1>11. CASE sym = "FUNC_CALL"
    <2>1. FormedCall(Store, n, v, a, b)
      BY <1>1, <1>11 DEF Formed
    <2>2. ShowNode(t, n) = Text(v.id) \o ShowList(t, "EXPRESSION_LIST", v.exprList)
      BY <1>11 DEF ShowNode, Operators
    <2> QED
      BY <1>2, <2>1, <2>2, CallShown
  <1>12. CASE sym = "FUNC_HEADER"
    <2>1. FormedFuncHeader(Store, n, v, a, b)
      BY <1>1, <1>12 DEF Formed
    <2>2. ShowNode(t, n) = ShowList(t, "TYPED_ID_LIST", v.params) \o t[v.returnType]
      BY <1>12 DEF ShowNode, Operators
    <2> QED
      BY <1>2, <2>1, <2>2, FuncHeaderShown
  <1>13. CASE sym = "BLOCK"
    <2>1. FormedBlock(Store, n, v, a, b)
      BY <1>1, <1>13 DEF Formed
    <2>2. ShowNode(t, n) = IF v = NULL THEN <<>> ELSE ShowList(t, "STATEMENT_LIST", v)
      BY <1>13 DEF ShowNode, Operators
    <2> QED
      BY <1>2, <2>1, <2>2, BlockShown
  <1>14. CASE sym = "NT_IF"
    <2>1. FormedIf(Store, n, v, a, b)
      BY <1>1, <1>14 DEF Formed
    <2>2. ShowNode(t, n) = t[v.expr] \o t[v.block]
      BY <1>14 DEF ShowNode, Operators
    <2> QED
      BY <1>2, <2>1, <2>2, IfShown
  <1>15. CASE sym = "ASSIGNMENT"
    <2>1. FormedAssignment(Store, n, v, a, b)
      BY <1>1, <1>15 DEF Formed
    <2>2. ShowNode(t, n) = (IF v.typed THEN t[v.id] ELSE Text(v.id)) \o t[v.expr]
      BY <1>15 DEF ShowNode, Operators
    <2> QED
      BY <1>2, <2>1, <2>2, AssignmentShown
  <1>16. CASE sym = "STATEMENT"
    <2>1. FormedStatement(Store, n, v, a, b)
      BY <1>1, <1>16 DEF Formed
    <2>2. ShowNode(t, n) = t[v.is]
      BY <1>16 DEF ShowNode, Operators
    <2> QED
      BY <1>2, <2>1, <2>2, StatementShown
  <1>17. CASE sym = "FUNCTION"
    <2>1. FormedFunction(Store, n, v, a, b)
      BY <1>1, <1>17 DEF Formed
    <2>2. ShowNode(t, n) = Text(v.id) \o t[v.header] \o t[v.block]
      BY <1>17 DEF ShowNode, Operators
    <2> QED
      BY <1>2, <2>1, <2>2, FunctionShown
  <1> HIDE DEF sym, v, a, b
  <1> QED
    BY <1>op, <1>3, <1>4, <1>5, <1>6, <1>7, <1>8, <1>9, <1>10, <1>11, <1>12, <1>13, <1>14, <1>15, <1>16, <1>17 DEF NonTerminals, ListKinds, Operators, sym

\* By induction over the nodes.
LEMMA AllShown ==
  ASSUME BInv, literals \in Spellings(input), TreeFormed, CellsFormed
  PROVE  DisplayedBefore(Showings, Len(tree) + 1)
  <1> DEFINE R == Showings
             T == {k \in Nat : k <= Len(tree) => DisplayedBefore(R, k + 1)}
  <1>1. Len(tree) \in Nat /\ \A n \in 1..Len(tree) : R[n] = ShowNode(Earlier(R, n), n)
    BY Heap, ShowingsDefined
  <1> HIDE DEF R
  <1>2. 0 \in T
    BY DEF DisplayedBefore
  <1>3. ASSUME NEW k \in T, k \in Nat PROVE k + 1 \in T
    <2>1. ASSUME k + 1 <= Len(tree), NEW m \in 1..((k + 1 + 1) - 1)
          PROVE  Displays(R[m], tree[m].from, tree[m].to)
      <3>1. m \in 1..Len(tree) /\ m \in Nat /\ k <= Len(tree)
        BY <1>1, <1>3, <2>1
      <3>2. \A i \in 1..((k + 1) - 1) : Displays(R[i], tree[i].from, tree[i].to)
        BY <1>3, <3>1 DEF DisplayedBefore
      <3>3. \A i \in 1..(m - 1) : i \in 1..((k + 1) - 1)
        BY <1>3, <2>1, <3>1
      <3>4. \A i \in 1..(m - 1) : Earlier(R, m)[i] = R[i]
        BY <3>1, EarlierIs
      <3>5. DisplayedBefore(Earlier(R, m), m)
        BY <3>2, <3>3, <3>4 DEF DisplayedBefore
      <3>6. Displays(ShowNode(Earlier(R, m), m), tree[m].from, tree[m].to)
        BY <2>1, <3>1, <3>5, NodeShown
      <3> QED
        BY <1>1, <3>1, <3>6
    <2> QED
      BY <1>3, <2>1 DEF DisplayedBefore
  <1>4. Nat \subseteq T
    <2> HIDE DEF T
    <2> QED
      BY <1>2, <1>3, Induction
  <1>5. Len(tree) \in T
    BY <1>1, <1>4
  <1> QED
    BY <1>5 DEF R

\* What is shown of a node of the stack.
LEMMA StackShown ==
  ASSUME TreeInv, NEW i \in 1..Depth, stack[i].sym \in NonTerminals
  PROVE  Displays(Show(stack[i].sym, values[i]), stack[i].from, stack[i].to)
  <1> DEFINE sym == stack[i].sym
             v == values[i]
             a == stack[i].from
             b == stack[i].to
  <1>1. BInv /\ literals \in Spellings(input) /\ TreeFormed /\ CellsFormed /\ Placed(Store, v, sym, a, b)
    BY DEF TreeInv, StackPlaced
  <1>2. Len(tree) \in Nat
    BY <1>1, Heap
  <1>3. DisplayedBefore(Showings, Len(tree) + 1)
    BY <1>1, AllShown
  <1>4. CASE sym \in ListKinds
    <2>1. ListAt(Store, Len(tree) + 1, sym, v, a, b)
      BY <1>1, <1>4 DEF Placed, Store
    <2>2. Show(sym, v) = ShowList(Showings, sym, v)
      BY <1>4 DEF Show
    <2>3. PICK k \in 1..(Len(tree) + 1) : k = Len(tree) + 1
      BY <1>2
    <2>4. Displays(ShowList(Showings, sym, v), a, b)
      BY <1>1, <1>3, <1>4, <2>1, <2>3, ListDisplayed
    <2> QED
      BY <2>2, <2>4
  <1>5. CASE sym \in NonTerminals \ ListKinds
    <2>1. v \in 1..Len(tree) /\ tree[v].sym = sym /\ tree[v].from = a /\ tree[v].to = b
      BY <1>1, <1>2, <1>5 DEF Placed, Part, Store
    <2>2. Show(sym, v) = Showings[v]
      BY <1>5 DEF Show
    <2>3. v \in 1..((Len(tree) + 1) - 1)
      BY <1>2, <2>1
    <2>4. Displays(Showings[v], a, b)
      BY <1>3, <2>1, <2>3 DEF DisplayedBefore
    <2> QED
      BY <2>2, <2>4
  <1> QED
    BY <1>4, <1>5

LEMMA ShownTop ==
  ASSUME DInv, Fresh("parse"), ~NestedIn(Top.from, Top.to)
  PROVE  /\ Ending(Shown) \in {"none", "CRASH"}
         /\ Ending(Shown) = "CRASH" <=> CallIn(Top.from, Top.to)
         /\ Ending(Shown) = "none" => Shows(Only(Names, Shown), Only(Names \cup {"HEX_LIT"}, Source(Top.from, Top.to)))
  <1>1. TreeInv /\ Depth \in 1..Depth /\ stack[Depth].sym \in NonTerminals
    BY FreshTree
  <1>2. Displays(Shown, Top.from, Top.to)
    BY <1>1, StackShown DEF Shown, Top
  <1>3. Shown \in Seq(Pieces) /\ \A i \in 1..Len(Shown) : Shown[i].sym # "ABORT"
    BY <1>2 DEF Displays
  <1>4. /\ Ending(Shown) = "none" <=> Fatal(Shown) = {}
        /\ Fatal(Shown) # {} => Ending(Shown) \in Ends /\ \E i \in 1..Len(Shown) : Shown[i].sym = Ending(Shown)
    BY <1>3, EndingOf
  <1>5. Fatal(Shown) # {} => Ending(Shown) = "CRASH"
    BY <1>3, <1>4 DEF Ends
  <1> QED
    BY <1>2, <1>4, <1>5 DEF Displays

-----------------------------------------------------------------------------
(* The tree that is shown. *)

\* ast_print_node shows every name and number that a node was built from once
\* and in their order, whatever the input, unless it crashes or there is a
\* nested array type, whose inside lalr.c drops: the text of the token, or for
\* a number that an int does not keep what %d prints instead.
THEOREM NamesAreShown == DriverSpec => []NamesShown
  <1>1. DInv => NamesShown
    BY ShownTop DEF NamesShown
  <1> QED
    BY <1>1, DriverInvariance, PTL

\* ast_print_node follows NULL exactly where a call without arguments is part of
\* the node: it is the only list that lalr.c leaves out and ast_print.c walks.
THEOREM CrashesWhereItMust == DriverSpec => []TreeCrashes
  <1>1. DInv => TreeCrashes
    BY ShownTop DEF TreeCrashes, CallIn
  <1> QED
    BY <1>1, DriverInvariance, PTL

=============================================================================
