--------------------------- MODULE FrontEndProofs ---------------------------
(***************************************************************************)
(* Proofs about Tokenizer, for every set of texts, and about FrontEnd: for *)
(* every text, however long, the three calls of tctx_get_next of a turn of *)
(* parse are one Shift of LalrParser, so that what LalrParserProofs proves *)
(* of the parse stack holds of the program that reads its tokens from a    *)
(* file.                                                                   *)
(*                                                                         *)
(* The argument of the second part: FrontEnd runs the tokenizer as it is   *)
(* (StepIsTokenizers), so the invariants of the first part hold of it.     *)
(* SourceInv adds that what is left of the token sequence is what the text *)
(* says behind the last token delivered; a push takes its first word       *)
(* (TokenSays), and the lookahead is the second (LookaheadSays).           *)
(***************************************************************************)
EXTENDS FrontEnd, NaturalNumbers, SequenceTheorems

(***************************************************************************)
(* FIRST PART.  Tokenizer: tokens, positions, lines.                       *)
(***************************************************************************)

-----------------------------------------------------------------------------
(* The ends of runs. *)

\* EndOfRun finds what it looks for when the zero behind the text ends the run.
LEMMA EndOfRunFound ==
  ASSUME Len(text) \in Nat, NEW c \in 0..Len(text), NEW set, "NUL" \notin set
  PROVE  /\ EndOfRun(c, set) \in c..Len(text)
         /\ Char(EndOfRun(c, set)) \notin set
         /\ \A k \in c..(EndOfRun(c, set) - 1) : Char(k) \in set
<1> DEFINE T == {j \in c..Len(text) : Char(j) \notin set}
<1>1. Char(Len(text)) = "NUL"
  BY DEF Char
<1>2. T \subseteq Nat /\ Len(text) \in T
  BY <1>1
<1>3. PICK x \in T : \A y \in T : x <= y
  <2> HIDE DEF T
  <2> QED BY <1>2, LeastOf
<1>4. \E j \in c..Len(text) : Char(j) \notin set /\ \A k \in c..(j - 1) : Char(k) \in set
  <2>1. \A k \in c..(x - 1) : Char(k) \in set
    <3> TAKE k \in c..(x - 1)
    <3>1. k \in c..Len(text) /\ ~(x <= k)
      BY <1>3
    <3> QED BY <1>3, <3>1
  <2> QED BY <1>3, <2>1
<1> QED BY <1>4 DEF EndOfRun

\* A run that ends at once has no length.
LEMMA EmptyRun ==
  ASSUME Len(text) \in Nat, NEW c \in 0..Len(text), NEW set, Char(c) \notin set
  PROVE  EndOfRun(c, set) = c
<1>1. \A k \in c..(c - 1) : Char(k) \in set
  OBVIOUS
<1>2. \A j \in c..Len(text) : (\A k \in c..(j - 1) : Char(k) \in set) => j = c
  <2> TAKE j \in c..Len(text)
  <2> HAVE \A k \in c..(j - 1) : Char(k) \in set
  <2>1. CASE c < j
    BY <2>1
  <2> QED BY <2>1
<1>3. c \in c..Len(text)
  OBVIOUS
<1> QED BY <1>1, <1>2, <1>3 DEF EndOfRun

-----------------------------------------------------------------------------
(* Characters and words. *)

LEMMA CharHere ==
  ASSUME text \in Seq(Chars), NEW c \in Nat
  PROVE  /\ Char(c) = "NUL" <=> c >= Len(text)
         /\ Char(c) # "NUL" => Char(c) \in Chars
<1>1. c < Len(text) => text[c + 1] \in Chars
  BY ElementOfSeq
<1> QED BY <1>1, CharsAssumption DEF Char

\* A word that is found ends before the zero behind the text.
LEMMA WordFits ==
  ASSUME text \in Seq(Chars), NEW c \in Nat, NEW w, Len(w) \in Nat, Len(w) > 0,
         w[Len(w)] # "NUL"
  PROVE  /\ Word(c, w) \in Nat
         /\ Word(c, w) > 0 => c + Word(c, w) <= Len(text) /\ Char(c) = w[1]
<1>1. Word(c, w) \in {0, Len(w)}
  BY DEF Word
<1>2. ASSUME \A i \in 1..Len(w) : Char(c + i - 1) = w[i]
      PROVE  c + Len(w) <= Len(text) /\ Char(c) = w[1]
  <2>1. Char(c + Len(w) - 1) # "NUL"
    BY <1>2
  <2>2. c + Len(w) - 1 \in Nat
    OBVIOUS
  <2>3. c + Len(w) - 1 < Len(text)
    BY <2>1, <2>2, CharHere
  <2>4. Char(c + 1 - 1) = w[1] /\ c + 1 - 1 = c
    BY <1>2
  <2> QED BY <2>3, <2>4
<1> QED BY <1>1, <1>2 DEF Word

\* A run of characters from a position of the text on ends in it.
LEMMA RunFits ==
  ASSUME text \in Seq(Chars), NEW c \in 0..Len(text), NEW set, "NUL" \notin set
  PROVE  Run(c, set) \in Nat /\ c + Run(c, set) <= Len(text)
<1>1. EndOfRun(c, set) \in c..Len(text)
  BY EndOfRunFound
<1> QED BY <1>1 DEF Run

-----------------------------------------------------------------------------
(* The expressions of several characters: their matches end before the zero *)
(* behind the text, and none starts with a slash.                            *)

Ends(c, count) ==
  /\ count \in Nat
  /\ count > 0 => c + count <= Len(text) /\ Char(c) # "/"

LEMMA WordsEnd ==
  ASSUME text \in Seq(Chars), NEW c \in 0..Len(text), NEW w, Len(w) \in Nat, Len(w) > 0,
         w[Len(w)] # "NUL", w[1] # "/"
  PROVE  Ends(c, Word(c, w))
  BY WordFits DEF Ends

LEMMA Quoting == DQuote # "NUL" /\ DQuote # "/" /\ Bar # "NUL" /\ Bar # "/"
  BY Zenon DEF DQuote, Bar

LEMMA LiteralsEnd ==
  ASSUME text \in Seq(Chars), NEW c \in 0..Len(text)
  PROVE  /\ Ends(c, StringLit(c))
         /\ Ends(c, CharLit(c))
         /\ Ends(c, HexLit(c))
         /\ Ends(c, DoubleLit(c))
         /\ Ends(c, DecimalLit(c))
         /\ Ends(c, Identifier(c))
<1>1. Len(text) \in Nat
  OBVIOUS
<1>2. /\ "NUL" \notin Digits
      /\ "NUL" \notin HexDigits
      /\ "NUL" \notin IdChars
      /\ "/" \notin Digits
      /\ "/" \notin Letters
  BY DEF Digits, HexDigits, Letters, IdChars
<1>3. Ends(c, StringLit(c))
  <2>0. CASE Char(c) # DQuote
    BY <2>0 DEF Ends, StringLit
  <2> SUFFICES ASSUME Char(c) = DQuote
               PROVE  Ends(c, StringLit(c))
    BY <2>0
  <2> DEFINE end == EndOfRun(c + 1, Chars \ {DQuote, Backslash})
  <2>1. c + 1 \in 0..Len(text)
    BY CharHere, Quoting
  <2>2. end \in (c + 1)..Len(text)
    BY <1>1, <2>1, CharsAssumption, EndOfRunFound
  <2>3. CASE Char(end) = DQuote
    <3>1. end \in Nat /\ end < Len(text)
      BY <2>1, <2>2, <2>3, CharHere, Quoting
    <3>2. StringLit(c) = end - c + 1
      BY <2>3 DEF StringLit
    <3> HIDE DEF end
    <3> QED BY <2>2, <3>1, <3>2, Quoting DEF Ends
  <2>4. CASE Char(end) # DQuote
    BY <2>4 DEF Ends, StringLit
  <2> QED BY <2>3, <2>4
<1>4. Ends(c, CharLit(c))
  <2> SUFFICES ASSUME Char(c) = "'", Char(c + 2) = "'"
               PROVE  c + 3 <= Len(text)
    BY DEF Ends, CharLit
  <2>1. c + 2 < Len(text)
    BY CharHere
  <2> QED BY <2>1
<1>5. Ends(c, DecimalLit(c))
  <2>1. DecimalLit(c) \in Nat /\ c + DecimalLit(c) <= Len(text)
    BY <1>2, RunFits DEF DecimalLit
  <2>2. Char(c) = "/" => DecimalLit(c) = 0
    BY <1>1, <1>2, EmptyRun DEF DecimalLit, Run
  <2> QED BY <2>1, <2>2 DEF Ends
<1>6. Ends(c, DoubleLit(c))
  <2> DEFINE dot == c + DecimalLit(c)
  <2> SUFFICES ASSUME dot > c, Char(dot) = "."
               PROVE  Ends(c, dot - c + 1 + Run(dot + 1, Digits))
    BY DEF Ends, DoubleLit
  <2>1. DecimalLit(c) \in Nat /\ dot \in Nat /\ Char(c) # "/"
    BY <1>5 DEF Ends
  <2> HIDE DEF dot
  <2>2. dot < Len(text)
    BY <2>1, CharHere
  <2>3. Run(dot + 1, Digits) \in Nat /\ dot + 1 + Run(dot + 1, Digits) <= Len(text)
    <3>1. dot + 1 \in 0..Len(text)
      BY <2>1, <2>2
    <3> QED BY <1>2, <3>1, RunFits
  <2> QED BY <2>1, <2>2, <2>3 DEF Ends
<1>7. Ends(c, HexLit(c))
  <2> SUFFICES ASSUME Word(c, <<"0", "x">>) > 0
               PROVE  Ends(c, 2 + Run(c + 2, HexDigits))
    BY DEF Ends, HexLit
  <2>1. Ends(c, Word(c, <<"0", "x">>)) /\ Word(c, <<"0", "x">>) = 2
    <3> DEFINE w == <<"0", "x">>
    <3>1. Len(w) = 2 /\ Len(w) \in Nat /\ Len(w) > 0 /\ w[Len(w)] # "NUL" /\ w[1] # "/"
          /\ w[1] = "0" /\ w[2] = "x"
      OBVIOUS
    <3> HIDE DEF w
    <3>2. Ends(c, Word(c, w))
      BY <3>1, WordsEnd
    <3>3. Word(c, w) = 2
      BY <3>1 DEF Word, w
    <3> QED BY <3>2, <3>3 DEF w
  <2>2. c + 2 <= Len(text) /\ Char(c) # "/"
    BY <2>1 DEF Ends
  <2>3. Run(c + 2, HexDigits) \in Nat /\ c + 2 + Run(c + 2, HexDigits) <= Len(text)
    BY <1>2, <2>2, RunFits
  <2> QED BY <2>2, <2>3 DEF Ends
<1>8. Ends(c, Identifier(c))
  <2> SUFFICES ASSUME Char(c) \in Letters
               PROVE  Ends(c, Run(c, IdChars))
    BY DEF Ends, Identifier
  <2>1. Run(c, IdChars) \in Nat /\ c + Run(c, IdChars) <= Len(text)
    BY <1>2, RunFits
  <2> QED BY <1>2, <2>1 DEF Ends
<1> QED BY <1>3, <1>4, <1>5, <1>6, <1>7, <1>8

LEMMA PairsEnd ==
  ASSUME text \in Seq(Chars), NEW c \in 0..Len(text), NEW a, NEW b, a # "/", b # "NUL"
  PROVE  Ends(c, Word(c, <<a, b>>))
<1> DEFINE w == <<a, b>>
<1>1. Len(w) \in Nat /\ Len(w) > 0 /\ w[Len(w)] # "NUL" /\ w[1] # "/"
  OBVIOUS
<1> HIDE DEF w
<1>2. Ends(c, Word(c, w))
  BY <1>1, WordsEnd
<1> QED BY <1>2 DEF w

LEMMA KeywordsEnd ==
  ASSUME text \in Seq(Chars), NEW c \in 0..Len(text)
  PROVE  /\ Ends(c, Word(c, <<"e", "l", "s", "e">>))
         /\ Ends(c, Word(c, <<"s", "w", "i", "t", "c", "h">>))
         /\ Ends(c, Word(c, <<"b", "r", "e", "a", "k">>))
         /\ Ends(c, Word(c, <<"d", "e", "f", "a", "u", "l", "t">>))
         /\ Ends(c, Word(c, <<"r", "e", "t", "u", "r", "n">>))
<1>1. Ends(c, Word(c, <<"e", "l", "s", "e">>))
  <2> DEFINE w == <<"e", "l", "s", "e">>
  <2>1. Len(w) \in Nat /\ Len(w) > 0 /\ w[Len(w)] # "NUL" /\ w[1] # "/"
    OBVIOUS
  <2> HIDE DEF w
  <2>2. Ends(c, Word(c, w))
    BY <2>1, WordsEnd
  <2> QED BY <2>2 DEF w
<1>2. Ends(c, Word(c, <<"s", "w", "i", "t", "c", "h">>))
  <2> DEFINE w == <<"s", "w", "i", "t", "c", "h">>
  <2>1. Len(w) \in Nat /\ Len(w) > 0 /\ w[Len(w)] # "NUL" /\ w[1] # "/"
    OBVIOUS
  <2> HIDE DEF w
  <2>2. Ends(c, Word(c, w))
    BY <2>1, WordsEnd
  <2> QED BY <2>2 DEF w
<1>3. Ends(c, Word(c, <<"b", "r", "e", "a", "k">>))
  <2> DEFINE w == <<"b", "r", "e", "a", "k">>
  <2>1. Len(w) \in Nat /\ Len(w) > 0 /\ w[Len(w)] # "NUL" /\ w[1] # "/"
    OBVIOUS
  <2> HIDE DEF w
  <2>2. Ends(c, Word(c, w))
    BY <2>1, WordsEnd
  <2> QED BY <2>2 DEF w
<1>4. Ends(c, Word(c, <<"d", "e", "f", "a", "u", "l", "t">>))
  <2> DEFINE w == <<"d", "e", "f", "a", "u", "l", "t">>
  <2>1. Len(w) \in Nat /\ Len(w) > 0 /\ w[Len(w)] # "NUL" /\ w[1] # "/"
    OBVIOUS
  <2> HIDE DEF w
  <2>2. Ends(c, Word(c, w))
    BY <2>1, WordsEnd
  <2> QED BY <2>2 DEF w
<1>5. Ends(c, Word(c, <<"r", "e", "t", "u", "r", "n">>))
  <2> DEFINE w == <<"r", "e", "t", "u", "r", "n">>
  <2>1. Len(w) \in Nat /\ Len(w) > 0 /\ w[Len(w)] # "NUL" /\ w[1] # "/"
    OBVIOUS
  <2> HIDE DEF w
  <2>2. Ends(c, Word(c, w))
    BY <2>1, WordsEnd
  <2> QED BY <2>2 DEF w
<1> QED BY <1>1, <1>2, <1>3, <1>4, <1>5

LEMMA PatternsEnd ==
  ASSUME text \in Seq(Chars), NEW c \in 0..Len(text)
  PROVE  /\ DOMAIN Patterns(c) = 1..20
         /\ \A i \in 1..19 : Ends(c, Patterns(c)[i].count)
         /\ Patterns(c)[20].count = 1
<1>1. DOMAIN Patterns(c) = 1..20 /\ Patterns(c)[20].count = 1
  BY DEF Patterns, Match
<1>2. /\ Ends(c, Word(c, <<"f", "n">>))
      /\ Ends(c, Word(c, <<"i", "f">>))
      /\ Ends(c, Word(c, <<"-", ">">>))
      /\ Ends(c, Word(c, <<Bar, Bar>>))
      /\ Ends(c, Word(c, <<"&", "&">>))
      /\ Ends(c, Word(c, <<">", "=">>))
      /\ Ends(c, Word(c, <<"<", "=">>))
      /\ Ends(c, Word(c, <<"=", "=">>))
  <2>1. \A a, b : a # "/" /\ b # "NUL" => Ends(c, Word(c, <<a, b>>))
    BY PairsEnd
  <2> HIDE DEF Ends
  <2> QED BY <2>1, Quoting
<1>3. /\ Patterns(c)[1].count = StringLit(c)
      /\ Patterns(c)[2].count = CharLit(c)
      /\ Patterns(c)[3].count = Word(c, <<"f", "n">>)
      /\ Patterns(c)[4].count = Word(c, <<"i", "f">>)
      /\ Patterns(c)[5].count = Word(c, <<"e", "l", "s", "e">>)
      /\ Patterns(c)[6].count = Word(c, <<"s", "w", "i", "t", "c", "h">>)
      /\ Patterns(c)[7].count = Word(c, <<"b", "r", "e", "a", "k">>)
      /\ Patterns(c)[8].count = Word(c, <<"d", "e", "f", "a", "u", "l", "t">>)
      /\ Patterns(c)[9].count = Word(c, <<"r", "e", "t", "u", "r", "n">>)
      /\ Patterns(c)[10].count = Word(c, <<"-", ">">>)
      /\ Patterns(c)[11].count = HexLit(c)
      /\ Patterns(c)[12].count = DoubleLit(c)
      /\ Patterns(c)[13].count = DecimalLit(c)
      /\ Patterns(c)[14].count = Identifier(c)
      /\ Patterns(c)[15].count = Word(c, <<Bar, Bar>>)
      /\ Patterns(c)[16].count = Word(c, <<"&", "&">>)
      /\ Patterns(c)[17].count = Word(c, <<">", "=">>)
      /\ Patterns(c)[18].count = Word(c, <<"<", "=">>)
      /\ Patterns(c)[19].count = Word(c, <<"=", "=">>)
  BY DEF Patterns, Match
<1>4. /\ Ends(c, Patterns(c)[1].count)
      /\ Ends(c, Patterns(c)[2].count)
      /\ Ends(c, Patterns(c)[3].count)
      /\ Ends(c, Patterns(c)[4].count)
      /\ Ends(c, Patterns(c)[5].count)
      /\ Ends(c, Patterns(c)[6].count)
      /\ Ends(c, Patterns(c)[7].count)
      /\ Ends(c, Patterns(c)[8].count)
      /\ Ends(c, Patterns(c)[9].count)
      /\ Ends(c, Patterns(c)[10].count)
      /\ Ends(c, Patterns(c)[11].count)
      /\ Ends(c, Patterns(c)[12].count)
      /\ Ends(c, Patterns(c)[13].count)
      /\ Ends(c, Patterns(c)[14].count)
      /\ Ends(c, Patterns(c)[15].count)
      /\ Ends(c, Patterns(c)[16].count)
      /\ Ends(c, Patterns(c)[17].count)
      /\ Ends(c, Patterns(c)[18].count)
      /\ Ends(c, Patterns(c)[19].count)
  <2>1. /\ Ends(c, StringLit(c))
        /\ Ends(c, CharLit(c))
        /\ Ends(c, HexLit(c))
        /\ Ends(c, DoubleLit(c))
        /\ Ends(c, DecimalLit(c))
        /\ Ends(c, Identifier(c))
    BY LiteralsEnd
  <2>2. /\ Ends(c, Word(c, <<"e", "l", "s", "e">>))
        /\ Ends(c, Word(c, <<"s", "w", "i", "t", "c", "h">>))
        /\ Ends(c, Word(c, <<"b", "r", "e", "a", "k">>))
        /\ Ends(c, Word(c, <<"d", "e", "f", "a", "u", "l", "t">>))
        /\ Ends(c, Word(c, <<"r", "e", "t", "u", "r", "n">>))
    BY KeywordsEnd
  <2> QED BY <1>2, <1>3, <2>1, <2>2
<1>5. ASSUME NEW i \in 1..19
      PROVE  Ends(c, Patterns(c)[i].count)
  <2>1. \/ i = 1 \/ i = 2 \/ i = 3 \/ i = 4 \/ i = 5 \/ i = 6 \/ i = 7 \/ i = 8 \/ i = 9 \/ i = 10
        \/ i = 11 \/ i = 12 \/ i = 13 \/ i = 14 \/ i = 15 \/ i = 16 \/ i = 17 \/ i = 18 \/ i = 19
    OBVIOUS
  <2> QED BY <1>4, <2>1
<1> QED BY <1>1, <1>5

-----------------------------------------------------------------------------
(* The token of a call. *)

\* The expression the token of a call comes from: of those before it none matches.
FirstMatch(c, l, i) ==
  /\ Patterns(c)[i].count > 0
  /\ TokenAt(c, l).type = Patterns(c)[i].type
  /\ TokenAt(c, l).at = c
  /\ TokenAt(c, l).count = Patterns(c)[i].count
  /\ TokenAt(c, l).loc \in {NoLoc, l}
  /\ \A j \in 1..(i - 1) : ~(Patterns(c)[j].count > 0)

\* The first expression that matches: of those before it none does, and there
\* is one, since what is left over is one character.
LEMMA FirstOfPatterns ==
  ASSUME text \in Seq(Chars), NEW c \in 0..Len(text), NEW l
  PROVE  \E i \in 1..20 : FirstMatch(c, l, i)
<1> DEFINE P == Patterns(c)
           T == {i \in 1..20 : P[i].count > 0}
           first == CHOOSE m \in UNION {Firsts(ms) : ms \in {P}} : TRUE
<1>1. DOMAIN P = 1..20 /\ P[20].count = 1
  BY PatternsEnd
<1>2. TokenAt(c, l) = Token(first.type, c, first.count, IF first.type = "UNKNOWN" THEN NoLoc ELSE l)
  BY DEF TokenAt
<1> HIDE DEF P
<1>3. PICK k \in T : \A j \in T : k <= j
  <2>1. T \subseteq Nat
    OBVIOUS
  <2>2. 20 \in T
    BY <1>1
  <2> HIDE DEF T
  <2> QED BY <2>1, <2>2, LeastOf
<1>4. P[k] \in Firsts(P)
  <2>1. \A j \in 1..(k - 1) : j \in 1..20 /\ ~(k <= j)
    BY <1>3
  <2>2. \A j \in 1..(k - 1) : ~Matches(P[j])
    BY <1>3, <2>1 DEF Matches
  <2> QED BY <1>1, <1>3, <2>2 DEF Firsts, Matches
<1>5. first \in Firsts(P)
  <2>1. UNION {Firsts(ms) : ms \in {P}} = Firsts(P)
    OBVIOUS
  <2> QED BY <1>4, <2>1
<1>6. PICK i \in 1..20 : /\ first = P[i] /\ P[i].count > 0
                         /\ \A j \in 1..(i - 1) : ~(P[j].count > 0)
  BY <1>1, <1>5 DEF Firsts, Matches
<1> HIDE DEF first
<1>7. /\ TokenAt(c, l).type = P[i].type
      /\ TokenAt(c, l).at = c
      /\ TokenAt(c, l).count = P[i].count
      /\ TokenAt(c, l).loc \in {NoLoc, l}
  BY <1>2, <1>6 DEF Token
<1> WITNESS i \in 1..20
<1> QED BY <1>6, <1>7 DEF P, FirstMatch

\* A token lies in the text, but for the one made of the zero behind it; and
\* one that starts with a slash is only the slash.
LEMMA TokenFits ==
  ASSUME text \in Seq(Chars), NEW c \in 0..Len(text), NEW l
  PROVE  /\ TokenAt(c, l).at = c
         /\ TokenAt(c, l).count \in Nat \ {0}
         /\ c < Len(text) => c + TokenAt(c, l).count <= Len(text)
         /\ c = Len(text) => TokenAt(c, l).count = 1
         /\ Char(c) = "/" => TokenAt(c, l).count = 1
         /\ TokenAt(c, l).loc \in {NoLoc, l}
<1>0. PICK i \in 1..20 : FirstMatch(c, l, i)
  BY FirstOfPatterns
<1>1. /\ i \in 1..20
      /\ Patterns(c)[i].count > 0
      /\ TokenAt(c, l).type = Patterns(c)[i].type
      /\ TokenAt(c, l).at = c
      /\ TokenAt(c, l).count = Patterns(c)[i].count
      /\ TokenAt(c, l).loc \in {NoLoc, l}
  BY <1>0 DEF FirstMatch
<1>2. CASE i = 20
  <2>1. Patterns(c)[20].count = 1
    BY PatternsEnd
  <2>2. TokenAt(c, l).count = 1
    BY <1>1, <1>2, <2>1
  <2> QED BY <1>1, <2>2
<1>3. CASE i \in 1..19
  <2>1. Ends(c, Patterns(c)[i].count)
    BY <1>3, PatternsEnd
  <2> QED BY <1>1, <2>1 DEF Ends
<1> QED BY <1>2, <1>3

\* T_EOF is the answer of the two tests at the top only.
LEMMA TokenIsNotEof ==
  ASSUME text \in Seq(Chars), NEW c \in 0..Len(text), NEW l
  PROVE  TokenAt(c, l).type # "EOF"
<1>0. PICK i \in 1..20 : FirstMatch(c, l, i)
  BY FirstOfPatterns
<1>1. /\ i \in 1..20
      /\ Patterns(c)[i].count > 0
      /\ TokenAt(c, l).type = Patterns(c)[i].type
      /\ TokenAt(c, l).at = c
      /\ TokenAt(c, l).count = Patterns(c)[i].count
      /\ TokenAt(c, l).loc \in {NoLoc, l}
  BY <1>0 DEF FirstMatch
<1>2. ASSUME NEW ch \in Signs
      PROVE  SingleChars[ch] # "EOF"
  <2>1. \/ ch = Bar \/ ch = "&" \/ ch = ">" \/ ch = "<" \/ ch = ":" \/ ch = ";"
        \/ ch = "," \/ ch = "." \/ ch = "(" \/ ch = ")" \/ ch = "{" \/ ch = "}"
        \/ ch = "[" \/ ch = "]" \/ ch = "_" \/ ch = "-" \/ ch = "+" \/ ch = "*"
        \/ ch = "/" \/ ch = "%" \/ ch = "=" \/ ch = "'" \/ ch = DQuote
    BY DEF Signs
  <2> QED BY <2>1 DEF SingleChars
<1>3. (IF Char(c) \in Signs THEN SingleChars[Char(c)] ELSE "UNKNOWN") # "EOF"
  BY <1>2
<1>4. Patterns(c)[i].type # "EOF"
  <2> DEFINE single == IF Char(c) \in Signs THEN SingleChars[Char(c)] ELSE "UNKNOWN"
  <2>1. single # "EOF"
    BY <1>3
  <2>2. i = 20 => Patterns(c)[i].type = single
    BY DEF Patterns, Match
  <2>3. i \in 1..19 => Patterns(c)[i].type # "EOF"
    <3>1. /\ Patterns(c)[1].type # "EOF"
          /\ Patterns(c)[2].type # "EOF"
          /\ Patterns(c)[3].type # "EOF"
          /\ Patterns(c)[4].type # "EOF"
          /\ Patterns(c)[5].type # "EOF"
          /\ Patterns(c)[6].type # "EOF"
          /\ Patterns(c)[7].type # "EOF"
          /\ Patterns(c)[8].type # "EOF"
          /\ Patterns(c)[9].type # "EOF"
          /\ Patterns(c)[10].type # "EOF"
          /\ Patterns(c)[11].type # "EOF"
          /\ Patterns(c)[12].type # "EOF"
          /\ Patterns(c)[13].type # "EOF"
          /\ Patterns(c)[14].type # "EOF"
          /\ Patterns(c)[15].type # "EOF"
          /\ Patterns(c)[16].type # "EOF"
          /\ Patterns(c)[17].type # "EOF"
          /\ Patterns(c)[18].type # "EOF"
          /\ Patterns(c)[19].type # "EOF"
      BY DEF Patterns, Match
    <3>2. i \in 1..19 =>
            \/ i = 1 \/ i = 2 \/ i = 3 \/ i = 4 \/ i = 5 \/ i = 6 \/ i = 7 \/ i = 8 \/ i = 9 \/ i = 10
            \/ i = 11 \/ i = 12 \/ i = 13 \/ i = 14 \/ i = 15 \/ i = 16 \/ i = 17 \/ i = 18 \/ i = 19
      OBVIOUS
    <3> QED BY <3>1, <3>2
  <2> HIDE DEF single
  <2> QED BY <2>1, <2>2, <2>3
<1> QED BY <1>1, <1>4

-----------------------------------------------------------------------------
(* What a call leaves behind. *)

LEMMA AcrossFits ==
  ASSUME text \in Seq(Chars), NEW from \in 0..Len(text), NEW to \in from..Len(text),
         NEW l \in Locations
  PROVE  Across(from, to, l) \in Locations
<1> DEFINE newlines == {i \in from..(to - 1) : Char(i) = "\n"}
           last     == CHOOSE i \in newlines : \A j \in newlines : j <= i
<1>1. Cardinality(newlines) \in Nat
  <2>1. IsFiniteSet(from..(to - 1))
    BY FS_Interval
  <2>2. IsFiniteSet(newlines)
    BY <2>1, FS_Subset
  <2> QED BY <2>2, FS_CardinalityType
<1>2. ASSUME newlines # {}
      PROVE  last \in from..(to - 1)
  <2> DEFINE T == {to - 1 - i : i \in newlines}
  <2>1. T \subseteq Nat /\ T # {}
    BY <1>2
  <2>2. PICK x \in T : \A y \in T : x <= y
    <3> HIDE DEF T
    <3> QED BY <2>1, LeastOf
  <2>3. PICK i \in newlines : x = to - 1 - i
    OBVIOUS
  <2>4. \A j \in newlines : j <= i
    <3> TAKE j \in newlines
    <3>1. to - 1 - i <= to - 1 - j
      BY <2>2, <2>3
    <3> QED BY <3>1
  <2>5. last \in newlines
    <3> HIDE DEF newlines
    <3> QED BY <2>4
  <2> QED BY <2>5
<1>3. /\ l.line + Cardinality(newlines) \in Nat
      /\ (IF newlines = {} THEN l.col + (to - from) ELSE to - last - 1) \in Nat
      /\ l.index + (to - from) \in Nat
  <2>1. l.line \in Nat /\ l.col \in Nat /\ l.index \in Nat
    BY DEF Locations
  <2>2. to - from \in Nat
    OBVIOUS
  <2> HIDE DEF newlines, last
  <2>3. newlines # {} => to - last - 1 \in Nat
    BY <1>2
  <2>4. l.line + Cardinality(newlines) \in Nat
    BY <1>1, <2>1
  <2>5. l.col + (to - from) \in Nat /\ l.index + (to - from) \in Nat
    BY <2>1, <2>2
  <2> QED BY <2>3, <2>4, <2>5
<1> QED BY <1>3 DEF Across, Locations

LEMMA AcrossNothing ==
  ASSUME text \in Seq(Chars), NEW c \in 0..Len(text), NEW l \in Locations
  PROVE  Across(c, c, l) = l
<1> DEFINE newlines == {i \in c..(c - 1) : Char(i) = "\n"}
<1>1. newlines = {} /\ Cardinality(newlines) = 0
  <2>1. newlines = {}
    OBVIOUS
  <2> QED BY <2>1, FS_EmptySet
<1>2. l = [line |-> l.line, col |-> l.col, index |-> l.index]
      /\ l.line \in Nat /\ l.col \in Nat /\ l.index \in Nat
  BY DEF Locations
<1>3. Across(c, c, l) = [line |-> l.line + 0, col |-> l.col + (c - c), index |-> l.index + (c - c)]
  <2> HIDE DEF newlines
  <2>1. Across(c, c, l) = [line  |-> l.line + Cardinality(newlines),
                           col   |-> IF newlines = {} THEN l.col + (c - c)
                                       ELSE c - (CHOOSE i \in newlines : \A j \in newlines : j <= i) - 1,
                           index |-> l.index + (c - c)]
    BY DEF Across, newlines
  <2> QED BY <1>1, <2>1
<1> QED BY <1>2, <1>3

\* A comment that ends in the text, blanks, and then the token.
LEMMA NextToken ==
  ASSUME text \in Seq(Chars), NEW c \in 0..(Len(text) + 1), NEW l \in Locations,
         ~Unterminated(c), ~AtEof(c)
  PROVE  LET next == GetNext(c, l) IN
         /\ c + 1 < Len(text)
         /\ CommentEnd(c) \in c..Len(text)
         /\ next.cursor \in CommentEnd(c)..Len(text)
         /\ \A k \in CommentEnd(c)..(next.cursor - 1) : Char(k) \in Blanks
         /\ Char(next.cursor) \notin Blanks
         /\ next.loc \in Locations
         /\ next.tok = TokenAt(next.cursor, next.loc)
<1>1. Len(text) \in Nat /\ c + 1 < Len(text)
  BY DEF AtEof
<1>2. CommentEnd(c) \in c..Len(text)
  <2>1. CommentEnd(c) <= Len(text) \/ ~(CommentEnd(c) \in Int)
    BY DEF Unterminated
  <2>2. CommentEnd(c) \in c..(Len(text) + 1)
    <3>1. c \in 0..Len(text) /\ "NUL" \notin Chars \ {"\n"}
      BY <1>1, CharsAssumption
    <3>2. EndOfRun(c, Chars \ {"\n"}) \in c..Len(text)
      BY <1>1, <3>1, EndOfRunFound
    <3> QED BY <1>1, <3>2 DEF CommentEnd
  <2> QED BY <1>1, <2>1, <2>2
<1> DEFINE start == CommentEnd(c)
           end   == EndOfRun(start, Blanks)
           moved == Along(start - c, l)
           there == Across(start, end, moved)
<1>3. GetNext(c, l) = [cursor |-> end, loc |-> there, tok |-> TokenAt(end, there)]
  BY DEF GetNext
<1>4. end \in start..Len(text) /\ Char(end) \notin Blanks
      /\ \A k \in start..(end - 1) : Char(k) \in Blanks
  <2>1. "NUL" \notin Blanks /\ start \in 0..Len(text)
    BY <1>1, <1>2 DEF Blanks
  <2> HIDE DEF start
  <2> QED BY <1>1, <2>1, EndOfRunFound
<1>5. there \in Locations
  <2>1. moved \in Locations
    <3>1. start - c \in Nat
      BY <1>1, <1>2
    <3>2. l.line \in Nat /\ l.col \in Nat /\ l.index \in Nat
      BY DEF Locations
    <3> HIDE DEF start
    <3> QED BY <3>1, <3>2 DEF Along, Locations
  <2>2. start \in 0..Len(text) /\ end \in start..Len(text)
    BY <1>1, <1>2, <1>4
  <2> HIDE DEF moved, start, end
  <2> QED BY <2>1, <2>2, AcrossFits
<1> HIDE DEF there, end
<1> QED BY <1>1, <1>2, <1>3, <1>4, <1>5

\* On a token that is no comment a call moves nothing.
LEMMA NextTokenHere ==
  ASSUME text \in Seq(Chars), NEW c \in 0..Len(text), NEW l \in Locations,
         ~AtEof(c), Char(c) \notin Blanks, ~CommentAt(c)
  PROVE  GetNext(c, l) = [cursor |-> c, loc |-> l, tok |-> TokenAt(c, l)]
<1>1. CommentEnd(c) = c
  BY DEF CommentEnd, CommentAt
<1>2. EndOfRun(c, Blanks) = c
  BY EmptyRun
<1>3. Along(c - c, l) = l
  <2>1. l = [line |-> l.line, col |-> l.col, index |-> l.index]
        /\ l.col \in Nat /\ l.index \in Nat
    BY DEF Locations
  <2>2. l.col + (c - c) = l.col /\ l.index + (c - c) = l.index
    BY <2>1
  <2> QED BY <2>1, <2>2 DEF Along
<1>4. Across(c, c, l) = l
  BY AcrossNothing
<1> QED BY <1>1, <1>2, <1>3, <1>4 DEF GetNext

-----------------------------------------------------------------------------
(* What is delivered stays in order, whatever the text.                    *)

LEMMA OneMore ==
  ASSUME NEW Elems, NEW s \in Seq(Elems), NEW x
  PROVE  /\ Append(s, x) \in Seq(Elems \cup {x})
         /\ Len(s) \in Nat /\ DOMAIN s = 1..Len(s)
         /\ DOMAIN Append(s, x) = 1..(Len(s) + 1)
         /\ \A i \in 1..Len(s) : Append(s, x)[i] = s[i]
         /\ Append(s, x)[Len(s) + 1] = x
<1>1. s \in Seq(Elems \cup {x})
  <2>1. s \in [1..Len(s) -> Elems] /\ Len(s) \in Nat
    BY LenProperties
  <2>2. s \in [1..Len(s) -> Elems \cup {x}]
    BY <2>1
  <2> QED BY <2>1, <2>2, SeqDef
<1>2. x \in Elems \cup {x}
  OBVIOUS
<1> QED BY <1>1, <1>2, AppendProperties, LenProperties

\* No token delivered reaches over p.
Behind(p) == \A i \in DOMAIN delivered : delivered[i].tok.at + delivered[i].tok.count <= p

DeliveredOK ==
  /\ \E Elems : delivered \in Seq(Elems)
  /\ \A i \in DOMAIN delivered : delivered[i].tok.at \in Nat /\ delivered[i].tok.count \in Nat

\* The token of the turn starts where the deliveries end, and once the loop has
\* moved on, the cursor is behind it: a comment after the token of tctx_advance
\* only moves it further, and at the end of the text nothing follows.
Order ==
  /\ phase = "fetch" => AtEof(cursor) \/ Behind(cursor)
  /\ phase = "advance" => /\ cursor \in 0..Len(text)
                          /\ Char(cursor) \notin Blanks
                          /\ token = TokenAt(cursor, loc)
                          /\ Behind(cursor)
  /\ phase \in {"look", "deliver"} =>
       /\ token.at \in Nat /\ token.count \in Nat
       /\ Behind(token.at)
       /\ AtEof(cursor) \/ token.at + token.count <= cursor

TInv == TypeOK /\ DeliveredOK /\ TokensApart /\ Order

\* What a call of get_next leaves, at the end of the text and before it.
LEMMA AtEofStays ==
  ASSUME NEW c, NEW l, AtEof(c)
  PROVE  GetNext(c, l) = [cursor |-> c, loc |-> l, tok |-> Eof]
  BY DEF GetNext

LEMMA TInvInit == Init => TInv
<1> SUFFICES ASSUME Init PROVE TInv
  OBVIOUS
<1>1. text \in Seq(Chars)
  BY TextsAssumption DEF Init
<1>2. delivered = <<>> /\ DOMAIN delivered = {} /\ delivered \in Seq({})
  BY DEF Init
<1>3. TypeOK
  BY <1>1 DEF Init, TypeOK, NoLoc, Locations
<1>4. DeliveredOK
  BY <1>2 DEF DeliveredOK
<1>5. TokensApart
  BY <1>2 DEF TokensApart
<1>6. Order
  BY <1>2 DEF Init, Order, Behind
<1> QED BY <1>3, <1>4, <1>5, <1>6 DEF TInv

LEMMA TInvFetch == TInv /\ Fetch => TInv'
<1> SUFFICES ASSUME TInv, Fetch PROVE TInv'
  OBVIOUS
<1> DEFINE next == GetNext(cursor, loc)
<1>1. /\ phase = "fetch" /\ ~Unterminated(cursor)
      /\ token' = next.tok /\ cursor' = next.cursor /\ loc' = next.loc
      /\ phase' = IF next.tok.type = "EOF" THEN "end" ELSE "advance"
      /\ UNCHANGED <<client, text, lookahead, delivered>>
  BY DEF Fetch
<1>2. /\ text \in Seq(Chars) /\ cursor \in 0..(Len(text) + 1) /\ loc \in Locations
      /\ Len(text) \in Nat
  BY DEF TInv, TypeOK
<1> HIDE DEF next
<1>3. CASE AtEof(cursor)
  <2>1. next.cursor = cursor /\ next.loc = loc /\ next.tok.type = "EOF"
    BY <1>3, AtEofStays DEF next, Eof, Token
  <2>2. phase' = "end" /\ cursor' = cursor /\ loc' = loc
    BY <1>1, <2>1
  <2> QED BY <1>1, <2>2 DEF TInv, TypeOK, DeliveredOK, TokensApart, Order
<1>4. CASE ~AtEof(cursor)
  <2>1. /\ CommentEnd(cursor) \in cursor..Len(text)
        /\ next.cursor \in CommentEnd(cursor)..Len(text)
        /\ Char(next.cursor) \notin Blanks
        /\ next.loc \in Locations
        /\ next.tok = TokenAt(next.cursor, next.loc)
    BY <1>1, <1>2, <1>4, NextToken DEF next
  <2>2. next.cursor \in 0..Len(text) /\ next.cursor >= cursor
    BY <1>2, <2>1
  <2>3. TypeOK'
    BY <1>1, <1>2, <2>1, <2>2 DEF TInv, TypeOK
  <2>4. DeliveredOK' /\ TokensApart'
    BY <1>1 DEF TInv, DeliveredOK, TokensApart
  <2>5. Behind(next.cursor)
    <3>1. Behind(cursor)
      BY <1>1, <1>4 DEF TInv, Order
    <3>2. \A i \in DOMAIN delivered : delivered[i].tok.at + delivered[i].tok.count \in Nat
      BY DEF TInv, DeliveredOK
    <3> QED BY <1>2, <2>2, <3>1, <3>2 DEF Behind
  <2>6. Order'
    <3>1. phase' \in {"end", "advance"}
      BY <1>1
    <3>2. (cursor \in 0..Len(text))' /\ (Char(cursor) \notin Blanks)'
      BY <1>1, <2>1, <2>2 DEF Char
    <3>3. (token = TokenAt(cursor, loc))'
      <4>1. TokenAt(next.cursor, next.loc) = TokenAt(cursor, loc)'
        BY <1>1 DEF TokenAt, Patterns, Match, StringLit, CharLit, HexLit, DoubleLit, DecimalLit,
                    Identifier, Word, Run, EndOfRun, Char
      <4> QED BY <1>1, <2>1, <4>1
    <3>4. Behind(cursor)'
      BY <1>1, <2>5 DEF Behind
    <3> QED BY <3>1, <3>2, <3>3, <3>4 DEF Order
  <2> QED BY <2>3, <2>4, <2>6 DEF TInv
<1> QED BY <1>3, <1>4

LEMMA CommentIsSlash ==
  ASSUME text \in Seq(Chars), NEW c \in 0..Len(text), CommentAt(c)
  PROVE  Char(c) = "/" /\ CommentEnd(c) > c
<1> DEFINE w == <<"/", "/">>
<1>1. Word(c, w) > 0
  BY DEF CommentAt
<1>2. Len(w) = 2 /\ w[1] = "/"
  OBVIOUS
<1>3. Char(c) = "/"
  <2> HIDE DEF w
  <2>1. \A i \in 1..2 : Char(c + i - 1) = w[i]
    BY <1>1, <1>2 DEF Word
  <2>2. Char(c + 1 - 1) = w[1] /\ c + 1 - 1 = c
    BY <2>1
  <2> QED BY <1>2, <2>2
<1>4. CommentEnd(c) > c
  <2>1. CommentEnd(c) = EndOfRun(c, Chars \ {"\n"}) + 1
    BY DEF CommentAt, CommentEnd
  <2>2. EndOfRun(c, Chars \ {"\n"}) \in c..Len(text)
    BY EndOfRunFound, CharsAssumption
  <2> QED BY <2>1, <2>2
<1> QED BY <1>3, <1>4

LEMMA TInvAdvance == TInv /\ Advance => TInv'
<1> SUFFICES ASSUME TInv, Advance PROVE TInv'
  OBVIOUS
<1> DEFINE next == GetNext(cursor, loc)
<1>1. /\ phase = "advance" /\ ~Unterminated(cursor)
      /\ cursor' = next.cursor + next.tok.count /\ loc' = next.tok.loc
      /\ phase' \in {"look", "deliver"}
      /\ UNCHANGED <<client, text, token, lookahead, delivered>>
  BY DEF Advance
<1>2. /\ text \in Seq(Chars) /\ cursor \in 0..Len(text) /\ loc \in Locations
      /\ Len(text) \in Nat
      /\ Char(cursor) \notin Blanks
      /\ token = TokenAt(cursor, loc)
      /\ Behind(cursor)
  BY <1>1 DEF TInv, TypeOK, Order
<1>3. /\ token.at = cursor
      /\ token.count \in Nat
      /\ Char(cursor) = "/" => token.count = 1
  BY <1>2, TokenFits
<1> HIDE DEF next
<1>4. /\ cursor' \in 0..(Len(text) + 1)
      /\ loc' \in Locations
      /\ AtEof(cursor') \/ token.at + token.count <= cursor'
  <2>1. CASE AtEof(cursor)
    <3>1. next.cursor = cursor /\ next.tok.count = 0 /\ next.tok.loc = NoLoc
      BY <2>1, AtEofStays DEF next, Eof, Token
    <3>2. cursor' = cursor
      BY <1>1, <1>2, <3>1
    <3>3. NoLoc \in Locations
      BY DEF NoLoc, Locations
    <3> QED BY <1>1, <1>2, <2>1, <3>1, <3>2, <3>3
  <2>2. CASE ~AtEof(cursor)
    <3>1. /\ CommentEnd(cursor) \in cursor..Len(text)
          /\ next.cursor \in CommentEnd(cursor)..Len(text)
          /\ next.loc \in Locations
          /\ next.tok = TokenAt(next.cursor, next.loc)
      BY <1>1, <1>2, <2>2, NextToken DEF next
    <3>2. next.cursor \in 0..Len(text) /\ next.cursor >= cursor
      BY <1>2, <3>1
    <3>3. /\ next.tok.count \in Nat \ {0}
          /\ next.cursor < Len(text) => next.cursor + next.tok.count <= Len(text)
          /\ next.cursor = Len(text) => next.tok.count = 1
          /\ next.tok.loc \in {NoLoc, next.loc}
      BY <1>2, <3>1, <3>2, TokenFits
    <3>4. cursor' \in 0..(Len(text) + 1)
      BY <1>1, <1>2, <3>2, <3>3
    <3>5. loc' \in Locations
      BY <1>1, <3>1, <3>3 DEF NoLoc, Locations
    <3>6. token.at + token.count <= cursor'
      <4>1. CASE CommentAt(cursor)
        <5>1. token.count = 1 /\ CommentEnd(cursor) > cursor
          BY <1>2, <1>3, <4>1, CommentIsSlash
        <5> QED BY <1>1, <1>2, <1>3, <3>1, <3>3, <5>1
      <4>2. CASE ~CommentAt(cursor)
        <5>1. next.cursor = cursor /\ next.tok = token
          BY <1>2, <2>2, <4>2, NextTokenHere DEF next
        <5> QED BY <1>1, <1>2, <1>3, <5>1
      <4> QED BY <4>1, <4>2
    <3> QED BY <3>4, <3>5, <3>6
  <2> QED BY <2>1, <2>2
<1>5. TypeOK'
  BY <1>1, <1>4 DEF TInv, TypeOK
<1>6. DeliveredOK' /\ TokensApart'
  BY <1>1 DEF TInv, DeliveredOK, TokensApart
<1>7. Order'
  <2>1. Behind(token.at)'
    BY <1>1, <1>2, <1>3 DEF Behind
  <2>2. (AtEof(cursor) \/ token.at + token.count <= cursor)'
    <3>1. AtEof(cursor') <=> AtEof(cursor)'
      BY <1>1 DEF AtEof, Char
    <3> QED BY <1>1, <1>4, <3>1
  <2>3. (token.at \in Nat /\ token.count \in Nat)'
    BY <1>1, <1>2, <1>3
  <2> QED BY <1>1, <2>1, <2>2, <2>3 DEF Order
<1> QED BY <1>5, <1>6, <1>7 DEF TInv

LEMMA TInvLook == TInv /\ Look => TInv'
<1> SUFFICES ASSUME TInv, Look PROVE TInv'
  OBVIOUS
<1> DEFINE next == GetNext(cursor, loc)
<1>1. /\ phase = "look" /\ phase' = "deliver" /\ ~Unterminated(cursor)
      /\ cursor' = next.cursor /\ loc' = next.loc
      /\ UNCHANGED <<client, text, token, delivered>>
  BY DEF Look
<1>2. /\ text \in Seq(Chars) /\ cursor \in 0..(Len(text) + 1) /\ loc \in Locations
      /\ Len(text) \in Nat
      /\ token.at \in Nat /\ token.count \in Nat
      /\ Behind(token.at)
      /\ AtEof(cursor) \/ token.at + token.count <= cursor
  BY <1>1 DEF TInv, TypeOK, Order
<1> HIDE DEF next
<1>3. /\ cursor' \in 0..(Len(text) + 1)
      /\ loc' \in Locations
      /\ AtEof(cursor') \/ token.at + token.count <= cursor'
  <2>1. CASE AtEof(cursor)
    <3>1. next.cursor = cursor /\ next.loc = loc
      BY <2>1, AtEofStays DEF next
    <3> QED BY <1>1, <1>2, <2>1, <3>1
  <2>2. CASE ~AtEof(cursor)
    <3>1. /\ CommentEnd(cursor) \in cursor..Len(text)
          /\ next.cursor \in CommentEnd(cursor)..Len(text)
          /\ next.loc \in Locations
      BY <1>1, <1>2, <2>2, NextToken DEF next
    <3> QED BY <1>1, <1>2, <2>2, <3>1
  <2> QED BY <2>1, <2>2
<1>4. TypeOK'
  BY <1>1, <1>3 DEF TInv, TypeOK
<1>5. DeliveredOK' /\ TokensApart'
  BY <1>1 DEF TInv, DeliveredOK, TokensApart
<1>6. Order'
  <2>1. Behind(token.at)'
    BY <1>1, <1>2 DEF Behind
  <2>2. (AtEof(cursor) \/ token.at + token.count <= cursor)'
    <3>1. AtEof(cursor') <=> AtEof(cursor)'
      BY <1>1 DEF AtEof, Char
    <3> QED BY <1>1, <1>3, <3>1
  <2>3. (token.at \in Nat /\ token.count \in Nat)'
    BY <1>1, <1>2
  <2> QED BY <1>1, <2>1, <2>2, <2>3 DEF Order
<1> QED BY <1>4, <1>5, <1>6 DEF TInv

LEMMA TInvDeliver == TInv /\ Deliver => TInv'
<1> SUFFICES ASSUME TInv, Deliver PROVE TInv'
  OBVIOUS
<1> DEFINE delivery == [tok |-> token, ahead |-> lookahead]
           n == Len(delivered)
<1>1. /\ phase = "deliver" /\ phase' = "fetch"
      /\ delivered' = Append(delivered, delivery)
      /\ UNCHANGED <<client, text, cursor, loc, token, lookahead>>
  BY DEF Deliver
<1>2. /\ cursor \in 0..(Len(text) + 1) /\ Len(text) \in Nat
      /\ token.at \in Nat /\ token.count \in Nat
      /\ Behind(token.at)
      /\ AtEof(cursor) \/ token.at + token.count <= cursor
  BY <1>1 DEF TInv, TypeOK, Order
<1>3. PICK Elems : delivered \in Seq(Elems)
  BY DEF TInv, DeliveredOK
<1> HIDE DEF delivery
<1>4. /\ delivered' \in Seq(Elems \cup {delivery})
      /\ n \in Nat /\ DOMAIN delivered = 1..n
      /\ DOMAIN delivered' = 1..(n + 1)
      /\ \A i \in 1..n : delivered'[i] = delivered[i]
      /\ delivered'[n + 1] = delivery
  BY <1>1, <1>3, OneMore
<1> HIDE DEF n
<1>5. delivery.tok = token
  BY DEF delivery
<1>6. \A i \in 1..n : /\ delivered[i].tok.at \in Nat /\ delivered[i].tok.count \in Nat
                     /\ delivered[i].tok.at + delivered[i].tok.count <= token.at
  BY <1>2, <1>4 DEF TInv, DeliveredOK, Behind
<1>7. TypeOK'
  BY <1>1 DEF TInv, TypeOK
<1>8. DeliveredOK'
  <2>1. \A i \in 1..(n + 1) : delivered'[i].tok.at \in Nat /\ delivered'[i].tok.count \in Nat
    <3> TAKE i \in 1..(n + 1)
    <3>1. i \in 1..n \/ i = n + 1
      BY <1>4
    <3> QED BY <1>2, <1>4, <1>5, <1>6, <3>1
  <2> QED BY <1>4, <2>1 DEF DeliveredOK
<1>9. TokensApart'
  <2> SUFFICES ASSUME NEW i \in 1..(n + 1), NEW j \in 1..(n + 1), i < j
               PROVE  delivered'[i].tok.at + delivered'[i].tok.count <= delivered'[j].tok.at
    BY <1>4 DEF TokensApart
  <2>1. i \in 1..n /\ (j \in 1..n \/ j = n + 1)
    BY <1>4
  <2>2. CASE j \in 1..n
    <3>1. delivered[i].tok.at + delivered[i].tok.count <= delivered[j].tok.at
      BY <1>4, <2>1, <2>2 DEF TInv, TokensApart
    <3> QED BY <1>4, <2>1, <2>2, <3>1
  <2>3. CASE j = n + 1
    BY <1>4, <1>5, <1>6, <2>1, <2>3
  <2> QED BY <2>1, <2>2, <2>3
<1>10. Order'
  <2>1. ASSUME ~AtEof(cursor)
        PROVE  Behind(cursor)'
    <3> SUFFICES ASSUME NEW i \in 1..(n + 1)
                 PROVE  delivered'[i].tok.at + delivered'[i].tok.count <= cursor
      BY <1>1, <1>4 DEF Behind
    <3>1. CASE i \in 1..n
      <4>1. delivered[i].tok.at + delivered[i].tok.count <= token.at
            /\ delivered[i].tok.at \in Nat /\ delivered[i].tok.count \in Nat
        BY <1>6, <3>1
      <4>2. delivered[i].tok.at + delivered[i].tok.count <= cursor
        BY <1>2, <2>1, <4>1, SMTT(30)
      <4> QED BY <1>4, <3>1, <4>2, SMTT(30)
    <3>2. CASE i = n + 1
      BY <1>2, <1>4, <1>5, <2>1, <3>2
    <3> QED BY <1>4, <3>1, <3>2
  <2>2. AtEof(cursor) <=> AtEof(cursor)'
    BY <1>1 DEF AtEof, Char
  <2> QED BY <1>1, <2>1, <2>2 DEF Order
<1> QED BY <1>7, <1>8, <1>9, <1>10 DEF TInv

LEMMA TInvOver == TInv /\ (Overrun \/ UNCHANGED vars) => TInv'
<1> SUFFICES ASSUME TInv, Overrun \/ UNCHANGED vars PROVE TInv'
  OBVIOUS
<1>1. /\ UNCHANGED <<client, text, cursor, loc, token, lookahead, delivered>>
      /\ phase' = phase \/ phase' = "overrun"
  BY DEF Overrun, vars
<1>2. TypeOK' /\ DeliveredOK' /\ TokensApart'
  BY <1>1 DEF TInv, TypeOK, DeliveredOK, TokensApart
<1>3. CASE phase' = "overrun"
  BY <1>2, <1>3 DEF TInv, Order
<1>4. CASE phase' = phase
  <2>1. TokenAt(cursor, loc)' = TokenAt(cursor, loc)
    BY <1>1 DEF TokenAt, Patterns, Match, StringLit, CharLit, HexLit, DoubleLit, DecimalLit,
                Identifier, Word, Run, EndOfRun, Char
  <2>2. Char(cursor)' = Char(cursor) /\ (AtEof(cursor)' <=> AtEof(cursor))
    BY <1>1 DEF AtEof, Char
  <2>3. /\ Behind(cursor)' <=> Behind(cursor)
        /\ Behind(token.at)' <=> Behind(token.at)
    BY <1>1 DEF Behind
  <2>4. Order'
    BY <1>1, <1>4, <2>1, <2>2, <2>3 DEF TInv, Order
  <2> QED BY <1>2, <2>4 DEF TInv
<1> QED BY <1>1, <1>3, <1>4

THEOREM TokenizerInvariant == Spec => []TInv
<1>1. TInv /\ [Next]_vars => TInv'
  <2> SUFFICES ASSUME TInv, [Next]_vars PROVE TInv'
    OBVIOUS
  <2>1. CASE Overrun
    BY <2>1, TInvOver
  <2>2. CASE Fetch
    BY <2>2, TInvFetch
  <2>3. CASE Advance
    BY <2>3, TInvAdvance
  <2>4. CASE Look
    BY <2>4, TInvLook
  <2>5. CASE Deliver
    BY <2>5, TInvDeliver
  <2>6. CASE Terminated
    BY <2>6, TInvOver DEF Terminated
  <2>7. CASE UNCHANGED vars
    BY <2>7, TInvOver
  <2> QED BY <2>1, <2>2, <2>3, <2>4, <2>5, <2>6, <2>7 DEF Next
<1> QED BY <1>1, TInvInit, PTL DEF Spec

\* Whatever the texts are: the cursor never passes the zero behind the text by
\* more than one, and the location stays one.
THEOREM TokenizerTypeCorrect == Spec => []TypeOK
<1>1. TInv => TypeOK
  BY DEF TInv
<1> QED BY <1>1, TokenizerInvariant, PTL

\* Whatever the texts are, and wherever comments stand in them: no character is
\* delivered twice and no token before an earlier one, although the calls of a
\* turn may see different tokens.
THEOREM TokensStayApart == Spec => []TokensApart
<1>1. TInv => TokensApart
  BY DEF TInv
<1> QED BY <1>1, TokenizerInvariant, PTL

-----------------------------------------------------------------------------
(* The loops run out of text, whatever it is. *)

LEMMA Calls ==
  /\ CallsBefore(1) \in 0..4 /\ CallsBefore(5) \in 0..5
  /\ phase = "advance" => CallsBefore(1) = 1 /\ CallsBefore(5) = 5
  /\ phase = "look" => CallsBefore(1) = 4 /\ CallsBefore(5) = 4
  /\ phase = "deliver" => CallsBefore(1) = 3 /\ CallsBefore(5) = 3
  /\ phase = "fetch" => CallsBefore(1) = 2 /\ CallsBefore(5) = 2
  /\ phase \in {"end", "overrun"} => CallsBefore(1) = 0 /\ CallsBefore(5) = 0
  BY DEF CallsBefore

LEMMA CallsNext ==
  /\ CallsBefore(1)' \in 0..4 /\ CallsBefore(5)' \in 0..5
  /\ phase' = "advance" => CallsBefore(1)' = 1 /\ CallsBefore(5)' = 5
  /\ phase' = "look" => CallsBefore(1)' = 4 /\ CallsBefore(5)' = 4
  /\ phase' = "deliver" => CallsBefore(1)' = 3 /\ CallsBefore(5)' = 3
  /\ phase' = "fetch" => CallsBefore(1)' = 2 /\ CallsBefore(5)' = 2
  /\ phase' \in {"end", "overrun"} => CallsBefore(1)' = 0 /\ CallsBefore(5)' = 0
  BY DEF CallsBefore

\* At the end of the text a call stays where it is; before it, it goes on and
\* finds a token that is not empty.
LEMMA CallMoves ==
  ASSUME TInv, ~Unterminated(cursor)
  PROVE  LET next == GetNext(cursor, loc) IN
         /\ AtEof(cursor) => next.cursor = cursor /\ next.tok = Eof
         /\ ~AtEof(cursor) => /\ next.cursor \in cursor..Len(text)
                              /\ next.tok.count \in Nat \ {0}
<1> DEFINE next == GetNext(cursor, loc)
<1>1. /\ text \in Seq(Chars) /\ cursor \in 0..(Len(text) + 1) /\ loc \in Locations
      /\ Len(text) \in Nat
  BY DEF TInv, TypeOK
<1> HIDE DEF next
<1>2. ASSUME AtEof(cursor)
      PROVE  next.cursor = cursor /\ next.tok = Eof
  BY <1>2, AtEofStays DEF next
<1>3. ASSUME ~AtEof(cursor)
      PROVE  next.cursor \in cursor..Len(text) /\ next.tok.count \in Nat \ {0}
  <2>1. /\ CommentEnd(cursor) \in cursor..Len(text)
        /\ next.cursor \in CommentEnd(cursor)..Len(text)
        /\ next.tok = TokenAt(next.cursor, next.loc)
    BY <1>1, <1>3, NextToken DEF next
  <2>2. next.cursor \in cursor..Len(text) /\ next.cursor \in 0..Len(text)
    BY <1>1, <2>1
  <2>3. next.tok.count \in Nat \ {0}
    BY <1>1, <2>1, <2>2, TokenFits
  <2> QED BY <2>2, <2>3
<1> QED BY <1>2, <1>3 DEF next

\* What makes Remaining fall: the cursor moves on, or it stays and the turn does
\* not; where the end of the text is reached, little is left.
LEMMA Falls ==
  ASSUME TypeOK, TypeOK', text' = text,
         \/ AtEof(cursor) /\ AtEof(cursor)' /\ CallsBefore(5)' < CallsBefore(5)
         \/ ~AtEof(cursor) /\ AtEof(cursor)'
         \/ /\ ~AtEof(cursor) /\ ~AtEof(cursor)'
            /\ \/ cursor' > cursor
               \/ cursor' = cursor /\ CallsBefore(1)' < CallsBefore(1)
  PROVE  Remaining' \in Nat /\ Remaining' < Remaining
<1>1. /\ Len(text) \in Nat /\ cursor \in 0..(Len(text) + 1) /\ cursor' \in 0..(Len(text) + 1)
      /\ Len(text)' = Len(text)
  BY DEF TypeOK
<1>2. ~AtEof(cursor) => cursor + 1 < Len(text)
  BY <1>1 DEF AtEof
<1>3. ~AtEof(cursor)' => cursor' + 1 < Len(text)
  BY <1>1 DEF AtEof
<1>4. /\ CallsBefore(1) \in 0..4 /\ CallsBefore(5) \in 0..5
      /\ CallsBefore(1)' \in 0..4 /\ CallsBefore(5)' \in 0..5
  BY Calls, CallsNext
<1>5. /\ AtEof(cursor) => Remaining = CallsBefore(5)
      /\ ~AtEof(cursor) => Remaining = 5 * (Len(text) + 1 - cursor) + CallsBefore(1)
      /\ AtEof(cursor)' => Remaining' = CallsBefore(5)'
      /\ ~AtEof(cursor)' => Remaining' = 5 * (Len(text) + 1 - cursor') + CallsBefore(1)'
  BY <1>1 DEF Remaining
<1>6. CASE AtEof(cursor) /\ AtEof(cursor)' /\ CallsBefore(5)' < CallsBefore(5)
  BY <1>4, <1>5, <1>6
<1>7. CASE ~AtEof(cursor) /\ AtEof(cursor)'
  <2>1. 5 * (Len(text) + 1 - cursor) \in Nat /\ 5 * (Len(text) + 1 - cursor) > 5
    BY <1>1, <1>2, <1>7
  <2> QED BY <1>4, <1>5, <1>7, <2>1
<1>8. CASE ~AtEof(cursor) /\ ~AtEof(cursor)' /\ cursor' > cursor
  <2>1. /\ Len(text) + 1 - cursor' \in Nat /\ Len(text) + 1 - cursor \in Nat
        /\ Len(text) + 1 - cursor' < Len(text) + 1 - cursor
    BY <1>1, <1>8
  <2> QED BY <1>4, <1>5, <1>8, <2>1
<1>9. CASE ~AtEof(cursor) /\ ~AtEof(cursor)' /\ cursor' = cursor /\ CallsBefore(1)' < CallsBefore(1)
  <2>1. Len(text) + 1 - cursor \in Nat
    BY <1>1
  <2> QED BY <1>4, <1>5, <1>9, <2>1
<1> QED BY <1>6, <1>7, <1>8, <1>9

LEMMA FetchFalls ==
  ASSUME TInv, TInv', Fetch
  PROVE  Remaining' \in Nat /\ Remaining' < Remaining
<1> DEFINE next == GetNext(cursor, loc)
<1>1. /\ phase = "fetch" /\ ~Unterminated(cursor) /\ cursor' = next.cursor /\ text' = text
      /\ phase' = IF next.tok.type = "EOF" THEN "end" ELSE "advance"
  BY DEF Fetch
<1>2. TypeOK /\ TypeOK' /\ cursor \in Nat /\ cursor' \in Nat
  BY DEF TInv, TypeOK
<1>3. CASE AtEof(cursor)
  <2>1. cursor' = cursor /\ phase' = "end"
    BY <1>1, <1>3, CallMoves DEF Eof, Token
  <2>2. AtEof(cursor)'
    BY <1>1, <1>3, <2>1 DEF AtEof, Char
  <2>3. CallsBefore(5)' < CallsBefore(5)
    BY <1>1, <2>1, Calls, CallsNext
  <2> QED BY <1>1, <1>2, <1>3, <2>2, <2>3, Falls
<1>4. CASE ~AtEof(cursor)
  <2>1. cursor' >= cursor
    BY <1>1, <1>2, <1>4, CallMoves
  <2>2. CallsBefore(1)' < CallsBefore(1)
    BY <1>1, Calls, CallsNext
  <2>3. cursor' > cursor \/ cursor' = cursor
    BY <1>2, <2>1
  <2> QED BY <1>1, <1>2, <1>4, <2>2, <2>3, Falls
<1> QED BY <1>3, <1>4

LEMMA AdvanceFalls ==
  ASSUME TInv, TInv', Advance
  PROVE  Remaining' \in Nat /\ Remaining' < Remaining
<1> DEFINE next == GetNext(cursor, loc)
<1>1. /\ phase = "advance" /\ ~Unterminated(cursor) /\ text' = text
      /\ cursor' = next.cursor + next.tok.count
      /\ phase' \in {"look", "deliver"}
  BY DEF Advance
<1>2. TypeOK /\ TypeOK' /\ cursor \in Nat /\ cursor' \in Nat /\ Len(text) \in Nat
  BY DEF TInv, TypeOK
<1>3. CASE AtEof(cursor)
  <2>1. cursor' = cursor
    <3>1. next.cursor = cursor /\ next.tok.count = 0
      BY <1>1, <1>3, CallMoves DEF Eof, Token
    <3> HIDE DEF next
    <3> QED BY <1>1, <1>2, <3>1
  <2>2. AtEof(cursor)'
    BY <1>1, <1>3, <2>1 DEF AtEof, Char
  <2>3. CallsBefore(5)' < CallsBefore(5)
    BY <1>1, Calls, CallsNext
  <2> QED BY <1>1, <1>2, <1>3, <2>2, <2>3, Falls
<1>4. CASE ~AtEof(cursor)
  <2>1. next.cursor \in cursor..Len(text) /\ next.tok.count \in Nat \ {0}
    BY <1>1, <1>4, CallMoves
  <2>2. cursor' > cursor
    <3> HIDE DEF next
    <3> QED BY <1>1, <1>2, <2>1
  <2> QED BY <1>1, <1>2, <1>4, <2>2, Falls
<1> QED BY <1>3, <1>4

LEMMA LookFalls ==
  ASSUME TInv, TInv', Look
  PROVE  Remaining' \in Nat /\ Remaining' < Remaining
<1> DEFINE next == GetNext(cursor, loc)
<1>1. /\ phase = "look" /\ phase' = "deliver" /\ ~Unterminated(cursor) /\ text' = text
      /\ cursor' = next.cursor
  BY DEF Look
<1>2. TypeOK /\ TypeOK' /\ cursor \in Nat /\ cursor' \in Nat
  BY DEF TInv, TypeOK
<1>3. CASE AtEof(cursor)
  <2>1. cursor' = cursor
    BY <1>1, <1>3, CallMoves
  <2>2. AtEof(cursor)'
    BY <1>1, <1>3, <2>1 DEF AtEof, Char
  <2>3. CallsBefore(5)' < CallsBefore(5)
    BY <1>1, Calls, CallsNext
  <2> QED BY <1>1, <1>2, <1>3, <2>2, <2>3, Falls
<1>4. CASE ~AtEof(cursor)
  <2>1. cursor' >= cursor
    BY <1>1, <1>2, <1>4, CallMoves
  <2>2. CallsBefore(1)' < CallsBefore(1)
    BY <1>1, Calls, CallsNext
  <2>3. cursor' > cursor \/ cursor' = cursor
    BY <1>2, <2>1
  <2> QED BY <1>1, <1>2, <1>4, <2>2, <2>3, Falls
<1> QED BY <1>3, <1>4

LEMMA OtherFalls ==
  ASSUME TInv, TInv', Deliver \/ Overrun
  PROVE  Remaining' \in Nat /\ Remaining' < Remaining
<1>1. /\ cursor' = cursor /\ text' = text
      /\ \/ phase = "deliver" /\ phase' = "fetch"
         \/ phase \in {"fetch", "advance", "look"} /\ phase' = "overrun"
  BY DEF Deliver, Overrun
<1>2. TypeOK /\ TypeOK'
  BY DEF TInv
<1>3. AtEof(cursor)' <=> AtEof(cursor)
  BY <1>1 DEF AtEof, Char
<1>4. CallsBefore(1)' < CallsBefore(1) /\ CallsBefore(5)' < CallsBefore(5)
  BY <1>1, Calls, CallsNext
<1> QED BY <1>1, <1>2, <1>3, <1>4, Falls

\* Whatever the text, comments and characters that are not recognised included:
\* a step of either loop leaves less to do, so both end as long as they go on.
THEOREM TokenizerRunsOut == Spec => TurnsRunOut
<1>1. TInv /\ TInv' /\ [Next]_vars => [Remaining' \in Nat /\ Remaining' < Remaining]_vars
  <2> SUFFICES ASSUME TInv, TInv', Next, vars' # vars
               PROVE  Remaining' \in Nat /\ Remaining' < Remaining
    OBVIOUS
  <2>1. Fetch \/ Advance \/ Look \/ Deliver \/ Overrun
    BY DEF Next, Terminated
  <2> QED BY <2>1, FetchFalls, AdvanceFalls, LookFalls, OtherFalls
<1> QED BY <1>1, TokenizerInvariant, PTL DEF Spec, TurnsRunOut

-----------------------------------------------------------------------------
(* Texts as the three calls of a turn expect them: the last character is a *)
(* newline, and a comment opens the text or is not there.                  *)

WellFormedText ==
  /\ Len(text) > 0 => Char(Len(text) - 1) = "\n"
  /\ \A c \in 0..Len(text) : CommentAt(c) => c < CommentEnd(0)

Covered(p) ==
  \A c \in CommentEnd(0)..(p - 1) :
    Char(c) \notin Blanks => \E i \in DOMAIN delivered : Covers(delivered[i].tok, c)

Placed(tok) == tok.at \in CommentEnd(0)..Len(text)

\* After the first call the cursor is behind the comment the text opens with.
Places ==
  /\ \A i \in DOMAIN delivered : Placed(delivered[i].tok)
  /\ lookahead.type = "EOF" \/ lookahead.count = 0 \/ Placed(lookahead)
  /\ phase = "fetch" => \/ cursor = 0 /\ delivered = <<>>
                        \/ cursor \in CommentEnd(0)..Len(text)
  /\ phase \in {"advance", "look", "deliver"} =>
       cursor \in CommentEnd(0)..Len(text) /\ Placed(token)
  /\ phase = "end" => AtEof(cursor)

\* Up to the token of the turn everything is delivered; what the cursor has
\* moved over since is that token.
Coverage ==
  /\ phase \in {"fetch", "advance", "end"} => Covered(cursor)
  /\ phase \in {"look", "deliver"} =>
       /\ Covered(token.at)
       /\ \A c \in token.at..(cursor - 1) : Char(c) \notin Blanks => Covers(token, c)

\* The lookahead is what the next call finds, unless that call ends the loop.
Ahead(a) ==
  /\ AtEof(cursor) => a.type = "EOF" \/ a.at = Len(text)
  /\ ~AtEof(cursor) => a = TokenAt(cursor, loc) /\ Char(cursor) \notin Blanks

LastAhead == delivered[Len(delivered)].ahead

Aheads ==
  client = "parse" =>
    /\ \A i \in DOMAIN delivered : i < Len(delivered) => delivered[i].ahead = delivered[i + 1].tok
    /\ phase = "deliver" => Ahead(lookahead)
    /\ delivered # <<>> =>
         /\ phase = "fetch" => Ahead(LastAhead)
         /\ phase \in {"advance", "look", "deliver"} => LastAhead = token
         /\ phase = "end" => LastAhead.type = "EOF" \/ LastAhead.at = Len(text)

WInv == WellFormedText /\ Places /\ Coverage /\ Aheads

\* The text does not change, so neither does what is read in it.
LEMMA TextStays ==
  ASSUME text' = text
  PROVE  /\ Char(cursor)' = Char(cursor')
         /\ AtEof(cursor)' <=> AtEof(cursor')
         /\ CommentEnd(0)' = CommentEnd(0)
         /\ TokenAt(cursor, loc)' = TokenAt(cursor', loc')
         /\ WellFormedText' <=> WellFormedText
<1>1. CommentEnd(0)' = CommentEnd(0)
  BY DEF CommentEnd, Word, EndOfRun, Char
<1>2. TokenAt(cursor, loc)' = TokenAt(cursor', loc')
  BY DEF TokenAt, Patterns, Match, StringLit, CharLit, HexLit, DoubleLit, DecimalLit,
         Identifier, Word, Run, EndOfRun, Char
<1>3. WellFormedText' <=> WellFormedText
  BY DEF WellFormedText, CommentAt, CommentEnd, Word, EndOfRun, Char
<1>4. Char(cursor)' = Char(cursor') /\ (AtEof(cursor)' <=> AtEof(cursor'))
  BY DEF AtEof, Char
<1> QED BY <1>1, <1>2, <1>3, <1>4

LEMMA FirstComment ==
  ASSUME text \in Seq(Chars)
  PROVE  CommentEnd(0) \in Nat
<1>1. EndOfRun(0, Chars \ {"\n"}) \in 0..Len(text)
  BY EndOfRunFound, CharsAssumption
<1> QED BY <1>1 DEF CommentEnd

\* Behind the first comment there is none.
LEMMA NoComment ==
  ASSUME text \in Seq(Chars), WellFormedText, NEW c \in CommentEnd(0)..Len(text)
  PROVE  c \in 0..Len(text) /\ ~CommentAt(c) /\ CommentEnd(c) = c
<1>1. c \in 0..Len(text) /\ ~(c < CommentEnd(0))
  BY FirstComment
<1>2. ~CommentAt(c)
  BY <1>1 DEF WellFormedText
<1> QED BY <1>1, <1>2 DEF CommentAt, CommentEnd

\* Where get_next sees the end, nothing but the last newline is left.
LEMMA OnlyNewline ==
  ASSUME text \in Seq(Chars), WellFormedText, NEW c \in 0..(Len(text) + 1), AtEof(c)
  PROVE  /\ \A k \in c..(Len(text) - 1) : Char(k) \in Blanks
         /\ c <= Len(text) /\ Char(c) \notin Blanks => c = Len(text)
<1>1. Len(text) \in Nat
  OBVIOUS
<1>2. Len(text) > 0 => Char(Len(text) - 1) \in Blanks
  BY DEF WellFormedText, Blanks
<1>3. c + 1 >= Len(text)
  <2>1. Char(c) = "NUL" => c >= Len(text)
    BY <1>1, CharHere
  <2> QED BY <1>1, <2>1 DEF AtEof
<1>4. \A k \in c..(Len(text) - 1) : k = Len(text) - 1 /\ Len(text) > 0
  BY <1>1, <1>3
<1>5. c < Len(text) => c = Len(text) - 1 /\ Len(text) > 0
  BY <1>1, <1>3
<1> QED BY <1>1, <1>2, <1>4, <1>5

LEMMA WInvInit == Init /\ WellFormedText => WInv
<1> SUFFICES ASSUME Init, WellFormedText PROVE WInv
  OBVIOUS
<1>1. delivered = <<>> /\ DOMAIN delivered = {} /\ cursor = 0 /\ phase = "fetch" /\ lookahead.count = 0
  BY DEF Init, Token
<1>2. text \in Seq(Chars)
  BY TextsAssumption DEF Init
<1>3. CommentEnd(0) \in Nat
  BY <1>2, FirstComment
<1>4. Covered(cursor)
  BY <1>1, <1>3 DEF Covered
<1> QED BY <1>1, <1>4 DEF WInv, Places, Coverage, Aheads

LEMMA WInvFetch == TInv /\ WInv /\ Fetch => WInv'
<1> SUFFICES ASSUME TInv, WInv, Fetch PROVE WInv'
  OBVIOUS
<1> DEFINE next == GetNext(cursor, loc)
<1>1. /\ phase = "fetch" /\ ~Unterminated(cursor)
      /\ token' = next.tok /\ cursor' = next.cursor /\ loc' = next.loc
      /\ phase' = IF next.tok.type = "EOF" THEN "end" ELSE "advance"
      /\ UNCHANGED <<client, text, lookahead, delivered>>
  BY DEF Fetch
<1>2. /\ text \in Seq(Chars) /\ cursor \in 0..(Len(text) + 1) /\ loc \in Locations
      /\ Len(text) \in Nat /\ CommentEnd(0) \in Nat
  BY FirstComment DEF TInv, TypeOK
<1>3. /\ (cursor = 0 /\ delivered = <<>>) \/ cursor \in CommentEnd(0)..Len(text)
      /\ Covered(cursor)
      /\ \A i \in DOMAIN delivered : Placed(delivered[i].tok)
      /\ lookahead.type = "EOF" \/ lookahead.count = 0 \/ Placed(lookahead)
      /\ WellFormedText
  BY <1>1 DEF WInv, Places, Coverage
<1>4. /\ Char(cursor)' = Char(cursor')
      /\ AtEof(cursor)' <=> AtEof(cursor')
      /\ CommentEnd(0)' = CommentEnd(0)
      /\ WellFormedText'
  BY <1>1, <1>3, TextStays
<1> HIDE DEF next
<1>5. CASE AtEof(cursor)
  <2>1. next.cursor = cursor /\ next.tok.type = "EOF"
    BY <1>5, AtEofStays DEF next, Eof, Token
  <2>2. phase' = "end" /\ cursor' = cursor
    BY <1>1, <2>1
  <2>3. Places'
    BY <1>1, <1>3, <1>4, <1>5, <2>2 DEF Places, Placed
  <2>4. Coverage'
    <3>1. Covered(cursor)'
      BY <1>1, <1>3, <1>4, <2>2 DEF Covered, Char
    <3> QED BY <2>2, <3>1 DEF Coverage
  <2>5. Aheads'
    <3> SUFFICES ASSUME client = "parse" PROVE Aheads'
      BY <1>1 DEF Aheads
    <3>1. delivered # <<>> => LastAhead.type = "EOF" \/ LastAhead.at = Len(text)
      BY <1>1, <1>5 DEF WInv, Aheads, Ahead
    <3>2. LastAhead' = LastAhead
      BY <1>1 DEF LastAhead
    <3> QED BY <1>1, <2>2, <3>1, <3>2 DEF WInv, Aheads
  <2> QED BY <1>4, <2>3, <2>4, <2>5 DEF WInv
<1>6. CASE ~AtEof(cursor)
  <2>1. /\ CommentEnd(cursor) \in cursor..Len(text)
        /\ next.cursor \in CommentEnd(cursor)..Len(text)
        /\ \A k \in CommentEnd(cursor)..(next.cursor - 1) : Char(k) \in Blanks
        /\ next.loc \in Locations
        /\ next.tok = TokenAt(next.cursor, next.loc)
    BY <1>1, <1>2, <1>6, NextToken DEF next
  <2>2. next.cursor \in 0..Len(text)
    BY <1>2, <2>1
  <2>3. phase' = "advance" /\ next.tok.at = next.cursor
    <3>1. next.tok.type # "EOF" /\ next.tok.at = next.cursor
      BY <1>2, <2>1, <2>2, TokenIsNotEof, TokenFits
    <3> QED BY <1>1, <3>1
  <2>4. CASE cursor = 0 /\ delivered = <<>>
    <3>1. next.cursor \in CommentEnd(0)..Len(text)
      BY <1>2, <2>1, <2>4
    <3>2. Places'
      BY <1>1, <1>3, <1>4, <2>3, <3>1 DEF Places, Placed
    <3>3. Covered(cursor)'
      <4>1. \A k \in CommentEnd(0)..(next.cursor - 1) : Char(k) \in Blanks
        BY <2>1, <2>4
      <4> QED BY <1>1, <1>4, <4>1 DEF Covered, Char
    <3>4. Aheads'
      BY <1>1, <2>3, <2>4 DEF Aheads
    <3> QED BY <1>4, <2>3, <3>2, <3>3, <3>4 DEF WInv, Coverage
  <2>5. CASE cursor \in CommentEnd(0)..Len(text)
    <3>1. cursor \in 0..Len(text) /\ ~CommentAt(cursor) /\ CommentEnd(cursor) = cursor
      BY <1>2, <1>3, <2>5, NoComment
    <3>2. next.cursor \in CommentEnd(0)..Len(text) /\ next.cursor >= cursor
      BY <1>2, <2>1, <2>5, <3>1
    <3>3. Places'
      BY <1>1, <1>3, <1>4, <2>3, <3>2 DEF Places, Placed
    <3>4. Covered(cursor)'
      <4>1. ASSUME NEW c \in CommentEnd(0)..(next.cursor - 1), Char(c) \notin Blanks
            PROVE  \E i \in DOMAIN delivered : Covers(delivered[i].tok, c)
        <5>1. CASE c < cursor
          <6>1. c \in CommentEnd(0)..(cursor - 1)
            BY <1>2, <5>1
          <6> QED BY <1>3, <4>1, <6>1 DEF Covered
        <5>2. CASE ~(c < cursor)
          <6>1. c \in cursor..(next.cursor - 1)
            BY <1>2, <2>2, <5>2
          <6> QED BY <2>1, <3>1, <4>1, <6>1
        <5> QED BY <5>1, <5>2
      <4> QED BY <1>1, <1>4, <4>1 DEF Covered, Char
    <3>5. Aheads'
      <4> SUFFICES ASSUME client = "parse", delivered # <<>> PROVE LastAhead = next.tok
        <5>1. LastAhead' = LastAhead
          BY <1>1 DEF LastAhead
        <5> QED BY <1>1, <2>3, <5>1 DEF WInv, Aheads
      <4>1. LastAhead = TokenAt(cursor, loc) /\ Char(cursor) \notin Blanks
        BY <1>1, <1>6 DEF WInv, Aheads, Ahead
      <4>2. next.tok = TokenAt(cursor, loc)
        BY <1>2, <1>6, <3>1, <4>1, NextTokenHere DEF next
      <4> QED BY <4>1, <4>2
    <3> QED BY <1>4, <2>3, <3>3, <3>4, <3>5 DEF WInv, Coverage
  <2> QED BY <1>3, <2>4, <2>5
<1> QED BY <1>5, <1>6

LEMMA WInvAdvance == TInv /\ WInv /\ Advance => WInv'
<1> SUFFICES ASSUME TInv, WInv, Advance PROVE WInv'
  OBVIOUS
<1> DEFINE next == GetNext(cursor, loc)
<1>1. /\ phase = "advance" /\ ~Unterminated(cursor)
      /\ cursor' = next.cursor + next.tok.count
      /\ phase' = IF client = "parse" THEN "look" ELSE "deliver"
      /\ UNCHANGED <<client, text, token, lookahead, delivered>>
  BY DEF Advance
<1>2. /\ text \in Seq(Chars) /\ loc \in Locations
      /\ Len(text) \in Nat /\ CommentEnd(0) \in Nat
      /\ cursor \in 0..Len(text) /\ Char(cursor) \notin Blanks /\ token = TokenAt(cursor, loc)
  BY <1>1, FirstComment DEF TInv, TypeOK, Order
<1>3. /\ cursor \in CommentEnd(0)..Len(text)
      /\ Placed(token)
      /\ Covered(cursor)
      /\ WellFormedText
  BY <1>1 DEF WInv, Places, Coverage
<1>4. CommentEnd(0)' = CommentEnd(0) /\ WellFormedText'
  BY <1>1, <1>3, TextStays
<1>5. ~CommentAt(cursor)
  BY <1>2, <1>3, NoComment
<1>6. /\ token.at = cursor
      /\ token.count \in Nat
      /\ cursor < Len(text) => cursor + token.count <= Len(text)
  BY <1>2, TokenFits
<1> HIDE DEF next
<1>7. /\ cursor' \in CommentEnd(0)..Len(text)
      /\ cursor' = cursor \/ cursor' = cursor + token.count
  <2>1. CASE AtEof(cursor)
    <3>1. next.cursor = cursor /\ next.tok.count = 0
      BY <2>1, AtEofStays DEF next, Eof, Token
    <3> QED BY <1>1, <1>2, <1>3, <3>1
  <2>2. CASE ~AtEof(cursor)
    <3>1. next.cursor = cursor /\ next.tok = token
      BY <1>2, <1>5, <2>2, NextTokenHere DEF next
    <3>2. cursor < Len(text)
      BY <1>2, <2>2 DEF AtEof
    <3> QED BY <1>1, <1>2, <1>3, <1>6, <3>1, <3>2
  <2> QED BY <2>1, <2>2
<1>8. phase' \in {"look", "deliver"}
  BY <1>1
<1>9. Places'
  BY <1>1, <1>3, <1>4, <1>7, <1>8 DEF WInv, Places, Placed
<1>10. Coverage'
  <2>1. Covered(token.at)'
    BY <1>1, <1>3, <1>4, <1>6 DEF Covered, Char
  <2>0. PICK to \in Nat : to = cursor'
    BY <1>2, <1>7
  <2>2. ASSUME NEW c \in cursor..(to - 1)
        PROVE  Covers(token, c)
    <3>1. cursor \in Nat /\ c \in Nat /\ c >= cursor /\ c <= to - 1
      BY <1>2
    <3>2. to = cursor + token.count
      <4>1. to # cursor
        BY <3>1
      <4> QED BY <1>7, <2>0, <4>1
    <3>3. c <= token.at + token.count - 1
      BY <1>6, <3>1, <3>2
    <3> QED BY <1>6, <3>1, <3>3 DEF Covers
  <2>3. \A c \in token'.at..(cursor' - 1) : Covers(token, c)
    BY <1>1, <1>6, <2>0, <2>2
  <2> QED BY <1>1, <1>8, <2>1, <2>3 DEF Coverage, Covers
<1>11. Aheads'
  <2> SUFFICES ASSUME client = "parse" PROVE Aheads'
    BY <1>1 DEF Aheads
  <2>1. phase' = "look" /\ LastAhead' = LastAhead
    BY <1>1 DEF LastAhead
  <2> QED BY <1>1, <2>1 DEF WInv, Aheads
<1> QED BY <1>4, <1>9, <1>10, <1>11 DEF WInv

LEMMA WInvLook == TInv /\ WInv /\ Look => WInv'
<1> SUFFICES ASSUME TInv, WInv, Look PROVE WInv'
  OBVIOUS
<1> DEFINE next == GetNext(cursor, loc)
<1>1. /\ phase = "look" /\ phase' = "deliver" /\ ~Unterminated(cursor)
      /\ lookahead' = next.tok /\ cursor' = next.cursor /\ loc' = next.loc
      /\ UNCHANGED <<client, text, token, delivered>>
  BY DEF Look
<1>2. /\ text \in Seq(Chars) /\ loc \in Locations /\ cursor \in 0..(Len(text) + 1)
      /\ Len(text) \in Nat /\ CommentEnd(0) \in Nat
      /\ token.at \in Nat
  BY <1>1, FirstComment DEF TInv, TypeOK, Order
<1>3. /\ cursor \in CommentEnd(0)..Len(text)
      /\ Placed(token)
      /\ Covered(token.at)
      /\ \A c \in token.at..(cursor - 1) : Char(c) \notin Blanks => Covers(token, c)
      /\ WellFormedText
  BY <1>1 DEF WInv, Places, Coverage
<1>4. /\ Char(cursor)' = Char(cursor')
      /\ AtEof(cursor)' <=> AtEof(cursor')
      /\ CommentEnd(0)' = CommentEnd(0)
      /\ TokenAt(cursor, loc)' = TokenAt(cursor', loc')
      /\ WellFormedText'
  BY <1>1, <1>3, TextStays
<1>5. CommentEnd(cursor) = cursor
  BY <1>2, <1>3, NoComment
<1> HIDE DEF next
<1>6. /\ cursor' \in CommentEnd(0)..Len(text)
      /\ \A c \in cursor..(cursor' - 1) : Char(c) \in Blanks
      /\ lookahead'.type = "EOF" \/ lookahead'.at \in CommentEnd(0)..Len(text)
      /\ AtEof(cursor') => lookahead'.type = "EOF" \/ lookahead'.at = Len(text)
      /\ ~AtEof(cursor') => lookahead' = TokenAt(cursor', loc') /\ Char(cursor') \notin Blanks
  <2>1. CASE AtEof(cursor)
    <3>1. next.cursor = cursor /\ next.tok.type = "EOF"
      BY <2>1, AtEofStays DEF next, Eof, Token
    <3> QED BY <1>1, <1>2, <1>3, <2>1, <3>1
  <2>2. CASE ~AtEof(cursor)
    <3>1. /\ next.cursor \in CommentEnd(cursor)..Len(text)
          /\ \A k \in CommentEnd(cursor)..(next.cursor - 1) : Char(k) \in Blanks
          /\ Char(next.cursor) \notin Blanks
          /\ next.tok = TokenAt(next.cursor, next.loc)
      BY <1>1, <1>2, <2>2, NextToken DEF next
    <3>2. next.cursor \in CommentEnd(0)..Len(text) /\ next.cursor \in 0..Len(text)
      BY <1>2, <1>3, <1>5, <3>1
    <3>3. next.tok.at = next.cursor
      BY <1>2, <3>1, <3>2, TokenFits
    <3>4. AtEof(next.cursor) => next.cursor = Len(text)
      <4>1. next.cursor \in 0..(Len(text) + 1) /\ next.cursor <= Len(text)
        BY <1>2, <3>2
      <4> QED BY <1>2, <1>3, <3>1, <4>1, OnlyNewline
    <3> QED BY <1>1, <1>5, <3>1, <3>2, <3>3, <3>4
  <2> QED BY <2>1, <2>2
<1>7. Places'
  BY <1>1, <1>3, <1>4, <1>6 DEF WInv, Places, Placed
<1>8. Coverage'
  <2>1. Covered(token.at)'
    BY <1>1, <1>3, <1>4 DEF Covered, Char
  <2>0. PICK to \in Nat : to = cursor'
    BY <1>2, <1>6
  <2>2. ASSUME NEW c \in token.at..(to - 1), Char(c) \notin Blanks
        PROVE  Covers(token, c)
    <3>1. c < cursor
      <4> SUFFICES ASSUME ~(c < cursor) PROVE FALSE
        OBVIOUS
      <4>1. c \in cursor..(to - 1)
        BY <1>2
      <4> QED BY <1>6, <2>0, <2>2, <4>1
    <3>2. c \in token.at..(cursor - 1)
      BY <1>2, <3>1
    <3> QED BY <1>3, <2>2, <3>2
  <2>3. \A c \in token'.at..(cursor' - 1) : Char(c)' \notin Blanks => Covers(token', c)
    BY <1>1, <2>0, <2>2 DEF Char
  <2> QED BY <1>1, <2>1, <2>3 DEF Coverage, Covers
<1>9. Aheads'
  <2> SUFFICES ASSUME client = "parse" PROVE Aheads'
    BY <1>1 DEF Aheads
  <2>1. Ahead(lookahead)'
    BY <1>1, <1>4, <1>6 DEF Ahead
  <2>2. LastAhead' = LastAhead
    BY <1>1 DEF LastAhead
  <2> QED BY <1>1, <2>1, <2>2 DEF WInv, Aheads
<1> QED BY <1>4, <1>7, <1>8, <1>9 DEF WInv

LEMMA WInvDeliver == TInv /\ WInv /\ Deliver => WInv'
<1> SUFFICES ASSUME TInv, WInv, Deliver PROVE WInv'
  OBVIOUS
<1> DEFINE delivery == [tok |-> token, ahead |-> lookahead]
           n == Len(delivered)
<1>1. /\ phase = "deliver" /\ phase' = "fetch"
      /\ delivered' = Append(delivered, delivery)
      /\ UNCHANGED <<client, text, cursor, loc, token, lookahead>>
  BY DEF Deliver
<1>2. /\ text \in Seq(Chars) /\ cursor \in 0..(Len(text) + 1)
      /\ Len(text) \in Nat /\ CommentEnd(0) \in Nat
      /\ token.at \in Nat
  BY <1>1, FirstComment DEF TInv, TypeOK, Order
<1>3. PICK Elems : delivered \in Seq(Elems)
  BY DEF TInv, DeliveredOK
<1> HIDE DEF delivery
<1>4. /\ n \in Nat /\ DOMAIN delivered = 1..n
      /\ DOMAIN delivered' = 1..(n + 1)
      /\ \A i \in 1..n : delivered'[i] = delivered[i]
      /\ delivered'[n + 1] = delivery
      /\ Len(delivered') = n + 1
  <2>1. DOMAIN delivered' = 1..(n + 1) /\ n \in Nat
    BY <1>1, <1>3, OneMore
  <2>2. delivered' \in Seq(Elems \cup {delivery})
    BY <1>1, <1>3, OneMore
  <2>3. Len(delivered') = n + 1
    <3>1. DOMAIN delivered' = 1..Len(delivered') /\ Len(delivered') \in Nat
      BY <2>2, LenProperties
    <3> HIDE DEF n
    <3>2. n + 1 \in 1..Len(delivered') /\ Len(delivered') >= 1
      BY <2>1, <3>1
    <3>3. Len(delivered') \in 1..(n + 1)
      BY <2>1, <3>1, <3>2
    <3> QED BY <2>1, <3>1, <3>2, <3>3
  <2> QED BY <1>1, <1>3, <2>1, <2>3, OneMore
<1>5. n > 0 <=> delivered # <<>>
  BY <1>3
<1> HIDE DEF n
<1>6. delivery.tok = token /\ delivery.ahead = lookahead
  BY DEF delivery
<1>7. /\ cursor \in CommentEnd(0)..Len(text)
      /\ Placed(token)
      /\ \A i \in 1..n : Placed(delivered[i].tok)
      /\ lookahead.type = "EOF" \/ lookahead.count = 0 \/ Placed(lookahead)
      /\ Covered(token.at)
      /\ \A c \in token.at..(cursor - 1) : Char(c) \notin Blanks => Covers(token, c)
      /\ WellFormedText
  BY <1>1, <1>4 DEF WInv, Places, Coverage
<1>8. CommentEnd(0)' = CommentEnd(0) /\ WellFormedText'
  BY <1>1, <1>7, TextStays
<1>9. Places'
  <2>1. ASSUME NEW i \in 1..(n + 1)
        PROVE  delivered'[i].tok.at \in CommentEnd(0)..Len(text)
    <3>1. i \in 1..n \/ i = n + 1
      BY <1>4
    <3> QED BY <1>4, <1>6, <1>7, <3>1 DEF Placed
  <2>2. \A i \in DOMAIN delivered' : delivered'[i].tok.at \in CommentEnd(0)'..Len(text')
    BY <1>1, <1>4, <1>8, <2>1
  <2> QED BY <1>1, <1>7, <1>8, <2>2 DEF Places, Placed
<1>10. Coverage'
  <2>1. ASSUME NEW c \in CommentEnd(0)..(cursor - 1), Char(c) \notin Blanks
        PROVE  \E i \in DOMAIN delivered' : Covers(delivered'[i].tok, c)
    <3>1. CASE c < token.at
      <4>1. c \in CommentEnd(0)..(token.at - 1)
        BY <1>2, <3>1
      <4>2. PICK i \in 1..n : Covers(delivered[i].tok, c)
        BY <1>4, <1>7, <2>1, <4>1 DEF Covered
      <4>3. i \in DOMAIN delivered' /\ delivered'[i] = delivered[i]
        BY <1>4
      <4> QED BY <4>2, <4>3
    <3>2. CASE ~(c < token.at)
      <4>1. c \in token.at..(cursor - 1)
        BY <1>2, <3>2
      <4>2. Covers(token, c)
        BY <1>7, <2>1, <4>1
      <4>3. n + 1 \in DOMAIN delivered' /\ delivered'[n + 1].tok = token
        BY <1>4, <1>6
      <4> QED BY <4>2, <4>3
    <3> QED BY <3>1, <3>2
  <2>2. Covered(cursor)'
    BY <1>1, <1>8, <2>1 DEF Covered, Covers, Char
  <2> QED BY <1>1, <2>2 DEF Coverage
<1>11. Aheads'
  <2> SUFFICES ASSUME client = "parse" PROVE Aheads'
    BY <1>1 DEF Aheads
  <2>1. /\ \A i \in 1..n : i < n => delivered[i].ahead = delivered[i + 1].tok
        /\ Ahead(lookahead)
        /\ n > 0 => delivered[n].ahead = token
    BY <1>1, <1>4, <1>5 DEF WInv, Aheads, LastAhead, n
  <2>2. ASSUME NEW i \in 1..(n + 1), i < n + 1
        PROVE  delivered'[i].ahead = delivered'[i + 1].tok
    <3>1. i \in 1..n /\ delivered'[i] = delivered[i]
      BY <1>4, <2>2
    <3>2. CASE i < n
      <4>1. i + 1 \in 1..n
        BY <1>4, <3>1, <3>2
      <4>2. delivered'[i + 1] = delivered[i + 1]
        BY <1>4, <4>1
      <4> QED BY <2>1, <3>1, <3>2, <4>2
    <3>3. CASE i = n
      <4>1. n > 0 /\ delivered'[i + 1].tok = token
        BY <1>4, <1>6, <3>1, <3>3
      <4> QED BY <2>1, <3>1, <3>3, <4>1
    <3> QED BY <1>4, <3>1, <3>2, <3>3
  <2>3. LastAhead' = lookahead
    BY <1>4, <1>6 DEF LastAhead
  <2>4. Ahead(LastAhead)'
    <3>1. /\ Char(cursor)' = Char(cursor)
          /\ AtEof(cursor)' <=> AtEof(cursor)
          /\ TokenAt(cursor, loc)' = TokenAt(cursor, loc)
      BY <1>1, TextStays
    <3> QED BY <1>1, <2>1, <2>3, <3>1 DEF Ahead
  <2> QED BY <1>1, <1>4, <2>2, <2>4 DEF Aheads
<1> QED BY <1>8, <1>9, <1>10, <1>11 DEF WInv

LEMMA WInvOver == TInv /\ WInv /\ (Overrun \/ UNCHANGED vars) => WInv'
<1> SUFFICES ASSUME TInv, WInv, Overrun \/ UNCHANGED vars PROVE WInv'
  OBVIOUS
<1>1. /\ UNCHANGED <<client, text, cursor, loc, token, lookahead, delivered>>
      /\ phase' = phase \/ phase' = "overrun"
  BY DEF Overrun, vars
<1>2. /\ Char(cursor)' = Char(cursor)
      /\ AtEof(cursor)' <=> AtEof(cursor)
      /\ CommentEnd(0)' = CommentEnd(0)
      /\ TokenAt(cursor, loc)' = TokenAt(cursor, loc)
      /\ WellFormedText'
  BY <1>1, TextStays DEF WInv
<1>3. Places'
  BY <1>1, <1>2 DEF WInv, Places, Placed
<1>4. Coverage'
  <2>1. /\ Covered(cursor)' <=> Covered(cursor)
        /\ Covered(token.at)' <=> Covered(token.at)
    BY <1>1, <1>2 DEF Covered, Char
  <2>2. \A c : Char(c)' = Char(c)
    BY <1>1 DEF Char
  <2> QED BY <1>1, <2>1, <2>2 DEF WInv, Coverage, Covers
<1>5. Aheads'
  <2>1. LastAhead' = LastAhead
    BY <1>1 DEF LastAhead
  <2>2. (Ahead(lookahead)' <=> Ahead(lookahead)) /\ (Ahead(LastAhead)' <=> Ahead(LastAhead))
    BY <1>1, <1>2, <2>1 DEF Ahead
  <2> QED BY <1>1, <2>1, <2>2 DEF WInv, Aheads
<1> QED BY <1>2, <1>3, <1>4, <1>5 DEF WInv

THEOREM WellFormedInvariant == Spec /\ WellFormedText => []WInv
<1>1. TInv /\ WInv /\ [Next]_vars => WInv'
  <2> SUFFICES ASSUME TInv, WInv, [Next]_vars PROVE WInv'
    OBVIOUS
  <2>1. CASE Overrun
    BY <2>1, WInvOver
  <2>2. CASE Fetch
    BY <2>2, WInvFetch
  <2>3. CASE Advance
    BY <2>3, WInvAdvance
  <2>4. CASE Look
    BY <2>4, WInvLook
  <2>5. CASE Deliver
    BY <2>5, WInvDeliver
  <2>6. CASE Terminated
    BY <2>6, WInvOver DEF Terminated
  <2>7. CASE UNCHANGED vars
    BY <2>7, WInvOver
  <2> QED BY <2>1, <2>2, <2>3, <2>4, <2>5, <2>6, <2>7 DEF Next
<1> QED BY <1>1, WInvInit, TokenizerInvariant, PTL DEF Spec

\* In a well-formed text every character the loops have moved over, blanks and
\* the comment at the start aside, is in one delivered token and in one only.
THEOREM NoCharacterLost == Spec /\ WellFormedText => []NothingLost
<1>1. TInv /\ WInv => NothingLost
  <2> SUFFICES ASSUME TInv, WInv, phase \in {"fetch", "end"},
                      NEW c \in CommentEnd(0)..(cursor - 1), Char(c) \notin Blanks
               PROVE  Cardinality({i \in DOMAIN delivered : Covers(delivered[i].tok, c)}) = 1
    BY DEF NothingLost
  <2>1. PICK i \in DOMAIN delivered : Covers(delivered[i].tok, c)
    BY DEF WInv, Coverage, Covered
  <2>2. PICK Elems : delivered \in Seq(Elems)
    BY DEF TInv, DeliveredOK
  <2>3. DOMAIN delivered \subseteq Nat
    BY <2>2, LenProperties
  <2>4. ASSUME NEW j \in DOMAIN delivered, Covers(delivered[j].tok, c)
        PROVE  j = i
    <3>1. /\ delivered[i].tok.at \in Nat /\ delivered[i].tok.count \in Nat
          /\ delivered[j].tok.at \in Nat /\ delivered[j].tok.count \in Nat
      BY DEF TInv, DeliveredOK
    <3>2. /\ c >= delivered[i].tok.at /\ c < delivered[i].tok.at + delivered[i].tok.count
          /\ c >= delivered[j].tok.at /\ c < delivered[j].tok.at + delivered[j].tok.count
          /\ c \in Int
      BY <2>1, <2>4, <3>1 DEF Covers
    <3>3. ~(i < j)
      <4> SUFFICES ASSUME i < j PROVE FALSE
        OBVIOUS
      <4>1. delivered[i].tok.at + delivered[i].tok.count <= delivered[j].tok.at
        BY DEF TInv, TokensApart
      <4> QED BY <3>1, <3>2, <4>1
    <3>4. ~(j < i)
      <4> SUFFICES ASSUME j < i PROVE FALSE
        OBVIOUS
      <4>1. delivered[j].tok.at + delivered[j].tok.count <= delivered[i].tok.at
        BY DEF TInv, TokensApart
      <4> QED BY <3>1, <3>2, <4>1
    <3> QED BY <2>3, <3>3, <3>4
  <2>5. {k \in DOMAIN delivered : Covers(delivered[k].tok, c)} = {i}
    BY <2>1, <2>4
  <2> QED BY <2>5, FS_Singleton
<1> QED BY <1>1, TokenizerInvariant, WellFormedInvariant, PTL

\* In a well-formed text the lookahead the reductions go by is the token that
\* is pushed next.
THEOREM LookaheadIsPushedNext == Spec /\ WellFormedText => []LookaheadIsNext
<1>1. WInv => LookaheadIsNext
  BY DEF WInv, Aheads, LookaheadIsNext, LastAhead
<1> QED BY <1>1, WellFormedInvariant, PTL

\* In a well-formed text T_EOF means that nothing but the last newline is left.
THEOREM EofOnlyAtEnd == Spec /\ WellFormedText => []EofAtEnd
<1>1. TInv /\ WInv => EofAtEnd
  <2> SUFFICES ASSUME TInv, WInv, phase = "end"
               PROVE  \A c \in cursor..(Len(text) - 1) : Char(c) \in Blanks
    BY DEF EofAtEnd
  <2>1. AtEof(cursor) /\ WellFormedText
    BY DEF WInv, Places
  <2>2. text \in Seq(Chars) /\ cursor \in 0..(Len(text) + 1)
    BY DEF TInv, TypeOK
  <2> QED BY <2>1, <2>2, OnlyNewline
<1> QED BY <1>1, TokenizerInvariant, WellFormedInvariant, PTL

\* In a well-formed text no token, and no lookahead, is made of a comment.
THEOREM NoTokenOfComment == Spec /\ WellFormedText => []CommentsConsumed
<1>1. TInv /\ WInv => CommentsConsumed
  <2> SUFFICES ASSUME TInv, WInv PROVE CommentsConsumed
    OBVIOUS
  <2>1. text \in Seq(Chars) /\ WellFormedText
    BY DEF TInv, TypeOK, WInv
  <2>2. ASSUME NEW tok, Placed(tok)
        PROVE  ~CommentAt(tok.at)
    BY <2>1, <2>2, NoComment DEF Placed
  <2>3. \A tok \in Toks : Placed(tok)
    BY DEF Toks, WInv, Places
  <2>4. lookahead.type # "EOF" /\ lookahead.count > 0 => Placed(lookahead)
    BY DEF WInv, Places
  <2> QED BY <2>2, <2>3, <2>4 DEF CommentsConsumed
<1> QED BY <1>1, TokenizerInvariant, WellFormedInvariant, PTL

-----------------------------------------------------------------------------
(* Lines.                                                                  *)

NewlinesIn(from, to) == {c \in from..(to - 1) : Char(c) = "\n"}

\* The newlines before p behind the comment that none of the tokens loses.
Passed(toks, p) ==
  {c \in CommentEnd(0)..(p - 1) : Char(c) = "\n" /\ \A t \in toks : ~Loses(t, c)}

\* A token has the location it is found at, unless it is not recognised.
LEMMA TokenLocation ==
  ASSUME NEW c, NEW l
  PROVE  TokenAt(c, l).loc = IF TokenAt(c, l).type # "UNKNOWN" THEN l ELSE NoLoc
BY DEF TokenAt, Token

\* Blanks are counted line by line, a comment is not.
LEMMA NextLine ==
  ASSUME ~AtEof(cursor)
  PROVE  GetNext(cursor, loc).loc.line =
           loc.line + Cardinality(NewlinesIn(CommentEnd(cursor), GetNext(cursor, loc).cursor))
BY DEF GetNext, Across, Along, NewlinesIn

LEMMA MoreNewlines ==
  ASSUME CommentEnd(0) \in Nat, NEW a \in Nat, NEW b \in Nat, CommentEnd(0) <= a, a <= b,
         NEW toks, \A t \in toks : t.at \in Nat /\ t.count \in Nat /\ t.at + t.count <= a
  PROVE  /\ Cardinality(Passed(toks, b)) = Cardinality(Passed(toks, a)) + Cardinality(NewlinesIn(a, b))
         /\ Cardinality(Passed(toks, a)) \in Nat
<1> DEFINE A == Passed(toks, a)
           B == NewlinesIn(a, b)
<1>1. IsFiniteSet(CommentEnd(0)..(a - 1)) /\ IsFiniteSet(a..(b - 1))
  <2>1. CommentEnd(0) \in Int /\ a \in Int /\ a - 1 \in Int /\ b - 1 \in Int
    OBVIOUS
  <2> QED BY <2>1, FS_Interval
<1>2. IsFiniteSet(A) /\ IsFiniteSet(B)
  <2>1. A \subseteq CommentEnd(0)..(a - 1) /\ B \subseteq a..(b - 1)
    BY DEF Passed, NewlinesIn
  <2> HIDE DEF A, B
  <2> QED BY <1>1, <2>1, FS_Subset
<1>3. A \cap B = {}
  BY DEF Passed, NewlinesIn
<1>4. Passed(toks, b) = A \cup B
  <2>1. \A c \in CommentEnd(0)..(b - 1) : c \in CommentEnd(0)..(a - 1) \/ c \in a..(b - 1)
    OBVIOUS
  <2>2. \A c \in a..(b - 1) : c \in CommentEnd(0)..(b - 1) /\ \A t \in toks : ~Loses(t, c)
    BY DEF Covers, Loses
  <2>3. \A c \in CommentEnd(0)..(a - 1) : c \in CommentEnd(0)..(b - 1)
    OBVIOUS
  <2> QED BY <2>1, <2>2, <2>3 DEF Passed, NewlinesIn
<1> HIDE DEF A, B
<1>5. Cardinality(A \cap B) = 0
  BY <1>3, FS_EmptySet
<1>6. Cardinality(A) \in Nat /\ Cardinality(B) \in Nat
  BY <1>2, FS_CardinalityType
<1>7. Cardinality(A \cup B) = Cardinality(A) + Cardinality(B) - Cardinality(A \cap B)
  BY <1>2, FS_Union
<1>8. Cardinality(A \cup B) = Cardinality(A) + Cardinality(B)
  BY <1>5, <1>6, <1>7
<1> QED BY <1>4, <1>6, <1>8 DEF A, B

\* The newlines a token holds are not passed again, and those before a character
\* that is not recognised are forgotten.
LEMMA OverToken ==
  ASSUME CommentEnd(0) \in Nat, NEW toks, NEW t, t.at \in Nat, t.count \in Nat
  PROVE  /\ Passed(toks \cup {t}, t.at + t.count) = Passed(toks \cup {t}, t.at)
         /\ Passed(toks \cup {t}, t.at) = IF t.type # "UNKNOWN" THEN Passed(toks, t.at) ELSE {}
<1>1. ASSUME NEW c \in CommentEnd(0)..(t.at + t.count - 1), ~Covers(t, c)
      PROVE  c \in CommentEnd(0)..(t.at - 1)
  BY <1>1 DEF Covers
<1>2. ASSUME NEW c \in CommentEnd(0)..(t.at - 1)
      PROVE  c \in CommentEnd(0)..(t.at + t.count - 1) /\ ~Covers(t, c) /\ c < t.at
  BY <1>2 DEF Covers
<1>3. Passed(toks \cup {t}, t.at + t.count) = Passed(toks \cup {t}, t.at)
  BY <1>1, <1>2 DEF Passed, Loses
<1>4. CASE t.type # "UNKNOWN"
  <2>1. \A c \in CommentEnd(0)..(t.at - 1) : ~Loses(t, c)
    BY <1>2, <1>4 DEF Loses
  <2> QED BY <1>3, <1>4, <2>1 DEF Passed
<1>5. CASE t.type = "UNKNOWN"
  <2>1. \A c \in CommentEnd(0)..(t.at - 1) : Loses(t, c)
    BY <1>2, <1>5 DEF Loses
  <2> QED BY <1>3, <1>5, <2>1 DEF Passed
<1> QED BY <1>4, <1>5

\* The tokens up to the i-th, and the line numbers they have.
ToksTo(i) == {delivered[j].tok : j \in 1..i}
LinesPassed ==
  \A i \in DOMAIN delivered :
    delivered[i].tok.loc.line = Cardinality(Passed(ToksTo(i), delivered[i].tok.at))

\* The location of the cursor, and that of the token of the turn.
LineInv ==
  /\ LinesPassed
  /\ phase = "advance" \/ (phase = "fetch" /\ ~AtEof(cursor)) =>
       loc.line = Cardinality(Passed(Toks, cursor))
  /\ phase \in {"look", "deliver"} =>
       /\ token.loc.line = Cardinality(Passed(Toks \cup {token}, token.at))
       /\ ~AtEof(cursor) => loc.line = Cardinality(Passed(Toks \cup {token}, cursor))

\* What is counted depends on the text and the deliveries only.
LEMMA CountStays ==
  ASSUME text' = text
  PROVE  /\ Passed(Toks, cursor)' = Passed(Toks', cursor')
         /\ Passed(Toks \cup {token}, token.at)' = Passed(Toks' \cup {token'}, token'.at)
         /\ Passed(Toks \cup {token}, cursor)' = Passed(Toks' \cup {token'}, cursor')
         /\ AtEof(cursor)' <=> AtEof(cursor')
         /\ delivered' = delivered => Toks' = Toks /\ (LinesPassed' <=> LinesPassed)
<1>1. CommentEnd(0)' = CommentEnd(0) /\ (AtEof(cursor)' <=> AtEof(cursor'))
  BY TextStays
<1>2. \A c : Char(c)' = Char(c)
  BY DEF Char
<1>3. /\ Passed(Toks, cursor)' = Passed(Toks', cursor')
      /\ Passed(Toks \cup {token}, token.at)' = Passed(Toks' \cup {token'}, token'.at)
      /\ Passed(Toks \cup {token}, cursor)' = Passed(Toks' \cup {token'}, cursor')
  BY <1>1, <1>2 DEF Passed, Loses, Covers
<1>4. delivered' = delivered => Toks' = Toks /\ (LinesPassed' <=> LinesPassed)
  BY <1>1, <1>2 DEF Toks, LinesPassed, ToksTo, Passed, Loses, Covers
<1> QED BY <1>1, <1>3, <1>4

\* Toks, and where the deliveries end.
LEMMA ToksBehind ==
  ASSUME DeliveredOK, NEW p, Behind(p)
  PROVE  \A t \in Toks : t.at \in Nat /\ t.count \in Nat /\ t.at + t.count <= p
BY DEF Toks, DeliveredOK, Behind

LEMMA LineInit == Init => LineInv
<1> SUFFICES ASSUME Init PROVE LineInv
  OBVIOUS
<1>1. text \in Seq(Chars) /\ delivered = <<>> /\ cursor = 0 /\ loc.line = 0 /\ phase = "fetch"
  BY TextsAssumption DEF Init, NoLoc
<1>2. CommentEnd(0) \in Nat
  BY <1>1, FirstComment
<1>3. Passed(Toks, 0) = {}
  BY <1>2 DEF Passed
<1>4. LinesPassed
  BY <1>1 DEF LinesPassed
<1> QED BY <1>1, <1>3, <1>4, FS_EmptySet DEF LineInv

LEMMA LineFetch == TInv /\ WInv /\ LineInv /\ Fetch => LineInv'
<1> SUFFICES ASSUME TInv, WInv, LineInv, Fetch PROVE LineInv'
  OBVIOUS
<1> DEFINE next == GetNext(cursor, loc)
<1>1. /\ phase = "fetch" /\ ~Unterminated(cursor)
      /\ token' = next.tok /\ cursor' = next.cursor /\ loc' = next.loc
      /\ phase' = IF next.tok.type = "EOF" THEN "end" ELSE "advance"
      /\ UNCHANGED <<client, text, lookahead, delivered>>
  BY DEF Fetch
<1>2. /\ text \in Seq(Chars) /\ cursor \in 0..(Len(text) + 1) /\ loc \in Locations
      /\ Len(text) \in Nat /\ CommentEnd(0) \in Nat /\ loc.line \in Nat
      /\ DeliveredOK
  BY FirstComment DEF TInv, TypeOK, Locations
<1>3. Toks' = Toks /\ LinesPassed' /\ Passed(Toks, cursor)' = Passed(Toks, next.cursor)
  BY <1>1, CountStays DEF LineInv
<1>4. CASE AtEof(cursor)
  <2>1. next.tok.type = "EOF"
    BY <1>4, AtEofStays DEF Eof, Token
  <2>2. phase' = "end"
    BY <1>1, <2>1
  <2> QED BY <1>3, <2>2 DEF LineInv
<1>5. CASE ~AtEof(cursor)
  <2>1. /\ CommentEnd(cursor) \in cursor..Len(text)
        /\ next.cursor \in CommentEnd(cursor)..Len(text)
    BY <1>1, <1>2, <1>5, NextToken
  <2>2. next.loc.line = loc.line + Cardinality(NewlinesIn(CommentEnd(cursor), next.cursor))
    BY <1>5, NextLine
  <2>3. loc.line = Cardinality(Passed(Toks, cursor))
    BY <1>1, <1>5 DEF LineInv
  <2> DEFINE start == CommentEnd(cursor)
  <2>4. /\ CommentEnd(0) <= start /\ start \in Nat /\ start <= next.cursor /\ next.cursor \in Nat
        /\ Passed(Toks, start) = Passed(Toks, cursor)
        /\ Behind(start)
    <3>1. CASE cursor = 0 /\ delivered = <<>>
      <4>1. start = CommentEnd(0)
        BY <3>1
      <4>2. Passed(Toks, start) = {} /\ Passed(Toks, cursor) = {}
        BY <1>2, <3>1, <4>1 DEF Passed
      <4>3. Behind(start)
        BY <3>1 DEF Behind
      <4>4. start \in Nat /\ start <= next.cursor /\ next.cursor \in Nat /\ CommentEnd(0) <= start
        <5> HIDE DEF next
        <5>1. CommentEnd(cursor) = start
          OBVIOUS
        <5> HIDE DEF start
        <5> QED BY <1>2, <2>1, <4>1, <5>1
      <4> QED BY <4>2, <4>3, <4>4
    <3>2. CASE cursor \in CommentEnd(0)..Len(text)
      <4>1. start = cursor
        BY <1>2, <3>2, NoComment DEF WInv
      <4>2. Behind(cursor)
        BY <1>1, <1>5 DEF TInv, Order
      <4> QED BY <1>2, <2>1, <3>2, <4>1, <4>2
    <3> QED BY <1>1, <3>1, <3>2 DEF WInv, Places
  <2> HIDE DEF start
  <2>5. \A t \in Toks : t.at \in Nat /\ t.count \in Nat /\ t.at + t.count <= start
    BY <1>2, <2>4, ToksBehind
  <2>6. Cardinality(Passed(Toks, next.cursor)) =
          Cardinality(Passed(Toks, start)) + Cardinality(NewlinesIn(start, next.cursor))
    <3> HIDE DEF next
    <3> QED BY <1>2, <2>4, <2>5, MoreNewlines
  <2>7. next.loc.line = Cardinality(Passed(Toks, next.cursor))
    BY <2>2, <2>3, <2>4, <2>6 DEF start
  <2>8. phase' \in {"advance", "end"}
    BY <1>1
  <2> QED BY <1>1, <1>3, <2>7, <2>8 DEF LineInv
<1> QED BY <1>4, <1>5

LEMMA LineAdvance == TInv /\ WInv /\ LineInv /\ Advance => LineInv'
<1> SUFFICES ASSUME TInv, WInv, LineInv, Advance PROVE LineInv'
  OBVIOUS
<1> DEFINE next == GetNext(cursor, loc)
<1>1. /\ phase = "advance"
      /\ cursor' = next.cursor + next.tok.count /\ loc' = next.tok.loc
      /\ phase' \in {"look", "deliver"}
      /\ UNCHANGED <<client, text, token, lookahead, delivered>>
  BY DEF Advance
<1>2. /\ text \in Seq(Chars) /\ loc \in Locations
      /\ Len(text) \in Nat /\ CommentEnd(0) \in Nat
      /\ cursor \in 0..Len(text) /\ cursor \in CommentEnd(0)..Len(text)
      /\ Char(cursor) \notin Blanks /\ token = TokenAt(cursor, loc)
  BY <1>1, FirstComment DEF TInv, TypeOK, Order, WInv, Places
<1>3. token.at = cursor /\ token.count \in Nat
  BY <1>2, TokenFits
<1>4. /\ Toks' = Toks /\ LinesPassed'
      /\ Passed(Toks \cup {token}, token.at)' = Passed(Toks \cup {token}, cursor)
      /\ Passed(Toks \cup {token}, cursor)' = Passed(Toks \cup {token}, cursor')
      /\ AtEof(cursor)' <=> AtEof(cursor')
  BY <1>1, <1>3, CountStays DEF LineInv
<1>5. /\ loc.line = Cardinality(Passed(Toks, cursor))
      /\ Passed(Toks \cup {token}, cursor) = IF token.type # "UNKNOWN" THEN Passed(Toks, cursor) ELSE {}
      /\ Passed(Toks \cup {token}, token.at + token.count) = Passed(Toks \cup {token}, cursor)
  <2>1. token.at \in Nat /\ CommentEnd(0) \in Nat
    BY <1>2, <1>3
  <2>2. loc.line = Cardinality(Passed(Toks, cursor))
    BY <1>1 DEF LineInv
  <2>3. /\ Passed(Toks \cup {token}, token.at + token.count) = Passed(Toks \cup {token}, token.at)
        /\ Passed(Toks \cup {token}, token.at) =
             IF token.type # "UNKNOWN" THEN Passed(Toks, token.at) ELSE {}
    BY <1>3, <2>1, OverToken, Zenon
  <2> QED BY <1>3, <2>2, <2>3, Zenon
<1>6. token.loc.line = Cardinality(Passed(Toks \cup {token}, cursor))
  <2>1. token.loc = IF token.type # "UNKNOWN" THEN loc ELSE NoLoc
    BY <1>2, TokenLocation
  <2>2. NoLoc.line = 0 /\ Cardinality({}) = 0
    BY FS_EmptySet DEF NoLoc
  <2> QED BY <1>5, <2>1, <2>2
<1>7. token'.loc.line = Cardinality(Passed(Toks \cup {token}, token.at))'
  BY <1>1, <1>4, <1>6
<1>8. CASE AtEof(cursor)
  <2>1. next.cursor = cursor /\ next.tok.count = 0
    BY <1>8, AtEofStays DEF Eof, Token
  <2>2. AtEof(cursor)'
    <3> HIDE DEF next
    <3>1. cursor' = cursor
      BY <1>1, <1>2, <2>1
    <3> QED BY <1>4, <1>8, <3>1
  <2> QED BY <1>1, <1>4, <1>7, <2>2 DEF LineInv
<1>9. CASE ~AtEof(cursor)
  <2>1. next = [cursor |-> cursor, loc |-> loc, tok |-> token]
    <3>1. ~CommentAt(cursor)
      BY <1>2, NoComment DEF WInv
    <3> QED BY <1>2, <1>9, <3>1, NextTokenHere
  <2>2. cursor' = token.at + token.count /\ loc' = token.loc
    <3>1. next.cursor = cursor /\ next.tok = token
      BY <2>1
    <3> HIDE DEF next
    <3> QED BY <1>1, <1>3, <3>1
  <2>3. loc'.line = Cardinality(Passed(Toks \cup {token}, cursor))'
    BY <1>4, <1>5, <1>6, <2>2
  <2> QED BY <1>1, <1>4, <1>7, <2>3 DEF LineInv
<1> QED BY <1>8, <1>9

LEMMA LineLook == TInv /\ WInv /\ LineInv /\ Look => LineInv'
<1> SUFFICES ASSUME TInv, WInv, LineInv, Look PROVE LineInv'
  OBVIOUS
<1> DEFINE next == GetNext(cursor, loc)
<1>1. /\ phase = "look" /\ phase' = "deliver" /\ ~Unterminated(cursor)
      /\ lookahead' = next.tok /\ cursor' = next.cursor /\ loc' = next.loc
      /\ UNCHANGED <<client, text, token, delivered>>
  BY DEF Look
<1>2. /\ text \in Seq(Chars) /\ loc \in Locations
      /\ Len(text) \in Nat /\ CommentEnd(0) \in Nat
      /\ cursor \in 0..Len(text) /\ cursor \in CommentEnd(0)..Len(text)
      /\ DeliveredOK /\ loc.line \in Nat
      /\ token.at \in Nat /\ token.count \in Nat /\ Behind(token.at)
      /\ AtEof(cursor) \/ token.at + token.count <= cursor
  BY <1>1, FirstComment DEF TInv, TypeOK, Order, WInv, Places, Locations
<1>3. /\ Toks' = Toks /\ LinesPassed'
      /\ Passed(Toks \cup {token}, token.at)' = Passed(Toks \cup {token}, token.at)
      /\ Passed(Toks \cup {token}, cursor)' = Passed(Toks \cup {token}, next.cursor)
      /\ AtEof(cursor)' <=> AtEof(cursor')
  BY <1>1, CountStays DEF LineInv
<1>4. token.loc.line = Cardinality(Passed(Toks \cup {token}, token.at))
  BY <1>1 DEF LineInv
<1>5. CASE AtEof(cursor)
  <2>1. AtEof(cursor)'
    BY <1>1, <1>3, <1>5, AtEofStays
  <2> QED BY <1>1, <1>3, <1>4, <2>1 DEF LineInv
<1>6. CASE ~AtEof(cursor)
  <2>1. CommentEnd(cursor) = cursor
    BY <1>2, NoComment DEF WInv
  <2>2. next.cursor \in cursor..Len(text)
    BY <1>1, <1>2, <1>6, <2>1, NextToken
  <2>3. next.loc.line = loc.line + Cardinality(NewlinesIn(cursor, next.cursor))
    BY <1>6, <2>1, NextLine
  <2>4. \A t \in Toks \cup {token} : t.at \in Nat /\ t.count \in Nat /\ t.at + t.count <= cursor
    <3>1. \A t \in Toks : t.at \in Nat /\ t.count \in Nat /\ t.at + t.count <= token.at
      BY <1>2, ToksBehind
    <3> QED BY <1>2, <1>6, <3>1
  <2>5. loc.line = Cardinality(Passed(Toks \cup {token}, cursor))
    BY <1>1, <1>6 DEF LineInv
  <2>6. next.loc.line = Cardinality(Passed(Toks \cup {token}, next.cursor))
    <3> DEFINE ts == Toks \cup {token}
    <3> HIDE DEF next, ts
    <3>1. cursor \in Nat /\ next.cursor \in Nat /\ CommentEnd(0) <= cursor /\ cursor <= next.cursor
      BY <1>2, <2>2
    <3>2. \A t \in ts : t.at \in Nat /\ t.count \in Nat /\ t.at + t.count <= cursor
      BY <2>4 DEF ts
    <3>3. Cardinality(Passed(ts, next.cursor)) =
            Cardinality(Passed(ts, cursor)) + Cardinality(NewlinesIn(cursor, next.cursor))
      BY <1>2, <3>1, <3>2, MoreNewlines
    <3> QED BY <2>3, <2>5, <3>3 DEF ts
  <2>7. loc'.line = Cardinality(Passed(Toks \cup {token}, cursor))'
    BY <1>1, <1>3, <2>6
  <2> QED BY <1>1, <1>3, <1>4, <2>7 DEF LineInv
<1> QED BY <1>5, <1>6

LEMMA LineDeliver == TInv /\ WInv /\ LineInv /\ Deliver => LineInv'
<1> SUFFICES ASSUME TInv, WInv, LineInv, Deliver PROVE LineInv'
  OBVIOUS
<1> DEFINE new == [tok |-> token, ahead |-> lookahead]
           n   == Len(delivered)
<1>1. /\ phase = "deliver" /\ phase' = "fetch"
      /\ delivered' = Append(delivered, new)
      /\ UNCHANGED <<client, text, cursor, loc, token, lookahead>>
  BY DEF Deliver
<1>2. PICK Elems : delivered \in Seq(Elems)
  BY DEF TInv, DeliveredOK
<1>3. /\ n \in Nat /\ DOMAIN delivered = 1..n /\ DOMAIN delivered' = 1..(n + 1)
      /\ \A i \in 1..n : delivered'[i] = delivered[i]
      /\ delivered'[n + 1] = new
  BY <1>1, <1>2, OneMore
<1> HIDE DEF n
<1>4. \A i \in 1..(n + 1) : i \in 1..n \/ i = n + 1
  BY <1>3
<1>5. Toks' = Toks \cup {token}
  <2>1. \A i \in 1..(n + 1) : delivered'[i].tok \in Toks \cup {token}
    BY <1>3, <1>4 DEF Toks
  <2>2. \A i \in 1..n : delivered[i].tok \in Toks'
    BY <1>3 DEF Toks
  <2>3. token \in Toks'
    <3>1. n + 1 \in DOMAIN delivered' /\ delivered'[n + 1].tok = token
      BY <1>3
    <3> QED BY <3>1 DEF Toks
  <2> QED BY <1>3, <2>1, <2>2, <2>3 DEF Toks
<1>6. /\ Passed(Toks, cursor)' = Passed(Toks \cup {token}, cursor)
      /\ AtEof(cursor)' <=> AtEof(cursor)
      /\ CommentEnd(0)' = CommentEnd(0)
  BY <1>1, <1>5, CountStays, TextStays
<1>8. LinesPassed'
  <2> SUFFICES ASSUME NEW i \in 1..(n + 1)
               PROVE  delivered'[i].tok.loc.line =
                        Cardinality(Passed(ToksTo(i), delivered[i].tok.at))'
    BY <1>3 DEF LinesPassed
  <2>1. Passed(ToksTo(i), delivered[i].tok.at)' = Passed(ToksTo(i)', delivered'[i].tok.at)
    BY <1>1, <1>6 DEF Passed, Loses, Covers, Char
  <2>2. CASE i \in 1..n
    <3>1. \A j \in 1..i : j \in 1..n /\ delivered'[j] = delivered[j]
      BY <1>3, <2>2
    <3>2. ToksTo(i)' = ToksTo(i)
      BY <3>1 DEF ToksTo
    <3>3. delivered[i].tok.loc.line = Cardinality(Passed(ToksTo(i), delivered[i].tok.at))
      BY <1>3, <2>2 DEF LineInv, LinesPassed
    <3>4. delivered'[i] = delivered[i]
      BY <1>3, <2>2
    <3> QED BY <2>1, <3>2, <3>3, <3>4
  <2>3. CASE i = n + 1
    <3>1. ToksTo(i)' = Toks \cup {token}
      <4>1. ToksTo(i)' = Toks'
        BY <1>3, <2>3 DEF ToksTo, Toks
      <4> QED BY <1>5, <4>1
    <3>2. delivered'[i].tok = token
      BY <1>3, <2>3
    <3>3. token.loc.line = Cardinality(Passed(Toks \cup {token}, token.at))
      BY <1>1 DEF LineInv
    <3> QED BY <2>1, <3>1, <3>2, <3>3
  <2> QED BY <1>4, <2>2, <2>3
<1>9. ~AtEof(cursor)' => loc'.line = Cardinality(Passed(Toks, cursor))'
  BY <1>1, <1>6 DEF LineInv
<1> QED BY <1>1, <1>8, <1>9 DEF LineInv

LEMMA LineOver == LineInv /\ (Overrun \/ UNCHANGED vars) => LineInv'
<1> SUFFICES ASSUME LineInv, Overrun \/ UNCHANGED vars PROVE LineInv'
  OBVIOUS
<1>1. /\ UNCHANGED <<client, text, cursor, loc, token, lookahead, delivered>>
      /\ phase' = phase \/ phase' = "overrun"
  BY DEF Overrun, vars
<1>2. /\ Toks' = Toks /\ LinesPassed'
      /\ Passed(Toks, cursor)' = Passed(Toks, cursor)
      /\ Passed(Toks \cup {token}, token.at)' = Passed(Toks \cup {token}, token.at)
      /\ Passed(Toks \cup {token}, cursor)' = Passed(Toks \cup {token}, cursor)
      /\ AtEof(cursor)' <=> AtEof(cursor)
  BY <1>1, CountStays DEF LineInv
<1> QED BY <1>1, <1>2 DEF LineInv

\* The newlines passed are those before a token that are not missed.
LEMMA MissedNotPassed ==
  ASSUME DeliveredOK, CommentEnd(0) \in Nat, NEW i \in DOMAIN delivered
  PROVE  Cardinality(Passed(ToksTo(i), delivered[i].tok.at)) =
           Cardinality(Newlines(delivered[i].tok.at)) - Cardinality(Missed(i))
<1> DEFINE p == delivered[i].tok.at
           N == Newlines(p)
           M == Missed(i)
           P == Passed(ToksTo(i), p)
<1>1. p \in Nat
  BY DEF DeliveredOK
<1>2. M \subseteq N
  BY DEF Missed
<1>3. IsFiniteSet(N)
  <2>1. 0 \in Int /\ p - 1 \in Int
    BY <1>1
  <2>2. IsFiniteSet(0..(p - 1))
    BY <2>1, FS_Interval
  <2>3. N \subseteq 0..(p - 1)
    BY DEF Newlines
  <2> QED BY <2>2, <2>3, FS_Subset
<1>4. P = N \ M
  <2>1. \A c : c \in CommentEnd(0)..(p - 1) <=> c \in 0..(p - 1) /\ ~(c < CommentEnd(0))
    BY <1>1
  <2>2. \A c : (\A t \in ToksTo(i) : ~Loses(t, c)) <=> ~(\E j \in 1..i : Loses(delivered[j].tok, c))
    BY DEF ToksTo
  <2> QED BY <2>1, <2>2 DEF Passed, Missed, Newlines
<1> HIDE DEF N, M, P
<1>5. N \cap M = M
  BY <1>2
<1>6. IsFiniteSet(M)
  BY <1>2, <1>3, FS_Subset
<1>7. Cardinality(N \ M) = Cardinality(N) - Cardinality(N \cap M)
  BY <1>3, <1>6, FS_Difference
<1> QED BY <1>4, <1>5, <1>7 DEF N, M, P

\* In a well-formed text the line number of a token falls short of its line by
\* the newlines of an opening comment, of tokens and of what lies before a
\* character that is not recognised, and by nothing else.
THEOREM NoOtherLineMissed == Spec /\ WellFormedText => []LinesMissed
<1>1. TInv /\ WInv /\ LineInv /\ [Next]_vars => LineInv'
  BY LineFetch, LineAdvance, LineLook, LineDeliver, LineOver DEF Next, Terminated
<1>2. TInv /\ WInv /\ LineInv => LinesMissed
  <2> SUFFICES ASSUME TInv, WInv, LineInv, NEW i \in DOMAIN delivered
               PROVE  delivered[i].tok.loc.line =
                        Cardinality(Newlines(delivered[i].tok.at)) - Cardinality(Missed(i))
    BY DEF LinesMissed
  <2>1. CommentEnd(0) \in Nat /\ DeliveredOK
    BY FirstComment DEF TInv, TypeOK
  <2> QED BY <2>1, MissedNotPassed DEF LineInv, LinesPassed
<1> QED BY <1>1, <1>2, LineInit, TokenizerInvariant, WellFormedInvariant, PTL DEF Spec

-----------------------------------------------------------------------------
(* The first expression that matches and the longest match.                *)

LEMMA WordStart ==
  ASSUME NEW c \in Nat, NEW w, Len(w) \in Nat, Len(w) > 0, Word(c, w) > 0
  PROVE  Char(c) = w[1]
<1>1. \A i \in 1..Len(w) : Char(c + i - 1) = w[i]
  BY DEF Word
<1>2. Char(c + 1 - 1) = w[1] /\ c + 1 - 1 = c
  BY <1>1
<1> QED BY <1>2

\* The character an expression starts with.
LEMMA PatternStarts ==
  ASSUME text \in Seq(Chars), NEW c \in 0..Len(text)
  PROVE  LET P == Patterns(c) IN
         /\ P[1].count > 0 => Char(c) = DQuote
         /\ P[2].count > 0 => Char(c) = "'"
         /\ P[3].count > 0 => Char(c) = "f"
         /\ P[4].count > 0 => Char(c) = "i"
         /\ P[5].count > 0 => Char(c) = "e"
         /\ P[6].count > 0 => Char(c) = "s"
         /\ P[7].count > 0 => Char(c) = "b"
         /\ P[8].count > 0 => Char(c) = "d"
         /\ P[9].count > 0 => Char(c) = "r"
         /\ P[10].count > 0 => Char(c) = "-"
         /\ P[11].count > 0 => Char(c) = "0"
         /\ P[12].count > 0 => Char(c) \in Digits
         /\ P[13].count > 0 => Char(c) \in Digits
         /\ P[14].count > 0 => Char(c) \in Letters
         /\ P[15].count > 0 => Char(c) = Bar
         /\ P[16].count > 0 => Char(c) = "&"
         /\ P[17].count > 0 => Char(c) = ">"
         /\ P[18].count > 0 => Char(c) = "<"
         /\ P[19].count > 0 => Char(c) = "="
<1> DEFINE P == Patterns(c)
<1>1. \A w : Len(w) \in Nat /\ Len(w) > 0 /\ Word(c, w) > 0 => Char(c) = w[1]
  BY WordStart
<1>2. /\ P[1].count > 0 => Char(c) = DQuote
      /\ P[2].count > 0 => Char(c) = "'"
      /\ P[14].count > 0 => Char(c) \in Letters
  BY DEF Patterns, Match, StringLit, CharLit, Identifier
<1>3. /\ P[3].count > 0 => Char(c) = "f"
      /\ P[4].count > 0 => Char(c) = "i"
      /\ P[10].count > 0 => Char(c) = "-"
      /\ P[15].count > 0 => Char(c) = Bar
      /\ P[16].count > 0 => Char(c) = "&"
      /\ P[17].count > 0 => Char(c) = ">"
      /\ P[18].count > 0 => Char(c) = "<"
      /\ P[19].count > 0 => Char(c) = "="
  <2>1. \A a, b : Word(c, <<a, b>>) > 0 => Char(c) = a
    <3> TAKE a, b
    <3> DEFINE w == <<a, b>>
    <3>1. Len(w) \in Nat /\ Len(w) > 0 /\ w[1] = a
      OBVIOUS
    <3> HIDE DEF w
    <3>2. Word(c, w) > 0 => Char(c) = a
      BY <1>1, <3>1
    <3> QED BY <3>2 DEF w
  <2> QED BY <2>1 DEF Patterns, Match
<1>4. P[5].count > 0 => Char(c) = "e"
  <2> DEFINE w == <<"e", "l", "s", "e">>
  <2>1. Len(w) \in Nat /\ Len(w) > 0 /\ w[1] = "e" /\ P[5].count = Word(c, w)
    BY DEF Patterns, Match
  <2> HIDE DEF w, P
  <2> QED BY <1>1, <2>1
<1>5. P[6].count > 0 => Char(c) = "s"
  <2> DEFINE w == <<"s", "w", "i", "t", "c", "h">>
  <2>1. Len(w) \in Nat /\ Len(w) > 0 /\ w[1] = "s" /\ P[6].count = Word(c, w)
    BY DEF Patterns, Match
  <2> HIDE DEF w, P
  <2> QED BY <1>1, <2>1
<1>6. P[7].count > 0 => Char(c) = "b"
  <2> DEFINE w == <<"b", "r", "e", "a", "k">>
  <2>1. Len(w) \in Nat /\ Len(w) > 0 /\ w[1] = "b" /\ P[7].count = Word(c, w)
    BY DEF Patterns, Match
  <2> HIDE DEF w, P
  <2> QED BY <1>1, <2>1
<1>7. P[8].count > 0 => Char(c) = "d"
  <2> DEFINE w == <<"d", "e", "f", "a", "u", "l", "t">>
  <2>1. Len(w) \in Nat /\ Len(w) > 0 /\ w[1] = "d" /\ P[8].count = Word(c, w)
    BY DEF Patterns, Match
  <2> HIDE DEF w, P
  <2> QED BY <1>1, <2>1
<1>8. P[9].count > 0 => Char(c) = "r"
  <2> DEFINE w == <<"r", "e", "t", "u", "r", "n">>
  <2>1. Len(w) \in Nat /\ Len(w) > 0 /\ w[1] = "r" /\ P[9].count = Word(c, w)
    BY DEF Patterns, Match
  <2> HIDE DEF w, P
  <2> QED BY <1>1, <2>1
<1>9. P[11].count > 0 => Char(c) = "0"
  <2> DEFINE w == <<"0", "x">>
  <2>1. Len(w) \in Nat /\ Len(w) > 0 /\ w[1] = "0" /\ (P[11].count > 0 => Word(c, w) > 0)
    BY DEF Patterns, Match, HexLit
  <2> HIDE DEF w, P
  <2> QED BY <1>1, <2>1
<1>10. DecimalLit(c) > 0 => Char(c) \in Digits
  <2>1. Char(c) \notin Digits => DecimalLit(c) = c - c
    BY EmptyRun DEF DecimalLit, Run
  <2> QED BY <2>1
<1>11. /\ P[12].count > 0 => Char(c) \in Digits
       /\ P[13].count > 0 => Char(c) \in Digits
  <2>1. P[13].count = DecimalLit(c)
    BY DEF Patterns, Match
  <2>2. P[12].count > 0 => DecimalLit(c) > 0
    <3>1. P[12].count = DoubleLit(c)
      BY DEF Patterns, Match
    <3>2. DecimalLit(c) \in Nat
      BY LiteralsEnd DEF Ends
    <3> QED BY <3>1, <3>2 DEF DoubleLit
  <2> QED BY <1>10, <2>1, <2>2
<1> QED BY <1>2, <1>3, <1>4, <1>5, <1>6, <1>7, <1>8, <1>9, <1>11

LEMMA QuotesApart ==
  /\ DQuote \notin Letters /\ DQuote \notin Digits
  /\ DQuote # "'" /\ DQuote # "-" /\ DQuote # "&" /\ DQuote # ">" /\ DQuote # "<" /\ DQuote # "="
  /\ Bar \notin Letters /\ Bar \notin Digits
  /\ Bar # "'" /\ Bar # "-" /\ Bar # "&" /\ Bar # ">" /\ Bar # "<" /\ Bar # "="
  /\ Bar # DQuote
  BY Zenon DEF DQuote, Bar, Letters, Digits

\* Two expressions that match at the same place are a keyword and a name, or
\* both numbers.
LEMMA TwoMatches ==
  ASSUME text \in Seq(Chars), NEW c \in 0..Len(text),
         NEW i \in 1..19, NEW k \in 1..19, i < k,
         Patterns(c)[i].count > 0, Patterns(c)[k].count > 0
  PROVE  (i \in 3..9 /\ k = 14) \/ (i \in 11..12 /\ k \in 12..13)
<1> DEFINE M == {j \in 1..19 : Patterns(c)[j].count > 0}
<1>1. /\ 1 \in M => Char(c) = DQuote
      /\ 2 \in M => Char(c) = "'"
      /\ 3 \in M => Char(c) = "f"
      /\ 4 \in M => Char(c) = "i"
      /\ 5 \in M => Char(c) = "e"
      /\ 6 \in M => Char(c) = "s"
      /\ 7 \in M => Char(c) = "b"
      /\ 8 \in M => Char(c) = "d"
      /\ 9 \in M => Char(c) = "r"
      /\ 10 \in M => Char(c) = "-"
      /\ 11 \in M => Char(c) \in Digits
      /\ 12 \in M => Char(c) \in Digits
      /\ 13 \in M => Char(c) \in Digits
      /\ 14 \in M => Char(c) \in Letters
      /\ 15 \in M => Char(c) = Bar
      /\ 16 \in M => Char(c) = "&"
      /\ 17 \in M => Char(c) = ">"
      /\ 18 \in M => Char(c) = "<"
      /\ 19 \in M => Char(c) = "="
  BY PatternStarts DEF Digits
<1>2. i \in M /\ k \in M
  OBVIOUS
<1> HIDE DEF M
<1>3. \/ i = 1 \/ i = 2 \/ i = 3 \/ i = 4 \/ i = 5 \/ i = 6 \/ i = 7 \/ i = 8 \/ i = 9 \/ i = 10
      \/ i = 11 \/ i = 12 \/ i = 13 \/ i = 14 \/ i = 15 \/ i = 16 \/ i = 17 \/ i = 18 \/ i = 19
  OBVIOUS
<1>4. \/ k = 1 \/ k = 2 \/ k = 3 \/ k = 4 \/ k = 5 \/ k = 6 \/ k = 7 \/ k = 8 \/ k = 9 \/ k = 10
      \/ k = 11 \/ k = 12 \/ k = 13 \/ k = 14 \/ k = 15 \/ k = 16 \/ k = 17 \/ k = 18 \/ k = 19
  OBVIOUS
<1>5. /\ DQuote \notin Letters /\ DQuote \notin Digits
      /\ Bar \notin Letters /\ Bar \notin Digits
      /\ "'" \notin Letters /\ "'" \notin Digits
      /\ "-" \notin Letters /\ "-" \notin Digits
      /\ "&" \notin Letters /\ "&" \notin Digits
      /\ ">" \notin Letters /\ ">" \notin Digits
      /\ "<" \notin Letters /\ "<" \notin Digits
      /\ "=" \notin Letters /\ "=" \notin Digits
      /\ {"f", "i", "e", "s", "b", "d", "r"} \subseteq Letters
      /\ \A ch \in Letters : ch \notin Digits
  BY QuotesApart DEF Letters, Digits
<1>6. CASE Char(c) \in Letters
  <2>1. /\ 1 \notin M /\ 2 \notin M /\ 10 \notin M /\ 11 \notin M /\ 12 \notin M /\ 13 \notin M
        /\ 15 \notin M /\ 16 \notin M /\ 17 \notin M /\ 18 \notin M /\ 19 \notin M
    BY <1>1, <1>5, <1>6
  <2>2. i \in {3, 4, 5, 6, 7, 8, 9, 14}
    BY <1>2, <1>3, <2>1, SMTT(60)
  <2>3. k \in {3, 4, 5, 6, 7, 8, 9, 14}
    BY <1>2, <1>4, <2>1, SMTT(60)
  <2>4. ~(i \in 3..9 /\ k \in 3..9)
    <3>1. i \in 3..8 => i = 3 \/ i = 4 \/ i = 5 \/ i = 6 \/ i = 7 \/ i = 8
      OBVIOUS
    <3>2. k \in 4..9 => k = 4 \/ k = 5 \/ k = 6 \/ k = 7 \/ k = 8 \/ k = 9
      OBVIOUS
    <3>3. ~(i \in 3..8 /\ k \in 4..9)
      BY <1>1, <1>2, <3>1, <3>2, SMTT(60)
    <3> QED BY <3>3
  <2>5. (i \in 3..9 \/ i = 14) /\ (k \in 3..9 \/ k = 14)
    BY <2>2, <2>3
  <2> QED BY <2>4, <2>5
<1>7. CASE Char(c) \in Digits
  <2>1. /\ 1 \notin M /\ 2 \notin M /\ 3 \notin M /\ 4 \notin M /\ 5 \notin M /\ 6 \notin M
        /\ 7 \notin M /\ 8 \notin M /\ 9 \notin M /\ 10 \notin M /\ 14 \notin M
        /\ 15 \notin M /\ 16 \notin M /\ 17 \notin M /\ 18 \notin M /\ 19 \notin M
    BY <1>1, <1>5, <1>7
  <2>2. i = 11 \/ i = 12 \/ i = 13
    BY <1>2, <1>3, <2>1, ZenonT(60)
  <2>3. k = 11 \/ k = 12 \/ k = 13
    BY <1>2, <1>4, <2>1, ZenonT(60)
  <2> QED BY <2>2, <2>3
<1>8. CASE Char(c) \notin Letters /\ Char(c) \notin Digits
  <2>1. /\ 3 \notin M /\ 4 \notin M /\ 5 \notin M /\ 6 \notin M /\ 7 \notin M /\ 8 \notin M
        /\ 9 \notin M /\ 11 \notin M /\ 12 \notin M /\ 13 \notin M /\ 14 \notin M
    BY <1>1, <1>5, <1>8
  <2>2. i = 1 \/ i = 2 \/ i = 10 \/ i = 15 \/ i = 16 \/ i = 17 \/ i = 18 \/ i = 19
    BY <1>2, <1>3, <2>1, ZenonT(60)
  <2>3. k = 1 \/ k = 2 \/ k = 10 \/ k = 15 \/ k = 16 \/ k = 17 \/ k = 18 \/ k = 19
    BY <1>2, <1>4, <2>1, ZenonT(60)
  <2> QED BY <1>1, <1>2, <2>2, <2>3, QuotesApart, SMTT(60)
<1> QED BY <1>6, <1>7, <1>8

\* Of two numbers the one tried first is the longer one.
LEMMA LongerNumber ==
  ASSUME text \in Seq(Chars), NEW c \in 0..Len(text)
  PROVE  /\ HexLit(c) > 0 => DecimalLit(c) <= HexLit(c) /\ DoubleLit(c) = 0
         /\ DoubleLit(c) > 0 => DecimalLit(c) <= DoubleLit(c)
<1>1. /\ DecimalLit(c) \in Nat /\ c + DecimalLit(c) <= Len(text)
      /\ HexLit(c) \in Nat
  BY LiteralsEnd DEF Ends
<1>2. ASSUME HexLit(c) > 0
      PROVE  DecimalLit(c) = 1 /\ Char(c + 1) = "x" /\ HexLit(c) >= 2
  <2>1. Char(c) = "0" /\ Char(c + 1) = "x" /\ HexLit(c) = 2 + Run(c + 2, HexDigits)
    <3> DEFINE w == <<"0", "x">>
    <3>1. Len(w) = 2 /\ w[1] = "0" /\ w[2] = "x"
      OBVIOUS
    <3>2. Word(c, w) > 0 /\ HexLit(c) = 2 + Run(c + 2, HexDigits)
      BY <1>2 DEF HexLit
    <3> HIDE DEF w
    <3>3. \A i \in 1..2 : Char(c + i - 1) = w[i]
      BY <3>1, <3>2 DEF Word
    <3>4. Char(c + 1 - 1) = "0" /\ Char(c + 2 - 1) = "x" /\ c + 1 - 1 = c /\ c + 2 - 1 = c + 1
      BY <3>1, <3>3
    <3> QED BY <3>2, <3>4
  <2>2. c + 1 < Len(text)
    BY <2>1, CharHere
  <2>3. HexLit(c) >= 2
    <3>1. "NUL" \notin HexDigits /\ c + 2 \in 0..Len(text)
      BY <2>2 DEF HexDigits, Digits
    <3>2. Run(c + 2, HexDigits) \in Nat
      BY <3>1, RunFits
    <3> QED BY <2>1, <3>2
  <2>4. EndOfRun(c, Digits) = c + 1
    <3> DEFINE e == EndOfRun(c, Digits)
    <3>1. e \in c..Len(text) /\ Char(e) \notin Digits /\ \A k \in c..(e - 1) : Char(k) \in Digits
      <4>1. "NUL" \notin Digits /\ Len(text) \in Nat
        BY DEF Digits
      <4> QED BY <4>1, EndOfRunFound
    <3> HIDE DEF e
    <3>2. "0" \in Digits /\ "x" \notin Digits
      BY DEF Digits
    <3>3. e # c
      BY <2>1, <3>1, <3>2
    <3>4. ~(c + 1 \in c..(e - 1))
      BY <2>1, <3>1, <3>2
    <3>5. e = c + 1
      BY <3>1, <3>3, <3>4
    <3> QED BY <3>5 DEF e
  <2> QED BY <2>1, <2>3, <2>4 DEF DecimalLit, Run
<1>3. HexLit(c) > 0 => DecimalLit(c) <= HexLit(c) /\ DoubleLit(c) = 0
  <2> SUFFICES ASSUME HexLit(c) > 0
               PROVE  DecimalLit(c) <= HexLit(c) /\ DoubleLit(c) = 0
    OBVIOUS
  <2>1. DoubleLit(c) = 0
    <3>1. Char(c + DecimalLit(c)) # "."
      BY <1>2
    <3> QED BY <3>1 DEF DoubleLit
  <2> QED BY <1>1, <1>2, <2>1
<1>4. DoubleLit(c) > 0 => DecimalLit(c) <= DoubleLit(c)
  <2> DEFINE dot == c + DecimalLit(c)
  <2> SUFFICES ASSUME DoubleLit(c) > 0
               PROVE  DecimalLit(c) <= DoubleLit(c)
    OBVIOUS
  <2>1. Char(dot) = "." /\ DoubleLit(c) = dot - c + 1 + Run(dot + 1, Digits)
    BY DEF DoubleLit
  <2>2. dot \in Nat /\ dot < Len(text)
    <3>1. dot \in Nat
      BY <1>1
    <3> HIDE DEF dot
    <3> QED BY <2>1, <3>1, CharHere
  <2>3. Run(dot + 1, Digits) \in Nat
    <3>1. "NUL" \notin Digits /\ dot + 1 \in 0..Len(text)
      BY <2>2 DEF Digits
    <3> QED BY <3>1, RunFits
  <2> QED BY <1>1, <2>1, <2>3
<1> QED BY <1>3, <1>4

\* A keyword begins a longer name at c.
KeywordInName(c) ==
  \E i \in 3..9 : Patterns(c)[i].count > 0 /\ Patterns(c)[i].count < Patterns(c)[14].count

\* Where only a keyword and a name, or two numbers, match together, the first is
\* the longest, if no keyword begins a name.
LEMMA FirstIsLargest ==
  ASSUME NEW n, \A j \in 1..20 : n[j] \in Nat,
         NEW i \in 1..20, n[i] > 0, \A j \in 1..(i - 1) : ~(n[j] > 0),
         n[20] = 1,
         n[11] > 0 => n[13] <= n[11] /\ n[12] = 0,
         n[12] > 0 => n[13] <= n[12],
         \A j \in 3..9 : n[j] > 0 => ~(n[j] < n[14]),
         \A k \in 1..19 : i < k /\ n[k] > 0 =>
           (i \in 3..9 /\ k = 14) \/ (i \in 11..12 /\ k \in 12..13)
  PROVE  \A k \in 1..20 : n[k] <= n[i]
<1> TAKE k \in 1..20
<1>1. n[k] \in Nat /\ n[i] \in Nat
  OBVIOUS
<1>2. CASE k < i
  <2>1. k \in 1..(i - 1)
    BY <1>2
  <2> QED BY <1>1, <2>1
<1>3. CASE k = i
  BY <1>1, <1>3
<1>4. CASE k = 20
  BY <1>1, <1>4
<1>5. CASE i < k /\ k \in 1..19
  <2>1. CASE n[k] = 0
    BY <1>1, <2>1
  <2>2. CASE i \in 3..9 /\ k = 14
    BY <1>1, <2>2
  <2>3. CASE i \in 11..12 /\ k \in 12..13
    BY <1>1, <1>5, <2>3
  <2> QED BY <1>1, <1>5, <2>1, <2>2, <2>3
<1> QED BY <1>2, <1>3, <1>4, <1>5

LEMMA FirstIsLongest ==
  ASSUME text \in Seq(Chars), NEW c \in 0..Len(text), NEW l, ~KeywordInName(c)
  PROVE  \A k \in 1..20 : Patterns(c)[k].count <= TokenAt(c, l).count
<1>0. PICK i \in 1..20 : FirstMatch(c, l, i)
  BY FirstOfPatterns
<1>1. /\ i \in 1..20
      /\ Patterns(c)[i].count > 0
      /\ TokenAt(c, l).count = Patterns(c)[i].count
      /\ \A j \in 1..(i - 1) : ~(Patterns(c)[j].count > 0)
  BY <1>0 DEF FirstMatch
<1> DEFINE n == [j \in 1..20 |-> Patterns(c)[j].count]
<1>2. \A j \in 1..20 : n[j] \in Nat
  <2>1. /\ \A j \in 1..19 : Ends(c, Patterns(c)[j].count)
        /\ Patterns(c)[20].count = 1
    BY PatternsEnd
  <2>2. \A j \in 1..19 : Patterns(c)[j].count \in Nat
    BY <2>1 DEF Ends
  <2>3. \A j \in 1..20 : n[j] = Patterns(c)[j].count
    OBVIOUS
  <2> HIDE DEF n
  <2> TAKE j \in 1..20
  <2>4. CASE j \in 1..19
    BY <2>2, <2>3, <2>4
  <2>5. CASE j = 20
    BY <2>1, <2>3, <2>5
  <2> QED BY <2>4, <2>5, SMTT(60)
<1>3. /\ n[11] = HexLit(c) /\ n[12] = DoubleLit(c) /\ n[13] = DecimalLit(c)
      /\ n[20] = 1
  BY DEF Patterns, Match
<1>4. ~(\E j \in 3..9 : n[j] > 0 /\ n[j] < n[14])
  BY SMTT(60) DEF KeywordInName
<1>5. \A k \in 1..19 : i < k /\ n[k] > 0 =>
         (i \in 3..9 /\ k = 14) \/ (i \in 11..12 /\ k \in 12..13)
  <2> TAKE k \in 1..19
  <2> HAVE i < k /\ n[k] > 0
  <2>1. i \in 1..19
    BY <1>1
  <2>2. n[k] = Patterns(c)[k].count
    OBVIOUS
  <2> HIDE DEF n
  <2>3. Patterns(c)[k].count > 0
    BY <2>2
  <2>4. i < k /\ Patterns(c)[i].count > 0
    BY <1>1
  <2> QED BY <2>1, <2>3, <2>4, TwoMatches, ZenonT(30)
<1>6. n[i] > 0 /\ \A j \in 1..(i - 1) : ~(n[j] > 0)
  BY <1>1, SMTT(60)
<1>7. /\ n[11] > 0 => n[13] <= n[11] /\ n[12] = 0
      /\ n[12] > 0 => n[13] <= n[12]
  BY <1>3, LongerNumber
<1> HIDE DEF n
<1>8. \A j \in 3..9 : n[j] > 0 => ~(n[j] < n[14])
  BY <1>4
<1>9. \A k \in 1..20 : n[k] <= n[i]
  BY <1>2, <1>3, <1>5, <1>6, <1>7, <1>8, FirstIsLargest
<1> QED BY <1>1, <1>9 DEF n

\* What is delivered is what was found where it starts.
MunchInv ==
  phase \in {"look", "deliver"} =>
    token.at \in 0..Len(text) /\ \E l : token = TokenAt(token.at, l)

LEMMA MunchStep == TInv /\ MunchInv /\ [Next]_vars => MunchInv'
<1> SUFFICES ASSUME TInv, MunchInv, [Next]_vars PROVE MunchInv'
  OBVIOUS
<1>1. text' = text
  BY DEF Next, Overrun, Fetch, Advance, Look, Deliver, Terminated, vars
<1>2. \A p, q : TokenAt(p, q)' = TokenAt(p, q)
  BY <1>1 DEF TokenAt, Patterns, Match, StringLit, CharLit, HexLit, DoubleLit, DecimalLit,
              Identifier, Word, Run, EndOfRun, Char
<1>3. CASE Advance
  <2>1. token' = token /\ token = TokenAt(cursor, loc) /\ cursor \in 0..Len(text)
    BY <1>3 DEF Advance, TInv, Order
  <2>2. TokenAt(cursor, loc).at = cursor
    BY <2>1, TokenFits DEF TInv, TypeOK
  <2>3. PICK p \in 0..Len(text), q \in {loc} : p = token.at /\ token = TokenAt(p, q)
    BY <2>1, <2>2
  <2>4. token' = TokenAt(p, q)' /\ token'.at = p
    BY <1>2, <2>1, <2>3
  <2> QED BY <1>1, <2>3, <2>4 DEF MunchInv
<1>4. CASE Look
  BY <1>1, <1>2, <1>4 DEF Look, MunchInv
<1>5. CASE Fetch \/ Deliver \/ Overrun
  BY <1>5 DEF Fetch, Deliver, Overrun, MunchInv
<1>6. CASE Terminated \/ UNCHANGED vars
  BY <1>1, <1>2, <1>6 DEF Terminated, vars, MunchInv
<1> QED BY <1>3, <1>4, <1>5, <1>6 DEF Next

\* Whatever the text is: a token that is delivered is the longest there is
\* where it starts, unless a keyword begins a name there.
THEOREM LongestUnlessKeyword ==
  Spec => []((phase = "deliver" /\ ~KeywordInName(token.at)) => MaximalMunch)
<1>1. ASSUME TInv, MunchInv, phase = "deliver", ~KeywordInName(token.at)
      PROVE  MaximalMunch
  <2>1. PICK l : token = TokenAt(token.at, l)
    BY <1>1 DEF MunchInv
  <2>2. text \in Seq(Chars) /\ token.at \in 0..Len(text)
    BY <1>1 DEF TInv, TypeOK, MunchInv
  <2>3. \A k \in 1..20 : Patterns(token.at)[k].count <= TokenAt(token.at, l).count
    BY <1>1, <2>2, FirstIsLongest
  <2>4. DOMAIN Patterns(token.at) = 1..20
    BY <2>2, PatternsEnd
  <2> QED BY <2>1, <2>3, <2>4 DEF MaximalMunch
<1>2. TInv /\ MunchInv => ((phase = "deliver" /\ ~KeywordInName(token.at)) => MaximalMunch)
  BY <1>1
<1>3. Init => MunchInv
  BY DEF Init, MunchInv
<1> QED BY <1>2, <1>3, MunchStep, TokenizerInvariant, PTL DEF Spec

\* In a text in which no token that is delivered starts as a keyword and goes
\* on as a name, no token is the beginning of a longer one.
THEOREM TokensAreLongest ==
  Spec /\ [](phase = "deliver" => ~KeywordInName(token.at)) => []MaximalMunch
<1>1. /\ (phase = "deliver" /\ ~KeywordInName(token.at)) => MaximalMunch
      /\ phase = "deliver" => ~KeywordInName(token.at)
      => MaximalMunch
  BY DEF MaximalMunch
<1> QED BY <1>1, LongestUnlessKeyword, PTL

(***************************************************************************)
(* SECOND PART.  FrontEnd: it implements LalrParser.                       *)
(***************************************************************************)

-----------------------------------------------------------------------------
(* What the text says is defined: Readings is a recursive function. *)

\* The readings of the text from c on, given those from every later position.
Reading(f, c) ==
  IF c = Len(text) THEN {<<>>}
  ELSE IF Char(c) \in Blanks THEN f[c + 1]
  ELSE UNION {{<<Kind(Token(m.type, c, m.count, NoLoc))>> \o rest : rest \in f[c + m.count]} :
                m \in {Patterns(c)[i] : i \in LongestAt(c)}}

\* A longest match is one, and ends in the text.
LEMMA LongestFits ==
  ASSUME text \in Seq(Chars), NEW c \in 0..Len(text), c < Len(text), NEW i \in LongestAt(c)
  PROVE  /\ i \in 1..20
         /\ Patterns(c)[i].count \in 1..(Len(text) - c)
         /\ \A j \in 1..20 : Patterns(c)[j].count <= Patterns(c)[i].count
         /\ \A j \in 1..(i - 1) : Patterns(c)[j].count < Patterns(c)[i].count
<1> DEFINE P == Patterns(c)
<1>1. /\ DOMAIN P = 1..20
      /\ \A j \in 1..19 : Ends(c, P[j].count)
      /\ P[20].count = 1
  BY PatternsEnd
<1> HIDE DEF P
<1>2. /\ i \in 1..20
      /\ P[i].count > 0
      /\ \A j \in 1..20 : P[j].count <= P[i].count
      /\ \A j \in 1..(i - 1) : P[j].count < P[i].count
  BY <1>1 DEF LongestAt, P
<1>3. P[i].count \in 1..(Len(text) - c)
  <2>1. CASE i = 20
    <3>1. P[i].count = 1 /\ 1 \in 1..(Len(text) - c)
      BY <1>1, <2>1
    <3> QED BY <3>1
  <2>2. CASE i \in 1..19
    <3>1. Ends(c, P[i].count)
      BY <1>1, <2>2
    <3>2. P[i].count \in Nat /\ c + P[i].count <= Len(text)
      BY <1>2, <3>1 DEF Ends
    <3>3. Len(text) \in Nat /\ c \in Nat /\ P[i].count > 0
      BY <1>2
    <3> QED BY <3>2, <3>3
  <2>3. i = 20 \/ i \in 1..19
    BY <1>2
  <2> QED BY <2>1, <2>2, <2>3
<1> QED BY <1>2, <1>3 DEF P

\* Only later positions are asked for.
LEMMA LaterOnly ==
  ASSUME text \in Seq(Chars), NEW c \in 0..Len(text), NEW f, NEW g,
         \A k \in (c + 1)..Len(text) : f[k] = g[k]
  PROVE  Reading(f, c) = Reading(g, c)
<1>1. CASE c = Len(text)
  BY <1>1 DEF Reading
<1>2. CASE c < Len(text) /\ Char(c) \in Blanks
  BY <1>2 DEF Reading
<1>3. CASE c < Len(text) /\ Char(c) \notin Blanks
  <2> DEFINE M == {Patterns(c)[i] : i \in LongestAt(c)}
             word(m) == <<Kind(Token(m.type, c, m.count, NoLoc))>>
  <2>1. \A m \in M : f[c + m.count] = g[c + m.count]
    <3> TAKE m \in M
    <3>1. PICK i \in LongestAt(c) : m = Patterns(c)[i]
      OBVIOUS
    <3>2. m.count \in 1..(Len(text) - c)
      BY <1>3, <3>1, LongestFits
    <3>3. c + m.count \in (c + 1)..Len(text)
      BY <3>2
    <3> QED BY <3>3
  <2>0. c # Len(text)
    BY <1>3
  <2>2. Reading(f, c) = UNION {{word(m) \o rest : rest \in f[c + m.count]} : m \in M}
    BY <1>3, <2>0, Zenon DEF Reading
  <2>3. Reading(g, c) = UNION {{word(m) \o rest : rest \in g[c + m.count]} : m \in M}
    BY <1>3, <2>0, Zenon DEF Reading
  <2> HIDE DEF M, word
  <2>4. {{word(m) \o rest : rest \in f[c + m.count]} : m \in M} =
        {{word(m) \o rest : rest \in g[c + m.count]} : m \in M}
    BY <2>1
  <2> QED BY <2>2, <2>3, <2>4
<1> QED BY <1>1, <1>2, <1>3

\* The recursion ends: readings are defined from the end of the text on.
LEMMA ReadingsDefined ==
  ASSUME text \in Seq(Chars)
  PROVE  \A c \in 0..Len(text) : Readings[c] = Reading(Readings, c)
<1> DEFINE L == Len(text)
           Solves(f, m) == f = [c \in (L - m)..L |-> Reading(f, c)]
           T == {m \in 0..L : ~\E f : Solves(f, m)}
<1>1. L \in Nat
  OBVIOUS
<1>2. T = {}
  <2> SUFFICES ASSUME T # {} PROVE FALSE
    OBVIOUS
  <2>1. PICK m \in T : \A n \in T : m <= n
    <3>1. T \subseteq Nat
      OBVIOUS
    <3> HIDE DEF T
    <3> QED BY <3>1, LeastOf
  <2>2. m \in 0..L
    OBVIOUS
  <2>3. CASE m = 0
    <3> DEFINE f == [c \in (L - 0)..L |-> {<<>>}]
    <3>1. \A c \in (L - 0)..L : Reading(f, c) = {<<>>}
      BY <1>1 DEF Reading
    <3>2. f = [c \in (L - 0)..L |-> Reading(f, c)]
      BY <3>1
    <3>3. \E g : Solves(g, 0)
      BY <3>2
    <3> QED BY <2>1, <2>3, <3>3
  <2>4. CASE m > 0
    <3>1. m - 1 \in 0..L /\ ~(m <= m - 1)
      BY <2>2, <2>4
    <3>2. PICK f : Solves(f, m - 1)
      BY <2>1, <3>1
    <3> DEFINE g == [c \in (L - m)..L |-> IF c = L - m THEN Reading(f, c) ELSE f[c]]
    <3>3. \A c \in (L - m)..L : c = L - m \/ c \in (L - (m - 1))..L
      BY <2>2
    <3>4. \A c \in (L - (m - 1))..L : f[c] = Reading(f, c)
      <4>1. f = [c \in (L - (m - 1))..L |-> Reading(f, c)]
        BY <3>2
      <4> QED BY <4>1
    <3>5. \A c \in (L - m)..L : g[c] = Reading(g, c)
      <4> TAKE c \in (L - m)..L
      <4>1. c \in 0..L
        BY <2>2
      <4>2. \A k \in (c + 1)..L : f[k] = g[k]
        BY <2>2
      <4>3. Reading(f, c) = Reading(g, c)
        <5> HIDE DEF g
        <5> QED BY <4>1, <4>2, LaterOnly
      <4> QED BY <3>3, <3>4, <4>3
    <3>6. g = [c \in (L - m)..L |-> Reading(g, c)]
      <4>1. g = [c \in (L - m)..L |-> g[c]]
        OBVIOUS
      <4> HIDE DEF g
      <4> QED BY <3>5, <4>1
    <3>7. Solves(g, m)
      BY <3>6
    <3> QED BY <2>1, <3>7
  <2> QED BY <2>2, <2>3, <2>4
<1>3. \E f : f = [c \in 0..L |-> Reading(f, c)]
  <2>1. L \in 0..L /\ L \notin T
    BY <1>1, <1>2
  <2>2. PICK f : Solves(f, L)
    BY <2>1
  <2>3. (L - L)..L = 0..L
    BY <1>1
  <2> QED BY <2>2, <2>3
<1>4. Readings = CHOOSE f : f = [c \in 0..L |-> Reading(f, c)]
  BY DEF Readings, Reading
<1>5. Readings = [c \in 0..L |-> Reading(Readings, c)]
  <2> HIDE DEF L
  <2> QED BY <1>3, <1>4
<1> QED BY <1>5

\* Blanks say nothing.
LEMMA BlanksSkipped ==
  ASSUME text \in Seq(Chars), NEW a \in 0..Len(text), NEW b \in a..Len(text),
         \A k \in a..(b - 1) : Char(k) \in Blanks
  PROVE  Readings[a] = Readings[b]
<1> DEFINE T == {n \in 0..(b - a) : Readings[a] # Readings[a + n]}
<1>1. a \in Nat /\ b \in Nat /\ a <= b /\ b <= Len(text) /\ Len(text) \in Nat
  OBVIOUS
<1>2. T = {}
  <2> SUFFICES ASSUME T # {} PROVE FALSE
    OBVIOUS
  <2>1. PICK n \in T : \A m \in T : n <= m
    <3>1. T \subseteq Nat
      OBVIOUS
    <3> HIDE DEF T
    <3> QED BY <3>1, LeastOf
  <2>2. n \in 0..(b - a) /\ Readings[a] # Readings[a + n]
    OBVIOUS
  <2>3. n # 0
    BY <1>1, <2>2
  <2> DEFINE c == a + (n - 1)
  <2>4. c \in a..(b - 1) /\ c \in 0..Len(text) /\ c # Len(text) /\ c + 1 = a + n
        /\ n - 1 \in 0..(b - a) /\ ~(n <= n - 1)
    BY <1>1, <2>2, <2>3
  <2>5. Readings[a] = Readings[c]
    BY <2>1, <2>4
  <2> HIDE DEF c
  <2>6. Readings[c] = Readings[c + 1]
    <3>1. Readings[c] = Reading(Readings, c)
      BY <2>4, ReadingsDefined
    <3>2. Char(c) \in Blanks
      BY <2>4
    <3> QED BY <2>4, <3>1, <3>2 DEF Reading
  <2> QED BY <2>2, <2>4, <2>5, <2>6
<1>3. b - a \in 0..(b - a) /\ a + (b - a) = b
  BY <1>1
<1>4. Readings[a] = Readings[a + (b - a)]
  BY <1>2, <1>3
<1> QED BY <1>3, <1>4

\* At the end nothing is left.
LEMMA NothingLeft ==
  ASSUME text \in Seq(Chars)
  PROVE  Readings[Len(text)] = {<<>>}
<1>1. Len(text) \in 0..Len(text)
  OBVIOUS
<1>2. Readings[Len(text)] = Reading(Readings, Len(text))
  BY <1>1, ReadingsDefined
<1> QED BY <1>2 DEF Reading

\* The words begin with the kind of a match, and go on with what f has behind it.
BeginsWith(w, f, c, i) ==
  \E rest \in f[c + Patterns(c)[i].count] :
    w = <<Kind(Token(Patterns(c)[i].type, c, Patterns(c)[i].count, NoLoc))>> \o rest

\* At a token the text says one of the longest matches and what follows it.
LEMMA ReadingParts ==
  ASSUME NEW f, NEW c, c # Len(text), Char(c) \notin Blanks, NEW w \in Reading(f, c)
  PROVE  \E i \in LongestAt(c) : BeginsWith(w, f, c, i)
<1> DEFINE M == {Patterns(c)[i] : i \in LongestAt(c)}
           word(m) == <<Kind(Token(m.type, c, m.count, NoLoc))>>
<1>1. w \in UNION {{word(m) \o rest : rest \in f[c + m.count]} : m \in M}
  BY Zenon DEF Reading
<1>2. PICK m \in M : w \in {word(m) \o rest : rest \in f[c + m.count]}
  BY <1>1
<1>3. PICK rest \in f[c + m.count] : w = word(m) \o rest
  BY <1>2
<1>4. PICK i \in LongestAt(c) : m = Patterns(c)[i]
  BY <1>2
<1> WITNESS i \in LongestAt(c)
<1> QED BY <1>3, <1>4 DEF BeginsWith

\* The words are the token and what the text says behind it.
Continues(w, tok) == \E rest \in Readings[tok.at + tok.count] : w = <<Kind(tok)>> \o rest

\* Where no keyword begins a name, what get_next finds is what the text says.
LEMMA FirstWord ==
  ASSUME text \in Seq(Chars), NEW c \in 0..Len(text), c < Len(text), Char(c) \notin Blanks,
         ~KeywordInName(c), NEW l, NEW w \in Readings[c]
  PROVE  Continues(w, TokenAt(c, l))
<1>0. PICK i \in 1..20 : FirstMatch(c, l, i)
  BY FirstOfPatterns
<1>1. /\ i \in 1..20
      /\ Patterns(c)[i].count > 0
      /\ TokenAt(c, l).type = Patterns(c)[i].type
      /\ TokenAt(c, l).at = c
      /\ TokenAt(c, l).count = Patterns(c)[i].count
      /\ \A j \in 1..(i - 1) : ~(Patterns(c)[j].count > 0)
  BY <1>0 DEF FirstMatch
<1>2. \A k \in 1..20 : Patterns(c)[k].count <= Patterns(c)[i].count
  BY <1>1, FirstIsLongest
<1>3. ASSUME NEW k \in LongestAt(c)
      PROVE  k = i
  <2>1. /\ k \in 1..20
        /\ Patterns(c)[k].count \in 1..(Len(text) - c)
        /\ Patterns(c)[i].count <= Patterns(c)[k].count
        /\ \A j \in 1..(k - 1) : Patterns(c)[j].count < Patterns(c)[k].count
    BY LongestFits
  <2>2. Patterns(c)[k].count = Patterns(c)[i].count
    <3>1. Patterns(c)[i].count \in Nat
      <4>1. CASE i = 20
        BY <4>1, PatternsEnd, SMTT(30)
      <4>2. CASE i \in 1..19
        <5>1. Ends(c, Patterns(c)[i].count)
          BY <4>2, PatternsEnd
        <5> QED BY <5>1 DEF Ends
      <4> QED BY <4>1, <4>2
    <3>2. Patterns(c)[k].count <= Patterns(c)[i].count
      BY <1>2, <2>1
    <3> QED BY <2>1, <3>1, <3>2
  <2>3. ~(k < i)
    <3> SUFFICES ASSUME k < i PROVE FALSE
      OBVIOUS
    <3>1. k \in 1..(i - 1)
      BY <2>1
    <3> QED BY <1>1, <2>2, <3>1
  <2>4. ~(i < k)
    <3> SUFFICES ASSUME i < k PROVE FALSE
      OBVIOUS
    <3>1. i \in 1..(k - 1)
      BY <2>1
    <3>2. Patterns(c)[i].count < Patterns(c)[k].count
      BY <2>1, <3>1
    <3> QED BY <2>1, <2>2, <3>2
  <2> QED BY <2>1, <2>3, <2>4
<1>4. Readings[c] = Reading(Readings, c) /\ c # Len(text)
  BY ReadingsDefined
<1>5. PICK k \in LongestAt(c) : BeginsWith(w, Readings, c, k)
  BY <1>4, ReadingParts
<1>6. k = i
  BY <1>3
<1>7. Kind(Token(Patterns(c)[i].type, c, Patterns(c)[i].count, NoLoc)) = Kind(TokenAt(c, l))
  BY <1>1 DEF Kind, Token
<1>8. BeginsWith(w, Readings, c, i)
  BY <1>3, <1>5
<1> QED BY <1>1, <1>7, <1>8 DEF BeginsWith, Continues

-----------------------------------------------------------------------------
(* Readings are made of tokens, and the rules of the parser do not tell a  *)
(* character that is not recognised from the end of the file.              *)

\* What an expression recognises is a token of the parser.
LEMMA PatternKinds ==
  ASSUME text \in Seq(Chars), NEW c \in 0..Len(text), NEW i \in 1..20, NEW n, NEW l
  PROVE  Kind(Token(Patterns(c)[i].type, c, n, l)) \in Tokens
<1> DEFINE P == Patterns(c)
           single == IF Char(c) \in Signs THEN SingleChars[Char(c)] ELSE "UNKNOWN"
<1>1. single \in Tokens
  <2>1. ASSUME NEW ch \in Signs
        PROVE  SingleChars[ch] \in Tokens
    <3>1. \/ ch = Bar \/ ch = "&" \/ ch = ">" \/ ch = "<" \/ ch = ":" \/ ch = ";"
          \/ ch = "," \/ ch = "." \/ ch = "(" \/ ch = ")" \/ ch = "{" \/ ch = "}"
          \/ ch = "[" \/ ch = "]" \/ ch = "_" \/ ch = "-" \/ ch = "+" \/ ch = "*"
          \/ ch = "/" \/ ch = "%" \/ ch = "=" \/ ch = "'" \/ ch = DQuote
      BY DEF Signs
    <3>2. SingleChars[ch] \in
            {"BOR", "BAND", "GT", "LT", "COLON", "SEMI", "COMMA", "PERIOD", "LP", "RP", "LBRC",
             "RBRC", "LBRK", "RBRK", "UNDERSCORE", "MINUS", "PLUS", "MUL", "DIV", "MOD", "EQ",
             "SQUOTE", "DQUOTE"}
      BY <3>1, ZenonT(60) DEF SingleChars
    <3> QED BY <3>2, ZenonT(60) DEF Tokens, Relops, Mulops, Addops
  <2>2. "UNKNOWN" \in Tokens
    BY DEF Tokens
  <2> QED BY <2>1, <2>2
<1>2. P[20].type = single
  BY DEF Patterns, Match
<1>3. /\ P[1].type \in Tokens /\ P[2].type \in Tokens /\ P[3].type \in Tokens
      /\ P[4].type \in Tokens /\ P[5].type \in Tokens /\ P[6].type \in Tokens
      /\ P[7].type \in Tokens /\ P[8].type \in Tokens /\ P[9].type \in Tokens
      /\ P[10].type \in Tokens /\ P[11].type \in Tokens /\ P[12].type \in Tokens
      /\ P[13].type \in Tokens /\ P[14].type \in Tokens /\ P[15].type \in Tokens
      /\ P[16].type \in Tokens /\ P[17].type \in Tokens /\ P[18].type \in Tokens
      /\ P[19].type \in Tokens
  BY DEF Patterns, Match, Tokens, IdTokens, Relops
<1> HIDE DEF P, single
<1>4. \/ i = 1 \/ i = 2 \/ i = 3 \/ i = 4 \/ i = 5 \/ i = 6 \/ i = 7 \/ i = 8 \/ i = 9 \/ i = 10
      \/ i = 11 \/ i = 12 \/ i = 13 \/ i = 14 \/ i = 15 \/ i = 16 \/ i = 17 \/ i = 18 \/ i = 19
      \/ i = 20
  OBVIOUS
<1>5. P[i].type \in Tokens
  BY <1>1, <1>2, <1>3, <1>4
<1>6. "MODULE" \in Tokens
  BY DEF Tokens, IdTokens
<1> QED BY <1>5, <1>6 DEF Kind, Token, P

\* And so is what get_next finds.
LEMMA TokenKind ==
  ASSUME text \in Seq(Chars), NEW c \in 0..Len(text), NEW l
  PROVE  Kind(TokenAt(c, l)) \in Tokens
<1>0. PICK i \in 1..20 : FirstMatch(c, l, i)
  BY FirstOfPatterns
<1>1. /\ i \in 1..20
      /\ Patterns(c)[i].count > 0
      /\ TokenAt(c, l).type = Patterns(c)[i].type
      /\ TokenAt(c, l).at = c
      /\ TokenAt(c, l).count = Patterns(c)[i].count
      /\ TokenAt(c, l).loc \in {NoLoc, l}
      /\ \A j \in 1..(i - 1) : ~(Patterns(c)[j].count > 0)
  BY <1>0 DEF FirstMatch
<1>2. Kind(Token(Patterns(c)[i].type, c, Patterns(c)[i].count, NoLoc)) = Kind(TokenAt(c, l))
  BY <1>1 DEF Kind, Token
<1>3. Kind(Token(Patterns(c)[i].type, c, Patterns(c)[i].count, NoLoc)) \in Tokens
  BY PatternKinds
<1> QED BY <1>2, <1>3

\* So what the text says is a sequence of them: an input LalrParser takes.
LEMMA ReadingsAreTokens ==
  ASSUME text \in Seq(Chars)
  PROVE  \A c \in 0..Len(text) : Readings[c] \subseteq Seq(Tokens)
<1> DEFINE L == Len(text)
           T == {n \in 0..L : ~(Readings[L - n] \subseteq Seq(Tokens))}
<1>1. L \in Nat
  OBVIOUS
<1>2. T = {}
  <2> SUFFICES ASSUME T # {} PROVE FALSE
    OBVIOUS
  <2>1. PICK n \in T : \A m \in T : n <= m
    <3>1. T \subseteq Nat
      OBVIOUS
    <3> HIDE DEF T
    <3> QED BY <3>1, LeastOf
  <2> DEFINE c == L - n
  <2>2. n \in 0..L /\ c \in 0..L /\ ~(Readings[c] \subseteq Seq(Tokens))
    BY <1>1
  <2>3. ASSUME NEW k \in (c + 1)..L
        PROVE  Readings[k] \subseteq Seq(Tokens)
    <3>1. L - k \in 0..L /\ ~(n <= L - k) /\ L - (L - k) = k
      BY <1>1, <2>2
    <3> QED BY <2>1, <3>1
  <2> HIDE DEF T, c
  <2>4. Readings[c] = Reading(Readings, c)
    BY <2>2, ReadingsDefined
  <2>5. CASE c = L
    <3>1. Readings[c] = {<<>>} /\ <<>> \in Seq(Tokens)
      BY <2>4, <2>5 DEF Reading
    <3> QED BY <2>2, <3>1
  <2>6. CASE c # L /\ Char(c) \in Blanks
    <3>1. Readings[c] = Readings[c + 1]
      BY <2>4, <2>6 DEF Reading
    <3>2. c + 1 \in (c + 1)..L
      BY <1>1, <2>2, <2>6
    <3> QED BY <2>2, <2>3, <3>1, <3>2
  <2>7. CASE c # L /\ Char(c) \notin Blanks
    <3> SUFFICES ASSUME NEW w \in Readings[c]
                 PROVE  w \in Seq(Tokens)
      BY <2>2
    <3>0. PICK i \in LongestAt(c) : BeginsWith(w, Readings, c, i)
      BY <2>4, <2>7, ReadingParts
    <3> DEFINE k == Kind(Token(Patterns(c)[i].type, c, Patterns(c)[i].count, NoLoc))
    <3>1. PICK rest \in Readings[c + Patterns(c)[i].count] : w = <<k>> \o rest
      BY <3>0 DEF BeginsWith
    <3>2. i \in 1..20 /\ Patterns(c)[i].count \in 1..(L - c)
      <4>1. c < L
        BY <1>1, <2>2, <2>7
      <4> QED BY <2>2, <4>1, LongestFits
    <3>3. k \in Tokens
      BY <2>2, <3>2, PatternKinds
    <3>4. rest \in Seq(Tokens)
      <4>1. c + Patterns(c)[i].count \in (c + 1)..L
        BY <1>1, <2>2, <3>2
      <4> QED BY <2>3, <4>1
    <3>5. w = <<k>> \o rest
      BY <3>1
    <3> HIDE DEF k
    <3> QED BY <3>3, <3>4, <3>5
  <2> QED BY <2>5, <2>6, <2>7
<1>3. ASSUME NEW c \in 0..L
      PROVE  Readings[c] \subseteq Seq(Tokens)
  <2>1. L - c \in 0..L /\ L - (L - c) = c
    BY <1>1
  <2> QED BY <1>2, <2>1
<1> QED BY <1>3

\* The zero behind the text is not recognised.
LEMMA ZeroUnknown ==
  ASSUME text \in Seq(Chars), NEW l
  PROVE  TokenAt(Len(text), l).type = "UNKNOWN"
<1>1. PICK c \in 0..Len(text) : c = Len(text) /\ c \in Nat
  OBVIOUS
<1>0. PICK i \in 1..20 : FirstMatch(c, l, i)
  BY FirstOfPatterns
<1>2. /\ i \in 1..20
      /\ Patterns(c)[i].count > 0
      /\ TokenAt(c, l).type = Patterns(c)[i].type
      /\ TokenAt(c, l).at = c
      /\ TokenAt(c, l).count = Patterns(c)[i].count
      /\ TokenAt(c, l).loc \in {NoLoc, l}
      /\ \A j \in 1..(i - 1) : ~(Patterns(c)[j].count > 0)
  BY <1>0 DEF FirstMatch
<1>3. ASSUME i \in 1..19
      PROVE  FALSE
  <2>1. Ends(c, Patterns(c)[i].count)
    BY <1>1, <1>3, PatternsEnd
  <2>2. Patterns(c)[i].count \in Nat /\ c + Patterns(c)[i].count <= c
    BY <1>1, <1>2, <2>1 DEF Ends
  <2> QED BY <1>1, <1>2, <2>2
<1>4. i = 20
  BY <1>3
<1>5. Char(c) \notin Signs
  <2>1. Char(c) = "NUL"
    BY <1>1 DEF Char
  <2>2. "NUL" # DQuote /\ "NUL" # Bar
    BY Quoting
  <2> QED BY <2>1, <2>2 DEF Signs
<1>6. Patterns(c)[20].type = "UNKNOWN"
  BY <1>5 DEF Patterns, Match
<1> QED BY <1>1, <1>2, <1>4, <1>6

-----------------------------------------------------------------------------
(* No branch of lalr_reduce tells the end of the text from a character that *)
(* is not recognised.                                                       *)

\* No rule of lalr_reduce wants an end of file and not a character that is not
\* recognised, or the other way round.
Alike(r) == "UNKNOWN" \in r.la <=> "EOF" \in r.la

\* All of the rules are such.
LEMMA EndsAlike == \A r \in Rules : Alike(r)
<1>0. /\ "UNKNOWN" \in Lookaheads /\ "EOF" \in Lookaheads
  BY DEF Lookaheads, Tokens
<1>1. \A r \in NumberRules : Alike(r)
  BY <1>0 DEF NumberRules, Alike, Rule
<1>2. \A r \in HeaderRules : Alike(r)
  BY <1>0 DEF HeaderRules, Alike, Rule
<1>3. \A r \in TypeNameRules : Alike(r)
  <2> DEFINE name(at) == Rule(at, "VAR_TYPE", <<Id>>, 1, 0)
  <2>1. \A at, syms : Under(syms, NotBefore(S("LP"), name(at))).la = Lookaheads \ S("LP")
    BY DEF Under, NotBefore, Rule
  <2>2. Before(S("ARROW"), Rule(105, "VAR_TYPE", <<S("UNDERSCORE")>>, 1, 0)).la = S("ARROW")
    BY DEF Before, Rule
  <2>3. \A r \in TypeNameRules : r.la = Lookaheads \ S("LP") \/ r.la = S("ARROW")
    BY <2>1, <2>2 DEF TypeNameRules
  <2> QED BY <1>0, <2>3 DEF Alike, S
<1>4. \A r \in ArrayTypeRules : Alike(r)
  BY <1>0 DEF ArrayTypeRules, Alike, Rule
<1>5. \A r \in PointerTypeRules : Alike(r)
  BY <1>0 DEF PointerTypeRules, Alike, Rule
<1>6. \A r \in TypedIdRules : Alike(r)
  BY <1>0 DEF TypedIdRules, Alike, Rule, Before, NotBefore, S
<1>7. \A r \in FactorRules : Alike(r)
  BY <1>0 DEF FactorRules, Alike, Rule, NotBefore, S
<1>8. \A r \in ParenthesesRules : Alike(r)
  <2>1. Parentheses.la = Lookaheads
    BY DEF Parentheses, Rule
  <2>2. \A syms : Under(syms, Parentheses).la = Lookaheads
    BY <2>1 DEF Under, Parentheses, Rule
  <2>3. \A q : [q EXCEPT !.sure = FALSE].la = q.la
    OBVIOUS
  <2>4. \A r \in ParenthesesRules : r.la = Lookaheads
    BY <2>2, <2>3, Zenon DEF ParenthesesRules
  <2> QED BY <1>0, <2>4 DEF Alike
<1>9. \A r \in TermRules : Alike(r)
  BY <1>0 DEF TermRules, Alike, Rule
<1>10. \A r \in MathRules : Alike(r)
  BY <1>0 DEF MathRules, Alike, Rule, NotBefore, Mulops, S
<1>11. \A r \in RelationalRules : Alike(r)
  BY <1>0 DEF RelationalRules, Alike, Rule, NotBefore, Addops, S
<1>12. \A r \in ConjRules : Alike(r)
  BY <1>0 DEF ConjRules, Alike, Rule, NotBefore, Relops, S
<1>13. \A r \in DisjRules : Alike(r)
  BY <1>0 DEF DisjRules, Alike, Rule, NotBefore, S
<1>14. \A r \in ExpressionRules : Alike(r)
  BY <1>0 DEF ExpressionRules, Alike, Rule, NotBefore, S
<1>15. \A r \in ExpressionListRules : Alike(r)
  BY <1>0 DEF ExpressionListRules, Alike, Rule, Before, S
<1>16. \A r \in DerefRules : Alike(r)
  BY <1>0 DEF DerefRules, Alike, Rule
<1>17. \A r \in CallRules : Alike(r)
  BY <1>0 DEF CallRules, Alike, Rule
<1>18. \A r \in FuncHeaderRules : Alike(r)
  BY <1>0 DEF FuncHeaderRules, Alike, Rule, NotBefore, S
<1>19. \A r \in IfRules : Alike(r)
  BY <1>0 DEF IfRules, Alike, Rule
<1>20. \A r \in AssignmentRules : Alike(r)
  BY <1>0 DEF AssignmentRules, Alike, Rule
<1>21. \A r \in StatementListRules : Alike(r)
  BY <1>0 DEF StatementListRules, Alike, Rule
<1>22. \A r \in StatementRules : Alike(r)
  BY <1>0 DEF StatementRules, Alike, Rule, Under
<1>23. \A r \in BlockRules : Alike(r)
  BY <1>0 DEF BlockRules, Alike, Rule
<1>24. \A r \in FunctionRules : Alike(r)
  BY <1>0 DEF FunctionRules, Alike, Rule
<1> QED
  BY <1>1, <1>2, <1>3, <1>4, <1>5, <1>6, <1>7, <1>8, <1>9, <1>10, <1>11, <1>12, <1>13, <1>14, <1>15, <1>16, <1>17, <1>18, <1>19, <1>20, <1>21, <1>22, <1>23, <1>24
  DEF Rules

-----------------------------------------------------------------------------
(* The loop of the tokenizer inside the loop of parse. *)

\* What the parser adds leaves the tokenizer to itself.
LEMMA StepIsTokenizers == [FrontNext]_frontVars => [Next]_vars
  BY DEF FrontNext, Read, Tokenize, Shift, Overflow, Reduce, NothingToReduce, Stopped,
         frontVars, vars, Next

\* Whatever the parser does, the tokenizer runs as it does alone: what was
\* proved of it holds of the whole.
THEOREM FrontEndRunsTokenizer == FrontSpec => Spec
<1>1. FrontInit => Init
  BY DEF FrontInit
<1> QED BY <1>1, StepIsTokenizers, PTL DEF FrontSpec, Spec

\* The file is empty, or it has more than blanks behind the comment it opens with.
HasText == AtEof(0) \/ \E c \in CommentEnd(0)..(Len(text) - 1) : Char(c) \notin Blanks

\* No keyword begins the name where the token or the lookahead of a turn starts.
KeywordsApart ==
  phase = "deliver" => ~KeywordInName(token.at) /\ ~KeywordInName(lookahead.at)

\* The text up to here has been delivered.
Consumed ==
  IF delivered = <<>> THEN CommentEnd(0)
  ELSE delivered[Len(delivered)].tok.at + delivered[Len(delivered)].tok.count

Found(tok) == tok.at \in 0..Len(text) /\ \E l : tok = TokenAt(tok.at, l)

\* Where the two loops stand, and what their tokens are.
LoopInv ==
  /\ HasText
  /\ parsing \in {"tokens", "reduce", "overrun"}
  /\ parsing = "reduce" => client = "parse" /\ phase = "fetch"
  /\ parsing = "overrun" => client = "parse" /\ phase = "deliver"
  /\ phase = "fetch" /\ delivered = <<>> => cursor = 0
  /\ client = "parse" =>
       /\ phase \in {"advance", "look", "deliver"} =>
            Found(token) /\ token.at < Len(text) /\ Char(token.at) \notin Blanks
       /\ phase = "deliver" => lookahead = Eof \/ Found(lookahead)
       /\ delivered # <<>> /\ phase # "deliver" => lookahead = LastAhead
       /\ parsing = "reduce" => delivered # <<>>

\* What is left of the source is what the text says from here on.
SourceInv ==
  /\ source \in Seq(Tokens)
  /\ client = "tokenize" => source = <<>>
  /\ client = "parse" =>
       /\ Consumed \in CommentEnd(0)..Len(text)
       /\ Len(delivered) <= Len(source)
       /\ SubSeq(source, Len(delivered) + 1, Len(source)) \in Readings[Consumed]

\* The text does not change, so neither does what it says.
LEMMA TextSays ==
  ASSUME text' = text
  PROVE  /\ CommentEnd(0)' = CommentEnd(0)
         /\ HasText' <=> HasText
         /\ Readings' = Readings
         /\ \A c : Char(c)' = Char(c)
         /\ \A c, l : TokenAt(c, l)' = TokenAt(c, l)
         /\ \A tok : Found(tok)' <=> Found(tok)
<1>1. CommentEnd(0)' = CommentEnd(0)
  BY DEF CommentEnd, Word, EndOfRun, Char
<1>2. \A c : Char(c)' = Char(c)
  BY DEF Char
<1>3. \A c, l : TokenAt(c, l)' = TokenAt(c, l)
  BY DEF TokenAt, Patterns, Match, StringLit, CharLit, HexLit, DoubleLit, DecimalLit,
         Identifier, Word, Run, EndOfRun, Char
<1>4. HasText' <=> HasText
  BY <1>1, <1>2 DEF HasText, AtEof
<1>5. Readings' = Readings
  BY DEF Readings, LongestAt, Kind, Token, Patterns, Match, StringLit, CharLit, HexLit, DoubleLit,
         DecimalLit, Identifier, Word, Run, EndOfRun, Char
<1>6. \A tok : Found(tok)' <=> Found(tok)
  BY <1>3 DEF Found
<1> QED BY <1>1, <1>2, <1>3, <1>4, <1>5, <1>6

\* What is fetched next lies in the text.
LEMMA FetchedInText ==
  ASSUME TInv, WInv, LoopInv, client = "parse", phase = "fetch",
         ~Unterminated(cursor), ~AtEof(cursor)
  PROVE  GetNext(cursor, loc).cursor < Len(text)
<1> DEFINE next == GetNext(cursor, loc)
<1>1. /\ text \in Seq(Chars) /\ Len(text) \in Nat
      /\ cursor \in 0..(Len(text) + 1) /\ loc \in Locations
  BY DEF TInv, TypeOK
<1>2. CASE delivered = <<>>
  <2>1. cursor = 0
    BY <1>2 DEF LoopInv
  <2>2. PICK c \in CommentEnd(0)..(Len(text) - 1) : Char(c) \notin Blanks
    BY <2>1 DEF LoopInv, HasText
  <2>3. /\ CommentEnd(0) \in 0..Len(text)
        /\ next.cursor \in CommentEnd(0)..Len(text)
        /\ \A k \in CommentEnd(0)..(next.cursor - 1) : Char(k) \in Blanks
    BY <1>1, <2>1, NextToken
  <2> HIDE DEF next
  <2>4. ~(c \in CommentEnd(0)..(next.cursor - 1))
    BY <2>2, <2>3
  <2>5. next.cursor < Len(text)
    BY <1>1, <2>2, <2>3, <2>4
  <2> QED BY <2>5 DEF next
<1>3. CASE delivered # <<>>
  <2>1. Char(cursor) \notin Blanks
    BY <1>3 DEF WInv, Aheads, Ahead
  <2>2. cursor \in CommentEnd(0)..Len(text)
    BY <1>3 DEF WInv, Places
  <2>3. cursor \in 0..Len(text) /\ ~CommentAt(cursor)
    BY <1>1, <2>2, NoComment DEF WInv
  <2>4. next = [cursor |-> cursor, loc |-> loc, tok |-> TokenAt(cursor, loc)]
    BY <1>1, <2>1, <2>3, NextTokenHere
  <2>5. cursor + 1 < Len(text)
    BY <1>1, <2>3 DEF AtEof
  <2> QED BY <1>1, <2>3, <2>4, <2>5
<1> QED BY <1>2, <1>3

\* A call of get_next finds the end or a token.
LEMMA NextFound ==
  ASSUME TInv, ~Unterminated(cursor)
  PROVE  LET next == GetNext(cursor, loc) IN
         \/ AtEof(cursor) /\ next.tok = Eof /\ next.cursor = cursor
         \/ /\ ~AtEof(cursor)
            /\ Found(next.tok) /\ next.tok.at = next.cursor
            /\ Char(next.cursor) \notin Blanks
            /\ next.tok.type # "EOF"
<1> DEFINE next == GetNext(cursor, loc)
<1>1. /\ text \in Seq(Chars) /\ Len(text) \in Nat
      /\ cursor \in 0..(Len(text) + 1) /\ loc \in Locations
  BY DEF TInv, TypeOK
<1>2. CASE AtEof(cursor)
  BY <1>2, AtEofStays
<1>3. CASE ~AtEof(cursor)
  <2>1. /\ CommentEnd(cursor) \in cursor..Len(text)
        /\ next.cursor \in CommentEnd(cursor)..Len(text)
        /\ Char(next.cursor) \notin Blanks
        /\ next.tok = TokenAt(next.cursor, next.loc)
    BY <1>1, <1>3, NextToken
  <2> HIDE DEF next
  <2>2. next.cursor \in 0..Len(text)
    BY <1>1, <2>1
  <2>3. next.tok.at = next.cursor /\ next.tok.type # "EOF"
    BY <1>1, <2>1, <2>2, TokenFits, TokenIsNotEof
  <2>4. Found(next.tok)
    BY <2>1, <2>2, <2>3 DEF Found
  <2> QED BY <1>3, <2>1, <2>3, <2>4 DEF next
<1> QED BY <1>2, <1>3

\* The loops stand where LoopInv says: after the token of a turn is fetched,
LEMMA LoopFetch ==
  TInv /\ WInv /\ LoopInv /\ Fetch /\ parsing = "tokens" /\ parsing' = parsing => LoopInv'
<1> SUFFICES ASSUME TInv, WInv, LoopInv, Fetch, parsing = "tokens", parsing' = parsing
             PROVE  LoopInv'
  OBVIOUS
<1> DEFINE next == GetNext(cursor, loc)
<1>1. /\ phase = "fetch" /\ ~Unterminated(cursor)
      /\ token' = next.tok /\ cursor' = next.cursor
      /\ phase' = IF next.tok.type = "EOF" THEN "end" ELSE "advance"
      /\ UNCHANGED <<client, text, lookahead, delivered>>
  BY DEF Fetch
<1>2. \/ AtEof(cursor) /\ next.tok = Eof /\ next.cursor = cursor
      \/ /\ ~AtEof(cursor)
         /\ Found(next.tok) /\ next.tok.at = next.cursor
         /\ Char(next.cursor) \notin Blanks
         /\ next.tok.type # "EOF"
  BY <1>1, NextFound
<1>3. client = "parse" /\ ~AtEof(cursor) => next.cursor < Len(text)
  BY <1>1, FetchedInText
<1> HIDE DEF next
<1>4. HasText' /\ LastAhead' = LastAhead
  BY <1>1, TextSays DEF LoopInv, LastAhead
<1>5. CASE AtEof(cursor)
  <2>1. phase' = "end"
    BY <1>1, <1>2, <1>5 DEF Eof, Token
  <2> QED BY <1>1, <1>4, <2>1 DEF LoopInv
<1>6. CASE ~AtEof(cursor)
  <2>1. phase' = "advance" /\ token' = next.tok
    BY <1>1, <1>2, <1>6
  <2>2. client = "parse" => Found(next.tok) /\ next.tok.at < Len(text) /\ Char(next.tok.at) \notin Blanks
    BY <1>2, <1>3, <1>6
  <2>3. client' = "parse" => Found(token)' /\ token'.at < Len(text') /\ Char(token.at)' \notin Blanks
    <3>1. Found(token)' <=> Found(token')
      BY <1>1, TextSays DEF Found
    <3>2. Char(token.at)' = Char(token'.at)
      BY <1>1 DEF Char
    <3> QED BY <1>1, <2>1, <2>2, <3>1, <3>2
  <2> QED BY <1>1, <1>4, <2>1, <2>3 DEF LoopInv
<1> QED BY <1>5, <1>6

\* after tctx_advance has moved over it,
LEMMA LoopAdvance ==
  TInv /\ LoopInv /\ Advance /\ parsing = "tokens" /\ parsing' = parsing => LoopInv'
<1> SUFFICES ASSUME TInv, LoopInv, Advance, parsing = "tokens", parsing' = parsing
             PROVE  LoopInv'
  OBVIOUS
<1>1. /\ phase = "advance" /\ UNCHANGED <<client, text, token, lookahead, delivered>>
      /\ phase' = IF client = "parse" THEN "look" ELSE "deliver"
  BY DEF Advance
<1>2. /\ HasText' /\ LastAhead' = LastAhead
      /\ Found(token)' <=> Found(token)
      /\ Char(token.at)' = Char(token.at)
  BY <1>1, TextSays DEF LoopInv, LastAhead, Found, Char
<1> QED BY <1>1, <1>2 DEF LoopInv

\* after the lookahead is fetched,
LEMMA LoopLook ==
  TInv /\ LoopInv /\ Look /\ parsing = "tokens" /\ parsing' = parsing => LoopInv'
<1> SUFFICES ASSUME TInv, LoopInv, Look, parsing = "tokens", parsing' = parsing
             PROVE  LoopInv'
  OBVIOUS
<1> DEFINE next == GetNext(cursor, loc)
<1>1. /\ phase = "look" /\ phase' = "deliver" /\ ~Unterminated(cursor)
      /\ lookahead' = next.tok
      /\ UNCHANGED <<client, text, token, delivered>>
  BY DEF Look
<1>2. next.tok = Eof \/ Found(next.tok)
  BY <1>1, NextFound
<1> HIDE DEF next
<1>3. /\ HasText'
      /\ Found(token)' <=> Found(token)
      /\ Char(token.at)' = Char(token.at)
  BY <1>1, TextSays DEF LoopInv, Found, Char
<1>4. lookahead' = Eof \/ Found(lookahead)'
  <2>1. Found(lookahead)' <=> Found(lookahead')
    BY <1>1, TextSays DEF Found
  <2> QED BY <1>1, <1>2, <2>1
<1> QED BY <1>1, <1>3, <1>4 DEF LoopInv, Eof

\* and after the push, which leaves the lookahead for the next turn.
LEMMA LoopDeliver ==
  /\ TInv /\ LoopInv /\ Deliver
  /\ parsing = "tokens" /\ parsing' = (IF client = "parse" THEN "reduce" ELSE "tokens")
  => LoopInv'
<1> SUFFICES ASSUME TInv, LoopInv, Deliver, parsing = "tokens",
                    parsing' = (IF client = "parse" THEN "reduce" ELSE "tokens")
             PROVE  LoopInv'
  OBVIOUS
<1>1. /\ phase = "deliver" /\ phase' = "fetch"
      /\ delivered' = Append(delivered, [tok |-> token, ahead |-> lookahead])
      /\ UNCHANGED <<client, text, cursor, loc, token, lookahead>>
  BY DEF Deliver
<1>2. delivered' # <<>> /\ LastAhead' = lookahead
  <2>1. PICK Pairs : delivered \in Seq(Pairs)
    BY DEF TInv, DeliveredOK
  <2> DEFINE pair == [tok |-> token, ahead |-> lookahead]
  <2>2. /\ Len(delivered) \in Nat
        /\ Len(Append(delivered, pair)) = Len(delivered) + 1
        /\ Append(delivered, pair)[Len(delivered) + 1] = pair
    <3> HIDE DEF pair
    <3> QED BY <2>1
  <2>3. Len(delivered') = Len(delivered) + 1 /\ delivered'[Len(delivered')] = pair
    BY <1>1, <2>2
  <2>4. LastAhead' = lookahead
    BY <1>1, <2>3 DEF LastAhead
  <2> QED BY <2>2, <2>3, <2>4
<1>3. HasText'
  BY <1>1, TextSays DEF LoopInv
<1> QED BY <1>1, <1>2, <1>3 DEF LoopInv

\* The steps of the parser, and of an unfinished comment, move no token.
LEMMA LoopOver ==
  /\ LoopInv
  /\ UNCHANGED <<client, text, cursor, token, lookahead, delivered>>
  /\ \/ phase' = phase
     \/ parsing = "tokens" /\ phase \in {"fetch", "advance", "look"} /\ phase' = "overrun"
  /\ \/ parsing' = parsing
     \/ phase' = phase /\ parsing = "reduce" /\ parsing' = "tokens"
     \/ phase' = phase /\ parsing = "tokens" /\ parsing' = "overrun" /\ client = "parse" /\ phase = "deliver"
  => LoopInv'
<1> SUFFICES ASSUME LoopInv,
                    UNCHANGED <<client, text, cursor, token, lookahead, delivered>>,
                    \/ phase' = phase
                    \/ /\ parsing = "tokens" /\ phase \in {"fetch", "advance", "look"}
                       /\ phase' = "overrun",
                    \/ parsing' = parsing
                    \/ phase' = phase /\ parsing = "reduce" /\ parsing' = "tokens"
                    \/ /\ phase' = phase /\ parsing = "tokens" /\ parsing' = "overrun"
                       /\ client = "parse" /\ phase = "deliver"
             PROVE  LoopInv'
  OBVIOUS
<1>1. /\ HasText' /\ LastAhead' = LastAhead
      /\ Found(token)' <=> Found(token)
      /\ Found(lookahead)' <=> Found(lookahead)
      /\ Char(token.at)' = Char(token.at)
      /\ Eof' = Eof
  BY TextSays DEF LoopInv, LastAhead, Found, Char, Eof, Token, NoLoc
<1> QED BY <1>1 DEF LoopInv

\* Together, LoopInv is kept by every step.
LEMMA LoopStep == TInv /\ WInv /\ LoopInv /\ [FrontNext]_frontVars => LoopInv'
<1> SUFFICES ASSUME TInv, WInv, LoopInv, [FrontNext]_frontVars PROVE LoopInv'
  OBVIOUS
<1>1. CASE Read
  <2>1. parsing = "tokens" /\ parsing' = parsing
    BY <1>1 DEF Read
  <2>2. CASE Overrun
    BY <2>1, <2>2, LoopOver DEF Overrun
  <2> QED BY <1>1, <2>1, <2>2, LoopFetch, LoopAdvance, LoopLook DEF Read
<1>2. CASE Tokenize
  <2>1. client = "tokenize" /\ parsing' = parsing /\ Deliver
    BY <1>2 DEF Tokenize
  <2>2. parsing = "tokens"
    BY <2>1 DEF LoopInv
  <2> QED BY <2>1, <2>2, LoopDeliver
<1>3. CASE Shift
  BY <1>3, LoopDeliver DEF Shift
<1>4. CASE Overflow
  BY <1>4, LoopOver DEF Overflow, vars
<1>5. CASE Reduce
  BY <1>5, LoopOver DEF Reduce, vars
<1>6. CASE NothingToReduce
  BY <1>6, LoopOver DEF NothingToReduce, vars
<1>7. CASE Stopped \/ UNCHANGED frontVars
  BY <1>7, LoopOver DEF Stopped, frontVars, vars
<1> QED BY <1>1, <1>2, <1>3, <1>4, <1>5, <1>6, <1>7 DEF FrontNext

-----------------------------------------------------------------------------
(* What is left of the source. *)

\* A comment the text opens with ends in it.
LEMMA CommentFits ==
  ASSUME text \in Seq(Chars), WellFormedText
  PROVE  CommentEnd(0) \in 0..Len(text)
<1>1. Len(text) \in Nat /\ 0 \in 0..Len(text)
  OBVIOUS
<1>2. CASE CommentAt(0)
  <2> DEFINE line == Chars \ {"\n"}
             end == EndOfRun(0, line)
  <2>1. Word(0, <<"/", "/">>) > 0 /\ Len(text) > 0
    <3>1. PICK w : w = <<"/", "/">> /\ Len(w) \in Nat /\ Len(w) > 0 /\ w[Len(w)] # "NUL"
      <4> DEFINE v == <<"/", "/">>
      <4>1. Len(v) = 2 /\ v[Len(v)] # "NUL"
        OBVIOUS
      <4>2. Len(v) \in Nat /\ Len(v) > 0
        BY <4>1
      <4> HIDE DEF v
      <4>3. \E w : w = v /\ Len(w) \in Nat /\ Len(w) > 0 /\ w[Len(w)] # "NUL"
        BY <4>1, <4>2
      <4> QED BY <4>3 DEF v
    <3>2. Word(0, w) > 0
      BY <1>2, <3>1, Zenon DEF CommentAt
    <3>3. PICK z \in Nat : z = 0
      OBVIOUS
    <3>4. Word(z, w) \in Nat /\ (Word(z, w) > 0 => z + Word(z, w) <= Len(text))
      <4> USE <3>1
      <4> QED BY WordFits
    <3>5. Word(z, w) > 0
      BY <3>2, <3>3, Zenon
    <3>6. Len(text) > 0
      BY <1>1, <3>4, <3>5
    <3> QED BY <1>2, <3>6 DEF CommentAt
  <2>2. end \in 0..Len(text) /\ \A k \in 0..(end - 1) : Char(k) \in line
    <3>1. "NUL" \notin line
      BY CharsAssumption
    <3> HIDE DEF line
    <3> QED BY <1>1, <3>1, EndOfRunFound
  <2>3. CommentEnd(0) = end + 1
    BY <2>1 DEF CommentEnd
  <2>4. Char(Len(text) - 1) \notin line
    BY <2>1 DEF WellFormedText
  <2> HIDE DEF end, line
  <2>5. ~(Len(text) - 1 \in 0..(end - 1))
    BY <2>2, <2>4
  <2> QED BY <1>1, <2>1, <2>2, <2>3, <2>5
<1>3. CASE ~CommentAt(0)
  BY <1>1, <1>3 DEF CommentAt, CommentEnd
<1> QED BY <1>2, <1>3

\* Everything up to p having been delivered, what is left is what is left at p.
LEMMA LeftAt ==
  ASSUME TInv, WInv, Consumed \in CommentEnd(0)..Len(text),
         NEW p \in Consumed..Len(text), Covered(p)
  PROVE  Readings[Consumed] = Readings[p]
<1>1. text \in Seq(Chars) /\ Len(text) \in Nat /\ CommentEnd(0) \in Nat
  BY FirstComment DEF TInv, TypeOK
<1>2. PICK c \in CommentEnd(0)..Len(text) : c = Consumed
  OBVIOUS
<1>3. p \in c..Len(text) /\ c \in 0..Len(text)
  BY <1>1, <1>2
<1>4. ASSUME NEW i \in DOMAIN delivered
      PROVE  delivered[i].tok.at + delivered[i].tok.count <= c
  <2>1. PICK Pairs : delivered \in Seq(Pairs)
    BY DEF TInv, DeliveredOK
  <2>2. i \in 1..Len(delivered) /\ Len(delivered) \in Nat /\ Len(delivered) \in DOMAIN delivered
    BY <2>1
  <2>3. c = delivered[Len(delivered)].tok.at + delivered[Len(delivered)].tok.count
    BY <1>2, <2>2 DEF Consumed
  <2>4. CASE i = Len(delivered)
    BY <1>3, <2>3, <2>4
  <2>5. CASE i < Len(delivered)
    <3>0. PICK j \in DOMAIN delivered : j = Len(delivered)
      BY <2>2
    <3>1. delivered[i].tok.at + delivered[i].tok.count <= delivered[j].tok.at
      BY <2>2, <2>5, <3>0 DEF TInv, TokensApart
    <3>2. /\ delivered[i].tok.at \in Nat /\ delivered[i].tok.count \in Nat
          /\ delivered[j].tok.at \in Nat /\ delivered[j].tok.count \in Nat
      BY DEF TInv, DeliveredOK
    <3>3. c = delivered[j].tok.at + delivered[j].tok.count
      BY <2>3, <3>0
    <3>4. \A k, m, n, o \in Nat : k + m <= n => k + m <= n + o
      OBVIOUS
    <3>5. delivered[i].tok.at + delivered[i].tok.count <= delivered[j].tok.at + delivered[j].tok.count
      BY <3>1, <3>2, <3>4
    <3> QED BY <3>3, <3>5, Zenon
  <2> QED BY <2>2, <2>4, <2>5
<1>5. ASSUME NEW k \in c..(p - 1), Char(k) \notin Blanks
      PROVE  FALSE
  <2>1. k \in CommentEnd(0)..(p - 1)
    BY <1>1, <1>2, <1>5
  <2>2. PICK i \in DOMAIN delivered : Covers(delivered[i].tok, k)
    BY <1>5, <2>1 DEF Covered
  <2>3. /\ delivered[i].tok.at \in Nat /\ delivered[i].tok.count \in Nat
        /\ delivered[i].tok.at + delivered[i].tok.count <= c
    BY <1>4 DEF TInv, DeliveredOK
  <2>4. k <= delivered[i].tok.at + delivered[i].tok.count - 1
    BY <2>2, <2>3 DEF Covers
  <2> QED BY <1>3, <2>3, <2>4
<1>6. Readings[c] = Readings[p]
  BY <1>1, <1>3, <1>5, BlanksSkipped
<1> QED BY <1>2, <1>6

\* The lookahead of a push is the word that follows the one that is pushed.
LEMMA LookaheadSays ==
  ASSUME TInv, WInv, LoopInv, client = "parse", phase = "deliver",
         ~KeywordInName(lookahead.at),
         NEW w \in Readings[token.at + token.count], w \in Seq(Tokens)
  PROVE  KindAhead(lookahead) = IF w = <<>> THEN "EOF" ELSE w[1]
<1> DEFINE a == token.at + token.count
<1>1. /\ text \in Seq(Chars) /\ Len(text) \in Nat
      /\ cursor \in 0..(Len(text) + 1)
  BY DEF TInv, TypeOK
<1>2. /\ token.at \in 0..Len(text) /\ token.at < Len(text)
      /\ token.count \in Nat \ {0} /\ a <= Len(text)
  <2>1. PICK p \in 0..Len(text) : p = token.at
    BY DEF LoopInv, Found
  <2>2. PICK l : token = TokenAt(p, l)
    BY <2>1 DEF LoopInv, Found
  <2>3. p < Len(text)
    BY <2>1 DEF LoopInv
  <2> QED BY <1>1, <2>1, <2>2, <2>3, TokenFits
<1>3. cursor \in CommentEnd(0)..Len(text) /\ cursor \in 0..Len(text)
  <2>1. CommentEnd(0) \in Nat
    BY <1>1, FirstComment
  <2>2. cursor \in CommentEnd(0)..Len(text)
    BY DEF WInv, Places
  <2> QED BY <1>1, <2>1, <2>2
<1>4. \A c \in token.at..(cursor - 1) : Char(c) \notin Blanks => Covers(token, c)
  BY DEF WInv, Coverage
<1>5. \A c \in a..(cursor - 1) : Char(c) \in Blanks
  <2> TAKE c \in a..(cursor - 1)
  <2>1. c \in token.at..(cursor - 1) /\ ~(c \in token.at..(token.at + token.count - 1))
    BY <1>1, <1>2
  <2> QED BY <1>4, <2>1 DEF Covers
<1>6. a \in 0..Len(text)
  BY <1>1, <1>2
<1>7. w \in Readings[a]
  OBVIOUS
<1> HIDE DEF a
<1>8. Ahead(lookahead)
  BY DEF WInv, Aheads
<1>9. lookahead = Eof \/ Found(lookahead)
  BY DEF LoopInv
<1>10. CASE AtEof(cursor)
  <2>1. \A k \in cursor..(Len(text) - 1) : Char(k) \in Blanks
    BY <1>1, <1>10, OnlyNewline DEF WInv
  <2>2. \A k \in a..(Len(text) - 1) : Char(k) \in Blanks
    <3> TAKE k \in a..(Len(text) - 1)
    <3>1. k \in a..(cursor - 1) \/ k \in cursor..(Len(text) - 1)
      BY <1>1, <1>6
    <3> QED BY <1>5, <2>1, <3>1
  <2>3. Len(text) \in a..Len(text)
    BY <1>1, <1>6
  <2>4. Readings[a] = Readings[Len(text)]
    BY <1>1, <1>6, <2>2, <2>3, BlanksSkipped
  <2>5. w = <<>>
    BY <1>1, <1>7, <2>4, NothingLeft
  <2>6. KindAhead(lookahead) = "EOF"
    <3>1. CASE lookahead.type = "EOF"
      BY <3>1 DEF KindAhead, Kind
    <3>2. CASE lookahead.type # "EOF"
      <4>1. lookahead.at = Len(text)
        BY <1>8, <1>10, <3>2 DEF Ahead
      <4>2. PICK l : lookahead = TokenAt(lookahead.at, l)
        BY <1>9, <3>2 DEF Found, Eof, Token
      <4>3. lookahead.type = "UNKNOWN"
        BY <1>1, <4>1, <4>2, ZeroUnknown
      <4> QED BY <4>1, <4>3 DEF KindAhead
    <3> QED BY <3>1, <3>2
  <2> QED BY <2>5, <2>6
<1>11. CASE ~AtEof(cursor)
  <2>1. /\ lookahead = TokenAt(cursor, loc) /\ Char(cursor) \notin Blanks
        /\ cursor + 1 < Len(text)
    BY <1>1, <1>3, <1>8, <1>11 DEF Ahead, AtEof
  <2>2. lookahead.at = cursor
    BY <1>1, <1>3, <2>1, TokenFits
  <2>3. cursor \in a..Len(text)
    <3>1. a <= cursor
      BY <1>11 DEF TInv, Order, a
    <3> QED BY <1>1, <1>3, <1>6, <3>1
  <2>4. w \in Readings[cursor]
    BY <1>1, <1>5, <1>6, <1>7, <2>3, BlanksSkipped
  <2>5. ~KeywordInName(cursor)
    BY <2>2
  <2>6. cursor < Len(text)
    BY <1>1, <1>3, <2>1
  <2>0. Continues(w, TokenAt(cursor, loc))
    BY <1>1, <1>3, <2>1, <2>4, <2>5, <2>6, FirstWord
  <2>7. PICK rest \in Readings[cursor + TokenAt(cursor, loc).count] :
          w = <<Kind(TokenAt(cursor, loc))>> \o rest
    BY <2>0, <2>1, <2>2 DEF Continues
  <2>8. rest \in Seq(Tokens)
    <3>1. cursor + TokenAt(cursor, loc).count \in 0..Len(text)
      BY <1>1, <1>3, <2>6, TokenFits
    <3> QED BY <1>1, <2>7, <3>1, ReadingsAreTokens
  <2>9. w # <<>> /\ w[1] = Kind(lookahead)
    <3> DEFINE k == Kind(lookahead)
    <3>1. w = <<k>> \o rest
      BY <2>1, <2>7
    <3> HIDE DEF k
    <3>2. Len(w) = 1 + Len(rest) /\ w[1] = k /\ Len(rest) \in Nat
      BY <2>8, <3>1
    <3>3. w # <<>>
      BY <3>2
    <3> QED BY <3>2, <3>3 DEF k
  <2>10. KindAhead(lookahead) = Kind(lookahead)
    BY <1>1, <1>3, <2>2, <2>6 DEF KindAhead
  <2> QED BY <2>9, <2>10
<1> QED BY <1>10, <1>11

\* Words that begin alike go on alike.
LEMMA SameRest ==
  \A E : \A a, b \in E : \A v, r \in Seq(E) : <<a>> \o v = <<b>> \o r => a = b /\ v = r
  BY SMTT(30)

\* The first of what is left, and the rest of it.
LEMMA HeadAndRest ==
  ASSUME NEW E, NEW s \in Seq(E), NEW n \in Nat, n <= Len(s), NEW k \in E, NEW r \in Seq(E),
         SubSeq(s, n + 1, Len(s)) = <<k>> \o r
  PROVE  n < Len(s) /\ s[n + 1] = k /\ SubSeq(s, n + 2, Len(s)) = r
<1>1. PICK m \in Nat : m = Len(s)
  OBVIOUS
<1>2. \A i \in 1..m : s[i] \in E
  BY <1>1
<1>3. n < m
  <2> SUFFICES ASSUME ~(n < m) PROVE FALSE
    OBVIOUS
  <2>1. m < n + 1 /\ n + 1 \in Int /\ m \in Int
    BY <1>1
  <2>2. SubSeq(s, n + 1, m) = <<>>
    BY <2>1, SubSeqEmpty
  <2>3. <<k>> \in Seq(E) /\ <<k>> # <<>>
    OBVIOUS
  <2>4. <<k>> \o r = <<>>
    BY <1>1, <2>2
  <2> QED BY <2>3, <2>4, ConcatSimplifications
<1>4. n + 1 \in 1..m /\ m \in (n + 1)..m /\ (n + 1) + 1 = n + 2
  BY <1>3
<1>5. SubSeq(s, n + 1, m) = <<s[n + 1]>> \o SubSeq(s, n + 2, m)
  BY <1>1, <1>4, SubSeqRecursiveFirst
<1>6. SubSeq(s, n + 2, m) \in Seq(E)
  <2>1. n + 2 \in Int /\ m \in Int /\ \A i \in (n + 2)..m : s[i] \in E
    BY <1>2
  <2> QED BY <2>1, SubSeqProperties
<1>7. s[n + 1] \in E
  BY <1>2, <1>4
<1>8. PICK a \in E : a = s[n + 1]
  BY <1>7
<1>9. PICK v \in Seq(E) : v = SubSeq(s, n + 2, m)
  BY <1>6
<1>10. <<a>> \o v = <<k>> \o r
  BY <1>1, <1>5, <1>8, <1>9
<1>11. a = k /\ v = r
  <2>1. a \in E /\ k \in E /\ v \in Seq(E) /\ r \in Seq(E)
    BY <1>8, <1>9
  <2>2. \A b, d \in E : \A x, y \in Seq(E) : <<b>> \o x = <<d>> \o y => b = d /\ x = y
    BY SameRest, Zenon
  <2>3. <<a>> \o v = <<k>> \o r => a = k /\ v = r
    BY <2>1, <2>2, ZenonT(60)
  <2> QED BY <1>10, <2>3, Zenon
<1> QED BY <1>1, <1>3, <1>8, <1>9, <1>11

\* A push takes the first word of what is left.
LEMMA TokenSays ==
  ASSUME TInv, WInv, LoopInv, SourceInv, client = "parse", phase = "deliver",
         ~KeywordInName(token.at)
  PROVE  /\ Len(delivered) < Len(source)
         /\ source[Len(delivered) + 1] = Kind(token)
         /\ token.at + token.count \in CommentEnd(0)..Len(text)
         /\ SubSeq(source, Len(delivered) + 2, Len(source)) \in Readings[token.at + token.count]
<1>1. text \in Seq(Chars) /\ Len(text) \in Nat /\ CommentEnd(0) \in Nat
  BY FirstComment DEF TInv, TypeOK
<1>2. PICK p \in 0..Len(text) : p = token.at
  BY DEF LoopInv, Found
<1>3. PICK l : token = TokenAt(p, l)
  BY <1>2 DEF LoopInv, Found
<1>4. p < Len(text) /\ Char(p) \notin Blanks /\ ~KeywordInName(p)
  BY <1>2 DEF LoopInv
<1>5. token.count \in Nat \ {0} /\ p + token.count <= Len(text)
  BY <1>1, <1>3, <1>4, TokenFits
<1>6. PICK c \in CommentEnd(0)..Len(text) : c = Consumed
  BY DEF SourceInv
<1>7. c <= p
  <2>1. PICK Pairs : delivered \in Seq(Pairs)
    BY DEF TInv, DeliveredOK
  <2>2. CASE delivered = <<>>
    BY <1>2, <1>6, <2>2 DEF Consumed, WInv, Places, Placed
  <2>3. CASE delivered # <<>>
    <3>1. Len(delivered) \in DOMAIN delivered
      BY <2>1, <2>3
    <3>2. Behind(token.at)
      BY DEF TInv, Order
    <3> QED BY <1>2, <1>6, <2>3, <3>1, <3>2 DEF Consumed, Behind
  <2> QED BY <2>2, <2>3
<1>8. Covered(p)
  BY <1>2 DEF WInv, Coverage
<1>9. Readings[c] = Readings[p]
  <2>1. p \in c..Len(text)
    BY <1>1, <1>2, <1>7
  <2> QED BY <1>6, <1>8, <2>1, LeftAt
<1> DEFINE n == Len(delivered)
<1>10. n \in Nat /\ n <= Len(source) /\ source \in Seq(Tokens)
  <2>1. PICK Pairs : delivered \in Seq(Pairs)
    BY DEF TInv, DeliveredOK
  <2> QED BY <2>1 DEF SourceInv
<1> HIDE DEF n
<1>11. SubSeq(source, n + 1, Len(source)) \in Readings[p]
  BY <1>6, <1>9 DEF SourceInv, n
<1>12. PICK r \in Readings[p + token.count] :
         SubSeq(source, n + 1, Len(source)) = <<Kind(token)>> \o r
  <2>1. Continues(SubSeq(source, n + 1, Len(source)), TokenAt(p, l))
    BY <1>1, <1>4, <1>11, FirstWord
  <2> QED BY <1>2, <1>3, <2>1 DEF Continues
<1>13. p + token.count \in 0..Len(text) /\ p + token.count \in CommentEnd(0)..Len(text)
  BY <1>1, <1>2, <1>5, <1>6, <1>7
<1>14. r \in Seq(Tokens)
  BY <1>1, <1>12, <1>13, ReadingsAreTokens
<1>15. Kind(token) \in Tokens
  <2>1. Kind(TokenAt(p, l)) \in Tokens
    BY <1>1, TokenKind
  <2> QED BY <1>3, <2>1
<1>16. n < Len(source) /\ source[n + 1] = Kind(token) /\ SubSeq(source, n + 2, Len(source)) = r
  BY <1>10, <1>12, <1>14, <1>15, HeadAndRest, ZenonT(60)
<1> QED BY <1>2, <1>12, <1>13, <1>16 DEF n

\* At the start all of the source is left.
LEMMA SourceInit == FrontInit /\ WellFormedText /\ HasText => LoopInv /\ SourceInv
<1> SUFFICES ASSUME FrontInit, WellFormedText, HasText PROVE LoopInv /\ SourceInv
  OBVIOUS
<1>1. /\ client \in {"parse", "tokenize"} /\ text \in Texts /\ cursor = 0
      /\ delivered = <<>> /\ phase = "fetch" /\ parsing = "tokens" /\ source \in Sources
  BY DEF FrontInit, Init
<1>2. text \in Seq(Chars)
  BY <1>1, TextsAssumption
<1>3. LoopInv
  BY <1>1 DEF LoopInv
<1>4. CommentEnd(0) \in 0..Len(text)
  BY <1>2, CommentFits
<1>5. CASE client = "tokenize"
  <2>1. source = <<>>
    BY <1>1, <1>5 DEF Sources
  <2> QED BY <1>3, <1>5, <2>1 DEF SourceInv
<1>6. CASE client = "parse"
  <2>1. Len(text) \in Nat /\ CommentEnd(0) <= Len(text)
    BY <1>2, <1>4
  <2>2. source \in Readings[CommentEnd(0)]
    BY <1>1, <1>6, <2>1 DEF Sources
  <2>3. source \in Seq(Tokens)
    BY <1>2, <1>4, <2>2, ReadingsAreTokens
  <2>4. Consumed = CommentEnd(0)
    BY <1>1 DEF Consumed
  <2>5. CommentEnd(0) \in CommentEnd(0)..Len(text)
    BY <1>4, <2>1
  <2>6. Len(delivered) = 0 /\ 0 <= Len(source)
    BY <1>1, <2>3
  <2>7. SubSeq(source, 1, Len(source)) = source
    BY <2>3, SubSeqFull
  <2>8. SubSeq(source, Len(delivered) + 1, Len(source)) = source
    BY <2>6, <2>7
  <2> QED BY <1>3, <1>6, <2>2, <2>3, <2>4, <2>5, <2>6, <2>8 DEF SourceInv
<1> QED BY <1>1, <1>5, <1>6

\* A push leaves what the text says behind the token.
LEMMA SourceShift ==
  TInv /\ WInv /\ LoopInv /\ SourceInv /\ Shift /\ ~KeywordInName(token.at) => SourceInv'
<1> SUFFICES ASSUME TInv, WInv, LoopInv, SourceInv, Shift, ~KeywordInName(token.at)
             PROVE  SourceInv'
  OBVIOUS
<1>1. /\ client = "parse" /\ phase = "deliver"
      /\ delivered' = Append(delivered, [tok |-> token, ahead |-> lookahead])
      /\ UNCHANGED <<client, text, source>>
  BY DEF Shift, Deliver
<1>2. /\ Len(delivered) < Len(source)
      /\ token.at + token.count \in CommentEnd(0)..Len(text)
      /\ SubSeq(source, Len(delivered) + 2, Len(source)) \in Readings[token.at + token.count]
  BY <1>1, TokenSays
<1>3. /\ Len(delivered) \in Nat
      /\ Len(delivered') = Len(delivered) + 1
      /\ delivered'[Len(delivered')] = [tok |-> token, ahead |-> lookahead]
  <2>1. PICK Pairs : delivered \in Seq(Pairs)
    BY DEF TInv, DeliveredOK
  <2> DEFINE pair == [tok |-> token, ahead |-> lookahead]
  <2>2. /\ Len(delivered) \in Nat
        /\ Len(Append(delivered, pair)) = Len(delivered) + 1
        /\ Append(delivered, pair)[Len(delivered) + 1] = pair
    <3> HIDE DEF pair
    <3> QED BY <2>1
  <2> QED BY <1>1, <2>2
<1>4. Consumed' = token.at + token.count
  <2>1. delivered' # <<>>
    BY <1>3
  <2>2. delivered'[Len(delivered')].tok = token
    BY <1>3
  <2> QED BY <2>1, <2>2 DEF Consumed
<1>5. Readings' = Readings /\ CommentEnd(0)' = CommentEnd(0)
  BY <1>1, TextSays
<1>6. source \in Seq(Tokens) /\ Len(source) \in Nat
  BY DEF SourceInv
<1>7. Len(delivered') <= Len(source) /\ Len(delivered') + 1 = Len(delivered) + 2
  BY <1>2, <1>3, <1>6
<1>8. Consumed' \in CommentEnd(0)'..Len(text')
  BY <1>1, <1>2, <1>4, <1>5
<1>9. SubSeq(source', Len(delivered') + 1, Len(source')) \in Readings'[Consumed']
  BY <1>1, <1>2, <1>4, <1>5, <1>7
<1> QED BY <1>1, <1>6, <1>7, <1>8, <1>9 DEF SourceInv

\* No other step moves what is left.
LEMMA SourceStep ==
  /\ TInv /\ WInv /\ LoopInv /\ SourceInv /\ KeywordsApart /\ [FrontNext]_frontVars
  => SourceInv'
<1> SUFFICES ASSUME TInv, WInv, LoopInv, SourceInv, KeywordsApart, [FrontNext]_frontVars
             PROVE  SourceInv'
  OBVIOUS
<1>1. CASE UNCHANGED <<client, text, delivered, source>>
  <2>1. Readings' = Readings /\ CommentEnd(0)' = CommentEnd(0)
    BY <1>1, TextSays
  <2>2. Consumed' = Consumed
    BY <1>1, <2>1 DEF Consumed
  <2> QED BY <1>1, <2>1, <2>2 DEF SourceInv
<1>2. CASE Tokenize
  BY <1>2 DEF Tokenize, Deliver, SourceInv
<1>3. CASE Shift
  <2>1. phase = "deliver"
    BY <1>3 DEF Shift, Deliver
  <2> QED BY <1>3, <2>1, SourceShift DEF KeywordsApart
<1>4. UNCHANGED <<client, text, delivered, source>> \/ Tokenize \/ Shift
  BY DEF FrontNext, Read, Overrun, Fetch, Advance, Look, Overflow, Reduce, NothingToReduce,
         Stopped, frontVars, vars
<1> QED BY <1>1, <1>2, <1>3, <1>4

-----------------------------------------------------------------------------
(* Every step of the whole is one of the parser or of none. *)

\* A token keeps its kind, as the text does not change.
LEMMA KindStays ==
  ASSUME text' = text
  PROVE  \A tok : Kind(tok)' = Kind(tok) /\ KindAhead(tok)' = KindAhead(tok)
  BY DEF KindAhead, Kind, Word, Char

\* What is delivered is a sequence.
LEMMA DeliveredLength ==
  ASSUME TInv
  PROVE  Len(delivered) \in Nat /\ (delivered = <<>> <=> Len(delivered) = 0)
<1>1. PICK Pairs : delivered \in Seq(Pairs)
  BY DEF TInv, DeliveredOK
<1> QED BY <1>1

\* The parser starts with the token sequence the text says.
LEMMA ParserStarts == FrontInit /\ WellFormedText /\ HasText => Parser!Init
<1> SUFFICES ASSUME FrontInit, WellFormedText, HasText PROVE Parser!Init
  OBVIOUS
<1>1. source \in Seq(Tokens)
  BY SourceInit DEF SourceInv
<1>2. /\ delivered = <<>> /\ Len(delivered) = 0 /\ phase = "fetch"
      /\ stack = <<>> /\ parsing = "tokens"
  BY DEF FrontInit, Init
<1> QED BY <1>1, <1>2 DEF Parser!Init, ParserPos, ParserAhead, ParserPhase

\* At the end nothing is left of the source.
LEMMA SourceUsedUp ==
  ASSUME TInv, WInv, LoopInv, SourceInv, phase = "fetch", AtEof(cursor)
  PROVE  ParserPos = Len(source)
<1>1. CASE client = "tokenize"
  BY <1>1 DEF SourceInv, ParserPos
<1>2. CASE client = "parse"
  <2>1. /\ text \in Seq(Chars) /\ Len(text) \in Nat /\ CommentEnd(0) \in Nat
        /\ cursor \in 0..(Len(text) + 1)
    BY FirstComment DEF TInv, TypeOK
  <2>2. \A k \in cursor..(Len(text) - 1) : Char(k) \in Blanks
    BY <2>1, OnlyNewline DEF WInv
  <2>3. Covered(cursor)
    BY DEF WInv, Coverage
  <2>4. ASSUME NEW k \in CommentEnd(0)..(Len(text) - 1), Char(k) \notin Blanks
        PROVE  \E i \in DOMAIN delivered : Covers(delivered[i].tok, k)
    <3>1. ~(k \in cursor..(Len(text) - 1))
      BY <2>2, <2>4
    <3>2. k \in CommentEnd(0)..(cursor - 1)
      BY <2>1, <3>1
    <3> QED BY <2>3, <2>4, <3>2 DEF Covered
  <2>5. PICK end \in Nat : end = Len(text)
    BY <2>1
  <2>6. Covered(end)
    BY <2>4, <2>5 DEF Covered
  <2>7. Consumed \in CommentEnd(0)..Len(text) /\ end \in Consumed..Len(text)
    <3>1. PICK c \in CommentEnd(0)..Len(text) : c = Consumed
      BY <1>2 DEF SourceInv
    <3>2. end \in c..Len(text)
      BY <2>1, <2>5, <3>1
    <3> QED BY <3>1, <3>2
  <2>8. Readings[Consumed] = Readings[end]
    BY <2>6, <2>7, LeftAt
  <2>9. Readings[Consumed] = {<<>>}
    BY <2>1, <2>5, <2>8, NothingLeft
  <2>10. PICK n \in Nat : n = Len(delivered)
    BY DeliveredLength
  <2>11. PICK m \in Nat : m = Len(source)
    BY DEF SourceInv
  <2>12. SubSeq(source, n + 1, m) = <<>> /\ n <= m
    BY <1>2, <2>9, <2>10, <2>11 DEF SourceInv
  <2>13. n = m
    <3> SUFFICES ASSUME n < m PROVE FALSE
      BY <2>10, <2>11, <2>12
    <3>1. \A i \in 1..m : source[i] \in Tokens
      BY <2>11 DEF SourceInv
    <3>2. Len(SubSeq(source, n + 1, m)) = m - (n + 1) + 1
      <4>1. /\ n + 1 \in Int /\ m \in Int /\ n + 1 <= m
            /\ \A i \in (n + 1)..m : source[i] \in Tokens
        BY <2>10, <2>11, <3>1
      <4> QED BY <4>1, SubSeqProperties
    <3>3. Len(SubSeq(source, n + 1, m)) = 0
      <4>1. Len(<<>>) = 0
        OBVIOUS
      <4> QED BY <2>12, <4>1, Zenon
    <3> QED BY <2>10, <2>11, <3>2, <3>3
  <2> QED BY <1>2, <2>10, <2>11, <2>13 DEF ParserPos
<1> QED BY <1>1, <1>2 DEF TInv, TypeOK

\* Reading does not move the lookahead of the parser: the token in hand is the
\* lookahead that went before it.
LEMMA AheadStays == TInv /\ WInv /\ LoopInv /\ Read => UNCHANGED ParserAhead
<1> SUFFICES ASSUME TInv, WInv, LoopInv, Read PROVE ParserAhead' = ParserAhead
  OBVIOUS
<1>1. UNCHANGED <<client, text, delivered>>
  BY DEF Read, Overrun, Fetch, Advance, Look
<1>2. CASE client = "tokenize" \/ delivered = <<>>
  BY <1>1, <1>2 DEF ParserAhead
<1>3. CASE client # "tokenize" /\ delivered # <<>>
  <2>1. client = "parse"
    BY <1>3 DEF TInv, TypeOK
  <2>2. CASE phase' # "deliver" /\ phase # "deliver" /\ lookahead' = lookahead
    <3>1. KindAhead(lookahead)' = KindAhead(lookahead)
      BY <1>1, <2>2, KindStays
    <3> QED BY <1>1, <1>3, <2>2, <3>1 DEF ParserAhead
  <2>3. CASE Look
    <3>1. phase = "look" /\ phase' = "deliver" /\ token' = token
      BY <2>3 DEF Look
    <3>2. lookahead = token /\ token.at < Len(text) /\ token.at \in 0..Len(text)
      BY <1>3, <2>1, <3>1 DEF LoopInv, WInv, Aheads, Found
    <3>3. Kind(token)' = Kind(token)
      BY <1>1, <3>1, KindStays
    <3>4. token.at # Len(text)
      BY <3>2
    <3>5. KindAhead(lookahead) = Kind(token)
      BY <3>2, <3>4 DEF KindAhead
    <3> QED BY <1>1, <1>3, <3>1, <3>3, <3>5 DEF ParserAhead
  <2>4. Look \/ (phase' # "deliver" /\ phase # "deliver" /\ lookahead' = lookahead)
    BY <2>1 DEF Read, Overrun, Fetch, Advance
  <2> QED BY <2>2, <2>3, <2>4
<1> QED BY <1>2, <1>3

\* The calls of a turn are nothing to the parser, until one finds the end.
LEMMA ReadImplements ==
  TInv /\ WInv /\ LoopInv /\ SourceInv /\ Read => Parser!Finish \/ UNCHANGED Parser!vars
<1> SUFFICES ASSUME TInv, WInv, LoopInv, SourceInv, Read
             PROVE  Parser!Finish \/ UNCHANGED Parser!vars
  OBVIOUS
<1>1. /\ parsing = "tokens" /\ UNCHANGED <<client, delivered, stack, parsing, source>>
      /\ phase \in {"fetch", "advance", "look"}
  BY DEF Read, Overrun, Fetch, Advance, Look
<1>2. UNCHANGED <<source, ParserPos, ParserAhead, stack>>
  BY <1>1, AheadStays DEF ParserPos
<1>3. ParserPhase = "next" /\ ParserPhase' = IF phase' = "end" THEN "done" ELSE "next"
  BY <1>1 DEF ParserPhase
<1>4. CASE phase' # "end"
  BY <1>2, <1>3, <1>4 DEF Parser!vars
<1>5. CASE phase' = "end"
  <2>1. Fetch
    BY <1>5 DEF Read, Overrun, Advance, Look
  <2>2. phase = "fetch" /\ ~Unterminated(cursor) /\ GetNext(cursor, loc).tok.type = "EOF"
    BY <1>5, <2>1 DEF Fetch
  <2>3. AtEof(cursor)
    BY <2>2, NextFound
  <2>4. ParserPos = Len(source)
    BY <2>2, <2>3, SourceUsedUp
  <2> QED BY <1>2, <1>3, <1>5, <2>4 DEF Parser!Finish
<1> QED BY <1>4, <1>5

\* tokenize has no parser.
LEMMA TokenizeStutters == Tokenize => UNCHANGED Parser!vars
<1> SUFFICES ASSUME Tokenize PROVE UNCHANGED Parser!vars
  OBVIOUS
<1>1. /\ client = "tokenize" /\ client' = client /\ phase = "deliver" /\ phase' = "fetch"
      /\ UNCHANGED <<stack, parsing, source>>
  BY DEF Tokenize, Deliver
<1> QED BY <1>1 DEF Parser!vars, ParserPos, ParserAhead, ParserPhase

\* The push with its three calls is the Shift of the parser.
LEMMA ShiftImplements ==
  ASSUME TInv, WInv, LoopInv, SourceInv, KeywordsApart, Shift
  PROVE  Parser!Shift
<1>1. /\ client = "parse" /\ phase = "deliver" /\ phase' = "fetch"
      /\ parsing = "tokens" /\ parsing' = "reduce" /\ Len(stack) < StackSize
      /\ delivered' = Append(delivered, [tok |-> token, ahead |-> lookahead])
      /\ stack' = Lalr!Push(stack, Lalr!Node(Kind(token), Len(delivered) + 1, Len(delivered) + 1,
                                             Len(delivered) + 1))
      /\ UNCHANGED <<client, text, lookahead, source>>
  BY DEF Shift, Deliver
<1>2. PICK n \in Nat : n = Len(delivered)
  BY DeliveredLength
<1>3. PICK m \in Nat : m = Len(source)
  BY DEF SourceInv
<1>4. /\ n < m
      /\ source[n + 1] = Kind(token)
      /\ token.at + token.count \in CommentEnd(0)..Len(text)
      /\ SubSeq(source, n + 2, m) \in Readings[token.at + token.count]
  BY <1>1, <1>2, <1>3, TokenSays DEF KeywordsApart
<1>5. delivered' # <<>> /\ Len(delivered') = n + 1
  <2>1. PICK Pairs : delivered \in Seq(Pairs)
    BY DEF TInv, DeliveredOK
  <2> DEFINE pair == [tok |-> token, ahead |-> lookahead]
  <2>2. Append(delivered, pair) # <<>> /\ Len(Append(delivered, pair)) = n + 1
    <3>1. \A e : Len(Append(delivered, e)) = Len(delivered) + 1
      BY <2>1
    <3>2. Len(Append(delivered, pair)) = n + 1
      BY <1>2, <3>1
    <3>3. Len(<<>>) = 0 /\ n + 1 # 0
      BY <1>2
    <3> QED BY <3>2, <3>3
  <2> QED BY <1>1, <2>2
<1>6. KindAhead(lookahead)' = KindAhead(lookahead)
  BY <1>1, KindStays
<1>7. \A i \in 1..m : source[i] \in Tokens
  BY <1>3 DEF SourceInv
<1>8. PICK w : w = SubSeq(source, n + 2, m)
  OBVIOUS
<1>9. w \in Seq(Tokens) /\ (w = <<>> <=> n + 1 = m) /\ (n + 1 < m => w[1] = source[n + 2])
  <2>1. n + 2 \in Int /\ m \in Int /\ \A i \in (n + 2)..m : source[i] \in Tokens
    BY <1>2, <1>3, <1>7
  <2>2. /\ w \in Seq(Tokens)
        /\ Len(w) = IF n + 2 <= m THEN m - (n + 2) + 1 ELSE 0
        /\ \A i \in 1..(m - (n + 2) + 1) : w[i] = source[(n + 2) + i - 1]
    BY <1>8, <2>1, SubSeqProperties
  <2>3. w = <<>> <=> Len(w) = 0
    BY <2>2
  <2>4. n + 1 < m => 1 \in 1..(m - (n + 2) + 1) /\ (n + 2) + 1 - 1 = n + 2
    BY <1>2, <1>3
  <2>5. n + 1 < m => w[1] = source[n + 2]
    BY <2>2, <2>4
  <2>6. w = <<>> <=> n + 1 = m
    BY <1>2, <1>3, <1>4, <2>2, <2>3
  <2> QED BY <2>2, <2>5, <2>6
<1>10. KindAhead(lookahead) = IF w = <<>> THEN "EOF" ELSE w[1]
  <2>1. ~KeywordInName(lookahead.at)
    BY <1>1 DEF KeywordsApart
  <2> QED BY <1>1, <1>4, <1>8, <1>9, <2>1, LookaheadSays
<1>11. KindAhead(lookahead) = Parser!TypeOf(n + 2)
  <2>1. CASE n + 1 = m
    <3>1. ~(n + 2 \in 1..Len(source))
      BY <1>2, <1>3, <2>1
    <3> QED BY <1>9, <1>10, <2>1, <3>1 DEF Parser!TypeOf
  <2>2. CASE n + 1 < m
    <3>1. n + 2 \in 1..Len(source) /\ n + 1 # m
      BY <1>2, <1>3, <2>2
    <3> QED BY <1>9, <1>10, <2>2, <3>1 DEF Parser!TypeOf
  <2> QED BY <1>2, <1>3, <1>4, <2>1, <2>2
<1>12. /\ ParserPhase = "next" /\ ParserPhase' = "reduce"
       /\ ParserPos = n /\ ParserPos' = n + 1
       /\ ParserAhead' = KindAhead(lookahead)
  BY <1>1, <1>2, <1>5, <1>6 DEF ParserPhase, ParserPos, ParserAhead
<1>13. stack' = Parser!Push(stack, Parser!Node(source[n + 1], n + 1, n + 1, n + 1))
  BY <1>1, <1>2, <1>4 DEF Lalr!Push, Lalr!Node, Parser!Push, Parser!Node
<1> QED BY <1>1, <1>3, <1>4, <1>11, <1>12, <1>13 DEF Parser!Shift, Parser!Depth

\* A stack that is full overflows on a token that is there.
LEMMA OverflowImplements ==
  ASSUME TInv, WInv, LoopInv, SourceInv, KeywordsApart, Overflow
  PROVE  Parser!Overflow
<1>1. /\ client = "parse" /\ phase = "deliver" /\ parsing = "tokens" /\ parsing' = "overrun"
      /\ Len(stack) >= StackSize
      /\ UNCHANGED <<client, text, delivered, phase, token, lookahead, source, stack>>
  BY DEF Overflow, vars
<1>2. Len(delivered) < Len(source)
  BY <1>1, TokenSays DEF KeywordsApart
<1>3. Kind(token)' = Kind(token)
  BY <1>1, KindStays
<1>4. UNCHANGED <<ParserPos, ParserAhead>>
  BY <1>1, <1>3 DEF ParserPos, ParserAhead
<1>5. ParserPhase = "next" /\ ParserPhase' = "overrun" /\ ParserPos = Len(delivered)
  BY <1>1 DEF ParserPhase, ParserPos
<1> QED BY <1>1, <1>2, <1>4, <1>5 DEF Parser!Overflow, Parser!Depth

\* Both parsers have the rules of lalr_reduce.
LEMMA LalrHasTheRules == Lalr!Rules = Rules
  BY Zenon
  DEF
    IdTokens, Relops, Mulops, Addops, Tokens, NonTerminals, Bottom, Symbols, Lookaheads,
    Unset, Rule, Under, Before, NotBefore, Id, S, NumberRules, HeaderRules, TypeNameRules,
    ArrayTypeRules, PointerTypeRules, TypedIdRules, FactorRules, Parentheses,
    ParenthesesRules, TermRules, MathRules, RelationalRules, ConjRules, DisjRules,
    ExpressionRules, ExpressionListRules, DerefRules, CallRules, FuncHeaderRules, IfRules,
    AssignmentRules, StatementListRules, StatementRules, BlockRules, FunctionRules, Rules,
    Lalr!IdTokens, Lalr!Relops, Lalr!Mulops, Lalr!Addops, Lalr!Tokens, Lalr!NonTerminals,
    Lalr!Bottom, Lalr!Symbols, Lalr!Lookaheads, Lalr!Unset, Lalr!Rule, Lalr!Under,
    Lalr!Before, Lalr!NotBefore, Lalr!Id, Lalr!S, Lalr!NumberRules, Lalr!HeaderRules,
    Lalr!TypeNameRules, Lalr!ArrayTypeRules, Lalr!PointerTypeRules, Lalr!TypedIdRules,
    Lalr!FactorRules, Lalr!Parentheses, Lalr!ParenthesesRules, Lalr!TermRules,
    Lalr!MathRules, Lalr!RelationalRules, Lalr!ConjRules, Lalr!DisjRules,
    Lalr!ExpressionRules, Lalr!ExpressionListRules, Lalr!DerefRules, Lalr!CallRules,
    Lalr!FuncHeaderRules, Lalr!IfRules, Lalr!AssignmentRules, Lalr!StatementListRules,
    Lalr!StatementRules, Lalr!BlockRules, Lalr!FunctionRules, Lalr!Rules

LEMMA ParserHasTheRules == Parser!Rules = Rules
  BY Zenon
  DEF
    IdTokens, Relops, Mulops, Addops, Tokens, NonTerminals, Bottom, Symbols, Lookaheads,
    Unset, Rule, Under, Before, NotBefore, Id, S, NumberRules, HeaderRules, TypeNameRules,
    ArrayTypeRules, PointerTypeRules, TypedIdRules, FactorRules, Parentheses,
    ParenthesesRules, TermRules, MathRules, RelationalRules, ConjRules, DisjRules,
    ExpressionRules, ExpressionListRules, DerefRules, CallRules, FuncHeaderRules, IfRules,
    AssignmentRules, StatementListRules, StatementRules, BlockRules, FunctionRules, Rules,
    Parser!IdTokens, Parser!Relops, Parser!Mulops, Parser!Addops, Parser!Tokens,
    Parser!NonTerminals, Parser!Bottom, Parser!Symbols, Parser!Lookaheads, Parser!Unset,
    Parser!Rule, Parser!Under, Parser!Before, Parser!NotBefore, Parser!Id, Parser!S,
    Parser!NumberRules, Parser!HeaderRules, Parser!TypeNameRules, Parser!ArrayTypeRules,
    Parser!PointerTypeRules, Parser!TypedIdRules, Parser!FactorRules, Parser!Parentheses,
    Parser!ParenthesesRules, Parser!TermRules, Parser!MathRules, Parser!RelationalRules,
    Parser!ConjRules, Parser!DisjRules, Parser!ExpressionRules, Parser!ExpressionListRules,
    Parser!DerefRules, Parser!CallRules, Parser!FuncHeaderRules, Parser!IfRules,
    Parser!AssignmentRules, Parser!StatementListRules, Parser!StatementRules,
    Parser!BlockRules, Parser!FunctionRules, Parser!Rules

\* A reduction goes by the lookahead, and takes the terminating zero for the end.
LEMMA SameRules ==
  ASSUME LoopInv, parsing = "reduce"
  PROVE  Lalr!Takeable = Parser!Takeable
<1>1. client = "parse" /\ phase = "fetch" /\ delivered # <<>>
  BY DEF LoopInv
<1>2. ParserAhead = KindAhead(lookahead)
  BY <1>1 DEF ParserAhead
<1>3. ASSUME NEW r \in Rules
      PROVE  Kind(lookahead) \in r.la <=> ParserAhead \in r.la
  <2>1. CASE lookahead.type = "UNKNOWN" /\ lookahead.at = Len(text)
    <3>1. Kind(lookahead) = "UNKNOWN" /\ ParserAhead = "EOF"
      BY <1>2, <2>1 DEF Kind, KindAhead
    <3> QED BY <3>1, EndsAlike DEF Alike
  <2>2. CASE ~(lookahead.type = "UNKNOWN" /\ lookahead.at = Len(text))
    BY <1>2, <2>2 DEF KindAhead
  <2> QED BY <2>1, <2>2
<1>4. /\ Lalr!Depth = Parser!Depth /\ Lalr!Bottom = Parser!Bottom
      /\ \A n : Lalr!Peek(n) = Parser!Peek(n)
  BY DEF Lalr!Depth, Parser!Depth, Lalr!Peek, Parser!Peek, Lalr!Bottom, Parser!Bottom
<1>5. ASSUME NEW r \in Rules
      PROVE  Lalr!Matches(r) <=> Parser!Matches(r)
  BY <1>3, <1>4 DEF Lalr!Matches, Parser!Matches
<1>6. {r \in Rules : Lalr!Matches(r)} = {r \in Rules : Parser!Matches(r)}
  BY <1>5
<1> QED BY <1>6, LalrHasTheRules, ParserHasTheRules, Zenon DEF Lalr!Takeable, Parser!Takeable

\* A reduction is that of the parser.
LEMMA ReduceImplements == LoopInv /\ Reduce => Parser!Reduce
<1> SUFFICES ASSUME LoopInv, Reduce PROVE Parser!Reduce
  OBVIOUS
<1>1. /\ parsing = "reduce" /\ parsing' = parsing /\ UNCHANGED <<vars, source>>
      /\ \E r \in Lalr!Takeable : Lalr!Apply(r)
  BY DEF Reduce
<1>2. ASSUME NEW r
      PROVE  Lalr!Apply(r) <=> Parser!Apply(r)
  BY Zenon DEF Lalr!Apply, Parser!Apply, Lalr!Push, Parser!Push, Lalr!PopN, Parser!PopN, Lalr!Built,
         Parser!Built, Lalr!Node, Parser!Node, Lalr!Depth, Parser!Depth, Lalr!PeekLoc,
         Parser!PeekLoc, Lalr!Unset, Parser!Unset
<1>3. \E r \in Parser!Takeable : Parser!Apply(r)
  BY <1>1, <1>2, SameRules
<1>4. UNCHANGED <<source, ParserPos, ParserAhead, ParserPhase>>
  <2>1. UNCHANGED <<client, text, token, lookahead, delivered, phase>>
    BY <1>1 DEF vars
  <2>2. Kind(token)' = Kind(token) /\ KindAhead(lookahead)' = KindAhead(lookahead)
    BY <2>1, KindStays
  <2> QED BY <1>1, <2>1, <2>2 DEF ParserPos, ParserAhead, ParserPhase
<1>5. ParserPhase = "reduce"
  BY <1>1 DEF ParserPhase
<1> QED BY <1>3, <1>4, <1>5 DEF Parser!Reduce

\* So is the answer that nothing can be reduced.
LEMMA NothingImplements == LoopInv /\ NothingToReduce => Parser!NothingToReduce
<1> SUFFICES ASSUME LoopInv, NothingToReduce PROVE Parser!NothingToReduce
  OBVIOUS
<1>1. /\ parsing = "reduce" /\ parsing' = "tokens" /\ UNCHANGED <<vars, stack, source>>
      /\ Lalr!TakesNothing
  BY DEF NothingToReduce
<1>2. phase = "fetch" /\ UNCHANGED <<client, text, token, lookahead, delivered, phase>>
  BY <1>1 DEF LoopInv, vars
<1>3. Kind(token)' = Kind(token) /\ KindAhead(lookahead)' = KindAhead(lookahead)
  BY <1>2, KindStays
<1>4. UNCHANGED <<ParserPos, ParserAhead>>
  BY <1>2, <1>3 DEF ParserPos, ParserAhead
<1>5. ParserPhase = "reduce" /\ ParserPhase' = "next"
  BY <1>1, <1>2 DEF ParserPhase
<1>6. Parser!TakesNothing
  BY <1>1, SameRules DEF Lalr!TakesNothing, Parser!TakesNothing
<1> QED BY <1>1, <1>4, <1>5, <1>6 DEF Parser!NothingToReduce

\* Where nothing changes, the parser does not move.
LEMMA StoppedStutters == UNCHANGED frontVars => UNCHANGED Parser!vars
<1> SUFFICES ASSUME UNCHANGED frontVars PROVE UNCHANGED Parser!vars
  OBVIOUS
<1>1. UNCHANGED <<client, text, token, lookahead, delivered, phase, stack, parsing, source>>
  BY DEF frontVars, vars
<1>2. Kind(token)' = Kind(token) /\ KindAhead(lookahead)' = KindAhead(lookahead)
  BY <1>1, KindStays
<1> QED BY <1>1, <1>2 DEF Parser!vars, ParserPos, ParserAhead, ParserPhase

\* Every step of the whole is a step of the parser or none.
LEMMA StepImplements ==
  /\ TInv /\ WInv /\ LoopInv /\ SourceInv /\ KeywordsApart /\ [FrontNext]_frontVars
  => [Parser!Next]_(Parser!vars)
<1> SUFFICES ASSUME TInv, WInv, LoopInv, SourceInv, KeywordsApart, [FrontNext]_frontVars
             PROVE  Parser!Next \/ UNCHANGED Parser!vars
  OBVIOUS
<1>1. CASE Read
  BY <1>1, ReadImplements DEF Parser!Next
<1>2. CASE Tokenize
  BY <1>2, TokenizeStutters
<1>3. CASE Shift
  BY <1>3, ShiftImplements DEF Parser!Next
<1>4. CASE Overflow
  BY <1>4, OverflowImplements DEF Parser!Next
<1>5. CASE Reduce
  BY <1>5, ReduceImplements DEF Parser!Next
<1>6. CASE NothingToReduce
  BY <1>6, NothingImplements DEF Parser!Next
<1>7. CASE Stopped \/ UNCHANGED frontVars
  BY <1>7, StoppedStutters DEF Stopped
<1> QED BY <1>1, <1>2, <1>3, <1>4, <1>5, <1>6, <1>7 DEF FrontNext

\* What holds in every state, of the tokens and of the text that is left.
LEMMA FrontEndInvariant ==
  FrontSpec /\ WellFormedText /\ HasText /\ []KeywordsApart
  => [](TInv /\ WInv /\ LoopInv /\ SourceInv)
<1>1. FrontSpec => []TInv
  BY FrontEndRunsTokenizer, TokenizerInvariant, PTL
<1>2. FrontSpec /\ WellFormedText => []WInv
  BY FrontEndRunsTokenizer, WellFormedInvariant, PTL
<1>3. FrontInit /\ WellFormedText /\ HasText => LoopInv /\ SourceInv
  BY SourceInit
<1>4. /\ TInv /\ WInv /\ KeywordsApart /\ [FrontNext]_frontVars /\ LoopInv /\ SourceInv
      => LoopInv' /\ SourceInv'
  BY LoopStep, SourceStep
<1> QED BY <1>1, <1>2, <1>3, <1>4, PTL DEF FrontSpec

\* parse implements LalrParser: for every text whose last character is a
\* newline, which has a comment at most where it opens, and which is empty or
\* has more than blanks behind it, the tokens of the text are pushed one by
\* one, each once and in order, and each reduction is the one its token and
\* the next one call for - as long as no token or lookahead starts with a
\* keyword that only begins a name.  A comment elsewhere makes tctx_advance
\* move over another token than the one that is pushed; a file of blanks gives
\* one token, its terminating zero; and a name that begins with a keyword is
\* read as two tokens, which is not the longest reading of it.
THEOREM FrontEndImplementsParser ==
  FrontSpec /\ WellFormedText /\ HasText /\ []KeywordsApart => ImplementsParser
<1>1. FrontInit /\ WellFormedText /\ HasText => Parser!Init
  BY ParserStarts
<1> QED BY <1>1, FrontEndInvariant, StepImplements, PTL DEF FrontSpec, ImplementsParser, Parser!Spec

=============================================================================
