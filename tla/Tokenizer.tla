------------------------------ MODULE Tokenizer ------------------------------
(***************************************************************************)
(* The tokenizer (src/tokenizer.c) and the two loops of main.c that drive  *)
(* it: parse (compile runs the same one), which fetches a lookahead after  *)
(* every token, and tokenize, which does not.                              *)
(*                                                                         *)
(* tctx_get_next does not only look: it skips a comment and blanks and     *)
(* keeps the new cursor.  tctx_advance calls it once more and moves over   *)
(* the token THAT call finds.  So each turn of parse asks three times, and *)
(* what the three answers have to do with each other is the question here. *)
(*                                                                         *)
(* The text is a sequence of characters; position c of the C string is     *)
(* text[c + 1], and the terminating zero is at position Len(text).  " "    *)
(* stands for the blanks that are no newline.                              *)
(***************************************************************************)
EXTENDS Naturals, Sequences, FiniteSets, TLC

CONSTANTS
  Chars,         \* the characters texts are made of
  Texts          \* the texts considered

ASSUME CharsAssumption == "NUL" \notin Chars
ASSUME TextsAssumption == Texts \subseteq Seq(Chars)

VARIABLES
  client,        \* which loop of main.c runs: "parse" or "tokenize"
  text,          \* ctx.content
  cursor,        \* ctx.state.cursor
  loc,           \* ctx.state.loc
  token,         \* t of the loop
  lookahead,     \* lctx.lookahead
  delivered,     \* the tokens pushed (or printed) so far, with the lookahead
  phase          \* where the loop stands

vars == <<client, text, cursor, loc, token, lookahead, delivered, phase>>

Locations == [line : Nat, col : Nat, index : Nat]
NoLoc == [line |-> 0, col |-> 0, index |-> 0]
Token(type, at, count, l) == [type |-> type, at |-> at, count |-> count, loc |-> l]

\* (token){.type = T_EOF}: no text, and a location of zeros.
Eof == Token("EOF", 0, 0, NoLoc)

-----------------------------------------------------------------------------
(* The text. *)

Char(c) == IF c < Len(text) THEN text[c + 1] ELSE "NUL"

\* Characters the provers cannot read in a string.
DQuote == "\""
Backslash == "\\"
Bar == "|"
Blanks == {" ", "\n"}
\* Upper case letters, which every expression that takes letters treats like
\* lower case ones, are left out.
Digits == {"0", "1", "2", "3", "4", "5", "6", "7", "8", "9"}
HexDigits == Digits \cup {"a", "b", "c", "d", "e", "f"}
Letters == {"a", "b", "c", "d", "e", "f", "g", "h", "i", "j", "k", "l", "m",
            "n", "o", "p", "q", "r", "s", "t", "u", "v", "w", "x", "y", "z"}
IdChars == Letters \cup Digits \cup {"_"}

\* The first position from c on that holds no character of the set.
EndOfRun(c, set) ==
  CHOOSE j \in c..Len(text) : Char(j) \notin set /\ \A k \in c..(j - 1) : Char(k) \in set

Run(c, set) == EndOfRun(c, set) - c

-----------------------------------------------------------------------------
(* The regular expressions of tctx_internal_init_regex: the length of the  *)
(* match at c, 0 when there is none.                                       *)

Word(c, w) == IF \A i \in 1..Len(w) : Char(c + i - 1) = w[i] THEN Len(w) ELSE 0

\* \"([^\"]|\n)*\" : in a bracket expression the backslash is a character,
\* so a string that holds one is no string.
StringLit(c) ==
  IF Char(c) # DQuote THEN 0
  ELSE LET end == EndOfRun(c + 1, Chars \ {DQuote, Backslash})
       IN IF Char(end) = DQuote THEN end - c + 1 ELSE 0

CharLit(c) ==
  IF Char(c) = "'" /\ Char(c + 1) # "NUL" /\ Char(c + 2) = "'" THEN 3 ELSE 0

HexLit(c) ==
  IF Word(c, <<"0", "x">>) > 0 /\ Char(c + 2) \in HexDigits THEN 2 + Run(c + 2, HexDigits) ELSE 0

DecimalLit(c) == Run(c, Digits)

DoubleLit(c) ==
  LET dot == c + DecimalLit(c)
  IN IF dot > c /\ Char(dot) = "." /\ Char(dot + 1) \in Digits
       THEN dot - c + 1 + Run(dot + 1, Digits) ELSE 0

Identifier(c) == IF Char(c) \in Letters THEN Run(c, IdChars) ELSE 0

-----------------------------------------------------------------------------
(* tctx_get_next. *)

Match(type, count) == [type |-> type, count |-> count]
Matches(m) == m.count > 0

\* The CHMATCH lines.
Signs == {Bar, "&", ">", "<", ":", ";", ",", ".", "(", ")", "{", "}", "[", "]",
          "_", "-", "+", "*", "/", "%", "=", "'", DQuote}

SingleChars ==
  [ch \in Signs |->
    CASE ch = Bar -> "BOR" [] ch = "&" -> "BAND" [] ch = ">" -> "GT" [] ch = "<" -> "LT"
      [] ch = ":" -> "COLON" [] ch = ";" -> "SEMI" [] ch = "," -> "COMMA" [] ch = "." -> "PERIOD"
      [] ch = "(" -> "LP" [] ch = ")" -> "RP" [] ch = "{" -> "LBRC" [] ch = "}" -> "RBRC"
      [] ch = "[" -> "LBRK" [] ch = "]" -> "RBRK" [] ch = "_" -> "UNDERSCORE" [] ch = "-" -> "MINUS"
      [] ch = "+" -> "PLUS" [] ch = "*" -> "MUL" [] ch = "/" -> "DIV" [] ch = "%" -> "MOD"
      [] ch = "=" -> "EQ" [] ch = "'" -> "SQUOTE" [] ch = DQuote -> "DQUOTE"]

\* Variant: plain numbers tried before the longer literals.
PatternsNumbersFirst(c) ==
  << Match("DECIMAL_LIT", DecimalLit(c)),
     Match("HEX_LIT", HexLit(c)),
     Match("DOUBLE_LIT", DoubleLit(c)),
     Match("ID", Identifier(c)),
     Match(IF Char(c) \in Signs THEN SingleChars[Char(c)] ELSE "UNKNOWN", 1) >>

\* The RMATCH lines in their order; the first that matches wins, however long
\* the match of a later one.  A keyword matches the start of a longer name.
Patterns(c) ==
  << Match("STRING_LIT", StringLit(c)),
     Match("CHAR_LIT", CharLit(c)),
     Match("FN", Word(c, <<"f", "n">>)),
     Match("IF", Word(c, <<"i", "f">>)),
     Match("ELSE", Word(c, <<"e", "l", "s", "e">>)),
     Match("SWITCH", Word(c, <<"s", "w", "i", "t", "c", "h">>)),
     Match("BREAK", Word(c, <<"b", "r", "e", "a", "k">>)),
     Match("DEFAULT", Word(c, <<"d", "e", "f", "a", "u", "l", "t">>)),
     Match("RETURN", Word(c, <<"r", "e", "t", "u", "r", "n">>)),
     Match("ARROW", Word(c, <<"-", ">">>)),
     Match("HEX_LIT", HexLit(c)),
     Match("DOUBLE_LIT", DoubleLit(c)),
     Match("DECIMAL_LIT", DecimalLit(c)),
     Match("ID", Identifier(c)),
     Match("LOR", Word(c, <<Bar, Bar>>)),
     Match("LAND", Word(c, <<"&", "&">>)),
     Match("GTEQ", Word(c, <<">", "=">>)),
     Match("LTEQ", Word(c, <<"<", "=">>)),
     Match("DEQ", Word(c, <<"=", "=">>)),
     Match(IF Char(c) \in Signs THEN SingleChars[Char(c)] ELSE "UNKNOWN", 1) >>

\* The match that no earlier one comes before.
Firsts(ms) == {ms[k] : k \in {i \in DOMAIN ms : Matches(ms[i]) /\ \A j \in 1..(i - 1) : ~Matches(ms[j])}}

\* A character that is not recognised is a token without a location.
TokenAt(c, l) ==
  LET first == CHOOSE m \in UNION {Firsts(ms) : ms \in {Patterns(c)}} : TRUE
  IN Token(first.type, c, first.count, IF first.type = "UNKNOWN" THEN NoLoc ELSE l)

\* Variant: the end of the text seen one character too early.
AtEofTooEarly(c) == c + 2 >= Len(text) \/ Char(c) = "NUL"

\* The first test stops one character before the terminating zero.
AtEof(c) == c + 1 >= Len(text) \/ Char(c) = "NUL"

\* Variant: comments looked for behind a newline only.
CommentEndOnNewLine(c) ==
  IF c > 0 /\ Char(c - 1) = "\n" /\ Word(c, <<"/", "/">>) > 0 THEN EndOfRun(c, Chars \ {"\n"}) + 1 ELSE c

\* One comment, and only where the cursor stands: its newline is skipped with
\* it, and is not counted as a line.
CommentEnd(c) == IF Word(c, <<"/", "/">>) > 0 THEN EndOfRun(c, Chars \ {"\n"}) + 1 ELSE c

\* while (*s.cursor != '\n') does not stop at the end of the text.
Unterminated(c) == ~AtEof(c) /\ CommentEnd(c) > Len(text)

\* Variant: a run of newlines counted as one.
AcrossOneLine(from, to, l) ==
  LET newlines == {i \in from..(to - 1) : Char(i) = "\n"}
      last     == CHOOSE i \in newlines : \A j \in newlines : j <= i
  IN [line  |-> IF newlines = {} THEN l.line ELSE l.line + 1,
      col   |-> IF newlines = {} THEN l.col + (to - from) ELSE to - last - 1,
      index |-> l.index + (to - from)]

\* Blanks: a newline starts a line and sets col to 0.
Across(from, to, l) ==
  LET newlines == {i \in from..(to - 1) : Char(i) = "\n"}
      last     == CHOOSE i \in newlines : \A j \in newlines : j <= i
  IN [line  |-> l.line + Cardinality(newlines),
      col   |-> IF newlines = {} THEN l.col + (to - from) ELSE to - last - 1,
      index |-> l.index + (to - from)]

\* A comment is passed in its line.
Along(n, l) == [line |-> l.line, col |-> l.col + n, index |-> l.index + n]

\* The cursor and location get_next leaves in ctx.state, and what it returns.
GetNext(c, l) ==
  IF AtEof(c) THEN [cursor |-> c, loc |-> l, tok |-> Eof]
  ELSE LET start == CommentEnd(c)
           end   == EndOfRun(start, Blanks)
           there == Across(start, end, Along(start - c, l))
       IN [cursor |-> end, loc |-> there, tok |-> TokenAt(end, there)]

-----------------------------------------------------------------------------
(* The loops. *)

Init ==
  /\ client \in {"parse", "tokenize"}
  /\ text \in Texts
  /\ cursor = 0
  /\ loc = NoLoc
  /\ token = Eof
  /\ lookahead = Token("ID", 0, 0, NoLoc)      \* lalr_create zeroes it
  /\ delivered = <<>>
  /\ phase = "fetch"

\* A call of get_next in phase ph that runs off the end of the text.  What it
\* reads there is undefined, and nothing after it is modelled.
Overrun ==
  /\ phase \in {"fetch", "advance", "look"}
  /\ Unterminated(cursor)
  /\ phase' = "overrun"
  /\ UNCHANGED <<client, text, cursor, loc, token, lookahead, delivered>>

\* Variant: a character that is not recognised skipped with continue.
FetchContinue ==
  /\ phase = "fetch"
  /\ ~Unterminated(cursor)
  /\ LET next == GetNext(cursor, loc)
     IN /\ token' = next.tok
        /\ cursor' = next.cursor
        /\ loc' = next.loc
        /\ phase' = CASE next.tok.type = "EOF" -> "end"
                      [] next.tok.type = "UNKNOWN" -> "fetch"
                      [] OTHER -> "advance"
  /\ UNCHANGED <<client, text, lookahead, delivered>>

\* while ((t = tctx_get_next(&ctx)).type != T_EOF)
Fetch ==
  /\ phase = "fetch"
  /\ ~Unterminated(cursor)
  /\ LET next == GetNext(cursor, loc)
     IN /\ token' = next.tok
        /\ cursor' = next.cursor
        /\ loc' = next.loc
        /\ phase' = IF next.tok.type = "EOF" THEN "end" ELSE "advance"
  /\ UNCHANGED <<client, text, lookahead, delivered>>

\* Variant: the zero behind the text counted as part of the token.
AdvanceTooFar ==
  /\ phase = "advance"
  /\ ~Unterminated(cursor)
  /\ LET next == GetNext(cursor, loc)
     IN /\ cursor' = next.cursor + next.tok.count + 1
        /\ loc' = next.tok.loc
  /\ phase' = IF client = "parse" THEN "look" ELSE "deliver"
  /\ UNCHANGED <<client, text, token, lookahead, delivered>>

\* Variant: the end of a longer token taken for its last character.
AdvanceToLastChar ==
  /\ phase = "advance"
  /\ ~Unterminated(cursor)
  /\ LET next == GetNext(cursor, loc)
     IN /\ cursor' = next.cursor + (IF next.tok.count > 1 THEN next.tok.count - 1 ELSE next.tok.count)
        /\ loc' = next.tok.loc
  /\ phase' = IF client = "parse" THEN "look" ELSE "deliver"
  /\ UNCHANGED <<client, text, token, lookahead, delivered>>

\* tctx_advance fetches for itself: the token it moves over need not be t.
Advance ==
  /\ phase = "advance"
  /\ ~Unterminated(cursor)
  /\ LET next == GetNext(cursor, loc)
     IN /\ cursor' = next.cursor + next.tok.count
        /\ loc' = next.tok.loc
  /\ phase' = IF client = "parse" THEN "look" ELSE "deliver"
  /\ UNCHANGED <<client, text, token, lookahead, delivered>>

\* Variant: the lookahead taken with tctx_advance.
LookAndAdvance ==
  /\ phase = "look"
  /\ ~Unterminated(cursor)
  /\ LET next == GetNext(cursor, loc)
     IN /\ lookahead' = next.tok
        /\ cursor' = next.cursor + next.tok.count
        /\ loc' = next.loc
  /\ phase' = "deliver"
  /\ UNCHANGED <<client, text, token, delivered>>

\* Variant: the lookahead taken before the advance.
LookBeforeAdvance ==
  /\ phase = "look"
  /\ ~Unterminated(cursor)
  /\ LET next == GetNext(cursor, loc)
     IN /\ lookahead' = token
        /\ cursor' = next.cursor
        /\ loc' = next.loc
  /\ phase' = "deliver"
  /\ UNCHANGED <<client, text, token, delivered>>

\* lctx.lookahead = tctx_get_next(&ctx)
Look ==
  /\ phase = "look"
  /\ ~Unterminated(cursor)
  /\ LET next == GetNext(cursor, loc)
     IN /\ lookahead' = next.tok
        /\ cursor' = next.cursor
        /\ loc' = next.loc
  /\ phase' = "deliver"
  /\ UNCHANGED <<client, text, token, delivered>>

\* lalr_push of t and the reductions, or the printf of tokenize.
Deliver ==
  /\ phase = "deliver"
  /\ delivered' = Append(delivered, [tok |-> token, ahead |-> lookahead])
  /\ phase' = "fetch"
  /\ UNCHANGED <<client, text, cursor, loc, token, lookahead>>

Terminated ==
  /\ phase \in {"end", "overrun"}
  /\ UNCHANGED vars

Next ==
  \/ Overrun
  \/ Fetch
  \/ Advance
  \/ Look
  \/ Deliver
  \/ Terminated

Spec == Init /\ [][Next]_vars

\* One thread that never waits: as long as a step is possible, one is taken.
FairSpec == Spec /\ WF_vars(Next)

-----------------------------------------------------------------------------
(* Properties. *)

Toks == {delivered[i].tok : i \in DOMAIN delivered}
Covers(tok, c) == c \in tok.at..(tok.at + tok.count - 1)
CommentAt(c) == Word(c, <<"/", "/">>) > 0

\* The state is well formed.  The cursor passes the terminating zero at most
\* by one: a comment at the end makes tctx_advance step over the zero, and the
\* first test of get_next keeps it from being read there.
TypeOK ==
  /\ client \in {"parse", "tokenize"}
  /\ text \in Seq(Chars)
  /\ cursor \in 0..(Len(text) + 1)
  /\ loc \in Locations
  /\ phase \in {"fetch", "advance", "look", "deliver", "end", "overrun"}

\* Whatever the text, comments between tokens included, no character is delivered
\* twice and no token comes before an earlier one: of the calls of a turn each
\* goes on behind what was delivered, even where they see different tokens.
TokensApart ==
  \A i, j \in DOMAIN delivered :
    i < j => delivered[i].tok.at + delivered[i].tok.count <= delivered[j].tok.at

\* The three calls of a turn agree: every character the loop has moved over,
\* blanks and a comment at the start aside, is in one delivered token and in
\* one only.
NothingLost ==
  phase \in {"fetch", "end"} =>
    \A c \in CommentEnd(0)..(cursor - 1) :
      Char(c) \notin Blanks =>
        Cardinality({i \in DOMAIN delivered : Covers(delivered[i].tok, c)}) = 1

\* The lookahead the reductions of a token go by is the token pushed next; at
\* the end it may be the terminating zero instead of T_EOF.
LookaheadIsNext ==
  client = "parse" =>
    /\ \A i \in DOMAIN delivered :
         i < Len(delivered) => delivered[i].ahead = delivered[i + 1].tok
    /\ phase = "end" /\ delivered # <<>> =>
         LET last == delivered[Len(delivered)].ahead
         IN last.type = "EOF" \/ last.at = Len(text)

\* The first regular expression that matches is also the longest match there
\* is: no token that is delivered is the beginning of a longer one.
MaximalMunch ==
  phase = "deliver" =>
    \A ms \in {Patterns(token.at)} : \A i \in DOMAIN ms : ms[i].count <= token.count

\* T_EOF means that nothing but blanks is left.
EofAtEnd ==
  phase = "end" => \A c \in cursor..(Len(text) - 1) : Char(c) \in Blanks

\* No token is made of a comment.
CommentsConsumed ==
  /\ \A tok \in Toks : ~CommentAt(tok.at)
  /\ lookahead.type # "EOF" /\ lookahead.count > 0 => ~CommentAt(lookahead.at)

\* The newlines before a position, and those of them that no line number counts:
\* what a comment at the start or a token holds is stepped over, and a character
\* that is not recognised sets the location back to zeros, its own included.
Newlines(p) == {c \in 0..(p - 1) : Char(c) = "\n"}
Loses(tok, c) == Covers(tok, c) \/ (tok.type = "UNKNOWN" /\ c < tok.at)
Missed(i) ==
  {c \in Newlines(delivered[i].tok.at) :
     c < CommentEnd(0) \/ \E j \in 1..i : Loses(delivered[j].tok, c)}

\* The line number of a token is that of the line it stands in, less the lines
\* missed: no call of a turn counts a newline twice or misses another.
LinesMissed ==
  \A i \in DOMAIN delivered :
    delivered[i].tok.loc.line =
      Cardinality(Newlines(delivered[i].tok.at)) - Cardinality(Missed(i))

\* Both loops end, whatever the text.
Termination == <>(phase \in {"end", "overrun"})

\* What is left to do: characters, and within them the calls of a turn.  At the
\* end of the text no call moves the cursor, and one turn may still be under way.
CallsBefore(advance) ==
  CASE phase = "advance" -> advance [] phase = "look" -> 4 [] phase = "deliver" -> 3
    [] phase = "fetch" -> 2 [] OTHER -> 0
Remaining ==
  IF AtEof(cursor) THEN CallsBefore(5) ELSE 5 * (Len(text) + 1 - cursor) + CallsBefore(1)

\* The three calls of a turn can find three different things, and the loops ask
\* only whether the first found the end.  Still there is less to do after every
\* step, so a text of n characters is read in at most 5 n + 7 of them.
TurnsRunOut == [][Remaining' \in Nat /\ Remaining' < Remaining]_vars
=============================================================================
