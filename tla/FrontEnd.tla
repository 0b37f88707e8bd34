------------------------------ MODULE FrontEnd ------------------------------
(***************************************************************************)
(* parse of main.c as a whole: the loop of Tokenizer with the parse stack  *)
(* behind it.  LalrParser takes for granted that the tokens of a file      *)
(* arrive one by one, each once, and that the lookahead is the kind of the *)
(* next one.  Here they come from three calls of tctx_get_next per token,  *)
(* which share a cursor, and the lookahead is one of the three answers.    *)
(***************************************************************************)
EXTENDS Tokenizer, LalrRules

CONSTANT StackSize

VARIABLES
  stack,         \* lctx.stack[0..stack_top]
  parsing,       \* which loop of parse runs: "tokens" or "reduce"
  source         \* what the text says: not part of the code, and never changed

frontVars == <<vars, stack, parsing, source>>

\* A T_ID is compared with the word module and with no other.
Kind(tok) ==
  IF tok.type = "ID" /\ tok.count = 6 /\ Word(tok.at, <<"m", "o", "d", "u", "l", "e">>) > 0
    THEN "MODULE" ELSE tok.type

\* lalr_reduce on the stack and the lookahead there are.
Lalr == INSTANCE LalrParser WITH
          Inputs    <- Seq(Tokens),
          input     <- [i \in DOMAIN delivered |-> Kind(delivered[i].tok)],
          pos       <- Len(delivered),
          lookahead <- Kind(lookahead)

-----------------------------------------------------------------------------
(* What the text says. *)

\* The first of the longest matches at c.
LongestAt(c) ==
  UNION {{i \in DOMAIN ms :
            /\ ms[i].count > 0
            /\ \A j \in DOMAIN ms : ms[j].count <= ms[i].count
            /\ \A j \in 1..(i - 1) : ms[j].count < ms[i].count} : ms \in {Patterns(c)}}

\* The text from c on as the kinds of its tokens: blanks skipped, and the
\* longest token taken each time.
Readings[c \in 0..Len(text)] ==
  IF c = Len(text) THEN {<<>>}
  ELSE IF Char(c) \in Blanks THEN Readings[c + 1]
  ELSE UNION {{<<Kind(Token(m.type, c, m.count, NoLoc))>> \o rest : rest \in Readings[c + m.count]} :
                m \in {Patterns(c)[i] : i \in LongestAt(c)}}

\* A comment may open the file.  Only parse has a parser.
Sources ==
  IF client = "parse" /\ CommentEnd(0) <= Len(text) THEN Readings[CommentEnd(0)] ELSE {<<>>}

-----------------------------------------------------------------------------
FrontInit ==
  /\ Init
  /\ stack = <<>>
  /\ parsing = "tokens"
  /\ source \in Sources

Read ==
  /\ parsing = "tokens"
  /\ Overrun \/ Fetch \/ Advance \/ Look
  /\ UNCHANGED <<stack, parsing, source>>

\* tokenize prints the token.
Tokenize ==
  /\ client = "tokenize"
  /\ Deliver
  /\ UNCHANGED <<stack, parsing, source>>

\* parse turns it into a node and pushes that.
Shift ==
  /\ client = "parse" /\ parsing = "tokens"
  /\ Len(stack) < StackSize
  /\ Deliver
  /\ LET n == Len(delivered) + 1
     IN stack' = Lalr!Push(stack, Lalr!Node(Kind(token), n, n, n))
  /\ parsing' = "reduce"
  /\ UNCHANGED source

Overflow ==
  /\ client = "parse" /\ parsing = "tokens" /\ phase = "deliver"
  /\ Len(stack) >= StackSize
  /\ parsing' = "overrun"
  /\ UNCHANGED <<vars, stack, source>>

\* Variant: every reduction is a new turn of the outer loop.
ReduceOnce ==
  /\ parsing = "reduce"
  /\ \E r \in Lalr!Takeable : Lalr!Apply(r)
  /\ parsing' = "tokens"
  /\ UNCHANGED <<vars, source>>

Reduce ==
  /\ parsing = "reduce"
  /\ \E r \in Lalr!Takeable : Lalr!Apply(r)
  /\ UNCHANGED <<vars, parsing, source>>

NothingToReduce ==
  /\ parsing = "reduce"
  /\ Lalr!TakesNothing
  /\ parsing' = "tokens"
  /\ UNCHANGED <<vars, stack, source>>

Stopped ==
  /\ parsing = "overrun" \/ (parsing = "tokens" /\ phase \in {"end", "overrun"})
  /\ UNCHANGED frontVars

FrontNext ==
  Read \/ Tokenize \/ Shift \/ Overflow \/ Reduce \/ NothingToReduce \/ Stopped

FrontSpec == FrontInit /\ [][FrontNext]_frontVars

-----------------------------------------------------------------------------
(* The parser that FrontEnd implements. *)

\* What is left of a text may be its terminating zero.
KindAhead(tok) == IF tok.type = "UNKNOWN" /\ tok.at = Len(text) THEN "EOF" ELSE Kind(tok)

\* Fetched ahead of the push, the lookahead is that of what is pushed; before
\* that it is the token in hand.
ParserAhead ==
  IF client = "tokenize" \/ delivered = <<>> THEN "ID"
  ELSE IF phase = "deliver" THEN Kind(token) ELSE KindAhead(lookahead)

ParserPos == IF client = "parse" THEN Len(delivered) ELSE 0

ParserPhase ==
  IF parsing # "tokens" THEN parsing ELSE IF phase = "end" THEN "done" ELSE "next"

Parser == INSTANCE LalrParser WITH
            Inputs    <- Seq(Tokens),
            input     <- source,
            pos       <- ParserPos,
            lookahead <- ParserAhead,
            phase     <- ParserPhase

\* parse is LalrParser on the tokens of the text: whatever the three calls of a
\* turn skip or fetch twice, each token is pushed once, in its order, and every
\* reduction is the one that token and the next one call for.
ImplementsParser == Parser!Spec
=============================================================================
