---------------------------- MODULE MCTokenizer ----------------------------
(**************************************************************************)
(* Tokenizer on every short text over small sets of characters.            *)
(**************************************************************************)
EXTENDS Tokenizer

AllChars == Letters \cup Digits \cup Blanks \cup Signs \cup {"\\", "?"}

Over(alphabet, n) == UNION {[1..m -> alphabet] : m \in 0..n}
Lines(alphabet, n) == {w \o <<"\n">> : w \in Over(alphabet, n)}

\* Texts as an editor leaves them: the last character is a newline, there is
\* something besides blanks, a comment opens the text or is not there, and no
\* name starts with a keyword.
Plain(texts) == {w \in texts : \E i \in DOMAIN w : w[i] \notin Blanks}

Words == Lines({"x", "0", ".", "a", " ", "\n"}, 4)
Operators == Lines({"-", ">", "=", "<", "x", " "}, 3)
Logic == Lines({"|", "&", "x", "\n"}, 3)
Literals == Lines({"\"", "'", "\\", "x", "\n"}, 4)
Unrecognised == Lines({"?", "x", " ", "\n"}, 4)
Commented == {<<"/", "/", "x", "\n">> \o w : w \in Lines({"x", "/", " ", "\n"}, 3)}

\* A slash after a slash starts a comment, as it does behind blanks.
WithoutComments(texts) == {w \in texts : \A i \in 6..Len(w) : w[i] = "/" => w[i - 1] # "/"}

PlainTexts ==
  Plain(Words \cup Operators \cup Logic \cup Literals \cup Unrecognised) \cup
  {w \in WithoutComments(Commented) : \E i \in 5..Len(w) : w[i] \notin Blanks}

-----------------------------------------------------------------------------
\* Any text at all: comments anywhere, no newline at the end, quotes that are
\* not closed.
AnyTexts ==
  Over({"/", "x", " ", "\n"}, 5) \cup Over({"\"", "'", "\\", "/", "\n"}, 3) \cup
  Over({"i", "f", "n", "0", "?"}, 3)

-----------------------------------------------------------------------------
\* Texts for single questions.
LineComments == {u \o <<"\n", "/", "/", "x", "\n">> \o v : u, v \in Over({"x", "="}, 2)}
OpenEnded == Over({"x", "=", " "}, 3)
=============================================================================
