----------------------------- MODULE MCFrontEnd -----------------------------
(***************************************************************************)
(* FrontEnd on the texts of MCTokenizer and on small programs.             *)
(***************************************************************************)
EXTENDS FrontEnd, MCTokenizer

\* Up to n words, run together.
RECURSIVE Spelled(_, _)
Spelled(words, n) == IF n = 0 THEN {<<>>} ELSE {<<>>} \cup {w \o v : w \in words, v \in Spelled(words, n - 1)}

Sums == Spelled({<<"x">>, <<"=">>, <<"+">>, <<"(">>, <<")">>}, 3) \cup
        {<<"x", "=">> \o w : w \in Spelled({<<"x">>, <<"+">>, <<"(">>}, 4)}
Headers == Spelled({<<"m", "o", "d", "u", "l", "e">>, <<"x">>, <<" ">>}, 3)

FrontTexts ==
  PlainTexts \cup Plain({w \o <<"\n">> : w \in Sums \cup Headers}) \cup {<<"/", "/", "x">>}
=============================================================================
