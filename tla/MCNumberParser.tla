--------------------------- MODULE MCNumberParser ---------------------------
(**************************************************************************)
(* NumberParser on short texts.                                            *)
(**************************************************************************)
EXTENDS NumberParser

Longest == 4
Strings(alphabet) == UNION {[1..n -> alphabet] : n \in 0..Longest}
Called(entry, texts, bases) == [entry : {entry}, text : texts, base : bases]

\* - 0 1 7 9 and a blank, in every base that has no letters.
DecimalCalls ==
  Called("plain", Strings({45, 48, 49, 55, 57, 32}), 2..10) \cup
  Called("lalr", Strings({48, 49, 57}), {10})

\* Letters of lower case alone are digits of the higher bases.
LetterCalls == Called("plain", Strings({97, 99, 102, 103}), {13, 16, 20})

\* The same behind 0x, with and without a sign.
PrefixedCalls ==
  Called("hex", {p \o w : p \in {<<>>, <<48, 120>>, <<48, 120, 45>>}, w \in [1..2 -> {97, 102, 103}]}, {16})

NumberCalls == DecimalCalls \cup LetterCalls \cup PrefixedCalls

\* They meet the hypothesis under which numbers are proved to be read.
ASSUME NumbersOfOneKind == OneKindOfDigits(NumberCalls)

-----------------------------------------------------------------------------
\* 0x4, 0xf4, ... through number_parse_hex.
HexCalls == Called("hex", {<<48, 120>> \o w : w \in [1..2 -> {52, 53, 97, 102}]}, {16})
=============================================================================
