---------------------------- MODULE NumberParser ----------------------------
(***************************************************************************)
(* number_parse_integer_base (src/number_parser.c), its entry for          *)
(* hexadecimal text, and the two calls lalr_reduce makes for literals.     *)
(*                                                                         *)
(* A character is its ASCII code.  The digits are added up from the left,  *)
(* each with its power of the base, in double arithmetic, and every sum is *)
(* converted back to a long.                                               *)
(***************************************************************************)
EXTENDS Integers, Sequences

CONSTANTS
  Calls,         \* the calls considered: [entry, text, base]
  IntLimit,      \* an int is below 2^31,
  DoubleLimit,   \* a double holds every integer up to 2^53,
  LongLimit      \* and a long is below 2^63

\* The characters of a text.
Codes == 1..127

ASSUME CallsAssumption ==
  \A c \in Calls : /\ c.entry \in {"plain", "lalr", "hex"}
                    /\ c.text \in Seq(Codes)
                    /\ c.base \in 2..36
ASSUME LimitsAssumption ==
  /\ {IntLimit, DoubleLimit, LongLimit} \subseteq Nat \ {0}
  /\ IntLimit <= DoubleLimit /\ DoubleLimit < LongLimit

VARIABLES
  call,          \* who called, with what
  sign,
  cursor,        \* characters of the text before the first digit
  length,
  i,
  v,             \* the long being summed up
  stored,        \* Number.i, once lalr_reduce has stored the result
  phase

vars == <<call, sign, cursor, length, i, v, stored, phase>>

\* The character at position k of a text, 0 behind the end.
CharAt(text, k) == IF k < Len(text) THEN text[k + 1] ELSE 0
Char(k) == CharAt(call.text, k)

IsSpace(c) == c = 32 \/ c \in 9..13
ToLower(c) == IF c \in 65..90 THEN c + 32 ELSE c
IsAlpha(c) == c \in 97..122 \/ c \in 65..90

\* Variant: the digit that equals the base accepted.
IsValidBaseInclusive(char, base) ==
  LET c == ToLower(char)
  IN IF base <= 10 THEN c - 48 <= base /\ c - 48 >= 0
     ELSE IsAlpha(c) /\ c - 97 + 10 < base

\* Beyond base 10 only letters are digits.
IsValidBase(char, base) ==
  LET c == ToLower(char)
  IN IF base <= 10 THEN c - 48 < base /\ c - 48 >= 0
     ELSE IsAlpha(c) /\ c - 97 + 10 < base

\* Letters are read without tolower.
Digit(c) == IF c - 48 \in 0..9 THEN c - 48 ELSE c - 97 + 10

Power(b, n) == LET p[k \in Nat] == IF k = 0 THEN 1 ELSE b * p[k - 1] IN p[n]

\* How far apart doubles are at x, which is beyond DoubleLimit.
Spacing(x) ==
  Power(2, CHOOSE n \in 1..x : DoubleLimit * Power(2, n - 1) <= x /\ x < DoubleLimit * Power(2, n))

\* An integer as a double: the nearest one, of two the even one.
Double[x \in Int] ==
  IF x \in -DoubleLimit..DoubleLimit THEN x
  ELSE LET gap   == Spacing(IF x < 0 THEN -x ELSE x)
           below == x \div gap
           rest  == x % gap
       IN gap * (IF 2 * rest < gap \/ (2 * rest = gap /\ below % 2 = 0) THEN below ELSE below + 1)

Longs == -LongLimit..(LongLimit - 1)

\* A double as a long.  What it cannot hold is undefined; processors answer the
\* least long or the nearest one.
ToLong(x) == IF x \in Longs THEN {x} ELSE {-LongLimit, LongLimit - 1}

\* A register keeps the low bits.
Wrapped(x, limit) ==
  LET m == x % (2 * limit) IN IF m >= limit THEN m - 2 * limit ELSE m

\* Variant: the long stored as it is.
ToIntUnchanged(x) == x

ToInt(x) == Wrapped(x, IntLimit)

\* digit * pow(base, n), with pow rounded once; its overflow, beyond 308 decimal
\* digits, is left out.
Weighed(c, base, n) == Double[Digit(c) * Double[Power(base, n)]]

\* v += x
Plus(x) == ToLong(Double[Double[v] + x])

-----------------------------------------------------------------------------
Init ==
  /\ call \in Calls
  /\ sign = 1
  /\ cursor = 0
  /\ length = 0
  /\ i = 0
  /\ v = 0
  /\ stored = 0
  /\ phase = IF call.entry = "hex" THEN "prefix" ELSE "sign"

\* number_parse_hex steps over 0x.
Prefix ==
  /\ phase = "prefix"
  /\ cursor' = IF Char(0) = 48 /\ Char(1) = 120 THEN 2 ELSE 0
  /\ phase' = "sign"
  /\ UNCHANGED <<call, sign, length, i, v, stored>>

Sign ==
  /\ phase = "sign"
  /\ IF Char(cursor) = 45
       THEN sign' = -1 /\ cursor' = cursor + 1
       ELSE UNCHANGED <<sign, cursor>>
  /\ phase' = "scan"
  /\ UNCHANGED <<call, length, i, v, stored>>

Scan ==
  /\ phase = "scan"
  /\ LET c == Char(cursor + length)
     IN IF c # 0 /\ IsValidBase(c, call.base) /\ ~IsSpace(c)
          THEN length' = length + 1 /\ UNCHANGED phase
          ELSE phase' = "sum" /\ UNCHANGED length
  /\ UNCHANGED <<call, sign, cursor, i, v, stored>>

\* Variant: powers one too high.
SumShifted ==
  /\ phase = "sum"
  /\ i < length
  /\ v' \in Plus(Weighed(Char(cursor + i), call.base, length - i))
  /\ i' = i + 1
  /\ UNCHANGED <<call, sign, cursor, length, stored, phase>>

\* Variant: a zero skipped with continue, before i is counted on.
SumSkippingZeros ==
  /\ phase = "sum"
  /\ i < length
  /\ v' \in Plus(Weighed(Char(cursor + i), call.base, length - i - 1))
  /\ i' = IF Digit(Char(cursor + i)) = 0 THEN i ELSE i + 1
  /\ UNCHANGED <<call, sign, cursor, length, stored, phase>>

Sum ==
  /\ phase = "sum"
  /\ i < length
  /\ v' \in Plus(Weighed(Char(cursor + i), call.base, length - i - 1))
  /\ i' = i + 1
  /\ UNCHANGED <<call, sign, cursor, length, stored, phase>>

\* OK(np_integer_result, v * sign, length), and the assignment of .ok to the
\* int of the node when lalr_reduce is the caller.
Return ==
  /\ phase = "sum"
  /\ i = length
  /\ v' = Wrapped(v * sign, LongLimit)
  /\ stored' = IF call.entry = "lalr" THEN ToInt(v') ELSE 0
  /\ phase' = "done"
  /\ UNCHANGED <<call, sign, cursor, length, i>>

Terminated == phase = "done" /\ UNCHANGED vars

Next == Prefix \/ Sign \/ Scan \/ Sum \/ Return \/ Terminated

Spec == Init /\ [][Next]_vars
FairSpec == Spec /\ WF_vars(Next)

-----------------------------------------------------------------------------
(* Properties. *)

\* The value of a digit in the usual notation, of either case.
DigitValue(c) ==
  CASE c \in 48..57 -> c - 48
    [] c \in 97..122 -> c - 97 + 10
    [] c \in 65..90 -> c - 65 + 10
    [] OTHER -> 36

\* The number of digits at position c, and the value the first n have, most
\* significant digit first.
Numeral(text, c, base) ==
  CHOOSE n \in 0..Len(text) :
    /\ \A k \in 0..(n - 1) : DigitValue(CharAt(text, c + k)) < base
    /\ DigitValue(CharAt(text, c + n)) >= base

Positional(text, c, base, n) ==
  LET upTo[k \in Nat] ==
        IF k = 0 THEN 0 ELSE upTo[k - 1] * base + DigitValue(CharAt(text, c + k - 1))
  IN upTo[n]

Digits == Numeral(call.text, cursor, call.base)
Reading == sign * Positional(call.text, cursor, call.base, Digits)

\* The calls in which every digit is one to the code: above base 10 decimal
\* digits and letters of upper case are not, and only the 0 of 0x may occur.
OneKindOfDigits(calls) ==
  \A c \in calls : c.base > 10 =>
    \A k \in 1..Len(c.text) : c.text[k] \in (48..57) \cup (65..90) =>
      c.entry = "hex" /\ k = 1 /\ c.text[k] = 48 /\ CharAt(c.text, 1) = 120

Ints == -IntLimit..(IntLimit - 1)

\* The weight of the first digit and the number are no more than a double holds.
HeldExactly ==
  Digits > 0 =>
    /\ Power(call.base, Digits - 1) <= DoubleLimit
    /\ sign * Reading <= DoubleLimit

TypeOK ==
  /\ call \in Calls
  /\ sign \in {-1, 1}
  /\ cursor \in 0..3
  /\ length \in 0..(Len(call.text) - cursor)
  /\ i \in 0..length
  /\ v \in Longs
  /\ stored \in Ints
  /\ phase \in {"prefix", "sign", "scan", "sum", "done"}

\* Scanning stops behind the last digit, the sum over powers is the number the
\* digits spell in positional notation if a double holds that, and a literal
\* whose value fits an int, too, has that value in its node.
ReadsNumber ==
  phase = "done" =>
    /\ length = Digits
    /\ HeldExactly => v = Reading
    /\ HeldExactly /\ call.entry = "lalr" /\ Reading \in Ints => stored = Reading

\* While the digits of such a number are added up, what has been added is a
\* multiple of the weight of the last digit added, and what is missing is less
\* than that: no step is rounded.
SumConverges ==
  phase = "sum" /\ HeldExactly =>
    LET weight == Power(call.base, length - i)
    IN v % weight = 0 /\ sign * Reading - v \in 0..(weight - 1)

\* The call returns.
Termination == <>(phase = "done")
=============================================================================
