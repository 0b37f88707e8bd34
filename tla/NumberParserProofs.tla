------------------------- MODULE NumberParserProofs -------------------------
(***************************************************************************)
(* Theorems about the number parser, for every set of calls and all limits *)
(* of int, double and long.                                                *)
(***************************************************************************)
EXTENDS NumberParser, NaturalNumbers

-----------------------------------------------------------------------------
(* Powers. *)

\* The recursion of Power.
LEMMA PowerSteps ==
  ASSUME NEW b \in Nat
  PROVE  /\ Power(b, 0) = 1
         /\ \A n \in Nat : Power(b, n + 1) = b * Power(b, n)
<1> DEFINE Solves(p) == p = [k \in Nat |-> IF k = 0 THEN 1 ELSE b * p[k - 1]]
           step == [x \in Nat \X Nat |-> b * x[1]]
           p == CHOOSE q : Solves(q)
<1>1. step \in [Nat \X Nat -> Nat]
  OBVIOUS
<1>2. PICK f : Follows(f, Nat, 1, step)
  <2> HIDE DEF step
  <2> QED BY <1>1, Defined, 1 \in Nat
<1>3. \A k \in Nat : f[k] = IF k = 0 THEN 1 ELSE b * f[k - 1]
  <2> TAKE k \in Nat
  <2>1. CASE k = 0
    BY <1>2, <2>1 DEF Follows
  <2>2. CASE k # 0
    <3>1. k - 1 \in Nat /\ f[k - 1] \in Nat
      BY <1>2, <2>2 DEF Follows
    <3>2. f[k] = step[<<f[k - 1], k - 1>>]
      BY <1>2, <2>2 DEF Follows
    <3>3. f[k] = b * f[k - 1]
      BY <3>1, <3>2
    <3> QED BY <2>2, <3>3
  <2> QED BY <2>1, <2>2
<1>4. Solves(f)
  BY <1>2, <1>3 DEF Follows
<1>5. Solves(p)
  <2> HIDE DEF Solves
  <2> QED BY <1>4
<1>6. \A n \in Nat : Power(b, n) = p[n]
  BY DEF Power
<1> HIDE DEF p
<1>7. p[0] = 1 /\ \A n \in Nat : p[n + 1] = b * p[n]
  <2>1. \A k \in Nat : p[k] = IF k = 0 THEN 1 ELSE b * p[k - 1]
    BY <1>5
  <2> QED BY <2>1
<1> QED BY <1>6, <1>7

\* A power is positive.
LEMMA PowerPositive ==
  ASSUME NEW b \in Nat \ {0}
  PROVE  \A n \in Nat : Power(b, n) \in Nat \ {0}
<1> DEFINE T == {n \in Nat : Power(b, n) \in Nat \ {0}}
<1>1. 0 \in T
  BY PowerSteps
<1>2. ASSUME NEW n \in T PROVE n + 1 \in T
  <2>1. Power(b, n + 1) = b * Power(b, n)
    BY PowerSteps
  <2> DEFINE p == Power(b, n)
  <2>2. p \in Nat \ {0}
    OBVIOUS
  <2> HIDE DEF p
  <2>3. b * p \in Nat \ {0}
    BY <2>2
  <2> QED BY <2>1, <2>3 DEF p
<1> HIDE DEF T
<1>3. Nat \subseteq T
  BY <1>1, <1>2, Induction
<1> QED BY <1>3 DEF T

\* A higher power is not less.
LEMMA PowerGrows ==
  ASSUME NEW b \in Nat \ {0}, NEW m \in Nat
  PROVE  \A j \in Nat : Power(b, m) <= Power(b, m + j)
<1> DEFINE W == [k \in Nat |-> Power(b, k)]
           T == {j \in Nat : W[m] <= W[m + j]}
<1>1. \A k \in Nat : W[k] \in Nat \ {0} /\ W[k + 1] = b * W[k]
  <2>1. b \in Nat /\ \A k \in Nat : k + 1 \in Nat
    OBVIOUS
  <2> QED BY <2>1, PowerSteps, PowerPositive, Zenon
<1> HIDE DEF W
<1>2. 0 \in T
  <2>1. m + 0 = m /\ W[m] \in Nat
    BY <1>1
  <2> QED BY <2>1
<1>3. ASSUME NEW j \in T PROVE j + 1 \in T
  <2>1. j \in Nat /\ m + j \in Nat /\ m + (j + 1) = (m + j) + 1 /\ W[m] <= W[m + j]
    OBVIOUS
  <2> DEFINE w == W[m + j]
  <2>2. w \in Nat \ {0} /\ W[m + (j + 1)] = b * w /\ W[m] \in Nat
    BY <1>1, <2>1
  <2> HIDE DEF w
  <2>3. w <= b * w
    BY <2>2
  <2>4. W[m] <= W[m + (j + 1)]
    BY <2>1, <2>2, <2>3 DEF w
  <2> QED BY <2>1, <2>4
<1> HIDE DEF T
<1>4. Nat \subseteq T
  BY <1>2, <1>3, Induction
<1>5. \A j \in Nat : W[m] <= W[m + j]
  BY <1>4 DEF T
<1>6. \A j \in Nat : m + j \in Nat
  OBVIOUS
<1>7. \A k \in Nat : W[k] = Power(b, k)
  BY Zenon DEF W
<1> QED BY <1>5, <1>6, <1>7, Zenon

-----------------------------------------------------------------------------
(* Conversions. *)

\* What fits is left alone, and nothing leaves the range.
LEMMA Wraps ==
  ASSUME NEW h \in Nat \ {0}, NEW x \in Int
  PROVE  Wrapped(x, h) \in (-h)..(h - 1) /\ (x \in (-h)..(h - 1) => Wrapped(x, h) = x)
<1> DEFINE m == x % (2 * h)
<1>1. Wrapped(x, h) = IF m >= h THEN m - 2 * h ELSE m
  BY DEF Wrapped
<1>2. 2 * h \in Nat \ {0}
  OBVIOUS
<1>3. m \in 0..(2 * h - 1)
  BY <1>2
<1>4. x \in 0..(h - 1) => m = x
  BY <1>2
<1>5. x \in (-h)..(-1) => m = x + 2 * h
  BY <1>2
<1> HIDE DEF m
<1>6. Wrapped(x, h) \in (-h)..(h - 1)
  BY <1>1, <1>3
<1>7. x \in (-h)..(h - 1) => Wrapped(x, h) = x
  BY <1>1, <1>4, <1>5
<1> QED BY <1>6, <1>7

\* The int the node holds, and the long that is returned.
LEMMA Converted ==
  ASSUME NEW x \in Int
  PROVE  /\ ToInt(x) \in Ints /\ (x \in Ints => ToInt(x) = x)
         /\ Wrapped(x, LongLimit) \in Longs /\ (x \in Longs => Wrapped(x, LongLimit) = x)
<1>1. IntLimit \in Nat \ {0} /\ LongLimit \in Nat \ {0}
  BY LimitsAssumption
<1> QED BY <1>1, Wraps DEF ToInt, Ints, Longs

\* Whatever a double is, a long is made of it.
LEMMA LongAnswered ==
  ASSUME NEW x
  PROVE  ToLong(x) \subseteq Longs /\ (x \in Longs => ToLong(x) = {x})
<1>1. -LongLimit \in Longs /\ LongLimit - 1 \in Longs
  BY LimitsAssumption DEF Longs
<1> QED BY <1>1, Zenon DEF ToLong

\* An integer that a double holds is one.
LEMMA DoubleExact ==
  ASSUME NEW x \in Int, -DoubleLimit <= x, x <= DoubleLimit
  PROVE  Double[x] = x
<1>1. DoubleLimit \in Nat
  BY LimitsAssumption
<1>2. x \in -DoubleLimit..DoubleLimit
  BY <1>1
<1> QED BY <1>2 DEF Double

\* Zero is an int and a long.
LEMMA ZeroFits == 0 \in Ints /\ 0 \in Longs
  BY LimitsAssumption DEF Ints, Longs

-----------------------------------------------------------------------------
(* Characters, digits and what they spell. *)

LEMMA CharType ==
  ASSUME NEW text \in Seq(Codes), NEW k \in Nat
  PROVE  /\ CharAt(text, k) \in 0..127
         /\ CharAt(text, k) = 0 <=> k >= Len(text)
<1>1. CASE k < Len(text)
  <2>1. CharAt(text, k) \in Codes
    BY <1>1 DEF CharAt
  <2> DEFINE x == CharAt(text, k)
  <2>2. x \in 1..127
    BY <2>1 DEF Codes
  <2> HIDE DEF x
  <2>3. x \in 0..127 /\ x # 0
    BY <2>2
  <2>4. ~(k >= Len(text))
    BY <1>1
  <2> QED BY <2>3, <2>4 DEF x
<1>2. CASE ~(k < Len(text))
  BY <1>2 DEF CharAt
<1> QED BY <1>1, <1>2

\* A digit of the other kind is in the text.
LEMMA OtherInText ==
  ASSUME NEW text \in Seq(Codes), NEW k \in Nat,
         CharAt(text, k) \in (48..57) \cup (65..90)
  PROVE  k + 1 \in 1..Len(text) /\ text[k + 1] \in (48..57) \cup (65..90)
<1>1. CharAt(text, k) # 0
  <2>1. 0 \notin (48..57) \cup (65..90)
    OBVIOUS
  <2> QED BY <2>1, Zenon
<1>2. ~(k >= Len(text))
  BY <1>1, CharType, Zenon
<1>3. k < Len(text) /\ k + 1 \in 1..Len(text)
  BY <1>2
<1>4. CharAt(text, k) = text[k + 1]
  BY <1>3, Zenon DEF CharAt
<1> QED BY <1>3, <1>4, Zenon

LEMMA DigitRange ==
  ASSUME NEW x \in Int
  PROVE  DigitValue(x) \in 0..36
  BY DEF DigitValue

\* The digits from position c on, as a function.
DigitsFrom(text, c) == [k \in Nat |-> DigitValue(CharAt(text, c + k))]

LEMMA DigitsType ==
  ASSUME NEW text \in Seq(Codes), NEW c \in Nat
  PROVE  DigitsFrom(text, c) \in [Nat -> Nat]
<1>1. ASSUME NEW k \in Nat PROVE DigitValue(CharAt(text, c + k)) \in Nat
  <2> DEFINE x == CharAt(text, c + k)
  <2>1. c + k \in Nat
    OBVIOUS
  <2>2. x \in 0..127
    BY <2>1, CharType
  <2> HIDE DEF x
  <2>3. x \in Int
    BY <2>2
  <2>4. DigitValue(x) \in Nat
    <3>1. DigitValue(x) \in 0..36
      BY <2>3, DigitRange
    <3> DEFINE y == DigitValue(x)
    <3>2. y \in 0..36
      BY <3>1
    <3> HIDE DEF y
    <3>3. y \in Nat
      BY <3>2
    <3> QED BY <3>3 DEF y
  <2> QED BY <2>4 DEF x
<1> QED BY <1>1, Zenon DEF DigitsFrom

\* The recursion of Positional.
LEMMA PositionalSteps ==
  ASSUME NEW text \in Seq(Codes), NEW c \in Nat, NEW base \in Nat
  PROVE  /\ Positional(text, c, base, 0) = 0
         /\ \A n \in Nat :
              /\ Positional(text, c, base, n) \in Nat
              /\ Positional(text, c, base, n + 1) =
                   Positional(text, c, base, n) * base + DigitsFrom(text, c)[n]
<1> DEFINE d == DigitsFrom(text, c)
           Solves(p) == p = [k \in Nat |-> IF k = 0 THEN 0 ELSE p[k - 1] * base + DigitValue(CharAt(text, c + k - 1))]
           step == [x \in Nat \X Nat |-> x[1] * base + d[x[2]]]
           p == CHOOSE q : Solves(q)
<1>1. \A k \in Nat \ {0} : DigitValue(CharAt(text, c + k - 1)) = d[k - 1]
  <2>1. \A k \in Nat \ {0} : k - 1 \in Nat /\ c + (k - 1) = c + k - 1
    OBVIOUS
  <2> QED BY <2>1, Zenon DEF DigitsFrom
<1>2. d \in [Nat -> Nat]
  BY DigitsType
<1> HIDE DEF d
<1>3. \A k \in Nat : d[k] \in Nat
  BY <1>2
<1>4. step \in [Nat \X Nat -> Nat]
  <2>1. ASSUME NEW x \in Nat \X Nat PROVE x[1] * base + d[x[2]] \in Nat
    <3>1. x[1] \in Nat /\ x[2] \in Nat
      OBVIOUS
    <3>2. d[x[2]] \in Nat
      BY <1>3, <3>1
    <3> DEFINE y == d[x[2]]
               z == x[1]
    <3>3. y \in Nat /\ z \in Nat
      BY <3>1, <3>2
    <3> HIDE DEF y, z
    <3>4. z * base + y \in Nat
      BY <3>3
    <3> QED BY <3>4 DEF y, z
  <2> QED BY <2>1, Zenon
<1>5. PICK f : Follows(f, Nat, 0, step)
  <2> HIDE DEF step
  <2> QED BY <1>4, Defined, 0 \in Nat
<1>6. \A k \in Nat : f[k] = IF k = 0 THEN 0 ELSE f[k - 1] * base + DigitValue(CharAt(text, c + k - 1))
  <2> TAKE k \in Nat
  <2>1. CASE k = 0
    BY <1>5, <2>1 DEF Follows
  <2>2. CASE k # 0
    <3>1. k - 1 \in Nat /\ f[k - 1] \in Nat
      BY <1>5, <2>2 DEF Follows
    <3>2. f[k] = step[<<f[k - 1], k - 1>>]
      BY <1>5, <2>2 DEF Follows
    <3>3. f[k] = f[k - 1] * base + d[k - 1]
      BY <3>1, <3>2
    <3>4. d[k - 1] = DigitValue(CharAt(text, c + k - 1))
      BY <1>1, <2>2, Zenon
    <3> QED BY <2>2, <3>3, <3>4, Zenon
  <2> QED BY <2>1, <2>2
<1>7. Solves(f)
  <2>1. f \in [Nat -> Nat]
    BY <1>5 DEF Follows
  <2> QED BY <1>6, <2>1, Zenon
<1>8. Solves(p)
  <2> HIDE DEF Solves
  <2> QED BY <1>7
<1>9. \A n \in Nat : Positional(text, c, base, n) = p[n]
  BY DEF Positional
<1> HIDE DEF p
<1>10. \A k \in Nat : p[k] = IF k = 0 THEN 0 ELSE p[k - 1] * base + DigitValue(CharAt(text, c + k - 1))
  BY <1>8, Zenon
<1> HIDE DEF Solves
<1>11. p[0] = 0
  BY <1>10, Zenon, 0 \in Nat
<1>12. \A n \in Nat : p[n + 1] = p[n] * base + d[n]
  <2> TAKE n \in Nat
  <2>1. n + 1 \in Nat /\ n + 1 # 0 /\ n + 1 \in Nat \ {0} /\ (n + 1) - 1 = n
    OBVIOUS
  <2>2. p[n + 1] = p[(n + 1) - 1] * base + DigitValue(CharAt(text, c + (n + 1) - 1))
    BY <1>10, <2>1, Zenon
  <2>3. DigitValue(CharAt(text, c + (n + 1) - 1)) = d[(n + 1) - 1]
    BY <1>1, <2>1, Zenon
  <2> QED BY <2>1, <2>2, <2>3, Zenon
<1>13. \A n \in Nat : p[n] \in Nat
  <2> DEFINE T == {n \in Nat : p[n] \in Nat}
  <2>1. 0 \in T
    BY <1>11
  <2>2. ASSUME NEW n \in T PROVE n + 1 \in T
    <3>1. n \in Nat /\ p[n] \in Nat /\ d[n] \in Nat
      BY <1>3
    <3>2. p[n] * base + d[n] \in Nat
      BY <3>1
    <3>3. p[n + 1] \in Nat
      BY <1>12, <3>1, <3>2, Zenon
    <3> QED BY <3>1, <3>3
  <2> HIDE DEF T
  <2>3. Nat \subseteq T
    BY <2>1, <2>2, Induction
  <2> QED BY <2>3 DEF T
<1>14. \A n \in Nat : n + 1 \in Nat
  OBVIOUS
<1> QED BY <1>9, <1>11, <1>12, <1>13, <1>14, 0 \in Nat, Zenon DEF d

\* n is the number of digits at c.
Ends(text, c, base, n) ==
  /\ \A k \in 0..(n - 1) : DigitsFrom(text, c)[k] < base
  /\ DigitsFrom(text, c)[n] >= base

\* The digits end at one place.
LEMMA OneEnd ==
  ASSUME NEW text \in Seq(Codes), NEW c \in Nat, NEW base \in Nat,
         NEW n \in 0..Len(text), Ends(text, c, base, n)
  PROVE  Numeral(text, c, base) = n
<1> DEFINE m == Numeral(text, c, base)
           d == DigitsFrom(text, c)
<1>1. d \in [Nat -> Nat]
  BY DigitsType
<1>2. m \in 0..Len(text) /\ Ends(text, c, base, m)
  <2>1. \E k \in 0..Len(text) : Ends(text, c, base, k)
    OBVIOUS
  <2> DEFINE Choice(k) == /\ \A j \in 0..(k - 1) : DigitValue(CharAt(text, c + j)) < base
                          /\ DigitValue(CharAt(text, c + k)) >= base
  <2>2. \A k \in 0..Len(text) : Ends(text, c, base, k) <=> Choice(k)
    <3> TAKE k \in 0..Len(text)
    <3>1. k \in Nat /\ \A j \in 0..(k - 1) : j \in Nat
      OBVIOUS
    <3>2. \A j \in Nat : d[j] = DigitValue(CharAt(text, c + j))
      BY Zenon DEF DigitsFrom
    <3> QED BY <3>1, <3>2, Zenon DEF Ends
  <2>3. m = CHOOSE k \in 0..Len(text) : Choice(k)
    BY Zenon DEF Numeral
  <2> HIDE DEF m, Choice
  <2> QED BY <2>1, <2>2, <2>3
<1>3. /\ \A k \in 0..(n - 1) : d[k] < base
      /\ \A k \in 0..(m - 1) : d[k] < base
      /\ d[n] >= base /\ d[m] >= base
  BY <1>2 DEF Ends
<1>4. \A k \in Nat : d[k] \in Nat
  BY <1>1
<1> HIDE DEF d, m
<1>5. ~(m < n)
  BY <1>2, <1>3, <1>4
<1>6. ~(n < m)
  BY <1>2, <1>3, <1>4
<1> QED BY <1>2, <1>5, <1>6 DEF m
-----------------------------------------------------------------------------
(* What the code takes for a digit. *)

\* The code's test agrees with the usual notation where the digits are of one
\* kind, and there it reads the digit's value.
LEMMA DigitsAgree ==
  ASSUME NEW x \in 0..127, NEW base \in 2..36,
         base > 10 => x \notin (48..57) \cup (65..90)
  PROVE  /\ (x # 0 /\ IsValidBase(x, base) /\ ~IsSpace(x)) <=> DigitValue(x) < base
         /\ DigitValue(x) < base => Digit(x) = DigitValue(x)
<1>1. CASE base <= 10
  BY <1>1 DEF IsValidBase, IsSpace, DigitValue, Digit, ToLower, IsAlpha
<1>2. CASE base > 10
  BY <1>2 DEF IsValidBase, IsSpace, DigitValue, Digit, ToLower, IsAlpha
<1> QED BY <1>1, <1>2

LEMMA DigitType ==
  ASSUME NEW x \in Int
  PROVE  Digit(x) \in Int
  BY DEF Digit

-----------------------------------------------------------------------------
(* Types. *)

\* Where the cursor stands before the digits are scanned, and that nothing is
\* counted or stored before its time.
Places ==
  /\ phase = "prefix" => cursor = 0
  /\ phase = "sign" => cursor \in {0, 2}
  /\ phase \in {"prefix", "sign"} => length = 0 /\ sign = 1
  /\ phase \in {"prefix", "sign", "scan"} => i = 0 /\ v = 0
  /\ cursor <= Len(call.text)

NumberTyped == TypeOK /\ Places

LEMMA CallType ==
  ASSUME TypeOK
  PROVE  /\ call.entry \in {"plain", "lalr", "hex"} /\ call.text \in Seq(Codes)
         /\ call.base \in 2..36 /\ call.base \in Nat \ {0} /\ Len(call.text) \in Nat
         /\ cursor \in Nat /\ length \in Nat /\ i \in 0..length /\ v \in Int /\ sign \in {-1, 1}
         /\ cursor + length <= Len(call.text)
<1>1. call \in Calls /\ cursor \in 0..3 /\ length \in 0..(Len(call.text) - cursor)
      /\ i \in 0..length /\ v \in Longs /\ sign \in {-1, 1}
  BY DEF TypeOK
<1>6. v \in Int
  BY <1>1, LimitsAssumption DEF Longs
<1>2. /\ call.entry \in {"plain", "lalr", "hex"}
      /\ call.text \in Seq(Codes)
      /\ call.base \in 2..36
  BY <1>1, CallsAssumption
<1>3. Len(call.text) \in Nat
  BY <1>2
<1>4. call.base \in Nat \ {0}
  <2>1. \A b \in 2..36 : b \in Nat \ {0}
    OBVIOUS
  <2> QED BY <1>2, <2>1, Zenon
<1>5. cursor \in Nat /\ length \in Nat /\ cursor + length <= Len(call.text)
  BY <1>1, <1>3
<1> QED BY <1>1, <1>2, <1>3, <1>4, <1>5, <1>6, Zenon

LEMMA NumberTypedInit == Init => NumberTyped
<1> SUFFICES ASSUME Init PROVE NumberTyped
  OBVIOUS
<1>1. call \in Calls /\ call.text \in Seq(Codes)
  BY CallsAssumption DEF Init
<1>2. Len(call.text) \in Nat
  BY <1>1
<1>3. TypeOK
  BY <1>1, <1>2, ZeroFits DEF Init, TypeOK
<1>4. Places
  BY <1>2 DEF Init, Places
<1> QED BY <1>3, <1>4 DEF NumberTyped

LEMMA NumberTypedNext == NumberTyped /\ [Next]_vars => NumberTyped'
<1> SUFFICES ASSUME NumberTyped, [Next]_vars PROVE NumberTyped'
  OBVIOUS
<1>t. TypeOK /\ Places
  BY DEF NumberTyped
<1>c. /\ call.text \in Seq(Codes) /\ call.base \in Nat \ {0} /\ Len(call.text) \in Nat
      /\ cursor \in Nat /\ length \in Nat /\ i \in 0..length /\ v \in Int /\ sign \in {-1, 1}
      /\ cursor + length <= Len(call.text)
  BY <1>t, CallType, Zenon
<1>k. \A k \in Nat : /\ Char(k) \in Int
                     /\ Char(k) # 0 <=> k < Len(call.text)
  <2> TAKE k \in Nat
  <2> DEFINE x == CharAt(call.text, k)
  <2>1. x \in 0..127 /\ (x = 0 <=> k >= Len(call.text))
    BY <1>c, CharType
  <2> HIDE DEF x
  <2>2. x \in Int /\ (x # 0 <=> k < Len(call.text))
    BY <1>c, <2>1
  <2> QED BY <2>2 DEF Char, x
<1>1. CASE Prefix
  <2>1. phase = "prefix" /\ phase' = "sign" /\ UNCHANGED <<call, sign, length, i, v, stored>>
        /\ cursor' \in {0, 2} /\ (cursor' = 2 => Char(1) = 120)
    BY <1>1 DEF Prefix
  <2>2. cursor' = 2 => 1 < Len(call.text)
    BY <1>k, <2>1
  <2>3. cursor' <= Len(call.text) /\ length = 0
    BY <1>c, <1>t, <2>1, <2>2 DEF Places
  <2>4. TypeOK'
    BY <1>c, <1>t, <2>1, <2>3 DEF TypeOK
  <2>5. Places'
    BY <1>t, <2>1, <2>3 DEF Places
  <2> QED BY <2>4, <2>5 DEF NumberTyped
<1>2. CASE Sign
  <2>1. phase = "sign" /\ phase' = "scan" /\ UNCHANGED <<call, length, i, v, stored>>
        /\ (\/ Char(cursor) = 45 /\ sign' = -1 /\ cursor' = cursor + 1
            \/ sign' = sign /\ cursor' = cursor)
    BY <1>2 DEF Sign
  <2>2. cursor \in {0, 2} /\ length = 0 /\ i = 0 /\ v = 0 /\ cursor <= Len(call.text)
    BY <1>t, <2>1 DEF Places
  <2>3. cursor' \in 0..3 /\ cursor' <= Len(call.text) /\ sign' \in {-1, 1}
    <3>1. Char(cursor) = 45 => cursor < Len(call.text)
      BY <1>c, <1>k
    <3> QED BY <1>c, <2>1, <2>2, <3>1
  <2>4. TypeOK'
    BY <1>c, <1>t, <2>1, <2>2, <2>3 DEF TypeOK
  <2>5. Places'
    BY <2>1, <2>2, <2>3 DEF Places
  <2> QED BY <2>4, <2>5 DEF NumberTyped
<1>3. CASE Scan
  <2>1. phase = "scan" /\ phase' \in {"scan", "sum"} /\ UNCHANGED <<call, sign, cursor, i, v, stored>>
        /\ (\/ Char(cursor + length) # 0 /\ length' = length + 1
            \/ length' = length)
    BY <1>3 DEF Scan
  <2>2. i = 0 /\ v = 0 /\ cursor <= Len(call.text)
    BY <1>t, <2>1 DEF Places
  <2>3. length' \in Nat /\ cursor + length' <= Len(call.text)
    <3>1. cursor + length \in Nat
      BY <1>c
    <3>2. Char(cursor + length) # 0 => cursor + length < Len(call.text)
      BY <1>k, <3>1
    <3> QED BY <1>c, <2>1, <3>2
  <2>4. TypeOK'
    BY <1>c, <1>t, <2>1, <2>2, <2>3 DEF TypeOK
  <2>5. Places'
    BY <2>1, <2>2 DEF Places
  <2> QED BY <2>4, <2>5 DEF NumberTyped
<1>4. CASE Sum
  <2>1. phase = "sum" /\ i < length /\ i' = i + 1
        /\ UNCHANGED <<call, sign, cursor, length, stored, phase>>
    BY <1>4 DEF Sum
  <2>2. v' \in Longs
    BY <1>4, LongAnswered DEF Sum, Plus
  <2>3. i' \in 0..length
    BY <1>c, <2>1
  <2>4. TypeOK'
    BY <1>t, <2>1, <2>2, <2>3 DEF TypeOK, Longs
  <2>5. Places'
    BY <1>t, <2>1 DEF Places
  <2> QED BY <2>4, <2>5 DEF NumberTyped
<1>5. CASE Return
  <2>1. phase = "sum" /\ phase' = "done" /\ v' = Wrapped(v * sign, LongLimit) /\ stored' \in {ToInt(v'), 0}
        /\ UNCHANGED <<call, sign, cursor, length, i>>
    BY <1>5 DEF Return
  <2>2. v * sign \in Int
    BY <1>c
  <2>3. v' \in Longs
    BY <2>1, <2>2, Converted
  <2>4. v' \in Int
    BY <2>3, LimitsAssumption DEF Longs
  <2>5. stored' \in Ints
    BY <2>1, <2>4, Converted, ZeroFits
  <2>6. Ints' = Ints /\ Longs' = Longs
    BY DEF Ints, Longs
  <2>7. TypeOK'
    BY <1>t, <2>1, <2>3, <2>5, <2>6 DEF TypeOK
  <2>8. Places'
    BY <1>t, <2>1 DEF Places
  <2> QED BY <2>7, <2>8 DEF NumberTyped
<1>6. CASE Terminated \/ UNCHANGED vars
  <2>1. UNCHANGED vars
    BY <1>6 DEF Terminated
  <2>2. TypeOK' /\ Places'
    BY <1>t, <2>1 DEF TypeOK, Places, vars
  <2> QED BY <2>2 DEF NumberTyped
<1> QED BY <1>1, <1>2, <1>3, <1>4, <1>5, <1>6 DEF Next

\* Every variable has its type: the cursor never passes the end of the text,
\* and what is stored in the node is an int.
THEOREM NumberTypeCorrect == Spec => []TypeOK
<1>1. Spec => []NumberTyped
  BY NumberTypedInit, NumberTypedNext, PTL DEF Spec
<1>2. NumberTyped => TypeOK
  BY DEF NumberTyped
<1> QED BY <1>1, <1>2, PTL
-----------------------------------------------------------------------------
(* What is left to add, and remainders. *)

LEMMA MultipleMod ==
  ASSUME NEW m \in Nat \ {0}, NEW k \in Int
  PROVE  (k * m) % m = 0
<1>1. (m * k) % m = 0
  OBVIOUS
<1>2. m * k = k * m
  OBVIOUS
<1> QED BY <1>1, <1>2

\* One more digit of what is left.
LEMMA OneMore ==
  ASSUME NEW u \in Int, NEW a \in Int, NEW w \in Nat \ {0}, NEW b \in Nat \ {0},
         NEW d \in 0..(b - 1), u - a \in 0..(w - 1)
  PROVE  (u * b + d) - a * b \in 0..(b * w - 1)
<1>1. (u * b + d) - a * b = (u - a) * b + d
  OBVIOUS
<1>2. (u - a) * b <= (w - 1) * b /\ (u - a) * b >= 0
  OBVIOUS
<1>3. (w - 1) * b + (b - 1) = b * w - 1
  OBVIOUS
<1> QED BY <1>1, <1>2, <1>3

\* The first i digits, moved up, are a number whose distance to the first n is
\* less than the weight they were moved by.
LEMMA WhatIsLeft ==
  ASSUME NEW text \in Seq(Codes), NEW c \in Nat, NEW base \in Nat \ {0}, NEW n \in Nat,
         NEW i0 \in 0..n, \A k \in 0..(n - 1) : DigitsFrom(text, c)[k] < base
  PROVE  Positional(text, c, base, n) - Positional(text, c, base, i0) * Power(base, n - i0)
           \in 0..(Power(base, n - i0) - 1)
<1> DEFINE R == [k \in Nat |-> Positional(text, c, base, k)]
           W == [k \in Nat |-> Power(base, k)]
           d == DigitsFrom(text, c)
           T == {j \in Nat : i0 + j <= n => R[i0 + j] - R[i0] * W[j] \in 0..(W[j] - 1)}
<1>1. \A k \in Nat : R[k] \in Nat /\ R[k + 1] = R[k] * base + d[k]
  <2>1. base \in Nat /\ \A k \in Nat : k + 1 \in Nat
    OBVIOUS
  <2>2. \A k \in Nat : /\ Positional(text, c, base, k) \in Nat
                       /\ Positional(text, c, base, k + 1) = Positional(text, c, base, k) * base + d[k]
    BY <2>1, PositionalSteps, Zenon
  <2> HIDE DEF d
  <2> QED BY <2>1, <2>2, Zenon
<1>2. W[0] = 1 /\ \A k \in Nat : W[k + 1] = base * W[k]
  <2>1. \A k \in Nat : k + 1 \in Nat
    OBVIOUS
  <2>2. 0 \in Nat /\ base \in Nat
    OBVIOUS
  <2> QED BY <2>1, <2>2, PowerSteps, Zenon
<1>3. \A k \in Nat : W[k] \in Nat \ {0}
  BY PowerPositive, Zenon
<1>4. \A k \in Nat : d[k] \in Nat
  BY DigitsType
<1>5. \A k \in 0..(n - 1) : d[k] < base
  OBVIOUS
<1> HIDE DEF R, W, d
<1>6. 0 \in T
  <2>1. R[i0] - R[i0] * 1 \in 0..0
    <3>1. R[i0] \in Nat
      BY <1>1
    <3> QED BY <3>1
  <2>2. i0 + 0 = i0
    OBVIOUS
  <2>3. R[i0] - R[i0] * W[0] \in 0..(W[0] - 1)
    <3>1. 1 - 1 = 0
      OBVIOUS
    <3> QED BY <1>2, <2>1, <3>1, Zenon
  <2>4. R[i0 + 0] - R[i0] * W[0] \in 0..(W[0] - 1)
    BY <2>2, <2>3, Zenon
  <2>5. 0 \in Nat
    OBVIOUS
  <2> QED BY <2>4, <2>5, Zenon
<1>7. ASSUME NEW j \in T PROVE j + 1 \in T
  <2> SUFFICES ASSUME i0 + (j + 1) <= n
               PROVE  R[i0 + (j + 1)] - R[i0] * W[j + 1] \in 0..(W[j + 1] - 1)
    OBVIOUS
  <2>1. j \in Nat /\ i0 + j \in 0..(n - 1) /\ i0 + j \in Nat /\ i0 \in Nat
    OBVIOUS
  <2>2. R[i0 + j] - R[i0] * W[j] \in 0..(W[j] - 1)
    BY <2>1
  <2>3. d[i0 + j] \in 0..(base - 1)
    BY <1>4, <1>5, <2>1
  <2> DEFINE u == R[i0 + j]
             r == R[i0]
             w == W[j]
             e == d[i0 + j]
             a == r * w
  <2>4. u \in Int /\ r \in Int /\ w \in Nat \ {0} /\ e \in 0..(base - 1)
    <3>1. \A x \in Nat : x \in Int
      OBVIOUS
    <3>2. u \in Nat /\ r \in Nat
      BY <1>1, <2>1, Zenon
    <3>3. w \in Nat \ {0}
      BY <1>3, <2>1, Zenon
    <3> QED BY <2>3, <3>1, <3>2, <3>3, Zenon
  <2>5. R[i0 + (j + 1)] = u * base + e
    <3>1. i0 + (j + 1) = (i0 + j) + 1
      BY <2>1
    <3> QED BY <1>1, <2>1, <3>1
  <2>6. W[j + 1] = base * w
    BY <1>2, <2>1
  <2>7. u - a \in 0..(w - 1)
    BY <2>2
  <2> HIDE DEF u, r, w, e
  <2>8. a \in Int
    BY <2>4
  <2>9. r * (base * w) = a * base
    BY <2>4
  <2> HIDE DEF a
  <2>10. (u * base + e) - a * base \in 0..(base * w - 1)
    BY <2>4, <2>7, <2>8, OneMore
  <2> QED BY <2>5, <2>6, <2>9, <2>10 DEF r
<1> HIDE DEF T
<1>8. Nat \subseteq T
  BY <1>6, <1>7, Induction
<1>9. n - i0 \in Nat /\ i0 + (n - i0) = n /\ i0 \in Nat
  OBVIOUS
<1>10. R[n] - R[i0] * W[n - i0] \in 0..(W[n - i0] - 1)
  <2>1. n - i0 \in T
    BY <1>8, <1>9
  <2> QED BY <1>9, <2>1 DEF T
<1> QED BY <1>9, <1>10 DEF R, W
-----------------------------------------------------------------------------
(* The invariant. *)

\* What the first n digits of the call say.
Read(n) == Positional(call.text, cursor, call.base, n)
DigitAt(k) == DigitsFrom(call.text, cursor)[k]

\* Behind the prefix, every digit is one to the code.
OneKindLeft ==
  phase # "prefix" => \A k \in Nat :
    k >= cursor /\ call.base > 10 => Char(k) \notin (48..57) \cup (65..90)

\* What was counted are digits, and scanning stops behind the last.
Scanned ==
  /\ \A k \in 0..(length - 1) : DigitAt(k) < call.base
  /\ phase \in {"sum", "done"} => DigitAt(length) >= call.base

\* The weight of the first digit and the number are doubles.
Held ==
  length > 0 => Power(call.base, length - 1) <= DoubleLimit /\ Read(length) <= DoubleLimit

\* v is what the digits added say, in the weight of the last one added.
Summed ==
  /\ phase = "sum" /\ Held => v = Read(i) * Power(call.base, length - i)
  /\ phase = "done" /\ Held => v = sign * Read(length)
  /\ phase = "done" /\ call.entry = "lalr" => stored = ToInt(v)

NumberInv == NumberTyped /\ OneKindLeft /\ Scanned /\ Summed

\* At a position the code's digit is the usual one.
LEMMA DigitHere ==
  ASSUME NumberTyped, OneKindLeft, phase # "prefix", NEW k \in Nat
  PROVE  LET x == Char(cursor + k)
         IN /\ (x # 0 /\ IsValidBase(x, call.base) /\ ~IsSpace(x)) <=> DigitAt(k) < call.base
            /\ DigitAt(k) < call.base => Digit(x) = DigitAt(k)
<1> DEFINE x == Char(cursor + k)
<1>1. /\ call.text \in Seq(Codes) /\ call.base \in 2..36 /\ cursor \in Nat
  BY CallType, Zenon DEF NumberTyped
<1>2. cursor + k \in Nat /\ cursor + k >= cursor
  BY <1>1
<1>3. x \in 0..127
  BY <1>1, <1>2, CharType, Zenon DEF Char
<1>4. call.base > 10 => x \notin (48..57) \cup (65..90)
  BY <1>2, Zenon DEF OneKindLeft
<1>5. DigitAt(k) = DigitValue(x)
  BY Zenon DEF DigitAt, DigitsFrom, Char
<1> HIDE DEF x
<1>6. /\ (x # 0 /\ IsValidBase(x, call.base) /\ ~IsSpace(x)) <=> DigitValue(x) < call.base
      /\ DigitValue(x) < call.base => Digit(x) = DigitValue(x)
  BY <1>1, <1>3, <1>4, DigitsAgree, Zenon
<1> QED BY <1>5, <1>6, Zenon DEF x

LEMMA NumberInvInit ==
  ASSUME OneKindOfDigits(Calls), Init
  PROVE  NumberInv
<1>1. NumberTyped
  BY NumberTypedInit
<1>2. /\ call.text \in Seq(Codes) /\ call.base \in 2..36 /\ Len(call.text) \in Nat
  BY <1>1, CallType, Zenon DEF NumberTyped
<1>3. cursor = 0 /\ length = 0 /\ call \in Calls
      /\ (phase # "prefix" => phase = "sign" /\ call.entry # "hex")
  BY DEF Init
<1>4. OneKindLeft
  <2> SUFFICES ASSUME phase # "prefix", NEW k \in Nat, call.base > 10,
                      Char(k) \in (48..57) \cup (65..90)
               PROVE FALSE
    BY DEF OneKindLeft
  <2>2. k + 1 \in 1..Len(call.text) /\ call.text[k + 1] \in (48..57) \cup (65..90)
    BY <1>2, OtherInText, Zenon DEF Char
  <2>3. call.entry = "hex"
    BY <1>3, <2>2, Zenon DEF OneKindOfDigits
  <2> QED BY <1>3, <2>3
<1>5. Scanned
  <2>1. 0..(length - 1) = {}
    BY <1>3
  <2>2. phase \notin {"sum", "done"}
    BY DEF Init
  <2> QED BY <2>1, <2>2, Zenon DEF Scanned
<1>6. Summed
  <2>1. phase # "sum" /\ phase # "done"
    BY DEF Init
  <2> QED BY <2>1, Zenon DEF Summed
<1> QED BY <1>1, <1>4, <1>5, <1>6 DEF NumberInv

\* Stepping over 0x leaves no decimal digit behind that counts as none.
LEMMA PrefixKeepsInv ==
  ASSUME OneKindOfDigits(Calls), NumberInv, Prefix
  PROVE  OneKindLeft' /\ Scanned' /\ Summed'
<1>1. /\ call.text \in Seq(Codes) /\ call.base \in 2..36 /\ Len(call.text) \in Nat /\ call \in Calls
  BY CallType, Zenon DEF NumberInv, NumberTyped, TypeOK
<1>2. /\ phase = "prefix" /\ phase' = "sign" /\ cursor = 0 /\ length = 0 /\ UNCHANGED <<call, length>>
      /\ cursor' = IF Char(0) = 48 /\ Char(1) = 120 THEN 2 ELSE 0
  BY DEF Prefix, NumberInv, NumberTyped, Places
<1>3. OneKindLeft'
  <2> SUFFICES ASSUME NEW k \in Nat, k >= cursor', call.base > 10,
                      CharAt(call.text, k) \in (48..57) \cup (65..90)
               PROVE FALSE
    BY <1>2 DEF OneKindLeft, Char
  <2>2. k + 1 \in 1..Len(call.text) /\ call.text[k + 1] \in (48..57) \cup (65..90)
    BY <1>1, OtherInText, Zenon
  <2>3. PICK j \in 1..Len(call.text) : j = k + 1
    BY <2>2
  <2>4. j = 1 /\ call.text[j] = 48 /\ CharAt(call.text, 1) = 120
    <3>1. \A m \in 1..Len(call.text) : call.text[m] \in (48..57) \cup (65..90) =>
            call.entry = "hex" /\ m = 1 /\ call.text[m] = 48 /\ CharAt(call.text, 1) = 120
      BY <1>1 DEF OneKindOfDigits
    <3>2. call.text[j] \in (48..57) \cup (65..90)
      BY <2>2, <2>3, Zenon
    <3> QED BY <2>3, <3>1, <3>2, Zenon
  <2>5. k = 0 /\ k < Len(call.text)
    BY <1>1, <2>3, <2>4
  <2>6. cursor' = 2
    <3>1. CharAt(call.text, 0) = 48
      BY <2>3, <2>4, <2>5 DEF CharAt
    <3> QED BY <1>2, <2>4, <3>1, Zenon DEF Char
  <2> QED BY <2>5, <2>6
<1>4. Scanned'
  <2>1. 0..(length' - 1) = {} /\ phase' \notin {"sum", "done"}
    BY <1>2
  <2> QED BY <2>1, Zenon DEF Scanned
<1>5. Summed'
  <2>1. phase' # "sum" /\ phase' # "done"
    BY <1>2
  <2> QED BY <2>1, Zenon DEF Summed
<1> QED BY <1>3, <1>4, <1>5

LEMMA SignKeepsInv ==
  ASSUME NumberInv, Sign
  PROVE  OneKindLeft' /\ Scanned' /\ Summed'
<1>1. /\ phase = "sign" /\ phase' = "scan" /\ length = 0 /\ UNCHANGED <<call, length>>
      /\ cursor \in Nat /\ cursor' \in {cursor, cursor + 1}
  BY CallType DEF Sign, NumberInv, NumberTyped, Places, TypeOK
<1>2. OneKindLeft'
  <2> SUFFICES ASSUME NEW k \in Nat, k >= cursor', call.base > 10
               PROVE CharAt(call.text, k) \notin (48..57) \cup (65..90)
    BY <1>1 DEF OneKindLeft, Char
  <2>1. k >= cursor
    BY <1>1
  <2>2. phase # "prefix"
    BY <1>1
  <2> QED BY <2>1, <2>2, Zenon DEF NumberInv, OneKindLeft, Char
<1>3. Scanned'
  <2>1. 0..(length' - 1) = {} /\ phase' \notin {"sum", "done"}
    BY <1>1
  <2> QED BY <2>1, Zenon DEF Scanned
<1>4. Summed'
  <2>1. phase' # "sum" /\ phase' # "done"
    BY <1>1
  <2> QED BY <2>1, Zenon DEF Summed
<1> QED BY <1>2, <1>3, <1>4
LEMMA ScanKeepsInv ==
  ASSUME NumberInv, Scan
  PROVE  OneKindLeft' /\ Scanned' /\ Summed'
<1> DEFINE x == Char(cursor + length)
           digit == x # 0 /\ IsValidBase(x, call.base) /\ ~IsSpace(x)
<1>1. /\ phase = "scan" /\ UNCHANGED <<call, cursor, i, v>>
      /\ \/ digit /\ length' = length + 1 /\ phase' = "scan"
         \/ ~digit /\ length' = length /\ phase' = "sum"
  BY DEF Scan
<1>2. digit <=> DigitAt(length) < call.base
  <2>1. NumberTyped /\ OneKindLeft /\ phase # "prefix" /\ length \in Nat
    BY <1>1, CallType DEF NumberInv, NumberTyped
  <2> QED BY <2>1, DigitHere, Zenon
<1> HIDE DEF digit
<1>3. /\ length \in Nat /\ call.base \in Nat /\ i = 0 /\ v = 0 /\ cursor \in Nat
      /\ call.text \in Seq(Codes)
  <2>1. i = 0 /\ v = 0
    BY <1>1 DEF NumberInv, NumberTyped, Places
  <2>2. length \in Nat /\ call.base \in Nat \ {0} /\ cursor \in Nat /\ call.text \in Seq(Codes)
    BY CallType, Zenon DEF NumberInv, NumberTyped
  <2> QED BY <2>1, <2>2
<1>4. OneKindLeft'
  <2> SUFFICES ASSUME NEW k \in Nat, k >= cursor, call.base > 10
               PROVE CharAt(call.text, k) \notin (48..57) \cup (65..90)
    BY <1>1 DEF OneKindLeft, Char
  <2>2. phase # "prefix"
    BY <1>1
  <2> QED BY <2>2, Zenon DEF NumberInv, OneKindLeft, Char
<1>5. DigitAt(length) \in Nat
  <2>1. DigitsFrom(call.text, cursor) \in [Nat -> Nat]
    BY <1>3, DigitsType
  <2> QED BY <1>3, <2>1 DEF DigitAt
<1>6. Scanned'
  <2> DEFINE d == DigitsFrom(call.text, cursor)
  <2>1. /\ \A k \in 0..(length - 1) : d[k] < call.base
        /\ digit <=> d[length] < call.base
        /\ d[length] \in Nat
    BY <1>2, <1>5, Zenon DEF NumberInv, Scanned, DigitAt
  <2>2. SUFFICES /\ \A k \in 0..(length' - 1) : d[k] < call.base
                 /\ phase' \in {"sum", "done"} => d[length'] >= call.base
    BY <1>1 DEF Scanned, DigitAt
  <2> HIDE DEF d
  <2>3. CASE digit
    <3>1. length' = length + 1 /\ phase' = "scan"
      BY <1>1, <2>3
    <3>2. \A k \in 0..(length' - 1) : k \in 0..(length - 1) \/ k = length
      BY <1>3, <3>1
    <3>3. \A k \in 0..(length' - 1) : d[k] < call.base
      BY <2>1, <2>3, <3>2, Zenon
    <3> QED BY <3>1, <3>3
  <2>4. CASE ~digit
    <3>1. length' = length /\ phase' = "sum"
      BY <1>1, <2>4
    <3>2. d[length] >= call.base
      BY <1>3, <2>1, <2>4
    <3> QED BY <2>1, <3>1, <3>2, Zenon
  <2> QED BY <2>3, <2>4
<1>7. Summed'
  <2>1. Read(0) = 0
    BY <1>3, PositionalSteps, Zenon DEF Read
  <2>2. i' = 0 /\ v' = 0 /\ phase' # "done" /\ Read(0)' = 0
    <3>1. Read(0)' = Read(0)
      BY <1>1 DEF Read
    <3> QED BY <1>1, <1>3, <2>1, <3>1
  <2>3. Power(call.base, length' - i') \in Nat
    <3>1. length' - i' \in Nat /\ call.base \in Nat \ {0}
      <4>1. call.base \in Nat \ {0}
        BY CallType, Zenon DEF NumberInv, NumberTyped
      <4> QED BY <1>1, <1>3, <2>2, <4>1
    <3> QED BY <3>1, PowerPositive
  <2>4. Power(call.base, length - i)' = Power(call.base, length' - i')
    BY <1>1
  <2>5. v' = Read(i)' * Power(call.base, length - i)'
    <3> DEFINE p == Power(call.base, length' - i')
    <3>1. 0 = 0 * p
      <4>1. p \in Nat
        BY <2>3
      <4> HIDE DEF p
      <4> QED BY <4>1
    <3>2. Read(i)' = 0
      BY <2>2 DEF Read
    <3> QED BY <2>2, <2>4, <3>1, <3>2, Zenon
  <2> QED BY <2>2, <2>5 DEF Summed
<1> QED BY <1>4, <1>6, <1>7

LEMMA SumKeepsInv ==
  ASSUME NumberInv, Sum
  PROVE  OneKindLeft' /\ Scanned' /\ Summed'
<1> DEFINE x == Char(cursor + i)
           n == length - i - 1
           b == call.base
<1>1. /\ phase = "sum" /\ i < length /\ UNCHANGED <<call, sign, cursor, length, phase>>
      /\ v' \in ToLong(Double[Double[v] + Double[Digit(x) * Double[Power(b, n)]]]) /\ i' = i + 1
  BY DEF Sum, Plus, Weighed
<1>2. /\ cursor \in Nat /\ length \in Nat /\ i \in 0..length /\ call.base \in Nat \ {0}
      /\ call.text \in Seq(Codes)
  BY CallType, Zenon DEF NumberInv, NumberTyped
<1>3. i \in Nat /\ i \in 0..(length - 1) /\ n \in Nat /\ n + 1 = length - i /\ n = length - (i + 1)
  BY <1>1, <1>2
<1>4. Digit(x) = DigitAt(i) /\ DigitAt(i) \in Nat
  <2>1. NumberTyped /\ OneKindLeft /\ phase # "prefix" /\ DigitAt(i) < call.base
    BY <1>1, <1>3 DEF NumberInv, Scanned
  <2>2. DigitsFrom(call.text, cursor) \in [Nat -> Nat]
    BY <1>2, DigitsType
  <2>3. DigitAt(i) \in Nat
    BY <1>3, <2>2 DEF DigitAt
  <2> QED BY <1>3, <2>1, <2>3, DigitHere, Zenon
<1>5. Read(i) \in Nat /\ Read(i + 1) = Read(i) * b + DigitAt(i)
  <2>1. call.base \in Nat
    BY <1>2
  <2>2. \A m \in Nat : Read(m) \in Nat /\ Read(m + 1) = Read(m) * call.base + DigitAt(m)
    BY <1>2, <2>1, PositionalSteps, Zenon DEF Read, DigitAt
  <2> HIDE DEF n, x
  <2> QED BY <1>3, <2>2, Zenon
<1>6. Power(b, n) \in Nat /\ Power(b, length - i) = b * Power(b, n)
  <2>1. Power(b, n + 1) = b * Power(b, n)
    BY <1>2, <1>3, PowerSteps
  <2>2. Power(b, n) \in Nat \ {0}
    BY <1>2, <1>3, PowerPositive
  <2> QED BY <1>3, <2>1, <2>2
<1>7. Held => v = Read(i) * Power(b, length - i)
  BY <1>1, Zenon DEF NumberInv, Summed
<1>8. ASSUME Held PROVE v' = Read(i + 1) * Power(b, n)
  <2> DEFINE r == Read(i)
             d == DigitAt(i)
             p == Power(b, n)
             u == Read(i + 1)
             all == Read(length)
  <2>1. v = r * (b * p) /\ u = r * b + d
    BY <1>5, <1>6, <1>7, <1>8, Zenon
  <2>2. r \in Nat /\ d \in Nat /\ p \in Nat /\ b \in Nat
    BY <1>2, <1>4, <1>5, <1>6
  <2>3. p <= DoubleLimit /\ all <= DoubleLimit /\ all \in Nat
    <3>1. length > 0 /\ i \in Nat /\ n + i = length - 1
      BY <1>1, <1>2, <1>3
    <3>2. Power(b, n) <= Power(b, n + i)
      BY <1>2, <1>3, <3>1, PowerGrows, Zenon
    <3>3. Power(b, length - 1) <= DoubleLimit /\ all <= DoubleLimit
      BY <1>8, <3>1 DEF Held
    <3>4. Power(b, n + i) \in Nat
      <4>1. n + i \in Nat
        BY <1>3
      <4>2. Power(b, n + i) \in Nat \ {0}
        BY <1>2, <4>1, PowerPositive, Zenon
      <4> QED BY <4>2, Zenon
    <3>5. all \in Nat
      BY <1>2, PositionalSteps DEF Read
    <3> DEFINE q == Power(b, n + i)
    <3>6. p <= q /\ q <= DoubleLimit /\ q \in Nat
      BY <3>1, <3>2, <3>3, <3>4
    <3> HIDE DEF p, q, all
    <3>7. p <= DoubleLimit
      BY <2>2, <3>6, LimitsAssumption
    <3> QED BY <3>3, <3>5, <3>7
  <2>4. all - u * p \in 0..(p - 1)
    <3>1. i + 1 \in 0..length /\ length - (i + 1) = n
      BY <1>2, <1>3
    <3>2. \A k \in 0..(length - 1) : DigitsFrom(call.text, cursor)[k] < call.base
      BY Zenon DEF NumberInv, Scanned, DigitAt
    <3>3. all - u * Power(b, length - (i + 1)) \in 0..(Power(b, length - (i + 1)) - 1)
      BY <1>2, <3>1, <3>2, WhatIsLeft, Zenon DEF Read
    <3> QED BY <3>1, <3>3
  <2>5. v' \in ToLong(Double[Double[v] + Double[d * Double[p]]])
    BY <1>1, <1>4, Zenon
  <2>6. u \in Nat
    BY <2>1, <2>2
  <2> HIDE DEF r, d, p, b, u, all
  <2>7. v + d * p = u * p /\ v \in Nat /\ d * p \in Nat /\ u * p \in Nat
    <3>1. r * (b * p) + d * p = (r * b + d) * p
      BY <2>2
    <3>2. v + d * p = u * p
      BY <2>1, <3>1, Zenon
    <3>3. r * (b * p) \in Nat /\ d * p \in Nat /\ u * p \in Nat
      BY <2>2, <2>6
    <3> QED BY <2>1, <3>2, <3>3
  <2>8. u * p <= DoubleLimit /\ v <= DoubleLimit /\ d * p <= DoubleLimit
    <3> DEFINE up == u * p
               dp == d * p
    <3>1. up \in Nat /\ dp \in Nat /\ v + dp = up /\ all - up \in 0..(p - 1)
      BY <2>4, <2>7
    <3> HIDE DEF up, dp
    <3>2. up <= DoubleLimit /\ v <= DoubleLimit /\ dp <= DoubleLimit
      BY <2>2, <2>3, <2>7, <3>1, LimitsAssumption
    <3> QED BY <3>2 DEF up, dp
  <2>9. Double[p] = p /\ Double[v] = v /\ Double[d * p] = d * p /\ Double[u * p] = u * p
    <3>1. \A x0 \in Nat : x0 <= DoubleLimit => Double[x0] = x0
      <4> TAKE x0 \in Nat
      <4> HAVE x0 <= DoubleLimit
      <4>1. x0 \in Int /\ -DoubleLimit <= x0
        BY LimitsAssumption
      <4> QED BY <4>1, DoubleExact
    <3> QED BY <2>2, <2>3, <2>7, <2>8, <3>1, Zenon
  <2>10. v' \in ToLong(u * p)
    BY <2>5, <2>7, <2>9, Zenon
  <2>11. u * p \in Longs
    <3> DEFINE up == u * p
    <3>1. up \in Nat /\ up <= DoubleLimit
      BY <2>7, <2>8
    <3> HIDE DEF up
    <3>2. up \in Longs
      BY <3>1, LimitsAssumption DEF Longs
    <3> QED BY <3>2 DEF up
  <2>12. v' = u * p
    BY <2>10, <2>11, LongAnswered
  <2> QED BY <2>12 DEF u, p, b
<1>9. Held' => v' = Read(i)' * Power(b, length - i)'
  <2>0. Held' => Held
    BY <1>1 DEF Held, Read
  <2>1. Read(i)' = Read(i + 1) /\ Power(b, length - i)' = Power(b, length - (i + 1))
    BY <1>1 DEF Read
  <2>2. Power(b, length - (i + 1)) = Power(b, n)
    BY <1>3
  <2> QED BY <1>8, <2>0, <2>1, <2>2, Zenon
<1>10. Summed'
  BY <1>1, <1>9 DEF Summed
<1>11. OneKindLeft'
  BY <1>1 DEF NumberInv, OneKindLeft, Char
<1>12. Scanned'
  BY <1>1 DEF NumberInv, Scanned, DigitAt
<1> QED BY <1>10, <1>11, <1>12

LEMMA ReturnKeepsInv ==
  ASSUME NumberInv, Return
  PROVE  OneKindLeft' /\ Scanned' /\ Summed'
<1>1. /\ phase = "sum" /\ i = length /\ phase' = "done" /\ v' = Wrapped(v * sign, LongLimit)
      /\ UNCHANGED <<call, sign, cursor, length, i>>
      /\ call.entry = "lalr" => stored' = ToInt(v')
  BY DEF Return
<1>2. /\ cursor \in Nat /\ length \in Nat /\ call.base \in Nat \ {0} /\ sign \in {-1, 1}
      /\ call.text \in Seq(Codes)
  BY CallType, Zenon DEF NumberInv, NumberTyped
<1>3. Read(length) \in Nat
  BY <1>2, PositionalSteps DEF Read
<1>4. ASSUME Held PROVE v = Read(length) /\ Read(length) <= DoubleLimit
  <2>1. v = Read(i) * Power(call.base, length - i)
    BY <1>1, <1>4, Zenon DEF NumberInv, Summed
  <2>2. length - i = 0
    BY <1>1, <1>2
  <2>3. Power(call.base, 0) = 1
    BY <1>2, PowerSteps
  <2> DEFINE r == Read(length)
  <2>4. v = r * 1
    BY <1>1, <2>1, <2>2, <2>3, Zenon
  <2>5. length = 0 => r = 0
    <3>1. call.base \in Nat
      BY <1>2
    <3>2. Positional(call.text, cursor, call.base, 0) = 0
      BY <1>2, <3>1, PositionalSteps, Zenon
    <3> QED BY <3>2 DEF Read
  <2>6. length > 0 => r <= DoubleLimit
    BY <1>4 DEF Held
  <2> HIDE DEF r
  <2>7. r \in Nat => r * 1 = r
    OBVIOUS
  <2>8. r <= DoubleLimit
    BY <1>2, <2>5, <2>6, LimitsAssumption
  <2> QED BY <1>3, <2>4, <2>7, <2>8 DEF r
<1>5. ASSUME Held PROVE v' = sign * Read(length) /\ Read(length)' = Read(length) /\ sign' = sign
  <2> DEFINE r == Read(length)
  <2>1. r \in Nat /\ v = r /\ r <= DoubleLimit
    BY <1>3, <1>4, <1>5
  <2>2. r' = r
    BY <1>1 DEF Read
  <2> HIDE DEF r
  <2>3. r * sign = sign * r /\ sign * r \in Longs /\ sign * r \in Int
    <3>1. CASE sign = 1
      BY <2>1, <3>1, LimitsAssumption DEF Longs
    <3>2. CASE sign = -1
      BY <2>1, <3>2, LimitsAssumption DEF Longs
    <3> QED BY <1>2, <3>1, <3>2
  <2>4. v' = sign * r
    BY <1>1, <2>1, <2>3, Converted, Zenon
  <2> QED BY <1>1, <2>2, <2>4 DEF r
<1>6. Summed'
  <2>1. Held' => Held
    BY <1>1 DEF Held, Read
  <2>2. Held' => v' = (sign * Read(length))'
    BY <1>5, <2>1
  <2>3. ToInt(v)' = ToInt(v')
    BY DEF ToInt, Wrapped
  <2>4. call'.entry = "lalr" => stored' = ToInt(v)'
    BY <1>1, <2>3
  <2> QED BY <1>1, <2>2, <2>4 DEF Summed
<1>7. OneKindLeft'
  BY <1>1 DEF NumberInv, OneKindLeft, Char
<1>8. Scanned'
  BY <1>1 DEF NumberInv, Scanned, DigitAt
<1> QED BY <1>6, <1>7, <1>8

LEMMA NumberInvNext ==
  ASSUME OneKindOfDigits(Calls), NumberInv, [Next]_vars
  PROVE  NumberInv'
<1>1. NumberTyped'
  BY NumberTypedNext DEF NumberInv
<1>2. OneKindLeft' /\ Scanned' /\ Summed'
  <2>1. CASE Prefix
    BY <2>1, PrefixKeepsInv
  <2>2. CASE Sign
    BY <2>2, SignKeepsInv
  <2>3. CASE Scan
    BY <2>3, ScanKeepsInv
  <2>4. CASE Sum
    BY <2>4, SumKeepsInv
  <2>5. CASE Return
    BY <2>5, ReturnKeepsInv
  <2>6. CASE Terminated \/ UNCHANGED vars
    <3>1. UNCHANGED vars
      BY <2>6 DEF Terminated
    <3> QED
      BY <3>1 DEF NumberInv, OneKindLeft, Scanned, Summed, Held, Read, DigitAt, Char, ToInt, Wrapped, vars
  <2> QED BY <2>1, <2>2, <2>3, <2>4, <2>5, <2>6 DEF Next
<1> QED BY <1>1, <1>2 DEF NumberInv
-----------------------------------------------------------------------------
(* The theorems. *)

\* The digits counted are all there are.
LEMMA AllCounted ==
  ASSUME NumberInv, phase \in {"sum", "done"}
  PROVE  Digits = length
<1>1. /\ call.text \in Seq(Codes) /\ cursor \in Nat /\ call.base \in Nat
      /\ length \in 0..Len(call.text)
  <2>1. /\ call.text \in Seq(Codes) /\ cursor \in Nat /\ call.base \in Nat \ {0} /\ Len(call.text) \in Nat
        /\ length \in Nat /\ cursor + length <= Len(call.text)
    BY CallType, Zenon DEF NumberInv, NumberTyped
  <2>2. length \in 0..Len(call.text)
    BY <2>1
  <2>3. call.base \in Nat
    BY <2>1
  <2> QED BY <2>1, <2>2, <2>3
<1>2. Ends(call.text, cursor, call.base, length)
  BY Zenon DEF NumberInv, Scanned, Ends, DigitAt
<1> QED BY <1>1, <1>2, OneEnd, Zenon DEF Digits

\* The two ways to say that a number fits a double.
LEMMA SameHeld ==
  ASSUME NumberInv, phase \in {"sum", "done"}
  PROVE  HeldExactly => Held
<1>1. Digits = length
  BY AllCounted
<1>2. /\ cursor \in Nat /\ length \in Nat /\ call.base \in Nat \ {0}
      /\ call.text \in Seq(Codes) /\ sign \in {-1, 1}
  BY CallType, Zenon DEF NumberInv, NumberTyped
<1>3. sign * Reading = Read(length)
  <2> DEFINE r == Read(length)
  <2>1. Reading = sign * r
    BY <1>1, Zenon DEF Reading, Read
  <2>2. r \in Nat
    BY <1>2, PositionalSteps DEF Read
  <2> HIDE DEF r
  <2>3. sign * (sign * r) = r
    BY <1>2, <2>2
  <2> QED BY <2>1, <2>3, Zenon DEF r
<1> QED BY <1>1, <1>3, Zenon DEF HeldExactly, Held

LEMMA NumberInvReads ==
  ASSUME NumberInv
  PROVE  ReadsNumber
<1> SUFFICES ASSUME phase = "done"
             PROVE  /\ length = Digits
                    /\ HeldExactly => v = Reading
                    /\ HeldExactly /\ call.entry = "lalr" /\ Reading \in Ints => stored = Reading
  BY DEF ReadsNumber
<1>1. length = Digits
  BY AllCounted
<1>2. /\ HeldExactly => v = sign * Read(length)
      /\ call.entry = "lalr" => stored = ToInt(v)
  BY SameHeld, Zenon DEF NumberInv, Summed
<1>3. HeldExactly => v = Reading
  BY <1>1, <1>2, Zenon DEF Reading, Read
<1>4. v \in Int
  BY CallType, Zenon DEF NumberInv, NumberTyped
<1>5. v \in Ints => ToInt(v) = v
  BY <1>4, Converted
<1> QED BY <1>1, <1>2, <1>3, <1>5, Zenon

LEMMA NumberInvConverges ==
  ASSUME NumberInv
  PROVE  SumConverges
<1> DEFINE weight == Power(call.base, length - i)
<1> SUFFICES ASSUME phase = "sum", HeldExactly
             PROVE  v % weight = 0 /\ sign * Reading - v \in 0..(weight - 1)
  BY DEF SumConverges
<1>1. /\ cursor \in Nat /\ length \in Nat /\ i \in 0..length /\ call.base \in Nat \ {0}
      /\ call.text \in Seq(Codes) /\ sign \in {-1, 1}
  BY CallType, Zenon DEF NumberInv, NumberTyped
<1>2. Digits = length
  BY AllCounted
<1>3. v = Read(i) * weight
  BY SameHeld, Zenon DEF NumberInv, Summed
<1>4. weight \in Nat \ {0}
  <2>1. length - i \in Nat
    BY <1>1
  <2> QED BY <1>1, <2>1, PowerPositive
<1>5. Read(i) \in Nat /\ Read(length) \in Nat
  <2>1. i \in Nat /\ call.base \in Nat
    BY <1>1
  <2> QED BY <1>1, <2>1, PositionalSteps, Zenon DEF Read
<1>6. v % weight = 0
  <2>1. Read(i) \in Int
    BY <1>5
  <2> HIDE DEF weight
  <2> QED BY <1>3, <1>4, <2>1, MultipleMod
<1>7. Read(length) - Read(i) * weight \in 0..(weight - 1)
  <2>1. \A k \in 0..(length - 1) : DigitsFrom(call.text, cursor)[k] < call.base
    BY Zenon DEF NumberInv, Scanned, DigitAt
  <2> QED BY <1>1, <2>1, WhatIsLeft, Zenon DEF Read
<1>8. sign * Reading = Read(length)
  <2> DEFINE r == Read(length)
  <2>1. Reading = sign * r
    BY <1>2, Zenon DEF Reading, Read
  <2>2. r \in Nat
    BY <1>5
  <2> HIDE DEF r
  <2>3. sign * (sign * r) = r
    BY <1>1, <2>2
  <2> QED BY <2>1, <2>3, Zenon DEF r
<1> QED BY <1>3, <1>6, <1>7, <1>8, Zenon

\* Scanning stops behind the last digit.  Of a number that a double holds,
\* number_parse_integer_base answers the value, sign included, and the node of a
\* literal that fits an int, too, holds it.
THEOREM NumberIsRead ==
  ASSUME OneKindOfDigits(Calls)
  PROVE  Spec => []ReadsNumber
<1>1. Init => NumberInv
  BY NumberInvInit
<1>2. NumberInv /\ [Next]_vars => NumberInv'
  BY NumberInvNext
<1>3. NumberInv => ReadsNumber
  BY NumberInvReads
<1> QED BY <1>1, <1>2, <1>3, PTL DEF Spec

\* At every turn of the loop the sum of such a number is a multiple of the weight
\* of the last digit added, and closer than that weight to the number.
THEOREM NumberConverges ==
  ASSUME OneKindOfDigits(Calls)
  PROVE  Spec => []SumConverges
<1>1. Init => NumberInv
  BY NumberInvInit
<1>2. NumberInv /\ [Next]_vars => NumberInv'
  BY NumberInvNext
<1>3. NumberInv => SumConverges
  BY NumberInvConverges
<1> QED BY <1>1, <1>2, <1>3, PTL DEF Spec
=============================================================================
