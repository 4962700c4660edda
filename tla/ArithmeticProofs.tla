---------------------------- MODULE ArithmeticProofs ----------------------------
(***************************************************************************)
(* Proofs about Immediates, Arithmetic, SmallFloat and FloatPrimitives, for*)
(* words, tags, exponents and mantissas of every size.                     *)
(***************************************************************************)
EXTENDS Arithmetic, FloatPrimitives, WellFoundedInduction, TLAPS

(* A quotient and a remainder are the only ones. *)
LEMMA DivMod ==
  ASSUME NEW t \in Nat, t > 0, NEW q \in Int, NEW r \in 0 .. t - 1
  PROVE  (q * t + r) \div t = q /\ (q * t + r) % t = r
OBVIOUS

(* What is outside a word by less than its size comes to lie in it. *)
LEMMA Wrap ==
  ASSUME NEW w \in Nat, w > 0, NEW n \in Int
  PROVE  /\ n \in 0 .. w - 1 => n % w = n
         /\ n \in -w .. -1 => n % w = n + w
OBVIOUS

(* A product grows with its factors. *)
LEMMA Monotone ==
  ASSUME NEW t \in Nat, NEW a \in Int, NEW b \in Int, a <= b
  PROVE  a * t <= b * t
OBVIOUS

(* The place of n in a word: n tags above 0, or below the word's end. *)
LEMMA Encoded ==
  ASSUME NEW n \in SmallIntegers
  PROVE  /\ n >= 0 => EncodeSmallInteger(n) = n * Tags + 1 /\ n * Tags + 1 \in 0 .. Half * Tags - 1
         /\ n < 0 => /\ EncodeSmallInteger(n) = n * Tags + 1 + Word
                     /\ n * Tags + 1 + Word \in Half * Tags .. Word - 1
  <1> DEFINE T == Tags
             H == Half
             P == H * T
             m == n * T
  <1>1. T \in Nat /\ T > 1 /\ H \in Nat /\ n \in Int /\ -H <= n /\ n <= H - 1
    BY TagsAssumption, HalfAssumption DEF SmallIntegers
  <1>2. P \in Nat /\ m \in Int /\ Word = P + P
    BY <1>1 DEF Word
  <1>3. m >= -P
    <2>1. (-H) * T <= n * T
      BY <1>1, Monotone
    <2> QED BY <2>1, <1>1
  <1>4. m <= P - T
    <2>1. n * T <= (H - 1) * T
      BY <1>1, Monotone
    <2> QED BY <2>1, <1>1
  <1>5. n >= 0 => m >= 0
    BY <1>1
  <1>6. n < 0 => m <= -T
    <2>1. n < 0 => n * T <= (-1) * T
      BY <1>1, Monotone
    <2> QED BY <2>1, <1>1
  <1>7. P + P > 0
    BY <1>1, <1>2, <1>3, <1>4
  <1>8. /\ m + 1 \in 0 .. (P + P) - 1 => (m + 1) % (P + P) = m + 1
        /\ m + 1 \in -(P + P) .. -1 => (m + 1) % (P + P) = m + 1 + (P + P)
    <2> HIDE DEF m, P
    <2> QED BY <1>2, <1>7, Wrap
  <1>9. EncodeSmallInteger(n) = (m + 1) % (P + P)
    BY <1>2 DEF EncodeSmallInteger
  <1> HIDE DEF m, P, T, H
  <1>10. CASE n >= 0
    BY <1>10, <1>1, <1>2, <1>4, <1>5, <1>8, <1>9 DEF m, P, T, H
  <1>11. CASE n < 0
    BY <1>11, <1>1, <1>2, <1>3, <1>6, <1>8, <1>9 DEF m, P, T, H
  <1> QED BY <1>10, <1>11, <1>1

(* A small integer comes back as it was encoded, and its word has the tag of *)
(* small integers.                                                           *)
THEOREM SmallIntegersRoundTrip ==
  \A n \in SmallIntegers :
    /\ EncodeSmallInteger(n) \in 0 .. Word - 1
    /\ IsSmallInteger(EncodeSmallInteger(n))
    /\ DecodeSmallInteger(EncodeSmallInteger(n)) = n
  <1> SUFFICES ASSUME NEW n \in SmallIntegers
               PROVE  /\ EncodeSmallInteger(n) \in 0 .. Word - 1
                      /\ IsSmallInteger(EncodeSmallInteger(n))
                      /\ DecodeSmallInteger(EncodeSmallInteger(n)) = n
    OBVIOUS
  <1> DEFINE w == EncodeSmallInteger(n)
             P == Half * Tags
  <1>1. n \in Int /\ Tags \in Nat /\ Tags > 1 /\ Half \in Nat /\ P \in Nat /\ Word = P + P
    BY TagsAssumption, HalfAssumption DEF SmallIntegers, Word
  <1>2. (n * Tags + 1) \div Tags = n /\ (n * Tags + 1) % Tags = 1
    BY <1>1, DivMod, 1 \in 0 .. Tags - 1
  <1>3. ((n + 2 * Half) * Tags + 1) % Tags = 1
    <2> DEFINE q == n + 2 * Half
    <2>1. q \in Int /\ 1 \in 0 .. Tags - 1 /\ Tags > 0
      BY <1>1
    <2> HIDE DEF q
    <2>2. (q * Tags + 1) % Tags = 1
      BY <2>1, <1>1, DivMod
    <2> QED BY <2>2 DEF q
  <1>4. (n + 2 * Half) * Tags + 1 = n * Tags + 1 + Word
    BY <1>1
  <1>5. w \in 0 .. Word - 1 /\ w % Tags = 1 /\ Signed(w) = n * Tags + 1
    <2>1. CASE n >= 0
      <3>1. w = n * Tags + 1 /\ n * Tags + 1 \in 0 .. P - 1
        BY <2>1, Encoded
      <3> QED BY <3>1, <1>1, <1>2 DEF Signed
    <2>2. CASE n < 0
      <3>1. w = n * Tags + 1 + Word /\ n * Tags + 1 + Word \in P .. Word - 1
        BY <2>2, Encoded
      <3> DEFINE m == n * Tags + 1
      <3>2. m \in Int
        BY <1>1
      <3>3. w % Tags = 1
        BY <3>1, <1>3, <1>4
      <3>4. w \in 0 .. Word - 1 /\ w >= P
        BY <3>1, <1>1
      <3>5. Signed(w) = m
        <4> HIDE DEF m, P
        <4>1. w = m + Word
          BY <3>1 DEF m
        <4>2. ~(w < Half * Tags)
          BY <3>4, <1>1 DEF P
        <4> HIDE DEF w
        <4> QED BY <4>1, <4>2, <3>2, <1>1 DEF Signed
      <3> QED BY <3>3, <3>4, <3>5
    <2> QED BY <2>1, <2>2, <1>1
  <1> QED BY <1>5, <1>2 DEF IsSmallInteger, DecodeSmallInteger

(* The object made for an integer stands for it, and is a small integer      *)
(* exactly if the integer is in their range: one number has one form.        *)
THEOREM IntegersHaveOneForm ==
  \A n \in Int :
    /\ Value(ForInteger(n)) = n
    /\ ForInteger(n).kind = "small" <=> n \in SmallIntegers
<1> SUFFICES ASSUME NEW n \in Int
             PROVE  /\ Value(ForInteger(n)) = n
                    /\ ForInteger(n).kind = "small" <=> n \in SmallIntegers
  OBVIOUS
<1>1. InSmallIntegerRange(n) <=> n \in SmallIntegers
  BY HalfAssumption DEF InSmallIntegerRange, SmallIntegers
<1>2. CASE InSmallIntegerRange(n)
  <2>1. ForInteger(n).kind = "small" /\ ForInteger(n).oop = EncodeSmallInteger(n)
    BY <1>2 DEF ForInteger
  <2>2. Value(ForInteger(n)) = n
    BY <2>1, <1>1, <1>2, SmallIntegersRoundTrip DEF Value
  <2> QED BY <2>1, <2>2, <1>1, <1>2
<1>3. CASE ~InSmallIntegerRange(n)
  <2>1. /\ ForInteger(n).kind = "large" /\ ForInteger(n).positive = (n >= 0)
        /\ ForInteger(n).magnitude = IF n >= 0 THEN n ELSE -n
    BY <1>3 DEF ForInteger
  <2>2. CASE n >= 0
    BY <2>1, <2>2, <1>1, <1>3 DEF Value
  <2>3. CASE ~(n >= 0)
    <3>0. (n >= 0) = FALSE
      BY <2>3
    <3>1. ForInteger(n).positive = FALSE /\ ForInteger(n).magnitude = -n
      BY <2>1, <3>0, Zenon
    <3>2. Value(ForInteger(n)) = -(-n)
      BY <2>1, <3>1 DEF Value
    <3> QED BY <3>2, <2>1, <1>1, <1>3
  <2> QED BY <2>2, <2>3
<1> QED BY <1>2, <1>3

-----------------------------------------------------------------------------
(* Division *)

(* C's quotient leaves a remainder smaller than the divisor, with the sign of *)
(* the dividend.                                                              *)
LEMMA Truncated ==
  ASSUME NEW a \in Int, NEW b \in Int, b # 0
  PROVE  /\ Quotient(a, b) \in Int
         /\ \E m \in 0 .. Abs(b) - 1 : Remainder(a, b) = IF a < 0 THEN -m ELSE m
<1> DEFINE x == Abs(a)
           y == Abs(b)
           k == x \div y
           p == y * k
           m == x % y
<1>1. x \in Nat /\ y \in Nat /\ y > 0
  BY DEF Abs
<1>2. k \in Int /\ m \in 0 .. y - 1 /\ x = p + m /\ p \in Int
  <2> HIDE DEF x, y
  <2> QED BY <1>1
<1>3. /\ (a < 0) = (b < 0) => Quotient(a, b) = k
      /\ (a < 0) # (b < 0) => Quotient(a, b) = -k
  BY DEF Quotient
<1>4. b * k = IF b < 0 THEN -p ELSE p
  <2>1. b < 0 => b = -y
    BY DEF Abs
  <2>2. ~(b < 0) => b = y
    BY DEF Abs
  <2> HIDE DEF x, y, k
  <2>3. (-y) * k = -(y * k)
    BY <1>1, <1>2
  <2> QED BY <2>1, <2>2, <2>3 DEF p
<1>5. b * (-k) = -(b * k)
  BY <1>2
<1>6. b * k \in Int
  BY <1>2
<1>7. Remainder(a, b) = IF a < 0 THEN -m ELSE m
  <2>1. a < 0 => a = -x
    BY DEF Abs
  <2>2. ~(a < 0) => a = x
    BY DEF Abs
  <2>3. b * Quotient(a, b) = IF (a < 0) = (b < 0) THEN b * k ELSE -(b * k)
    BY <1>3, <1>5
  <2> HIDE DEF x, y, k, p, m
  <2> QED BY <2>1, <2>2, <2>3, <1>2, <1>4, <1>6 DEF Remainder
<1>8. Quotient(a, b) \in Int
  BY <1>2, <1>3
<1> QED BY <1>2, <1>7, <1>8

(* div and mod divide as Smalltalk does, rounding down: they fit together,   *)
(* and what is left over has the sign of the divisor, whatever the signs.    *)
THEOREM FlooredDivision ==
  \A a, b \in Int :
    b # 0 => /\ a = b * FlooredQuotient(a, b) + FlooredRemainder(a, b)
             /\ FlooredRemainder(a, b) \in (IF b > 0 THEN 0 .. b - 1 ELSE b + 1 .. 0)
<1> SUFFICES ASSUME NEW a \in Int, NEW b \in Int, b # 0
             PROVE  /\ a = b * FlooredQuotient(a, b) + FlooredRemainder(a, b)
                    /\ FlooredRemainder(a, b) \in (IF b > 0 THEN 0 .. b - 1 ELSE b + 1 .. 0)
  OBVIOUS
<1> DEFINE q == Quotient(a, b)
           r == Remainder(a, b)
<1>1. PICK m \in 0 .. Abs(b) - 1 : r = IF a < 0 THEN -m ELSE m
  BY Truncated
<1>2. q \in Int /\ b * q \in Int
  <2>1. q \in Int
    BY Truncated
  <2> HIDE DEF q
  <2> QED BY <2>1
<1>3. a = b * q + r
  <2> HIDE DEF q
  <2> QED BY <1>2 DEF Remainder, q
<1>4. b * (q - 1) = b * q - b
  <2> HIDE DEF q
  <2> QED BY <1>2
<1>5. r \in Int
  BY <1>1 DEF Abs
<1> HIDE DEF q, r
<1>6. CASE r # 0 /\ (r < 0) # (b < 0)
  <2>1. FlooredQuotient(a, b) = q - 1 /\ FlooredRemainder(a, b) = r + b
    BY <1>6 DEF FlooredQuotient, FlooredRemainder, q, r
  <2>2. a = b * (q - 1) + (r + b)
    BY <1>2, <1>3, <1>4, <1>5
  <2>3. r + b \in (IF b > 0 THEN 0 .. b - 1 ELSE b + 1 .. 0)
    BY <1>1, <1>5, <1>6 DEF Abs
  <2> QED BY <2>1, <2>2, <2>3
<1>7. CASE ~(r # 0 /\ (r < 0) # (b < 0))
  <2>1. FlooredQuotient(a, b) = q /\ FlooredRemainder(a, b) = r
    BY <1>7 DEF FlooredQuotient, FlooredRemainder, q, r
  <2>2. r \in (IF b > 0 THEN 0 .. b - 1 ELSE b + 1 .. 0)
    BY <1>1, <1>5, <1>7 DEF Abs
  <2> QED BY <2>1, <2>2, <1>3
<1> QED BY <1>6, <1>7

-----------------------------------------------------------------------------
(* The primitives *)

(* Every word decodes to a small integer, whatever its tag. *)
LEMMA DecodesInRange ==
  ASSUME NEW oop \in 0 .. Word - 1
  PROVE  DecodeSmallInteger(oop) \in SmallIntegers
<1> DEFINE P == Half * Tags
<1>1. Tags \in Nat /\ Tags > 1 /\ Half \in Nat /\ P \in Nat /\ Word = P + P
  BY TagsAssumption, HalfAssumption DEF Word
<1>2. Signed(oop) \in -P .. P - 1
  <2> HIDE DEF P
  <2>1. Signed(oop) = IF oop < P THEN oop ELSE oop - (P + P)
    BY <1>1 DEF Signed, P
  <2> QED BY <2>1, <1>1
<1>3. PICK q \in Int, r \in 0 .. Tags - 1 : Signed(oop) = q * Tags + r /\ q = Signed(oop) \div Tags
  <2> DEFINE s == Signed(oop)
  <2>1. s \in Int
    BY <1>1, <1>2
  <2> HIDE DEF s
  <2>2. s = (s \div Tags) * Tags + (s % Tags) /\ s \div Tags \in Int /\ s % Tags \in 0 .. Tags - 1
    BY <2>1, <1>1
  <2> QED BY <2>2 DEF s
<1>4. q <= Half - 1
  <2> SUFFICES ASSUME q >= Half PROVE FALSE
    BY <1>1
  <2>1. Half * Tags <= q * Tags
    BY <1>1, Monotone
  <2> DEFINE x == q * Tags
  <2>2. x \in Int
    BY <1>1
  <2> HIDE DEF x
  <2>3. P <= x /\ x + r \in -P .. P - 1
    BY <2>1, <1>2, <1>3 DEF x
  <2> HIDE DEF P
  <2> QED BY <2>2, <2>3, <1>1
<1>5. q >= -Half
  <2> SUFFICES ASSUME q <= -Half - 1 PROVE FALSE
    BY <1>1
  <2>1. q * Tags <= (-Half - 1) * Tags
    BY <1>1, Monotone
  <2>2. (-Half - 1) * Tags = -P - Tags
    BY <1>1
  <2> DEFINE x == q * Tags
  <2>3. x \in Int
    BY <1>1
  <2> HIDE DEF x
  <2>4. x <= -P - Tags /\ x + r \in -P .. P - 1
    BY <2>1, <2>2, <1>2, <1>3 DEF x
  <2> HIDE DEF P
  <2> QED BY <2>3, <2>4, <1>1
<1> QED BY <1>1, <1>3, <1>4, <1>5 DEF DecodeSmallInteger, SmallIntegers

(* The tag of a character takes no bit of its number. *)
LEMMA CharacterEncoded ==
  ASSUME NEW n \in 0 .. 2 * Half - 1
  PROVE  /\ EncodeCharacter(n) \in 0 .. Word - 1
         /\ IsCharacter(EncodeCharacter(n))
         /\ EncodeCharacter(n) \div Tags = n
<1> DEFINE m == n * Tags
           W == 2 * Half * Tags
<1>1. Tags \in Nat /\ Tags > 4 /\ Half \in Nat /\ n \in Int /\ n >= 0 /\ n <= 2 * Half - 1
  BY TagsAssumption, HalfAssumption
<1>2. m \in Nat /\ W \in Nat
  BY <1>1
<1>3. m <= W - Tags
  <2>1. n * Tags <= (2 * Half - 1) * Tags
    BY <1>1, Monotone
  <2> QED BY <1>1, <2>1
<1>4. (n * Tags + 2) \div Tags = n /\ (n * Tags + 2) % Tags = 2
  BY <1>1, DivMod, 2 \in 0 .. Tags - 1
<1>5. (m + 2) % W = m + 2 /\ m + 2 \in 0 .. W - 1
  <2> HIDE DEF m, W
  <2> QED BY <1>1, <1>2, <1>3, Wrap
<1>6. EncodeCharacter(n) = m + 2 /\ Word = W
  BY <1>5 DEF EncodeCharacter, Word
<1> QED BY <1>4, <1>5, <1>6 DEF IsCharacter

(* What an operation may answer is an integer. *)
LEMMA ValuesAreIntegers ==
  ASSUME NEW a \in Int, NEW b \in Int, op \in Operations \ Comparisons,
         ~Fails(a, b), op = "bitShift" => b # 0
  PROVE  Values(a, b) \subseteq Int
<1>1. \A n \in Int : Wrapped(n) \in Int
  <2>1. Word \in Nat /\ Word > 0
    BY TagsAssumption, HalfAssumption DEF Word
  <2>2. Half * Tags \in Int
    BY TagsAssumption, HalfAssumption
  <2> QED BY <2>1, <2>2 DEF Wrapped, Signed
<1>2. op \in Divisions => b # 0
  BY DEF Fails
<1>3. CASE op \in {"add", "subtract", "multiply"}
  <2>1. a + b \in Int /\ a - b \in Int /\ a * b \in Int
    OBVIOUS
  <2>2. Wrapped(a * b) \in Int
    BY <1>1, <2>1
  <2>3. \/ op = "add" /\ Values(a, b) = {a + b}
        \/ op = "subtract" /\ Values(a, b) = {a - b}
        \/ op = "multiply" /\ Values(a, b) = {Wrapped(a * b)}
    BY <1>3, Zenon DEF Values
  <2> QED BY <2>1, <2>2, <2>3, Zenon
<1>4. CASE op \in Divisions
  <2>1. Quotient(a, b) \in Int
    BY <1>2, <1>4, Truncated
  <2>2. FlooredQuotient(a, b) \in Int
    BY <2>1 DEF FlooredQuotient
  <2>3. Remainder(a, b) \in Int
    BY <2>1 DEF Remainder
  <2>4. FlooredRemainder(a, b) \in Int
    BY <2>3 DEF FlooredRemainder
  <2> QED BY <1>4, <2>1, <2>2, <2>4 DEF Values, Divisions
<1>5. CASE op \in BitWise
  <2>1. IntPtr \subseteq Int
    BY TagsAssumption, HalfAssumption DEF IntPtr
  <2>2. CASE op = "bitAnd"
    BY <2>1, <2>2 DEF Values, WithBits
  <2>3. CASE op = "bitOr"
    BY <2>1, <2>3 DEF Values, WithBits
  <2>4. CASE op = "bitXor"
    BY <2>1, <2>4 DEF Values, WithBits
  <2> QED BY <1>5, <2>2, <2>3, <2>4 DEF BitWise
<1>6. CASE op = "bitShift"
  <2>1. \A n \in Nat : n % WordBits \in 0 .. WordBits - 1
    BY ArithmeticAssumption
  <2>2. \A n \in 0 .. WordBits - 1 : 2^n \in Nat \ {0}
    BY ArithmeticAssumption
  <2>3. \A n \in Nat : n < WordBits => n \in 0 .. WordBits - 1
    BY ArithmeticAssumption
  <2>4. \A n \in Nat : ShiftedLeft(a, n) \subseteq Int
    BY <1>1, <2>1, <2>2, <2>3 DEF ShiftedLeft
  <2>5. \A n \in Nat : ShiftedRight(a, n) \subseteq Int
    BY <2>1, <2>2, <2>3 DEF ShiftedRight
  <2>6. b < 0 => -b \in Nat
    OBVIOUS
  <2>7. ~(b < 0) => b \in Nat
    OBVIOUS
  <2>8. Values(a, b) = IF b < 0 THEN ShiftedRight(a, -b) ELSE ShiftedLeft(a, b)
    BY <1>6 DEF Values
  <2> QED BY <2>4, <2>5, <2>6, <2>7, <2>8
<1> QED BY <1>3, <1>4, <1>5, <1>6 DEF Operations, Divisions

(* The state is well-typed: the operands are small integers whatever was     *)
(* given, and a small integer that is answered is a word.                    *)
THEOREM TypeCorrect == Spec => []TypeOK
<1>1. Init => TypeOK
  <2>1. \A n \in SmallIntegers : EncodeSmallInteger(n) \in 0 .. Word - 1
    BY SmallIntegersRoundTrip
  <2>2. Operands \subseteq 0 .. Word - 1
    BY <2>1, ArithmeticAssumption DEF Operands
  <2>3. 0 \in SmallIntegers
    BY HalfAssumption DEF SmallIntegers
  <2> QED BY <2>2, <2>3 DEF Init, TypeOK, None
<1>2. TypeOK /\ [Next]_vars => TypeOK'
  <2> SUFFICES ASSUME TypeOK, [Next]_vars PROVE TypeOK'
    OBVIOUS
  <2> USE DEF TypeOK
  <2>0. 0 \in SmallIntegers
    BY HalfAssumption DEF SmallIntegers
  <2>1. ASSUME NEW oop \in 0 .. Word - 1, NEW v, SmallIntegerValue(oop, v)
        PROVE  /\ v \in SmallIntegers
               /\ error' \in {"none", "error", "badReceiver", "badArgument", "badNumberOfArguments"}
    BY <2>0, <2>1, DecodesInRange DEF SmallIntegerValue, FailWith
  <2>2. CASE GetReceiver
    <3>1. /\ left' \in SmallIntegers
          /\ error' \in {"none", "error", "badReceiver", "badArgument", "badNumberOfArguments"}
      BY <2>1, <2>2 DEF GetReceiver
    <3> QED BY <2>2, <3>1 DEF GetReceiver
  <2>3. CASE GetArgument
    <3>1. /\ right' \in SmallIntegers
          /\ error' \in {"none", "error", "badReceiver", "badArgument", "badNumberOfArguments"}
      <4>1. CASE arguments = <<>>
        BY <2>0, <2>3, <4>1 DEF GetArgument, FailWith
      <4>2. CASE arguments # <<>>
        <5>1. arguments[1] \in 0 .. Word - 1
          BY <4>2
        <5>2. SmallIntegerValue(arguments[1], right')
          BY <2>3, <4>2 DEF GetArgument
        <5> QED BY <2>1, <5>1, <5>2
      <4> QED BY <4>1, <4>2
    <3> QED BY <2>3, <3>1 DEF GetArgument
  <2>4. CASE ReturnFailed
    BY <2>4 DEF ReturnFailed, FailWith
  <2>5. CASE ReturnInteger
    <3>1. left \in Int /\ right \in Int
      BY HalfAssumption DEF SmallIntegers
    <3>2. Values(left, right) \subseteq Int
      BY <2>5, <3>1, ValuesAreIntegers DEF ReturnInteger
    <3>3. PICK n \in Int : result' = ForInteger(n)
      BY <2>5, <3>2 DEF ReturnInteger
    <3>4. CASE InSmallIntegerRange(n)
      <4>1. n \in SmallIntegers
        BY <3>4, HalfAssumption DEF InSmallIntegerRange, SmallIntegers
      <4>2. result'.kind = "small" /\ result'.oop \in 0 .. Word - 1
        BY <3>3, <3>4, <4>1, SmallIntegersRoundTrip DEF ForInteger
      <4> QED BY <4>2, <2>5 DEF ReturnInteger
    <3>5. CASE ~InSmallIntegerRange(n)
      <4>1. result'.kind = "large"
        BY <3>3, <3>5 DEF ForInteger
      <4> QED BY <4>1, <2>5 DEF ReturnInteger
    <3> QED BY <3>4, <3>5
  <2>6. CASE ReturnBoolean
    <3>1. result'.kind = "boolean"
      BY <2>6 DEF ReturnBoolean
    <3> QED BY <2>6, <3>1 DEF ReturnBoolean
  <2>7. CASE Abort
    BY <2>7 DEF Abort
  <2>8. StackTop \in 0 .. Word - 1
    BY DEF StackTop
  <2>9. CASE CompareIdentity
    <3>1. result' = result \/ result'.kind = "boolean"
      BY <2>9 DEF CompareIdentity
    <3> QED BY <2>9, <3>1 DEF CompareIdentity, FailWith
  <2>10. CASE AsCharacter
    <3>1. CASE InCharacterRange(DecodeSmallInteger(StackTop)) /\ IsSmallInteger(StackTop)
      <4>1. DecodeSmallInteger(StackTop) \in Int
        BY <2>8, DecodesInRange DEF SmallIntegers
      <4>2. EncodeCharacter(DecodeSmallInteger(StackTop)) \in 0 .. Word - 1
        BY <3>1, <4>1, CharacterEncoded DEF InCharacterRange
      <4>3. ~IsCharacter(StackTop)
        BY <3>1 DEF IsCharacter, IsSmallInteger
      <4>4. result' = [kind |-> "character", oop |-> EncodeCharacter(DecodeSmallInteger(StackTop))]
        BY <2>10, <3>1, <4>3 DEF AsCharacter
      <4> QED BY <2>10, <3>1, <4>2, <4>3, <4>4 DEF AsCharacter
    <3>2. CASE ~(InCharacterRange(DecodeSmallInteger(StackTop)) /\ IsSmallInteger(StackTop))
      BY <2>8, <2>10, <3>2 DEF AsCharacter, FailWith
    <3> QED BY <3>1, <3>2
  <2>11. CASE ImmediateAsInteger
    <3>1. CASE IsCharacter(StackTop)
      <4>1. DecodeCharacter(StackTop) \in SmallIntegers
        BY <2>8, DecodesInRange DEF DecodeCharacter, DecodeSmallInteger
      <4>2. EncodeSmallInteger(DecodeCharacter(StackTop)) \in 0 .. Word - 1
        BY <4>1, SmallIntegersRoundTrip
      <4>3. ~IsSmallInteger(StackTop) /\ ~IsSmallFloat(StackTop)
        BY <3>1 DEF IsCharacter, IsSmallInteger, IsSmallFloat
      <4> QED BY <2>11, <3>1, <4>2, <4>3 DEF ImmediateAsInteger
    <3>2. CASE ~IsCharacter(StackTop)
      BY <2>8, <2>11, <3>2 DEF ImmediateAsInteger, FailWith
    <3> QED BY <3>1, <3>2
  <2>12. CASE UNCHANGED vars
    BY <2>12 DEF vars
  <2> QED BY <2>2, <2>3, <2>4, <2>5, <2>6, <2>7, <2>9, <2>10, <2>11, <2>12 DEF Next
<1> QED BY <1>1, <1>2, PTL DEF Spec

(* Before a primitive takes its first operand it has not failed.             *)
NotYetFailed == pc = "receiver" => error = "none"

(* No primitive has failed before it takes its receiver. *)
LEMMA FailureIsLater == Spec => []NotYetFailed
<1>1. Init => NotYetFailed
  BY DEF Init, NotYetFailed
<1>2. NotYetFailed /\ [Next]_vars => NotYetFailed'
  <2> SUFFICES ASSUME NotYetFailed, [Next]_vars PROVE NotYetFailed'
    OBVIOUS
  <2> USE DEF NotYetFailed
  <2>1. CASE GetReceiver
    BY <2>1 DEF GetReceiver
  <2>2. CASE GetArgument
    BY <2>2 DEF GetArgument
  <2>3. CASE ReturnFailed \/ ReturnInteger \/ ReturnBoolean \/ Abort
    BY <2>3 DEF ReturnFailed, ReturnInteger, ReturnBoolean, Abort
  <2>4. CASE CompareIdentity \/ AsCharacter \/ ImmediateAsInteger
    BY <2>4 DEF CompareIdentity, AsCharacter, ImmediateAsInteger
  <2>5. CASE UNCHANGED vars
    BY <2>5 DEF vars
  <2> QED BY <2>1, <2>2, <2>3, <2>4, <2>5 DEF Next
<1> QED BY <1>1, <1>2, PTL DEF Spec

(* A primitive that has failed neither succeeds nor fails otherwise later.   *)
THEOREM FailuresStick == Spec => FailureSticks
<1>1. ASSUME NotYetFailed, [Next]_vars, error # "none"
      PROVE  UNCHANGED <<error, result>>
  <2>1. CASE GetReceiver
    BY <1>1, <2>1 DEF GetReceiver, SmallIntegerValue, FailWith
  <2>2. CASE GetArgument
    BY <1>1, <2>2 DEF GetArgument, SmallIntegerValue, FailWith
  <2>3. CASE ReturnFailed
    BY <1>1, <2>3 DEF ReturnFailed
  <2>4. CASE ReturnInteger
    BY <1>1, <2>4 DEF ReturnInteger
  <2>5. CASE ReturnBoolean
    BY <1>1, <2>5 DEF ReturnBoolean
  <2>6. CASE Abort
    BY <1>1, <2>6 DEF Abort
  <2>7. CASE CompareIdentity \/ AsCharacter \/ ImmediateAsInteger
    BY <1>1, <2>7 DEF NotYetFailed, CompareIdentity, AsCharacter, ImmediateAsInteger
  <2>8. CASE UNCHANGED vars
    BY <2>8 DEF vars
  <2> QED BY <1>1, <2>1, <2>2, <2>3, <2>4, <2>5, <2>6, <2>7, <2>8 DEF Next
<1> QED BY <1>1, FailureIsLater, PTL DEF Spec, FailureSticks

(* What is answered when a primitive is done: some integer's object.         *)
AnswersAreIntegers ==
  Answered /\ op \in Operations \ Comparisons => \E n \in Int : result = ForInteger(n)

(* Whatever the operands, an integer that is answered has the one form it is *)
(* to have.                                                                  *)
THEOREM AnswersCanonical == Spec => []AnswersAreCanonical
<1>1. Init => AnswersAreIntegers
  BY DEF Init, AnswersAreIntegers, Answered
<1>2. TypeOK /\ AnswersAreIntegers /\ [Next]_vars => AnswersAreIntegers'
  <2> SUFFICES ASSUME TypeOK, AnswersAreIntegers, [Next]_vars PROVE AnswersAreIntegers'
    OBVIOUS
  <2> USE DEF AnswersAreIntegers, Answered
  <2>1. CASE GetReceiver
    BY <2>1 DEF GetReceiver
  <2>2. CASE GetArgument
    BY <2>2 DEF GetArgument
  <2>3. CASE ReturnFailed
    BY <2>3 DEF ReturnFailed, FailWith
  <2>4. CASE ReturnInteger
    <3>1. left \in Int /\ right \in Int /\ op \in Operations
      BY <2>4, HalfAssumption DEF SmallIntegers, TypeOK, ReturnInteger
    <3>2. Values(left, right) \subseteq Int
      BY <2>4, <3>1, ValuesAreIntegers DEF ReturnInteger
    <3>3. \E n \in Int : result' = ForInteger(n)
      BY <2>4, <3>2 DEF ReturnInteger
    <3> QED BY <3>3
  <2>5. CASE ReturnBoolean
    BY <2>5 DEF ReturnBoolean
  <2>6. CASE Abort
    BY <2>6 DEF Abort
  <2>7. CASE CompareIdentity \/ AsCharacter \/ ImmediateAsInteger
    BY <2>7 DEF CompareIdentity, AsCharacter, ImmediateAsInteger, Operations, Divisions, BitWise,
                Comparisons, Identities
  <2>8. CASE UNCHANGED vars
    BY <2>8 DEF vars
  <2> QED BY <2>1, <2>2, <2>3, <2>4, <2>5, <2>6, <2>7, <2>8 DEF Next
<1>3. AnswersAreIntegers => AnswersAreCanonical
  BY IntegersHaveOneForm DEF AnswersAreIntegers, AnswersAreCanonical
<1> QED BY <1>1, <1>2, <1>3, TypeCorrect, PTL DEF Spec

-----------------------------------------------------------------------------
(* Characters *)

(* An operand is a small integer, or an oop that the program made.           *)
IsOperand(oop) ==
  /\ oop \in 0 .. Word - 1
  /\ IsCharacter(oop) => oop < Half * Tags

OperandsGiven == IsOperand(receiver) /\ IsOperand(StackTop)

(* An encoded small integer passes the test of operands. *)
LEMMA SmallIntegersAreOperands ==
  \A n \in SmallIntegers : IsOperand(EncodeSmallInteger(n))
BY SmallIntegersRoundTrip DEF IsOperand, IsSmallInteger, IsCharacter

(* A character decodes to the number above its tag, which a small integer is *)
(* made of without loss.                                                     *)
LEMMA CharacterDecoded ==
  ASSUME NEW oop, IsOperand(oop), IsCharacter(oop)
  PROVE  /\ DecodeCharacter(oop) = oop \div Tags
         /\ DecodeSmallInteger(EncodeSmallInteger(oop \div Tags)) = oop \div Tags
         /\ IsSmallInteger(EncodeSmallInteger(oop \div Tags))
<1>1. DecodeCharacter(oop) = oop \div Tags
  BY DEF IsOperand, DecodeCharacter, Signed
<1>2. oop \div Tags \in SmallIntegers
  BY <1>1, DecodesInRange DEF IsOperand, DecodeCharacter, DecodeSmallInteger
<1> QED BY <1>1, <1>2, SmallIntegersRoundTrip

(* Whatever the widths, a number keeps its value when it is made a character *)
(* or an integer, and only a negative one has no character.                  *)
THEOREM CharactersKept == Spec => []CharactersComeBack
<1> DEFINE IInv == OperandsGiven /\ CharactersComeBack
<1>1. Init => IInv
  <2> SUFFICES ASSUME Init PROVE IInv
    OBVIOUS
  <2>1. \A oop \in Operands : IsOperand(oop)
    BY SmallIntegersAreOperands, ArithmeticAssumption DEF Operands, IsOperand
  <2> QED BY <2>1 DEF Init, OperandsGiven, StackTop, CharactersComeBack
<1>2. TypeOK /\ NotYetFailed /\ IInv /\ [Next]_vars => IInv'
  <2> SUFFICES ASSUME TypeOK, NotYetFailed, IInv, [Next]_vars PROVE IInv'
    OBVIOUS
  <2>1. StackTop' = StackTop /\ receiver' = receiver /\ op' = op
    <3>1. UNCHANGED <<op, receiver, arguments>>
      BY DEF Next, vars, GetReceiver, GetArgument, ReturnFailed, ReturnInteger, ReturnBoolean, Abort,
             CompareIdentity, AsCharacter, ImmediateAsInteger
    <3> QED BY <3>1 DEF StackTop
  <2>2. OperandsGiven'
    BY <2>1 DEF OperandsGiven, IsOperand, IsCharacter
  <2>3. IsOperand(StackTop)
    BY DEF OperandsGiven
  <2>4. CASE GetReceiver \/ GetArgument \/ Abort
    BY <2>2, <2>4 DEF GetReceiver, GetArgument, Abort, CharactersComeBack
  <2>5. CASE ReturnFailed \/ ReturnInteger \/ ReturnBoolean \/ CompareIdentity
    <3>1. op \notin Conversions
      BY <2>5 DEF TypeOK, ReturnFailed, ReturnInteger, ReturnBoolean, CompareIdentity, Operations,
                  Divisions, BitWise, Comparisons, Identities, Conversions
    <3> QED BY <2>1, <2>2, <3>1 DEF CharactersComeBack
  <2>6. CASE AsCharacter
    <3> DEFINE n == DecodeSmallInteger(StackTop)
    <3>0. op = "asCharacter" /\ op' = "asCharacter" /\ error = "none"
      BY <2>1, <2>6 DEF AsCharacter, NotYetFailed
    <3>1. n \in SmallIntegers /\ n \in Int /\ (n >= 0 <=> InCharacterRange(n))
      <4>1. n \in SmallIntegers
        BY <2>3, DecodesInRange DEF IsOperand
      <4> HIDE DEF n
      <4> QED BY <4>1, HalfAssumption DEF SmallIntegers, InCharacterRange
    <3>2. CASE IsSmallInteger(StackTop) /\ InCharacterRange(n)
      <4>1. ~IsCharacter(StackTop)
        BY <3>2 DEF IsCharacter, IsSmallInteger
      <4>2. error' = "none" /\ result'.oop = EncodeCharacter(n)
        BY <2>6, <3>0, <3>2, <4>1 DEF AsCharacter
      <4>3. IsCharacter(EncodeCharacter(n)) /\ EncodeCharacter(n) \div Tags = n
        <5> HIDE DEF n
        <5> QED BY <3>1, <3>2, CharacterEncoded, HalfAssumption DEF InCharacterRange
      <4> QED BY <2>1, <2>2, <3>0, <3>1, <3>2, <4>1, <4>2, <4>3 DEF CharactersComeBack, IsCharacter
    <3>3. CASE IsCharacter(StackTop)
      <4>1. ~IsSmallInteger(StackTop)
        BY <3>3 DEF IsCharacter, IsSmallInteger
      <4>2. error' = "none" /\ result'.oop = StackTop
        BY <2>6, <3>0, <3>3, <4>1 DEF AsCharacter
      <4> QED BY <2>1, <2>2, <3>0, <3>3, <4>1, <4>2 DEF CharactersComeBack, IsCharacter
    <3>4. CASE ~IsCharacter(StackTop) /\ ~(IsSmallInteger(StackTop) /\ InCharacterRange(n))
      <4>1. error' = "badReceiver"
        BY <2>6, <3>0, <3>4 DEF AsCharacter, FailWith
      <4> QED BY <2>1, <2>2, <3>0, <3>1, <3>4, <4>1 DEF CharactersComeBack, IsCharacter, IsSmallInteger
    <3> QED BY <3>2, <3>3, <3>4
  <2>7. CASE ImmediateAsInteger
    <3>0. op = "immediateAsInteger" /\ op' = "immediateAsInteger" /\ error = "none"
      BY <2>1, <2>7 DEF ImmediateAsInteger, NotYetFailed
    <3>1. CASE IsSmallInteger(StackTop)
      <4>1. ~IsCharacter(StackTop) /\ ~IsSmallFloat(StackTop)
        BY <3>1 DEF IsCharacter, IsSmallInteger, IsSmallFloat
      <4>2. error' = "none" /\ result'.oop = StackTop
        BY <2>7, <3>0, <3>1, <4>1 DEF ImmediateAsInteger
      <4> QED BY <2>1, <2>2, <3>0, <3>1, <4>1, <4>2 DEF CharactersComeBack, IsCharacter, IsSmallInteger
    <3>2. CASE IsCharacter(StackTop)
      <4>1. ~IsSmallInteger(StackTop) /\ ~IsSmallFloat(StackTop)
        BY <3>2 DEF IsCharacter, IsSmallInteger, IsSmallFloat
      <4>2. error' = "none" /\ result'.oop = EncodeSmallInteger(DecodeCharacter(StackTop))
        BY <2>7, <3>0, <3>2, <4>1 DEF ImmediateAsInteger
      <4>3. /\ result'.oop = EncodeSmallInteger(StackTop \div Tags)
            /\ DecodeSmallInteger(result'.oop) = StackTop \div Tags
            /\ IsSmallInteger(result'.oop)
        BY <2>3, <3>2, <4>2, CharacterDecoded
      <4>4. ~IsCharacter(result'.oop)
        BY <4>3 DEF IsCharacter, IsSmallInteger
      <4> QED BY <2>1, <2>2, <3>0, <3>2, <4>1, <4>2, <4>3, <4>4
              DEF CharactersComeBack, IsCharacter, DecodeSmallInteger, Signed
    <3>3. CASE IsSmallFloat(StackTop)
      <4>1. pc' = "aborted"
        BY <2>7, <3>3 DEF ImmediateAsInteger
      <4> QED BY <2>2, <4>1 DEF CharactersComeBack
    <3>4. CASE ~IsSmallInteger(StackTop) /\ ~IsCharacter(StackTop) /\ ~IsSmallFloat(StackTop)
      <4>1. error' = "badReceiver"
        BY <2>7, <3>0, <3>4 DEF ImmediateAsInteger, FailWith
      <4> QED BY <2>1, <2>2, <3>0, <3>4, <4>1 DEF CharactersComeBack, IsCharacter, IsSmallInteger
    <3> QED BY <3>1, <3>2, <3>3, <3>4
  <2>8. CASE UNCHANGED vars
    BY <2>1, <2>2, <2>8 DEF vars, CharactersComeBack, IsCharacter, DecodeSmallInteger, Signed
  <2> QED BY <2>4, <2>5, <2>6, <2>7, <2>8 DEF Next
<1>3. IInv => CharactersComeBack
  OBVIOUS
<1> QED BY <1>1, <1>2, <1>3, TypeCorrect, FailureIsLater, PTL DEF Spec

-----------------------------------------------------------------------------
(* Failures *)

(* A quotient is no further from 0 than its dividend. *)
LEMMA QuotientBounded ==
  ASSUME NEW a \in Int, NEW b \in Int, b # 0
  PROVE  Quotient(a, b) \in -Abs(a) .. Abs(a)
<1> DEFINE x == Abs(a)
           y == Abs(b)
           k == x \div y
<1>1. x \in Nat /\ y \in Nat /\ y > 0
  BY DEF Abs
<1>2. k \in 0 .. x
  <2> DEFINE m == x % y
             p == k * y
  <2> HIDE DEF x, y
  <2>1. k \in Int /\ p \in Int /\ x = p + m /\ m \in 0 .. y - 1
    BY <1>1
  <2>2. k <= -1 => p <= (-1) * y
    BY <1>1, <2>1, Monotone
  <2>3. k >= 0 => 1 * k <= y * k
    BY <1>1, <2>1, Monotone
  <2>4. y * k = p
    BY <1>1, <2>1
  <2> HIDE DEF k, m, p
  <2> QED BY <1>1, <2>1, <2>2, <2>3, <2>4
<1>3. Quotient(a, b) = k \/ Quotient(a, b) = -k
  BY DEF Quotient
<1> HIDE DEF x, y, k
<1>4. Quotient(a, b) \in -x .. x
  BY <1>1, <1>2, <1>3
<1> QED BY <1>4 DEF x

(* Only one multiple of b is nearer to 0 than b. *)
LEMMA NearestMultiple ==
  ASSUME NEW d \in Int, NEW b \in Int, b # 0, Abs(d * b) < Abs(b)
  PROVE  d = 0
<1>1. d >= 1 => (b > 0 => d * b >= b) /\ (b < 0 => d * b <= b)
  <2>1. b > 0 /\ 1 <= d => 1 * b <= d * b
    BY Monotone
  <2>2. -b \in Nat /\ 1 <= d => 1 * (-b) <= d * (-b)
    BY Monotone
  <2>3. d * (-b) = -(d * b)
    OBVIOUS
  <2> QED BY <2>1, <2>2, <2>3
<1>2. d <= -1 => (b > 0 => d * b <= -b) /\ (b < 0 => d * b >= -b)
  <2>1. b > 0 /\ d <= -1 => d * b <= (-1) * b
    BY Monotone
  <2>2. -b \in Nat /\ d <= -1 => d * (-b) <= (-1) * (-b)
    BY Monotone
  <2>3. d * (-b) = -(d * b)
    OBVIOUS
  <2> QED BY <2>1, <2>2, <2>3
<1> DEFINE p == d * b
<1>3. p \in Int
  OBVIOUS
<1>4. Abs(p) < Abs(b)
  OBVIOUS
<1>5. /\ d >= 1 => (b > 0 => p >= b) /\ (b < 0 => p <= b)
      /\ d <= -1 => (b > 0 => p <= -b) /\ (b < 0 => p >= -b)
  BY <1>1, <1>2
<1> HIDE DEF p
<1> QED BY <1>3, <1>4, <1>5 DEF Abs

(* There is no remainder exactly if the divisor divides. *)
LEMMA Divides ==
  ASSUME NEW a \in SmallIntegers, NEW b \in Int, b # 0
  PROVE  Remainder(a, b) = 0 <=> \E q \in -Half .. Half : q * b = a
<1> DEFINE c == Quotient(a, b)
           r == Remainder(a, b)
<1>1. a \in Int /\ Half \in Nat /\ Abs(a) <= Half
  BY HalfAssumption DEF SmallIntegers, Abs
<1>2. c \in Int /\ c \in -Half .. Half
  <2>1. c \in -Abs(a) .. Abs(a) /\ Abs(a) \in Int
    BY <1>1, QuotientBounded DEF Abs
  <2> HIDE DEF c
  <2> QED BY <1>1, <2>1
<1>3. PICK m \in 0 .. Abs(b) - 1 : r = IF a < 0 THEN -m ELSE m
  BY <1>1, Truncated
<1>4. r \in Int /\ Abs(r) < Abs(b)
  <2> HIDE DEF r
  <2> QED BY <1>3 DEF Abs
<1>5. r = a - b * c
  BY DEF Remainder
<1>6. r = 0 => c * b = a
  <2> HIDE DEF c, r
  <2> QED BY <1>1, <1>2, <1>5
<1>7. ASSUME NEW q \in -Half .. Half, q * b = a
      PROVE  r = 0
  <2> HIDE DEF c, r
  <2>1. q \in Int /\ q - c \in Int
    BY <1>1, <1>2
  <2>2. r = (q - c) * b
    BY <1>2, <1>5, <1>7, <2>1
  <2>3. q - c = 0
    BY <1>4, <2>1, <2>2, NearestMultiple
  <2> QED BY <2>2, <2>3
<1> QED BY <1>2, <1>6, <1>7

(* What a primitive has taken: as long as it has not failed, the operands'   *)
(* values; and it has failed exactly if one of them was not there.           *)
ReceiverTaken ==
  pc = "argument" =>
    /\ error = "none" <=> IsSmallInteger(receiver)
    /\ error = "none" => left = Number

OperandsTaken ==
  pc = "operation" =>
    /\ error = "none" <=>
         IsSmallInteger(receiver) /\ arguments # <<>> /\ IsSmallInteger(arguments[1])
    /\ error = "none" => left = Number /\ right = Other

NoResultYet == pc \in {"receiver", "argument", "operation"} => result = None

(* A primitive refuses the operands its failure is to tell of.               *)
LEMMA RefusedOperands ==
  ASSUME NEW a \in SmallIntegers, NEW b \in SmallIntegers
  PROVE  ~Fails(a, b) <=>
           /\ op \in Divisions => b # 0
           /\ op = "divide" => \E q \in -Half .. Half : q * b = a
<1>1. b \in Int
  BY HalfAssumption DEF SmallIntegers
<1>2. CASE b = 0
  BY <1>2 DEF Fails, Divisions
<1>3. CASE b # 0
  BY <1>1, <1>3, Divides DEF Fails
<1> QED BY <1>2, <1>3

FailureInv == ReceiverTaken /\ OperandsTaken /\ NoResultYet /\ FailsExactly

(* The protocol of failures is kept by every step. *)
LEMMA FailureInvariant == Spec => []FailureInv
<1>1. Init => FailureInv
  BY DEF Init, FailureInv, ReceiverTaken, OperandsTaken, NoResultYet, FailsExactly
<1>2. TypeOK /\ NotYetFailed /\ FailureInv /\ [Next]_vars => FailureInv'
  <2> SUFFICES ASSUME TypeOK, NotYetFailed, FailureInv, [Next]_vars PROVE FailureInv'
    OBVIOUS
  <2> USE DEF FailureInv
  <2>1. UNCHANGED <<op, receiver, arguments>>
    BY DEF Next, vars, GetReceiver, GetArgument, ReturnFailed, ReturnInteger, ReturnBoolean, Abort,
           CompareIdentity, AsCharacter, ImmediateAsInteger
  <2>2. Number' = Number /\ Other' = Other
    BY <2>1 DEF Number, Other
  <2>3. CASE GetReceiver
    <3>1. error = "none" /\ SmallIntegerValue(receiver, left') /\ pc' = "argument"
      BY <2>3 DEF GetReceiver, NotYetFailed
    <3>2. (error' = "none" <=> IsSmallInteger(receiver)) /\ (error' = "none" => left' = Number)
      BY <3>1 DEF SmallIntegerValue, FailWith, Number
    <3>3. result' = None
      BY <2>3 DEF GetReceiver, NoResultYet
    <3> QED BY <2>1, <2>2, <3>1, <3>2, <3>3
            DEF ReceiverTaken, OperandsTaken, NoResultYet, FailsExactly
  <2>4. CASE GetArgument
    <3>1. pc = "argument" /\ pc' = "operation" /\ left' = left
      BY <2>4 DEF GetArgument
    <3>2. result' = None
      BY <2>4, <3>1 DEF GetArgument, NoResultYet
    <3>3. CASE arguments = <<>>
      <4>1. error' # "none"
        BY <2>4, <3>3 DEF GetArgument, FailWith
      <4> QED BY <2>1, <2>2, <3>1, <3>2, <3>3, <4>1
              DEF ReceiverTaken, OperandsTaken, NoResultYet, FailsExactly
    <3>4. CASE arguments # <<>>
      <4>1. SmallIntegerValue(arguments[1], right')
        BY <2>4, <3>4 DEF GetArgument
      <4>2. /\ error' = "none" <=> error = "none" /\ IsSmallInteger(arguments[1])
            /\ error' = "none" => right' = Other
        BY <4>1 DEF SmallIntegerValue, FailWith, Other
      <4> QED BY <2>1, <2>2, <3>1, <3>2, <3>4, <4>2
              DEF ReceiverTaken, OperandsTaken, NoResultYet, FailsExactly
    <3> QED BY <3>3, <3>4
  <2>5. ASSUME pc = "operation", error = "none"
        PROVE  /\ IsSmallInteger(receiver) /\ arguments # <<>> /\ IsSmallInteger(arguments[1])
               /\ left = Number /\ right = Other
               /\ ~Fails(left, right) <=>
                    /\ op \in Divisions => Other # 0
                    /\ op = "divide" => \E q \in -Half .. Half : q * Other = Number
    <3>1. /\ IsSmallInteger(receiver) /\ arguments # <<>> /\ IsSmallInteger(arguments[1])
          /\ left = Number /\ right = Other
      BY <2>5 DEF OperandsTaken
    <3>2. left \in SmallIntegers /\ right \in SmallIntegers
      BY DEF TypeOK
    <3> QED BY <3>1, <3>2, RefusedOperands
  <2>6. CASE ReturnFailed
    <3>1. pc = "operation" /\ pc' = "done" /\ error' # "none" /\ result' = None
      BY <2>6 DEF ReturnFailed, FailWith, NoResultYet
    <3>2. CASE error # "none"
      BY <2>1, <2>2, <3>1, <3>2 DEF ReceiverTaken, OperandsTaken, NoResultYet, FailsExactly
    <3>3. CASE error = "none"
      <4>1. Fails(left, right)
        BY <2>6, <3>3 DEF ReturnFailed
      <4> QED BY <2>1, <2>2, <2>5, <3>1, <3>3, <4>1
              DEF ReceiverTaken, OperandsTaken, NoResultYet, FailsExactly
    <3> QED BY <3>2, <3>3
  <2>7. CASE ReturnInteger
    <3>1. /\ pc = "operation" /\ error = "none" /\ pc' = "done" /\ error' = "none"
          /\ ~Fails(left, right)
      BY <2>7 DEF ReturnInteger
    <3>2. result' # None
      <4>1. PICK n : result' = ForInteger(n)
        BY <2>7 DEF ReturnInteger
      <4>2. result'.kind = "small" \/ result'.kind = "large"
        BY <4>1 DEF ForInteger
      <4>3. None.kind = "none"
        BY DEF None
      <4> QED BY <4>2, <4>3
    <3> QED BY <2>1, <2>2, <2>5, <3>1, <3>2
            DEF ReceiverTaken, OperandsTaken, NoResultYet, FailsExactly
  <2>8. CASE ReturnBoolean
    <3>1. pc = "operation" /\ error = "none" /\ pc' = "done" /\ error' = "none"
      BY <2>8 DEF ReturnBoolean
    <3>2. op \notin Divisions /\ op # "divide"
      BY <2>8 DEF ReturnBoolean, Comparisons, Divisions
    <3>3. result' # None
      <4>1. result'.kind = "boolean" /\ None.kind = "none"
        BY <2>8 DEF ReturnBoolean, None
      <4> QED BY <4>1
    <3> QED BY <2>1, <2>2, <2>5, <3>1, <3>2, <3>3
            DEF ReceiverTaken, OperandsTaken, NoResultYet, FailsExactly
  <2>9. CASE Abort
    BY <2>9 DEF Abort, ReceiverTaken, OperandsTaken, NoResultYet, FailsExactly
  <2>10. CASE CompareIdentity \/ AsCharacter \/ ImmediateAsInteger
    <3>1. op \notin Operations
      BY <2>10 DEF CompareIdentity, AsCharacter, ImmediateAsInteger, Operations, Divisions, BitWise,
                   Comparisons, Identities
    <3>2. pc' \in {"done", "aborted"}
      BY <2>10 DEF CompareIdentity, AsCharacter, ImmediateAsInteger
    <3> QED BY <2>1, <3>1, <3>2 DEF ReceiverTaken, OperandsTaken, NoResultYet, FailsExactly
  <2>11. CASE UNCHANGED vars
    <3>1. UNCHANGED <<pc, error, left, right, result>>
      BY <2>11 DEF vars
    <3> QED BY <2>1, <2>2, <3>1 DEF ReceiverTaken, OperandsTaken, NoResultYet, FailsExactly
  <2> QED BY <2>3, <2>4, <2>6, <2>7, <2>8, <2>9, <2>10, <2>11 DEF Next
<1> QED BY <1>1, <1>2, TypeCorrect, FailureIsLater, PTL DEF Spec

(* Whatever the operands, a primitive fails exactly for those it cannot take,*)
(* and leaves no result then.                                                *)
THEOREM FailuresAreExact == Spec => []FailsExactly
<1>1. FailureInv => FailsExactly
  BY DEF FailureInv
<1> QED BY <1>1, FailureInvariant, PTL

-----------------------------------------------------------------------------
(* Answers *)

(* A number that fits a word with its sign is that word's value. *)
LEMMA WrapsExactly ==
  ASSUME NEW n \in IntPtr
  PROVE  Wrapped(n) = n
<1> DEFINE P == Half * Tags
<1>1. P \in Nat /\ P > 0 /\ Word = P + P /\ n \in -P .. P - 1
  <2>1. P \in Nat /\ P > 0
    <3>1. 1 * Tags <= Half * Tags
      BY TagsAssumption, HalfAssumption, Monotone
    <3>2. P \in Nat
      BY TagsAssumption, HalfAssumption
    <3> HIDE DEF P
    <3>3. Tags <= P
      BY <3>1, TagsAssumption DEF P
    <3> QED BY <3>2, <3>3, TagsAssumption
  <2> QED BY <2>1, TagsAssumption, HalfAssumption DEF Word, IntPtr
<1>2. Wrapped(n) = IF n % (P + P) < P THEN n % (P + P) ELSE (n % (P + P)) - (P + P)
  BY <1>1 DEF Wrapped, Signed
<1> HIDE DEF P
<1>3. /\ n \in 0 .. (P + P) - 1 => n % (P + P) = n
      /\ n \in -(P + P) .. -1 => n % (P + P) = n + (P + P)
  BY <1>1, Wrap
<1> QED BY <1>1, <1>2, <1>3

(* What quo promises of the quotient. *)
LEMMA TruncatedQuotient ==
  ASSUME NEW a \in Int, NEW b \in Int, b # 0
  PROVE  LET v == Quotient(a, b)
         IN  /\ Abs(v * b) <= Abs(a) /\ Abs(a) < Abs(v * b) + Abs(b)
             /\ v # 0 => (v < 0) = ((a < 0) # (b < 0))
<1> DEFINE v == Quotient(a, b)
           x == Abs(a)
           y == Abs(b)
           k == x \div y
           m == x % y
           p == k * y
<1>1. x \in Nat /\ y \in Nat /\ y > 0
  BY DEF Abs
<1>2. k \in Int /\ p \in Int /\ m \in 0 .. y - 1 /\ x = p + m
  <2> HIDE DEF x, y
  <2> QED BY <1>1
<1>3. k >= 0 /\ p >= 0
  <2> HIDE DEF x, y, k, m
  <2>1. k <= -1 => p <= (-1) * y
    BY <1>1, <1>2, Monotone
  <2>2. k >= 0 => 0 * y <= p
    BY <1>1, <1>2, Monotone
  <2> HIDE DEF p
  <2> QED BY <1>1, <1>2, <2>1, <2>2
<1>4. v = IF (a < 0) = (b < 0) THEN k ELSE -k
  BY DEF Quotient
<1>5. b = y \/ b = -y
  BY DEF Abs
<1>6. v * b = p \/ v * b = -p
  <2>1. k * (-y) = -p /\ (-k) * y = -p /\ (-k) * (-y) = p
    <3> HIDE DEF x, y, k
    <3> QED BY <1>1, <1>2
  <2>2. v = k \/ v = -k
    BY <1>4
  <2> HIDE DEF v, x, y, k
  <2> QED BY <1>5, <2>1, <2>2
<1>7. Abs(v * b) = p
  <2> DEFINE w == v * b
  <2>1. w = p \/ w = -p
    BY <1>6
  <2> HIDE DEF w, p
  <2>2. Abs(w) = p
    BY <1>2, <1>3, <2>1 DEF Abs
  <2> QED BY <2>2 DEF w
<1>8. v # 0 => (v < 0) = ((a < 0) # (b < 0))
  <2> HIDE DEF v, k
  <2> QED BY <1>2, <1>3, <1>4
<1>9. p <= x /\ x < p + y
  <2> HIDE DEF x, y, m, p
  <2> QED BY <1>1, <1>2
<1> QED BY <1>7, <1>8, <1>9

(* The quotient that fits a remainder is not greater than the dividend. *)
LEMMA FlooredQuotientBounded ==
  ASSUME NEW a \in SmallIntegers, NEW b \in Int, b # 0, NEW q \in Int, NEW r \in Int,
         a = q * b + r, r \in (IF b > 0 THEN 0 .. b - 1 ELSE b + 1 .. 0)
  PROVE  q \in -Half .. Half
<1> DEFINE p == q * b
<1>1. a \in Int /\ -Half <= a /\ a <= Half - 1 /\ Half \in Nat /\ p \in Int /\ a = p + r
  BY HalfAssumption DEF SmallIntegers
<1>2. CASE b > 0
  <2>1. q >= Half + 1 => (Half + 1) * b <= p
    BY <1>1, <1>2, Monotone
  <2>2. q <= -Half - 1 => p <= (-Half - 1) * b
    BY <1>1, <1>2, Monotone
  <2>3. (Half + 1) * 1 <= (Half + 1) * b
    <3>1. 1 * (Half + 1) <= b * (Half + 1)
      BY <1>1, <1>2, Monotone
    <3> QED BY <1>1, <3>1
  <2> DEFINE h == Half * b
  <2>4. (Half + 1) * b = h + b /\ (-Half - 1) * b = -h - b /\ h \in Int
    BY <1>1
  <2> HIDE DEF p, h
  <2>5. Half + 1 <= h + b
    BY <1>1, <2>3, <2>4
  <2>6. Half <= h
    <3>1. Half * 1 <= Half * b
      <4>1. 1 * Half <= b * Half
        BY <1>1, <1>2, Monotone
      <4> QED BY <1>1, <4>1
    <3> QED BY <1>1, <3>1 DEF h
  <2>7. (q >= Half + 1 => h + b <= p) /\ (q <= -Half - 1 => p <= -h - b)
    BY <2>1, <2>2, <2>4
  <2> QED BY <1>1, <1>2, <2>4, <2>5, <2>6, <2>7
<1>3. CASE b < 0
  <2> DEFINE c == -b
             h == Half * c
  <2>0. c \in Nat /\ c >= 1 /\ b = -c /\ p = -(q * c)
    BY <1>3
  <2>1. q >= Half + 1 => (Half + 1) * c <= q * c
    <3> HIDE DEF c
    <3> QED BY <1>1, <2>0, Monotone
  <2>2. q <= -Half - 1 => q * c <= (-Half - 1) * c
    <3> HIDE DEF c
    <3> QED BY <1>1, <2>0, Monotone
  <2>4. (Half + 1) * c = h + c /\ (-Half - 1) * c = -h - c /\ h \in Int
    <3> HIDE DEF c
    <3> QED BY <1>1, <2>0
  <2>6. Half <= h
    <3> HIDE DEF c
    <3>1. 1 * Half <= c * Half
      BY <1>1, <2>0, Monotone
    <3> QED BY <1>1, <2>0, <3>1
  <2> DEFINE s == q * c
  <2>7. s \in Int /\ p = -s
    <3> HIDE DEF c
    <3> QED BY <2>0
  <2>8. (q >= Half + 1 => h + c <= s) /\ (q <= -Half - 1 => s <= -h - c)
    BY <2>1, <2>2, <2>4
  <2> HIDE DEF p, s, h, c
  <2> QED BY <1>1, <1>3, <2>0, <2>4, <2>6, <2>7, <2>8
<1> QED BY <1>2, <1>3

-----------------------------------------------------------------------------
(* The bits of a word *)

(* A set of naturals that is bounded and not empty has a greatest element.   *)
LEMMA GreatestOf ==
  ASSUME NEW b \in Nat, NEW S \in SUBSET (0 .. b), S # {}
  PROVE  \E n \in S : \A m \in S : m <= n
<1> DEFINE C == {n \in Nat : n <= b /\ b - n \in S}
           R == {p \in Nat \X Nat : p[1] < p[2]}
<1>1. C \in SUBSET Nat /\ C # {}
  <2>1. PICK x \in S : TRUE
    OBVIOUS
  <2>2. b - x \in Nat /\ b - x <= b /\ b - (b - x) = x
    OBVIOUS
  <2> QED BY <2>1, <2>2
<1>2. IsWellFoundedOn(R, Nat)
  BY NatLessThanWellFounded DEF OpToRel
<1>3. \A x, y \in Nat : <<y, x>> \in R <=> y < x
  OBVIOUS
<1> HIDE DEF R
<1>4. PICK n \in C : \A m \in C : <<m, n>> \notin R
  BY <1>1, <1>2, WFMin
<1>5. n \in Nat /\ b - n \in S
  OBVIOUS
<1>6. ASSUME NEW m \in S PROVE m <= b - n
  <2>1. b - m \in C
    <3>1. b - m \in Nat /\ b - m <= b /\ b - (b - m) = m
      OBVIOUS
    <3> QED BY <3>1
  <2>2. ~(b - m < n)
    <3>1. b - m \in Nat
      BY <2>1
    <3> QED BY <1>3, <1>4, <1>5, <2>1, <3>1
  <2> QED BY <1>5, <2>2
<1> QED BY <1>5, <1>6

(* What the powers of two up to one of them are. *)
Doubling(P, w) ==
  /\ \A k \in 0 .. w : P[k] \in Nat \ {0}
  /\ \A k \in 0 .. w - 1 : P[k + 1] = 2 * P[k]

(* The last of the numbers is a multiple of every one.                       *)
LEMMA MultipleOf ==
  ASSUME NEW w \in Nat, NEW P, Doubling(P, w), NEW k \in 0 .. w
  PROVE  \E m \in Nat \ {0} : P[w] = P[k] * m
<1> DEFINE Has(j) == \E m \in Nat \ {0} : P[w] = P[j] * m
           Bad == {j \in 0 .. w : ~Has(j)}
<1>1. Has(w)
  <2>1. P[w] \in Nat /\ P[w] = P[w] * 1
    BY DEF Doubling
  <2> QED BY <2>1
<1> SUFFICES ASSUME Bad # {} PROVE FALSE
  OBVIOUS
<1>2. PICK j \in Bad : \A i \in Bad : i <= j
  BY GreatestOf
<1>3. j \in 0 .. w - 1 /\ j + 1 \in 0 .. w /\ j + 1 \notin Bad
  <2>1. j # w
    BY <1>1
  <2>2. j \in 0 .. w
    OBVIOUS
  <2>3. j + 1 \notin Bad
    <3>1. ~(j + 1 <= j)
      BY <2>2
    <3> QED BY <1>2, <3>1
  <2> QED BY <2>1, <2>2, <2>3
<1>4. PICK m \in Nat \ {0} : P[w] = P[j + 1] * m
  BY <1>3
<1>5. P[j + 1] = 2 * P[j] /\ P[j] \in Nat
  BY <1>3 DEF Doubling
<1>6. 2 * m \in Nat \ {0} /\ P[w] = P[j] * (2 * m)
  <2> DEFINE p == P[j]
  <2>1. p \in Nat /\ P[w] = (2 * p) * m
    BY <1>4, <1>5
  <2> HIDE DEF p
  <2>2. P[w] = p * (2 * m) /\ 2 * m \in Nat \ {0}
    BY <2>1
  <2> QED BY <2>2 DEF p
<1> QED BY <1>6

(* An even one, but for the last itself. *)
LEMMA EvenMultipleOf ==
  ASSUME NEW w \in Nat, NEW P, Doubling(P, w), NEW k \in 0 .. w - 1
  PROVE  \E m \in Nat \ {0} : P[w] = P[k] * (2 * m)
<1>1. PICK m \in Nat \ {0} : P[w] = P[k + 1] * m
  BY MultipleOf
<1>2. P[k + 1] = 2 * P[k] /\ P[k] \in Nat
  BY DEF Doubling
<1> DEFINE p == P[k]
<1>3. p \in Nat /\ P[w] = (2 * p) * m
  BY <1>1, <1>2
<1> HIDE DEF p
<1>4. P[w] = p * (2 * m)
  BY <1>3
<1> QED BY <1>4 DEF p

(* None is greater than a later one. *)
LEMMA Growing ==
  ASSUME NEW w \in Nat, NEW P, Doubling(P, w), NEW j \in 0 .. w, NEW k \in 0 .. w, j <= k
  PROVE  P[j] <= P[k]
<1> DEFINE Bad == {i \in 0 .. k : ~(P[i] <= P[k])}
<1> SUFFICES ASSUME Bad # {} PROVE FALSE
  OBVIOUS
<1>1. PICK i \in Bad : \A n \in Bad : n <= i
  <2>1. k \in Nat /\ Bad \in SUBSET (0 .. k)
    OBVIOUS
  <2> HIDE DEF Bad
  <2> QED BY <2>1, GreatestOf
<1>2. P[k] \in Nat
  BY DEF Doubling
<1>3. i \in 0 .. k /\ i # k /\ k <= w
  BY <1>2
<1>4. i + 1 \in 0 .. k /\ i + 1 \notin Bad
  <2>1. i + 1 \in 0 .. k /\ ~(i + 1 <= i)
    BY <1>3
  <2> QED BY <1>1, <2>1
<1>5. P[i + 1] <= P[k]
  BY <1>4
<1>6. P[i + 1] = 2 * P[i] /\ P[i] \in Nat
  <2>1. i \in 0 .. w - 1 /\ i \in 0 .. w
    BY <1>3
  <2> QED BY <2>1 DEF Doubling
<1>7. P[i] <= P[k]
  BY <1>2, <1>5, <1>6
<1> QED BY <1>7

(* The bit of p, a power of two, in u. *)
Bit(u, p) == (u \div p) % 2

(* A number from p to 2p has the bit of p. *)
LEMMA BitBetween ==
  ASSUME NEW p \in Nat \ {0}, NEW u \in Nat, p <= u, u < 2 * p
  PROVE  Bit(u, p) = 1
<1>1. u \div p = 1
  <2>1. u = 1 * p + (u - p) /\ u - p \in 0 .. p - 1
    OBVIOUS
  <2> QED BY <2>1, DivMod
<1> QED BY <1>1 DEF Bit

(* The highest bit of a number that is not below P[s]. *)
LEMMA HighestBit ==
  ASSUME NEW w \in Nat, NEW P, Doubling(P, w), NEW s \in 0 .. w,
         NEW u \in Nat, P[s] <= u, u < P[w]
  PROVE  \E k \in s .. w - 1 : P[k] <= u /\ u < 2 * P[k]
<1> DEFINE G == {k \in 0 .. w : s <= k /\ P[k] <= u}
<1>1. G # {} /\ G \in SUBSET (0 .. w)
  OBVIOUS
<1>2. PICK k \in G : \A n \in G : n <= k
  <2> HIDE DEF G
  <2> QED BY <1>1, GreatestOf
<1>3. k \in 0 .. w /\ s <= k /\ P[k] <= u
  OBVIOUS
<1>4. k # w
  <2>1. P[w] \in Nat
    BY DEF Doubling
  <2> QED BY <1>3, <2>1
<1>5. k \in 0 .. w - 1 /\ k + 1 \in 0 .. w /\ k + 1 \notin G
  <2>1. ~(k + 1 <= k) /\ k \in 0 .. w - 1 /\ k + 1 \in 0 .. w
    BY <1>3, <1>4
  <2> HIDE DEF G
  <2> QED BY <1>2, <2>1
<1>6. P[k + 1] = 2 * P[k] /\ P[k] \in Nat
  BY <1>3, <1>5 DEF Doubling
<1>7. ~(P[k + 1] <= u)
  BY <1>3, <1>5
<1>8. u < 2 * P[k]
  BY <1>6, <1>7
<1>9. k \in s .. w - 1
  BY <1>3, <1>5
<1> QED BY <1>3, <1>8, <1>9

(* A number below P[s] has no bit from s on, ... *)
LEMMA BitsBelow ==
  ASSUME NEW w \in Nat, NEW P, Doubling(P, w), NEW s \in 0 .. w,
         NEW u \in Nat, u < P[s], NEW k \in s .. w - 1
  PROVE  Bit(u, P[k]) = 0
<1>1. k \in 0 .. w /\ s <= k
  OBVIOUS
<1>2. P[k] \in Nat \ {0} /\ P[s] \in Nat
  BY <1>1 DEF Doubling
<1>3. P[s] <= P[k]
  BY <1>1, Growing
<1>4. u \div P[k] = 0
  <2>1. u = 0 * P[k] + u /\ u \in 0 .. P[k] - 1
    BY <1>2, <1>3
  <2> QED BY <1>2, <2>1, DivMod
<1> QED BY <1>4 DEF Bit

(* ... one that P[s] more would carry over the end has all of them, ... *)
LEMMA BitsBelowAll ==
  ASSUME NEW w \in Nat, NEW P, Doubling(P, w), NEW s \in 0 .. w,
         NEW u \in Nat, P[w] - P[s] <= u, u < P[w], NEW k \in s .. w - 1
  PROVE  Bit(u, P[k]) = 1
<1>1. k \in 0 .. w - 1 /\ k \in 0 .. w /\ s <= k
  OBVIOUS
<1>2. P[k] \in Nat \ {0} /\ P[s] \in Nat
  BY <1>1 DEF Doubling
<1>3. P[s] <= P[k]
  BY <1>1, Growing
<1>4. PICK m \in Nat \ {0} : P[w] = P[k] * (2 * m)
  BY <1>1, EvenMultipleOf
<1> DEFINE p == P[k]
           q == p * (2 * m)
           i == 2 * m - 1
<1>5. i \in Nat /\ i % 2 = 1
  OBVIOUS
<1>6. p \in Nat \ {0} /\ p > 0 /\ q \in Nat /\ i * p = q - p
  <2>1. p \in Nat \ {0}
    BY <1>2
  <2> HIDE DEF p
  <2> QED BY <2>1
<1>7. q - p <= u /\ u < q
  <2> DEFINE g == P[w]
             h == P[s]
  <2>1. g = q /\ h <= p /\ g - h <= u /\ u < g /\ h \in Nat
    BY <1>2, <1>3, <1>4
  <2> HIDE DEF g, h, p, q
  <2> QED BY <1>6, <2>1
<1> HIDE DEF q
<1>8. u \div p = i
  <2> HIDE DEF p, i
  <2>1. u - (q - p) \in 0 .. p - 1 /\ u = i * p + (u - (q - p))
    <3> DEFINE x == i * p
    <3>1. x = q - p
      BY <1>6
    <3> HIDE DEF x
    <3>2. u - (q - p) \in 0 .. p - 1 /\ u = x + (u - (q - p))
      BY <1>6, <1>7, <3>1
    <3> QED BY <3>2 DEF x
  <2> QED BY <1>5, <1>6, <2>1, DivMod
<1> QED BY <1>5, <1>8 DEF Bit

(* ... and there are no other numbers without any or with all. *)
LEMMA NoBitsAbove ==
  ASSUME NEW w \in Nat, NEW P, Doubling(P, w), NEW s \in 0 .. w,
         NEW u \in Nat, u < P[w], \A k \in s .. w - 1 : Bit(u, P[k]) = 0
  PROVE  u < P[s]
<1> SUFFICES ASSUME P[s] <= u PROVE FALSE
  <2>1. P[s] \in Nat
    BY DEF Doubling
  <2> QED BY <2>1
<1>1. PICK k \in s .. w - 1 : P[k] <= u /\ u < 2 * P[k]
  BY HighestBit
<1>2. P[k] \in Nat \ {0}
  <2>1. k \in 0 .. w
    OBVIOUS
  <2> QED BY <2>1 DEF Doubling
<1>3. Bit(u, P[k]) = 1
  BY <1>1, <1>2, BitBetween
<1> QED BY <1>3

(* A number whose bits from s up to its width are set is at least their sum. *)
LEMMA AllBitsAbove ==
  ASSUME NEW w \in Nat, NEW P, Doubling(P, w), NEW s \in 0 .. w,
         NEW u \in Nat, u < P[w], \A k \in s .. w - 1 : Bit(u, P[k]) = 1
  PROVE  P[w] - P[s] <= u
<1>0. P[s] \in Nat \ {0} /\ P[w] \in Nat \ {0}
  BY DEF Doubling
<1> DEFINE c == P[w] - 1 - u
<1> SUFFICES ASSUME u < P[w] - P[s] PROVE FALSE
  BY <1>0
<1>1. c \in Nat /\ P[s] <= c /\ c < P[w]
  BY <1>0
<1>2. PICK k \in s .. w - 1 : P[k] <= c /\ c < 2 * P[k]
  <2> HIDE DEF c
  <2> QED BY <1>1, HighestBit
<1>3. k \in 0 .. w - 1 /\ k \in 0 .. w
  OBVIOUS
<1>4. PICK m \in Nat \ {0} : P[w] = P[k] * (2 * m)
  BY <1>3, EvenMultipleOf
<1> DEFINE p == P[k]
           q == p * (2 * m)
           i == 2 * m - 2
<1>5. i \in Nat /\ i % 2 = 0
  OBVIOUS
<1>6. p \in Nat \ {0} /\ p > 0 /\ q \in Nat /\ i * p = q - 2 * p
  <2>1. p \in Nat \ {0}
    BY <1>3 DEF Doubling
  <2> HIDE DEF p
  <2> QED BY <2>1
<1>7. u - (q - 2 * p) \in 0 .. p - 1
  <2> DEFINE g == P[w]
  <2>1. g = q /\ p <= g - 1 - u /\ g - 1 - u < 2 * p
    BY <1>2, <1>4
  <2> HIDE DEF g, p, q
  <2> QED BY <1>6, <2>1
<1> HIDE DEF q, c
<1>8. u \div p = i
  <2> HIDE DEF p, i
  <2>1. u = i * p + (u - (q - 2 * p))
    <3> DEFINE x == i * p
    <3>1. x = q - 2 * p
      BY <1>6
    <3> HIDE DEF x
    <3>2. u = x + (u - (q - 2 * p))
      BY <1>6, <3>1
    <3> QED BY <3>2 DEF x
  <2> QED BY <1>5, <1>6, <1>7, <2>1, DivMod
<1>9. Bit(u, P[k]) = 0
  BY <1>5, <1>8 DEF Bit
<1> QED BY <1>9

(* The powers of two of a word. *)
Powers == [k \in 0 .. WordBits |-> 2^k]

(* A small integer is a word. *)
LEMMA SmallIntegersFit ==
  ASSUME NEW n \in SmallIntegers
  PROVE  n \in IntPtr
<1>1. Half \in Nat \ {0} /\ Tags \in Nat /\ Tags > 4 /\ n \in Int /\ -Half <= n /\ n < Half
  BY HalfAssumption, TagsAssumption DEF SmallIntegers
<1> DEFINE h == Half * Tags
<1>2. h \in Nat /\ Half <= h
  <2>1. 1 * Half <= Tags * Half
    BY <1>1, Monotone
  <2> DEFINE x == Tags * Half
  <2>2. h = x /\ x \in Nat /\ Half <= x
    BY <1>1, <2>1
  <2> QED BY <2>2
<1>3. -h <= n /\ n <= h - 1
  <2> HIDE DEF h
  <2> QED BY <1>1, <1>2
<1> QED BY <1>1, <1>2, <1>3 DEF IntPtr

(* The powers of two up to the width of a word double, up to the word itself. *)
LEMMA PowersDouble ==
  /\ Doubling(Powers, WordBits) /\ Powers[WordBits] = Word /\ WordBits \in Nat
  /\ \A k \in 0 .. WordBits : Powers[k] = 2^k
<1>1. \A k \in 0 .. WordBits : Powers[k] = 2^k
  BY DEF Powers
<1>2. WordBits \in Nat /\ Word = 2^WordBits
  BY ArithmeticAssumption
<1>3. \A k \in 0 .. WordBits : Powers[k] \in Nat \ {0}
  BY <1>1, ArithmeticAssumption
<1>4. ASSUME NEW k \in 0 .. WordBits - 1 PROVE Powers[k + 1] = 2 * Powers[k]
  <2>1. k \in 0 .. WordBits /\ k + 1 \in 0 .. WordBits
    BY <1>2
  <2>2. 2^(k + 1) = 2 * 2^k
    BY ArithmeticAssumption
  <2> QED BY <1>1, <2>1, <2>2
<1> QED BY <1>1, <1>2, <1>3, <1>4 DEF Doubling

(* The bits of an integer are the digits of the word it is passed in. *)
LEMMA BitMembers ==
  ASSUME NEW n \in Int, NEW k \in 0 .. WordBits - 1
  PROVE  k \in BitsOf(n) <=> Bit(n % Word, Powers[k]) = 1
<1>1. k \in 0 .. WordBits
  BY ArithmeticAssumption
<1>2. Powers[k] = 2^k
  BY <1>1, PowersDouble
<1> QED BY <1>2 DEF BitsOf, Bit

(* A word is a small integer if its bits from that of Half on are the same:  *)
(* none of them in one that is not negative, all in a negative one.           *)
LEMMA SmallByBits ==
  ASSUME NEW s \in 0 .. WordBits - 1, Half = 2^s, NEW n \in IntPtr
  PROVE  n \in SmallIntegers <=> \/ \A k \in s .. WordBits - 1 : k \notin BitsOf(n)
                                \/ \A k \in s .. WordBits - 1 : k \in BitsOf(n)
<1> DEFINE u == n % Word
           h == Half * Tags
<1>0. /\ Half \in Nat \ {0} /\ Tags \in Nat /\ h \in Nat /\ Word = 2 * h /\ Half < h
      /\ n \in Int /\ -h <= n /\ n < h
  <2>1. Half \in Nat \ {0} /\ Tags \in Nat /\ Tags > 4
    BY HalfAssumption, TagsAssumption
  <2>2. h \in Nat /\ Half < h
    <3>1. 4 * Half <= Tags * Half
      BY <2>1, Monotone
    <3> DEFINE x == Tags * Half
    <3>2. h = x /\ x \in Nat /\ 4 * Half <= x
      BY <2>1, <3>1
    <3> HIDE DEF x, h
    <3> QED BY <2>1, <3>2
  <2>3. Word = 2 * h
    BY <2>1 DEF Word
  <2> QED BY <2>1, <2>2, <2>3 DEF IntPtr
<1>1. u \in Nat /\ u < Word /\ (n >= 0 => u = n) /\ (n < 0 => u = n + Word)
  <2> HIDE DEF h
  <2>1. Word \in Nat /\ Word > 0 /\ (n \in 0 .. Word - 1 \/ n \in -Word .. -1)
    BY <1>0
  <2>2. u = n \/ u = n + Word
    BY <2>1, <1>0, Wrap
  <2>3. n >= 0 => u = n
    <3>1. n >= 0 => n \in 0 .. Word - 1
      BY <1>0
    <3> QED BY <3>1, <2>1, <1>0, Wrap
  <2>4. n < 0 => u = n + Word
    <3>1. n < 0 => n \in -Word .. -1
      BY <1>0
    <3> QED BY <3>1, <2>1, <1>0, Wrap
  <2> HIDE DEF u
  <2> QED BY <2>1, <2>3, <2>4, <1>0
<1>2. n \in SmallIntegers <=> u < Half \/ Word - Half <= u
  <2> HIDE DEF u, h
  <2> QED BY <1>0, <1>1 DEF SmallIntegers
<1>3. /\ Doubling(Powers, WordBits) /\ Powers[WordBits] = Word /\ WordBits \in Nat
      /\ Powers[s] = Half /\ s \in 0 .. WordBits
  <2>1. s \in 0 .. WordBits
    BY ArithmeticAssumption
  <2> QED BY <2>1, PowersDouble
<1>4. ASSUME NEW k \in s .. WordBits - 1
      PROVE  k \in BitsOf(n) <=> Bit(u, Powers[k]) = 1
  <2>1. k \in 0 .. WordBits - 1
    BY <1>3
  <2> QED BY <1>0, <2>1, BitMembers
<1> HIDE DEF u
<1>5. ASSUME NEW k \in s .. WordBits - 1
      PROVE  Bit(u, Powers[k]) \in {0, 1}
  <2>1. Powers[k] \in Nat \ {0}
    <3>1. k \in 0 .. WordBits
      BY <1>3
    <3> QED BY <1>3, <3>1 DEF Doubling
  <2> QED BY <1>1, <2>1 DEF Bit
<1>6. ASSUME u < Half, NEW k \in s .. WordBits - 1 PROVE k \notin BitsOf(n)
  <2>1. Bit(u, Powers[k]) = 0
    BY <1>1, <1>3, <1>6, BitsBelow
  <2> QED BY <1>4, <2>1
<1>7. ASSUME Word - Half <= u, NEW k \in s .. WordBits - 1 PROVE k \in BitsOf(n)
  <2>1. Bit(u, Powers[k]) = 1
    BY <1>1, <1>3, <1>7, BitsBelowAll
  <2> QED BY <1>4, <2>1
<1>8. ASSUME \A k \in s .. WordBits - 1 : k \notin BitsOf(n) PROVE u < Half
  <2>1. \A k \in s .. WordBits - 1 : Bit(u, Powers[k]) = 0
    BY <1>4, <1>5, <1>8
  <2> QED BY <1>1, <1>3, <2>1, NoBitsAbove
<1>9. ASSUME \A k \in s .. WordBits - 1 : k \in BitsOf(n) PROVE Word - Half <= u
  <2>1. \A k \in s .. WordBits - 1 : Bit(u, Powers[k]) = 1
    BY <1>4, <1>9
  <2> QED BY <1>1, <1>3, <2>1, AllBitsAbove
<1> QED BY <1>2, <1>6, <1>7, <1>8, <1>9

(* Bitwise operations keep the bits above equal if those of both operands are.*)
LEMMA BitwiseStaysSmall ==
  ASSUME NEW a \in SmallIntegers, NEW b \in SmallIntegers, NEW v \in IntPtr,
         \/ BitsOf(v) = BitsOf(a) \cap BitsOf(b)
         \/ BitsOf(v) = BitsOf(a) \cup BitsOf(b)
         \/ BitsOf(v) = (BitsOf(a) \ BitsOf(b)) \cup (BitsOf(b) \ BitsOf(a))
  PROVE  v \in SmallIntegers
<1>1. PICK s \in 0 .. WordBits - 1 : Half = 2^s
  BY ArithmeticAssumption
<1>2. a \in IntPtr /\ b \in IntPtr
  BY SmallIntegersFit
<1> DEFINE None0(x) == \A k \in s .. WordBits - 1 : k \notin BitsOf(x)
           All1(x)  == \A k \in s .. WordBits - 1 : k \in BitsOf(x)
<1>3. (None0(a) \/ All1(a)) /\ (None0(b) \/ All1(b))
  BY <1>1, <1>2, SmallByBits
<1>4. None0(v) \/ All1(v)
  BY <1>3
<1> QED BY <1>1, <1>4, SmallByBits

-----------------------------------------------------------------------------
(* The results *)

(* What a shift right promises of its result. *)
LEMMA ShiftRounds ==
  ASSUME NEW a \in Int, NEW t \in Nat \ {0}
  PROVE  (a \div t) * t <= a /\ a < (a \div t + 1) * t
OBVIOUS

(* A number a primitive comes to is the result of the operation.             *)
LEMMA ValuesAreResults ==
  ASSUME NEW a \in SmallIntegers, NEW b \in SmallIntegers,
         op \in Operations \ Comparisons, ~Fails(a, b),
         op = "bitShift" => b # 0,
         NEW v \in Values(a, b)
  PROVE  IsResult(v, a, b)
<1>0. a \in Int /\ b \in Int /\ Half \in Nat
  BY HalfAssumption DEF SmallIntegers
<1>1. op \in Divisions => b # 0
  BY DEF Fails
<1>2. CASE op = "add" \/ op = "subtract"
  BY <1>2 DEF Values, IsResult
<1>3. CASE op = "multiply"
  BY <1>3, WrapsExactly DEF Values, IsResult
<1>4. CASE op = "divide"
  <2>1. v = Quotient(a, b) /\ b # 0 /\ Remainder(a, b) = 0
    BY <1>1, <1>4 DEF Values, Fails, Divisions
  <2>2. Quotient(a, b) \in Int
    BY <1>0, <2>1, Truncated
  <2>3. v * b = a
    <3>1. a - b * v = 0 /\ v \in Int
      BY <2>1, <2>2 DEF Remainder
    <3> QED BY <1>0, <3>1
  <2> QED BY <1>4, <2>3 DEF IsResult
<1>5. CASE op \in {"div", "mod"}
  <2> DEFINE q == FlooredQuotient(a, b)
             r == FlooredRemainder(a, b)
  <2>1. b # 0
    BY <1>1, <1>5 DEF Divisions
  <2>2. a = b * q + r /\ r \in (IF b > 0 THEN 0 .. b - 1 ELSE b + 1 .. 0)
    BY <1>0, <2>1, FlooredDivision
  <2>3. q \in Int /\ r \in Int
    <3>1. Quotient(a, b) \in Int
      BY <1>0, <2>1, Truncated
    <3>2. q \in Int
      BY <3>1 DEF FlooredQuotient
    <3> HIDE DEF q, r
    <3> QED BY <1>0, <2>2, <3>2
  <2>4. a = q * b + r /\ q * b \in Int
    <3> HIDE DEF q, r
    <3> QED BY <1>0, <2>2, <2>3
  <2>5. q \in -Half .. Half
    <3> HIDE DEF q, r
    <3> QED BY <1>0, <2>1, <2>2, <2>3, <2>4, FlooredQuotientBounded
  <2>6. a - q * b = r /\ q * b = a - r
    <3> DEFINE p == q * b
    <3>1. p \in Int /\ a = p + r
      BY <2>4
    <3> HIDE DEF p, q, r
    <3>2. a - p = r /\ p = a - r
      BY <1>0, <2>3, <3>1
    <3> QED BY <3>2 DEF p
  <2>7. CASE op = "div"
    <3>1. v = q
      BY <2>7 DEF Values
    <3>2. a - v * b \in (IF b > 0 THEN 0 .. b - 1 ELSE b + 1 .. 0)
      BY <2>2, <2>6, <3>1
    <3> QED BY <2>7, <3>2 DEF IsResult
  <2>8. CASE op = "mod"
    <3>1. v = r
      BY <2>8 DEF Values
    <3>2. v \in (IF b > 0 THEN 0 .. b - 1 ELSE b + 1 .. 0)
      BY <2>2, <3>1
    <3>3. \E n \in -Half .. Half : n * b = a - v
      BY <2>5, <2>6, <3>1
    <3> QED BY <2>8, <3>2, <3>3 DEF IsResult
  <2> QED BY <1>5, <2>7, <2>8
<1>6. CASE op = "quo"
  <2>1. v = Quotient(a, b) /\ b # 0
    BY <1>1, <1>6 DEF Values, Divisions
  <2>2. /\ Abs(v * b) <= Abs(a) /\ Abs(a) < Abs(v * b) + Abs(b)
        /\ v # 0 => (v < 0) = ((a < 0) # (b < 0))
    BY <1>0, <2>1, TruncatedQuotient
  <2> QED BY <1>6, <2>2 DEF IsResult
<1>7. CASE op = "bitShift"
  <2>0. \A n \in Int : 0 <= n /\ n < WordBits => 2^n \in Nat \ {0}
    BY ArithmeticAssumption
  <2>1. CASE b < 0
    <3>1. SUFFICES ASSUME -b < WordBits
                   PROVE  v * 2^(-b) <= a /\ a < (v + 1) * 2^(-b)
      BY <1>7, <2>1 DEF IsResult
    <3>2. v = a \div 2^(-b)
      BY <1>7, <2>1, <3>1 DEF Values, ShiftedRight
    <3>3. 2^(-b) \in Nat \ {0}
      BY <1>0, <2>0, <2>1, <3>1
    <3> DEFINE t == 2^(-b)
    <3>4. t \in Nat \ {0} /\ v = a \div t
      BY <3>2, <3>3
    <3> HIDE DEF t
    <3>5. v * t <= a /\ a < (v + 1) * t
      BY <1>0, <3>4, ShiftRounds
    <3> QED BY <3>5 DEF t
  <2>2. CASE ~(b < 0)
    <3>1. SUFFICES ASSUME b < WordBits, a * 2^b \in IntPtr
                   PROVE  v = a * 2^b
      BY <1>7, <2>2 DEF IsResult
    <3>2. v = Wrapped(a * 2^b)
      BY <1>7, <2>2, <3>1 DEF Values, ShiftedLeft
    <3> QED BY <3>1, <3>2, WrapsExactly
  <2> QED BY <2>1, <2>2
<1>8. CASE op \in BitWise
  <2>1. /\ v \in IntPtr
        /\ \/ BitsOf(v) = BitsOf(a) \cap BitsOf(b)
           \/ BitsOf(v) = BitsOf(a) \cup BitsOf(b)
           \/ BitsOf(v) = (BitsOf(a) \ BitsOf(b)) \cup (BitsOf(b) \ BitsOf(a))
    <3>1. CASE op = "bitAnd"
      BY <3>1 DEF Values, WithBits
    <3>2. CASE op = "bitOr"
      BY <3>2 DEF Values, WithBits
    <3>3. CASE op = "bitXor"
      BY <3>3 DEF Values, WithBits
    <3> QED BY <1>8, <3>1, <3>2, <3>3 DEF BitWise
  <2>2. v \in SmallIntegers
    BY <2>1, BitwiseStaysSmall
  <2> QED BY <1>8, <2>2 DEF IsResult, BitWise
<1> QED BY <1>2, <1>3, <1>4, <1>5, <1>6, <1>7, <1>8 DEF Operations, Divisions

(* Whatever the operands and the width of a word, what a primitive answers   *)
(* is the exact result.                                                      *)
THEOREM ResultsAreExact == Spec => []AnswersAreExact
<1> DEFINE Exact == AnswersAreExact
<1>1. Init => Exact
  BY DEF Init, AnswersAreExact, Answered
<1>2. TypeOK /\ FailureInv /\ Exact /\ [Next]_vars => Exact'
  <2> SUFFICES ASSUME TypeOK, FailureInv, Exact, [Next]_vars PROVE Exact'
    OBVIOUS
  <2>1. UNCHANGED <<op, receiver, arguments>>
    BY DEF Next, vars, GetReceiver, GetArgument, ReturnFailed, ReturnInteger, ReturnBoolean, Abort,
           CompareIdentity, AsCharacter, ImmediateAsInteger
  <2>2. Number' = Number /\ Other' = Other
    BY <2>1 DEF Number, Other
  <2>2a. ASSUME NEW w, Value(result)' = w, op \in Operations \ Comparisons,
               IsResult(w, Number, Other)
        PROVE  IsResult(Value(result), Number, Other)'
    <3> HIDE DEF Exact
    <3>1. CASE op \in {"add", "subtract", "multiply", "divide"}
      BY <2>2a, <2>1, <2>2, <3>1 DEF IsResult
    <3>2. CASE op = "div"
      BY <2>2a, <2>1, <2>2, <3>2 DEF IsResult
    <3>3. CASE op = "mod"
      BY <2>2a, <2>1, <2>2, <3>3 DEF IsResult
    <3>4. CASE op = "quo"
      BY <2>2a, <2>1, <2>2, <3>4 DEF IsResult
    <3>5. CASE op = "bitShift"
      BY <2>2a, <2>1, <2>2, <3>5 DEF IsResult
    <3>6. CASE op \in BitWise
      BY <2>2a, <2>1, <2>2, <3>6 DEF IsResult, BitWise
    <3> QED BY <2>2a, <3>1, <3>2, <3>3, <3>4, <3>5, <3>6 DEF Operations, Divisions
  <2>3. CASE GetReceiver \/ GetArgument \/ Abort
    BY <2>3 DEF GetReceiver, GetArgument, Abort, AnswersAreExact, Answered
  <2>4. CASE ReturnFailed
    BY <2>4 DEF ReturnFailed, FailWith, AnswersAreExact, Answered
  <2>5. CASE ReturnInteger
    <3> SUFFICES ASSUME op \in Operations \ Comparisons
                 PROVE  AnswersAreExact'
      BY <2>1 DEF AnswersAreExact
    <3>1. left = Number /\ right = Other
      BY <2>5 DEF ReturnInteger, FailureInv, OperandsTaken
    <3>2. left \in SmallIntegers /\ right \in SmallIntegers
      BY DEF TypeOK
    <3>3. PICK n \in Values(left, right) : result' = ForInteger(n)
      BY <2>5 DEF ReturnInteger
    <3>4. /\ ~Fails(left, right)
          /\ op = "bitShift" => right # 0
      BY <2>5 DEF ReturnInteger
    <3>5. n \in Int
      <4>1. left \in Int /\ right \in Int
        BY <3>2, HalfAssumption DEF SmallIntegers
      <4> QED BY <3>4, <4>1, ValuesAreIntegers
    <3>6. Value(result') = n
      BY <3>3, <3>5, IntegersHaveOneForm
    <3>7. IsResult(n, left, right)
      BY <3>2, <3>4, ValuesAreResults
    <3>8. Value(result)' = n
      BY <3>6 DEF Value, DecodeSmallInteger, Signed
    <3>9. IsResult(n, Number, Other)
      BY <3>1, <3>7
    <3>10. IsResult(Value(result), Number, Other)'
      BY <2>2a, <3>8, <3>9
    <3> QED BY <3>10 DEF AnswersAreExact
  <2>6. CASE ReturnBoolean
    BY <2>1, <2>6 DEF ReturnBoolean, AnswersAreExact
  <2>7. CASE CompareIdentity \/ AsCharacter \/ ImmediateAsInteger
    <3>1. op \notin Operations
      BY <2>7 DEF CompareIdentity, AsCharacter, ImmediateAsInteger, Operations, Divisions, BitWise,
                  Comparisons, Identities
    <3> QED BY <2>1, <3>1 DEF AnswersAreExact
  <2>8. CASE UNCHANGED vars
    <3>1. UNCHANGED <<op, pc, error, result>>
      BY <2>8 DEF vars
    <3> SUFFICES ASSUME op \in Operations \ Comparisons, Answered
                 PROVE  IsResult(Value(result), Number, Other)'
      BY <3>1 DEF AnswersAreExact, Answered
    <3>2. Value(result)' = Value(result)
      BY <3>1 DEF Value, DecodeSmallInteger, Signed
    <3>3. IsResult(Value(result), Number, Other)
      BY DEF AnswersAreExact
    <3> QED BY <2>2a, <3>2, <3>3
  <2> QED BY <2>3, <2>4, <2>5, <2>6, <2>7, <2>8 DEF Next
<1> QED BY <1>1, <1>2, TypeCorrect, FailureInvariant, PTL DEF Spec

-----------------------------------------------------------------------------
(* Powers of two *)

(* The powers that are used are those up to this one. *)
Last == 2^(ExponentBits - 1)

(* The bits of a small integer's magnitude. *)
Width == Bits - TagBits - 1

(* The powers in place of the operator. *)
DoublesUpToLast(P) == \A n \in 0 .. Last : P[n] \in Nat \ {0} /\ P[n + 1] = 2 * P[n]

(* Its exponent is small enough for it to be a number. *)
LEMMA LastIs == Last \in Nat
  BY FloatPrimitivesAssumption DEF Last

(* A power is the product of two whose exponents sum up to its own.          *)
LEMMA PowersMultiply ==
  ASSUME NEW P, DoublesUpToLast(P), P[0] = 1, NEW a \in Nat, NEW b \in Nat, a + b <= Last
  PROVE  P[a + b] = P[a] * P[b]
<1> DEFINE S == {c \in 0 .. b : P[a + c] = P[a] * P[c]}
<1>1. P[a] \in Nat
  BY LastIs DEF DoublesUpToLast
<1>2. 0 \in S
  BY <1>1
<1>3. PICK c \in S : \A d \in S : d <= c
  BY <1>2, GreatestOf
<1>4. CASE c < b
  <2>1. /\ a + c \in 0 .. Last /\ c \in 0 .. Last /\ (a + c) + 1 = a + (c + 1)
        /\ c + 1 \in 0 .. b /\ ~(c + 1 <= c)
    BY <1>4, LastIs
  <2>2. P[a + (c + 1)] = 2 * P[a + c] /\ P[c + 1] = 2 * P[c] /\ P[c] \in Nat
    BY <2>1 DEF DoublesUpToLast
  <2>3. P[a + c] = P[a] * P[c]
    OBVIOUS
  <2> HIDE DEF S
  <2>4. P[a + (c + 1)] = P[a] * P[c + 1]
    <3> DEFINE x == P[a]
               y == P[c]
    <3>1. x \in Nat /\ y \in Nat
      BY <1>1, <2>2
    <3>2. 2 * (x * y) = x * (2 * y)
      BY <3>1
    <3> QED
      BY <2>2, <2>3, <3>2
  <2>5. c + 1 \in S
    BY <2>1, <2>4 DEF S
  <2> QED
    BY <1>3, <2>1, <2>5
<1>5. CASE c = b
  BY <1>5
<1> QED
  BY <1>4, <1>5

(* What the powers are. *)
LEMMA PowersOfTwo ==
  /\ \A n \in 0 .. Last : 2^n \in Nat \ {0}
  /\ \A n \in 0 .. Last : 2^(n + 1) = 2 * 2^n
  /\ \A a, b \in Nat : a + b <= Last => 2^(a + b) = 2^a * 2^b
<1> DEFINE P == [n \in 0 .. Last + 1 |-> 2^n]
<1>1. \A n \in 0 .. Last : 2^n \in Nat \ {0} /\ 2^(n + 1) = 2 * 2^n
  BY PowersAssumption DEF Last
<1>2. \A n \in 0 .. Last : P[n] = 2^n /\ P[n + 1] = 2^(n + 1)
  BY LastIs
<1>3. P[0] = 1
  <2>1. 0 \in 0 .. Last /\ 2^0 = 1
    BY LastIs
  <2> QED BY <1>2, <2>1
<1> HIDE DEF P
<1>4. DoublesUpToLast(P)
  BY <1>1, <1>2 DEF DoublesUpToLast
<1>5. ASSUME NEW a \in Nat, NEW b \in Nat, a + b <= Last PROVE 2^(a + b) = 2^a * 2^b
  <2>1. P[a + b] = P[a] * P[b]
    BY <1>3, <1>4, <1>5, PowersMultiply
  <2>2. a \in 0 .. Last /\ b \in 0 .. Last /\ a + b \in 0 .. Last
    BY <1>5, LastIs
  <2> QED
    BY <1>2, <2>1, <2>2
<1> QED
  BY <1>1, <1>5

(* A power is no less than one with a smaller exponent. *)
LEMMA PowersGrow ==
  ASSUME NEW a \in Nat, NEW b \in Nat, a <= b, b <= Last
  PROVE  2^a <= 2^b
<1>1. PICK c \in Nat : b = a + c
  <2>1. b - a \in Nat /\ b = a + (b - a)
    OBVIOUS
  <2> QED BY <2>1
<1>2. a \in 0 .. Last /\ c \in 0 .. Last
  BY <1>1, LastIs
<1>3. 2^b = 2^a * 2^c /\ 2^a \in Nat /\ 2^c \in Nat \ {0}
  BY <1>1, <1>2, PowersOfTwo
<1>4. ASSUME NEW x \in Nat, NEW y \in Nat \ {0} PROVE x <= x * y
  <2>1. 1 * x <= y * x
    BY Monotone
  <2> QED BY <2>1
<1> QED
  BY <1>3, <1>4

-----------------------------------------------------------------------------
(* The parts of a word *)

(* The sizes of the parts, by the exponents that are half of all, those of   *)
(* small floats, and the mantissas.                                          *)
Mantissas == 2^MantissaBits
HalfSmall == 2^(ExponentBits - TagBits - 1)

(* The sizes are what they are named for: room for a tag, and small integers *)
(* of more bits than a mantissa.                                             *)
LEMMA Sizes ==
  /\ Last \in Nat /\ Last > 8 /\ Mantissas \in Nat /\ HalfSmall \in Nat \ {0}
  /\ Tags \in Nat /\ Tags > 4 /\ Half \in Nat \ {0}
  /\ MantissaBits \in Nat /\ TagBits \in Nat /\ ExponentBits \in Nat /\ Bits \in Nat /\ Width \in Nat
  /\ TagBits > 2 /\ MantissaBits > TagBits /\ ExponentBits > TagBits + 1
  /\ Bits < Last /\ Width < Bits /\ MantissaBits + 1 < Width /\ ExponentBits < Bits /\ MantissaBits < Bits
  BY SmallFloatAssumption, FloatPrimitivesAssumption, TagsAssumption, HalfAssumption, PowersOfTwo
  DEF Last, Mantissas, HalfSmall, Bits, Width

(* How the sizes make up a word. *)
LEMMA SizesAre ==
  /\ 2^ExponentBits = 2 * Last
  /\ Mantissas = 2 * 2^(MantissaBits - 1) /\ 2^(MantissaBits - 1) \in Nat \ {0}
  /\ 2^(Bits - 2) = Last * Mantissas
  /\ Sign = 2 * (Last * Mantissas) /\ Sign = Half * Tags /\ Word = 2 * Sign
  /\ Half = 2^Width
  /\ Last = HalfSmall * Tags /\ 2^(ExponentBits - TagBits) = 2 * HalfSmall
  /\ Offset = Last - HalfSmall
<1> USE Sizes
<1>1. 2^ExponentBits = 2 * Last
  <2>1. ExponentBits - 1 \in 0 .. Last /\ (ExponentBits - 1) + 1 = ExponentBits
    OBVIOUS
  <2> QED
    BY <2>1, PowersOfTwo DEF Last
<1>2. Mantissas = 2 * 2^(MantissaBits - 1) /\ 2^(MantissaBits - 1) \in Nat \ {0}
  <2>1. MantissaBits - 1 \in 0 .. Last /\ (MantissaBits - 1) + 1 = MantissaBits
    OBVIOUS
  <2> QED
    BY <2>1, PowersOfTwo DEF Mantissas
<1>3. 2^(Bits - 2) = Last * Mantissas
  <2>1. /\ ExponentBits - 1 \in Nat /\ (ExponentBits - 1) + MantissaBits = Bits - 2
        /\ Bits - 2 <= Last
    BY DEF Bits
  <2> QED
    BY <2>1, PowersOfTwo DEF Last, Mantissas
<1>4. Sign = 2 * (Last * Mantissas)
  <2>1. Bits - 2 \in 0 .. Last /\ (Bits - 2) + 1 = Bits - 1
    OBVIOUS
  <2> QED
    BY <1>3, <2>1, PowersOfTwo DEF Sign
<1>5. Half = 2^Width /\ Tags = 2^TagBits
  BY WordAssumption DEF Width
<1>6. Sign = Half * Tags /\ Word = 2 * Sign
  <2>1. Width + TagBits = Bits - 1 /\ Bits - 1 <= Last
    BY DEF Width
  <2>2. Sign = Half * Tags
    BY <1>5, <2>1, PowersOfTwo DEF Sign
  <2>3. Word = 2 * (Half * Tags)
    BY DEF Word
  <2> QED
    BY <2>2, <2>3
<1>7. Last = HalfSmall * Tags
  <2>1. /\ ExponentBits - TagBits - 1 \in Nat /\ (ExponentBits - TagBits - 1) + TagBits = ExponentBits - 1
        /\ ExponentBits - 1 <= Last
    OBVIOUS
  <2> QED
    BY <1>5, <2>1, PowersOfTwo DEF Last, HalfSmall
<1>8. 2^(ExponentBits - TagBits) = 2 * HalfSmall
  <2>1. ExponentBits - TagBits - 1 \in 0 .. Last /\ (ExponentBits - TagBits - 1) + 1 = ExponentBits - TagBits
    OBVIOUS
  <2> QED
    BY <2>1, PowersOfTwo DEF HalfSmall
<1>9. Offset = Last - HalfSmall
  BY DEF Offset, Last, HalfSmall
<1> QED
  BY <1>1, <1>2, <1>3, <1>4, <1>5, <1>6, <1>7, <1>8, <1>9

(* A number is its quotient and remainder. *)
LEMMA Divided ==
  ASSUME NEW w \in Int, NEW t \in Nat \ {0}
  PROVE  /\ w \div t \in Int /\ w % t \in 0 .. t - 1
         /\ w = (w \div t) * t + (w % t)
OBVIOUS

(* Products of naturals that are used. *)
LEMMA Products ==
  ASSUME NEW a \in Nat, NEW b \in Nat
  PROVE  a * b \in Nat /\ (b > 0 => a <= a * b)
OBVIOUS

(* The sign, the exponent and the mantissa of a word. *)
IsMadeOf(w, s, x, f) ==
  /\ s \in {0, 1} /\ x \in 0 .. 2 * Last - 1 /\ f \in 0 .. Mantissas - 1
  /\ w = s * Sign + x * Mantissas + f

(* What the parts of a word say of it. *)
LEMMA PartsGive ==
  ASSUME NEW w, NEW s, NEW x, NEW f, IsMadeOf(w, s, x, f)
  PROVE  /\ w \in 0 .. Word - 1
         /\ Exponent(w) = x /\ w % Mantissas = f
         /\ Magnitude(w) = x * Mantissas + f /\ Magnitude(w) \in 0 .. Sign - 1
         /\ IsNegative(w) <=> s = 1
         /\ Place(w) = IF s = 1 THEN -(x * Mantissas + f) ELSE x * Mantissas + f
<1> DEFINE L == Last
           m == Mantissas
           p == L * m
           y == x * m
<1>1. /\ L \in Nat /\ L > 0 /\ m \in Nat /\ m > 0 /\ x \in Nat /\ f \in Nat /\ f < m
      /\ x <= 2 * L - 1 /\ s \in {0, 1}
  BY Sizes, SizesAre DEF IsMadeOf
<1>2. p \in Nat /\ y \in Nat /\ Sign = 2 * p /\ Word = 4 * p
  BY <1>1, SizesAre
<1>3. y <= 2 * p - m
  <2>1. x * m <= (2 * L - 1) * m
    BY <1>1, Monotone
  <2>2. (2 * L - 1) * m = 2 * (L * m) - m
    BY <1>1
  <2> QED
    BY <2>1, <2>2
<1>4. w = s * (2 * p) + (y + f) /\ y + f \in 0 .. 2 * p - 1 /\ 2 * p \in Nat /\ 2 * p > 0
  <2>1. w = s * Sign + y + f
    BY DEF IsMadeOf
  <2> HIDE DEF y, p, L, m
  <2> QED
    BY <1>1, <1>2, <1>3, <2>1
<1>5. w % (2 * p) = y + f
  <2>1. s \in Int
    BY <1>1
  <2> HIDE DEF y, p, L, m
  <2> DEFINE q == 2 * p
             r == y + f
  <2>2. q \in Nat /\ q > 0 /\ r \in 0 .. q - 1 /\ w = s * q + r
    BY <1>4
  <2> HIDE DEF q, r
  <2>3. w % q = r
    BY <2>1, <2>2, DivMod
  <2> QED
    BY <2>3 DEF q, r
<1>6. Magnitude(w) = y + f
  BY <1>2, <1>5 DEF Magnitude
<1>7. w \in 0 .. Word - 1 /\ (w >= Sign <=> s = 1)
  <2> HIDE DEF y, p, L, m
  <2>1. s = 0 \/ s = 1
    BY <1>1
  <2> QED
    BY <1>2, <1>4, <2>1
<1>8. w = (s * (2 * L) + x) * m + f
  <2>1. (s * (2 * L) + x) * m = s * (2 * (L * m)) + x * m
    <3>1. s = 0 \/ s = 1
      BY <1>1
    <3>2. CASE s = 0
      BY <1>1, <3>2
    <3>3. CASE s = 1
      <4>1. (2 * L + x) * m = 2 * (L * m) + x * m
        BY <1>1
      <4> QED
        BY <1>1, <3>3, <4>1
    <3> QED
      BY <3>1, <3>2, <3>3
  <2> HIDE DEF L, m
  <2> QED
    BY <1>1, <1>4, <2>1
<1>9. s * (2 * L) + x \in Int /\ s * (2 * L) + x \in Nat
  BY <1>1
<1>10. w % m = f /\ w \div m = s * (2 * L) + x
  <2> HIDE DEF y, p, L
  <2> QED
    BY <1>1, <1>8, <1>9, DivMod
<1>11. Exponent(w) = x
  <2>1. Exponent(w) = (w \div m) % (2 * L)
    BY SizesAre DEF Exponent, ShiftRight, Mantissas
  <2>2. x \in 0 .. 2 * L - 1 /\ 2 * L \in Nat /\ 2 * L > 0 /\ s \in Int
    BY <1>1
  <2>3. (s * (2 * L) + x) % (2 * L) = x
    <3> DEFINE q == 2 * L
    <3> HIDE DEF q, L
    <3>1. q \in Nat /\ q > 0 /\ x \in 0 .. q - 1
      BY <2>2 DEF q
    <3>2. (s * q + x) % q = x
      BY <2>2, <3>1, DivMod
    <3> QED
      BY <3>2 DEF q
  <2> QED
    BY <1>10, <2>1, <2>3
<1>12. Place(w) = IF s = 1 THEN -(y + f) ELSE y + f
  <2>1. s # 1 => w = y + f
    <3> HIDE DEF y, p, L, m
    <3> QED
      BY <1>1, <1>2, <1>4
  <2> HIDE DEF y, p, L, m
  <2> QED
    BY <1>6, <1>7, <2>1 DEF Place, IsNegative
<1> QED
  <2> HIDE DEF y, p, L
  <2>1. y + f \in 0 .. Sign - 1
    BY <1>2, <1>4
  <2> QED
    BY <1>6, <1>7, <1>10, <1>11, <1>12, <2>1 DEF IsNegative, y

(* Every word has them. *)
LEMMA PartsOf ==
  ASSUME NEW w \in 0 .. Word - 1
  PROVE  \E s, x, f : IsMadeOf(w, s, x, f)
<1> DEFINE h == w \div Mantissas
           f == w % Mantissas
           p == Last * Mantissas
<1>1. /\ Last \in Nat /\ Last > 0 /\ Mantissas \in Nat /\ Mantissas > 0 /\ w \in Nat
      /\ Sign = 2 * p /\ Word = 4 * p /\ p \in Nat
  BY Sizes, SizesAre
<1>2. h \in Int /\ f \in 0 .. Mantissas - 1 /\ w = h * Mantissas + f
  BY <1>1, Divided
<1> HIDE DEF h, f
<1>3. h >= 0
  <2>1. SUFFICES ASSUME h <= -1 PROVE FALSE
    BY <1>2
  <2>2. h * Mantissas <= (-1) * Mantissas
    BY <1>1, <1>2, <2>1, Monotone
  <2> QED
    BY <1>1, <1>2, <2>2
<1>4. h < 4 * Last
  <2>1. SUFFICES ASSUME 4 * Last <= h PROVE FALSE
    BY <1>1, <1>2
  <2>2. (4 * Last) * Mantissas <= h * Mantissas
    BY <1>1, <1>2, <2>1, Monotone
  <2>3. (4 * Last) * Mantissas = 4 * p
    BY <1>1
  <2>4. h * Mantissas \in Int
    BY <1>1, <1>2
  <2> QED
    BY <1>1, <1>2, <2>2, <2>3, <2>4
<1>5. CASE h < 2 * Last
  <2>1. 0 * Sign + h * Mantissas + f = w
    BY <1>1, <1>2
  <2>2. IsMadeOf(w, 0, h, f)
    BY <1>1, <1>2, <1>3, <1>5, <2>1 DEF IsMadeOf
  <2> QED
    BY <2>2
<1>6. CASE h >= 2 * Last
  <2>1. h - 2 * Last \in 0 .. 2 * Last - 1
    BY <1>1, <1>2, <1>4, <1>6
  <2>2. (h - 2 * Last) * Mantissas = h * Mantissas - 2 * p
    BY <1>1, <1>2
  <2>3. 1 * Sign + (h - 2 * Last) * Mantissas + f = w
    BY <1>1, <1>2, <2>2
  <2>4. IsMadeOf(w, 1, h - 2 * Last, f)
    BY <1>2, <2>1, <2>3 DEF IsMadeOf
  <2> QED
    BY <2>4
<1> QED
  BY <1>1, <1>2, <1>5, <1>6

-----------------------------------------------------------------------------
(* What a rotation keeps *)

(* The lowest bit of a number and the rest. *)
LEMMA LowestBit ==
  ASSUME NEW f \in Nat
  PROVE  /\ f \div 2 \in Nat /\ f % 2 \in {0, 1} /\ f = 2 * (f \div 2) + (f % 2)
OBVIOUS

(* Whether a bit is set, where it is the last or the last but one of a word, *)
(* or a word without what is before it.                                      *)
LEMMA BitOf ==
  ASSUME NEW k \in 0 .. Bits, NEW q \in Nat, NEW r \in Nat, r < 2^k
  PROVE  HasBit(q * 2^k + r, k) <=> q % 2 = 1
<1> DEFINE t == 2^k
<1>1. t \in Nat /\ t > 0
  BY Sizes, PowersOfTwo
<1> HIDE DEF t
<1>2. (q * t + r) \div t = q
  BY <1>1, DivMod DEF t
<1> QED
  BY <1>2 DEF HasBit, ShiftRight, t

(* The first bit of an exponent and what is below it in a word. *)
LEMMA TopBit ==
  ASSUME NEW x \in 0 .. 2 * Last - 1, NEW f \in 0 .. Mantissas - 1
  PROVE  /\ Last * Mantissas \in Nat /\ Last * Mantissas > 0
         /\ x \div Last \in {0, 1}
         /\ \E z \in 0 .. Last * Mantissas - 1 :
              x * Mantissas + f = (x \div Last) * (Last * Mantissas) + z
<1> DEFINE L == Last
           m == Mantissas
           p == L * m
           t == x \div L
           u == x % L
<1>1. L \in Nat /\ L > 8 /\ m \in Nat /\ m > 0 /\ p \in Nat /\ p > 0
  BY Sizes, SizesAre
<1>2. t \in {0, 1} /\ u \in 0 .. L - 1 /\ x = t * L + u
  <2>1. t \in Int /\ u \in 0 .. L - 1 /\ x = t * L + u
    BY <1>1, Divided
  <2> HIDE DEF t, u, L
  <2>2. t > -1
    <3>1. SUFFICES ASSUME t <= -1 PROVE FALSE
      BY <2>1
    <3>2. t * L <= (-1) * L
      BY <1>1, <2>1, <3>1, Monotone
    <3> QED
      BY <1>1, <2>1, <3>2 DEF L
  <2>3. t < 2
    <3>1. SUFFICES ASSUME 2 <= t PROVE FALSE
      BY <2>1
    <3>2. 2 * L <= t * L
      BY <1>1, <2>1, <3>1, Monotone
    <3> QED
      BY <1>1, <2>1, <3>2 DEF L
  <2> QED
    BY <2>1, <2>2, <2>3
<1>3. x * m = t * p + u * m
  <2>1. (t * L + u) * m = t * (L * m) + u * m
    BY <1>1, <1>2
  <2> QED
    BY <1>2, <2>1
<1>4. u * m \in Nat /\ u * m <= p - m
  <2>1. u * m <= (L - 1) * m
    BY <1>1, <1>2, Monotone
  <2>2. (L - 1) * m = p - m
    BY <1>1
  <2> QED
    BY <1>1, <1>2, <2>1, <2>2, Products
<1> DEFINE z == u * m
           xm == x * m
           tp == t * p
<1>5. z \in Nat /\ z <= p - m /\ xm = tp + z /\ tp \in Int /\ f \in 0 .. m - 1
  BY <1>1, <1>2, <1>3, <1>4
<1> HIDE DEF z, xm, tp, p, t, u
<1>6. z + f \in 0 .. p - 1 /\ xm + f = tp + (z + f)
  BY <1>1, <1>5
<1> QED
  BY <1>1, <1>2, <1>6 DEF xm, tp, t, p

(* The lowest bit of a word is that of its mantissa. *)
LEMMA LastBit ==
  ASSUME NEW x \in Nat, NEW f \in 0 .. Mantissas - 1
  PROVE  x * Mantissas + f \in Nat /\ (x * Mantissas + f) % 2 = f % 2
<1>1. PICK n \in Nat : Mantissas = 2 * n
  BY SizesAre
<1>2. x * Mantissas = 2 * (x * n) /\ x * n \in Nat /\ f \in Nat
  BY <1>1, Products
<1>3. f \div 2 \in Nat /\ f % 2 \in {0, 1} /\ f = 2 * (f \div 2) + (f % 2)
  BY <1>2, LowestBit
<1> DEFINE z == x * n
           y == x * Mantissas
           g == f \div 2
           a == f % 2
<1>4. y = 2 * z /\ z \in Nat /\ g \in Nat /\ a \in 0 .. 1 /\ f = 2 * g + a
  BY <1>2, <1>3
<1> HIDE DEF z, y, g, a
<1>5. y + f \in Nat /\ y + f = (z + g) * 2 + a /\ z + g \in Int
  BY <1>4
<1>6. (y + f) % 2 = a
  BY <1>4, <1>5, DivMod
<1> QED
  BY <1>5, <1>6 DEF y, a

(* The sign is rotated into the lowest bit of the mantissa and the first bit *)
(* of the exponent before it.                                                *)
LEMMA RotatesLeft ==
  ASSUME NEW w, NEW s, NEW x, NEW f, IsMadeOf(w, s, x, f)
  PROVE  LET b == IF s = 1 \/ f % 2 = 1 THEN 1 ELSE 0
         IN  RotatedLeft(w) =
               2 * (x * Mantissas + 2 * (f \div 2) + b) + (x \div Last)
<1> DEFINE L == Last
           m == Mantissas
           p == L * m
           y == x * m
           g == f \div 2
           a == f % 2
           t == x \div L
<1>1. /\ L \in Nat /\ L > 8 /\ m \in Nat /\ m > 0 /\ x \in 0 .. 2 * L - 1 /\ f \in 0 .. m - 1
      /\ s \in {0, 1} /\ s \in Nat
  BY Sizes, SizesAre DEF IsMadeOf
<1>2. p \in Nat /\ y \in Nat /\ Sign = 2 * p /\ Word = 4 * p /\ 2^(Bits - 2) = p
  BY <1>1, SizesAre
<1>3. w = s * (2 * p) + y + f
  BY <1>2 DEF IsMadeOf
<1>4. g \in Nat /\ a \in {0, 1} /\ f = 2 * g + a
  BY <1>1, LowestBit
<1>5. t \in {0, 1} /\ p > 0
  BY <1>1, TopBit
<1>6. PICK z \in 0 .. p - 1 : y + f = t * p + z
  BY <1>1, TopBit
<1>7. w = (2 * s + t) * p + z
  <2>1. (2 * s + t) * p = s * (2 * p) + t * p
    BY <1>1, <1>2, <1>5
  <2> DEFINE tp == t * p
             sp == s * (2 * p)
  <2>2. sp \in Int /\ tp \in Int /\ z \in Int
    BY <1>1, <1>2, <1>5
  <2> HIDE DEF tp, sp, p, y
  <2> QED
    BY <1>1, <1>2, <1>3, <1>6, <2>1, <2>2 DEF tp, sp
<1>8. 2 * s + t \in Int /\ 2 * s + t \in Nat
  BY <1>1, <1>5
<1> HIDE DEF L, m, p, y, g, a, t
<1>9. ShiftRight(w, Bits - 2) = 2 * s + t
  <2> DEFINE q == 2 * s + t
  <2>1. q \in Int /\ z \in 0 .. p - 1 /\ p \in Nat /\ p > 0 /\ w = q * p + z
    BY <1>2, <1>5, <1>7, <1>8
  <2> HIDE DEF q
  <2>2. w \div p = q
    BY <2>1, DivMod
  <2> QED
    BY <1>2, <2>2 DEF ShiftRight, q
<1>10. y + f \in 0 .. 2 * p - 1
  <2>1. t * p = 0 \/ t * p = p
    BY <1>2, <1>5
  <2> QED
    BY <1>1, <1>2, <1>6, <2>1
<1>11. ShiftLeft(w, 1) = 2 * (y + f)
  <2>1. 2^1 = 2
    OBVIOUS
  <2>2. w * 2 = s * (4 * p) + 2 * (y + f)
    BY <1>1, <1>2, <1>3
  <2> DEFINE r == 2 * (y + f)
             q == 4 * p
  <2>3. r \in 0 .. q - 1 /\ q \in Nat /\ q > 0 /\ s \in Int
    BY <1>1, <1>2, <1>5, <1>10
  <2> HIDE DEF r, q
  <2>4. (s * q + r) % q = r
    BY <2>3, DivMod
  <2> QED
    BY <1>2, <2>1, <2>2, <2>4 DEF ShiftLeft, r, q
<1>12. HasBit(ShiftLeft(w, 1), 1) <=> a = 1
  <2>1. 1 \in 0 .. Bits /\ 2^1 = 2
    BY Sizes
  <2> DEFINE v == y + f
  <2>2. v \in Nat /\ 2 * v = v * 2 + 0
    BY <1>1, <1>2
  <2> HIDE DEF v
  <2>3. HasBit(v * 2^1 + 0, 1) <=> v % 2 = 1
    <3>1. 0 \in Nat /\ 0 < 2^1
      BY <2>1
    <3> QED
      BY <2>1, <2>2, <3>1, BitOf
  <2>4. (y + f) % 2 = a
    BY <1>1, LastBit DEF y, m, a
  <2> QED
    BY <1>11, <2>1, <2>2, <2>3, <2>4 DEF v
<1>13. HasBit(ShiftRight(w, Bits - 2), 1) <=> s = 1
  <2>1. 1 \in 0 .. Bits /\ 2^1 = 2
    BY Sizes
  <2>2. 2 * s + t = s * 2^1 + t /\ t < 2^1 /\ t \in Nat
    BY <1>1, <1>5, <2>1
  <2>3. HasBit(s * 2^1 + t, 1) <=> s % 2 = 1
    BY <1>1, <2>1, <2>2, BitOf
  <2> QED
    BY <1>1, <1>9, <2>2, <2>3
<1>14. RotatedLeft(w) = 2 * (y + f) + (2 * s + t) - (IF a = 1 /\ s = 1 THEN 2 ELSE 0)
  <2>1. 2^1 = 2
    OBVIOUS
  <2> QED
    BY <1>9, <1>11, <1>12, <1>13, <2>1 DEF RotatedLeft, Joined
<1> DEFINE b == IF s = 1 \/ a = 1 THEN 1 ELSE 0
<1>15. RotatedLeft(w) = 2 * (y + 2 * g + b) + t
  BY <1>1, <1>2, <1>4, <1>5, <1>14
<1> QED
  BY <1>15 DEF y, g, a, t, L, m

(* And rotated back it is the lowest bit that becomes the sign. *)
LEMMA RotatesRight ==
  ASSUME NEW x \in 0 .. 2 * Last - 1, NEW f \in 0 .. Mantissas - 1, NEW v,
         v = 2 * (x * Mantissas + f) + (x \div Last)
  PROVE  IsMadeOf(RotatedRight(v), f % 2, x, f)
<1> DEFINE p == Last * Mantissas
           y == x * Mantissas + f
           t == x \div Last
           a == f % 2
<1>1. p \in Nat /\ p > 0 /\ Word = 4 * p /\ Sign = 2 * p /\ 2^(Bits - 2) = p
  BY TopBit, SizesAre
<1>2. t \in {0, 1} /\ v = 2 * y + t
  BY TopBit
<1>3. PICK z \in 0 .. p - 1 : y = t * p + z
  BY TopBit
<1>4. y \in Nat /\ y % 2 = a /\ a \in {0, 1}
  <2>1. x \in Nat /\ f \in Nat
    BY Sizes, SizesAre
  <2>2. a \in {0, 1}
    BY <2>1, LowestBit
  <2> QED
    BY <2>1, <2>2, LastBit
<1> HIDE DEF p, y, t, a
<1>5. y < 2 * p
  BY <1>1, <1>2, <1>3
<1>6. ShiftRight(v, 1) = y
  <2>1. 2^1 = 2 /\ v = y * 2 + t /\ t \in 0 .. 1
    BY <1>2, <1>4
  <2>2. v \div 2 = y
    BY <1>4, <2>1, DivMod
  <2> QED
    BY <2>1, <2>2 DEF ShiftRight
<1>7. ShiftLeft(v, Bits - 2) = (2 * a + t) * p
  <2>1. PICK n \in Nat : y = 2 * n + a
    <3>1. y \div 2 \in Nat /\ y = 2 * (y \div 2) + (y % 2)
      BY <1>4, LowestBit
    <3> QED
      BY <1>4, <3>1
  <2> DEFINE r == (2 * a + t) * p
             q == 4 * p
  <2>2. v = 4 * n + (2 * a + t) /\ 2 * a + t \in 0 .. 3
    BY <1>2, <1>4, <2>1
  <2>3. v * p = n * q + r
    BY <1>1, <1>2, <1>4, <2>2
  <2>4. r \in 0 .. q - 1 /\ q \in Nat /\ q > 0
    <3>1. r = 0 \/ r = p \/ r = 2 * p \/ r = 3 * p
      BY <1>1, <1>2, <1>4
    <3> QED
      BY <1>1, <3>1
  <2> HIDE DEF r, q
  <2>5. (n * q + r) % q = r
    BY <2>4, DivMod
  <2> QED
    BY <1>1, <2>3, <2>5 DEF ShiftLeft, r, q
<1>8. HasBit(y, Bits - 2) <=> t = 1
  <2>1. Bits - 2 \in 0 .. Bits
    BY Sizes
  <2>2. t \in Nat /\ z \in Nat /\ z < 2^(Bits - 2) /\ y = t * 2^(Bits - 2) + z
    BY <1>1, <1>2, <1>3
  <2>3. HasBit(y, Bits - 2) <=> t % 2 = 1
    BY <2>1, <2>2, BitOf
  <2> QED
    BY <1>2, <2>3
<1>9. HasBit((2 * a + t) * p, Bits - 2) <=> t = 1
  <2> DEFINE q == 2 * a + t
  <2>1. Bits - 2 \in 0 .. Bits
    BY Sizes
  <2>2. q \in Nat /\ (q % 2 = 1 <=> t = 1)
    BY <1>2, <1>4
  <2> HIDE DEF q
  <2>3. 0 \in Nat /\ 0 < 2^(Bits - 2) /\ q * p = q * 2^(Bits - 2) + 0
    BY <1>1, <2>2
  <2>4. HasBit(q * p, Bits - 2) <=> q % 2 = 1
    BY <2>1, <2>2, <2>3, BitOf
  <2> QED
    BY <2>2, <2>4 DEF q
<1>10. RotatedRight(v) = y + (2 * a + t) * p - (IF t = 1 THEN p ELSE 0)
  BY <1>1, <1>6, <1>7, <1>8, <1>9 DEF RotatedRight, Joined
<1>11. RotatedRight(v) = a * Sign + y
  BY <1>1, <1>2, <1>4, <1>10
<1>12. a * Sign + y = a * Sign + x * Mantissas + f
  <2>1. x * Mantissas \in Int /\ f \in Int /\ a * Sign \in Int
    BY <1>1, <1>4, Sizes, SizesAre
  <2> DEFINE xm == x * Mantissas
             as == a * Sign
  <2> HIDE DEF xm, as
  <2> QED
    BY <2>1 DEF xm, as, y
<1> QED
  BY <1>4, <1>11, <1>12 DEF IsMadeOf, a

(* The exponents of small floats are those that lose nothing when the offset *)
(* is taken from them and the tag takes its place: a small float is read     *)
(* with the exponent it was made with, and with the mantissa but for its     *)
(* lowest bit.                                                               *)
LEMMA SmallFloatKeeps ==
  ASSUME NEW w \in 0 .. Word - 1, InSmallFloatRange(w)
  PROVE  LET oop  == EncodeSmallFloat(w)
             kept == DecodeSmallFloat(oop)
         IN  /\ oop \in Nat /\ oop % Tags = 4
             /\ kept \in 0 .. Word - 1
             /\ Exponent(kept) = Exponent(w)
             /\ (kept % Mantissas) \div 2 = (w % Mantissas) \div 2
<1>1. PICK s, x, f : IsMadeOf(w, s, x, f)
  BY PartsOf
<1>2. /\ x \in 0 .. 2 * Last - 1 /\ f \in 0 .. Mantissas - 1
      /\ Exponent(w) = x /\ w % Mantissas = f
  BY <1>1, PartsGive DEF IsMadeOf
<1> DEFINE m == Mantissas
           p == Last * m
           h == HalfSmall * m
           g == f \div 2
           b == IF s = 1 \/ f % 2 = 1 THEN 1 ELSE 0
           k == 2 * g + b
           t == x \div Last
           y == x * m
           o == Offset * m
           d == (x - Offset) * m
<1>3. /\ m \in Nat /\ m > 0 /\ p \in Nat /\ h \in Nat /\ Word = 4 * p
      /\ p = h * Tags /\ Tags \in Nat /\ Tags > 4
  <2>1. (HalfSmall * Tags) * m = (HalfSmall * m) * Tags
    BY Sizes
  <2> QED
    BY <2>1, Sizes, SizesAre, Products
<1>4. x - Offset \in 0 .. 2 * HalfSmall - 1 /\ Offset \in 0 .. Last /\ x \in Nat
  <2>1. Offset <= x /\ x <= Offset + 2 * HalfSmall - 1
    BY <1>2, SizesAre DEF InSmallFloatRange, ExponentMin, ExponentMax
  <2>2. Offset = Last - HalfSmall /\ HalfSmall <= Last
    <3>1. 1 * HalfSmall <= Tags * HalfSmall
      BY Sizes, Monotone
    <3> QED
      BY <3>1, Sizes, SizesAre
  <2> QED
    BY <1>2, <2>1, <2>2, Sizes
<1>5. /\ d \in Nat /\ d <= 2 * h - m /\ y = o + d /\ o \in Nat /\ o <= p
      /\ y \in Nat /\ y <= 2 * p - m
  <2>1. (x - Offset) * m <= (2 * HalfSmall - 1) * m
    BY <1>3, <1>4, Sizes, Monotone
  <2>2. (2 * HalfSmall - 1) * m = 2 * (HalfSmall * m) - m
    BY <1>3, Sizes
  <2>3. x * m = Offset * m + (x - Offset) * m
    BY <1>3, <1>4
  <2>4. Offset * m <= Last * m
    BY <1>3, <1>4, Sizes, Monotone
  <2>5. x * m <= (2 * Last - 1) * m
    BY <1>2, <1>3, Sizes, Monotone
  <2>6. (2 * Last - 1) * m = 2 * (Last * m) - m
    BY <1>3, Sizes
  <2>7. d \in Nat /\ o \in Nat /\ y \in Nat
    BY <1>3, <1>4, Products
  <2> QED
    BY <2>1, <2>2, <2>3, <2>4, <2>5, <2>6, <2>7
<1>6. g \in Nat /\ b \in {0, 1} /\ k \in 0 .. m - 1 /\ k \div 2 = g
  <2>1. g \in Nat /\ f % 2 \in {0, 1} /\ f = 2 * g + (f % 2)
    BY <1>2, LowestBit
  <2>2. PICK n \in Nat : m = 2 * n
    BY SizesAre
  <2>3. b \in 0 .. 1
    OBVIOUS
  <2> HIDE DEF g, b
  <2>4. g <= n - 1
    BY <1>2, <2>1, <2>2
  <2>5. 2 * g + b \in 0 .. m - 1
    BY <2>1, <2>2, <2>3, <2>4
  <2>6. (g * 2 + b) \div 2 = g /\ g * 2 + b = 2 * g + b
    BY <2>1, <2>3, DivMod
  <2> QED
    BY <2>1, <2>3, <2>5, <2>6
<1>7. t \in {0, 1}
  BY <1>2, TopBit
<1>8. RotatedLeft(w) = 2 * (y + k) + t
  <2>1. RotatedLeft(w) = 2 * (x * Mantissas + 2 * (f \div 2) + b) + (x \div Last)
    BY <1>1, RotatesLeft
  <2>2. y + 2 * g + b = y + (2 * g + b)
    BY <1>5, <1>6
  <2> QED
    BY <2>1, <2>2
<1> HIDE DEF m, p, h, g, b, k, t, y, o, d
<1>9. OffsetInPlace = 2 * o
  <2>1. 2^(MantissaBits + 1) = 2 * m
    <3>1. MantissaBits \in 0 .. Last
      BY Sizes
    <3> QED
      BY <3>1, PowersOfTwo DEF m, Mantissas
  <2>2. Offset * (2 * m) = 2 * o
    BY <1>3, <1>4 DEF o
  <2>3. 2 * o \in 0 .. Word - 1
    <3>1. p > 0
      BY Sizes, SizesAre DEF p, m
    <3> QED
      BY <1>3, <1>5, <3>1
  <2>4. (0 * Word + 2 * o) % Word = 2 * o
    <3> DEFINE q == 2 * o
               v == Word
    <3>1. q \in 0 .. v - 1 /\ v \in Nat /\ v > 0 /\ 0 \in Int
      BY <1>3, <2>3
    <3> HIDE DEF q, v
    <3>2. (0 * v + q) % v = q
      BY <3>1, DivMod
    <3> QED
      BY <3>2 DEF q, v
  <2>5. 0 * Word + 2 * o = 2 * o
    BY <1>3, <1>5
  <2> QED
    BY <2>1, <2>2, <2>4, <2>5 DEF OffsetInPlace, ShiftLeft
<1> DEFINE r == 2 * (d + k) + t
<1>10. r \in 0 .. 4 * h - 1 /\ r = RotatedLeft(w) - OffsetInPlace /\ r + 2 * o = 2 * (y + k) + t
  BY <1>3, <1>5, <1>6, <1>7, <1>8, <1>9
<1> HIDE DEF r
<1>11. EncodeSmallFloat(w) = r * Tags + 4 /\ r * Tags + 4 \in 0 .. Word - 1
  <2>1. r * Tags \in Nat /\ r * Tags <= Word - Tags
    <3>1. r * Tags <= (4 * h - 1) * Tags
      BY <1>3, <1>10, Monotone
    <3>2. (4 * h - 1) * Tags = 4 * (h * Tags) - Tags
      BY <1>3
    <3>3. r \in Nat
      BY <1>10
    <3> QED
      BY <1>3, <3>1, <3>2, <3>3, Products
  <2>2. r \in 0 .. Word - 1
    <3>1. r <= r * Tags
      BY <1>3, <1>10, Products
    <3> QED
      BY <1>3, <1>10, <2>1, <3>1
  <2> DEFINE v == Word
             rt == r * Tags
  <2>3. v \in Nat /\ v > 0 /\ r \in 0 .. v - 1 /\ rt \in 0 .. v - 1 /\ 0 \in Int
        /\ rt + 4 \in 0 .. v - 1
    BY <1>3, <2>1, <2>2
  <2> HIDE DEF v, rt
  <2>4. r % v = r /\ rt % v = rt
    BY <2>3
  <2>5. 2^TagBits = Tags
    BY WordAssumption
  <2> QED
    BY <1>10, <2>3, <2>4, <2>5 DEF EncodeSmallFloat, ShiftLeft, Tag, v, rt
<1>12. (r * Tags + 4) \div Tags = r /\ (r * Tags + 4) % Tags = 4
  <2>1. 4 \in 0 .. Tags - 1 /\ r \in Int
    BY <1>3, <1>10
  <2> QED
    BY <1>3, <2>1, DivMod
<1>13. DecodeSmallFloat(r * Tags + 4) = RotatedRight(2 * (y + k) + t)
  <2>1. 2^TagBits = Tags
    BY WordAssumption
  <2>2. 2 * (y + k) + t \in 0 .. Word - 1
    BY <1>3, <1>5, <1>6, <1>7
  <2>3. (2 * (y + k) + t) % Word = 2 * (y + k) + t
    <3> DEFINE q == 2 * (y + k) + t
               v == Word
    <3>1. v \in Nat /\ v > 0 /\ q \in 0 .. v - 1
      BY <1>3, <2>2
    <3> HIDE DEF q, v
    <3>2. q % v = q
      BY <3>1
    <3> QED
      BY <3>2 DEF q, v
  <2> QED
    BY <1>9, <1>10, <1>12, <2>1, <2>3 DEF DecodeSmallFloat, ShiftRight
<1>14. IsMadeOf(RotatedRight(2 * (y + k) + t), k % 2, x, k)
  BY <1>2, <1>6, RotatesRight DEF y, t, m
<1>15. /\ RotatedRight(2 * (y + k) + t) \in 0 .. Word - 1
       /\ Exponent(RotatedRight(2 * (y + k) + t)) = x
       /\ RotatedRight(2 * (y + k) + t) % Mantissas = k
  BY <1>14, PartsGive
<1> QED
  BY <1>2, <1>6, <1>11, <1>12, <1>13, <1>15 DEF g

-----------------------------------------------------------------------------
(* Integers as floats *)

(* 2^e is the first bit of m, a magnitude of a small integer. *)
HasFirstBit(m, e) ==
  /\ m \in 1 .. Half /\ e \in 0 .. Width
  /\ 2^e <= m /\ m < 2^(e + 1)

(* The number with the exponent e and the mantissa r, whose first bit counts.*)
Scaled(e, r) == (e + Bias - 1) * Mantissas + r

(* Powers grow, so first bits do. *)
LEMMA FirstBitsGrow ==
  ASSUME NEW a \in 0 .. Last, NEW b \in Nat, NEW m \in Nat, NEW n \in Nat,
         2^a <= m, m <= n, n < 2^(b + 1)
  PROVE  a <= b
<1> SUFFICES ASSUME b + 1 <= a PROVE FALSE
  OBVIOUS
<1>1. b + 1 \in Nat /\ a \in Nat /\ a <= Last /\ b + 1 \in 0 .. Last
  BY Sizes
<1>2. 2^(b + 1) <= 2^a
  BY <1>1, PowersGrow
<1>3. 2^a \in Nat /\ 2^(b + 1) \in Nat
  BY <1>1, PowersOfTwo
<1> QED
  BY <1>2, <1>3

(* The first bit of a magnitude is the one the conversion takes. *)
LEMMA FirstBit ==
  ASSUME NEW m \in 1 .. Half
  PROVE  HasFirstBit(m, CHOOSE k \in 0 .. Bits : 2^k <= m /\ m < 2^(k + 1))
<1> DEFINE S == {k \in 0 .. Width : 2^k <= m}
           Is(k) == 2^k <= m /\ m < 2^(k + 1)
<1>1. /\ Width \in Nat /\ Bits \in Nat /\ Width < Bits /\ Last \in Nat /\ Bits < Last
      /\ Half = 2^Width /\ m \in Nat
  BY Sizes, SizesAre
<1>2. 0 \in S
  <2>1. 2^0 = 1
    OBVIOUS
  <2> QED
    BY <1>1, <2>1
<1>3. PICK e \in S : \A k \in S : k <= e
  BY <1>1, <1>2, GreatestOf
<1>4. e \in 0 .. Width /\ 2^e <= m
  OBVIOUS
<1>5. m < 2^(e + 1)
  <2>1. e + 1 \in 0 .. Last /\ 2^(e + 1) \in Nat
    BY <1>1, <1>4, PowersOfTwo
  <2>2. CASE e = Width
    <3>1. 2^(e + 1) = 2 * Half
      BY <1>1, <2>2, PowersOfTwo
    <3> QED
      BY <1>1, <3>1
  <2>3. CASE e < Width
    <3>1. e + 1 \in 0 .. Width /\ ~(e + 1 <= e)
      BY <1>1, <1>4, <2>3
    <3>2. ~(2^(e + 1) <= m)
      BY <1>3, <3>1
    <3> QED
      BY <1>1, <2>1, <3>2
  <2> QED
    BY <1>1, <1>4, <2>2, <2>3
<1> HIDE DEF S
<1>6. \E k \in 0 .. Bits : Is(k)
  BY <1>1, <1>4, <1>5
<1>7. PICK d \in 0 .. Bits : d = (CHOOSE k \in 0 .. Bits : Is(k)) /\ Is(d)
  BY <1>6
<1>8. d <= e
  <2>1. d \in 0 .. Last /\ e \in Nat /\ m <= m
    BY <1>1, <1>4, <1>7
  <2> QED
    BY <1>1, <1>5, <1>7, <2>1, FirstBitsGrow
<1> QED
  BY <1>1, <1>4, <1>7, <1>8 DEF HasFirstBit

(* Rounding keeps the first bit, but for the number it rounds up to the next *)
(* power.                                                                    *)
LEMMA RoundedIsMantissa ==
  ASSUME NEW m, NEW e, HasFirstBit(m, e)
  PROVE  Rounded(m, e) \in Mantissas .. 2 * Mantissas
<1>1. /\ Mantissas \in Nat /\ MantissaBits \in Nat /\ Last \in Nat /\ Width < Last /\ Width \in Nat
      /\ m \in Nat /\ e \in 0 .. Width /\ e \in Nat
      /\ 2^e \in Nat /\ 2^(e + 1) = 2 * 2^e /\ 2^e <= m /\ m < 2 * 2^e
      /\ MantissaBits < Last
  <2>1. Width < Last /\ Width \in Nat /\ Last \in Nat /\ MantissaBits < Last
    BY Sizes
  <2>2. e \in 0 .. Last
    BY <2>1 DEF HasFirstBit
  <2> QED
    BY <2>1, <2>2, Sizes, PowersOfTwo DEF HasFirstBit
<1>2. CASE e <= MantissaBits
  <2>1. MantissaBits - e \in Nat /\ e + (MantissaBits - e) = MantissaBits /\ MantissaBits <= Last
        /\ MantissaBits - e \in 0 .. Last
    BY <1>1, <1>2
  <2> DEFINE u == 2^(MantissaBits - e)
             b == 2^e
  <2>2. Mantissas = b * u /\ u \in Nat
    BY <1>1, <2>1, PowersOfTwo DEF Mantissas
  <2> HIDE DEF u, b
  <2>3. b * u <= m * u /\ m * u <= (2 * b) * u
    BY <1>1, <2>2, Monotone DEF b
  <2>4. (2 * b) * u = 2 * (b * u)
    BY <1>1, <2>2 DEF b
  <2>5. Rounded(m, e) = m * u /\ m * u \in Nat
    BY <1>1, <1>2, <2>2, Products DEF Rounded, u
  <2> QED
    BY <1>1, <2>2, <2>3, <2>4, <2>5
<1>3. CASE ~(e <= MantissaBits)
  <2>1. e - MantissaBits \in Nat /\ MantissaBits + (e - MantissaBits) = e /\ e <= Last
        /\ e - MantissaBits \in 0 .. Last
    BY <1>1, <1>3
  <2> DEFINE u == 2^(e - MantissaBits)
             q == m \div u
             r == m % u
  <2>2. 2^e = Mantissas * u /\ u \in Nat /\ u > 0
    BY <1>1, <2>1, PowersOfTwo DEF Mantissas
  <2>3. q \in Int /\ r \in 0 .. u - 1 /\ m = q * u + r
    BY <1>1, <2>2, Divided
  <2>4. Rounded(m, e) \in {q, q + 1}
    BY <1>3 DEF Rounded
  <2> HIDE DEF u, q, r
  <2>5. q >= Mantissas
    <3>1. SUFFICES ASSUME q + 1 <= Mantissas PROVE FALSE
      BY <1>1, <2>3
    <3>2. (q + 1) * u <= Mantissas * u /\ (q + 1) * u = q * u + u
      BY <1>1, <2>2, <2>3, <3>1, Monotone
    <3> QED
      BY <1>1, <2>2, <2>3, <3>2
  <2>6. q < 2 * Mantissas
    <3>1. SUFFICES ASSUME 2 * Mantissas <= q PROVE FALSE
      BY <1>1, <2>3
    <3>2. (2 * Mantissas) * u <= q * u /\ (2 * Mantissas) * u = 2 * (Mantissas * u)
      BY <1>1, <2>2, <2>3, <3>1, Monotone
    <3> QED
      BY <1>1, <2>2, <2>3, <3>2
  <2> QED
    BY <1>1, <2>3, <2>4, <2>5, <2>6
<1> QED
  BY <1>2, <1>3

(* The float of a small integer, and that it is no infinity.                 *)
LEMMA DoubleIs ==
  ASSUME NEW n \in SmallIntegers, NEW m \in Nat, m = IF n < 0 THEN -n ELSE n
  PROVE  /\ ToDouble(n) \in 0 .. Word - 1
         /\ Magnitude(ToDouble(n)) < Infinity
         /\ n = 0 => ToDouble(n) = 0 /\ Place(ToDouble(n)) = 0
         /\ n # 0 => \E e : /\ HasFirstBit(m, e)
                            /\ Place(ToDouble(n)) =
                                 IF n < 0 THEN -Scaled(e, Rounded(m, e)) ELSE Scaled(e, Rounded(m, e))
                            /\ Scaled(e, Rounded(m, e)) \in Nat \ {0}
<1>1. /\ Last \in Nat /\ Last > 8 /\ Mantissas \in Nat /\ Mantissas > 0
      /\ Width \in Nat /\ Width + 4 < Last /\ Bias = Last - 1
      /\ Infinity = (2 * Last - 1) * Mantissas
      /\ Half \in Nat /\ Half > 0 /\ n \in Int
  BY Sizes, SizesAre DEF Bias, Last, Infinity, Mantissas, SmallIntegers, Width
<1>2. CASE n = 0
  <2>1. ToDouble(n) = 0
    BY <1>2 DEF ToDouble
  <2>2. 0 * Sign + 0 * Mantissas + 0 = 0
    BY <1>1, SizesAre
  <2>3. IsMadeOf(0, 0, 0, 0)
    BY <1>1, <2>2 DEF IsMadeOf
  <2>4. 0 * Mantissas + 0 = 0 /\ Infinity > 0
    BY <1>1
  <2>5. 0 \in 0 .. Word - 1 /\ Magnitude(0) = 0 /\ Place(0) = 0
    BY <2>3, <2>4, PartsGive
  <2> QED
    BY <1>2, <2>1, <2>4, <2>5
<1>3. CASE n # 0
  <2>1. m \in 1 .. Half
    BY <1>1, <1>3 DEF SmallIntegers
  <2> DEFINE e == CHOOSE k \in 0 .. Bits : 2^k <= m /\ m < 2^(k + 1)
             r == Rounded(m, e)
             s == IF n < 0 THEN 1 ELSE 0
             x == IF r = 2 * Mantissas THEN e + Bias + 1 ELSE e + Bias
             f == IF r = 2 * Mantissas THEN 0 ELSE r - Mantissas
  <2>2. HasFirstBit(m, e)
    BY <2>1, FirstBit
  <2>3. r \in Mantissas .. 2 * Mantissas /\ e \in 0 .. Width
    BY <2>2, RoundedIsMantissa DEF HasFirstBit
  <2>4. ToDouble(n) = (IF n < 0 THEN Sign ELSE 0) + Scaled(e, r)
    <3>1. ToDouble(n) = (IF n < 0 THEN Sign ELSE 0) + (e + Bias - 1) * 2^MantissaBits + Rounded(m, e)
      BY <1>3 DEF ToDouble
    <3> DEFINE a == (e + Bias - 1) * Mantissas
    <3>2. a \in Int /\ Sign \in Int /\ r \in Int
      BY <1>1, <2>3, SizesAre
    <3>3. ToDouble(n) = (IF n < 0 THEN Sign ELSE 0) + a + r
      BY <3>1 DEF Mantissas
    <3>4. Scaled(e, r) = a + r
      BY DEF Scaled
    <3> HIDE DEF e, r, a
    <3> QED
      BY <3>2, <3>3, <3>4
  <2> HIDE DEF e, r
  <2>5. Scaled(e, r) = x * Mantissas + f
    <3>1. (e + Bias + 1) * Mantissas = (e + Bias - 1) * Mantissas + 2 * Mantissas
      BY <1>1, <2>3
    <3>2. (e + Bias) * Mantissas = (e + Bias - 1) * Mantissas + Mantissas
      BY <1>1, <2>3
    <3> DEFINE a == (e + Bias - 1) * Mantissas
    <3>3. a \in Int
      BY <1>1, <2>3
    <3> HIDE DEF a
    <3> QED
      BY <1>1, <2>3, <3>1, <3>2, <3>3 DEF Scaled, a
  <2>6. x \in 1 .. 2 * Last - 3 /\ f \in 0 .. Mantissas - 1 /\ s \in {0, 1}
    BY <1>1, <2>3
  <2>7. x * Mantissas \in Nat /\ x * Mantissas <= (2 * Last - 3) * Mantissas /\ x * Mantissas >= Mantissas
    <3>1. 1 * Mantissas <= x * Mantissas /\ x * Mantissas <= (2 * Last - 3) * Mantissas
      BY <1>1, <2>6, Monotone
    <3> QED
      BY <1>1, <2>6, <3>1, Products
  <2>8. ToDouble(n) = s * Sign + x * Mantissas + f
    <3> DEFINE a == x * Mantissas
    <3>1. a \in Nat /\ f \in Nat /\ Sign \in Int
      BY <1>1, <2>6, <2>7, SizesAre
    <3>2. ToDouble(n) = (IF n < 0 THEN Sign ELSE 0) + (a + f)
      BY <2>4, <2>5
    <3> HIDE DEF a, x, f
    <3> QED
      BY <3>1, <3>2 DEF a
  <2>9. IsMadeOf(ToDouble(n), s, x, f)
    BY <1>1, <2>6, <2>8 DEF IsMadeOf
  <2> HIDE DEF x, f
  <2>10. /\ ToDouble(n) \in 0 .. Word - 1
         /\ Magnitude(ToDouble(n)) = Scaled(e, r)
         /\ Place(ToDouble(n)) = IF n < 0 THEN -Scaled(e, r) ELSE Scaled(e, r)
    BY <2>5, <2>9, PartsGive
  <2>11. Scaled(e, r) < Infinity /\ Scaled(e, r) \in Nat \ {0}
    <3> DEFINE a == x * Mantissas
    <3>1. Infinity = (2 * Last - 3) * Mantissas + 2 * Mantissas
      BY <1>1
    <3>2. a \in Nat /\ f \in 0 .. Mantissas - 1 /\ a <= Infinity - 2 * Mantissas /\ a >= Mantissas
      BY <1>1, <2>6, <2>7, <3>1
    <3> HIDE DEF a
    <3> QED
      BY <1>1, <2>5, <3>1, <3>2 DEF a
  <2> QED
    BY <1>3, <2>2, <2>10, <2>11 DEF r
<1> QED
  BY <1>2, <1>3

(* The integer part of the magnitude with the exponent x and the mantissa f. *)
Integral(x, f) ==
  IF x - Bias < 0 THEN 0
  ELSE IF x - Bias < MantissaBits THEN (Mantissas + f) \div 2^(MantissaBits - (x - Bias))
  ELSE (Mantissas + f) * 2^((x - Bias) - MantissaBits)

(* The integer part and the magnitude of a float, told by its parts. *)
LEMMA TruncationIs ==
  ASSUME NEW w, NEW s, NEW x, NEW f, IsMadeOf(w, s, x, f)
  PROVE  /\ Truncation(w) = IF s = 1 THEN -Integral(x, f) ELSE Integral(x, f)
         /\ Magnitude(w) = Scaled(x - Bias, Mantissas + f)
<1>1. /\ Exponent(w) = x /\ w % 2^MantissaBits = f /\ (IsNegative(w) <=> s = 1)
      /\ Magnitude(w) = x * Mantissas + f
  BY PartsGive DEF Mantissas
<1>2. Truncation(w) = IF s = 1 THEN -Integral(x, f) ELSE Integral(x, f)
  BY <1>1 DEF Truncation, Integral, Mantissas
<1>3. /\ x \in Int /\ f \in Int /\ Bias \in Int /\ Mantissas \in Int
  BY Sizes, SizesAre DEF IsMadeOf, Bias, Last
<1>4. (x - Bias + Bias - 1) * Mantissas + (Mantissas + f) = x * Mantissas + f
  <2>1. x - Bias + Bias - 1 = x - 1 /\ (x - 1) * Mantissas = x * Mantissas - Mantissas
    BY <1>3
  <2> DEFINE a == x * Mantissas
  <2>2. a \in Int
    BY <1>3
  <2> HIDE DEF a
  <2> QED
    BY <1>3, <2>1, <2>2 DEF a
<1> QED
  BY <1>1, <1>2, <1>4 DEF Scaled

(* The integer part has the first bit the exponent tells. *)
LEMMA IntegralIs ==
  ASSUME NEW x \in 0 .. 2 * Last - 1, NEW f \in 0 .. Mantissas - 1
  PROVE  /\ Integral(x, f) \in Nat
         /\ x < Bias => Integral(x, f) = 0
         /\ x >= Bias => /\ x - Bias \in 0 .. Last
                         /\ 2^(x - Bias) <= Integral(x, f)
                         /\ Integral(x, f) < 2^((x - Bias) + 1)
<1> DEFINE S == Mantissas + f
           X == x - Bias
<1>1. /\ Last \in Nat /\ Last > 8 /\ Mantissas \in Nat /\ MantissaBits \in Nat /\ MantissaBits < Last
      /\ Bias = Last - 1 /\ X \in Int /\ X <= Last /\ S \in Nat
      /\ Mantissas <= S /\ S < 2 * Mantissas
  BY Sizes, SizesAre DEF Bias, Last
<1>2. Integral(x, f) = IF X < 0 THEN 0
                       ELSE IF X < MantissaBits THEN S \div 2^(MantissaBits - X)
                       ELSE S * 2^(X - MantissaBits)
  BY DEF Integral
<1>3. X >= 0 <=> x >= Bias
  BY <1>1
<1> HIDE DEF X, S
<1>4. CASE X < 0
  BY <1>1, <1>4, <1>2, <1>3
<1>5. CASE X >= 0 /\ X < MantissaBits
  <2>1. /\ MantissaBits - X \in Nat /\ X \in Nat /\ X + (MantissaBits - X) = MantissaBits
        /\ X \in 0 .. Last /\ MantissaBits - X \in 0 .. Last /\ MantissaBits <= Last
    BY <1>1, <1>5
  <2> DEFINE u == 2^(MantissaBits - X)
             b == 2^X
             q == S \div u
  <2>2. /\ Mantissas = b * u /\ u \in Nat /\ u > 0 /\ b \in Nat /\ 2^(X + 1) = 2 * b
    BY <2>1, PowersOfTwo DEF Mantissas
  <2>3. q \in Int /\ S = q * u + (S % u) /\ S % u \in 0 .. u - 1
    <3> HIDE DEF u, b
    <3> QED
      BY <1>1, <2>2, Divided
  <2>4. Integral(x, f) = q
    BY <1>1, <1>5, <1>2
  <2> HIDE DEF u, b, q
  <2>5. b <= q
    <3>1. SUFFICES ASSUME q + 1 <= b PROVE FALSE
      BY <2>2, <2>3
    <3>2. (q + 1) * u <= b * u /\ (q + 1) * u = q * u + u
      BY <2>2, <2>3, <3>1, Monotone
    <3> QED
      BY <1>1, <2>2, <2>3, <3>2
  <2>6. q < 2 * b
    <3>1. SUFFICES ASSUME 2 * b <= q PROVE FALSE
      BY <2>2, <2>3
    <3>2. (2 * b) * u <= q * u /\ (2 * b) * u = 2 * (b * u)
      BY <2>2, <2>3, <3>1, Monotone
    <3> QED
      BY <1>1, <2>2, <2>3, <3>2
  <2> QED
    BY <1>1, <1>5, <2>1, <2>2, <2>3, <2>4, <2>5, <2>6, <1>3 DEF b, X
<1>6. CASE X >= MantissaBits
  <2>1. /\ X - MantissaBits \in Nat /\ X \in Nat /\ MantissaBits + (X - MantissaBits) = X
        /\ X \in 0 .. Last /\ X - MantissaBits \in 0 .. Last /\ X <= Last
    BY <1>1, <1>6
  <2> DEFINE u == 2^(X - MantissaBits)
             b == 2^X
  <2>2. b = Mantissas * u /\ u \in Nat /\ u > 0 /\ b \in Nat /\ 2^(X + 1) = 2 * b
    BY <1>1, <2>1, PowersOfTwo DEF Mantissas
  <2>3. Integral(x, f) = S * u
    BY <1>1, <1>6, <1>2
  <2> HIDE DEF u, b
  <2>4. Mantissas * u <= S * u /\ S * u \in Nat
    BY <1>1, <2>2, Monotone, Products
  <2>5. S * u < (2 * Mantissas) * u
    <3>1. (S + 1) * u <= (2 * Mantissas) * u /\ (S + 1) * u = S * u + u
      BY <1>1, <2>2, Monotone
    <3> QED
      BY <1>1, <2>2, <2>4, <3>1
  <2>6. (2 * Mantissas) * u = 2 * (Mantissas * u)
    BY <1>1, <2>2
  <2> QED
    BY <1>1, <1>6, <2>1, <2>2, <2>3, <2>4, <2>5, <2>6, <1>3 DEF b, X
<1> QED
  BY <1>1, <1>4, <1>5, <1>6

(* Numbers are ordered by their exponents, whatever their mantissas.         *)
LEMMA OrderedByExponent ==
  ASSUME NEW a \in Int, NEW b \in Int, a < b,
         NEW r \in Mantissas .. 2 * Mantissas, NEW q \in Mantissas .. 2 * Mantissas
  PROVE  Scaled(a, r) <= Scaled(b, q)
<1> DEFINE c == a + Bias - 1
           d == b + Bias - 1
<1>1. Mantissas \in Nat /\ c \in Int /\ d \in Int /\ c + 1 <= d
  BY Sizes DEF Bias, Last
<1> HIDE DEF c, d
<1>2. (c + 1) * Mantissas <= d * Mantissas /\ (c + 1) * Mantissas = c * Mantissas + Mantissas
  BY <1>1, Monotone
<1> DEFINE y == c * Mantissas
           z == d * Mantissas
<1>3. y \in Int /\ z \in Int /\ y + Mantissas <= z
  BY <1>1, <1>2
<1> HIDE DEF y, z
<1>4. y + r <= z + q
  BY <1>1, <1>3
<1> QED
  BY <1>4 DEF Scaled, y, z, c, d

(* And by their mantissas if they have the same exponent. *)
LEMMA OrderedByMantissa ==
  ASSUME NEW a \in Int, NEW r \in Int, NEW q \in Int, r <= q
  PROVE  Scaled(a, r) <= Scaled(a, q)
<1> DEFINE y == (a + Bias - 1) * Mantissas
<1>1. y \in Int
  BY Sizes DEF Bias, Last
<1> HIDE DEF y
<1>2. y + r <= y + q
  BY <1>1
<1> QED
  BY <1>2 DEF Scaled, y

(* How a magnitude with more bits than a mantissa is rounded. *)
LEMMA RoundedUpOrDown ==
  ASSUME NEW m, NEW e, HasFirstBit(m, e), MantissaBits < e
  PROVE  LET u == 2^(e - MantissaBits)
             q == m \div u
             r == m % u
         IN  /\ u \in Nat \ {0} /\ q \in Int /\ r \in 0 .. u - 1 /\ m = q * u + r
             /\ Rounded(m, e) =
                  IF 2 * r > u \/ (2 * r = u /\ q % 2 = 1) THEN q + 1 ELSE q
<1>1. e - MantissaBits \in 0 .. Last /\ m \in Nat /\ ~(e <= MantissaBits)
  BY Sizes DEF HasFirstBit
<1> DEFINE u == 2^(e - MantissaBits)
<1>2. u \in Nat \ {0}
  BY <1>1, PowersOfTwo
<1>3. m \div u \in Int /\ m % u \in 0 .. u - 1 /\ m = (m \div u) * u + (m % u)
  <2> HIDE DEF u
  <2> QED
    BY <1>1, <1>2, Divided
<1> QED
  BY <1>1, <1>2, <1>3 DEF Rounded

(* Rounding does not change the order of two magnitudes. *)
LEMMA RoundingKeepsOrder ==
  ASSUME NEW m, NEW e, HasFirstBit(m, e), NEW n, NEW d, HasFirstBit(n, d), m <= n
  PROVE  Scaled(e, Rounded(m, e)) <= Scaled(d, Rounded(n, d))
<1>1. /\ m \in Nat /\ n \in Nat /\ e \in 0 .. Last /\ d \in 0 .. Last /\ e \in Int /\ d \in Int
      /\ Mantissas \in Nat /\ MantissaBits \in Nat /\ Last \in Nat /\ MantissaBits < Last
  BY Sizes DEF HasFirstBit
<1>2. e <= d
  <2>1. 2^e <= m /\ n < 2^(d + 1) /\ d \in Nat
    BY <1>1 DEF HasFirstBit
  <2> QED
    BY <1>1, <2>1, FirstBitsGrow
<1>3. /\ Rounded(m, e) \in Mantissas .. 2 * Mantissas
      /\ Rounded(n, d) \in Mantissas .. 2 * Mantissas
  BY RoundedIsMantissa
<1>4. CASE e < d
  BY <1>1, <1>3, <1>4, OrderedByExponent
<1>5. CASE e = d /\ e <= MantissaBits
  <2>1. MantissaBits - e \in 0 .. Last
    BY <1>1, <1>5
  <2> DEFINE u == 2^(MantissaBits - e)
  <2>2. u \in Nat
    BY <2>1, PowersOfTwo
  <2>3. Rounded(m, e) = m * u /\ Rounded(n, e) = n * u
    BY <1>5 DEF Rounded
  <2> HIDE DEF u
  <2>4. Rounded(m, e) <= Rounded(n, e)
    BY <1>1, <2>2, <2>3, Monotone
  <2> QED
    BY <1>1, <1>3, <1>5, <2>4, OrderedByMantissa
<1>6. CASE e = d /\ MantissaBits < e
  <2> DEFINE u == 2^(e - MantissaBits)
             q == m \div u
             r == m % u
             p == n \div u
             t == n % u
  <2>1. /\ u \in Nat \ {0} /\ q \in Int /\ r \in 0 .. u - 1 /\ m = q * u + r
        /\ Rounded(m, e) = IF 2 * r > u \/ (2 * r = u /\ q % 2 = 1) THEN q + 1 ELSE q
    BY <1>6, RoundedUpOrDown
  <2>2. /\ p \in Int /\ t \in 0 .. u - 1 /\ n = p * u + t
        /\ Rounded(n, e) = IF 2 * t > u \/ (2 * t = u /\ p % 2 = 1) THEN p + 1 ELSE p
    BY <1>6, RoundedUpOrDown
  <2> HIDE DEF u, q, r, p, t
  <2>3. q <= p
    <3>1. SUFFICES ASSUME p + 1 <= q PROVE FALSE
      BY <2>1, <2>2
    <3>2. (p + 1) * u <= q * u /\ (p + 1) * u = p * u + u
      BY <2>1, <2>2, <3>1, Monotone
    <3> QED
      BY <1>1, <2>1, <2>2, <3>2
  <2>4. q = p => r <= t
    BY <1>1, <2>1, <2>2
  <2>5. Rounded(m, e) <= Rounded(n, e)
    BY <2>1, <2>2, <2>3, <2>4
  <2> QED
    BY <1>1, <1>3, <1>6, <2>5, OrderedByMantissa
<1> QED
  BY <1>1, <1>2, <1>4, <1>5, <1>6

(* An integer above the integer part of a number is not rounded below it.    *)
LEMMA RoundedNotBelow ==
  ASSUME NEW m, NEW e, HasFirstBit(m, e),
         NEW x \in 0 .. 2 * Last - 1, NEW f \in 0 .. Mantissas - 1, Integral(x, f) < m
  PROVE  Scaled(x - Bias, Mantissas + f) <= Scaled(e, Rounded(m, e))
<1> DEFINE X == x - Bias
           S == Mantissas + f
           T == Integral(x, f)
<1>1. /\ m \in Nat /\ e \in Nat /\ e \in 0 .. Last /\ X \in Int /\ X <= Last
      /\ Mantissas \in Nat /\ MantissaBits \in Nat /\ Last \in Nat /\ MantissaBits < Last
      /\ S \in Mantissas .. 2 * Mantissas /\ S \in Int /\ T \in Nat
      /\ Bias \in Int /\ x \in Int
  BY Sizes, SizesAre, IntegralIs DEF HasFirstBit, Bias, Last
<1>2. Rounded(m, e) \in Mantissas .. 2 * Mantissas
  BY RoundedIsMantissa
<1>3. X < 0 \/ X <= e
  <2>1. SUFFICES ASSUME X >= 0 PROVE X <= e
    BY <1>1
  <2>2. X \in 0 .. Last /\ 2^X <= T
    BY <1>1, <2>1, IntegralIs
  <2>3. T <= m /\ m < 2^(e + 1)
    BY <1>1 DEF HasFirstBit
  <2> QED
    BY <1>1, <2>2, <2>3, FirstBitsGrow
<1>4. CASE X < e
  BY <1>1, <1>2, <1>4, OrderedByExponent
<1>5. CASE X = e
  <2>0. T = IF X < MantissaBits THEN S \div 2^(MantissaBits - X) ELSE S * 2^(X - MantissaBits)
    BY <1>1, <1>5 DEF Integral
  <2> HIDE DEF X, S, T
  <2>1. S <= Rounded(m, e)
    <3>1. CASE e <= MantissaBits
      <4> DEFINE u == 2^(MantissaBits - e)
      <4>1. u \in Nat /\ u > 0
        <5>1. MantissaBits - e \in 0 .. Last
          BY <1>1, <3>1
        <5> QED
          BY <5>1, PowersOfTwo
      <4>2. Rounded(m, e) = m * u
        BY <3>1 DEF Rounded
      <4>3. CASE e < MantissaBits
        <5>1. T = S \div u
          BY <1>5, <2>0, <4>3
        <5> HIDE DEF u
        <5>2. S = T * u + (S % u) /\ S % u \in 0 .. u - 1
          BY <1>1, <4>1, <5>1, Divided
        <5>3. (T + 1) * u <= m * u /\ (T + 1) * u = T * u + u
          <6>1. T + 1 <= m /\ T + 1 \in Int /\ m \in Int
            BY <1>1 DEF T
          <6> QED
            BY <1>1, <4>1, <6>1, Monotone
        <5> QED
          BY <1>1, <4>1, <4>2, <5>2, <5>3
      <4>4. CASE e = MantissaBits
        <5>1. 2^0 = 1 /\ MantissaBits - e = 0 /\ X - MantissaBits = 0
          BY <1>1, <1>5, <4>4
        <5>2. T = S /\ u = 1
          BY <1>1, <1>5, <2>0, <4>4, <5>1
        <5>3. T < m
          BY DEF T
        <5> QED
          BY <1>1, <4>2, <5>2, <5>3
      <4> QED
        BY <1>1, <3>1, <4>3, <4>4
    <3>2. CASE MantissaBits < e
      <4> DEFINE u == 2^(e - MantissaBits)
                 q == m \div u
                 r == m % u
      <4>1. /\ u \in Nat \ {0} /\ q \in Int /\ r \in 0 .. u - 1 /\ m = q * u + r
            /\ Rounded(m, e) \in {q, q + 1}
        BY <3>2, RoundedUpOrDown
      <4>2. T = S * u
        BY <1>1, <1>5, <2>0, <3>2
      <4> HIDE DEF u, q, r
      <4>3. S <= q
        <5>1. SUFFICES ASSUME q + 1 <= S PROVE FALSE
          BY <1>1, <4>1
        <5>2. (q + 1) * u <= S * u /\ (q + 1) * u = q * u + u
          BY <1>1, <4>1, <5>1, Monotone
        <5>3. T < m
          BY DEF T
        <5> QED
          BY <1>1, <4>1, <4>2, <5>2, <5>3
      <4> QED
        BY <1>1, <4>1, <4>3
    <3> QED
      BY <1>1, <3>1, <3>2
  <2>2. Scaled(X, S) <= Scaled(e, Rounded(m, e))
    BY <1>1, <1>2, <1>5, <2>1, OrderedByMantissa
  <2> QED
    BY <2>2 DEF X, S
<1> QED
  BY <1>1, <1>3, <1>4, <1>5

(* An integer up to the integer part of a number is not rounded above it.    *)
LEMMA RoundedNotAbove ==
  ASSUME NEW m, NEW e, HasFirstBit(m, e),
         NEW x \in 0 .. 2 * Last - 1, NEW f \in 0 .. Mantissas - 1, m <= Integral(x, f)
  PROVE  Scaled(e, Rounded(m, e)) <= Scaled(x - Bias, Mantissas + f)
<1> DEFINE X == x - Bias
           S == Mantissas + f
           T == Integral(x, f)
<1>1. /\ m \in Nat /\ m > 0 /\ e \in Nat /\ e \in 0 .. Last /\ X \in Int /\ X <= Last
      /\ Mantissas \in Nat /\ MantissaBits \in Nat /\ Last \in Nat /\ MantissaBits < Last
      /\ S \in Mantissas .. 2 * Mantissas /\ S \in Int /\ T \in Nat
      /\ Bias \in Int /\ x \in Int
  BY Sizes, SizesAre, IntegralIs DEF HasFirstBit, Bias, Last
<1>2. Rounded(m, e) \in Mantissas .. 2 * Mantissas
  BY RoundedIsMantissa
<1>3. X >= 0 /\ e <= X
  <2>1. X >= 0
    BY <1>1, IntegralIs
  <2>2. X \in Nat /\ T < 2^(X + 1)
    BY <1>1, <2>1, IntegralIs
  <2>3. 2^e <= m
    BY DEF HasFirstBit
  <2> QED
    BY <1>1, <2>1, <2>2, <2>3, FirstBitsGrow
<1>4. CASE e < X
  BY <1>1, <1>2, <1>4, OrderedByExponent
<1>5. CASE X = e
  <2>0. T = IF X < MantissaBits THEN S \div 2^(MantissaBits - X) ELSE S * 2^(X - MantissaBits)
    BY <1>1, <1>5 DEF Integral
  <2>9. m <= T
    OBVIOUS
  <2> HIDE DEF X, S, T
  <2>1. Rounded(m, e) <= S
    <3>1. CASE e <= MantissaBits
      <4> DEFINE u == 2^(MantissaBits - e)
      <4>1. u \in Nat /\ u > 0
        <5>1. MantissaBits - e \in 0 .. Last
          BY <1>1, <3>1
        <5> QED
          BY <5>1, PowersOfTwo
      <4>2. Rounded(m, e) = m * u
        BY <3>1 DEF Rounded
      <4>3. CASE e < MantissaBits
        <5>1. T = S \div u
          BY <1>5, <2>0, <4>3
        <5> HIDE DEF u
        <5>2. S = T * u + (S % u) /\ S % u \in 0 .. u - 1
          BY <1>1, <4>1, <5>1, Divided
        <5>3. m * u <= T * u
          BY <1>1, <2>9, <4>1, Monotone
        <5> QED
          BY <1>1, <4>1, <4>2, <5>2, <5>3
      <4>4. CASE e = MantissaBits
        <5>1. 2^0 = 1 /\ MantissaBits - e = 0 /\ X - MantissaBits = 0
          BY <1>1, <1>5, <4>4
        <5>2. T = S /\ u = 1
          BY <1>1, <1>5, <2>0, <4>4, <5>1
        <5> QED
          BY <1>1, <2>9, <4>2, <5>2
      <4> QED
        BY <1>1, <3>1, <4>3, <4>4
    <3>2. CASE MantissaBits < e
      <4> DEFINE u == 2^(e - MantissaBits)
                 q == m \div u
                 r == m % u
      <4>1. /\ u \in Nat \ {0} /\ q \in Int /\ r \in 0 .. u - 1 /\ m = q * u + r
            /\ Rounded(m, e) = IF 2 * r > u \/ (2 * r = u /\ q % 2 = 1) THEN q + 1 ELSE q
        BY <3>2, RoundedUpOrDown
      <4>2. T = S * u
        BY <1>1, <1>5, <2>0, <3>2
      <4> HIDE DEF u, q, r
      <4>3. q <= S
        <5>1. SUFFICES ASSUME S + 1 <= q PROVE FALSE
          BY <1>1, <4>1
        <5>2. (S + 1) * u <= q * u /\ (S + 1) * u = S * u + u
          BY <1>1, <4>1, <5>1, Monotone
        <5> QED
          BY <1>1, <2>9, <4>1, <4>2, <5>2
      <4>4. q = S => r = 0
        BY <1>1, <2>9, <4>1, <4>2
      <4> QED
        BY <1>1, <4>1, <4>3, <4>4
    <3> QED
      BY <1>1, <3>1, <3>2
  <2>2. Scaled(e, Rounded(m, e)) <= Scaled(X, S)
    BY <1>1, <1>2, <1>5, <2>1, OrderedByMantissa
  <2> QED
    BY <2>2 DEF X, S
<1> QED
  BY <1>1, <1>3, <1>4, <1>5

-----------------------------------------------------------------------------
(* Comparisons *)

(* What a word says of the number it stands for. *)
LEMMA NumberOfWord ==
  ASSUME NEW w \in 0 .. Word - 1
  PROVE  \E x \in 0 .. 2 * Last - 1, f \in 0 .. Mantissas - 1 :
           LET y == Scaled(x - Bias, Mantissas + f)
               t == Integral(x, f)
           IN  /\ y \in Nat /\ t \in Nat /\ Magnitude(w) = y
               /\ Place(w) = (IF IsNegative(w) THEN -y ELSE y)
               /\ Truncation(w) = (IF IsNegative(w) THEN -t ELSE t)
<1>1. PICK s, x, f : IsMadeOf(w, s, x, f)
  BY PartsOf
<1>2. /\ x \in 0 .. 2 * Last - 1 /\ f \in 0 .. Mantissas - 1
      /\ IsNegative(w) <=> s = 1
      /\ Magnitude(w) = x * Mantissas + f
      /\ Place(w) = IF s = 1 THEN -(x * Mantissas + f) ELSE x * Mantissas + f
      /\ Magnitude(w) \in 0 .. Sign - 1
  BY <1>1, PartsGive DEF IsMadeOf
<1>3. /\ Truncation(w) = IF s = 1 THEN -Integral(x, f) ELSE Integral(x, f)
      /\ Magnitude(w) = Scaled(x - Bias, Mantissas + f)
  BY <1>1, TruncationIs
<1>4. Integral(x, f) \in Nat
  BY <1>2, IntegralIs
<1>5. Magnitude(w) \in Nat
  BY <1>2, SizesAre, Sizes
<1> QED
  BY <1>2, <1>3, <1>4, <1>5

(* Where the float of a small integer is. *)
LEMMA PlaceOfInteger ==
  ASSUME NEW n \in SmallIntegers
  PROVE  /\ Place(ToDouble(n)) \in Int
         /\ -Infinity < Place(ToDouble(n)) /\ Place(ToDouble(n)) < Infinity /\ Infinity \in Int
         /\ n >= 0 => Place(ToDouble(n)) >= 0
         /\ n <= 0 => Place(ToDouble(n)) <= 0
<1>1. n \in Int
  BY Sizes DEF SmallIntegers
<1> DEFINE m == IF n < 0 THEN -n ELSE n
           w == ToDouble(n)
<1>2. m \in Nat
  BY <1>1
<1>3. /\ w \in 0 .. Word - 1 /\ Magnitude(w) < Infinity
      /\ n = 0 => Place(w) = 0
      /\ n # 0 => \E p \in Nat : Place(w) = IF n < 0 THEN -p ELSE p
  <2> HIDE DEF w
  <2>1. /\ ToDouble(n) \in 0 .. Word - 1
        /\ Magnitude(ToDouble(n)) < Infinity
        /\ n = 0 => ToDouble(n) = 0 /\ Place(ToDouble(n)) = 0
        /\ n # 0 => \E e : /\ HasFirstBit(m, e)
                           /\ Place(ToDouble(n)) =
                                IF n < 0 THEN -Scaled(e, Rounded(m, e)) ELSE Scaled(e, Rounded(m, e))
                           /\ Scaled(e, Rounded(m, e)) \in Nat \ {0}
    BY <1>2, DoubleIs
  <2> QED
    BY <2>1 DEF w
<1>4. PICK y \in Nat : Magnitude(w) = y /\ Place(w) = (IF IsNegative(w) THEN -y ELSE y)
  BY <1>3, NumberOfWord
<1>5. Infinity \in Int
  BY Sizes, SizesAre DEF Infinity, Mantissas
<1> HIDE DEF w, m
<1>6. Place(w) \in Int /\ -Infinity < Place(w) /\ Place(w) < Infinity
  BY <1>3, <1>4, <1>5
<1>7. (n >= 0 => Place(w) >= 0) /\ (n <= 0 => Place(w) <= 0)
  BY <1>1, <1>3
<1> QED
  BY <1>5, <1>6, <1>7 DEF w

(* An integer that is not below a float is not rounded below it. *)
LEMMA NotBelow ==
  ASSUME NEW n \in SmallIntegers, NEW w \in 0 .. Word - 1, ~IsNaN(w), ~Below(n, w)
  PROVE  Place(w) <= Place(ToDouble(n))
<1> DEFINE p == Place(ToDouble(n))
           m == IF n < 0 THEN -n ELSE n
<1>1. n \in Int /\ m \in Nat
  BY Sizes DEF SmallIntegers
<1>2. PICK x \in 0 .. 2 * Last - 1, f \in 0 .. Mantissas - 1 :
        LET y == Scaled(x - Bias, Mantissas + f)
            t == Integral(x, f)
        IN  /\ y \in Nat /\ t \in Nat /\ Magnitude(w) = y
            /\ Place(w) = (IF IsNegative(w) THEN -y ELSE y)
            /\ Truncation(w) = (IF IsNegative(w) THEN -t ELSE t)
  BY NumberOfWord
<1> DEFINE y == Scaled(x - Bias, Mantissas + f)
           t == Integral(x, f)
<1>3. /\ y \in Nat /\ t \in Nat /\ Magnitude(w) = y
      /\ Place(w) = (IF IsNegative(w) THEN -y ELSE y)
      /\ Truncation(w) = (IF IsNegative(w) THEN -t ELSE t)
  BY <1>2
<1>4. /\ p \in Int /\ -Infinity < p /\ Infinity \in Int
      /\ n >= 0 => p >= 0
  BY PlaceOfInteger
<1>5. n # 0 => \E e : HasFirstBit(m, e) /\ p = IF n < 0 THEN -Scaled(e, Rounded(m, e))
                                                        ELSE Scaled(e, Rounded(m, e))
  <2>1. n # 0 => \E e : /\ HasFirstBit(m, e)
                        /\ Place(ToDouble(n)) =
                             IF n < 0 THEN -Scaled(e, Rounded(m, e)) ELSE Scaled(e, Rounded(m, e))
                        /\ Scaled(e, Rounded(m, e)) \in Nat \ {0}
    <3> HIDE DEF p
    <3> QED
      BY <1>1, DoubleIs
  <2> QED
    BY <2>1
<1>6. ~(IF Magnitude(w) = Infinity THEN ~IsNegative(w)
        ELSE n < Truncation(w) \/ (n = Truncation(w) /\ ~IsNegative(w) /\ Fraction(w)))
  BY DEF Below
<1> HIDE DEF p, m, y, t
<1>7. CASE IsNegative(w) /\ Magnitude(w) = Infinity
  BY <1>3, <1>4, <1>7 DEF p
<1>8. CASE IsNegative(w) /\ Magnitude(w) # Infinity
  <2>1. -t <= n
    BY <1>1, <1>3, <1>6, <1>8
  <2>2. CASE n >= 0
    BY <1>3, <1>4, <1>8, <2>2 DEF p
  <2>3. CASE n < 0
    <3>1. PICK e : HasFirstBit(m, e) /\ p = -Scaled(e, Rounded(m, e))
      BY <1>1, <1>5, <2>3
    <3>2. m <= Integral(x, f)
      BY <1>1, <1>3, <2>1, <2>3 DEF m, t
    <3>3. Scaled(e, Rounded(m, e)) <= y
      BY <3>1, <3>2, RoundedNotAbove DEF y
    <3>4. Scaled(e, Rounded(m, e)) \in Int
      <4>1. Rounded(m, e) \in Mantissas .. 2 * Mantissas /\ e \in Int
        BY <3>1, RoundedIsMantissa DEF HasFirstBit
      <4> QED
        BY <4>1, Sizes DEF Scaled, Bias, Last
    <3> QED
      BY <1>3, <1>8, <3>1, <3>3, <3>4 DEF p
  <2> QED
    BY <1>1, <2>2, <2>3
<1>9. CASE ~IsNegative(w)
  <2>1. Magnitude(w) # Infinity
    BY <1>6, <1>9
  <2>2. t <= n /\ (n = t => ~Fraction(w))
    BY <1>1, <1>3, <1>6, <1>9, <2>1
  <2>3. CASE n = t
    <3>1. Truncation(w) = n
      BY <1>3, <1>9, <2>3
    <3> QED
      BY <2>2, <2>3, <3>1, <1>4, <1>3 DEF Fraction, p
  <2>4. CASE n # t
    <3>1. n > 0 /\ m = n /\ Integral(x, f) < m
      BY <1>1, <1>3, <2>2, <2>4 DEF m, t
    <3>2. PICK e : HasFirstBit(m, e) /\ p = Scaled(e, Rounded(m, e))
      BY <1>1, <1>5, <3>1
    <3>3. y <= Scaled(e, Rounded(m, e))
      BY <3>1, <3>2, RoundedNotBelow DEF y
    <3> QED
      BY <1>3, <1>9, <3>2, <3>3 DEF p
  <2> QED
    BY <2>3, <2>4
<1> QED
  BY <1>7, <1>8, <1>9

(* An integer that is not above a float is not rounded above it. *)
LEMMA NotAbove ==
  ASSUME NEW n \in SmallIntegers, NEW w \in 0 .. Word - 1, ~IsNaN(w), ~Above(n, w)
  PROVE  Place(ToDouble(n)) <= Place(w)
<1> DEFINE p == Place(ToDouble(n))
           m == IF n < 0 THEN -n ELSE n
<1>1. n \in Int /\ m \in Nat
  BY Sizes DEF SmallIntegers
<1>2. PICK x \in 0 .. 2 * Last - 1, f \in 0 .. Mantissas - 1 :
        LET y == Scaled(x - Bias, Mantissas + f)
            t == Integral(x, f)
        IN  /\ y \in Nat /\ t \in Nat /\ Magnitude(w) = y
            /\ Place(w) = (IF IsNegative(w) THEN -y ELSE y)
            /\ Truncation(w) = (IF IsNegative(w) THEN -t ELSE t)
  BY NumberOfWord
<1> DEFINE y == Scaled(x - Bias, Mantissas + f)
           t == Integral(x, f)
<1>3. /\ y \in Nat /\ t \in Nat /\ Magnitude(w) = y
      /\ Place(w) = (IF IsNegative(w) THEN -y ELSE y)
      /\ Truncation(w) = (IF IsNegative(w) THEN -t ELSE t)
  BY <1>2
<1>4. /\ p \in Int /\ p < Infinity /\ Infinity \in Int
      /\ n <= 0 => p <= 0
  BY PlaceOfInteger
<1>5. n # 0 => \E e : HasFirstBit(m, e) /\ p = IF n < 0 THEN -Scaled(e, Rounded(m, e))
                                                        ELSE Scaled(e, Rounded(m, e))
  <2>1. n # 0 => \E e : /\ HasFirstBit(m, e)
                        /\ Place(ToDouble(n)) =
                             IF n < 0 THEN -Scaled(e, Rounded(m, e)) ELSE Scaled(e, Rounded(m, e))
                        /\ Scaled(e, Rounded(m, e)) \in Nat \ {0}
    <3> HIDE DEF p
    <3> QED
      BY <1>1, DoubleIs
  <2> QED
    BY <2>1
<1>6. ~(IF Magnitude(w) = Infinity THEN IsNegative(w)
        ELSE n > Truncation(w) \/ (n = Truncation(w) /\ IsNegative(w) /\ Fraction(w)))
  BY DEF Above
<1> HIDE DEF p, m, y, t
<1>7. CASE ~IsNegative(w) /\ Magnitude(w) = Infinity
  BY <1>3, <1>4, <1>7 DEF p
<1>8. CASE ~IsNegative(w) /\ Magnitude(w) # Infinity
  <2>1. n <= t
    BY <1>1, <1>3, <1>6, <1>8
  <2>2. CASE n <= 0
    BY <1>3, <1>4, <1>8, <2>2 DEF p
  <2>3. CASE n > 0
    <3>1. PICK e : HasFirstBit(m, e) /\ p = Scaled(e, Rounded(m, e))
      BY <1>1, <1>5, <2>3
    <3>2. m <= Integral(x, f)
      BY <1>1, <1>3, <2>1, <2>3 DEF m, t
    <3>3. Scaled(e, Rounded(m, e)) <= y
      BY <3>1, <3>2, RoundedNotAbove DEF y
    <3> QED
      BY <1>3, <1>8, <3>1, <3>3 DEF p
  <2> QED
    BY <1>1, <2>2, <2>3
<1>9. CASE IsNegative(w)
  <2>1. Magnitude(w) # Infinity
    BY <1>6, <1>9
  <2>2. n <= -t /\ (n = -t => ~Fraction(w))
    BY <1>1, <1>3, <1>6, <1>9, <2>1
  <2>3. CASE n = -t
    <3>1. Truncation(w) = n
      BY <1>3, <1>9, <2>3
    <3> QED
      BY <2>2, <2>3, <3>1, <1>4, <1>3 DEF Fraction, p
  <2>4. CASE n # -t
    <3>1. n < 0 /\ m = -n /\ Integral(x, f) < m
      BY <1>1, <1>3, <2>2, <2>4 DEF m, t
    <3>2. PICK e : HasFirstBit(m, e) /\ p = -Scaled(e, Rounded(m, e))
      BY <1>1, <1>5, <3>1
    <3>3. y <= Scaled(e, Rounded(m, e))
      BY <3>1, <3>2, RoundedNotBelow DEF y
    <3>4. Scaled(e, Rounded(m, e)) \in Int
      <4>1. Rounded(m, e) \in Mantissas .. 2 * Mantissas /\ e \in Int
        BY <3>2, RoundedIsMantissa DEF HasFirstBit
      <4> QED
        BY <4>1, Sizes DEF Scaled, Bias, Last
    <3> QED
      BY <1>3, <1>9, <3>2, <3>3, <3>4 DEF p
  <2> QED
    BY <2>3, <2>4
<1> QED
  BY <1>7, <1>8, <1>9

(* Integers are not rounded past each other. *)
LEMMA IntegersInOrder ==
  ASSUME NEW a \in SmallIntegers, NEW b \in SmallIntegers, a <= b
  PROVE  Place(ToDouble(a)) <= Place(ToDouble(b))
<1> DEFINE p == Place(ToDouble(a))
           q == Place(ToDouble(b))
           m == IF a < 0 THEN -a ELSE a
           n == IF b < 0 THEN -b ELSE b
<1>1. a \in Int /\ b \in Int /\ m \in Nat /\ n \in Nat
  BY Sizes DEF SmallIntegers
<1>2. /\ p \in Int /\ q \in Int
      /\ a <= 0 => p <= 0
      /\ b >= 0 => q >= 0
  BY PlaceOfInteger
<1>3. a # 0 => \E e : HasFirstBit(m, e) /\ p = IF a < 0 THEN -Scaled(e, Rounded(m, e))
                                                        ELSE Scaled(e, Rounded(m, e))
  <2>1. a # 0 => \E e : /\ HasFirstBit(m, e)
                        /\ Place(ToDouble(a)) =
                             IF a < 0 THEN -Scaled(e, Rounded(m, e)) ELSE Scaled(e, Rounded(m, e))
                        /\ Scaled(e, Rounded(m, e)) \in Nat \ {0}
    <3> HIDE DEF p, q, n
    <3> QED
      BY <1>1, DoubleIs
  <2> QED
    BY <2>1
<1>4. b # 0 => \E e : HasFirstBit(n, e) /\ q = IF b < 0 THEN -Scaled(e, Rounded(n, e))
                                                        ELSE Scaled(e, Rounded(n, e))
  <2>1. b # 0 => \E e : /\ HasFirstBit(n, e)
                        /\ Place(ToDouble(b)) =
                             IF b < 0 THEN -Scaled(e, Rounded(n, e)) ELSE Scaled(e, Rounded(n, e))
                        /\ Scaled(e, Rounded(n, e)) \in Nat \ {0}
    <3> HIDE DEF p, q, m
    <3> QED
      BY <1>1, DoubleIs
  <2> QED
    BY <2>1
<1> HIDE DEF p, q
<1>5. CASE a <= 0 /\ b >= 0
  BY <1>2, <1>5 DEF p, q
<1>6. CASE a > 0
  <2>1. m \in Nat /\ n \in Nat /\ m <= n /\ a # 0 /\ b # 0 /\ ~(a < 0) /\ ~(b < 0)
    BY <1>1, <1>6
  <2> HIDE DEF m, n
  <2>2. PICK e : HasFirstBit(m, e) /\ p = Scaled(e, Rounded(m, e))
    BY <1>3, <2>1
  <2>3. PICK d : HasFirstBit(n, d) /\ q = Scaled(d, Rounded(n, d))
    BY <1>4, <2>1
  <2> QED
    BY <2>1, <2>2, <2>3, RoundingKeepsOrder DEF p, q
<1>7. CASE b < 0
  <2>1. m \in Nat /\ n \in Nat /\ n <= m /\ a # 0 /\ b # 0 /\ a < 0
    BY <1>1, <1>7
  <2> HIDE DEF m, n
  <2>2. PICK e : HasFirstBit(m, e) /\ p = -Scaled(e, Rounded(m, e))
    BY <1>3, <2>1
  <2>3. PICK d : HasFirstBit(n, d) /\ q = -Scaled(d, Rounded(n, d))
    BY <1>4, <1>7, <2>1
  <2>4. Scaled(d, Rounded(n, d)) <= Scaled(e, Rounded(m, e))
    BY <2>1, <2>2, <2>3, RoundingKeepsOrder
  <2>5. Scaled(d, Rounded(n, d)) \in Int /\ Scaled(e, Rounded(m, e)) \in Int
    <3>1. /\ Rounded(m, e) \in Mantissas .. 2 * Mantissas /\ e \in Int
          /\ Rounded(n, d) \in Mantissas .. 2 * Mantissas /\ d \in Int
      BY <2>2, <2>3, RoundedIsMantissa DEF HasFirstBit
    <3> QED
      BY <3>1, Sizes DEF Scaled, Bias, Last
  <2> QED
    BY <2>2, <2>3, <2>4, <2>5 DEF p, q
<1> QED
  BY <1>1, <1>5, <1>6, <1>7

-----------------------------------------------------------------------------
(* Truncation *)

(* Both ends of the small integers are rounded to the same magnitude.        *)
LEMMA EndsOfSmallIntegers ==
  /\ Place(ToDouble(-Half)) = -Scaled(Width, Mantissas)
  /\ Place(ToDouble(Half - 1)) = Scaled(Width, Mantissas)
  /\ Scaled(Width, Mantissas) \in Int /\ Scaled(Width, Mantissas) < Infinity
<1>1. /\ Width \in Nat /\ Width < Last /\ Last \in Nat /\ Mantissas \in Nat /\ Mantissas > 0
      /\ MantissaBits \in Nat /\ MantissaBits + 1 < Width /\ Half \in Nat /\ Half > 0 /\ Half = 2^Width
  BY Sizes, SizesAre
<1>2. Scaled(Width, Mantissas) \in Int
  BY <1>1 DEF Scaled, Bias, Last
<1>3. Place(ToDouble(-Half)) = -Scaled(Width, Mantissas)
  <2>1. -Half \in SmallIntegers /\ -Half # 0 /\ -Half < 0 /\ Half = IF -Half < 0 THEN -(-Half) ELSE -Half
    BY <1>1 DEF SmallIntegers
  <2>2. PICK e : /\ HasFirstBit(Half, e)
                 /\ Place(ToDouble(-Half)) = -Scaled(e, Rounded(Half, e))
    BY <1>1, <2>1, DoubleIs
  <2>3. e = Width
    <3>1. Width \in 0 .. Last /\ e \in Nat /\ 2^Width <= Half /\ Half <= Half /\ Half < 2^(e + 1)
          /\ e <= Width
      BY <1>1, <2>2 DEF HasFirstBit
    <3>2. Width <= e
      BY <1>1, <3>1, FirstBitsGrow
    <3> QED
      BY <1>1, <3>1, <3>2
  <2>4. Rounded(Half, Width) = Mantissas
    <3> DEFINE u == 2^(Width - MantissaBits)
               q == Half \div u
               r == Half % u
    <3>1. /\ u \in Nat \ {0} /\ q \in Int /\ r \in 0 .. u - 1 /\ Half = q * u + r
          /\ Rounded(Half, Width) = IF 2 * r > u \/ (2 * r = u /\ q % 2 = 1) THEN q + 1 ELSE q
      <4>1. MantissaBits < Width /\ HasFirstBit(Half, Width)
        BY <1>1, <2>2, <2>3
      <4> QED
        BY <4>1, RoundedUpOrDown
    <3>2. Half = Mantissas * u
      <4>1. /\ Width - MantissaBits \in Nat /\ MantissaBits + (Width - MantissaBits) = Width
            /\ Width <= Last
        BY <1>1
      <4> QED
        BY <1>1, <4>1, PowersOfTwo DEF Mantissas
    <3>3. q = Mantissas /\ r = 0
      <4> HIDE DEF u
      <4>1. 0 \in 0 .. u - 1 /\ Half = Mantissas * u + 0 /\ u \in Nat /\ u > 0 /\ Mantissas \in Int
        BY <1>1, <3>1, <3>2
      <4> QED
        BY <4>1, DivMod
    <3> HIDE DEF u, q, r
    <3> QED
      BY <3>1, <3>3
  <2> QED
    BY <2>2, <2>3, <2>4
<1>4. Place(ToDouble(Half - 1)) = Scaled(Width - 1, 2 * Mantissas)
  <2>1. /\ Width - 1 \in 0 .. Last /\ (Width - 1) + 1 = Width /\ Half = 2 * 2^(Width - 1)
        /\ 2^(Width - 1) \in Nat /\ 2^(Width - 1) > 0
    <3>1. Width - 1 \in 0 .. Last /\ (Width - 1) + 1 = Width
      BY <1>1
    <3> QED
      BY <1>1, <3>1, PowersOfTwo
  <2>2. /\ Half - 1 \in SmallIntegers /\ Half - 1 # 0 /\ ~(Half - 1 < 0) /\ Half - 1 \in Nat
        /\ Half - 1 = IF Half - 1 < 0 THEN -(Half - 1) ELSE Half - 1
    BY <1>1, <2>1 DEF SmallIntegers
  <2>3. PICK e : /\ HasFirstBit(Half - 1, e)
                 /\ Place(ToDouble(Half - 1)) = Scaled(e, Rounded(Half - 1, e))
    BY <2>2, DoubleIs
  <2>4. e = Width - 1
    <3>1. /\ e \in Nat /\ e <= Width /\ 2^e <= Half - 1 /\ Half - 1 < 2^(e + 1)
          /\ 2^(Width - 1) <= Half - 1 /\ Half - 1 <= Half - 1
      BY <1>1, <2>1, <2>3 DEF HasFirstBit
    <3>2. Width - 1 <= e
      BY <2>1, <2>2, <3>1, FirstBitsGrow
    <3>3. e # Width
      BY <1>1, <3>1
    <3> QED
      BY <1>1, <3>1, <3>2, <3>3
  <2>5. Rounded(Half - 1, Width - 1) = 2 * Mantissas
    <3> DEFINE u == 2^((Width - 1) - MantissaBits)
               q == (Half - 1) \div u
               r == (Half - 1) % u
    <3>1. /\ u \in Nat \ {0} /\ q \in Int /\ r \in 0 .. u - 1 /\ Half - 1 = q * u + r
          /\ Rounded(Half - 1, Width - 1) =
               IF 2 * r > u \/ (2 * r = u /\ q % 2 = 1) THEN q + 1 ELSE q
      <4>1. MantissaBits < Width - 1 /\ HasFirstBit(Half - 1, Width - 1)
        BY <1>1, <2>3, <2>4
      <4> QED
        BY <4>1, RoundedUpOrDown
    <3>2. Half = 2 * (Mantissas * u)
      <4>1. /\ (Width - 1) - MantissaBits \in Nat /\ Width - 1 <= Last
            /\ MantissaBits + ((Width - 1) - MantissaBits) = Width - 1
        BY <1>1
      <4>2. 2^(Width - 1) = Mantissas * u
        BY <1>1, <4>1, PowersOfTwo DEF Mantissas
      <4> QED
        BY <2>1, <4>2
    <3>3. u >= 2
      <4> DEFINE k == (Width - 1) - MantissaBits
      <4>1. 1 \in Nat /\ k \in Nat /\ 1 <= k /\ k <= Last /\ 2^1 = 2
        BY <1>1
      <4> HIDE DEF k
      <4>2. 2^1 <= 2^k
        BY <4>1, PowersGrow
      <4> QED
        BY <4>1, <4>2 DEF k
    <3>4. q = 2 * Mantissas - 1 /\ r = u - 1
      <4> HIDE DEF u
      <4> DEFINE a == 2 * Mantissas - 1
                 b == u - 1
      <4>1. a * u = 2 * (Mantissas * u) - u
        BY <1>1, <3>1
      <4>2. b \in 0 .. u - 1 /\ Half - 1 = a * u + b /\ u \in Nat /\ u > 0 /\ a \in Int
        BY <1>1, <3>1, <3>2, <4>1
      <4> HIDE DEF a, b
      <4>3. (Half - 1) \div u = a /\ (Half - 1) % u = b
        BY <4>2, DivMod
      <4> QED
        BY <4>3 DEF a, b
    <3>5. q % 2 = 1
      <4> HIDE DEF u, q, r
      <4>1. q = (Mantissas - 1) * 2 + 1 /\ Mantissas - 1 \in Int
        BY <1>1, <3>4
      <4> QED
        BY <4>1, DivMod
    <3> HIDE DEF u, q, r
    <3> QED
      BY <1>1, <3>1, <3>3, <3>4, <3>5
  <2> QED
    BY <2>3, <2>4, <2>5
<1>5. Scaled(Width - 1, 2 * Mantissas) = Scaled(Width, Mantissas)
  <2> DEFINE k == Width + Bias - 1
  <2>1. k \in Int /\ Width - 1 + Bias - 1 = k - 1
    BY <1>1 DEF Bias, Last
  <2> HIDE DEF k
  <2>2. (k - 1) * Mantissas + 2 * Mantissas = k * Mantissas + Mantissas
    BY <1>1, <2>1
  <2> QED
    BY <2>1, <2>2 DEF Scaled, k
<1>6. Scaled(Width, Mantissas) < Infinity
  <2>1. Half - 1 \in SmallIntegers
    BY <1>1 DEF SmallIntegers
  <2> QED
    BY <1>4, <1>5, <2>1, PlaceOfInteger
<1> QED
  BY <1>2, <1>3, <1>4, <1>5, <1>6

(* The check of the range of a truncation lets the end that is no small      *)
(* integer through, and nothing else that is none.                           *)
LEMMA TruncatesSmallIntegers ==
  ASSUME NEW w \in 0 .. Word - 1
  PROVE  /\ InTruncatedRange(w) /\ InSmallIntegerRange(Truncation(w))
              <=> Magnitude(w) < Infinity /\ Truncation(w) \in SmallIntegers
         /\ InSmallIntegerRange(Truncation(w)) <=> Truncation(w) \in SmallIntegers
<1> DEFINE b == Scaled(Width, Mantissas)
<1>1. /\ Place(ToDouble(-Half)) = -b /\ Place(ToDouble(Half - 1)) = b
      /\ b \in Int /\ b < Infinity
  BY EndsOfSmallIntegers
<1>2. PICK x \in 0 .. 2 * Last - 1, f \in 0 .. Mantissas - 1 :
        LET y == Scaled(x - Bias, Mantissas + f)
            t == Integral(x, f)
        IN  /\ y \in Nat /\ t \in Nat /\ Magnitude(w) = y
            /\ Place(w) = (IF IsNegative(w) THEN -y ELSE y)
            /\ Truncation(w) = (IF IsNegative(w) THEN -t ELSE t)
  BY NumberOfWord
<1> DEFINE y == Scaled(x - Bias, Mantissas + f)
           t == Integral(x, f)
           X == x - Bias
<1>3. /\ y \in Nat /\ t \in Nat /\ Magnitude(w) = y
      /\ Place(w) = (IF IsNegative(w) THEN -y ELSE y)
      /\ Truncation(w) = (IF IsNegative(w) THEN -t ELSE t)
  BY <1>2
<1>4. /\ Half \in Nat /\ Infinity \in Int /\ Mantissas \in Nat /\ Mantissas > 0
      /\ Last \in Nat /\ Width \in Nat /\ Width < Last /\ Half = 2^Width
      /\ MantissaBits < Width /\ MantissaBits \in Nat
      /\ X \in Int /\ f \in Nat /\ x \in Int /\ Bias \in Int
      /\ Mantissas + f \in Mantissas .. 2 * Mantissas
      /\ Mantissas \in Mantissas .. 2 * Mantissas
  BY Sizes, SizesAre DEF Infinity, Mantissas, Bias, Last
<1>5. ASSUME y > b PROVE t > Half
  <2>1. CASE X < Width
    <3>1. Scaled(X, Mantissas + f) <= Scaled(Width, Mantissas)
      BY <1>4, <2>1, OrderedByExponent
    <3> QED
      BY <1>1, <1>3, <1>5, <3>1
  <2>2. CASE X = Width
    <3>1. f > 0
      BY <1>4, <1>5, <2>2, <1>1
    <3> DEFINE u == 2^(X - MantissaBits)
    <3>2. Half = Mantissas * u /\ u \in Nat /\ u > 0
      <4>1. /\ Width - MantissaBits \in Nat /\ MantissaBits + (Width - MantissaBits) = Width
            /\ Width <= Last /\ Width - MantissaBits \in 0 .. Last
        BY <1>4
      <4> HIDE DEF X
      <4> QED
        BY <1>4, <2>2, <4>1, PowersOfTwo DEF Mantissas
    <3>3. t = (Mantissas + f) * u
      <4>1. ~(X < 0) /\ ~(X < MantissaBits)
        BY <1>4, <2>2
      <4> QED
        BY <4>1 DEF Integral
    <3> HIDE DEF u, X
    <3>4. (Mantissas + f) * u = Mantissas * u + f * u /\ f * u > 0 /\ f * u \in Nat
      <4>1. 1 * u <= f * u
        BY <1>4, <3>1, <3>2, Monotone
      <4> QED
        BY <1>4, <3>2, <4>1, Products
    <3> HIDE DEF t
    <3> QED
      BY <1>3, <1>4, <3>2, <3>3, <3>4
  <2>3. CASE Width < X
    <3>1. X \in 0 .. Last /\ 2^X <= t
      BY <1>4, <2>3, IntegralIs
    <3>2. Width + 1 \in Nat /\ Width + 1 <= X /\ X \in Nat /\ X <= Last /\ Width \in 0 .. Last
      BY <1>4, <2>3, <3>1
    <3> HIDE DEF X, t
    <3>3. 2^(Width + 1) <= 2^X /\ 2^(Width + 1) = 2 * Half /\ 2^X \in Nat
      BY <1>4, <3>1, <3>2, PowersGrow, PowersOfTwo
    <3>4. Half > 0
      BY Sizes
    <3> QED
      BY <1>3, <1>4, <3>1, <3>3, <3>4
  <2> HIDE DEF X
  <2> QED
    BY <1>4, <2>1, <2>2, <2>3
<1> HIDE DEF y, t, b, X
<1>6. InTruncatedRange(w) <=> ~(y > Infinity) /\ -b <= Place(w) /\ Place(w) <= b
  BY <1>1, <1>3 DEF InTruncatedRange, IsNaN
<1>7. InTruncatedRange(w) => y < Infinity
  BY <1>1, <1>3, <1>4, <1>6
<1>8. Truncation(w) \in Int
  BY <1>3
<1>9. InSmallIntegerRange(Truncation(w)) <=> Truncation(w) \in SmallIntegers
  BY <1>4, <1>8 DEF InSmallIntegerRange, SmallIntegers
<1>10. ASSUME y < Infinity, Truncation(w) \in SmallIntegers PROVE InTruncatedRange(w)
  <2>1. t <= Half
    BY <1>3, <1>4, <1>10 DEF SmallIntegers
  <2>2. y <= b
    BY <1>1, <1>3, <1>4, <1>5, <2>1
  <2> QED
    BY <1>1, <1>3, <1>4, <1>6, <1>10, <2>2
<1> QED
  BY <1>3, <1>7, <1>9, <1>10

-----------------------------------------------------------------------------
(* The primitives *)

(* What the operands are: small integers, floats of the processor, and what  *)
(* is no number.                                                             *)
IsFloatOperand(object) ==
  \/ \E n \in SmallIntegers : object = Small(n)
  \/ \E w \in 0 .. Word - 1 : object = ForFloat(w)
  \/ object = NoNumber

IsNumber(object) == IsFloat(object) \/ IsInteger(object)
ValueOf(object)  ==
  IF IsFloat(object) THEN DecodeFloat(object) ELSE ToDouble(IntegerOf(object))

(* A primitive that has not failed has the values of its operands. *)
HasOperands ==
  /\ IsNumber(receiver) /\ left = ValueOf(receiver)
  /\ arguments # <<>> /\ IsNumber(arguments[1]) /\ right = ValueOf(arguments[1])

FloatTypeOK ==
  /\ op \in Computing \cup FloatConversions \cup Comparisons
  /\ IsFloatOperand(receiver)
  /\ arguments = <<>> \/ IsFloatOperand(arguments[1])
  /\ pc \in {"receiver", "argument", "operation", "done"}
  /\ left \in 0 .. Word - 1 /\ right \in 0 .. Word - 1 /\ computed \in 0 .. Word - 1

FloatProtocol ==
  /\ pc = "receiver" => error = "none"
  /\ pc = "argument" => op \notin FloatConversions
  /\ pc = "argument" /\ error = "none" => IsNumber(receiver) /\ left = ValueOf(receiver)
  /\ pc \in {"operation", "done"} /\ op \in Comparisons /\ error = "none" => HasOperands
  /\ pc = "operation" /\ op = "truncated" /\ IsFloat(receiver) =>
       error = "none" /\ left = DecodeFloat(receiver)

(* The result is that of the operation on these values. *)
FloatResult ==
  pc = "done" =>
    /\ error = "none" /\ op \in Computing \cup {"asFloat"} => result = ForFloat(computed)
    /\ error = "none" /\ op \in Comparisons => result.value = FloatHolds(left, right)
    /\ op = "truncated" /\ IsFloat(receiver) =>
         LET w == DecodeFloat(receiver)
         IN  /\ error = "none" <=> InTruncatedRange(w) /\ InSmallIntegerRange(Truncation(w))
             /\ error = "none" => result = Small(Truncation(w))

FloatInv == FloatTypeOK /\ FloatProtocol /\ FloatResult

(* Small integers are not floats and floats are no small integers. *)
LEMMA OperandIs ==
  ASSUME NEW object, IsFloatOperand(object)
  PROVE  /\ IsInteger(object) => ~IsFloat(object) /\ IntegerOf(object) \in SmallIntegers
         /\ IsFloat(object) => ~IsInteger(object) /\ DecodeFloat(object) \in 0 .. Word - 1
<1>1. ASSUME NEW n \in SmallIntegers, object = Small(n)
      PROVE  IsInteger(object) /\ ~IsFloat(object) /\ IntegerOf(object) = n
  <2>1. object.kind = "oop" /\ object.oop = EncodeSmallInteger(n)
    BY <1>1 DEF Small
  <2>2. IsSmallInteger(EncodeSmallInteger(n)) /\ DecodeSmallInteger(EncodeSmallInteger(n)) = n
    BY SmallIntegersRoundTrip
  <2>3. ~IsSmallFloat(EncodeSmallInteger(n))
    BY <2>2 DEF IsSmallInteger, IsSmallFloat
  <2> QED
    BY <2>1, <2>2, <2>3 DEF IsInteger, IsFloat, IntegerOf
<1>2. ASSUME NEW w \in 0 .. Word - 1, object = ForFloat(w)
      PROVE  IsFloat(object) /\ ~IsInteger(object) /\ DecodeFloat(object) \in 0 .. Word - 1
  <2>1. CASE InSmallFloatRange(w)
    <3>1. object.kind = "oop" /\ object.oop = EncodeSmallFloat(w)
      BY <1>2, <2>1 DEF ForFloat
    <3>2. EncodeSmallFloat(w) % Tags = 4 /\ DecodeSmallFloat(EncodeSmallFloat(w)) \in 0 .. Word - 1
      BY <2>1, SmallFloatKeeps
    <3> QED
      BY <3>1, <3>2 DEF IsFloat, IsInteger, IsSmallFloat, IsSmallInteger, DecodeFloat
  <2>2. CASE ~InSmallFloatRange(w)
    <3>1. object.kind = "float" /\ object.value = w
      BY <1>2, <2>2 DEF ForFloat
    <3> QED
      BY <3>1 DEF IsFloat, IsInteger, DecodeFloat
  <2> QED
    BY <2>1, <2>2
<1>3. CASE object = NoNumber
  <2>1. object.kind = "object"
    BY <1>3 DEF NoNumber
  <2> QED
    BY <2>1 DEF IsInteger, IsFloat
<1> QED
  BY <1>1, <1>2, <1>3 DEF IsFloatOperand

(* The value of a number is a word. *)
LEMMA ValueIsWord ==
  ASSUME NEW object, IsFloatOperand(object), IsNumber(object)
  PROVE  ValueOf(object) \in 0 .. Word - 1
<1>1. CASE IsFloat(object)
  BY <1>1, OperandIs DEF ValueOf
<1>2. CASE ~IsFloat(object)
  <2>1. IntegerOf(object) \in SmallIntegers /\ IntegerOf(object) \in Int
    BY <1>2, OperandIs, Sizes DEF IsNumber, SmallIntegers
  <2>2. ToDouble(IntegerOf(object)) \in 0 .. Word - 1
    <3> DEFINE n == IntegerOf(object)
               m == IF n < 0 THEN -n ELSE n
    <3>1. n \in SmallIntegers /\ m \in Nat
      BY <2>1
    <3> HIDE DEF n
    <3> QED
      BY <3>1, DoubleIs DEF n
  <2> QED
    BY <1>2, <2>2 DEF ValueOf
<1> QED
  BY <1>1, <1>2

(* The operands primitives are tried with. *)
LEMMA FirstOperands ==
  /\ \A object \in NumberOperands \cup Few : IsFloatOperand(object)
  /\ \A w \in 0 .. Word - 1 : IsFloatOperand(ForFloat(w))
  /\ IsFloatOperand(NoNumber)
  /\ 0 \in 0 .. Word - 1
<1>1. 0 \in SmallIntegers
  BY Sizes DEF SmallIntegers
<1>2. 1 \in SmallIntegers
  <2>1. Half > 1
    <3>1. Width - 1 \in 0 .. Last /\ (Width - 1) + 1 = Width
      BY Sizes
    <3> QED
      BY <3>1, PowersOfTwo, SizesAre
  <2> QED
    BY <2>1, Sizes DEF SmallIntegers
<1>3. /\ Last \in Nat /\ Last > 8 /\ Mantissas \in Nat /\ Mantissas > 0 /\ Bias = Last - 1
      /\ Last * Mantissas \in Nat /\ Last * Mantissas > 0
      /\ Word = 4 * (Last * Mantissas) /\ Sign = 2 * (Last * Mantissas)
  <2>1. Last * Mantissas >= 1 * Mantissas
    BY Sizes, SizesAre, Monotone
  <2> QED
    BY <2>1, Sizes, SizesAre, Products DEF Bias, Last
<1>4. Sign \in 0 .. Word - 1 /\ 0 \in 0 .. Word - 1
  BY <1>3
<1>5. Bias * 2^MantissaBits \in 0 .. Word - 1
  <2>1. (Last - 1) * Mantissas = Last * Mantissas - Mantissas
    BY <1>3
  <2>2. (Last - 1) * Mantissas \in Nat
    BY <1>3, Products
  <2> QED
    BY <1>3, <2>1, <2>2 DEF Mantissas
<1>6. \A n \in SmallIntegers : IsFloatOperand(Small(n))
  BY DEF IsFloatOperand
<1>7. \A w \in 0 .. Word - 1 : IsFloatOperand(ForFloat(w))
  BY DEF IsFloatOperand
<1>8. IsFloatOperand(NoNumber)
  BY DEF IsFloatOperand
<1>9. \A object \in NumberOperands : IsFloatOperand(object)
  BY <1>6, <1>7, <1>8, FloatPrimitivesAssumption DEF NumberOperands
<1>10. \A object \in Few : IsFloatOperand(object)
  BY <1>1, <1>2, <1>4, <1>5, <1>6, <1>7, <1>8 DEF Few
<1> QED
  BY <1>4, <1>7, <1>8, <1>9, <1>10

(* The invariant holds before anything is taken ... *)
LEMMA FloatInvariantInit == FloatInit => FloatInv
<1> SUFFICES ASSUME FloatInit PROVE FloatInv
  OBVIOUS
<1>1. pc = "receiver" /\ error = "none" /\ left = 0 /\ right = 0 /\ computed = 0
  BY DEF FloatInit
<1>2. IsFloatOperand(receiver) /\ (arguments = <<>> \/ IsFloatOperand(arguments[1]))
      /\ op \in Computing \cup FloatConversions \cup Comparisons
  <2>1. CASE op \in FloatConversions /\ arguments = <<>>
             /\ receiver \in NumberOperands \cup {ForFloat(w) : w \in 0 .. Word - 1}
    BY <2>1, FirstOperands
  <2>2. CASE op = "asFloat" /\ receiver = NoNumber /\ arguments \in {<<a>> : a \in NumberOperands}
    BY <2>2, FirstOperands DEF FloatConversions
  <2>3. CASE op \in Comparisons /\ receiver \in NumberOperands
             /\ arguments \in {<<>>} \cup {<<a>> : a \in NumberOperands}
    BY <2>3, FirstOperands
  <2>4. CASE op \in Computing /\ receiver \in Few
             /\ arguments \in {<<>>} \cup {<<a>> : a \in Few}
    BY <2>4, FirstOperands
  <2> QED
    BY <2>1, <2>2, <2>3, <2>4 DEF FloatInit
<1>3. FloatTypeOK
  BY <1>1, <1>2, FirstOperands DEF FloatTypeOK
<1> QED
  BY <1>1, <1>3 DEF FloatInv, FloatProtocol, FloatResult

(* What the conversion of an operand gives. *)
LEMMA NumberIsTaken ==
  ASSUME NEW object, IsFloatOperand(object), NEW ACTION value, NumberAsFloatValue(object, value)
  PROVE  /\ value \in 0 .. Word - 1
         /\ error' = "none" => error = "none" /\ IsNumber(object) /\ value = ValueOf(object)
         /\ error = "none" /\ IsFloat(object) => error' = "none" /\ value = DecodeFloat(object)
<1>1. 0 \in 0 .. Word - 1
  BY FirstOperands
<1>2. CASE error # "none"
  BY <1>1, <1>2 DEF NumberAsFloatValue
<1>3. CASE error = "none" /\ IsFloat(object)
  <2>1. value = DecodeFloat(object) /\ error' = error
    BY <1>3, OperandIs DEF NumberAsFloatValue
  <2> QED
    BY <1>3, <2>1, OperandIs DEF IsNumber, ValueOf
<1>4. CASE error = "none" /\ ~IsFloat(object) /\ IsInteger(object)
  <2>1. value = ToDouble(IntegerOf(object)) /\ error' = error
    BY <1>4 DEF NumberAsFloatValue, IntegerOf
  <2>2. IsNumber(object) /\ value = ValueOf(object)
    BY <1>4, <2>1 DEF IsNumber, ValueOf
  <2> QED
    BY <1>4, <2>1, <2>2, ValueIsWord
<1>5. CASE error = "none" /\ ~IsFloat(object) /\ ~IsInteger(object)
  BY <1>1, <1>5 DEF NumberAsFloatValue, FailWith
<1> QED
  BY <1>2, <1>3, <1>4, <1>5

(* ... and when the operands are taken, ... *)
LEMMA ReceiverIsTaken ==
  ASSUME FloatInv, GetFloatReceiver
  PROVE  FloatInv'
<1>1. /\ pc = "receiver" /\ error = "none"
      /\ pc' = IF op \in FloatConversions THEN "operation" ELSE "argument"
      /\ op' = op /\ receiver' = receiver /\ arguments' = arguments
      /\ right' = right /\ computed' = computed /\ result' = result
  BY DEF GetFloatReceiver, FloatInv, FloatProtocol
<1>2. 0 \in 0 .. Word - 1
  BY FirstOperands
<1>3. /\ left' \in 0 .. Word - 1
      /\ op # "asFloat" => /\ error' = "none" => IsNumber(receiver) /\ left' = ValueOf(receiver)
                           /\ IsFloat(receiver) => error' = "none" /\ left' = DecodeFloat(receiver)
  <2>1. CASE op = "asFloat" /\ ~IsInteger(StackTop)
    BY <1>2, <2>1 DEF GetFloatReceiver
  <2>2. CASE op = "asFloat" /\ IsInteger(StackTop)
    <3>1. IsFloatOperand(StackTop)
      BY DEF StackTop, FloatInv, FloatTypeOK
    <3>2. NumberAsFloatValue(StackTop, left')
      BY <2>2 DEF GetFloatReceiver
    <3> QED
      BY <2>2, <3>1, <3>2, NumberIsTaken
  <2>3. CASE op # "asFloat"
    <3>1. IsFloatOperand(receiver)
      BY DEF FloatInv, FloatTypeOK
    <3>2. NumberAsFloatValue(receiver, left')
      BY <2>3 DEF GetFloatReceiver
    <3> QED
      BY <1>1, <2>3, <3>1, <3>2, NumberIsTaken
  <2> QED
    BY <2>1, <2>2, <2>3
<1>4. FloatTypeOK'
  BY <1>1, <1>3 DEF FloatInv, FloatTypeOK
<1>5. FloatProtocol'
  <2>1. "truncated" \in FloatConversions /\ "asFloat" \in FloatConversions
        /\ \A c \in Comparisons : c \notin FloatConversions
    BY DEF FloatConversions, Comparisons
  <2>2. (pc = "argument" /\ error = "none" => IsNumber(receiver) /\ left = ValueOf(receiver))'
    BY <1>1, <1>3, <2>1 DEF IsNumber, ValueOf, IsFloat, IsInteger, IntegerOf
  <2>3. (pc = "operation" /\ op = "truncated" /\ IsFloat(receiver) =>
           error = "none" /\ left = DecodeFloat(receiver))'
    BY <1>1, <1>3
  <2> QED
    BY <1>1, <2>1, <2>2, <2>3 DEF FloatProtocol
<1>6. FloatResult'
  BY <1>1 DEF FloatResult
<1> QED
  BY <1>4, <1>5, <1>6 DEF FloatInv

(* ... both of them, ... *)
LEMMA ArgumentIsTaken ==
  ASSUME FloatInv, GetFloatArgument
  PROVE  FloatInv'
<1>1. /\ pc = "argument" /\ pc' = "operation"
      /\ op' = op /\ receiver' = receiver /\ arguments' = arguments
      /\ left' = left /\ computed' = computed /\ result' = result
  BY DEF GetFloatArgument
<1>2. /\ op \notin FloatConversions
      /\ error = "none" => IsNumber(receiver) /\ left = ValueOf(receiver)
  BY <1>1 DEF FloatInv, FloatProtocol
<1>3. /\ right' \in 0 .. Word - 1
      /\ error' = "none" =>
           error = "none" /\ arguments # <<>> /\ IsNumber(arguments[1]) /\ right' = ValueOf(arguments[1])
  <2>1. CASE arguments = <<>>
    BY <2>1, FirstOperands DEF GetFloatArgument, FailWith
  <2>2. CASE arguments # <<>>
    <3>1. IsFloatOperand(arguments[1])
      BY <2>2 DEF FloatInv, FloatTypeOK
    <3>2. NumberAsFloatValue(arguments[1], right')
      BY <2>2 DEF GetFloatArgument
    <3> QED
      BY <2>2, <3>1, <3>2, NumberIsTaken
  <2> QED
    BY <2>1, <2>2
<1>4. FloatTypeOK'
  BY <1>1, <1>3 DEF FloatInv, FloatTypeOK
<1>5. FloatProtocol'
  <2>1. error' = "none" => HasOperands'
    BY <1>1, <1>2, <1>3 DEF HasOperands
  <2>2. op # "truncated"
    BY <1>2 DEF FloatConversions
  <2> QED
    BY <1>1, <2>1, <2>2 DEF FloatProtocol
<1>6. FloatResult'
  BY <1>1 DEF FloatResult
<1> QED
  BY <1>4, <1>5, <1>6 DEF FloatInv

(* What every primitive leaves as it was when it returns. *)
LEMMA ReturnKeeps ==
  ASSUME FloatInv, Done, computed' \in 0 .. Word - 1,
         error' = "none" => error = "none"
  PROVE  FloatTypeOK' /\ FloatProtocol'
<1>1. /\ pc = "operation" /\ pc' = "done" /\ op' = op /\ receiver' = receiver
      /\ arguments' = arguments /\ left' = left /\ right' = right
  BY DEF Done
<1>2. FloatTypeOK'
  BY <1>1 DEF FloatInv, FloatTypeOK
<1>3. HasOperands => HasOperands'
  BY <1>1 DEF HasOperands
<1> QED
  BY <1>1, <1>2, <1>3 DEF FloatInv, FloatProtocol

(* ... when a primitive returns a float, a truth value or nothing, ... *)
LEMMA ResultIsReturned ==
  ASSUME FloatInv, ReturnFloatFailed \/ ReturnFloat \/ ReturnFloatBoolean
  PROVE  FloatInv'
<1>1. CASE ReturnFloatFailed
  <2>1. /\ Done /\ op # "truncated" /\ computed' = computed /\ error' # "none"
    BY <1>1 DEF ReturnFloatFailed, FailWith
  <2>2. FloatTypeOK' /\ FloatProtocol'
    BY <2>1, ReturnKeeps DEF FloatInv, FloatTypeOK
  <2>3. FloatResult'
    BY <2>1 DEF FloatResult, Done
  <2> QED
    BY <2>2, <2>3 DEF FloatInv
<1>2. CASE ReturnFloat
  <2>1. /\ Done /\ error = "none" /\ error' = "none" /\ op \in Computing \cup {"asFloat"}
        /\ result' = ForFloat(computed')
    BY <1>2 DEF ReturnFloat, SuccessWithResult
  <2>2. computed' \in 0 .. Word - 1
    <3>1. left \in 0 .. Word - 1
      BY DEF FloatInv, FloatTypeOK
    <3> QED
      BY <1>2, <3>1 DEF ReturnFloat
  <2>3. FloatTypeOK' /\ FloatProtocol'
    BY <2>1, <2>2, ReturnKeeps
  <2>4. op \notin Comparisons /\ op # "truncated"
    BY <2>1 DEF Computing, Comparisons
  <2>5. FloatResult'
    BY <2>1, <2>4 DEF FloatResult, Done
  <2> QED
    BY <2>3, <2>5 DEF FloatInv
<1>3. CASE ReturnFloatBoolean
  <2>1. /\ Done /\ error = "none" /\ error' = "none" /\ op \in Comparisons /\ computed' = computed
        /\ result' = [kind |-> "boolean", value |-> FloatHolds(left, right)]
    BY <1>3 DEF ReturnFloatBoolean, SuccessWithResult
  <2>2. FloatTypeOK' /\ FloatProtocol'
    BY <2>1, ReturnKeeps DEF FloatInv, FloatTypeOK
  <2>3. op \notin Computing /\ op # "asFloat" /\ op # "truncated"
    BY <2>1 DEF Computing, Comparisons
  <2>4. result'.value = FloatHolds(left, right)
    BY <2>1
  <2>5. FloatHolds(left, right)' = FloatHolds(left, right)
    BY <2>1 DEF FloatHolds, Done
  <2>6. FloatResult'
    BY <2>1, <2>3, <2>4, <2>5 DEF FloatResult, Done
  <2> QED
    BY <2>2, <2>6 DEF FloatInv
<1> QED
  BY <1>1, <1>2, <1>3

(* ... and when it returns an integer part. *)
LEMMA TruncationIsReturned ==
  ASSUME FloatInv, Truncate
  PROVE  FloatInv'
<1>1. /\ Done /\ op = "truncated" /\ computed' = computed
      /\ IF InTruncatedRange(left) THEN ReturnSmallInteger(Truncation(left))
         ELSE FailWith("error") /\ UNCHANGED result
  BY DEF Truncate
<1>2. IsFloat(receiver) => error = "none" /\ left = DecodeFloat(receiver)
  BY <1>1 DEF FloatInv, FloatProtocol, Done
<1>3. /\ IsFloat(receiver) =>
           (error' = "none" <=> InTruncatedRange(left) /\ InSmallIntegerRange(Truncation(left)))
      /\ InTruncatedRange(left) /\ InSmallIntegerRange(Truncation(left)) =>
           result' = Small(Truncation(left))
  BY <1>1, <1>2 DEF ReturnSmallInteger, SuccessWithResult, FailWith, Small
<1>4. FloatTypeOK'
  BY <1>1 DEF FloatInv, FloatTypeOK, Done
<1>5. FloatProtocol'
  <2>1. op \notin Comparisons
    BY <1>1 DEF Comparisons
  <2> QED
    BY <1>1, <2>1 DEF FloatProtocol, Done
<1>6. FloatResult'
  <2>1. op \notin Comparisons /\ op \notin Computing /\ op # "asFloat"
    BY <1>1 DEF Comparisons, Computing
  <2>2. receiver' = receiver /\ op' = op
    BY <1>1 DEF Done
  <2> QED
    BY <1>2, <1>3, <2>1, <2>2 DEF FloatResult
<1> QED
  BY <1>4, <1>5, <1>6 DEF FloatInv

(* The operands have the values the primitive took, and what it answers is   *)
(* the result of its operation on these.                                     *)
THEOREM FloatInvariant == FloatSpec => []FloatInv
<1>1. FloatInit => FloatInv
  BY FloatInvariantInit
<1>2. FloatInv /\ [FloatNext]_floatVars => FloatInv'
  <2> SUFFICES ASSUME FloatInv, [FloatNext]_floatVars PROVE FloatInv'
    OBVIOUS
  <2>1. CASE GetFloatReceiver
    BY <2>1, ReceiverIsTaken
  <2>2. CASE GetFloatArgument
    BY <2>2, ArgumentIsTaken
  <2>3. CASE ReturnFloatFailed \/ ReturnFloat \/ ReturnFloatBoolean
    BY <2>3, ResultIsReturned
  <2>4. CASE Truncate
    BY <2>4, TruncationIsReturned
  <2>5. CASE UNCHANGED floatVars
    BY <2>5 DEF floatVars, FloatInv, FloatTypeOK, FloatProtocol, FloatResult, HasOperands, FloatHolds
  <2> QED
    BY <2>1, <2>2, <2>3, <2>4, <2>5 DEF FloatNext
<1> QED
  BY <1>1, <1>2, PTL DEF FloatSpec

(* A float an object keeps has the exponent and all but the lowest bit of    *)
(* the mantissa of the one the processor came to: no exponent of small       *)
(* floats is lost when its offset is taken and the tag takes its place.      *)
THEOREM MagnitudesKept == FloatSpec => []MagnitudeKept
<1>1. FloatInv => MagnitudeKept
  <2> SUFFICES ASSUME FloatInv, Answered, op \in Computing \cup {"asFloat"}
               PROVE  LET kept == DecodeFloat(result)
                      IN  /\ Exponent(kept) = Exponent(computed)
                          /\ ShiftRight(kept % 2^MantissaBits, 1)
                               = ShiftRight(computed % 2^MantissaBits, 1)
                          /\ ~InSmallFloatRange(computed) => kept = computed
    BY DEF MagnitudeKept
  <2>1. result = ForFloat(computed) /\ computed \in 0 .. Word - 1
    BY DEF FloatInv, FloatResult, FloatTypeOK, Answered
  <2>2. 2^1 = 2
    OBVIOUS
  <2>3. CASE InSmallFloatRange(computed)
    <3> DEFINE kept == DecodeSmallFloat(EncodeSmallFloat(computed))
    <3>1. DecodeFloat(result) = kept
      BY <2>1, <2>3 DEF ForFloat, DecodeFloat
    <3>2. /\ Exponent(kept) = Exponent(computed)
          /\ (kept % Mantissas) \div 2 = (computed % Mantissas) \div 2
      BY <2>1, <2>3, SmallFloatKeeps
    <3> HIDE DEF kept
    <3> QED
      BY <2>2, <2>3, <3>1, <3>2 DEF ShiftRight, Mantissas
  <2>4. CASE ~InSmallFloatRange(computed)
    <3>1. DecodeFloat(result) = computed
      BY <2>1, <2>4 DEF ForFloat, DecodeFloat
    <3> QED
      BY <2>4, <3>1
  <2> QED
    BY <2>3, <2>4
<1> QED
  BY <1>1, FloatInvariant, PTL

(* Truncating answers the integer part of every float whose integer part is  *)
(* a small integer, and fails for all others: of the two bounds that are     *)
(* compared as floats the upper one is rounded to a number that is too       *)
(* large, which the second check refuses.                                    *)
THEOREM TruncationsAreExact == FloatSpec => []TruncatedIsExact
<1>1. FloatInv => TruncatedIsExact
  <2> SUFFICES ASSUME FloatInv, pc = "done", op = "truncated", IsFloat(receiver)
               PROVE  LET w == DecodeFloat(receiver)
                      IN  /\ error = "none" <=>
                               Magnitude(w) < Infinity /\ Truncation(w) \in SmallIntegers
                          /\ error = "none" => DecodeSmallInteger(result.oop) = Truncation(w)
    BY DEF TruncatedIsExact
  <2> DEFINE w == DecodeFloat(receiver)
  <2>1. /\ error = "none" <=> InTruncatedRange(w) /\ InSmallIntegerRange(Truncation(w))
        /\ error = "none" => result = Small(Truncation(w))
    BY DEF FloatInv, FloatResult
  <2>2. w \in 0 .. Word - 1
    BY OperandIs DEF FloatInv, FloatTypeOK
  <2> HIDE DEF w
  <2>3. error = "none" <=> Magnitude(w) < Infinity /\ Truncation(w) \in SmallIntegers
    BY <2>1, <2>2, TruncatesSmallIntegers
  <2>4. ASSUME error = "none" PROVE DecodeSmallInteger(result.oop) = Truncation(w)
    <3>1. result.oop = EncodeSmallInteger(Truncation(w))
      BY <2>1, <2>4 DEF Small
    <3> QED
      BY <2>3, <2>4, <3>1, SmallIntegersRoundTrip
  <2> QED
    BY <2>3, <2>4 DEF w
<1> QED
  BY <1>1, FloatInvariant, PTL

(* If an operand is not less than another, its value is not less either.     *)
LEMMA ValuesInOrder ==
  ASSUME NEW a, IsFloatOperand(a), IsNumber(a), ~IsNaN(ValueOf(a)),
         NEW b, IsFloatOperand(b), IsNumber(b), ~IsNaN(ValueOf(b)),
         ~Less(a, b)
  PROVE  Place(ValueOf(b)) <= Place(ValueOf(a))
<1>1. /\ IsInteger(a) => ~IsFloat(a) /\ IntegerOf(a) \in SmallIntegers
      /\ IsFloat(a) => ~IsInteger(a) /\ DecodeFloat(a) \in 0 .. Word - 1
      /\ IsInteger(b) => ~IsFloat(b) /\ IntegerOf(b) \in SmallIntegers
      /\ IsFloat(b) => ~IsInteger(b) /\ DecodeFloat(b) \in 0 .. Word - 1
  BY OperandIs
<1>2. CASE IsInteger(a) /\ IsInteger(b)
  <2>1. ~(IntegerOf(a) < IntegerOf(b))
    BY <1>1, <1>2 DEF Less
  <2>2. IntegerOf(b) <= IntegerOf(a)
    BY <1>1, <1>2, <2>1, Sizes DEF SmallIntegers
  <2>3. Place(ToDouble(IntegerOf(b))) <= Place(ToDouble(IntegerOf(a)))
    BY <1>1, <1>2, <2>2, IntegersInOrder
  <2> QED
    BY <1>1, <1>2, <2>3 DEF ValueOf
<1>3. CASE IsInteger(a) /\ IsFloat(b)
  <2>1. ~Below(IntegerOf(a), DecodeFloat(b)) /\ ~IsNaN(DecodeFloat(b))
    BY <1>1, <1>3 DEF Less, ValueOf
  <2>2. Place(DecodeFloat(b)) <= Place(ToDouble(IntegerOf(a)))
    BY <1>1, <1>3, <2>1, NotBelow
  <2> QED
    BY <1>1, <1>3, <2>2 DEF ValueOf
<1>4. CASE IsFloat(a) /\ IsInteger(b)
  <2>1. ~Above(IntegerOf(b), DecodeFloat(a)) /\ ~IsNaN(DecodeFloat(a))
    BY <1>1, <1>4 DEF Less, ValueOf
  <2>2. Place(ToDouble(IntegerOf(b))) <= Place(DecodeFloat(a))
    BY <1>1, <1>4, <2>1, NotAbove
  <2> QED
    BY <1>1, <1>4, <2>2 DEF ValueOf
<1>5. CASE IsFloat(a) /\ IsFloat(b)
  <2>1. ~(Place(DecodeFloat(a)) < Place(DecodeFloat(b)))
    BY <1>1, <1>5 DEF Less
  <2>2. Place(DecodeFloat(a)) \in Int /\ Place(DecodeFloat(b)) \in Int
    BY <1>1, <1>5, NumberOfWord
  <2> QED
    BY <1>5, <2>1, <2>2 DEF ValueOf
<1> QED
  BY <1>2, <1>3, <1>4, <1>5 DEF IsNumber

(* The place of a number, and that an integer is no NaN. *)
LEMMA PlaceOfNumber ==
  ASSUME NEW a, IsFloatOperand(a), IsNumber(a)
  PROVE  /\ Place(ValueOf(a)) \in Int
         /\ IsNaN(ValueOf(a)) <=> NotNumber(a)
<1>1. Place(ValueOf(a)) \in Int
  BY ValueIsWord, NumberOfWord
<1>2. CASE IsFloat(a)
  BY <1>1, <1>2 DEF NotNumber, ValueOf
<1>3. CASE ~IsFloat(a)
  <2>1. IntegerOf(a) \in SmallIntegers
    BY <1>3, OperandIs DEF IsNumber
  <2>2. Magnitude(ToDouble(IntegerOf(a))) < Infinity
    <3> DEFINE n == IntegerOf(a)
               m == IF n < 0 THEN -n ELSE n
    <3>1. n \in SmallIntegers /\ m \in Nat
      BY <2>1, Sizes DEF SmallIntegers
    <3> HIDE DEF n
    <3> QED
      BY <3>1, DoubleIs DEF n
  <2>3. ToDouble(IntegerOf(a)) \in 0 .. Word - 1
    BY <1>3, ValueIsWord DEF ValueOf
  <2>4. Magnitude(ToDouble(IntegerOf(a))) \in Nat /\ Infinity \in Int
    BY <2>3, NumberOfWord, Sizes, SizesAre DEF Infinity, Mantissas
  <2> QED
    BY <1>1, <1>3, <2>2, <2>4 DEF NotNumber, ValueOf, IsNaN
<1> QED
  BY <1>2, <1>3

(* No comparison of any operands is the wrong way round. *)
THEOREM ComparisonsInOrder == FloatSpec => []ComparisonsNotReversed
<1>1. FloatInv => ComparisonsNotReversed
  <2> SUFFICES ASSUME FloatInv, Answered, op \in Comparisons PROVE ComparisonsNotReversed
    BY DEF ComparisonsNotReversed
  <2> DEFINE a == receiver
             b == arguments[1]
             u == ValueOf(a)
             v == ValueOf(b)
             value == result.value
  <2>1. /\ IsFloatOperand(a) /\ IsNumber(a) /\ IsFloatOperand(b) /\ IsNumber(b)
        /\ value = FloatHolds(u, v)
    BY DEF FloatInv, FloatTypeOK, FloatProtocol, FloatResult, HasOperands, Answered
  <2>2. /\ Place(u) \in Int /\ (IsNaN(u) <=> NotNumber(a))
        /\ Place(v) \in Int /\ (IsNaN(v) <=> NotNumber(b))
    BY <2>1, PlaceOfNumber
  <2>3. ~IsNaN(u) /\ ~IsNaN(v) /\ ~Less(a, b) => Place(v) <= Place(u)
    BY <2>1, ValuesInOrder
  <2>4. ~IsNaN(u) /\ ~IsNaN(v) /\ ~Less(b, a) => Place(u) <= Place(v)
    BY <2>1, ValuesInOrder
  <2> HIDE DEF u, v, value
  <2>5. CASE IsNaN(u) \/ IsNaN(v)
    <3>1. value = (op = "notEqual")
      BY <2>1, <2>5 DEF FloatHolds
    <3> QED
      BY <2>2, <2>5, <3>1 DEF ComparisonsNotReversed, value
  <2>6. CASE ~IsNaN(u) /\ ~IsNaN(v)
    <3> DEFINE p == Place(u)
               q == Place(v)
    <3>1. /\ p \in Int /\ q \in Int
          /\ ~Less(a, b) => q <= p
          /\ ~Less(b, a) => p <= q
      BY <2>2, <2>3, <2>4, <2>6
    <3>2. /\ op = "lessThan" => value = (p < q)
          /\ op = "greaterThan" => value = (p > q)
          /\ op = "lessOrEqual" => value = (p <= q)
          /\ op = "greaterOrEqual" => value = (p >= q)
          /\ op = "equal" => value = (p = q)
          /\ op = "notEqual" => value = (p # q)
      BY <2>1, <2>6 DEF FloatHolds
    <3> HIDE DEF p, q
    <3>3. /\ p < q => Less(a, b)
          /\ p > q => Less(b, a)
          /\ ~Less(b, a) => p <= q
          /\ ~Less(a, b) => p >= q
          /\ ~Less(a, b) /\ ~Less(b, a) => p = q
          /\ p # q => Less(a, b) \/ Less(b, a)
      BY <3>1
    <3>4. /\ op = "lessThan" /\ value => Less(a, b)
          /\ op = "greaterThan" /\ value => Less(b, a)
          /\ op = "lessOrEqual" /\ ~Less(b, a) => value
          /\ op = "greaterOrEqual" /\ ~Less(a, b) => value
          /\ op = "equal" /\ ~Less(a, b) /\ ~Less(b, a) => value
          /\ op = "notEqual" /\ value => Less(a, b) \/ Less(b, a)
      BY <3>2, <3>3, Zenon
    <3> QED
      BY <2>2, <2>6, <3>4 DEF ComparisonsNotReversed, Comparisons, value
  <2> QED
    BY <2>5, <2>6
<1> QED
  BY <1>1, FloatInvariant, PTL
=============================================================================
