--------------------------- MODULE FloatPrimitives ---------------------------
(***************************************************************************)
(* The float primitives (src/vm/arithmetic-primitives.c), which take small *)
(* integers, small floats and boxed floats, and what they keep of a number *)
(* on its way from and to the processor.                                   *)
(*                                                                         *)
(* As in module Arithmetic a primitive takes its operands one by one.  The *)
(* processor compares numbers, rounds an integer to the nearest one, to    *)
(* even between two, and cuts a fraction off; what it comes to in the      *)
(* other operations is any number.                                         *)
(***************************************************************************)
EXTENDS SmallFloat, PrimitiveContext

CONSTANTS
  IntegerOperands,  \* the small integers among the operands
  FloatOperands     \* the floats among them, by their bits

ASSUME FloatPrimitivesAssumption ==
  /\ IntegerOperands \subseteq SmallIntegers /\ FloatOperands \subseteq 0 .. Word - 1
  /\ ExponentBits > TagBits + 1         \* a small integer has more bits than a mantissa
  /\ 2^(ExponentBits - 1) \in Nat
  /\ Bits < 2^(ExponentBits - 1)        \* no small integer is beyond the range of floats

(* What is used of the powers of two. *)
ASSUME PowersAssumption ==
  \A n \in 0 .. 2^(ExponentBits - 1) : 2^n \in Nat \ {0} /\ 2^(n + 1) = 2 * 2^n

Computing        == {"add", "subtract", "multiply", "divide"}
FloatConversions == {"asFloat", "truncated"}

VARIABLE
  computed   \* what the processor came to

floatVars == <<op, receiver, arguments, pc, error, left, right, computed, result>>

-----------------------------------------------------------------------------
(* The processor *)

Sign     == 2^(Bits - 1)
Bias     == 2^(ExponentBits - 1) - 1
Infinity == (2^ExponentBits - 1) * 2^MantissaBits

Magnitude(w)  == w % Sign
IsNegative(w) == w >= Sign
IsNaN(w)      == Magnitude(w) > Infinity
IsZero(w)     == Magnitude(w) = 0

(* The numbers but NaN are ordered as these integers are. *)
Place(w) == IF IsNegative(w) THEN -Magnitude(w) ELSE w

(* Mutant of Rounded: the last bit that is kept is never 0. *)
RoundedToOdd(m, e) ==
  LET unit == 2^(e - MantissaBits)
      q    == m \div unit
  IN  IF e <= MantissaBits THEN m * 2^(MantissaBits - e)
      ELSE IF m % unit # 0 /\ q % 2 = 1 THEN q + 2 ELSE q

(* (double): the nearest number to m, a magnitude whose first bit is 2^e. *)
Rounded(m, e) ==
  LET unit == 2^(e - MantissaBits)
      q    == m \div unit
      up   == 2 * (m % unit) > unit \/ (2 * (m % unit) = unit /\ q % 2 = 1)
  IN  IF e <= MantissaBits THEN m * 2^(MantissaBits - e) ELSE IF up THEN q + 1 ELSE q

ToDouble(n) ==
  LET m == IF n < 0 THEN -n ELSE n
      e == CHOOSE k \in 0 .. Bits : 2^k <= m /\ m < 2^(k + 1)
  IN  IF n = 0 THEN 0
      ELSE (IF n < 0 THEN Sign ELSE 0) + (e + Bias - 1) * 2^MantissaBits + Rounded(m, e)

(* (intptr_t): the integer part, of a number that has one. *)
Truncation(w) ==
  LET e           == Exponent(w) - Bias
      significant == 2^MantissaBits + (w % 2^MantissaBits)
      m           == IF e < 0 THEN 0
                     ELSE IF e < MantissaBits THEN significant \div 2^(MantissaBits - e)
                     ELSE significant * 2^(e - MantissaBits)
  IN  IF IsNegative(w) THEN -m ELSE m

(* A comparison of floats; with a NaN only "not equal" holds. *)
FloatHolds(a, b) ==
  IF IsNaN(a) \/ IsNaN(b) THEN op = "notEqual"
  ELSE CASE op = "lessThan"       -> Place(a) < Place(b)
         [] op = "greaterThan"    -> Place(a) > Place(b)
         [] op = "lessOrEqual"    -> Place(a) <= Place(b)
         [] op = "greaterOrEqual" -> Place(a) >= Place(b)
         [] op = "equal"          -> Place(a) = Place(b)
         [] op = "notEqual"       -> Place(a) # Place(b)

-----------------------------------------------------------------------------
(* The protocol *)

SuccessWithResult(object) == error' = "none" /\ result' = object

IsInteger(object) == object.kind = "oop" /\ IsSmallInteger(object.oop)
IsFloat(object)   == object.kind = "float" \/ (object.kind = "oop" /\ IsSmallFloat(object.oop))

(* crankvm_primitive_getNumberAsFloatValue: value is 0 when it fails. *)
NumberAsFloatValue(object, value) ==
  \/ error # "none" /\ value = 0 /\ UNCHANGED error
  \/ error = "none" /\ IsFloat(object) /\ value = DecodeFloat(object) /\ UNCHANGED error
  \/ /\ error = "none" /\ IsInteger(object)
     /\ value = ToDouble(DecodeSmallInteger(object.oop)) /\ UNCHANGED error
  \/ error = "none" /\ ~IsFloat(object) /\ ~IsInteger(object) /\ value = 0 /\ FailWith("badArgument")

GetFloatReceiver ==
  /\ pc = "receiver"
  /\ IF op = "asFloat" /\ ~IsInteger(StackTop)
     THEN left' = 0 /\ FailWith("badArgument")
     ELSE NumberAsFloatValue(IF op = "asFloat" THEN StackTop ELSE receiver, left')
  /\ pc' = IF op \in FloatConversions THEN "operation" ELSE "argument"
  /\ UNCHANGED <<op, receiver, arguments, right, computed, result>>

GetFloatArgument ==
  /\ pc = "argument"
  /\ IF arguments = <<>>
     THEN FailWith("badNumberOfArguments") /\ right' = 0
     ELSE NumberAsFloatValue(arguments[1], right')
  /\ pc' = "operation"
  /\ UNCHANGED <<op, receiver, arguments, left, computed, result>>

Done == pc = "operation" /\ pc' = "done" /\ UNCHANGED <<op, receiver, arguments, left, right>>

DividesByZero == op = "divide" /\ IsZero(right)

(* The primitive returns without a result. *)
ReturnFloatFailed ==
  /\ Done /\ op # "truncated"
  /\ \/ DividesByZero /\ FailWith("error")
     \/ ~DividesByZero /\ error # "none" /\ UNCHANGED error
  /\ UNCHANGED <<computed, result>>

(* crankvm_primitive_returnFloat. *)
ReturnFloat ==
  /\ Done /\ error = "none"
  /\ \/ op = "asFloat" /\ computed' = left
     \/ op \in Computing /\ ~DividesByZero /\ computed' \in 0 .. Word - 1
  /\ SuccessWithResult(ForFloat(computed'))

ReturnFloatBoolean ==
  /\ Done /\ error = "none" /\ op \in Comparisons
  /\ SuccessWithResult([kind |-> "boolean", value |-> FloatHolds(left, right)])
  /\ UNCHANGED computed

(* The bounds are rounded when they are made doubles. *)
InTruncatedRange(w) ==
  /\ ~IsNaN(w)
  /\ Place(ToDouble(-Half)) <= Place(w)
  /\ Place(w) <= Place(ToDouble(Half - 1))

(* Mutant of ReturnSmallInteger: the range is not looked at again. *)
ReturnSmallIntegerUnchecked(n) ==
  SuccessWithResult([kind |-> "oop", oop |-> EncodeSmallInteger(n)])

(* crankvm_primitive_returnSmallInteger. *)
ReturnSmallInteger(n) ==
  IF InSmallIntegerRange(n)
  THEN SuccessWithResult([kind |-> "oop", oop |-> EncodeSmallInteger(n)])
  ELSE FailWith("error") /\ UNCHANGED result

(* floatTruncated does not ask whether its receiver was a number. *)
Truncate ==
  /\ Done /\ op = "truncated"
  /\ IF InTruncatedRange(left) THEN ReturnSmallInteger(Truncation(left))
     ELSE FailWith("error") /\ UNCHANGED result
  /\ UNCHANGED computed

Small(n) == [kind |-> "oop", oop |-> EncodeSmallInteger(n)]
NoNumber == [kind |-> "object"]
NumberOperands ==
  {Small(n) : n \in IntegerOperands} \cup {ForFloat(w) : w \in FloatOperands} \cup {NoNumber}
Few == {Small(0), Small(1), ForFloat(Sign), ForFloat(Bias * 2^MantissaBits), NoNumber}

FloatInit ==
  /\ \/ /\ op \in FloatConversions /\ arguments = <<>>
        /\ receiver \in NumberOperands \cup {ForFloat(w) : w \in 0 .. Word - 1}
     \/ op = "asFloat" /\ receiver = NoNumber /\ arguments \in {<<a>> : a \in NumberOperands}
     \/ /\ op \in Comparisons /\ receiver \in NumberOperands
        /\ arguments \in {<<>>} \cup {<<a>> : a \in NumberOperands}
     \/ op \in Computing /\ receiver \in Few /\ arguments \in {<<>>} \cup {<<a>> : a \in Few}
  /\ pc = "receiver" /\ error = "none"
  /\ left = 0 /\ right = 0 /\ computed = 0
  /\ result = None

FloatNext ==
  \/ GetFloatReceiver \/ GetFloatArgument
  \/ ReturnFloatFailed \/ ReturnFloat \/ ReturnFloatBoolean \/ Truncate

FloatSpec == FloatInit /\ [][FloatNext]_floatVars

-----------------------------------------------------------------------------
(* Properties *)

(* The float an object keeps is the one the processor came to, but for its   *)
(* sign and the lowest bit of its mantissa; all of it if it does not fit an  *)
(* oop.                                                                      *)
MagnitudeKept ==
  Answered /\ op \in Computing \cup {"asFloat"} =>
    LET kept == DecodeFloat(result)
    IN  /\ Exponent(kept) = Exponent(computed)
        /\ ShiftRight(kept % 2^MantissaBits, 1) = ShiftRight(computed % 2^MantissaBits, 1)
        /\ ~InSmallFloatRange(computed) => kept = computed

(* "Rotate left the sign." and "Rotate right the sign bit.": what was        *)
(* rotated one way and then the other is what it was.                        *)
RoundTrips ==
  Answered /\ op \in Computing \cup {"asFloat"} => DecodeFloat(result) = computed

(* Truncating a float answers its integer part if that is a small integer    *)
(* and fails otherwise, of infinities and NaN, too: no rounding of the       *)
(* bounds lets a number through whose encoding is another integer.           *)
TruncatedIsExact ==
  pc = "done" /\ op = "truncated" /\ IsFloat(receiver) =>
    LET w == DecodeFloat(receiver)
    IN  /\ error = "none" <=>
             Magnitude(w) < Infinity /\ Truncation(w) \in SmallIntegers
        /\ error = "none" => DecodeSmallInteger(result.oop) = Truncation(w)

(* The order of two operands as numbers: an integer is not rounded to be     *)
(* compared with a float.                                                    *)
Fraction(w) == Place(ToDouble(Truncation(w))) # Place(w)
Below(n, w) ==
  IF Magnitude(w) = Infinity THEN ~IsNegative(w)
  ELSE n < Truncation(w) \/ (n = Truncation(w) /\ ~IsNegative(w) /\ Fraction(w))
Above(n, w) ==
  IF Magnitude(w) = Infinity THEN IsNegative(w)
  ELSE n > Truncation(w) \/ (n = Truncation(w) /\ IsNegative(w) /\ Fraction(w))

IntegerOf(object) == DecodeSmallInteger(object.oop)

Less(a, b) ==
  CASE IsInteger(a) /\ IsInteger(b) -> IntegerOf(a) < IntegerOf(b)
    [] IsInteger(a) /\ IsFloat(b)   -> Below(IntegerOf(a), DecodeFloat(b))
    [] IsFloat(a) /\ IsInteger(b)   -> Above(IntegerOf(b), DecodeFloat(a))
    [] OTHER                        -> Place(DecodeFloat(a)) < Place(DecodeFloat(b))

NotNumber(object) == IsFloat(object) /\ IsNaN(DecodeFloat(object))

(* However integers are rounded, no comparison is the wrong way round: a     *)
(* number found less or greater is, and one that is less or equal is found   *)
(* to be.  A NaN is neither.                                                 *)
ComparisonsNotReversed ==
  Answered /\ op \in Comparisons =>
    LET a == receiver
        b == arguments[1]
    IN  IF NotNumber(a) \/ NotNumber(b) THEN result.value = (op = "notEqual")
        ELSE CASE op = "lessThan"       -> result.value => Less(a, b)
               [] op = "greaterThan"    -> result.value => Less(b, a)
               [] op = "lessOrEqual"    -> ~Less(b, a) => result.value
               [] op = "greaterOrEqual" -> ~Less(a, b) => result.value
               [] op = "equal"          -> ~Less(a, b) /\ ~Less(b, a) => result.value
               [] op = "notEqual"       -> result.value => Less(a, b) \/ Less(b, a)
=============================================================================
