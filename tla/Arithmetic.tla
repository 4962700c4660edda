----------------------------- MODULE Arithmetic -----------------------------
(***************************************************************************)
(* The integer primitives (src/vm/arithmetic-primitives.c), those of object*)
(* identity and of characters (src/vm/object-primitives.c), and the part of*)
(* the protocol of primitives they use (src/include/crank-vm/interpreter.h)*)
(*                                                                         *)
(* A primitive takes its operands one by one; the first thing that is      *)
(* wrong sets the error, which the later steps look at.  C divides         *)
(* rounding to zero; what it leaves undefined, a shift by as many bits as  *)
(* a word has, is what the processor does with it or the right answer.     *)
(***************************************************************************)
EXTENDS Immediates, PrimitiveContext

CONSTANTS
  WordBits,     \* 64
  OtherOperands \* oops that are no small integers

ASSUME ArithmeticAssumption ==
  /\ WordBits \in Nat \ {0} /\ Word = 2^WordBits
  /\ \E n \in 0 .. WordBits - 1 : Half = 2^n
  /\ \A n \in 0 .. WordBits : 2^n \in Nat \ {0}
  /\ \A n \in 0 .. WordBits - 1 : 2^(n + 1) = 2 * 2^n
  /\ \A oop \in OtherOperands :
       /\ oop \in 0 .. Word - 1 /\ ~IsSmallInteger(oop)
       /\ IsCharacter(oop) => oop < Half * Tags  \* as all that the program makes

Divisions   == {"divide", "div", "mod", "quo"}
BitWise     == {"bitAnd", "bitOr", "bitXor"}
Operations  == {"add", "subtract", "multiply", "bitShift"} \cup Divisions \cup BitWise \cup Comparisons
Identities  == {"identityEquals", "identityNotEquals"}
Conversions == {"asCharacter", "immediateAsInteger"}

vars == <<op, receiver, arguments, pc, error, left, right, result>>

TypeOK ==
  /\ op \in Operations \cup Identities \cup Conversions /\ receiver \in 0 .. Word - 1
  /\ arguments \in {<<>>} \cup {<<a>> : a \in 0 .. Word - 1}
  /\ pc \in {"receiver", "argument", "operation", "done", "aborted"}
  /\ pc \in {"argument", "operation"} => op \in Operations
  /\ error \in {"none", "error", "badReceiver", "badArgument", "badNumberOfArguments"}
  /\ left \in SmallIntegers /\ right \in SmallIntegers
  /\ result.kind \in {"none", "small", "character", "large", "boolean"}
  /\ result.kind \in {"small", "character"} => result.oop \in 0 .. Word - 1

-----------------------------------------------------------------------------
(* C's operators *)

Abs(n)        == IF n < 0 THEN -n ELSE n
Quotient(a, b) ==
  IF (a < 0) = (b < 0) THEN Abs(a) \div Abs(b) ELSE -(Abs(a) \div Abs(b))
Remainder(a, b) == a - b * Quotient(a, b)

(* The bits that are set in a number, and the numbers with these bits.       *)
BitsOf(n)      == {k \in 0 .. WordBits - 1 : ((n % Word) \div 2^k) % 2 = 1}
WithBits(bits) == {n \in IntPtr : BitsOf(n) = bits}

(* A shift left, and one right, of a by n bits. *)
ShiftedLeft(a, n) ==
  IF n < WordBits THEN {Wrapped(a * 2^n)} ELSE {Wrapped(a * 2^(n % WordBits)), 0}
ShiftedRight(a, n) ==
  IF n < WordBits THEN {a \div 2^n}
  ELSE {a \div 2^(n % WordBits), IF a < 0 THEN -1 ELSE 0}

-----------------------------------------------------------------------------
(* The primitives *)

(* Mutant of FlooredQuotient: only a negative dividend is looked at. *)
FlooredQuotientOneSign(a, b) ==
  IF Remainder(a, b) < 0 THEN Quotient(a, b) - 1 ELSE Quotient(a, b)

(* crankvm_primitive_integerDiv. *)
FlooredQuotient(a, b) ==
  IF Remainder(a, b) # 0 /\ (Remainder(a, b) < 0) # (b < 0)
  THEN Quotient(a, b) - 1 ELSE Quotient(a, b)

(* crankvm_primitive_integerMod. *)
FlooredRemainder(a, b) ==
  IF Remainder(a, b) # 0 /\ (Remainder(a, b) < 0) # (b < 0)
  THEN Remainder(a, b) + b ELSE Remainder(a, b)

(* Mutant of Fails: quo looks at the remainder, too. *)
FailsWhenInexact(a, b) ==
  IF b = 0 THEN op \in Divisions ELSE op \in {"divide", "quo"} /\ Remainder(a, b) # 0

(* The operands a primitive refuses. *)
Fails(a, b) ==
  IF b = 0 THEN op \in Divisions ELSE op = "divide" /\ Remainder(a, b) # 0

(* The numbers a primitive can come to; a product is cut to a word on its    *)
(* way to crankvm_primitive_returnInteger128.                                *)
Values(a, b) ==
  CASE op = "add"      -> {a + b}
    [] op = "subtract" -> {a - b}
    [] op = "multiply" -> {Wrapped(a * b)}
    [] op = "divide"   -> {Quotient(a, b)}
    [] op = "div"      -> {FlooredQuotient(a, b)}
    [] op = "mod"      -> {FlooredRemainder(a, b)}
    [] op = "quo"      -> {Quotient(a, b)}
    [] op = "bitAnd"   -> WithBits(BitsOf(a) \cap BitsOf(b))
    [] op = "bitOr"    -> WithBits(BitsOf(a) \cup BitsOf(b))
    [] op = "bitXor"   -> WithBits((BitsOf(a) \ BitsOf(b)) \cup (BitsOf(b) \ BitsOf(a)))
    [] op = "bitShift" -> IF b < 0 THEN ShiftedRight(a, -b) ELSE ShiftedLeft(a, b)

Holds(a, b) ==
  CASE op = "lessThan"       -> a < b
    [] op = "greaterThan"    -> a > b
    [] op = "lessOrEqual"    -> a <= b
    [] op = "greaterOrEqual" -> a >= b
    [] op = "equal"          -> a = b
    [] op = "notEqual"       -> a # b

-----------------------------------------------------------------------------
(* The protocol *)

(* crankvm_primitive_getSmallIntegerValue, answering 0 when it fails. *)
SmallIntegerValue(oop, value) ==
  /\ value = IF error = "none" /\ IsSmallInteger(oop) THEN DecodeSmallInteger(oop) ELSE 0
  /\ IF IsSmallInteger(oop) THEN UNCHANGED error ELSE FailWith("badArgument")

GetReceiver ==
  /\ pc = "receiver" /\ op \in Operations
  /\ SmallIntegerValue(receiver, left')
  /\ pc' = "argument"
  /\ UNCHANGED <<op, receiver, arguments, right, result>>

(* Mutant of GetArgument: an argument too few is always the error. *)
GetArgumentForgets ==
  /\ pc = "argument"
  /\ IF arguments = <<>>
     THEN error' = "badNumberOfArguments" /\ right' = 0
     ELSE SmallIntegerValue(arguments[1], right')
  /\ pc' = "operation"
  /\ UNCHANGED <<op, receiver, arguments, left, result>>

(* crankvm_primitive_getArgument(0) and the value of what it answers. *)
GetArgument ==
  /\ pc = "argument"
  /\ IF arguments = <<>>
     THEN FailWith("badNumberOfArguments") /\ right' = 0
     ELSE SmallIntegerValue(arguments[1], right')
  /\ pc' = "operation"
  /\ UNCHANGED <<op, receiver, arguments, left, result>>

(* The primitive returns without a result. *)
ReturnFailed ==
  /\ pc = "operation" /\ op # "bitShift"
  /\ \/ error # "none" /\ UNCHANGED error
     \/ error = "none" /\ Fails(left, right) /\ FailWith("error")
  /\ pc' = "done"
  /\ UNCHANGED <<op, receiver, arguments, left, right, result>>

ReturnInteger ==
  /\ pc = "operation" /\ error = "none"
  /\ op \notin Comparisons /\ ~Fails(left, right)
  /\ op = "bitShift" => right # 0
  /\ \E n \in Values(left, right) : result' = ForInteger(n)
  /\ pc' = "done"
  /\ UNCHANGED <<op, receiver, arguments, error, left, right>>

ReturnBoolean ==
  /\ pc = "operation" /\ error = "none" /\ op \in Comparisons
  /\ result' = [kind |-> "boolean", value |-> Holds(left, right)]
  /\ pc' = "done"
  /\ UNCHANGED <<op, receiver, arguments, error, left, right>>

(* "FIXME: Implement this properly.": integerBitShift ends the program if it *)
(* failed or is to shift by nothing.                                         *)
Abort ==
  /\ pc = "operation" /\ op = "bitShift"
  /\ error # "none" \/ right = 0
  /\ pc' = "aborted"
  /\ UNCHANGED <<op, receiver, arguments, error, left, right, result>>

CompareIdentity ==
  /\ pc = "receiver" /\ op \in Identities
  /\ \/ arguments = <<>> /\ FailWith("badNumberOfArguments") /\ UNCHANGED result
     \/ /\ arguments # <<>> /\ UNCHANGED error
        /\ result' = [kind |-> "boolean",
                      value |-> (op = "identityEquals") = (receiver = arguments[1])]
  /\ pc' = "done"
  /\ UNCHANGED <<op, receiver, arguments, left, right>>

AsCharacter ==
  /\ pc = "receiver" /\ op = "asCharacter"
  /\ LET n == DecodeSmallInteger(StackTop)
     IN  \/ /\ IsSmallInteger(StackTop) /\ InCharacterRange(n)
            /\ result' = [kind |-> "character", oop |-> EncodeCharacter(n)] /\ UNCHANGED error
         \/ /\ IsCharacter(StackTop)
            /\ result' = [kind |-> "character", oop |-> StackTop] /\ UNCHANGED error
         \/ /\ ~IsCharacter(StackTop) /\ ~(IsSmallInteger(StackTop) /\ InCharacterRange(n))
            /\ FailWith("badReceiver") /\ UNCHANGED result
  /\ pc' = "done"
  /\ UNCHANGED <<op, receiver, arguments, left, right>>

(* Small floats end the program. *)
ImmediateAsInteger ==
  /\ pc = "receiver" /\ op = "immediateAsInteger"
  /\ \/ /\ IsSmallInteger(StackTop)
        /\ result' = [kind |-> "small", oop |-> StackTop] /\ UNCHANGED error
     \/ /\ IsCharacter(StackTop)
        /\ result' = [kind |-> "small", oop |-> EncodeSmallInteger(DecodeCharacter(StackTop))]
        /\ UNCHANGED error
     \/ IsSmallFloat(StackTop) /\ UNCHANGED <<error, result>>
     \/ /\ ~IsSmallInteger(StackTop) /\ ~IsCharacter(StackTop) /\ ~IsSmallFloat(StackTop)
        /\ FailWith("badReceiver") /\ UNCHANGED result
  /\ pc' = IF IsSmallFloat(StackTop) THEN "aborted" ELSE "done"
  /\ UNCHANGED <<op, receiver, arguments, left, right>>

Operands == {EncodeSmallInteger(n) : n \in SmallIntegers} \cup OtherOperands

Init ==
  /\ op \in Operations \cup Identities \cup Conversions
  /\ receiver \in Operands
  /\ arguments \in {<<>>} \cup {<<a>> : a \in Operands}
  /\ pc = "receiver" /\ error = "none" /\ left = 0 /\ right = 0
  /\ result = None

Next ==
  \/ GetReceiver \/ GetArgument \/ ReturnFailed \/ ReturnInteger \/ ReturnBoolean \/ Abort
  \/ CompareIdentity \/ AsCharacter \/ ImmediateAsInteger

Spec == Init /\ [][Next]_vars

-----------------------------------------------------------------------------
(* Properties *)

Number == DecodeSmallInteger(receiver)
Other  == DecodeSmallInteger(arguments[1])

(* v is the result of the operation on a and b, by what the operation means. *)
IsResult(v, a, b) ==
  CASE op = "add"      -> v = a + b
    [] op = "subtract" -> v = a - b
    [] op = "multiply" -> a * b \in IntPtr => v = a * b
    [] op = "divide"   -> v * b = a
    [] op = "div"      -> a - v * b \in (IF b > 0 THEN 0 .. b - 1 ELSE b + 1 .. 0)
    [] op = "mod"      -> /\ v \in (IF b > 0 THEN 0 .. b - 1 ELSE b + 1 .. 0)
                          /\ \E q \in -Half .. Half : q * b = a - v
    [] op = "quo"      -> /\ Abs(v * b) <= Abs(a) /\ Abs(a) < Abs(v * b) + Abs(b)
                          /\ v # 0 => (v < 0) = ((a < 0) # (b < 0))
    [] op = "bitShift" ->
         IF b < 0 THEN -b < WordBits => v * 2^(-b) <= a /\ a < (v + 1) * 2^(-b)
         ELSE b < WordBits /\ a * 2^b \in IntPtr => v = a * 2^b
    [] OTHER -> v \in SmallIntegers

(* An answer is the exact result, whatever the signs and the boundaries: a   *)
(* product and a shift if it fits a word, and bitwise operations never leave *)
(* the small integers.                                                       *)
AnswersAreExact ==
  Answered /\ op \in Operations \ Comparisons => IsResult(Value(result), Number, Other)

(* An integer has one form: an answer is a small integer if it is in their   *)
(* range, so that equal numbers are identical.                               *)
AnswersAreCanonical ==
  Answered /\ op \in Operations \ Comparisons =>
    (result.kind = "small" <=> Value(result) \in SmallIntegers)

(* A conversion keeps the number a character or a small integer stands for,  *)
(* at the ends of both ranges too, and there is no character for a negative  *)
(* one: what is made a character and then an integer is what it was.         *)
CharactersComeBack ==
  LET CodeOf(oop) == IF IsCharacter(oop) THEN oop \div Tags ELSE DecodeSmallInteger(oop)
  IN  pc = "done" /\ op \in Conversions =>
        /\ error = "none" <=>
             \/ IsCharacter(StackTop)
             \/ IsSmallInteger(StackTop) /\ (op = "asCharacter" => CodeOf(StackTop) >= 0)
        /\ error = "none" =>
             CodeOf(result.oop) = CodeOf(StackTop) /\ IsCharacter(result.oop) = (op = "asCharacter")

(* A primitive fails exactly for the operands it cannot take, and leaves no  *)
(* result then.                                                              *)
FailsExactly ==
  pc = "done" /\ op \in Operations =>
    /\ error = "none" <=>
         /\ IsSmallInteger(receiver)
         /\ arguments # <<>>
         /\ IsSmallInteger(arguments[1])
         /\ op \in Divisions => Other # 0
         /\ op = "divide" => \E q \in -Half .. Half : q * Other = Number
    /\ error = "none" <=> result # None

(* Once a primitive has failed it is too late to succeed or to fail          *)
(* otherwise.                                                                *)
FailureSticks == [][error # "none" => UNCHANGED <<error, result>>]_vars
=============================================================================
