----------------------------- MODULE Immediates -----------------------------
(***************************************************************************)
(* Small integers and characters as tagged words, and integers as objects  *)
(* (src/include/crank-vm/objectmodel.h, forInteger of                      *)
(* src/vm/object-model.c, encodeUnormalizedValue of                        *)
(* src/vm/special-objects.c).                                              *)
(*                                                                         *)
(* A word of memory is a number below Word.  Shifting by the bits of the   *)
(* tag multiplies by Tags, or divides the signed word, rounding down.      *)
(***************************************************************************)
EXTENDS Integers

CONSTANTS
  Tags, \* 2^3: the values of the tag of an oop
  Half  \* 2^60: the small integers that are not negative

(* The tags of CRANK_VM_OOP_TAG_*_VALUE: 0 a pointer, 1 a small integer, 2 a *)
(* character, 4 a small float.                                               *)
ASSUME TagsAssumption == Tags \in Nat /\ Tags > 4
ASSUME HalfAssumption == Half \in Nat \ {0}

Word == 2 * Half * Tags

(* intptr_t, and what the conversion of a number to it gives. *)
IntPtr    == -(Half * Tags) .. Half * Tags - 1
Signed(w) == IF w < Half * Tags THEN w ELSE w - Word
Wrapped(n) == Signed(n % Word)

SmallIntegers == -Half .. Half - 1

IsSmallInteger(oop) == oop % Tags = 1
IsCharacter(oop)    == oop % Tags = 2
IsSmallFloat(oop)   == oop % Tags = 4

(* Mutant of InSmallIntegerRange: the least small integer is left out. *)
InExclusiveRange(n) == -Half < n /\ n < Half

InSmallIntegerRange(n) == -Half <= n /\ n <= Half - 1

EncodeSmallInteger(n)   == (n * Tags + 1) % Word
DecodeSmallInteger(oop) == Signed(oop) \div Tags

(* Mutant of InCharacterRange: only the upper bound is looked at. *)
InCharacterRangeAbove(n) == n <= 2 * Half - 1

(* The largest character is made of the bits of a small integer. *)
InCharacterRange(n) == 0 <= n /\ n <= 2 * Half - 1

EncodeCharacter(n)   == (n * Tags + 2) % Word
DecodeCharacter(oop) == Signed(oop) \div Tags

(* crankvm_object_forInteger: a small integer, or an object whose class      *)
(* tells the sign and whose bytes the magnitude.                             *)
ForInteger(n) ==
  IF InSmallIntegerRange(n)
  THEN [kind |-> "small", oop |-> EncodeSmallInteger(n)]
  ELSE [kind |-> "large", positive |-> n >= 0, magnitude |-> IF n >= 0 THEN n ELSE -n]

(* The number an object stands for. *)
Value(object) ==
  CASE object.kind = "small" -> DecodeSmallInteger(object.oop)
    [] object.kind = "large" ->
         IF object.positive THEN object.magnitude ELSE -object.magnitude
=============================================================================
