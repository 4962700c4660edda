----------------------------- MODULE SmallFloat -----------------------------
(***************************************************************************)
(* Floating point numbers as tagged words (the small floats of             *)
(* src/include/crank-vm/objectmodel.h; forFloat and tryToDecodeFloat of    *)
(* src/vm/object-model.c).                                                 *)
(*                                                                         *)
(* A number whose exponent is in the middle of the range is kept in the    *)
(* oop itself: the sign is to be rotated to the lowest bit, the exponent   *)
(* made small, and the word shifted to make place for the tag.  Other      *)
(* numbers are kept in an object, as they are.                             *)
(*                                                                         *)
(* A number is its bits: a sign, ExponentBits and MantissaBits.  The "or"  *)
(* of two words is written as a sum: of the tag and a word whose lowest    *)
(* bits are free, and of two words that have but one bit in common.        *)
(***************************************************************************)
EXTENDS Immediates

CONSTANTS
  ExponentBits, \* 11
  MantissaBits, \* 52
  TagBits       \* 3

ASSUME SmallFloatAssumption ==
  /\ TagBits \in Nat /\ TagBits > 2
  /\ MantissaBits \in Nat /\ MantissaBits > TagBits
  /\ ExponentBits \in Nat /\ ExponentBits > TagBits

Bits == 1 + ExponentBits + MantissaBits
Tag  == 4

ASSUME WordAssumption == Tags = 2^TagBits /\ Half = 2^(Bits - TagBits - 1)

(* CRANK_VM_SMALL_FLOAT_EXPONENT_OFFSET, ..._MIN and ..._MAX. *)
Offset      == 2^(ExponentBits - 1) - 2^(ExponentBits - TagBits - 1)
ExponentMin == Offset
ExponentMax == Offset + 2^(ExponentBits - TagBits) - 1

-----------------------------------------------------------------------------
ShiftLeft(w, n)  == (w * 2^n) % Word
ShiftRight(w, n) == w \div 2^n

Exponent(w) == ShiftRight(w, MantissaBits) % 2^ExponentBits

(* Mutant of InSmallFloatRange: an exponent too many. *)
InSmallFloatRangeWide(w) == ExponentMin <= Exponent(w) /\ Exponent(w) <= ExponentMax + 1

(* crankvm_oop_isFloatInSmallFloatRange. *)
InSmallFloatRange(w) == ExponentMin <= Exponent(w) /\ Exponent(w) <= ExponentMax

OffsetInPlace == ShiftLeft(Offset, MantissaBits + 1)

HasBit(w, k) == ShiftRight(w, k) % 2 = 1

(* The bits of two words, which have at most the bit k in common. *)
Joined(w, v, k) == w + v - (IF HasBit(w, k) /\ HasBit(v, k) THEN 2^k ELSE 0)

(* The two rotations of the code move what leaves the word by Bits - 2, a    *)
(* place less than it is wide, so that two bits come to lie on each other.   *)
RotatedLeft(w)  == Joined(ShiftLeft(w, 1), ShiftRight(w, Bits - 2), 1)
RotatedRight(w) == Joined(ShiftRight(w, 1), ShiftLeft(w, Bits - 2), Bits - 2)

EncodeSmallFloat(w) ==
  ShiftLeft((RotatedLeft(w) - OffsetInPlace) % Word, TagBits) + Tag

DecodeSmallFloat(oop) ==
  RotatedRight((ShiftRight(oop, TagBits) + OffsetInPlace) % Word)

(* crankvm_object_forFloat, and the number an object stands for, as          *)
(* crankvm_object_tryToDecodeFloat reads it.                                 *)
ForFloat(w) ==
  IF InSmallFloatRange(w)
  THEN [kind |-> "oop", oop |-> EncodeSmallFloat(w)]
  ELSE [kind |-> "float", value |-> w]

DecodeFloat(object) ==
  IF object.kind = "oop" THEN DecodeSmallFloat(object.oop) ELSE object.value
=============================================================================
