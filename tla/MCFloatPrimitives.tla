-------------------------- MODULE MCFloatPrimitives --------------------------
(***************************************************************************)
(* Operands for module FloatPrimitives: integers around the first that a   *)
(* float rounds and at the ends of their range, and floats of both signs,  *)
(* least and greatest mantissa, from the smallest to infinities and NaN.   *)
(***************************************************************************)
EXTENDS FloatPrimitives, Bitwise

(* The sums of module SmallFloat are the "or" of the code. *)
ASSUME JoinedIsOr ==
  \A w \in 0 .. Word - 1 :
    /\ RotatedLeft(w) = (ShiftLeft(w, 1) | ShiftRight(w, Bits - 2))
    /\ RotatedRight(w) = (ShiftRight(w, 1) | ShiftLeft(w, Bits - 2))
    /\ ShiftLeft(w, TagBits) + Tag = (ShiftLeft(w, TagBits) | Tag)

MCIntegers == {-64, -63, -62, -33, -32, -1, 0, 1, 31, 32, 33, 34, 35, 61, 62, 63}

MCFloats ==
  {s * 2^9 + e * 2^4 + m : s \in {0, 1}, e \in {0, 13, 14, 15, 19, 20, 21, 31}, m \in {0, 1, 15}}
=============================================================================
