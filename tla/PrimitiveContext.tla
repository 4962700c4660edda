--------------------------- MODULE PrimitiveContext ---------------------------
(***************************************************************************)
(* What the primitives on numbers share: the primitive context with its    *)
(* operands, error and result (src/include/crank-vm/interpreter.h), and    *)
(* the operations that integers and floats both have.  The primitives are  *)
(* in Arithmetic and FloatPrimitives.                                      *)
(***************************************************************************)

VARIABLES
  op,        \* the primitive
  receiver,  \* primitive context: roots.receiver
  arguments, \* primitive context: roots.arguments, as many as the method takes
  pc,        \* where the primitive is
  error,     \* primitive context: error
  left,      \* the receiver's value
  right,     \* the argument's value
  result     \* primitive context: roots.result

None == [kind |-> "none"]

Comparisons == {"lessThan", "greaterThan", "lessOrEqual", "greaterOrEqual", "equal", "notEqual"}

(* crankvm_primitive_failWithCode keeps the first error. *)
FailWith(code) == error' = IF error = "none" THEN code ELSE error

(* crankvm_primitive_getStackAt(0): the last argument, if there is one; none *)
(* of these primitives has two.                                              *)
StackTop == IF arguments = <<>> THEN receiver ELSE arguments[1]

(* The primitive has returned a result. *)
Answered == pc = "done" /\ error = "none"
=============================================================================
