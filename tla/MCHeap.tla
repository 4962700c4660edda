------------------------------- MODULE MCHeap -------------------------------
(* Heap with a slot byte of two bits: an object of three slots is large.     *)
EXTENDS Heap

(* An empty object and a large one of pointers, 32-bit elements, many bytes   *)
(* and a little compiled code, the last three filling a slot in part.        *)
SmallRequests == {<<1, 0>>, <<2, 3>>, <<10, 3>>, <<16, 18>>, <<24, 5>>}

(* A negative integer, whose high byte is that of an extension header.       *)
SmallStored == {[raw |-> Big, low |-> 1]}
=============================================================================
