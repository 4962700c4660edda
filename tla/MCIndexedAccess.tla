--------------------------- MODULE MCIndexedAccess ---------------------------
(* Objects of every kind of format, with elements missing in the last slot,  *)
(* for IndexedAccess.                                                        *)
EXTENDS IndexedAccess

Shape(format, slots, fixed, literals) ==
  [format |-> format, slots |-> slots, fixed |-> fixed, literals |-> literals]

MCShapes ==
  {Shape(format, 2, 0, 0) : format \in {1, 2, 4, 9, 10, 11}}
  \cup {Shape(format, 1, 0, 0) : format \in {12, 15, 16, 19}}
  \cup {Shape(3, 3, fixed, 0) : fixed \in 0 .. 3}
  \cup {Shape(24, 2, 0, 0), Shape(27, 2, 0, 0), Shape(29, 3, 0, 1)}

MCIndices == {-1, 17} \cup 0 .. 5 \cup 8 .. 14
MCNumbers == {-1, 0, 6, 15, 16}
=============================================================================
