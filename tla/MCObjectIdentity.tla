-------------------------- MODULE MCObjectIdentity --------------------------
(* ObjectIdentity on an image of six objects, a table of two pages of two    *)
(* entries and one page beyond a gap, and a generator of ten hashes some of  *)
(* which are class indices and some of which leave the header's field zero.  *)
EXTENDS ObjectIdentity

SmallImage == {"nil", "Object", "Point", "Lost", "p", "q"}

SmallClassAt ==
  [i \in 0 .. HashField - 1 |->
     CASE i = 1 -> "Object" [] i = 3 -> "Point" [] i = 6 -> "Lost" [] OTHER -> "nil"]

(* "Lost" is in a page the loader does not count; nil's hash is in none.     *)
SmallHash ==
  [o \in Image |->
     CASE o = "Object" -> 1 [] o = "Point" -> 3 [] o = "Lost" -> 6
       [] o = "nil" -> 5 [] OTHER -> 0]

SmallClass == [o \in Image |-> IF o \in {"p", "q"} THEN 3 ELSE 1]
=============================================================================
