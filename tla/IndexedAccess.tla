---------------------------- MODULE IndexedAccess ----------------------------
(***************************************************************************)
(* The primitives that reach into an object by an index: at:, at:put:,     *)
(* size, stringAt:, stringAt:put: and objectAt:                            *)
(* (src/vm/object-primitives.c), over the size an object tells from its    *)
(* header (getSmalltalkSize of src/vm/object-model.c) and the first pc of  *)
(* compiled code (src/vm/special-objects.c).                               *)
(*                                                                         *)
(* One object of the 64-bit build, of any format.  Its body is a function: *)
(* of slots to oops if its format is one of pointers, otherwise of byte    *)
(* offsets to bytes.  A byte is a digit below Radix, an element of several *)
(* bytes a number with the least digit first.                              *)
(*                                                                         *)
(* Left out: immediate receivers of objectAt:, which reads a header where  *)
(* none is; the words of a number that does not fit a small integer.       *)
(***************************************************************************)
EXTENDS Integers

CONSTANTS
  Shapes,    \* the objects: records of format, slots, fixed and literals
  Radix,     \* 256: the values of a byte
  Indices,   \* the integers given as an index
  Numbers,   \* the values of the integers and characters to be stored
  MaxStores  \* bound: stores

Formats == 0 .. 5 \cup 9 .. 31

ASSUME ShapesAssumption ==
  \A s \in Shapes :
    /\ s.format \in Formats /\ s.slots \in Nat
    /\ s.fixed \in 0 .. s.slots          \* named instance variables, format 3
    /\ s.literals \in Nat                \* compiled code
    /\ s.format >= 24 => 1 + s.literals < s.slots
ASSUME RadixAssumption == Radix \in Nat \ {0, 1}
ASSUME InputsAssumption == Indices \subseteq Int /\ Numbers \subseteq Int /\ MaxStores \in Nat

WordBytes == 8

Oops ==
  [kind : {"integer"}, value : Numbers] \cup [kind : {"character"}, value : Numbers \cap Nat]
  \cup [kind : {"pointer"}, value : {0}]

VARIABLES
  object,   \* the object's shape
  body,     \* its slots or bytes
  answer,   \* the outcome of the last primitive
  accessed, \* what part of the body it read or wrote
  stores,   \* how many have been made
  written   \* history: the values stored at the indices stored at

vars == <<object, body, answer, accessed, stores, written>>

HoldsPointers == object.format < 9
IsCode        == object.format >= 24

Cell == IF HoldsPointers THEN 0 .. object.slots - 1 ELSE 0 .. WordBytes * object.slots - 1

TypeOK ==
  /\ object \in Shapes
  /\ body \in [Cell -> IF HoldsPointers THEN Oops ELSE 0 .. Radix - 1]
  /\ answer.error \in {"none", "error", "badReceiver", "badArgument", "badIndex", "aborted"}
  /\ accessed \subseteq Cell
  /\ stores \in 0 .. MaxStores
  /\ DOMAIN written \subseteq Indices

-----------------------------------------------------------------------------
(* Layout *)

(* Mutant of SmalltalkSize: the unused elements of the last slot count. *)
SmalltalkSizeOfSlots(o) ==
  CASE o.format \in 0 .. 9   -> o.slots
    [] o.format \in 10 .. 11 -> o.slots * 2
    [] o.format \in 12 .. 15 -> o.slots * 4
    [] o.format \in 16 .. 31 -> o.slots * WordBytes

(* crankvm_object_header_getSmalltalkSize. *)
SmalltalkSize(o) ==
  CASE o.format \in 0 .. 9   -> o.slots
    [] o.format \in 10 .. 11 -> o.slots * 2 - (o.format - 10)
    [] o.format \in 12 .. 15 -> o.slots * 4 - (o.format - 12)
    [] o.format \in 16 .. 23 -> o.slots * WordBytes - (o.format - 16)
    [] o.format \in 24 .. 31 -> o.slots * WordBytes - (o.format - 24)

(* Mutant of FirstPC: the header's word is forgotten. *)
FirstPCOfLiterals == object.literals + 1

(* crankvm_CompiledCode_getFirstPC: a byte is counted for each literal. *)
FirstPC == object.literals + WordBytes + 1

(* The width the accessors take the body's elements to have: an object of    *)
(* 64-bit elements is read through a pointer to 32-bit ones.                 *)
Width ==
  CASE object.format \in 9 .. 11  -> 4
    [] object.format \in 12 .. 15 -> 2
    [] object.format \in 16 .. 31 -> 1

(* The cells of the element at an offset from 0. *)
Cells(p) == IF HoldsPointers THEN {p} ELSE p * Width .. p * Width + Width - 1

(* The bytes of a number from the byte at k on. *)
Shifted(v, k) ==
  CASE k = 0 -> v
    [] k = 1 -> v \div Radix
    [] k = 2 -> (v \div Radix) \div Radix
    [] k = 3 -> ((v \div Radix) \div Radix) \div Radix
    [] k = 4 -> (((v \div Radix) \div Radix) \div Radix) \div Radix

(* Whether an element has a place for each of them. *)
Fits(v) == Shifted(v, Width) = 0

Element(b, p) ==
  LET byte(k) == b[p * Width + k]
  IN  IF HoldsPointers THEN b[p]
      ELSE CASE Width = 1 -> byte(0)
             [] Width = 2 -> byte(0) + Radix * byte(1)
             [] Width = 4 -> byte(0) + Radix * (byte(1) + Radix * (byte(2) + Radix * byte(3)))

(* Mutant of Stored: a byte is stored as two. *)
StoredTwoBytes(p, oop) ==
  IF HoldsPointers THEN [body EXCEPT ![p] = oop]
  ELSE [c \in Cell |-> IF c \notin Cells(p) \cup {p * Width + 1} THEN body[c]
                       ELSE Shifted(oop.value, c - p * Width) % Radix]

Stored(p, oop) ==
  [c \in Cell |-> IF c \notin Cells(p) THEN body[c]
                  ELSE IF HoldsPointers THEN oop
                  ELSE Shifted(oop.value, c - p * Width) % Radix]

-----------------------------------------------------------------------------
(* Which accesses are refused *)

(* Mutant of Offset: the named instance variables are not skipped. *)
OffsetUnfixed(i) == i - 1

(* The offset of an index; an object with both has its named instance        *)
(* variables first.                                                          *)
Offset(i) == IF object.format = 3 THEN i + object.fixed - 1 ELSE i - 1

(* Mutant of InBounds: the second test refuses the last element. *)
InBoundsExclusive(i) ==
  /\ 1 <= i /\ i <= SmalltalkSize(object)
  /\ object.format = 3 => i + object.fixed < SmalltalkSize(object)

(* The tests of the index in crankvm_primitive_Object_at and _atPut. *)
InBounds(i) ==
  /\ 1 <= i /\ i <= SmalltalkSize(object)
  /\ object.format = 3 => i + object.fixed <= SmalltalkSize(object)

AtError(receiver, index) ==
  IF index.kind # "integer" THEN "badArgument"
  ELSE IF receiver = "immediate" THEN "badReceiver"
  ELSE IF index.value < 1 THEN "badArgument"
  ELSE IF ~InBounds(index.value) THEN "badIndex"
  ELSE IF object.format > 24 /\ Offset(index.value) < FirstPC THEN "badIndex"
  ELSE "none"

(* What at:put: makes of a value: integers only, in the range of an element. *)
ValueError(oop) ==
  IF HoldsPointers THEN "none"
  ELSE IF Width = 4 THEN "aborted"
  ELSE IF oop.kind # "integer" THEN "badArgument"
  ELSE IF ~Fits(oop.value) THEN "error"
  ELSE "none"

StringError(receiver, index) ==
  IF index.kind # "integer" THEN "badArgument"
  ELSE IF receiver = "immediate" THEN "badReceiver"
  ELSE IF index.value \notin 1 .. SmalltalkSize(object) THEN "badIndex"
  ELSE IF object.format \notin 10 .. 23 THEN "badReceiver"
  ELSE "none"

ObjectAtError(index) ==
  IF index.kind # "integer" THEN "badArgument"
  ELSE IF ~IsCode THEN "badReceiver"
  ELSE IF index.value \notin 1 .. 1 + object.literals THEN "badIndex"
  ELSE "none"

-----------------------------------------------------------------------------
(* The primitives *)

Running == answer.error # "aborted"

Fail(error) ==
  /\ answer' = [error |-> error]
  /\ accessed' = {}
  /\ UNCHANGED <<object, body, stores, written>>

Answer(value, cells) ==
  /\ answer' = [error |-> "none", value |-> value]
  /\ accessed' = cells
  /\ UNCHANGED <<object, body, stores, written>>

(* An index stored at, and the value that was to be stored: what at: should  *)
(* answer from now on, unless it is a character an element has no place for. *)
Write(i, p, oop) ==
  /\ stores < MaxStores
  /\ answer' = [error |-> "none", value |-> oop]
  /\ accessed' = Cells(p)
  /\ body' = Stored(p, oop)
  /\ stores' = stores + 1
  /\ written' = [j \in {k \in DOMAIN written \cup {i} :
                          k # i \/ HoldsPointers \/ Fits(oop.value)} |->
                   IF j # i THEN written[j] ELSE IF HoldsPointers THEN oop ELSE oop.value]
  /\ UNCHANGED object

At(receiver, index) ==
  /\ Running
  /\ IF AtError(receiver, index) # "none" THEN Fail(AtError(receiver, index))
     ELSE Answer(Element(body, Offset(index.value)), Cells(Offset(index.value)))

AtPut(receiver, index, oop) ==
  /\ Running
  /\ IF AtError(receiver, index) # "none" THEN Fail(AtError(receiver, index))
     ELSE IF ValueError(oop) # "none" THEN Fail(ValueError(oop))
     ELSE Write(index.value, Offset(index.value), oop)

StringAt(receiver, index) ==
  /\ Running
  /\ IF StringError(receiver, index) # "none" THEN Fail(StringError(receiver, index))
     ELSE Answer(Element(body, index.value - 1), Cells(index.value - 1))

(* A character is checked like an index, before anything else is; it is cut  *)
(* to the width of an element.                                               *)
StringAtPut(receiver, index, oop) ==
  /\ Running
  /\ IF index.kind = "integer" /\ oop.kind # "character" THEN Fail("badArgument")
     ELSE IF StringError(receiver, index) # "none" THEN Fail(StringError(receiver, index))
     ELSE Write(index.value, index.value - 1, oop)

Size(receiver) ==
  /\ Running
  /\ IF receiver = "immediate" THEN Fail("badReceiver")
     ELSE Answer(SmalltalkSize(object), {})

(* Index 1 is the method header, the first slot; the literals follow. *)
ObjectAt(index) ==
  /\ Running
  /\ IF ObjectAtError(index) # "none" THEN Fail(ObjectAtError(index))
     ELSE Answer(index.value - 1,
                 WordBytes * (index.value - 1) .. WordBytes * index.value - 1)

Arguments == [kind : {"integer"}, value : Indices] \cup [kind : {"pointer"}, value : {0}]

Init ==
  /\ object \in Shapes
  /\ body = [c \in Cell |-> IF HoldsPointers THEN [kind |-> "pointer", value |-> 0] ELSE c % Radix]
  /\ answer = [error |-> "none", value |-> 0] /\ accessed = {}
  /\ stores = 0 /\ written = [i \in {} |-> 0]

Next ==
  \E receiver \in {"object", "immediate"}, index \in Arguments :
    \/ At(receiver, index) \/ StringAt(receiver, index)
    \/ Size(receiver) \/ ObjectAt(index)
    \/ \E oop \in Oops : AtPut(receiver, index, oop) \/ StringAtPut(receiver, index, oop)

Spec == Init /\ [][Next]_vars

-----------------------------------------------------------------------------
(* Properties *)

(* The elements of an object with indices, after what the format says is     *)
(* unused of its last slot, and before which its instance variables are.     *)
Unused ==
  CASE object.format \in 0 .. 9   -> 0
    [] object.format \in 10 .. 11 -> 4 * (object.format - 10)
    [] object.format \in 12 .. 15 -> 2 * (object.format - 12)
    [] object.format \in 16 .. 23 -> object.format - 16
    [] object.format \in 24 .. 31 -> object.format - 24

(* No primitive reads or writes what is no element of the object, the unused *)
(* bytes of its last slot included.                                          *)
AccessesAreElements == \A c \in accessed : c + Unused \in Cell

(* What was last stored at an index is what at: answers there, whatever was  *)
(* stored at other indices and by which primitive.                           *)
ReadsWhatWasWritten ==
  \A i \in DOMAIN written :
    /\ AtError("object", [kind |-> "integer", value |-> i]) = "none"
    /\ Element(body, Offset(i)) = written[i]

(* Storing at an index does not change a named instance variable of an       *)
(* object that has both.                                                     *)
InstanceVariablesKept ==
  [][object.format = 3 => \A c \in 0 .. object.fixed - 1 : body'[c] = body[c]]_vars

(* Every element can be reached and nothing else: of an object that has      *)
(* only indexed elements, or them after its instance variables, at: takes    *)
(* the indices from 1 to the number of elements.                             *)
AtReachesAll ==
  object.format \in {2, 3} \cup 10 .. 23 =>
    \A i \in Indices :
      AtError("object", [kind |-> "integer", value |-> i]) = "none" <=>
        LET p == i - 1 + IF object.format = 3 THEN object.fixed ELSE 0
        IN  i >= 1 /\ \A c \in Cells(p) : c + Unused \in Cell

(* A method whose bytes do not fill its last slot keeps its header, whatever *)
(* byte at:put: stores.  Its literals are not kept: the test of the index is *)
(* made with a first pc that counts a byte for each of them.                 *)
MethodHeaderKept ==
  [][object.format > 24 => \A c \in 0 .. WordBytes - 1 : body'[c] = body[c]]_vars
=============================================================================
