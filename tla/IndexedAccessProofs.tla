------------------------- MODULE IndexedAccessProofs -------------------------
(* Proofs about IndexedAccess, for objects of every format and size. *)
EXTENDS IndexedAccess, TLAPS

(* The element at an offset below the size the header tells lies within what *)
(* the object uses of its slots.                                             *)
LEMMA ElementsFit ==
  ASSUME object \in Shapes, NEW p \in Nat, p < SmalltalkSize(object)
  PROVE  \A c \in Cells(p) : c + Unused \in Cell
<1> DEFINE f == object.format
           s == object.slots
<1>1. f \in Formats /\ s \in Nat
  BY ShapesAssumption
<1>2. CASE f \in 0 .. 5
  <2>1. SmalltalkSize(object) = s /\ Unused = 0 /\ HoldsPointers
    BY <1>1, <1>2 DEF SmalltalkSize, Unused, HoldsPointers
  <2> QED BY <2>1, <1>1 DEF Cells, Cell
<1>3. CASE f = 9
  <2>1. SmalltalkSize(object) = s /\ Unused = 0 /\ ~HoldsPointers /\ Width = 4
    BY <1>1, <1>3 DEF SmalltalkSize, Unused, HoldsPointers, Width
  <2> QED BY <2>1, <1>1 DEF Cells, Cell, WordBytes
<1>4. CASE f \in 10 .. 11
  <2>1. /\ SmalltalkSize(object) = s * 2 - (f - 10) /\ Unused = 4 * (f - 10)
        /\ ~HoldsPointers /\ Width = 4
    BY <1>1, <1>4 DEF SmalltalkSize, Unused, HoldsPointers, Width
  <2> QED BY <2>1, <1>1, <1>4 DEF Cells, Cell, WordBytes
<1>5. CASE f \in 12 .. 15
  <2>1. /\ SmalltalkSize(object) = s * 4 - (f - 12) /\ Unused = 2 * (f - 12)
        /\ ~HoldsPointers /\ Width = 2
    BY <1>1, <1>5 DEF SmalltalkSize, Unused, HoldsPointers, Width
  <2> QED BY <2>1, <1>1, <1>5 DEF Cells, Cell, WordBytes
<1>6. CASE f \in 16 .. 23
  <2>1. /\ SmalltalkSize(object) = s * 8 - (f - 16) /\ Unused = f - 16
        /\ ~HoldsPointers /\ Width = 1
    BY <1>1, <1>6 DEF SmalltalkSize, Unused, HoldsPointers, Width, WordBytes
  <2> QED BY <2>1, <1>1, <1>6 DEF Cells, Cell, WordBytes
<1>7. CASE f \in 24 .. 31
  <2>1. /\ SmalltalkSize(object) = s * 8 - (f - 24) /\ Unused = f - 24
        /\ ~HoldsPointers /\ Width = 1
    BY <1>1, <1>7 DEF SmalltalkSize, Unused, HoldsPointers, Width, WordBytes
  <2> QED BY <2>1, <1>1, <1>7 DEF Cells, Cell, WordBytes
<1> QED BY <1>1, <1>2, <1>3, <1>4, <1>5, <1>6, <1>7 DEF Formats

(* An index the tests let pass is that of an element. *)
LEMMA OffsetInBounds ==
  ASSUME object \in Shapes, NEW i \in Int, InBounds(i)
  PROVE  Offset(i) \in Nat /\ Offset(i) < SmalltalkSize(object)
<1>1. object.fixed \in Nat /\ object.slots \in Nat /\ object.format \in Formats
  BY ShapesAssumption
<1>2. CASE object.format = 3
  <2>1. SmalltalkSize(object) = object.slots
    BY <1>1, <1>2 DEF SmalltalkSize
  <2> QED BY <2>1, <1>1, <1>2 DEF InBounds, Offset
<1>3. CASE object.format # 3
  <2>1. SmalltalkSize(object) \in Int
    BY <1>1 DEF SmalltalkSize, Formats, WordBytes
  <2> QED BY <2>1, <1>3 DEF InBounds, Offset
<1> QED BY <1>2, <1>3

LEMMA AcceptedIndex ==
  ASSUME NEW receiver, NEW index \in Arguments, AtError(receiver, index) = "none"
  PROVE  index.value \in Int /\ InBounds(index.value)
<1>1. index.kind = "integer"
  BY DEF AtError
<1>2. index.value \in Int
  BY <1>1, InputsAssumption DEF Arguments
<1> QED BY <1>1, <1>2 DEF AtError

LEMMA AcceptedString ==
  ASSUME object \in Shapes, NEW receiver, NEW index \in Arguments,
         StringError(receiver, index) = "none"
  PROVE  /\ index.value - 1 \in Nat /\ index.value - 1 < SmalltalkSize(object)
         /\ object.format \in 10 .. 23
<1>1. index.kind = "integer"
  BY DEF StringError
<1>2. index.value \in Int
  BY <1>1, InputsAssumption DEF Arguments
<1>3. index.value \in 1 .. SmalltalkSize(object) /\ object.format \in 10 .. 23
  BY <1>1 DEF StringError
<1>4. SmalltalkSize(object) \in Int
  BY <1>3, ShapesAssumption DEF SmalltalkSize, WordBytes
<1> QED BY <1>2, <1>3, <1>4

-----------------------------------------------------------------------------
(* What a step may do: nothing to the body, reach the element at one offset, *)
(* or read the method header or a literal.                                   *)
ReachesNothing == accessed' = {} /\ body' = body
ReachesElement ==
  \E p \in Nat : /\ p < SmalltalkSize(object)
                 /\ object.format = 3 => p >= object.fixed
                 /\ object.format > 24 => p >= WordBytes
                 /\ accessed' = Cells(p)
                 /\ body' = body \/ \E oop : body' = Stored(p, oop)
ReachesLiteral ==
  /\ IsCode
  /\ \E i \in 1 .. 1 + object.literals :
        accessed' = WordBytes * (i - 1) .. WordBytes * i - 1
  /\ body' = body

LEMMA Steps ==
  ASSUME object \in Shapes, Next
  PROVE  object' = object /\ (ReachesNothing \/ ReachesElement \/ ReachesLiteral)
<1>1. \A e : Fail(e) => object' = object /\ ReachesNothing
  BY DEF Fail, ReachesNothing
<1>2. PICK receiver \in {"object", "immediate"}, index \in Arguments :
        \/ At(receiver, index) \/ StringAt(receiver, index)
        \/ Size(receiver) \/ ObjectAt(index)
        \/ \E oop \in Oops : AtPut(receiver, index, oop) \/ StringAtPut(receiver, index, oop)
  BY Zenon DEF Next
<1>3. ASSUME AtError(receiver, index) = "none"
      PROVE  /\ Offset(index.value) \in Nat /\ Offset(index.value) < SmalltalkSize(object)
             /\ object.format = 3 => Offset(index.value) >= object.fixed
             /\ object.format > 24 => Offset(index.value) >= WordBytes
  <2>1. index.value \in Int /\ InBounds(index.value)
    BY <1>3, AcceptedIndex
  <2>2. object.fixed \in Int
    BY ShapesAssumption
  <2>3. Offset(index.value) \in Nat /\ Offset(index.value) < SmalltalkSize(object)
    BY <2>1, OffsetInBounds
  <2>4. object.format = 3 => Offset(index.value) >= object.fixed
    BY <2>1, <2>2 DEF Offset, InBounds
  <2>5. object.format > 24 => Offset(index.value) >= WordBytes
    <3> SUFFICES ASSUME object.format > 24 PROVE Offset(index.value) >= WordBytes
      OBVIOUS
    <3>1. ~(object.format > 24 /\ Offset(index.value) < FirstPC)
      BY <1>3 DEF AtError
    <3>2. FirstPC >= WordBytes /\ FirstPC \in Int /\ WordBytes \in Int
      BY ShapesAssumption DEF FirstPC, WordBytes
    <3> QED BY <2>3, <3>1, <3>2
  <2> QED BY <2>3, <2>4, <2>5
<1>4. ASSUME StringError(receiver, index) = "none"
      PROVE  /\ index.value - 1 \in Nat /\ index.value - 1 < SmalltalkSize(object)
             /\ object.format # 3 /\ ~(object.format > 24)
  BY <1>4, AcceptedString
<1>5. CASE At(receiver, index)
  <2>1. CASE AtError(receiver, index) # "none"
    BY <1>1, <1>5, <2>1 DEF At
  <2>2. CASE AtError(receiver, index) = "none"
    <3>1. accessed' = Cells(Offset(index.value)) /\ body' = body /\ object' = object
      BY <1>5, <2>2 DEF At, Answer
    <3> QED BY <3>1, <1>3, <2>2 DEF ReachesElement
  <2> QED BY <2>1, <2>2
<1>6. CASE StringAt(receiver, index)
  <2>1. CASE StringError(receiver, index) # "none"
    BY <1>1, <1>6, <2>1 DEF StringAt
  <2>2. CASE StringError(receiver, index) = "none"
    <3>1. accessed' = Cells(index.value - 1) /\ body' = body /\ object' = object
      BY <1>6, <2>2 DEF StringAt, Answer
    <3> QED BY <3>1, <1>4, <2>2 DEF ReachesElement
  <2> QED BY <2>1, <2>2
<1>7. CASE Size(receiver)
  BY <1>1, <1>7 DEF Size, Answer, ReachesNothing
<1>8. CASE ObjectAt(index)
  <2>1. CASE ObjectAtError(index) # "none"
    BY <1>1, <1>8, <2>1 DEF ObjectAt
  <2>2. CASE ObjectAtError(index) = "none"
    <3>1. IsCode /\ index.value \in 1 .. 1 + object.literals
      BY <2>2 DEF ObjectAtError
    <3>2. /\ accessed' = WordBytes * (index.value - 1) .. WordBytes * index.value - 1
          /\ body' = body /\ object' = object
      BY <1>8, <2>2 DEF ObjectAt, Answer
    <3> QED BY <3>1, <3>2 DEF ReachesLiteral
  <2> QED BY <2>1, <2>2
<1>9. ASSUME NEW oop \in Oops, AtPut(receiver, index, oop)
      PROVE  object' = object /\ (ReachesNothing \/ ReachesElement)
  <2>1. CASE AtError(receiver, index) # "none"
    BY <1>1, <1>9, <2>1 DEF AtPut
  <2>2. CASE AtError(receiver, index) = "none" /\ ValueError(oop) # "none"
    BY <1>1, <1>9, <2>2 DEF AtPut
  <2>3. CASE AtError(receiver, index) = "none" /\ ValueError(oop) = "none"
    <3>1. /\ accessed' = Cells(Offset(index.value)) /\ object' = object
          /\ body' = Stored(Offset(index.value), oop)
      BY <1>9, <2>3 DEF AtPut, Write
    <3> QED BY <3>1, <1>3, <2>3 DEF ReachesElement
  <2> QED BY <2>1, <2>2, <2>3
<1>10. ASSUME NEW oop \in Oops, StringAtPut(receiver, index, oop)
       PROVE  object' = object /\ (ReachesNothing \/ ReachesElement)
  <2>1. CASE index.kind = "integer" /\ oop.kind # "character"
    BY <1>1, <1>10, <2>1 DEF StringAtPut
  <2>2. CASE ~(index.kind = "integer" /\ oop.kind # "character") /\ StringError(receiver, index) # "none"
    BY <1>1, <1>10, <2>2 DEF StringAtPut
  <2>3. CASE ~(index.kind = "integer" /\ oop.kind # "character") /\ StringError(receiver, index) = "none"
    <3>1. /\ accessed' = Cells(index.value - 1) /\ object' = object
          /\ body' = Stored(index.value - 1, oop)
      BY <1>10, <2>3 DEF StringAtPut, Write
    <3> QED BY <3>1, <1>4, <2>3 DEF ReachesElement
  <2> QED BY <2>1, <2>2, <2>3
<1> QED BY <1>2, <1>5, <1>6, <1>7, <1>8, <1>9, <1>10

-----------------------------------------------------------------------------
(* Whatever the object and the arguments, no primitive reaches what is no    *)
(* element of the object.                                                    *)
THEOREM OnlyElementsAccessed == Spec => []AccessesAreElements
<1> DEFINE IInv == object \in Shapes /\ AccessesAreElements
<1>1. Init => IInv
  BY DEF Init, AccessesAreElements
<1>2. IInv /\ [Next]_vars => IInv'
  <2>1. ASSUME IInv, UNCHANGED vars PROVE IInv'
    BY <2>1 DEF vars, AccessesAreElements, Unused, Cell, HoldsPointers
  <2>2. ASSUME IInv, Next PROVE IInv'
    <3>1. object' = object /\ (ReachesNothing \/ ReachesElement \/ ReachesLiteral)
      BY <2>2, Steps
    <3>2. Unused' = Unused /\ Cell' = Cell
      BY <3>1 DEF Unused, Cell, HoldsPointers
    <3>3. \A c \in accessed' : c + Unused \in Cell
      <4>1. CASE ReachesNothing
        BY <4>1 DEF ReachesNothing
      <4>2. CASE ReachesElement
        BY <2>2, <4>2, ElementsFit DEF ReachesElement
      <4>3. CASE ReachesLiteral
        <5>1. /\ object.slots \in Nat /\ object.literals \in Nat
              /\ object.format \in 24 .. 31 /\ 1 + object.literals < object.slots
          <6>1. object.format >= 24
            BY <4>3 DEF ReachesLiteral, IsCode
          <6>2. /\ object.format \in Formats /\ object.slots \in Nat /\ object.literals \in Nat
                /\ object.format >= 24 => 1 + object.literals < object.slots
            BY <2>2, ShapesAssumption
          <6>3. object.format \in 24 .. 31
            BY <6>1, <6>2 DEF Formats
          <6> QED BY <6>1, <6>2, <6>3
        <5>2. Unused \in 0 .. 7 /\ Cell = 0 .. 8 * object.slots - 1
          BY <5>1 DEF Unused, Cell, HoldsPointers, WordBytes
        <5> QED BY <4>3, <5>1, <5>2, SMTT(30) DEF ReachesLiteral, WordBytes
      <4> QED BY <3>1, <4>1, <4>2, <4>3
    <3> QED BY <2>2, <3>1, <3>2, <3>3 DEF AccessesAreElements
  <2> QED BY <2>1, <2>2
<1> QED BY <1>1, <1>2, PTL DEF Spec

(* Storing by index never changes a named instance variable of an object     *)
(* that has both.                                                            *)
THEOREM NamedVariablesKept == Spec => InstanceVariablesKept
<1>1. Init => object \in Shapes
  BY DEF Init
<1>2. object \in Shapes /\ [Next]_vars => (object \in Shapes)'
  BY Steps DEF vars
<1>3. ASSUME object \in Shapes, [Next]_vars, object.format = 3
      PROVE  \A c \in 0 .. object.fixed - 1 : body'[c] = body[c]
  <2>1. CASE UNCHANGED vars
    BY <2>1 DEF vars
  <2>2. CASE Next
    <3>1. object.fixed \in Nat /\ object.slots \in Nat /\ object.fixed <= object.slots
      BY <1>3, ShapesAssumption
    <3>2. HoldsPointers /\ Cell = 0 .. object.slots - 1
      BY <1>3 DEF HoldsPointers, Cell
    <3>3. ASSUME NEW p \in Nat, NEW oop, p >= object.fixed, body' = Stored(p, oop),
                 NEW c \in 0 .. object.fixed - 1
          PROVE  body'[c] = body[c]
      BY <3>1, <3>2, <3>3 DEF Stored, Cells
    <3>4. body' = body \/ ReachesElement
      BY <1>3, <2>2, Steps DEF ReachesNothing, ReachesLiteral
    <3> QED BY <1>3, <3>3, <3>4 DEF ReachesElement
  <2> QED BY <1>3, <2>1, <2>2
<1> QED BY <1>1, <1>2, <1>3, PTL DEF Spec, InstanceVariablesKept

(* at:put: stores no byte of a method's header word, where the method's size *)
(* makes the primitive look at the first pc.                                 *)
THEOREM HeadersOfMethodsKept == Spec => MethodHeaderKept
<1>1. Init => object \in Shapes
  BY DEF Init
<1>2. object \in Shapes /\ [Next]_vars => (object \in Shapes)'
  BY Steps DEF vars
<1>3. ASSUME object \in Shapes, [Next]_vars, object.format > 24
      PROVE  \A c \in 0 .. WordBytes - 1 : body'[c] = body[c]
  <2>1. CASE UNCHANGED vars
    BY <2>1 DEF vars
  <2>2. CASE Next
    <3>1. /\ object.format \in 25 .. 31 /\ object.slots \in Nat /\ 1 < object.slots
      <4>1. /\ object.format \in Formats /\ object.slots \in Nat /\ object.literals \in Nat
            /\ object.format >= 24 => 1 + object.literals < object.slots
        BY <1>3, ShapesAssumption
      <4>2. object.format \in 25 .. 31
        BY <1>3, <4>1 DEF Formats
      <4> QED BY <4>1, <4>2
    <3>2. ~HoldsPointers /\ Cell = 0 .. 8 * object.slots - 1 /\ Width = 1
      BY <3>1 DEF HoldsPointers, Cell, Width, WordBytes
    <3>3. ASSUME NEW p \in Nat, NEW oop, p >= WordBytes, body' = Stored(p, oop),
                 NEW c \in 0 .. WordBytes - 1
          PROVE  body'[c] = body[c]
      <4>1. c \in Cell /\ c \notin Cells(p)
        BY <3>1, <3>2, <3>3 DEF Cells, WordBytes
      <4> QED BY <3>3, <4>1 DEF Stored
    <3>4. body' = body \/ ReachesElement
      BY <1>3, <2>2, Steps DEF ReachesNothing, ReachesLiteral
    <3> QED BY <1>3, <3>3, <3>4 DEF ReachesElement
  <2> QED BY <1>3, <2>1, <2>2
<1> QED BY <1>1, <1>2, <1>3, PTL DEF Spec, MethodHeaderKept

-----------------------------------------------------------------------------
(* The tests of an index that at: makes of an object of pointers, words or   *)
(* bytes.                                                                    *)
LEMMA Accepts ==
  ASSUME object \in Shapes, NEW i \in Int, object.format <= 24
  PROVE  AtError("object", [kind |-> "integer", value |-> i]) = "none" <=> i >= 1 /\ InBounds(i)
<1>1. object.format \in Int
  BY ShapesAssumption DEF Formats
<1> QED BY <1>1 DEF AtError

LEMMA ReachesAll ==
  ASSUME object \in Shapes, NEW i \in Int, object.format \in {2, 3} \cup 10 .. 23, i >= 1
  PROVE  InBounds(i) <=>
           \A c \in Cells(i - 1 + IF object.format = 3 THEN object.fixed ELSE 0) : c + Unused \in Cell
<1> DEFINE f == object.format
           s == object.slots
<1>1. s \in Nat /\ object.fixed \in 0 .. s /\ f \in Int
  BY ShapesAssumption DEF Formats
<1>2. CASE f = 2
  <2>1. SmalltalkSize(object) = s /\ Unused = 0 /\ HoldsPointers
    BY <1>2 DEF SmalltalkSize, Unused, HoldsPointers
  <2> QED BY <2>1, <1>1, <1>2 DEF Cells, Cell, InBounds
<1>3. CASE f = 3
  <2>1. SmalltalkSize(object) = s /\ Unused = 0 /\ HoldsPointers
    BY <1>3 DEF SmalltalkSize, Unused, HoldsPointers
  <2> QED BY <2>1, <1>1, <1>3 DEF Cells, Cell, InBounds
<1>4. CASE f \in 10 .. 23
  <2> DEFINE p == i - 1
  <2>1. ~HoldsPointers /\ f # 3 /\ Cell = 0 .. 8 * s - 1 /\ p \in Nat
    BY <1>1, <1>4, SMTT(30) DEF HoldsPointers, Cell, WordBytes
  <2>2. InBounds(i) <=> i <= SmalltalkSize(object)
    BY <2>1 DEF InBounds
  <2>3. i - 1 + (IF object.format = 3 THEN object.fixed ELSE 0) = p
    BY <2>1
  <2> DEFINE Fit == \A c \in Cells(p) : c + Unused \in Cell
  <2>4. ASSUME NEW first \in Nat, NEW last \in Nat, first <= last, Cells(p) = first .. last,
               NEW u \in Nat, Unused = u
        PROVE  Fit <=> last + u <= 8 * s - 1
    <3> HIDE DEF p
    <3>1. Cell = 0 .. 8 * s - 1
      BY <2>1
    <3>2. ASSUME Fit PROVE last + u <= 8 * s - 1
      <4>1. last + u \in 0 .. 8 * s - 1
        BY <2>4, <3>1, <3>2
      <4> QED BY <1>1, <2>4, <4>1
    <3>3. ASSUME last + u <= 8 * s - 1, NEW c \in first .. last PROVE c + u \in 0 .. 8 * s - 1
      BY <1>1, <2>4, <3>3
    <3> QED BY <2>4, <3>1, <3>2, <3>3
  <2>5. CASE f \in 10 .. 11
    <3>1. /\ SmalltalkSize(object) = s * 2 - (f - 10) /\ Width = 4
          /\ Unused = 4 * (f - 10) /\ 4 * (f - 10) \in Nat
      BY <2>5 DEF SmalltalkSize, Unused, Width
    <3>2. Cells(p) = p * 4 .. p * 4 + 3
      BY <2>1, <3>1 DEF Cells
    <3>3. Fit <=> p * 4 + 3 + 4 * (f - 10) <= 8 * s - 1
      <4> HIDE DEF Fit, p
      <4> QED BY <2>1, <2>4, <3>1, <3>2
    <3>4. Fit <=> InBounds(i)
      <4> HIDE DEF Fit
      <4> QED BY <1>1, <2>2, <2>5, <3>1, <3>3
    <3> QED BY <2>3, <3>4
  <2>6. CASE f \in 12 .. 15
    <3>1. /\ SmalltalkSize(object) = s * 4 - (f - 12) /\ Width = 2
          /\ Unused = 2 * (f - 12) /\ 2 * (f - 12) \in Nat
      BY <2>6 DEF SmalltalkSize, Unused, Width
    <3>2. Cells(p) = p * 2 .. p * 2 + 1
      BY <2>1, <3>1 DEF Cells
    <3>3. Fit <=> p * 2 + 1 + 2 * (f - 12) <= 8 * s - 1
      <4> HIDE DEF Fit, p
      <4> QED BY <2>1, <2>4, <3>1, <3>2
    <3>4. Fit <=> InBounds(i)
      <4> HIDE DEF Fit
      <4> QED BY <1>1, <2>2, <2>6, <3>1, <3>3
    <3> QED BY <2>3, <3>4
  <2>7. CASE f \in 16 .. 23
    <3>1. /\ SmalltalkSize(object) = s * 8 - (f - 16) /\ Width = 1
          /\ Unused = f - 16 /\ f - 16 \in Nat
      BY <2>7 DEF SmalltalkSize, Unused, Width, WordBytes
    <3>2. Cells(p) = p .. p
      BY <2>1, <3>1 DEF Cells
    <3>3. Fit <=> p + (f - 16) <= 8 * s - 1
      <4> HIDE DEF Fit, p
      <4> QED BY <2>1, <2>4, <3>1, <3>2, SMTT(30)
    <3>4. Fit <=> InBounds(i)
      <4> HIDE DEF Fit
      <4> QED BY <1>1, <2>2, <2>7, <3>1, <3>3
    <3> QED BY <2>3, <3>4
  <2> QED BY <1>4, <2>5, <2>6, <2>7
<1> QED BY <1>2, <1>3, <1>4

(* No test of at: refuses an element, and none lets another index pass.      *)
THEOREM EveryElementReached == Spec => []AtReachesAll
<1>1. Init => object \in Shapes
  BY DEF Init
<1>2. object \in Shapes /\ [Next]_vars => (object \in Shapes)'
  BY Steps DEF vars
<1>3. object \in Shapes => AtReachesAll
  <2> SUFFICES ASSUME object \in Shapes, object.format \in {2, 3} \cup 10 .. 23, NEW i \in Indices
               PROVE  AtError("object", [kind |-> "integer", value |-> i]) = "none" <=>
                        LET p == i - 1 + IF object.format = 3 THEN object.fixed ELSE 0
                        IN  i >= 1 /\ \A c \in Cells(p) : c + Unused \in Cell
    BY DEF AtReachesAll
  <2>1. i \in Int /\ object.format <= 24
    BY InputsAssumption
  <2>2. AtError("object", [kind |-> "integer", value |-> i]) = "none" <=> i >= 1 /\ InBounds(i)
    BY <2>1, Accepts
  <2>3. i >= 1 => (InBounds(i) <=>
          \A c \in Cells(i - 1 + IF object.format = 3 THEN object.fixed ELSE 0) : c + Unused \in Cell)
    BY <2>1, ReachesAll
  <2> QED BY <2>2, <2>3, Zenon
<1> QED BY <1>1, <1>2, <1>3, PTL DEF Spec

-----------------------------------------------------------------------------
(* What is stored can be read back *)

(* A number is its last byte and the rest. *)
LEMMA ByteAndRest ==
  ASSUME NEW v \in Int
  PROVE  /\ v \div Radix \in Int /\ v % Radix \in Int
         /\ v = (v % Radix) + Radix * (v \div Radix)
  BY RadixAssumption

(* The bytes of a number that fits make up the number. *)
LEMMA BytesMakeUp ==
  ASSUME NEW v \in Int, Fits(v), object.format \in 9 .. 31,
         NEW b, NEW p, \A k \in 0 .. Width - 1 : b[p * Width + k] = Shifted(v, k) % Radix
  PROVE  Element(b, p) = v
<1> DEFINE q(k) == Shifted(v, k)
<1>1. /\ ~HoldsPointers /\ Width \in {1, 2, 4}
  BY DEF HoldsPointers, Width
<1>2. /\ q(0) = v /\ q(1) = q(0) \div Radix /\ q(2) = q(1) \div Radix
      /\ q(3) = q(2) \div Radix /\ q(4) = q(3) \div Radix
  BY DEF Shifted
<1>3. q(Width) = 0
  BY DEF Fits
<1> HIDE DEF q
<1>4. PICK q0 \in Int, q1 \in Int, q2 \in Int, q3 \in Int, q4 \in Int :
        q0 = q(0) /\ q1 = q(1) /\ q2 = q(2) /\ q3 = q(3) /\ q4 = q(4)
  <2>1. q(0) \in Int
    BY <1>2
  <2>2. q(1) \in Int
    BY <1>2, <2>1, ByteAndRest
  <2>3. q(2) \in Int
    BY <1>2, <2>2, ByteAndRest
  <2>4. q(3) \in Int
    BY <1>2, <2>3, ByteAndRest
  <2>5. q(4) \in Int
    BY <1>2, <2>4, ByteAndRest
  <2> QED
    BY <2>1, <2>2, <2>3, <2>4, <2>5
<1>5. PICK b0 \in Int, b1 \in Int, b2 \in Int, b3 \in Int :
        b0 = q0 % Radix /\ b1 = q1 % Radix /\ b2 = q2 % Radix /\ b3 = q3 % Radix
  BY ByteAndRest
<1>6. /\ q0 = b0 + Radix * q1 /\ q1 = b1 + Radix * q2
      /\ q2 = b2 + Radix * q3 /\ q3 = b3 + Radix * q4
  BY <1>2, <1>4, <1>5, ByteAndRest
<1>7. \A k \in 0 .. Width - 1 : b[p * Width + k] = q(k) % Radix
  BY DEF q
<1>8. CASE Width = 1
  <2>1. b[p * Width + 0] = b0
    BY <1>4, <1>5, <1>7, <1>8
  <2>2. q1 = 0
    BY <1>3, <1>4, <1>8
  <2>3. q0 = b0 /\ q0 = v
    BY <1>2, <1>4, <1>6, <2>2, RadixAssumption
  <2> QED
    BY <1>1, <1>8, <2>1, <2>3 DEF Element
<1>9. CASE Width = 2
  <2>1. b[p * Width + 0] = b0 /\ b[p * Width + 1] = b1
    BY <1>4, <1>5, <1>7, <1>9
  <2>2. q2 = 0
    BY <1>3, <1>4, <1>9
  <2>3. q1 = b1 /\ q0 = v
    BY <1>2, <1>4, <1>6, <2>2, RadixAssumption
  <2>4. b0 + Radix * b1 = v
    BY <1>6, <2>3
  <2> QED
    BY <1>1, <1>9, <2>1, <2>4 DEF Element
<1>10. CASE Width = 4
  <2>1. /\ b[p * Width + 0] = b0 /\ b[p * Width + 1] = b1
        /\ b[p * Width + 2] = b2 /\ b[p * Width + 3] = b3
    BY <1>4, <1>5, <1>7, <1>10
  <2>2. q4 = 0
    BY <1>3, <1>4, <1>10
  <2>3. q3 = b3 /\ q0 = v
    BY <1>2, <1>4, <1>6, <2>2, RadixAssumption
  <2>4. b0 + Radix * (b1 + Radix * (b2 + Radix * b3)) = v
    BY <1>6, <2>3
  <2> QED
    BY <1>1, <1>10, <2>1, <2>4 DEF Element
<1> QED
  BY <1>1, <1>8, <1>9, <1>10

(* An element is told by its cells. *)
LEMMA SameElement ==
  ASSUME object \in Shapes, NEW a, NEW b, NEW p \in Nat, \A c \in Cells(p) : a[c] = b[c]
  PROVE  Element(a, p) = Element(b, p)
<1>1. CASE HoldsPointers
  BY <1>1 DEF Cells, Element
<1>2. CASE ~HoldsPointers
  <2>1. Width \in {1, 2, 4}
    BY <1>2, ShapesAssumption DEF HoldsPointers, Width, Formats
  <2>2. Cells(p) = p * Width .. p * Width + Width - 1
    BY <1>2 DEF Cells
  <2>3. CASE Width = 1
    <3>1. p * Width + 0 \in Cells(p)
      BY <2>2, <2>3
    <3> QED
      BY <1>2, <2>3, <3>1 DEF Element
  <2>4. CASE Width = 2
    <3>1. p * Width + 0 \in Cells(p) /\ p * Width + 1 \in Cells(p)
      BY <2>2, <2>4
    <3> QED
      BY <1>2, <2>4, <3>1 DEF Element
  <2>5. CASE Width = 4
    <3>1. /\ p * Width + 0 \in Cells(p) /\ p * Width + 1 \in Cells(p)
          /\ p * Width + 2 \in Cells(p) /\ p * Width + 3 \in Cells(p)
      BY <2>2, <2>5
    <3> QED
      BY <1>2, <2>5, <3>1 DEF Element
  <2> QED
    BY <2>1, <2>3, <2>4, <2>5
<1> QED
  BY <1>1, <1>2

(* Elements at different offsets have no cell in common. *)
LEMMA CellsDisjoint ==
  ASSUME object \in Shapes, NEW p \in Nat, NEW r \in Nat, p # r
  PROVE  Cells(p) \cap Cells(r) = {}
<1>1. CASE HoldsPointers
  BY <1>1 DEF Cells
<1>2. CASE ~HoldsPointers
  <2>1. Width \in {1, 2, 4}
    BY <1>2, ShapesAssumption DEF HoldsPointers, Width, Formats
  <2>2. \A n \in Nat : Cells(n) = n * Width .. n * Width + Width - 1
    BY <1>2 DEF Cells
  <2>3. ASSUME NEW c, c \in Cells(p), c \in Cells(r) PROVE FALSE
    <3>1. CASE Width = 1
      BY <2>2, <2>3, <3>1
    <3>2. CASE Width = 2
      <4>1. c \in p * 2 .. p * 2 + 2 - 1 /\ c \in r * 2 .. r * 2 + 2 - 1
        BY <2>2, <2>3, <3>2
      <4> QED
        BY <4>1
    <3>3. CASE Width = 4
      <4>1. c \in p * 4 .. p * 4 + 4 - 1 /\ c \in r * 4 .. r * 4 + 4 - 1
        BY <2>2, <2>3, <3>3
      <4> QED
        BY <4>1
    <3> QED
      BY <2>1, <3>1, <3>2, <3>3
  <2> QED
    BY <2>3
<1> QED
  BY <1>1, <1>2

(* A store of what fits is read back there, and nothing else is changed.     *)
LEMMA StoredIsRead ==
  ASSUME object \in Shapes, NEW p \in Nat, p < SmalltalkSize(object), NEW oop \in Oops
  PROVE  /\ HoldsPointers => Element(Stored(p, oop), p) = oop
         /\ ~HoldsPointers /\ Fits(oop.value) => Element(Stored(p, oop), p) = oop.value
         /\ \A r \in Nat : r < SmalltalkSize(object) /\ r # p =>
               Element(Stored(p, oop), r) = Element(body, r)
<1>1. \A r \in Nat : r < SmalltalkSize(object) => Cells(r) \subseteq Cell
  <2> SUFFICES ASSUME NEW r \in Nat, r < SmalltalkSize(object), NEW c \in Cells(r)
               PROVE  c \in Cell
    OBVIOUS
  <2>1. c + Unused \in Cell
    BY ElementsFit
  <2>2. c \in Nat
    BY ShapesAssumption DEF Cells, Width, HoldsPointers, Formats
  <2>3. Unused \in Nat
    BY ShapesAssumption DEF Unused, Formats
  <2>4. object.slots \in Nat
    BY ShapesAssumption
  <2> QED
    BY <2>1, <2>2, <2>3, <2>4 DEF Cell, WordBytes
<1>2. \A c \in Cells(p) :
        Stored(p, oop)[c] = IF HoldsPointers THEN oop
                            ELSE Shifted(oop.value, c - p * Width) % Radix
  BY <1>1 DEF Stored
<1>3. ASSUME HoldsPointers PROVE Element(Stored(p, oop), p) = oop
  <2>1. p \in Cells(p)
    BY <1>3 DEF Cells
  <2> QED
    BY <1>2, <1>3, <2>1 DEF Element
<1>4. ASSUME ~HoldsPointers, Fits(oop.value) PROVE Element(Stored(p, oop), p) = oop.value
  <2>1. object.format \in 9 .. 31 /\ Width \in {1, 2, 4}
    BY <1>4, ShapesAssumption DEF HoldsPointers, Formats, Width
  <2>2. PICK w \in Nat : w = Width
    BY <2>1
  <2>3. ASSUME NEW k \in 0 .. w - 1
        PROVE  Stored(p, oop)[p * w + k] = Shifted(oop.value, k) % Radix
    <3>1. PICK m \in Nat : m = p * w
      BY <2>2
    <3>2. m + k \in Cells(p) /\ (m + k) - m = k
      BY <1>4, <2>2, <2>3, <3>1 DEF Cells
    <3> QED
      BY <1>2, <1>4, <2>2, <3>1, <3>2
  <2>4. oop.value \in Int
    <3>1. oop.value \in Numbers \/ oop.value = 0
      BY DEF Oops
    <3>2. 0 \in Int /\ \A v \in Numbers : v \in Int
      BY InputsAssumption
    <3> QED
      BY <3>1, <3>2, Zenon
  <2> QED
    BY <1>4, <2>1, <2>2, <2>3, <2>4, BytesMakeUp
<1>5. ASSUME NEW r \in Nat, r < SmalltalkSize(object), r # p
      PROVE  Element(Stored(p, oop), r) = Element(body, r)
  <2>1. \A c \in Cells(r) : c \in Cell /\ c \notin Cells(p)
    BY <1>1, <1>5, CellsDisjoint
  <2>2. \A c \in Cells(r) : Stored(p, oop)[c] = body[c]
    BY <2>1 DEF Stored
  <2> QED
    BY <2>2, SameElement
<1> QED
  BY <1>3, <1>4, <1>5

(* at: takes the index i. *)
Readable(i) == AtError("object", [kind |-> "integer", value |-> i]) = "none"

(* An index at: takes is that of an element; two of them have two elements.  *)
LEMMA ReadableOffset ==
  ASSUME object \in Shapes, NEW i \in Indices, Readable(i)
  PROVE  /\ i \in Int /\ Offset(i) \in Nat /\ Offset(i) < SmalltalkSize(object)
         /\ \A j \in Int : Offset(j) = Offset(i) => j = i
<1> DEFINE index == [kind |-> "integer", value |-> i]
<1>1. i \in Int /\ index \in Arguments /\ index.value = i
  BY InputsAssumption DEF Arguments
<1>2. InBounds(i)
  <2>1. AtError("object", index) = "none"
    BY DEF Readable
  <2> HIDE DEF index
  <2> QED
    BY <1>1, <2>1, AcceptedIndex
<1>3. object.fixed \in Int
  BY ShapesAssumption
<1>4. \A j \in Int : Offset(j) = Offset(i) => j = i
  BY <1>1, <1>3 DEF Offset
<1> QED
  BY <1>1, <1>2, <1>4, OffsetInBounds

(* The invariant: what is remembered as written was written at an index of *)
(* the object's inputs, and is still what a read answers.                  *)
WInv == object \in Shapes /\ DOMAIN written \subseteq Indices /\ ReadsWhatWasWritten

(* A store at an index that at: takes, at its offset. *)
LEMMA WriteKeeps ==
  ASSUME WInv, NEW i \in Indices, Readable(i), NEW oop \in Oops, Write(i, Offset(i), oop)
  PROVE  WInv'
<1>1. PICK p : p = Offset(i)
  OBVIOUS
<1>2. p \in Nat /\ p < SmalltalkSize(object)
  BY <1>1, ReadableOffset DEF WInv
<1> DEFINE D == {k \in DOMAIN written \cup {i} : k # i \/ HoldsPointers \/ Fits(oop.value)}
<1>3. /\ object' = object /\ body' = Stored(p, oop)
      /\ written' = [j \in D |-> IF j # i THEN written[j]
                                 ELSE IF HoldsPointers THEN oop ELSE oop.value]
  BY <1>1 DEF Write
<1>4. \A j : Readable(j)' <=> Readable(j)
  BY <1>3 DEF Readable, AtError, InBounds, SmalltalkSize, Offset, FirstPC
<1>5. \A j : Offset(j)' = Offset(j)
  BY <1>3 DEF Offset
<1>6. ASSUME NEW b, NEW r PROVE Element(b, r)' = Element(b, r)
  BY <1>3 DEF Element, HoldsPointers, Width
<1>7. ASSUME NEW j \in D
      PROVE  Readable(j) /\ Element(Stored(p, oop), Offset(j)) = written'[j]
  <2>1. CASE j = i
    <3>1. written'[j] = IF HoldsPointers THEN oop ELSE oop.value
      BY <1>3, <2>1
    <3>2. HoldsPointers \/ Fits(oop.value)
      BY <2>1
    <3> QED
      BY <1>1, <1>2, <2>1, <3>1, <3>2, StoredIsRead DEF WInv
  <2>2. CASE j # i
    <3>1. /\ j \in DOMAIN written /\ j \in Indices /\ Readable(j)
          /\ Element(body, Offset(j)) = written[j] /\ written'[j] = written[j]
      BY <1>3, <2>2 DEF WInv, ReadsWhatWasWritten, Readable
    <3>2. Offset(j) \in Nat /\ Offset(j) < SmalltalkSize(object) /\ Offset(j) # p
      BY <1>1, <2>2, <3>1, ReadableOffset DEF WInv
    <3> QED
      BY <1>2, <3>1, <3>2, StoredIsRead DEF WInv
  <2> QED
    BY <2>1, <2>2
<1>8. DOMAIN written' = D /\ D \subseteq Indices
  BY <1>3 DEF WInv
<1>9. ReadsWhatWasWritten'
  <2> SUFFICES ASSUME NEW j \in DOMAIN written'
               PROVE  Readable(j)' /\ Element(body, Offset(j))' = written'[j]
    BY DEF ReadsWhatWasWritten, Readable
  <2>1. j \in D
    BY <1>8
  <2>2. Element(body, Offset(j))' = Element(Stored(p, oop), Offset(j))
    BY <1>3 DEF Element, HoldsPointers, Width, Offset
  <2> QED
    BY <1>4, <1>7, <2>1, <2>2
<1> QED
  BY <1>3, <1>8, <1>9 DEF WInv

(* The stores of both primitives are such. *)
LEMMA WInvNext == WInv /\ [Next]_vars => WInv'
<1> SUFFICES ASSUME WInv, [Next]_vars PROVE WInv'
  OBVIOUS
<1>1. ASSUME object' = object, body' = body, written' = written PROVE WInv'
  <2>1. \A j : Readable(j)' <=> Readable(j)
    BY <1>1 DEF Readable, AtError, InBounds, SmalltalkSize, Offset, FirstPC
  <2>2. \A j : Element(body, Offset(j))' = Element(body, Offset(j))
    BY <1>1 DEF Element, HoldsPointers, Width, Offset
  <2>3. ReadsWhatWasWritten'
    BY <1>1, <2>1, <2>2 DEF WInv, ReadsWhatWasWritten, Readable
  <2> QED
    BY <1>1, <2>3 DEF WInv
<1>2. CASE UNCHANGED vars
  BY <1>1, <1>2 DEF vars
<1>3. CASE Next
  <2>1. PICK receiver \in {"object", "immediate"}, index \in Arguments :
          \/ At(receiver, index) \/ StringAt(receiver, index)
          \/ Size(receiver) \/ ObjectAt(index)
          \/ \E oop \in Oops : AtPut(receiver, index, oop) \/ StringAtPut(receiver, index, oop)
    BY <1>3, Zenon DEF Next
  <2>2. \A e : Fail(e) => WInv'
    BY <1>1 DEF Fail
  <2>3. \A v, c : Answer(v, c) => WInv'
    BY <1>1 DEF Answer
  <2>4. CASE At(receiver, index) \/ StringAt(receiver, index) \/ Size(receiver) \/ ObjectAt(index)
    BY <2>2, <2>3, <2>4 DEF At, StringAt, Size, ObjectAt
  <2>5. index.kind = "integer" =>
          index.value \in Indices /\ index = [kind |-> "integer", value |-> index.value]
    BY DEF Arguments
  <2>6. ASSUME NEW oop \in Oops, AtPut(receiver, index, oop) PROVE WInv'
    <3>1. CASE AtError(receiver, index) # "none" \/ ValueError(oop) # "none"
      BY <2>2, <2>6, <3>1 DEF AtPut
    <3>2. CASE AtError(receiver, index) = "none" /\ ValueError(oop) = "none"
      <4>1. Write(index.value, Offset(index.value), oop)
        BY <2>6, <3>2 DEF AtPut
      <4>2. index.kind = "integer" /\ AtError("object", index) = "none"
        BY <3>2 DEF AtError
      <4>3. index.value \in Indices /\ Readable(index.value)
        BY <2>5, <4>2 DEF Readable
      <4> QED
        BY <4>1, <4>3, WriteKeeps
    <3> QED
      BY <3>1, <3>2
  <2>7. ASSUME NEW oop \in Oops, StringAtPut(receiver, index, oop) PROVE WInv'
    <3>1. CASE StringError(receiver, index) # "none" \/ (index.kind = "integer" /\ oop.kind # "character")
      BY <2>2, <2>7, <3>1 DEF StringAtPut
    <3>2. CASE StringError(receiver, index) = "none" /\ ~(index.kind = "integer" /\ oop.kind # "character")
      <4>1. Write(index.value, index.value - 1, oop)
        BY <2>7, <3>2 DEF StringAtPut
      <4>2. /\ index.kind = "integer" /\ index.value \in 1 .. SmalltalkSize(object)
            /\ object.format \in 10 .. 23
        BY <3>2 DEF StringError
      <4>3. PICK i \in Indices : i = index.value /\ index = [kind |-> "integer", value |-> i]
        BY <2>5, <4>2
      <4>4. Offset(i) = i - 1
        BY <4>2 DEF Offset
      <4>5. Readable(i)
        <5>1. i \in Int /\ SmalltalkSize(object) \in Int
          BY <4>2, InputsAssumption, ShapesAssumption DEF WInv, SmalltalkSize, WordBytes
        <5>2. i >= 1 /\ InBounds(i)
          BY <4>2, <4>3, <5>1 DEF InBounds
        <5> QED
          BY <4>2, <5>1, <5>2, Accepts DEF WInv, Readable
      <4> QED
        BY <4>1, <4>3, <4>4, <4>5, WriteKeeps
    <3> QED
      BY <3>1, <3>2
  <2> QED
    BY <2>1, <2>4, <2>6, <2>7
<1> QED
  BY <1>2, <1>3

(* Whatever the object, what at: answers for an index is what was last       *)
(* stored there, by either primitive: stores at other indices have not       *)
(* reached its cells, and the bytes of an element make up the number.        *)
THEOREM WrittenIsRead == Spec => []ReadsWhatWasWritten
<1>1. Init => WInv
  BY DEF Init, WInv, ReadsWhatWasWritten
<1>2. WInv => ReadsWhatWasWritten
  BY DEF WInv
<1> QED
  BY <1>1, <1>2, WInvNext, PTL DEF Spec
=============================================================================
