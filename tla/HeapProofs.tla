----------------------------- MODULE HeapProofs -----------------------------
(***************************************************************************)
(* Proofs about Heap, for segments, pages and slot bytes of every size,    *)
(* any requests, any words a program stores and copies of every object.    *)
(* The layout is whole until an object with an extension word is copied;   *)
(* what is kept after that, and what the copy itself harms, is proved too. *)
(***************************************************************************)
EXTENDS Heap, TLAPS

Object == [base: BaseFormats, logical: Nat, start: Address, slots: Nat]

-----------------------------------------------------------------------------
(* Sizes and formats *)

LEMMA Division ==
  ASSUME NEW t \in Nat, t > 0, NEW k \in Int
  PROVE  k \div t \in Int /\ k % t \in 0 .. t - 1 /\ k = (k \div t) * t + (k % t)
OBVIOUS

LEMMA Rounded ==
  ASSUME NEW n \in Nat
  PROVE  RoundUp(n) \in Nat /\ n <= RoundUp(n)
<1> DEFINE k == n + PageWords - 1
           r == k % PageWords
           z == (k \div PageWords) * PageWords
<1>1. PageWords \in Nat /\ PageWords > 0 /\ k \in Int
  BY HeapAssumption
<1>2. k \div PageWords \in Int /\ r \in 0 .. PageWords - 1 /\ k = z + r
  <2> HIDE DEF k
  <2> QED BY <1>1, Division
<1>3. z \in Int
  <2> HIDE DEF k
  <2> QED BY <1>1, <1>2
<1>4. RoundUp(n) = z
  BY DEF RoundUp
<1> HIDE DEF z, r
<1> QED BY <1>1, <1>2, <1>3, <1>4

(* What is asked for can be told from the header that is made for it.        *)
LEMMA FormatsDecode ==
  ASSUME NEW f \in BaseFormats, NEW n \in Nat
  PROVE  /\ SlotsFor(f, n) \in Nat
         /\ InstanceFormat(f, n) \in Nat
         /\ SmalltalkSize(InstanceFormat(f, n), SlotsFor(f, n)) = n
         /\ FirstFormat(InstanceFormat(f, n)) = f
<1>1. CASE f < 10
  <2>1. PerSlot(f) = 1 /\ f \in Nat
    BY <1>1 DEF PerSlot, BaseFormats, PointerFormats
  <2>2. SlotsFor(f, n) = n
    BY <2>1 DEF SlotsFor
  <2>3. InstanceFormat(f, n) = f
    BY <2>1, <2>2 DEF InstanceFormat
  <2>4. FirstFormat(f) = f
    BY <1>1 DEF FirstFormat
  <2> QED BY <2>1, <2>2, <2>3, <2>4 DEF SmalltalkSize
<1>2. CASE f = 10
  <2>1. PerSlot(f) = 2
    BY <1>2 DEF PerSlot
  <2>2. SlotsFor(f, n) = (n + 1) \div 2
    BY <2>1 DEF SlotsFor
  <2>3. SlotsFor(f, n) \in Nat /\ InstanceFormat(f, n) \in 10 .. 11
    BY <1>2, <2>1, <2>2 DEF InstanceFormat
  <2>4. PerSlot(InstanceFormat(f, n)) = 2 /\ FirstFormat(InstanceFormat(f, n)) = 10
    BY <2>3 DEF PerSlot, FirstFormat
  <2> QED BY <1>2, <2>1, <2>2, <2>3, <2>4 DEF SmalltalkSize, InstanceFormat
<1>3. CASE f = 12
  <2>1. PerSlot(f) = 4
    BY <1>3 DEF PerSlot
  <2>2. SlotsFor(f, n) = (n + 3) \div 4
    BY <2>1 DEF SlotsFor
  <2>3. SlotsFor(f, n) \in Nat /\ InstanceFormat(f, n) \in 12 .. 15
    BY <1>3, <2>1, <2>2 DEF InstanceFormat
  <2>4. PerSlot(InstanceFormat(f, n)) = 4 /\ FirstFormat(InstanceFormat(f, n)) = 12
    BY <2>3 DEF PerSlot, FirstFormat
  <2> QED BY <1>3, <2>1, <2>2, <2>3, <2>4 DEF SmalltalkSize, InstanceFormat
<1>4. CASE f \in {16, 24}
  <2>1. PerSlot(f) = 8
    BY <1>4 DEF PerSlot
  <2>2. SlotsFor(f, n) = (n + 7) \div 8
    BY <2>1 DEF SlotsFor
  <2>3. SlotsFor(f, n) \in Nat /\ InstanceFormat(f, n) \in f .. f + 7
    BY <1>4, <2>1, <2>2 DEF InstanceFormat
  <2>4. PerSlot(InstanceFormat(f, n)) = 8 /\ FirstFormat(InstanceFormat(f, n)) = f
    BY <1>4, <2>3 DEF PerSlot, FirstFormat
  <2> QED BY <1>4, <2>1, <2>2, <2>3, <2>4 DEF SmalltalkSize, InstanceFormat
<1> QED BY <1>1, <1>2, <1>3, <1>4 DEF BaseFormats, PointerFormats

-----------------------------------------------------------------------------
(* The layout *)

(* What is in memory of the object whose header is at h.                     *)
IsLaidOut(h) ==
  /\ h = objects[h].start + HeaderWords(objects[h].slots) - 1
  /\ LastWord(h) < size
  /\ objects[h].slots = SlotsFor(objects[h].base, objects[h].logical)
  /\ memory[h] = HeaderWord(objects[h].slots, InstanceFormat(objects[h].base, objects[h].logical))
  /\ objects[h].slots >= Big => memory[h - 1] = OverflowWord(objects[h].slots)

Owns(h, a) == objects[h].start <= a /\ a <= LastWord(h)

Covered == \A a \in 0 .. size - 1 : \E h \in DOMAIN objects : Owns(h, a)
Apart   == \A g, h \in DOMAIN objects :
             g = h \/ LastWord(g) < objects[h].start \/ LastWord(h) < objects[g].start

Layout ==
  /\ size <= committed
  /\ \A h \in DOMAIN objects : IsLaidOut(h)
  /\ Covered
  /\ Apart

(* The iterator is between two objects, and has been at all those before.    *)
Walk ==
  /\ end <= size
  /\ end < size => \E h \in DOMAIN objects : objects[h].start = end
  /\ header # None => header \in DOMAIN objects
  /\ ~atEnd => visited = {h \in DOMAIN objects : h < end}

Whole == TypeOK /\ Layout /\ Walk

(* What holds whatever has been copied: an object is inside the heap, and a  *)
(* header at its first word has no extension word.                           *)
Sane ==
  /\ \A h \in DOMAIN objects : LastWord(h) < size
  /\ 0 \in DOMAIN objects => memory[0].raw # Big

Inv == /\ TypeOK
       /\ Sane
       /\ ~largeCopied => Layout /\ Walk

LEMMA HeaderParts ==
  \A slots, format :
    /\ HeaderWord(slots, format).raw = IF slots >= Big THEN Big ELSE slots
    /\ HeaderWord(slots, format).low = format
BY DEF HeaderWord

(* The numbers of an object.                                                 *)
LEMMA ObjectFacts ==
  ASSUME TypeOK, Layout, NEW h \in DOMAIN objects
  PROVE  /\ h \in Nat /\ objects[h].start \in Nat /\ objects[h].slots \in Nat
         /\ LastWord(h) \in Nat /\ LastWord(h) < size /\ h < LastWord(h)
         /\ h = IF objects[h].slots >= Big THEN objects[h].start + 1 ELSE objects[h].start
         /\ Owns(h, h) /\ Owns(h, objects[h].start) /\ Owns(h, LastWord(h))
         /\ SlotCount(h) = objects[h].slots
<1>1. /\ objects[h] \in Object /\ h \in Address /\ size \in Nat /\ Big \in Nat /\ Capacity \in Nat
  BY HeapAssumption DEF TypeOK, Object
<1>2. /\ objects[h].start \in Nat /\ objects[h].slots \in Nat /\ h \in Nat
  BY <1>1 DEF Object, Address
<1>3. /\ h = objects[h].start + HeaderWords(objects[h].slots) - 1
      /\ LastWord(h) < size
      /\ memory[h] = HeaderWord(objects[h].slots, InstanceFormat(objects[h].base, objects[h].logical))
      /\ objects[h].slots >= Big => memory[h - 1] = OverflowWord(objects[h].slots)
  BY DEF Layout, IsLaidOut
<1>4. h = IF objects[h].slots >= Big THEN objects[h].start + 1 ELSE objects[h].start
  BY <1>1, <1>2, <1>3 DEF HeaderWords
<1>5. LastWord(h) \in Nat /\ h < LastWord(h)
  BY <1>2 DEF LastWord, AtLeastOne
<1>6. SlotCount(h) = objects[h].slots
  <2>1. CASE objects[h].slots >= Big
    BY <1>1, <1>2, <1>3, <2>1 DEF SlotCount, HeaderWord, OverflowWord
  <2>2. CASE ~(objects[h].slots >= Big)
    BY <1>1, <1>2, <1>3, <2>2 DEF SlotCount, HeaderWord
  <2> QED BY <2>1, <2>2
<1> QED BY <1>1, <1>2, <1>3, <1>4, <1>5, <1>6 DEF Owns

(* A word belongs to one object.                                             *)
LEMMA OneOwner ==
  ASSUME TypeOK, Layout, NEW g \in DOMAIN objects, NEW h \in DOMAIN objects, NEW a \in Int,
         Owns(g, a), Owns(h, a)
  PROVE  g = h
<1>1. /\ LastWord(g) \in Nat /\ objects[g].start \in Nat
      /\ LastWord(h) \in Nat /\ objects[h].start \in Nat
  BY ObjectFacts
<1> QED BY <1>1 DEF Layout, Apart, Owns

(* After an object there is another, or the end of the heap; the first       *)
(* object is at its start.                                                   *)
LEMMA NextObject ==
  ASSUME TypeOK, Layout, NEW a \in Nat, a < size,
         a = 0 \/ \E h \in DOMAIN objects : a = LastWord(h) + 1
  PROVE  \E g \in DOMAIN objects : objects[g].start = a
<1>1. size \in Nat
  BY HeapAssumption DEF TypeOK
<1>2. PICK g \in DOMAIN objects : Owns(g, a)
  BY <1>1 DEF Layout, Covered
<1>3. objects[g].start \in Nat /\ LastWord(g) \in Nat
  BY ObjectFacts
<1>4. CASE a = 0
  BY <1>2, <1>3, <1>4 DEF Owns
<1>5. CASE \E h \in DOMAIN objects : a = LastWord(h) + 1
  <2>1. PICK h \in DOMAIN objects : a = LastWord(h) + 1
    BY <1>5
  <2>2. objects[h].start \in Nat /\ LastWord(h) \in Nat /\ objects[h].start <= LastWord(h)
    BY ObjectFacts DEF Owns
  <2>3. g # h
    BY <1>2, <2>1, <2>2 DEF Owns
  <2>4. LastWord(g) < objects[h].start \/ LastWord(h) < objects[g].start
    BY <2>3 DEF Layout, Apart
  <2> QED BY <1>2, <1>3, <2>1, <2>2, <2>4 DEF Owns
<1> QED BY <1>4, <1>5

-----------------------------------------------------------------------------
(* What follows from the layout *)

LEMMA LayoutTiles == TypeOK /\ Layout => ObjectsTile
<1> SUFFICES ASSUME TypeOK, Layout PROVE ObjectsTile
  OBVIOUS
<1>1. ASSUME NEW a \in 0 .. size - 1
      PROVE  \E h \in DOMAIN objects :
               /\ a \in objects[h].start .. LastWord(h)
               /\ \A g \in DOMAIN objects \ {h} : a \notin objects[g].start .. LastWord(g)
  <2>1. PICK h \in DOMAIN objects : Owns(h, a)
    BY DEF Layout, Covered
  <2>2. a \in Int /\ objects[h].start \in Nat /\ LastWord(h) \in Nat
    BY ObjectFacts
  <2>3. \A g \in DOMAIN objects \ {h} : ~Owns(g, a)
    BY <2>1, <2>2, OneOwner
  <2>4. \A g \in DOMAIN objects : objects[g].start \in Nat /\ LastWord(g) \in Nat
    BY ObjectFacts
  <2> QED BY <2>1, <2>2, <2>3, <2>4 DEF Owns
<1> QED BY <1>1 DEF ObjectsTile, Layout

LEMMA LayoutDecodes == TypeOK /\ Layout => HeadersDecode
<1> SUFFICES ASSUME TypeOK, Layout, NEW h \in DOMAIN objects
             PROVE  /\ SlotCount(h) = objects[h].slots
                    /\ SmalltalkSize(memory[h].low, SlotCount(h)) = objects[h].logical
                    /\ FirstFormat(memory[h].low) = objects[h].base
  BY DEF HeadersDecode
<1>1. objects[h].base \in BaseFormats /\ objects[h].logical \in Nat
  BY DEF TypeOK
<1>2. SlotCount(h) = SlotsFor(objects[h].base, objects[h].logical)
  BY ObjectFacts DEF Layout, IsLaidOut
<1>3. memory[h].low = InstanceFormat(objects[h].base, objects[h].logical)
  BY HeaderParts DEF Layout, IsLaidOut
<1> QED BY <1>1, <1>2, <1>3, ObjectFacts, FormatsDecode

(* The word an object starts with tells where its header is.                 *)
LEMMA StartTells ==
  ASSUME TypeOK, Layout, NEW g \in DOMAIN objects
  PROVE  g = IF memory[objects[g].start].raw = Big THEN objects[g].start + 1 ELSE objects[g].start
<1>1. Big \in Nat /\ objects[g].slots \in Nat /\ objects[g].start \in Nat
  BY HeapAssumption, ObjectFacts
<1>2. CASE objects[g].slots >= Big
  <2>1. g = objects[g].start + 1 /\ memory[g - 1] = OverflowWord(objects[g].slots)
    BY <1>2, ObjectFacts DEF Layout, IsLaidOut
  <2>2. memory[objects[g].start].raw = Big
    BY <1>1, <2>1 DEF OverflowWord
  <2> QED BY <2>1, <2>2
<1>3. CASE ~(objects[g].slots >= Big)
  <2>1. g = objects[g].start
    BY <1>3, ObjectFacts
  <2>2. memory[g].raw = objects[g].slots
    BY <1>3, HeaderParts DEF Layout, IsLaidOut
  <2> QED BY <1>1, <1>3, <2>1, <2>2
<1> QED BY <1>2, <1>3

LEMMA LayoutSucceeds == TypeOK /\ Layout => AfterIsNext
<1> SUFFICES ASSUME TypeOK, Layout, NEW h \in DOMAIN objects, LastWord(h) + 1 < size
             PROVE  /\ ObjectPointerAfter(h) \in DOMAIN objects
                    /\ objects[ObjectPointerAfter(h)].start = LastWord(h) + 1
  BY DEF AfterIsNext
<1>1. h \in Nat /\ LastWord(h) \in Nat /\ LastWord(h) = h + AtLeastOne(SlotCount(h))
  BY ObjectFacts DEF LastWord
<1>2. PICK g \in DOMAIN objects : objects[g].start = LastWord(h) + 1
  <2>1. LastWord(h) + 1 \in Nat
    BY <1>1
  <2> QED BY <2>1, NextObject
<1>3. AtLeastOne(SlotCount(h)) \in Int
  BY ObjectFacts DEF AtLeastOne
<1>4. h + 1 + AtLeastOne(SlotCount(h)) = LastWord(h) + 1
  BY <1>1, <1>3
<1>5. ObjectPointerAfter(h) = g
  BY <1>2, <1>4, StartTells DEF ObjectPointerAfter
<1> QED BY <1>2, <1>5

-----------------------------------------------------------------------------
(* The steps *)

(* A header tells a number of slots, whatever the words hold.                *)
LEMMA CountTold ==
  ASSUME TypeOK, Sane, NEW o \in DOMAIN objects
  PROVE  /\ o \in Nat /\ o + 1 < size /\ o \in Address /\ memory[o] \in Word
         /\ SlotCount(o) \in Nat /\ LastWord(o) \in Nat /\ LastWord(o) < size
<1>1. o \in Nat /\ o \in Address /\ o + 1 < size /\ LastWord(o) \in Nat /\ LastWord(o) < size
  <2>1. o \in Address /\ objects[o].slots \in Nat /\ size \in Nat
    BY HeapAssumption DEF TypeOK
  <2> QED BY <2>1, HeapAssumption DEF Sane, Address, LastWord, AtLeastOne
<1>2. \A a \in Address : memory[a] \in Word
  BY DEF TypeOK
<1>3. CASE memory[o].raw = Big
  <2>1. o # 0
    BY <1>3 DEF Sane
  <2>2. o - 1 \in Address
    BY <1>1, <2>1, HeapAssumption DEF Address
  <2> QED BY <1>1, <1>2, <1>3, <2>2 DEF SlotCount, Word
<1>4. CASE memory[o].raw # Big
  BY <1>1, <1>2, <1>4, HeapAssumption DEF SlotCount, Word
<1> QED BY <1>1, <1>2, <1>3, <1>4

(* A new object behind all others, whatever its words.                       *)
LEMMA AddedInside ==
  ASSUME TypeOK, Sane, NEW h \in Nat, NEW new \in Object, NEW n \in Nat,
         HasRoom(n), Allocate(n), size <= h, h + AtLeastOne(new.slots) < size + n,
         memory' \in [Address -> Word],
         size > 1 => memory'[0] = memory[0],
         h = 0 => memory'[0].raw # Big,
         Register(h, new), largeCopied' \in BOOLEAN, UNCHANGED <<iterator, status>>
  PROVE  TypeOK' /\ Sane'
<1>1. /\ size \in Nat /\ Capacity \in Nat /\ committed \in Nat
      /\ size' = size + n /\ size' <= Capacity /\ size' \in Nat
  BY HeapAssumption DEF TypeOK, HasRoom, Allocate
<1>2. committed' \in Nat
  <2>1. committed' = IF size' > committed THEN RoundUp(size') ELSE committed
    BY <1>1 DEF Allocate
  <2> QED BY <1>1, <2>1, Rounded
<1>3. /\ DOMAIN objects' = DOMAIN objects \cup {h}
      /\ objects'[h] = new
      /\ \A g \in DOMAIN objects : g # h => objects'[g] = objects[g]
  BY DEF Register
<1>4. h \in Address /\ new.slots \in Nat
  BY <1>1 DEF Address, AtLeastOne, Object
<1>5. TypeOK'
  <2>1. \A g \in DOMAIN objects' : objects'[g] \in Object
    BY <1>3 DEF TypeOK, Object
  <2>2. DOMAIN objects' \subseteq Address
    BY <1>3, <1>4 DEF TypeOK
  <2>3. UNCHANGED <<end, header, atEnd, visited, status>>
    BY DEF iterator
  <2>4. size' \in 0 .. Capacity
    BY <1>1
  <2> QED BY <1>2, <2>1, <2>2, <2>3, <2>4 DEF TypeOK, Object
<1>6. ASSUME NEW g \in DOMAIN objects' PROVE LastWord(g)' < size'
  <2>1. CASE g = h
    BY <1>1, <1>3, <1>4, <2>1 DEF LastWord
  <2>2. CASE g # h
    <3>1. g \in DOMAIN objects /\ objects'[g] = objects[g]
      BY <1>3, <2>2
    <3>2. LastWord(g) \in Nat /\ LastWord(g) < size /\ LastWord(g)' = LastWord(g)
      BY <3>1, CountTold DEF LastWord
    <3> QED BY <1>1, <3>2
  <2> QED BY <2>1, <2>2
<1>7. ASSUME 0 \in DOMAIN objects' PROVE memory'[0].raw # Big
  <2>1. CASE h = 0
    BY <2>1
  <2>2. CASE h # 0
    <3>1. 0 \in DOMAIN objects
      BY <1>3, <1>7, <2>2
    <3>2. size > 1
      BY <1>1, <3>1, CountTold
    <3> QED BY <3>1, <3>2 DEF Sane
  <2> QED BY <2>1, <2>2
<1> QED BY <1>5, <1>6, <1>7 DEF Sane

(* A new object behind all others, properly headed, is laid out with them.   *)
LEMMA Added ==
  ASSUME Whole, NEW h \in Nat, NEW new \in Object,
         new.start = size, new.slots = SlotsFor(new.base, new.logical),
         h = size + HeaderWords(new.slots) - 1,
         HasRoom(ObjectWords(new.slots)), Allocate(ObjectWords(new.slots)),
         memory' \in [Address -> Word],
         \A a \in 0 .. size - 1 : memory'[a] = memory[a],
         memory'[h] = HeaderWord(new.slots, InstanceFormat(new.base, new.logical)),
         new.slots >= Big => memory'[h - 1] = OverflowWord(new.slots),
         Register(h, new), largeCopied' \in BOOLEAN, UNCHANGED <<iterator, status>>
  PROVE  Whole'
<1> USE DEF Whole
<1>1. /\ size \in Nat /\ Capacity \in Nat /\ Big \in Nat /\ Big > 1
      /\ committed \in Nat /\ end \in Nat /\ size <= committed
      /\ new.slots \in Nat /\ new.base \in BaseFormats /\ new.logical \in Nat
  BY HeapAssumption DEF TypeOK, Object, Layout
<1>2. /\ size' \in Nat /\ size' = h + AtLeastOne(new.slots) + 1
      /\ h >= size /\ h < size' - 1 /\ size' <= Capacity
      /\ h = IF new.slots >= Big THEN size + 1 ELSE size
  BY <1>1 DEF Allocate, HasRoom, ObjectWords, HeaderWords, AtLeastOne
<1>3. committed' \in Nat /\ size' <= committed'
  <2>1. size' = size + ObjectWords(new.slots)
    BY DEF Allocate
  <2>2. committed' = IF size' > committed THEN RoundUp(size') ELSE committed
    BY <2>1 DEF Allocate
  <2> QED BY <1>1, <1>2, <2>2, Rounded
<1>4. /\ DOMAIN objects' = DOMAIN objects \cup {h}
      /\ objects'[h] = new
      /\ \A g \in DOMAIN objects : g # h => objects'[g] = objects[g]
  BY DEF Register
<1>5. \A g \in DOMAIN objects :
        /\ g \in Nat /\ g < size /\ g # h /\ objects'[g] = objects[g] /\ LastWord(g)' = LastWord(g)
        /\ objects[g].start \in Nat /\ LastWord(g) \in Nat /\ LastWord(g) < size
        /\ objects[g].start <= LastWord(g)
  <2> SUFFICES ASSUME NEW g \in DOMAIN objects
               PROVE  /\ g \in Nat /\ g < size /\ g # h /\ objects'[g] = objects[g]
                      /\ LastWord(g)' = LastWord(g)
                      /\ objects[g].start \in Nat /\ LastWord(g) \in Nat /\ LastWord(g) < size
                      /\ objects[g].start <= LastWord(g)
    OBVIOUS
  <2>1. /\ g \in Nat /\ LastWord(g) < size /\ g < LastWord(g) /\ LastWord(g) \in Nat
        /\ objects[g].start \in Nat /\ objects[g].start <= LastWord(g)
    BY ObjectFacts DEF Owns
  <2>2. g < size /\ g # h
    BY <1>1, <1>2, <2>1
  <2>3. objects'[g] = objects[g]
    BY <1>4, <2>2
  <2> QED BY <2>1, <2>2, <2>3 DEF LastWord
<1>6. LastWord(h)' = size' - 1 /\ objects'[h].start = size
  BY <1>1, <1>2, <1>4 DEF LastWord, AtLeastOne
<1>7. TypeOK'
  <2>1. h \in Address /\ size' \in 0 .. Capacity
    BY <1>1, <1>2 DEF Address
  <2>2. \A g \in DOMAIN objects' : objects'[g] \in Object
    BY <1>4, <1>5 DEF TypeOK, Object
  <2>3. DOMAIN objects' \subseteq Address
    BY <1>4, <2>1 DEF TypeOK
  <2>4. UNCHANGED <<end, header, atEnd, visited, status>>
    BY DEF iterator
  <2> QED BY <1>3, <2>1, <2>2, <2>3, <2>4 DEF TypeOK, Object
<1>8. Layout'
  <2>1. \A g \in DOMAIN objects' : IsLaidOut(g)'
    <3> SUFFICES ASSUME NEW g \in DOMAIN objects' PROVE IsLaidOut(g)'
      OBVIOUS
    <3>1. CASE g = h
      BY <1>1, <1>2, <1>4, <1>6, <3>1 DEF IsLaidOut
    <3>2. CASE g \in DOMAIN objects
      <4>1. objects'[g] = objects[g] /\ LastWord(g)' < size' /\ g \in 0 .. size - 1
        BY <1>1, <1>2, <1>5, <3>2
      <4>2. memory'[g] = memory[g]
        BY <4>1
      <4>3. objects[g].slots >= Big => g - 1 \in 0 .. size - 1
        BY <1>1, <3>2, <4>1, ObjectFacts
      <4>4. objects[g].slots >= Big => memory'[g - 1] = memory[g - 1]
        BY <4>3
      <4>5. IsLaidOut(g)
        BY <3>2 DEF Layout
      <4> QED BY <4>1, <4>2, <4>4, <4>5 DEF IsLaidOut
    <3> QED BY <1>4, <3>1, <3>2
  <2>2. Covered'
    <3> SUFFICES ASSUME NEW a \in 0 .. size' - 1
                 PROVE  \E g \in DOMAIN objects' : Owns(g, a)'
      BY DEF Covered
    <3>1. CASE a < size
      <4>1. a \in 0 .. size - 1
        BY <1>1, <1>2, <3>1
      <4>2. PICK g \in DOMAIN objects : Owns(g, a)
        BY <4>1 DEF Layout, Covered
      <4>3. Owns(g, a)'
        BY <1>5, <4>2 DEF Owns
      <4> QED BY <1>4, <4>2, <4>3
    <3>2. CASE a >= size
      <4>1. Owns(h, a)'
        BY <1>1, <1>2, <1>6, <3>2 DEF Owns
      <4> QED BY <1>4, <4>1
    <3> QED BY <1>1, <1>2, <3>1, <3>2
  <2>3. Apart'
    <3> SUFFICES ASSUME NEW f \in DOMAIN objects', NEW g \in DOMAIN objects', f # g
                 PROVE  LastWord(f)' < objects'[g].start \/ LastWord(g)' < objects'[f].start
      BY DEF Apart
    <3>1. CASE f = h
      BY <1>1, <1>4, <1>5, <1>6, <3>1
    <3>2. CASE g = h
      BY <1>1, <1>4, <1>5, <1>6, <3>2
    <3>3. CASE f # h /\ g # h
      <4>1. f \in DOMAIN objects /\ g \in DOMAIN objects
        BY <1>4, <3>3
      <4> QED BY <1>5, <4>1 DEF Layout, Apart
    <3> QED BY <3>1, <3>2, <3>3
  <2> QED BY <1>3, <2>1, <2>2, <2>3 DEF Layout
<1>9. Walk'
  <2>1. UNCHANGED <<end, header, atEnd, visited>>
    BY DEF iterator
  <2>2. end <= size'
    BY <1>1, <1>2 DEF Walk
  <2>3. \E g \in DOMAIN objects' : objects'[g].start = end
    <3>1. CASE end = size
      BY <1>4, <1>6, <3>1
    <3>2. CASE end # size
      <4>1. PICK g \in DOMAIN objects : objects[g].start = end
        BY <1>1, <3>2 DEF Walk
      <4> QED BY <1>4, <1>5, <4>1
    <3> QED BY <3>1, <3>2
  <2>4. {g \in DOMAIN objects' : g < end} = {g \in DOMAIN objects : g < end}
    <3>1. ~(h < end)
      BY <1>1, <1>2 DEF Walk
    <3> QED BY <1>4, <3>1
  <2> QED BY <1>4, <2>1, <2>2, <2>3, <2>4 DEF Walk
<1> QED BY <1>7, <1>8, <1>9

LEMMA NewObjectKeeps ==
  ASSUME TypeOK, Sane, NEW f \in BaseFormats, NEW n \in Nat, NewObject(f, n)
  PROVE  /\ TypeOK' /\ Sane'
         /\ Layout /\ Walk => Layout' /\ Walk'
         /\ \A a \in 0 .. size - 1 : memory'[a] = memory[a]
<1> DEFINE slots == SlotsFor(f, n)
           h     == size + HeaderWords(slots) - 1
           new   == [base |-> f, logical |-> n, start |-> size, slots |-> slots]
<1>1. /\ size \in Nat /\ Capacity \in Nat /\ Big \in Nat /\ Big > 1 /\ slots \in Nat
      /\ InstanceFormat(f, n) \in Nat /\ memory \in [Address -> Word]
  BY HeapAssumption, FormatsDecode DEF TypeOK
<1>2. /\ HasRoom(ObjectWords(slots)) /\ Allocate(ObjectWords(slots))
      /\ largeCopied' \in BOOLEAN /\ UNCHANGED <<iterator, status>>
  BY DEF NewObject, TypeOK
<1>3. memory' = [a \in Address |->
        CASE a = h -> HeaderWord(slots, InstanceFormat(f, n))
          [] a = h - 1 /\ slots >= Big -> OverflowWord(slots)
          [] a \in h + 1 .. h + AtLeastOne(slots) ->
               IF f < 9 /\ slots > 0 THEN NilWord ELSE ZeroWord
          [] OTHER -> memory[a]]
  BY DEF NewObject
<1>4. Register(h, new)
  BY DEF NewObject
<1> HIDE DEF slots
<1>5. /\ h \in Nat /\ h >= size /\ h < Capacity /\ size < Capacity
      /\ slots >= Big => h - 1 = size
      /\ ~(slots >= Big) => h = size
  BY <1>1, <1>2 DEF HasRoom, ObjectWords, HeaderWords, AtLeastOne
<1> HIDE DEF h
<1>6. h \in Address /\ (slots >= Big => h - 1 \in Address /\ h - 1 # h)
  BY <1>1, <1>5 DEF Address
<1>7. memory' \in [Address -> Word]
  <2>1. HeaderWord(slots, InstanceFormat(f, n)) \in Word
    BY <1>1 DEF HeaderWord, Word
  <2>2. OverflowWord(slots) \in Word /\ NilWord \in Word /\ ZeroWord \in Word
    BY <1>1 DEF OverflowWord, NilWord, ZeroWord, Word
  <2> HIDE DEF h
  <2>3. \A a \in Address : memory'[a] \in Word
    BY <1>1, <1>3, <2>1, <2>2
  <2> QED BY <1>3, <2>3
<1>8. \A a \in 0 .. size - 1 : memory'[a] = memory[a]
  <2> SUFFICES ASSUME NEW a \in 0 .. size - 1 PROVE memory'[a] = memory[a]
    OBVIOUS
  <2>1. /\ a \in Address /\ a # h /\ a \notin h + 1 .. h + AtLeastOne(slots)
        /\ slots >= Big => a # h - 1
    BY <1>1, <1>5 DEF Address, AtLeastOne
  <2> QED BY <1>3, <2>1
<1>9. memory'[h] = HeaderWord(slots, InstanceFormat(f, n))
  BY <1>3, <1>6
<1>10. slots >= Big => memory'[h - 1] = OverflowWord(slots)
  <2> SUFFICES ASSUME slots >= Big PROVE memory'[h - 1] = OverflowWord(slots)
    OBVIOUS
  <2> DEFINE k == h - 1
  <2>1. k \in Address /\ k # h
    BY <1>6
  <2>2. memory'[k] = CASE k = h -> HeaderWord(slots, InstanceFormat(f, n))
                       [] k = h - 1 /\ slots >= Big -> OverflowWord(slots)
                       [] k \in h + 1 .. h + AtLeastOne(slots) ->
                            IF f < 9 /\ slots > 0 THEN NilWord ELSE ZeroWord
                       [] OTHER -> memory[k]
    BY <1>3, <2>1
  <2>3. k = h - 1 /\ slots >= Big /\ k \notin h + 1 .. h + AtLeastOne(slots)
    BY <1>1, <1>5
  <2> HIDE DEF k
  <2>4. memory'[k] = OverflowWord(slots)
    BY <2>1, <2>2, <2>3, Zenon
  <2> QED BY <2>4 DEF k
<1>11. new \in Object /\ new.start = size /\ new.slots = slots /\ new.base = f /\ new.logical = n
  BY <1>1, <1>5 DEF Object, Address
<1>12. h = size + HeaderWords(new.slots) - 1 /\ new.slots = SlotsFor(new.base, new.logical)
  BY <1>11 DEF h, slots
<1> HIDE DEF new
<1>13. TypeOK' /\ Sane'
  <2>1. ObjectWords(slots) \in Nat /\ h + AtLeastOne(slots) < size + ObjectWords(slots)
    BY <1>1, <1>5 DEF ObjectWords, HeaderWords, AtLeastOne
  <2>2. size > 1 => memory'[0] = memory[0]
    BY <1>1, <1>8
  <2>3. h = 0 => memory'[0].raw # Big
    <3> SUFFICES ASSUME h = 0 PROVE memory'[h].raw # Big
      OBVIOUS
    <3>1. ~(slots >= Big)
      BY <1>1, <1>5
    <3>2. memory'[h].raw = slots
      BY <1>9, <3>1, HeaderParts
    <3> QED BY <1>1, <3>1, <3>2
  <2> QED BY <1>2, <1>4, <1>5, <1>7, <1>11, <2>1, <2>2, <2>3, AddedInside
<1>14. ASSUME Layout, Walk PROVE Layout' /\ Walk'
  <2>1. Whole
    BY <1>14 DEF Whole
  <2>2. Whole'
    BY <1>2, <1>4, <1>5, <1>7, <1>8, <1>9, <1>10, <1>11, <1>12, <2>1, Added
  <2> QED BY <2>2 DEF Whole
<1> QED BY <1>8, <1>13, <1>14

(* A copy is laid out like any other new object if it needs no extension     *)
(* word, and only if it does it changes a word there was: the last one.      *)
LEMMA ShallowCopyKeeps ==
  ASSUME TypeOK, Sane, NEW o \in DOMAIN objects, ShallowCopy(o)
  PROVE  /\ TypeOK' /\ Sane'
         /\ ~largeCopied' /\ Layout /\ Walk => Layout' /\ Walk'
         /\ \A a \in 0 .. size - 1 :
              memory'[a] # memory[a] => a = size - 1 /\ BeginsWithoutExtension(a + 1)'
<1> DEFINE slots == SlotCount(o)
           n     == ObjectWords(slots)
           new   == [objects[o] EXCEPT !.start = size, !.slots = slots]
<1>1. /\ size \in Nat /\ Capacity \in Nat /\ Big \in Nat /\ Big > 1
      /\ memory \in [Address -> Word] /\ objects[o] \in Object
  BY HeapAssumption DEF TypeOK, Object
<1>2. /\ slots \in Nat /\ o \in Nat /\ o + 1 < size /\ memory[o] \in Word
  BY CountTold
<1>3. HasRoom(n) /\ Allocate(n) /\ UNCHANGED <<iterator, status>>
  BY DEF ShallowCopy
<1>4. PICK again \in BOOLEAN :
        memory' = [a \in Address |->
          CASE a = size -> HeaderWord(slots, memory[o].low)
            [] a = size - 1 /\ slots >= Big -> OverflowWord(slots)
            [] a \in size + 1 .. size + n - 1 ->
                 memory[o + (IF again THEN (a - size) % (size - o) ELSE a - size)]
            [] OTHER -> memory[a]]
  BY DEF ShallowCopy
<1>5. Register(size, new) /\ largeCopied' = (largeCopied \/ slots >= Big)
  BY DEF ShallowCopy
<1>6. largeCopied' \in BOOLEAN
  BY <1>5 DEF TypeOK
<1> DEFINE source(a) == o + (IF again THEN (a - size) % (size - o) ELSE a - size)
<1> HIDE DEF slots
<1>7. /\ n \in Nat /\ n > 1 /\ AtLeastOne(slots) \in Nat /\ AtLeastOne(slots) < n
      /\ size + n <= Capacity /\ size \in Address
  BY <1>1, <1>2, <1>3 DEF Address, HasRoom, ObjectWords, HeaderWords, AtLeastOne
<1> HIDE DEF n
<1>8. \A a \in size + 1 .. size + n - 1 : source(a) \in Address
  <2> SUFFICES ASSUME NEW a \in size + 1 .. size + n - 1 PROVE source(a) \in Address
    OBVIOUS
  <2> DEFINE d == a - size
             e == size - o
             q == d % e
  <2>1. d \in Nat /\ o + d < Capacity /\ e \in Nat /\ e > 0 /\ o + e <= Capacity
    BY <1>1, <1>2, <1>7
  <2>2. q \in 0 .. e - 1
    <3> HIDE DEF d, e
    <3> QED BY <2>1, Division
  <2>3. source(a) = o + (IF again THEN q ELSE d)
    OBVIOUS
  <2> HIDE DEF d, e, q, source
  <2> QED BY <1>1, <1>2, <2>1, <2>2, <2>3 DEF Address
<1> HIDE DEF source
<1>9. \A a \in Address :
        memory'[a] = CASE a = size -> HeaderWord(slots, memory[o].low)
                       [] a = size - 1 /\ slots >= Big -> OverflowWord(slots)
                       [] a \in size + 1 .. size + n - 1 -> memory[source(a)]
                       [] OTHER -> memory[a]
  BY <1>4 DEF source
<1>10. memory' \in [Address -> Word]
  <2>1. HeaderWord(slots, memory[o].low) \in Word
    BY <1>1, <1>2 DEF HeaderWord, Word
  <2>2. OverflowWord(slots) \in Word
    BY <1>1, <1>2 DEF OverflowWord, Word
  <2>3. ASSUME NEW a \in Address PROVE memory'[a] \in Word
    <3>1. \/ memory'[a] = HeaderWord(slots, memory[o].low)
          \/ memory'[a] = OverflowWord(slots)
          \/ a \in size + 1 .. size + n - 1 /\ memory'[a] = memory[source(a)]
          \/ memory'[a] = memory[a]
      BY <1>9, Zenon
    <3> QED BY <1>1, <1>8, <2>1, <2>2, <3>1
  <2> QED BY <1>4, <2>3
<1>11. \A a \in 0 .. size - 1 : memory'[a] # memory[a] => a = size - 1 /\ slots >= Big
  <2> SUFFICES ASSUME NEW a \in 0 .. size - 1, ~(a = size - 1 /\ slots >= Big)
               PROVE  memory'[a] = memory[a]
    OBVIOUS
  <2>1. a \in Address /\ a # size /\ a \notin size + 1 .. size + n - 1
    BY <1>1, <1>7 DEF Address
  <2> QED BY <1>9, <2>1, Zenon
<1>12. memory'[size] = HeaderWord(slots, memory[o].low)
  <2>1. size # size - 1 /\ size \notin size + 1 .. size + n - 1
    BY <1>1, <1>7
  <2>2. memory'[size] = CASE size = size -> HeaderWord(slots, memory[o].low)
                          [] size = size - 1 /\ slots >= Big -> OverflowWord(slots)
                          [] size \in size + 1 .. size + n - 1 -> memory[source(size)]
                          [] OTHER -> memory[size]
    BY <1>7, <1>9
  <2> QED BY <2>1, <2>2, Zenon
<1>13. /\ new \in Object /\ new.start = size /\ new.slots = slots
       /\ new.base = objects[o].base /\ new.logical = objects[o].logical
  BY <1>1, <1>2, <1>7 DEF Object
<1> HIDE DEF new
<1>14. TypeOK' /\ Sane'
  <2>1. size > 1 => memory'[0] = memory[0]
    BY <1>1, <1>11
  <2>2. size # 0
    BY <1>1, <1>2
  <2>3. size <= size /\ size + AtLeastOne(new.slots) < size + n
    BY <1>1, <1>7, <1>13
  <2> QED BY <1>1, <1>3, <1>5, <1>6, <1>7, <1>10, <1>13, <2>1, <2>2, <2>3, AddedInside
<1>15. ASSUME ~largeCopied', Layout, Walk PROVE Layout' /\ Walk'
  <2>1. ~(slots >= Big)
    BY <1>5, <1>15
  <2>2. slots = objects[o].slots
    BY <1>15, ObjectFacts DEF slots
  <2>3. /\ size = size + HeaderWords(new.slots) - 1
        /\ new.slots = SlotsFor(new.base, new.logical)
        /\ ~(new.slots >= Big)
    BY <1>1, <1>13, <1>15, <2>1, <2>2 DEF HeaderWords, Layout, IsLaidOut
  <2>4. memory[o].low = InstanceFormat(objects[o].base, objects[o].logical)
    BY <1>15, HeaderParts DEF Layout, IsLaidOut
  <2>5. memory'[size] = HeaderWord(new.slots, InstanceFormat(new.base, new.logical))
    BY <1>12, <1>13, <2>4
  <2>6. \A a \in 0 .. size - 1 : memory'[a] = memory[a]
    BY <1>11, <2>1
  <2>7. HasRoom(ObjectWords(new.slots)) /\ Allocate(ObjectWords(new.slots))
    BY <1>3, <1>13 DEF n
  <2>8. Whole
    BY <1>15 DEF Whole
  <2>9. Whole'
    BY <1>1, <1>3, <1>5, <1>6, <1>10, <1>13, <2>3, <2>5, <2>6, <2>7, <2>8, Added
  <2> QED BY <2>9 DEF Whole
<1>16. \A a \in 0 .. size - 1 :
         memory'[a] # memory[a] => a = size - 1 /\ BeginsWithoutExtension(a + 1)'
  <2> SUFFICES ASSUME NEW a \in 0 .. size - 1, memory'[a] # memory[a]
               PROVE  a = size - 1 /\ BeginsWithoutExtension(a + 1)'
    OBVIOUS
  <2>1. a = size - 1 /\ slots >= Big
    BY <1>11
  <2>2. a + 1 = size
    BY <1>1, <2>1
  <2>3. size \in DOMAIN objects' /\ objects'[size] = new
    BY <1>5 DEF Register
  <2> QED BY <1>13, <2>1, <2>2, <2>3 DEF BeginsWithoutExtension
<1> QED BY <1>14, <1>15, <1>16

(* A store changes a slot of one object, which is no header's word.          *)
LEMMA StoreKeeps ==
  ASSUME Whole, NEW o \in DOMAIN objects, NEW slot \in 1 .. SlotCount(o), NEW word \in Stored,
         Store(o, slot, word)
  PROVE  Whole'
<1> USE DEF Whole
<1>0. slot \in 1 .. objects[o].slots
  BY ObjectFacts
<1>1. /\ o \in Nat /\ LastWord(o) < size /\ size \in Nat /\ slot \in Nat /\ slot >= 1
      /\ o + slot <= LastWord(o) /\ objects[o].start <= o /\ objects[o].start \in Nat
      /\ LastWord(o) \in Nat
  BY <1>0, HeapAssumption, ObjectFacts DEF TypeOK, LastWord, AtLeastOne, Owns
<1>2. /\ memory' = [memory EXCEPT ![o + slot] = word]
      /\ UNCHANGED <<size, committed, objects, largeCopied, end, header, atEnd, visited, status>>
  BY DEF Store, history, iterator
<1>3. \A h \in DOMAIN objects : o + slot # h /\ (objects[h].slots >= Big => o + slot # h - 1)
  <2> SUFFICES ASSUME NEW h \in DOMAIN objects
               PROVE  o + slot # h /\ (objects[h].slots >= Big => o + slot # h - 1)
    OBVIOUS
  <2>1. Owns(o, o + slot)
    BY <1>1 DEF Owns
  <2>2. CASE h = o
    BY <1>1, <2>2
  <2>3. CASE h # o
    <3>1. ~Owns(h, o + slot)
      BY <1>1, <2>1, <2>3, OneOwner
    <3> QED BY <3>1, ObjectFacts
  <2> QED BY <2>2, <2>3
<1>4. TypeOK'
  BY <1>2, HeapAssumption DEF TypeOK
<1>5. Layout'
  <2>1. \A h : LastWord(h)' = LastWord(h)
    BY <1>2 DEF LastWord
  <2>2. ASSUME NEW h \in DOMAIN objects PROVE IsLaidOut(h)'
    <3>1. IsLaidOut(h)
      BY DEF Layout
    <3>2. memory'[h] = memory[h] /\ (objects[h].slots >= Big => memory'[h - 1] = memory[h - 1])
      BY <1>2, <1>3 DEF TypeOK
    <3> QED BY <1>2, <2>1, <3>1, <3>2 DEF IsLaidOut
  <2>3. Covered' /\ Apart'
    BY <1>2, <2>1 DEF Layout, Covered, Apart, Owns
  <2> QED BY <1>2, <2>2, <2>3 DEF Layout
<1>6. Walk'
  BY <1>2 DEF Walk
<1> QED BY <1>4, <1>5, <1>6

(* An advance goes from one object to the next, or ends behind the last.     *)
LEMMA IteratorAdvanceKeeps ==
  ASSUME Whole, IteratorAdvance
  PROVE  /\ Whole'
         /\ atEnd' => visited = DOMAIN objects
<1> USE DEF Whole
<1>1. size \in Nat /\ end \in Nat /\ end <= size /\ ~atEnd
  BY HeapAssumption DEF TypeOK, Walk, IteratorAdvance
<1>2. UNCHANGED <<memory, size, committed, objects, largeCopied, status>>
  BY DEF IteratorAdvance, history
<1>3. Layout'
  <2>1. \A h : LastWord(h)' = LastWord(h)
    BY <1>2 DEF LastWord
  <2>2. \A h : IsLaidOut(h)' = IsLaidOut(h)
    BY <1>2, <2>1 DEF IsLaidOut
  <2> QED BY <1>2, <2>1, <2>2 DEF Layout, Covered, Apart, Owns
<1>4. CASE end + 1 >= size
  <2>1. atEnd' = TRUE /\ UNCHANGED <<end, header, visited>>
    BY <1>4 DEF IteratorAdvance
  <2>2. end = size
    <3> SUFFICES ASSUME end < size PROVE FALSE
      BY <1>1
    <3>1. PICK g \in DOMAIN objects : objects[g].start = end
      BY DEF Walk
    <3>2. g \in Nat /\ LastWord(g) \in Nat /\ LastWord(g) < size /\ g < LastWord(g) /\ end <= g
      BY <3>1, ObjectFacts DEF Owns
    <3> QED BY <1>1, <1>4, <3>2
  <2>3. \A h \in DOMAIN objects : h < end
    <3> SUFFICES ASSUME NEW h \in DOMAIN objects PROVE h < end
      OBVIOUS
    <3>1. h \in Nat /\ LastWord(h) \in Nat /\ LastWord(h) < size /\ h < LastWord(h)
      BY ObjectFacts
    <3> QED BY <1>1, <2>2, <3>1
  <2>4. visited = DOMAIN objects
    BY <1>1, <2>3 DEF Walk
  <2>5. TypeOK' /\ Walk'
    BY <1>2, <2>1 DEF TypeOK, Walk
  <2> QED BY <1>3, <2>4, <2>5
<1>5. CASE ~(end + 1 >= size)
  <2>1. PICK g \in DOMAIN objects : objects[g].start = end
    BY <1>1, <1>5 DEF Walk
  <2>2. g = IF memory[end].raw = Big THEN end + 1 ELSE end
    BY <2>1, StartTells
  <2>3. /\ header' = g /\ end' = g + 1 + AtLeastOne(SlotCount(g))
        /\ visited' = visited \cup {g} /\ UNCHANGED atEnd
    <3>1. header' = g
      BY <1>5, <2>2 DEF IteratorAdvance
    <3>2. /\ end' = header' + 1 + AtLeastOne(SlotCount(header'))
          /\ visited' = visited \cup {header'} /\ UNCHANGED atEnd
      BY <1>5 DEF IteratorAdvance
    <3> QED BY <3>1, <3>2
  <2>4. /\ g \in Nat /\ LastWord(g) \in Nat /\ LastWord(g) < size /\ g < LastWord(g) /\ end <= g
        /\ LastWord(g) = g + AtLeastOne(SlotCount(g)) /\ AtLeastOne(SlotCount(g)) \in Int
    BY <2>1, ObjectFacts DEF Owns, LastWord, AtLeastOne
  <2>5. end' = LastWord(g) + 1
    BY <2>3, <2>4
  <2>6. end' < size => \E h \in DOMAIN objects : objects[h].start = end'
    <3>1. LastWord(g) + 1 \in Nat
      BY <2>4
    <3> QED BY <2>5, <3>1, NextObject
  <2>7. {h \in DOMAIN objects : h < end'} = {h \in DOMAIN objects : h < end} \cup {g}
    <3>1. ASSUME NEW h \in DOMAIN objects, end <= h, h < end'
          PROVE  h = g
      <4>1. h \in Nat /\ Owns(h, h) /\ Owns(g, h)
        BY <2>1, <2>4, <2>5, <3>1, ObjectFacts DEF Owns
      <4> QED BY <4>1, OneOwner
    <3>2. \A h \in DOMAIN objects : h \in Nat
      BY ObjectFacts
    <3>3. g < end' /\ \A h \in Nat : h < end => h < end'
      BY <1>1, <2>4, <2>5
    <3> QED BY <1>1, <2>4, <3>1, <3>2, <3>3
  <2>8. Walk'
    BY <1>1, <1>2, <2>3, <2>4, <2>5, <2>6, <2>7 DEF Walk
  <2>9. TypeOK'
    BY <1>2, <2>3, <2>4, <2>5 DEF TypeOK
  <2> QED BY <1>1, <1>3, <2>3, <2>8, <2>9
<1> QED BY <1>4, <1>5

(* A walk begins at the first object, and has been at none.                  *)
LEMMA IteratorCreateKeeps ==
  ASSUME Whole, IteratorCreate
  PROVE  Whole' /\ ~atEnd'
<1> USE DEF Whole
<1>1. /\ end' = 0 /\ header' = None /\ atEnd' = FALSE /\ visited' = {}
      /\ UNCHANGED <<memory, size, committed, objects, largeCopied, status>>
  BY DEF IteratorCreate, history
<1>2. size \in Nat
  BY HeapAssumption DEF TypeOK
<1>3. TypeOK'
  BY <1>1 DEF TypeOK
<1>4. Layout'
  <2>1. \A h : LastWord(h)' = LastWord(h)
    BY <1>1 DEF LastWord
  <2>2. \A h : IsLaidOut(h)' = IsLaidOut(h)
    BY <1>1, <2>1 DEF IsLaidOut
  <2> QED BY <1>1, <2>1, <2>2 DEF Layout, Covered, Apart, Owns
<1>5. Walk'
  <2>1. 0 < size => \E h \in DOMAIN objects : objects[h].start = 0
    BY NextObject
  <2>2. \A h \in DOMAIN objects : ~(h < 0)
    BY ObjectFacts
  <2> QED BY <1>1, <1>2, <2>1, <2>2 DEF Walk
<1> QED BY <1>1, <1>3, <1>4, <1>5

LEMMA StutterKeeps ==
  ASSUME Whole, UNCHANGED <<memory, size, committed, history, iterator>>, status' \in {"running", "aborted"}
  PROVE  Whole'
<1> USE DEF Whole
<1>1. TypeOK'
  BY DEF TypeOK, iterator, history
<1>2. Layout'
  <2>1. \A h : LastWord(h)' = LastWord(h)
    BY DEF LastWord, history
  <2>2. \A h : IsLaidOut(h)' = IsLaidOut(h)
    BY <2>1 DEF IsLaidOut, history
  <2> QED BY <2>1, <2>2 DEF Layout, Covered, Apart, Owns, history
<1>3. Walk'
  BY DEF Walk, iterator, history
<1> QED BY <1>1, <1>2, <1>3

(* The steps that make no object keep what holds whatever has been copied.   *)
LEMMA StoreInside ==
  ASSUME TypeOK, Sane, NEW o \in DOMAIN objects, NEW slot \in 1 .. SlotCount(o), NEW word \in Stored,
         Store(o, slot, word)
  PROVE  TypeOK' /\ Sane'
<1>1. /\ o + slot \in Address /\ memory' = [memory EXCEPT ![o + slot] = word]
      /\ UNCHANGED <<size, committed, objects, largeCopied, end, header, atEnd, visited, status>>
  BY DEF Store, history, iterator
<1>2. TypeOK'
  BY <1>1, HeapAssumption DEF TypeOK
<1>3. o + slot # 0
  BY CountTold
<1>4. 0 \in Address
  BY HeapAssumption DEF Address
<1>5. memory'[0] = memory[0]
  BY <1>1, <1>3, <1>4 DEF TypeOK
<1> QED BY <1>1, <1>2, <1>5 DEF Sane, LastWord

LEMMA IteratorInside ==
  ASSUME TypeOK, Sane, IteratorCreate \/ IteratorAdvance
  PROVE  TypeOK' /\ Sane'
<1>1. UNCHANGED <<memory, size, committed, objects, largeCopied, status>>
  BY DEF IteratorCreate, IteratorAdvance, history
<1>2. Sane'
  BY <1>1 DEF Sane, LastWord
<1>3. CASE IteratorCreate
  BY <1>1, <1>2, <1>3 DEF IteratorCreate, TypeOK
<1>4. CASE IteratorAdvance
  <2>1. CASE end + 1 >= size
    BY <1>1, <1>2, <1>4, <2>1 DEF IteratorAdvance, TypeOK
  <2>2. CASE ~(end + 1 >= size)
    <3>1. /\ header' = IF memory[end].raw = Big THEN end + 1 ELSE end
          /\ end' = header' + 1 + AtLeastOne(SlotCount(header'))
          /\ visited' = visited \cup {header'} /\ UNCHANGED atEnd
      BY <1>4, <2>2 DEF IteratorAdvance
    <3>2. /\ end \in Nat /\ end \in Address /\ end + 1 \in Address
          /\ \A a \in Address : memory[a] \in Word
      BY <2>2, HeapAssumption DEF TypeOK, Address
    <3>3. header' \in Address /\ header' \in Nat
      BY <3>1, <3>2, HeapAssumption DEF Address
    <3>4. SlotCount(header') \in Nat
      <4>1. CASE memory[header'].raw = Big
        <5>1. header' # 0
          <6>1. memory[end].raw = Big => header' = end + 1
            BY <3>1
          <6>2. memory[end].raw # Big => header' = end
            BY <3>1
          <6> QED BY <3>2, <4>1, <6>1, <6>2
        <5>2. header' - 1 \in Address
          <6>1. \A a \in Address : a # 0 => a - 1 \in Address
            BY HeapAssumption DEF Address
          <6> QED BY <3>3, <5>1, <6>1
        <5> QED BY <3>2, <4>1, <5>2 DEF SlotCount, Word
      <4>2. CASE memory[header'].raw # Big
        BY <3>2, <3>3, <4>2, HeapAssumption DEF SlotCount, Word
      <4> QED BY <4>1, <4>2
    <3>5. end' \in Nat
      BY <3>1, <3>3, <3>4 DEF AtLeastOne
    <3> QED BY <1>1, <1>2, <3>1, <3>3, <3>5 DEF TypeOK
  <2> QED BY <2>1, <2>2
<1> QED BY <1>3, <1>4

LEMMA StutterInside ==
  ASSUME TypeOK, Sane, UNCHANGED <<memory, size, committed, history, iterator>>,
         status' \in {"running", "aborted"}
  PROVE  TypeOK' /\ Sane'
BY DEF TypeOK, Sane, LastWord, iterator, history

LEMMA InitEstablishes == Init => Inv
<1> SUFFICES ASSUME Init PROVE Inv
  OBVIOUS
<1>1. TypeOK
  <2>1. ZeroWord \in Word
    BY HeapAssumption DEF ZeroWord, Word
  <2>2. largeCopied \in BOOLEAN /\ atEnd \in BOOLEAN
    BY DEF Init
  <2>3. memory \in [Address -> Word] /\ DOMAIN objects = {}
    BY <2>1 DEF Init
  <2> QED BY <2>2, <2>3, HeapAssumption DEF Init, TypeOK
<1>2. Layout
  BY DEF Init, Layout, Covered, Apart
<1>3. Walk
  BY DEF Init, Walk
<1>4. Sane
  BY DEF Init, Sane
<1> QED BY <1>1, <1>2, <1>3, <1>4 DEF Inv

LEMMA NextKeeps ==
  ASSUME Inv, [Next]_vars
  PROVE  Inv'
<1>1. TypeOK /\ Sane
  BY DEF Inv
<1>2. ASSUME NEW r \in Requests, NewObject(r[1], r[2]) PROVE Inv'
  <2>1. r[1] \in BaseFormats /\ r[2] \in Nat
    BY HeapAssumption
  <2>2. UNCHANGED largeCopied
    BY <1>2 DEF NewObject
  <2>3. TypeOK' /\ Sane' /\ (Layout /\ Walk => Layout' /\ Walk')
    BY <1>1, <1>2, <2>1, NewObjectKeeps
  <2> QED BY <2>2, <2>3 DEF Inv
<1>3. ASSUME NEW o \in DOMAIN objects, ShallowCopy(o) PROVE Inv'
  <2>1. largeCopied => largeCopied'
    BY <1>3 DEF ShallowCopy
  <2>2. TypeOK' /\ Sane' /\ (~largeCopied' /\ Layout /\ Walk => Layout' /\ Walk')
    BY <1>1, <1>3, ShallowCopyKeeps
  <2> QED BY <2>1, <2>2 DEF Inv
<1>4. ASSUME NEW o \in DOMAIN objects, NEW word \in Stored,
             NEW slot \in 1 .. SlotCount(o), Store(o, slot, word)
      PROVE  Inv'
  <2>1. UNCHANGED largeCopied
    BY <1>4 DEF Store, history
  <2>2. TypeOK' /\ Sane'
    BY <1>1, <1>4, StoreInside
  <2>3. ASSUME Layout, Walk PROVE Layout' /\ Walk'
    BY <1>1, <1>4, <2>3, StoreKeeps DEF Whole
  <2> QED BY <2>1, <2>2, <2>3 DEF Inv
<1>5. CASE IteratorCreate \/ IteratorAdvance
  <2>1. UNCHANGED largeCopied
    BY <1>5 DEF IteratorCreate, IteratorAdvance, history
  <2>2. TypeOK' /\ Sane'
    BY <1>1, <1>5, IteratorInside
  <2>3. ASSUME Layout, Walk PROVE Layout' /\ Walk'
    BY <1>1, <1>5, <2>3, IteratorCreateKeeps, IteratorAdvanceKeeps DEF Whole
  <2> QED BY <2>1, <2>2, <2>3 DEF Inv
<1>6. CASE Exhausted \/ UNCHANGED vars
  <2>1. /\ UNCHANGED <<memory, size, committed, history, iterator>>
        /\ status' \in {"running", "aborted"} /\ UNCHANGED largeCopied
    <3>1. CASE Exhausted
      BY <3>1 DEF Exhausted, OutOfMemory, history
    <3>2. CASE UNCHANGED vars
      BY <1>1, <3>2 DEF vars, TypeOK, history
    <3> QED BY <1>6, <3>1, <3>2
  <2>2. TypeOK' /\ Sane'
    BY <1>1, <2>1, StutterInside
  <2>3. ASSUME Layout, Walk PROVE Layout' /\ Walk'
    BY <1>1, <2>1, <2>3, StutterKeeps DEF Whole
  <2> QED BY <2>1, <2>2, <2>3 DEF Inv
<1> QED BY <1>2, <1>3, <1>4, <1>5, <1>6 DEF Next

LEMMA Invariance == Spec => []Inv
<1>1. Init => Inv
  BY InitEstablishes
<1>2. Inv /\ [Next]_vars => Inv'
  BY NextKeeps
<1> QED BY <1>1, <1>2, PTL DEF Spec

-----------------------------------------------------------------------------
(* The theorems *)

(* Memory stays an array of words, and every recorded header inside it,      *)
(* copies of large objects and what they do to others included.              *)
THEOREM TypeCorrect == Spec => []TypeOK
<1>1. Inv => TypeOK
  BY DEF Inv
<1> QED BY <1>1, Invariance, PTL

(* crankvm_heap_segment_allocate and what is built on it: the words in use   *)
(* are those of the objects, each word of one object, all of them in pages   *)
(* that were made accessible, until a large object is copied.                *)
THEOREM ObjectsTiled == Spec => []ObjectsTile
<1>1. Inv => ObjectsTile
  BY LayoutTiles DEF Inv, ObjectsTile
<1> QED BY <1>1, Invariance, PTL

(* crankvm_object_header_getSlotCount and _getSmalltalkSize: a header gives  *)
(* back the slots, the size and the format the object was made with, until a *)
(* large object is copied.                                                   *)
THEOREM HeadersAreDecoded == Spec => []HeadersDecode
<1>1. Inv => HeadersDecode
  BY LayoutDecodes DEF Inv, HeadersDecode
<1> QED BY <1>1, Invariance, PTL

(* crankvm_heap_iterator_advance is never inside of an object: no word a     *)
(* program has stored is taken for a header, until a large object is copied. *)
THEOREM WalkOnObjects == Spec => []WalkIsOnObjects
<1>1. Inv => WalkIsOnObjects
  BY DEF Inv, Walk, WalkIsOnObjects
<1> QED BY <1>1, Invariance, PTL

(* crankvm_heap_objectPointerAfter answers the object that follows, until a  *)
(* large object is copied.                                                   *)
THEOREM SuccessorsAreNext == Spec => []AfterIsNext
<1>1. Inv => AfterIsNext
  BY LayoutSucceeds DEF Inv, AfterIsNext
<1> QED BY <1>1, Invariance, PTL

(* A walk that has ended has been at every object, if no large object has    *)
(* been copied.                                                              *)
THEOREM WalkCompletes == Spec => WalkIsComplete
<1>1. Inv /\ [Next]_vars =>
        [~largeCopied /\ ~atEnd /\ atEnd' => visited = DOMAIN objects]_vars
  <2> SUFFICES ASSUME Inv, [Next]_vars, ~largeCopied, ~atEnd, atEnd'
               PROVE  visited = DOMAIN objects
    OBVIOUS
  <2>1. ASSUME UNCHANGED atEnd PROVE FALSE
    BY <2>1
  <2>2. Whole
    BY DEF Inv, Whole
  <2>3. IteratorAdvance
    <3>1. ASSUME NEW r \in Requests, NewObject(r[1], r[2]) PROVE UNCHANGED atEnd
      BY <3>1 DEF NewObject, iterator
    <3>2. ASSUME NEW o \in DOMAIN objects, ShallowCopy(o) PROVE UNCHANGED atEnd
      BY <3>2 DEF ShallowCopy, iterator
    <3>3. CASE Exhausted
      BY <2>1, <3>3 DEF Exhausted, OutOfMemory, iterator
    <3>4. ASSUME NEW o \in DOMAIN objects, NEW word \in Stored,
                 NEW slot \in 1 .. SlotCount(o), Store(o, slot, word)
          PROVE  UNCHANGED atEnd
      BY <3>4 DEF Store, iterator
    <3>5. CASE IteratorCreate
      BY <2>2, <3>5, IteratorCreateKeeps
    <3>6. CASE UNCHANGED vars
      BY <2>1, <3>6 DEF vars, iterator
    <3> QED BY <2>1, <3>1, <3>2, <3>3, <3>4, <3>5, <3>6 DEF Next
  <2> QED BY <2>2, <2>3, IteratorAdvanceKeeps
<1> QED BY <1>1, Invariance, PTL DEF Spec, WalkIsComplete

(* Making and copying objects changes no word of the objects there are, but  *)
(* that a copy which begins with the header of a large object has changed    *)
(* the last word before it; and until there is one, a program's store        *)
(* changes none but a slot of the object it names.                           *)
THEOREM ObjectsAreKept == Spec => ObjectsKept
<1>1. Inv /\ [Next]_vars =>
        [\A h \in DOMAIN objects : \A a \in objects[h].start .. LastWord(h) :
           memory'[a] # memory[a] =>
             \/ a = size - 1 /\ BeginsWithoutExtension(a + 1)'
             \/ /\ UNCHANGED <<size, objects>>
                /\ ~largeCopied => a \in h + 1 .. h + objects[h].slots]_vars
  <2> SUFFICES ASSUME Inv, [Next]_vars,
                      NEW h \in DOMAIN objects, NEW a \in objects[h].start .. LastWord(h),
                      memory'[a] # memory[a]
               PROVE  \/ a = size - 1 /\ BeginsWithoutExtension(a + 1)'
                      \/ /\ UNCHANGED <<size, objects>>
                         /\ ~largeCopied => a \in h + 1 .. h + objects[h].slots
    OBVIOUS
  <2>1. /\ TypeOK /\ Sane
        /\ size \in Nat /\ objects[h].start \in Nat /\ objects[h].slots \in Nat /\ h \in Nat
        /\ LastWord(h) \in Nat /\ LastWord(h) < size
    <3>1. TypeOK /\ Sane
      BY DEF Inv
    <3>2. size \in Nat /\ objects[h] \in Object
      BY <3>1, HeapAssumption DEF TypeOK, Object
    <3>3. objects[h].start \in Nat /\ objects[h].slots \in Nat
      BY <3>2 DEF Object, Address
    <3> QED BY <3>1, <3>2, <3>3, CountTold
  <2>2. ASSUME UNCHANGED memory PROVE FALSE
    BY <2>2
  <2>3. a \in 0 .. size - 1
    BY <2>1
  <2>4. CASE \E o \in DOMAIN objects, word \in Stored :
               \E slot \in 1 .. SlotCount(o) : Store(o, slot, word)
    <3>0. PICK o \in DOMAIN objects, word \in Stored :
                 \E slot \in 1 .. SlotCount(o) : Store(o, slot, word)
      BY <2>4
    <3>1. PICK slot \in 1 .. SlotCount(o) : Store(o, slot, word)
      BY <3>0
    <3>2. o + slot = a /\ UNCHANGED <<size, objects>>
      BY <2>1, <3>1 DEF Store, TypeOK, history
    <3>3. ASSUME ~largeCopied PROVE a \in h + 1 .. h + objects[h].slots
      <4>1. Layout
        BY <3>3 DEF Inv
      <4>2. /\ SlotCount(o) = objects[o].slots /\ o \in Nat /\ objects[o].slots \in Nat
            /\ objects[o].start \in Nat /\ objects[o].start <= o /\ LastWord(o) \in Nat
        BY <2>1, <4>1, ObjectFacts DEF Owns
      <4>3. Owns(o, a) /\ a \in Int
        BY <3>2, <4>2 DEF Owns, LastWord, AtLeastOne
      <4>4. Owns(h, a)
        BY <2>1, <4>1, <4>3, ObjectFacts DEF Owns
      <4>5. o = h
        BY <2>1, <4>1, <4>3, <4>4, OneOwner
      <4> QED BY <3>2, <4>2, <4>5
    <3> QED BY <3>2, <3>3
  <2>5. ASSUME NEW r \in Requests, NewObject(r[1], r[2]) PROVE FALSE
    <3>1. r[1] \in BaseFormats /\ r[2] \in Nat
      BY HeapAssumption
    <3> QED BY <2>1, <2>3, <2>5, <3>1, NewObjectKeeps
  <2>6. ASSUME NEW o \in DOMAIN objects, ShallowCopy(o)
        PROVE  a = size - 1 /\ BeginsWithoutExtension(a + 1)'
    BY <2>1, <2>3, <2>6, ShallowCopyKeeps
  <2>7. CASE Exhausted
    BY <2>2, <2>7 DEF Exhausted, OutOfMemory
  <2>8. CASE IteratorCreate \/ IteratorAdvance
    BY <2>2, <2>8 DEF IteratorCreate, IteratorAdvance
  <2>9. CASE UNCHANGED vars
    BY <2>2, <2>9 DEF vars
  <2> QED BY <2>4, <2>5, <2>6, <2>7, <2>8, <2>9 DEF Next
<1> QED BY <1>1, Invariance, PTL DEF Spec, ObjectsKept
=============================================================================
