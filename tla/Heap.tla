-------------------------------- MODULE Heap --------------------------------
(***************************************************************************)
(* The object heap (src/vm/heap.c, with the header accessors of            *)
(* src/include/crank-vm/objectmodel.h): allocation, the layout of objects  *)
(* in memory, copying, and the iterator that walks them.                   *)
(*                                                                         *)
(* Nothing but the words of memory says where an object begins: the walk   *)
(* goes from header to header by the slot counts it decodes.  A count that *)
(* does not fit the header's slot byte is kept in a word of its own in     *)
(* front of the header, recognised by a slot byte of 255.                  *)
(*                                                                         *)
(* Abstracted: memory is an array of 64-bit words, a word its slot byte    *)
(* (raw) and the rest of it (low); of a header the rest is its format.     *)
(***************************************************************************)
EXTENDS Integers

CONSTANTS
  Capacity,  \* words of address space reserved: addressSpaceCapacity
  PageWords, \* words of a page: 4096 bytes
  Big,       \* 255: the slot byte of a count kept outside the header
  Requests,  \* bound: the <<format, logicalSize>> objects are asked for
  Stored     \* bound: the words programs store in slots

(* The formats a class can give its instances. *)
PointerFormats == {0, 1, 2, 3, 4, 5, 7}
BaseFormats    == PointerFormats \cup {9, 10, 12, 16, 24}

Word == [raw: 0 .. Big, low: Nat]

ASSUME HeapAssumption ==
  /\ Capacity \in Nat \ {0} /\ PageWords \in Nat \ {0} /\ Big \in Nat /\ Big > 1
  /\ Requests \subseteq BaseFormats \X Nat
  /\ Stored \subseteq Word

Address  == 0 .. Capacity - 1
ZeroWord == [raw |-> 0, low |-> 0]
NilWord  == [raw |-> 0, low |-> 1]  \* a pointer's high byte is zero

VARIABLES
  memory,    \* the words of the segment
  size,      \* segment: words in use
  committed, \* segment: allocatedCapacity, the words that can be accessed
  objects,   \* history: for each header's address, what was asked for
  largeCopied, \* history: an object with an extension word has been copied
  end,       \* iterator: currentObjectEnd
  header,    \* iterator: currentHeader
  atEnd,     \* iterator
  visited,   \* history: the headers the iterator has been at
  status     \* "running" or "aborted"

iterator == <<end, header, atEnd, visited>>
history  == <<objects, largeCopied>>
vars     == <<memory, size, committed, history, iterator, status>>

None == -1

TypeOK ==
  /\ memory \in [Address -> Word]
  /\ size \in 0 .. Capacity
  /\ committed \in Nat
  /\ DOMAIN objects \subseteq Address
  /\ \A h \in DOMAIN objects :
       objects[h] \in [base: BaseFormats, logical: Nat, start: Address, slots: Nat]
  /\ largeCopied \in BOOLEAN
  /\ end \in Nat /\ header \in Address \cup {None}
  /\ atEnd \in BOOLEAN /\ visited \subseteq Address
  /\ status \in {"running", "aborted"}

-----------------------------------------------------------------------------
(* Sizes and formats *)

(* How many elements of an object of this format a slot holds. *)
PerSlot(format) ==
  CASE format < 10 -> 1
    [] format \in 10 .. 11 -> 2
    [] format \in 12 .. 15 -> 4
    [] OTHER -> 8

(* Mutant of SlotsFor: no slot for a last, partly filled one. *)
SlotsRoundedDown(format, n) == n \div PerSlot(format)

SlotsFor(format, n) == (n + PerSlot(format) - 1) \div PerSlot(format)

(* The unused elements of the last slot are counted in the format. *)
InstanceFormat(format, n) == format + SlotsFor(format, n) * PerSlot(format) - n

(* The first format of the kind of object. *)
FirstFormat(format) ==
  CASE format < 10 -> format
    [] format \in 10 .. 11 -> 10
    [] format \in 12 .. 15 -> 12
    [] format \in 16 .. 23 -> 16
    [] OTHER -> 24

(* crankvm_object_header_getSmalltalkSize. *)
SmalltalkSize(format, slots) == slots * PerSlot(format) - (format - FirstFormat(format))

AtLeastOne(slots)  == IF slots = 0 THEN 1 ELSE slots
HeaderWords(slots) == IF slots >= Big THEN 2 ELSE 1
ObjectWords(slots) == HeaderWords(slots) + AtLeastOne(slots)

(* crankvm_object_header_getSlotCount of the header at h. *)
SlotCount(h) == IF memory[h].raw = Big THEN memory[h - 1].low ELSE memory[h].raw

HeaderWord(slots, format) == [raw |-> IF slots >= Big THEN Big ELSE slots, low |-> format]
OverflowWord(slots)       == [raw |-> Big, low |-> slots]

-----------------------------------------------------------------------------
(* Allocation *)

RoundUp(n) == ((n + PageWords - 1) \div PageWords) * PageWords

(* Mutant of HasRoom: the test is made before the size is added. *)
HasRoomBefore(n) == size < Capacity

(* crankvm_heap_segment_allocate of n words finds room. *)
HasRoom(n) == size + n <= Capacity

(* The words are at the old end of the segment, made accessible page-wise. *)
Allocate(n) ==
  /\ size' = size + n
  /\ committed' = IF size + n > committed THEN RoundUp(size + n) ELSE committed

(* crankvm_heap_allocate: a second segment is not implemented; mprotect may  *)
(* fail as well.                                                             *)
OutOfMemory(n) ==
  /\ ~HasRoom(n) \/ size + n > committed
  /\ status' = "aborted"
  /\ UNCHANGED <<memory, size, committed, history, iterator>>

Register(h, object) ==
  objects' = [x \in DOMAIN objects \cup {h} |-> IF x = h THEN object ELSE objects[x]]

(* Mutant of NewObject: the address returned is the overflow word's. *)
NewObjectAtStart(format, n) ==
  LET slots == SlotsFor(format, n)
      h     == size
      body  == h + 1 .. h + AtLeastOne(slots)
  IN  /\ status = "running"
      /\ HasRoom(ObjectWords(slots))
      /\ Allocate(ObjectWords(slots))
      /\ memory' = [a \in Address |->
           CASE a = h -> HeaderWord(slots, InstanceFormat(format, n))
             [] a = h - 1 /\ slots >= Big -> OverflowWord(slots)
             [] a \in body -> IF format < 9 /\ slots > 0 THEN NilWord ELSE ZeroWord
             [] OTHER -> memory[a]]
      /\ Register(h, [base |-> format, logical |-> n, start |-> size, slots |-> slots])
      /\ UNCHANGED <<largeCopied, iterator, status>>

(* crankvm_heap_newObjectWithLogicalSize. *)
NewObject(format, n) ==
  LET slots == SlotsFor(format, n)
      h     == size + HeaderWords(slots) - 1
      body  == h + 1 .. h + AtLeastOne(slots)
  IN  /\ status = "running"
      /\ HasRoom(ObjectWords(slots))
      /\ Allocate(ObjectWords(slots))
      /\ memory' = [a \in Address |->
           CASE a = h -> HeaderWord(slots, InstanceFormat(format, n))
             [] a = h - 1 /\ slots >= Big -> OverflowWord(slots)
             [] a \in body -> IF format < 9 /\ slots > 0 THEN NilWord ELSE ZeroWord
             [] OTHER -> memory[a]]
      /\ Register(h, [base |-> format, logical |-> n, start |-> size, slots |-> slots])
      /\ UNCHANGED <<largeCopied, iterator, status>>

(* Mutant of ShallowCopy: the count of the largest object whose count fits   *)
(* the slot byte is written to the word before as well.                      *)
ShallowCopyExtendsEarly(o) ==
  LET slots == SlotCount(o)
      h     == size
  IN  /\ status = "running" /\ o \in DOMAIN objects
      /\ HasRoom(ObjectWords(slots))
      /\ Allocate(ObjectWords(slots))
      /\ memory' = [a \in Address |->
           CASE a = h -> HeaderWord(slots, memory[o].low)
             [] a = h - 1 /\ slots >= Big - 1 -> OverflowWord(slots)
             [] a \in h + 1 .. h + ObjectWords(slots) - 1 -> memory[o + a - h]
             [] OTHER -> memory[a]]
      /\ Register(h, [objects[o] EXCEPT !.start = h, !.slots = slots])
      /\ largeCopied' = (largeCopied \/ slots >= Big)
      /\ UNCHANGED <<iterator, status>>

(* crankvm_heap_shallowCopy: the words from the header on are copied to the  *)
(* start of the new object, its header built there; the count of a large one *)
(* is written to the word before, which is the last of another object.  The  *)
(* words of the last object, if large, overlap the new ones: memcpy may read *)
(* a word before or after (again) it was written.                            *)
ShallowCopy(o) ==
  LET slots == SlotCount(o)
      h     == size
  IN  /\ status = "running" /\ o \in DOMAIN objects
      /\ HasRoom(ObjectWords(slots))
      /\ Allocate(ObjectWords(slots))
      /\ \E again \in BOOLEAN :
           memory' = [a \in Address |->
             CASE a = h -> HeaderWord(slots, memory[o].low)
               [] a = h - 1 /\ slots >= Big -> OverflowWord(slots)
               [] a \in h + 1 .. h + ObjectWords(slots) - 1 ->
                    memory[o + (IF again THEN (a - h) % (h - o) ELSE a - h)]
               [] OTHER -> memory[a]]
      /\ Register(h, [objects[o] EXCEPT !.start = h, !.slots = slots])
      /\ largeCopied' = (largeCopied \/ slots >= Big)
      /\ UNCHANGED <<iterator, status>>

Exhausted ==
  /\ status = "running"
  /\ \/ \E r \in Requests : OutOfMemory(ObjectWords(SlotsFor(r[1], r[2])))
     \/ \E o \in DOMAIN objects : OutOfMemory(ObjectWords(SlotCount(o)))

(* External: a program's store into what its object's header says is a slot. *)
(* Beyond the pages that can be accessed the store is a fault.               *)
Store(o, slot, word) ==
  /\ status = "running" /\ o \in DOMAIN objects /\ slot \in 1 .. SlotCount(o)
  /\ o + slot \in Address /\ o + slot < committed
  /\ memory' = [memory EXCEPT ![o + slot] = word]
  /\ UNCHANGED <<size, committed, history, iterator, status>>

-----------------------------------------------------------------------------
(* The iterator *)

(* Mutant of IteratorAdvance: overflow words are not skipped. *)
IteratorAdvanceNoSkip ==
  /\ status = "running" /\ ~atEnd
  /\ IF end + 1 >= size
     THEN atEnd' = TRUE /\ UNCHANGED <<end, header, visited>>
     ELSE /\ header' = end
          /\ end' = header' + 1 + AtLeastOne(memory[header'].raw)
          /\ visited' = visited \cup {header'}
          /\ UNCHANGED atEnd
  /\ UNCHANGED <<memory, size, committed, history, status>>

(* Mutant of IteratorAdvance: the walk stops an object early. *)
IteratorAdvanceShort ==
  /\ status = "running" /\ ~atEnd
  /\ IF end + 2 >= size
     THEN atEnd' = TRUE /\ UNCHANGED <<end, header, visited>>
     ELSE /\ header' = IF memory[end].raw = Big THEN end + 1 ELSE end
          /\ end' = header' + 1 + AtLeastOne(SlotCount(header'))
          /\ visited' = visited \cup {header'}
          /\ UNCHANGED atEnd
  /\ UNCHANGED <<memory, size, committed, history, status>>

(* crankvm_heap_iterator_advance. *)
IteratorAdvance ==
  /\ status = "running" /\ ~atEnd
  /\ IF end + 1 >= size
     THEN atEnd' = TRUE /\ UNCHANGED <<end, header, visited>>
     ELSE /\ header' = IF memory[end].raw = Big THEN end + 1 ELSE end
          /\ end' = header' + 1 + AtLeastOne(SlotCount(header'))
          /\ visited' = visited \cup {header'}
          /\ UNCHANGED atEnd
  /\ UNCHANGED <<memory, size, committed, history, status>>

(* crankvm_heap_iterator_create, up to its first advance. *)
IteratorCreate ==
  /\ status = "running" /\ atEnd
  /\ end' = 0 /\ header' = None /\ atEnd' = FALSE /\ visited' = {}
  /\ UNCHANGED <<memory, size, committed, history, status>>

(* Mutant of ObjectPointerAfter: an overflow word is taken for the header. *)
ObjectPointerAfterNoSkip(h) == h + 1 + AtLeastOne(SlotCount(h))

(* crankvm_heap_objectPointerAfter. *)
ObjectPointerAfter(h) ==
  LET next == h + 1 + AtLeastOne(SlotCount(h))
  IN  IF memory[next].raw = Big THEN next + 1 ELSE next

Init ==
  /\ memory = [a \in Address |-> ZeroWord]
  /\ size = 0 /\ committed = 0
  /\ objects = [h \in {} |-> ZeroWord] /\ largeCopied = FALSE
  /\ end = 0 /\ header = None /\ atEnd = TRUE /\ visited = {}
  /\ status = "running"

Next ==
  \/ \E r \in Requests : NewObject(r[1], r[2])
  \/ \E o \in DOMAIN objects : ShallowCopy(o)
  \/ Exhausted
  \/ \E o \in DOMAIN objects, word \in Stored :
       \E slot \in 1 .. SlotCount(o) : Store(o, slot, word)
  \/ IteratorCreate
  \/ IteratorAdvance

Spec == Init /\ [][Next]_vars

-----------------------------------------------------------------------------
(* Properties *)

LastWord(h) == h + AtLeastOne(objects[h].slots)

(* As long as no object with an extension word has been copied, the words of *)
(* the heap are exactly those of its objects, no two objects sharing one,    *)
(* and all of them in pages that can be accessed.                            *)
ObjectsTile ==
  ~largeCopied =>
    /\ size <= committed
    /\ \A a \in 0 .. size - 1 :
         \E h \in DOMAIN objects :
           /\ a \in objects[h].start .. LastWord(h)
           /\ \A g \in DOMAIN objects \ {h} : a \notin objects[g].start .. LastWord(g)

(* As long as no such object has been copied, the memory alone tells each    *)
(* object: its header decodes to the slots it was given, and the size a      *)
(* program is told is the one it asked for; a copy is like its original.     *)
HeadersDecode ==
  ~largeCopied =>
    \A h \in DOMAIN objects :
      /\ SlotCount(h) = objects[h].slots
      /\ SmalltalkSize(memory[h].low, SlotCount(h)) = objects[h].logical
      /\ FirstFormat(memory[h].low) = objects[h].base

(* As long as no such object has been copied, the walk is at an object's     *)
(* header whenever it is anywhere, whatever the slots in between hold, and   *)
(* goes on at the next object.                                               *)
WalkIsOnObjects ==
  ~largeCopied =>
    /\ header # None => header \in DOMAIN objects
    /\ end < size => \E h \in DOMAIN objects : objects[h].start = end

(* When the walk ends it has been at every object, if no object with an      *)
(* extension word has been copied.                                           *)
WalkIsComplete ==
  [][~largeCopied /\ ~atEnd /\ atEnd' => visited = DOMAIN objects]_vars

(* What follows an object is the next one, as long as no object with an      *)
(* extension word has been copied.                                           *)
AfterIsNext ==
  ~largeCopied =>
    \A h \in DOMAIN objects :
      LastWord(h) + 1 < size =>
        /\ ObjectPointerAfter(h) \in DOMAIN objects
        /\ objects[ObjectPointerAfter(h)].start = LastWord(h) + 1

(* The new object begins with its header although it is large: a copy.       *)
BeginsWithoutExtension(h) ==
  h \in DOMAIN objects /\ objects[h].start = h /\ objects[h].slots >= Big

(* Creating and copying objects leaves the words of those there are as they  *)
(* were, except that the copy of one with an extension word overwrites the   *)
(* last word before it, and that one only; a store makes no object, and as   *)
(* long as there is no such copy it changes only a slot of its object.       *)
ObjectsKept ==
  [][\A h \in DOMAIN objects : \A a \in objects[h].start .. LastWord(h) :
       memory'[a] # memory[a] =>
         \/ a = size - 1 /\ BeginsWithoutExtension(a + 1)'
         \/ /\ UNCHANGED <<size, objects>>
            /\ ~largeCopied => a \in h + 1 .. h + objects[h].slots]_vars
=============================================================================
