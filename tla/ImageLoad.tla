------------------------------ MODULE ImageLoad ------------------------------
(***************************************************************************)
(* Loading an image into a context and running it (src/vm/image.c, the     *)
(* loading half of src/vm/heap.c, src/vm/context.c).                       *)
(*                                                                         *)
(* An image was saved from other addresses than those its segments are     *)
(* read to.  Once all are in memory the heap is walked from object to      *)
(* object, and every reference is moved by its segment's swizzle.  A load  *)
(* may fail between any two steps, and may be asked for again.             *)
(*                                                                         *)
(* Abstracted: sizes are in words, addresses in bytes; a word of memory is *)
(* its slot byte and format, what it counts or refers to, and whether its  *)
(* tag is that of a pointer.  Committing pages is in Heap, failures of     *)
(* malloc and mmap are left out, and so are the roots used for printing.   *)
(* assert() does nothing: the default build defines NDEBUG.                *)
(***************************************************************************)
EXTENDS Integers, Sequences, FiniteSetsExt

CONSTANTS
  Big,             \* 255: the slot byte of a count kept outside the header
  WordBytes,       \* 8
  PageWords,       \* words of a page: 4096 bytes
  RootCount,       \* CRANK_VM_CLASS_TABLE_ROOT_COUNT
  DefaultCapacity, \* CRANK_VM_CONTEXT_DEFAULT_MAX_HEAP_CAPACITY, in words
  Capacities,      \* bound: the other capacities that are set
  Mapped,          \* bound: the addresses mmap gives the loads, one each
  Images           \* bound: the image files there are

Word == [raw: 0 .. Big, format: Nat, pointer: BOOLEAN, value: Nat]

(* starts and references are not in a file: the indices of the first words   *)
(* of the objects, and of the words that refer to objects.                   *)
Image ==
  [readable: BOOLEAN, version: Nat, littleEndian: BOOLEAN, wholeHeader: BOOLEAN,
   imageWords: Nat, startOfMemory: Nat, specialObjects: Nat, lastHash: Nat,
   firstSize: Nat, words: Seq(Word),
   starts: SUBSET Nat, references: SUBSET Nat]

ASSUME ImageLoadAssumption ==
  /\ {Big, WordBytes, PageWords, RootCount} \subseteq Nat \ {0}
  /\ DefaultCapacity \in Nat /\ Capacities \subseteq Nat
  /\ Mapped \in Seq(Nat \ {0})
  /\ \A i, j \in DOMAIN Mapped : i # j => Mapped[i] # Mapped[j]
  /\ Images \subseteq Image
  /\ \A image \in Images : image.firstSize >= 2

VARIABLES
  phase,       \* of the load: "idle", "segments", "fixup", "roots"; "crashed"
  error,       \* what the last load returned
  loads,       \* the loads that reached the heap
  image,       \* the image being loaded, or loaded last
  maxCapacity, \* heap: maxCapacity
  capacity,    \* segment: addressSpaceCapacity
  memory,      \* segment: its words in use, from address Base
  infos,       \* heap: segmentInfos
  rest,        \* stream: the words not read
  next,        \* nextSegmentSize
  oldBase,     \* oldBaseAddress
  iterator,    \* the object the walk is at
  current,     \* currentSegmentInfo, 0 for NULL
  upcoming,    \* nextSegmentInfo
  roots,       \* context: roots, class table counters, lastIdentityHash
  whole,       \* history: the addresses of completely relocated heaps
  ran          \* history: the heaps that were interpreted

heap == <<capacity, memory, infos>>
loop == <<rest, next, oldBase, iterator, current, upcoming>>
vars == <<phase, error, loads, image, maxCapacity, heap, loop, roots, whole, ran>>

Base == Mapped[loads]

TypeOK ==
  /\ phase \in {"idle", "segments", "fixup", "roots", "crashed"}
  /\ error \in {"none", "file", "bad", "memory", "invalid"}
  /\ loads \in 0 .. Len(Mapped) /\ image \in Images
  /\ {maxCapacity, capacity} \subseteq Capacities \cup {DefaultCapacity}
  /\ memory \in Seq(Word) /\ Len(memory) <= capacity
  /\ infos.entries \in Seq([start: Nat, swizzle: Int]) /\ infos.dangling \in BOOLEAN
  /\ next \in Nat /\ oldBase \in Nat
  /\ current \in 0 .. Len(infos.entries) /\ upcoming \in 1 .. Len(infos.entries) + 1
  /\ whole \subseteq {Mapped[i] : i \in 1 .. loads}
  /\ ran \subseteq {Mapped[i] : i \in 1 .. loads}

-----------------------------------------------------------------------------
(* The header *)

Bit(n, k)     == (n \div 2^k) % 2
Masked(n, ks) == MapThenSumSet(LAMBDA k : 2^k * Bit(n, k), ks)

(* CRANK_VM_IMAGE_FORMAT_BASE_VERSION_MASK. *)
BaseVersion(version) == Masked(version, {1, 2, 3, 5, 6, 7, 8, 11, 12, 16})
NativeFloats(version) == Bit(version, 0) = 1
SpurObjects(version)  == Bit(version, 4) = 1
Closures(version)     == BaseVersion(version) \in {6504, 68002, 68004}
WideWords(version)    == BaseVersion(version) \in {68000, 68002, 68004}

(* The words, read big-endian, that a file may start with. *)
Recognized(version, littleEndian) ==
  \/ version \in {6502, 6504, 6505, 6521, 68019, 68021}
  \/ littleEndian /\ version \in {68000, 68002, 68003}

(* readFormatFromIntegerAndLittleEndianness, for the recognized versions. *)
FormatOK(version) ==
  /\ WideWords(version) \/ BaseVersion(version) \in {6502, 6504}
  /\ NativeFloats(version) => Closures(version)
  /\ SpurObjects(version) => Closures(version) /\ NativeFloats(version)

(* crankvm_image_readHeader, on a little-endian machine of 64 bits; the file *)
(* has all of the header's fields.                                           *)
HeaderOK(i) ==
  /\ i.readable /\ i.wholeHeader
  /\ Recognized(i.version, i.littleEndian) /\ FormatOK(i.version)
  /\ Closures(i.version) /\ NativeFloats(i.version) /\ SpurObjects(i.version)
  /\ WideWords(i.version) /\ i.littleEndian

-----------------------------------------------------------------------------
(* Objects in memory: words are numbered from 0 *)

(* The header of the object whose first word is at s, and the count of its   *)
(* slots.                                                                    *)
HeaderIn(w, s) == IF w[s + 1].raw = Big THEN s + 1 ELSE s
CountIn(w, h)  == IF w[h + 1].raw = Big THEN w[h].value ELSE w[h + 1].raw

(* The words of an object of n slots that may refer to others: all slots of  *)
(* an object of pointers, the literals of a method, whose first slot says    *)
(* how many.                                                                 *)
MovableIn(w, h, n) ==
  CASE w[h + 1].format < 9   -> h + 1 .. h + n
    [] w[h + 1].format >= 24 -> h + 2 .. h + 1 + w[h + 2].value
    [] OTHER -> {}

At(a)          == memory[a + 1]
AddressOf(a)   == Base + WordBytes * a
IndexOf(oop)   == (oop - Base) \div WordBytes
RoundUp(n)     == ((n + PageWords - 1) \div PageWords) * PageWords
SlotCount(h)   == CountIn(memory, h)
AtLeastOne(n)  == IF n = 0 THEN 1 ELSE n
SlotOf(oop, k) == At(IndexOf(oop) + 1 + k).value

(* crankvm_heap_objectPointerAfter. *)
ObjectAfter(oop) ==
  LET a == IndexOf(oop) + 1 + AtLeastOne(SlotCount(IndexOf(oop)))
  IN  AddressOf(IF At(a).raw = Big THEN a + 1 ELSE a)

Begin == [start |-> 0, header |-> 0, count |-> 0, end |-> 0, atEnd |-> FALSE]

(* Mutant of Advanced: an object's header is not counted. *)
AdvancedInPlace(it) ==
  IF it.end + 1 >= Len(memory)
  THEN [it EXCEPT !.atEnd = TRUE]
  ELSE LET h == HeaderIn(memory, it.end)
       IN  [start |-> it.end, header |-> h, count |-> SlotCount(h),
            end |-> h + SlotCount(h), atEnd |-> FALSE]

(* Mutant of Advanced: an object of no slots is not given one. *)
AdvancedNoMinimum(it) ==
  IF it.end + 1 >= Len(memory)
  THEN [it EXCEPT !.atEnd = TRUE]
  ELSE LET h == HeaderIn(memory, it.end)
       IN  [start |-> it.end, header |-> h, count |-> SlotCount(h),
            end |-> h + 1 + SlotCount(h), atEnd |-> FALSE]

(* crankvm_heap_iterator_advance. *)
Advanced(it) ==
  IF it.end + 1 >= Len(memory)
  THEN [it EXCEPT !.atEnd = TRUE]
  ELSE LET h == HeaderIn(memory, it.end)
       IN  [start |-> it.end, header |-> h, count |-> SlotCount(h),
            end |-> h + 1 + AtLeastOne(SlotCount(h)), atEnd |-> FALSE]

(* Mutant of Movable: a method's words are all literals. *)
MovableWholeMethods(it) ==
  CASE At(it.header).format < 9   -> it.header + 1 .. it.header + it.count
    [] At(it.header).format >= 24 -> it.header + 2 .. it.header + it.count
    [] OTHER -> {}

(* The words of the object the walk is at that may refer to others. *)
Movable(it) == MovableIn(memory, it.header, it.count)

-----------------------------------------------------------------------------
(* The API's calls *)

(* crankvm_context_setMaxHeapCapacity. *)
SetMaxHeapCapacity(n) ==
  /\ phase = "idle" /\ maxCapacity' = n
  /\ UNCHANGED <<phase, error, loads, image, heap, loop, roots, whole, ran>>

(* A load that ends with an error, what it changed remaining as it is. *)
Fail(code) == phase' = "idle" /\ error' = code

(* loadImageFromFileNamed with a file that is not one, or not of this VM. *)
RejectHeader(i) ==
  /\ phase = "idle" /\ ~HeaderOK(i)
  /\ Fail(IF i.readable THEN "bad" ELSE "file")
  /\ UNCHANGED <<loads, image, maxCapacity, heap, loop, roots, whole, ran>>

(* "Make sure the heap has the required capacity for the image." *)
TooLarge(i) == RoundUp(i.imageWords) > maxCapacity

RejectSize(i) ==
  /\ phase = "idle" /\ HeaderOK(i) /\ TooLarge(i)
  /\ roots' = [roots EXCEPT !.lastHash = i.lastHash]
  /\ Fail("memory")
  /\ UNCHANGED <<loads, image, maxCapacity, heap, loop, whole, ran>>

(* Mutant of WithHeader: the special objects are known from the header on. *)
WithHeaderRoots(i) ==
  [roots EXCEPT !.lastHash = i.lastHash, !.mapping = Mapped[loads + 1],
                !.special = i.specialObjects - i.startOfMemory + Mapped[loads + 1]]

(* What a load that starts leaves of the roots of the one before. *)
WithHeader(i) == [roots EXCEPT !.lastHash = i.lastHash]

(* crankvm_heap_loadImageContent up to the loop over the segments: a new     *)
(* address space, the segment infos as they were left.                       *)
StartLoad(i) ==
  /\ phase = "idle" /\ HeaderOK(i) /\ loads < Len(Mapped)
  /\ ~TooLarge(i)
  /\ loads' = loads + 1 /\ image' = i /\ phase' = "segments"
  /\ capacity' = maxCapacity /\ memory' = <<>>
  /\ rest' = i.words /\ next' = i.firstSize /\ oldBase' = i.startOfMemory
  /\ iterator' = Begin /\ current' = 0 /\ upcoming' = 1
  /\ roots' = WithHeader(i)
  /\ UNCHANGED <<error, maxCapacity, infos, whole, ran>>

(* crankvm_context_run: whether there is something to run is for the special *)
(* objects to say, if they are known.                                        *)
Run ==
  /\ phase = "idle" /\ roots.special # 0
  /\ ran' = ran \cup {roots.mapping}
  /\ UNCHANGED <<phase, error, loads, image, maxCapacity, heap, loop, roots, whole>>

-----------------------------------------------------------------------------
(* The segments *)

(* crankvm_heap_allocateSegmentInfo, and what is then known of the segment.  *)
WithInfo(start, swizzle) ==
  [entries |-> Append(infos.entries, [start |-> start, swizzle |-> swizzle]),
   dangling |-> FALSE]

(* realloc of infos a load before has freed may end the program. *)
ReallocFreed ==
  /\ phase = "segments" /\ infos.dangling
  /\ phase' = "crashed"
  /\ UNCHANGED <<error, loads, image, maxCapacity, heap, loop, roots, whole, ran>>

Swizzle == AddressOf(Len(memory)) - oldBase

(* crankvm_heap_segment_allocate finds room. *)
HasRoom == Len(memory) + next <= capacity

SegmentTooLarge ==
  /\ phase = "segments" /\ ~HasRoom
  /\ infos' = WithInfo(0, 0)
  /\ Fail("memory")
  /\ UNCHANGED <<loads, image, maxCapacity, capacity, memory, loop, roots, whole, ran>>

(* The file ends before the segment does: its place in memory is taken.      *)
SegmentTruncated ==
  /\ phase = "segments" /\ HasRoom /\ Len(rest) < next
  /\ infos' = WithInfo(AddressOf(Len(memory)), Swizzle)
  /\ memory' = memory \o [i \in 1 .. next |->
                            [raw |-> 0, format |-> 0, pointer |-> TRUE, value |-> 0]]
  /\ Fail("bad")
  /\ UNCHANGED <<loads, image, maxCapacity, capacity, loop, roots, whole, ran>>

(* The bridge, the last two words of a segment.  Its second tells the size   *)
(* of the next segment; its first, unless it is the last bridge, the span to *)
(* it, and both become the header of an object of no slots.                  *)
EmptyBridge ==
  <<[raw |-> Big, format |-> 0, pointer |-> FALSE, value |-> 0],
    [raw |-> Big, format |-> 0, pointer |-> FALSE, value |-> 0]>>

(* One turn of the loop of crankvm_heap_loadImageContent. *)
LoadSegment ==
  LET read == SubSeq(rest, 1, next)
      last == read[next - 1].raw = 0
  IN  /\ phase = "segments" /\ HasRoom /\ Len(rest) >= next
      /\ infos' = WithInfo(AddressOf(Len(memory)), Swizzle)
      /\ memory' = memory \o IF last THEN read ELSE SubSeq(read, 1, next - 2) \o EmptyBridge
      /\ rest' = SubSeq(rest, next + 1, Len(rest))
      /\ oldBase' = oldBase + (IF last THEN 0 ELSE read[next - 1].value)
      /\ next' = read[next].value
      /\ phase' = IF next' = 0 THEN "fixup" ELSE "segments"
      /\ UNCHANGED <<error, loads, image, maxCapacity, capacity, iterator, current, upcoming,
                     roots, whole, ran>>

-----------------------------------------------------------------------------
(* The fixup *)

(* The walk is at the start of the next segment.  The infos behind the used  *)
(* ones, never written, hold no address of this mapping.                     *)
AtNextSegment(it) ==
  upcoming <= Len(infos.entries) /\ infos.entries[upcoming].start = AddressOf(it.start)

(* One turn of the walk: the swizzle of the segment the object is in is      *)
(* added to its references.                                                  *)
FixObject ==
  LET it   == Advanced(iterator)
      refs == {a \in Movable(it) : At(a).pointer}
      segment == IF AtNextSegment(it) THEN upcoming ELSE current
  IN  /\ phase = "fixup" /\ ~it.atEnd
      /\ IF refs # {} /\ segment = 0
         THEN phase' = "crashed" /\ UNCHANGED <<memory, iterator, current, upcoming>>
         ELSE /\ memory' = [i \in DOMAIN memory |->
                   IF i - 1 \in refs
                   THEN [memory[i] EXCEPT !.value = @ + infos.entries[segment].swizzle]
                   ELSE memory[i]]
              /\ iterator' = it /\ current' = segment
              /\ upcoming' = IF AtNextSegment(it) THEN upcoming + 1 ELSE upcoming
              /\ UNCHANGED phase
      /\ UNCHANGED <<error, loads, image, maxCapacity, capacity, infos, rest, next, oldBase,
                     roots, whole, ran>>

EndFixup ==
  /\ phase = "fixup" /\ Advanced(iterator).atEnd
  /\ iterator' = Advanced(iterator)
  /\ phase' = "roots"
  /\ whole' = whole \cup {Base}
  /\ UNCHANGED <<error, loads, image, maxCapacity, heap, rest, next, oldBase, current, upcoming,
                 roots, ran>>

-----------------------------------------------------------------------------
(* The roots *)

SpecialObjects == image.specialObjects - image.startOfMemory + Base

(* What is known of the special objects before they are looked at closer. *)
SpecialRoots ==
  [roots EXCEPT !.mapping = Base, !.special = SpecialObjects,
                !.nil   = SlotOf(SpecialObjects, 0),
                !.false = SlotOf(SpecialObjects, 1),
                !.true  = SlotOf(SpecialObjects, 2)]

(* "Make sure nil, false, and true are in sequencial order." *)
InSequence(r) ==
  r.nil = Base /\ r.false = ObjectAfter(r.nil) /\ r.true = ObjectAfter(r.false)

HiddenRoots(r) == ObjectAfter(ObjectAfter(r.true))
Page(r, p)     == SlotOf(HiddenRoots(r), p)

(* The free list, the hidden roots and the first page, all pages counted.    *)
TableRoots(r) ==
  [r EXCEPT !.freeList = ObjectAfter(r.true), !.hidden = HiddenRoots(r),
            !.firstPage = Page(r, 0), !.pages = RootCount]

RejectRoots ==
  /\ phase = "roots"
  /\ \/ ~InSequence(SpecialRoots) /\ roots' = SpecialRoots
     \/ /\ InSequence(SpecialRoots) /\ Page(SpecialRoots, 0) = SpecialRoots.nil
        /\ roots' = TableRoots(SpecialRoots)
  /\ Fail("invalid")
  /\ UNCHANGED <<loads, image, maxCapacity, heap, loop, whole, ran>>

(* Mutant of PagesInUse: the pages that are not nil are counted. *)
PagesNotNil(r) == Cardinality({p \in 0 .. RootCount - 1 : Page(r, p) # r.nil})

(* crankvm_heap_loadClassTable counts up to the first nil page. *)
PagesInUse(r) ==
  Min({p \in 1 .. RootCount - 1 : Page(r, p) = r.nil} \cup {RootCount})

(* The end of crankvm_heap_loadImageContent: the infos are freed, the        *)
(* pointer to them kept.                                                     *)
LoadRoots ==
  /\ phase = "roots"
  /\ InSequence(SpecialRoots) /\ Page(SpecialRoots, 0) # SpecialRoots.nil
  /\ roots' = [TableRoots(SpecialRoots) EXCEPT !.pages = PagesInUse(SpecialRoots),
                                               !.nextClassTableIndex = 1]
  /\ infos' = [entries |-> <<>>, dangling |-> TRUE]
  /\ current' = 0 /\ upcoming' = 1
  /\ phase' = "idle" /\ error' = "none"
  /\ UNCHANGED <<loads, image, maxCapacity, capacity, memory, rest, next, oldBase, iterator,
                 whole, ran>>

-----------------------------------------------------------------------------
(* crankvm_context_create *)
Init ==
  /\ phase = "idle" /\ error = "none" /\ loads = 0
  /\ image \in Images
  /\ maxCapacity = DefaultCapacity /\ capacity = DefaultCapacity
  /\ memory = <<>>
  /\ infos = [entries |-> <<>>, dangling |-> FALSE]
  /\ rest = <<>> /\ next = 0 /\ oldBase = 0
  /\ iterator = Begin /\ current = 0 /\ upcoming = 1
  /\ roots = [mapping |-> 0, special |-> 0, nil |-> 0, false |-> 0, true |-> 0,
              freeList |-> 0, hidden |-> 0, firstPage |-> 0,
              pages |-> 0, nextClassTableIndex |-> 0, lastHash |-> 0]
  /\ whole = {} /\ ran = {}

(* The steps of a load that goes on. *)
LoadStep ==
  \/ ReallocFreed \/ SegmentTooLarge \/ SegmentTruncated \/ LoadSegment
  \/ FixObject \/ EndFixup
  \/ RejectRoots \/ LoadRoots

Next ==
  \/ \E n \in Capacities : SetMaxHeapCapacity(n)
  \/ \E i \in Images : RejectHeader(i) \/ RejectSize(i) \/ StartLoad(i)
  \/ Run
  \/ LoadStep

(* A load is one call: it goes on by itself. *)
Spec == Init /\ [][Next]_vars /\ WF_vars(LoadStep)

-----------------------------------------------------------------------------
(* What is relied on *)

(* Of an image of several segments two properties do not hold: the bridge    *)
(* between two is made an object of no slots, two words that the walk counts *)
(* as three.                                                                 *)
OneSegment(i) == i.firstSize = Len(i.words)

(* The words of an image of one segment are those of its objects, one after  *)
(* the other up to the last bridge, and its references are the pointers in   *)
(* their slots and literals.                                                 *)
LaidOut(i) ==
  /\ 0 \in i.starts /\ i.words[Len(i.words) - 1].raw = 0
  /\ \A s \in i.starts :
       LET header == HeaderIn(i.words, s)
           slots  == CountIn(i.words, header)
           end    == header + 1 + AtLeastOne(slots)
       IN  /\ s + 1 < Len(i.words)
           /\ end \in i.starts \cup {Len(i.words)}
           /\ MovableIn(i.words, header, slots) \subseteq header + 1 .. end - 1
           /\ \A a \in s .. end - 1 :
                a \in i.references <=>
                  a \in MovableIn(i.words, header, slots) /\ i.words[a + 1].pointer

ImagesLaidOut == \A i \in Images : OneSegment(i) => LaidOut(i)

(* mmap gives every load an address space of its own; none is unmapped. *)
SpacesApart ==
  \A j, k \in DOMAIN Mapped : j # k =>
    \A n \in Capacities \cup {DefaultCapacity} :
      \A a \in 0 .. n : Mapped[j] # Mapped[k] + WordBytes * a

-----------------------------------------------------------------------------
(* Properties *)

Loaded == loads > 0 /\ phase = "idle" /\ error = "none" /\ roots.mapping = Base

(* Each word of the image is in memory, moved as far as the walk has come if *)
(* it refers to an object, and as it was if it only looks like a reference;  *)
(* no reference is moved twice or left behind.                               *)
EachReferenceMovedOnce ==
  (phase \in {"fixup", "roots"} \/ Loaded) /\ OneSegment(image) =>
    \A a \in 0 .. Len(memory) - 1 :
      LET old   == image.words[a + 1]
          moved == a \in image.references /\ a < iterator.end
      IN  At(a) = [old EXCEPT !.value =
                     @ + (IF moved THEN Base - image.startOfMemory ELSE 0)]

(* nil, false and true are the heap's first objects when the load succeeds,  *)
(* and the pages that are counted are not nil.                               *)
RootsUsable ==
  Loaded =>
    /\ roots.nil = Base /\ InSequence(roots)
    /\ roots.pages \in 1 .. RootCount
    /\ \A p \in 0 .. roots.pages - 1 : Page(roots, p) # roots.nil

(* Whatever loads failed before, no heap is interpreted that was not         *)
(* relocated to its end.                                                     *)
RunsOnWholeHeaps == ran \subseteq whole

(* Every load ends: it returns, or the program does. *)
LoadsEnd == phase \in {"segments", "fixup", "roots"} ~> phase \in {"idle", "crashed"}

(* assert(iterator.currentObjectEnd == targetSegment->size): the walk ends   *)
(* where the segment does.                                                   *)
WalkEndsAtSize == phase = "roots" /\ OneSegment(image) => iterator.end = Len(memory)
=============================================================================
