--------------------------- MODULE ImageLoadProofs ---------------------------
(***************************************************************************)
(* Proofs about ImageLoad, for every set of images and addresses: only     *)
(* relocated heaps are run, and the roots of a successful load are usable, *)
(* whatever is in an image; and each reference is moved once, if an image  *)
(* of one segment consists of objects and address spaces do not overlap.   *)
(***************************************************************************)
EXTENDS ImageLoad, SequenceTheorems, WellFoundedInduction, TLAPS

RootFields ==
  {"mapping", "special", "nil", "false", "true", "freeList", "hidden", "firstPage",
   "pages", "nextClassTableIndex", "lastHash"}

(* The special objects are known of relocated heaps only.                    *)
RootsOfWhole ==
  /\ DOMAIN roots = RootFields
  /\ roots.special # 0 => roots.mapping \in whole
  /\ phase = "roots" => Base \in whole

WholeInv == RootsOfWhole /\ RunsOnWholeHeaps

-----------------------------------------------------------------------------
(* Relocated heaps *)

LEMMA WholeInit == Init => WholeInv
BY DEF Init, WholeInv, RootsOfWhole, RunsOnWholeHeaps, RootFields

LEMMA WholeKept ==
  ASSUME WholeInv, UNCHANGED <<loads, roots>>, whole \subseteq whole', ran' \subseteq whole',
         phase' # "roots" \/ phase = "roots" \/ Base \in whole'
  PROVE  WholeInv'
BY DEF WholeInv, RootsOfWhole, RunsOnWholeHeaps, Base

(* The roots that are written are those of the heap just relocated.          *)
LEMMA SpecialFields ==
  ASSUME DOMAIN roots = RootFields
  PROVE  /\ DOMAIN SpecialRoots = RootFields /\ SpecialRoots.mapping = Base
         /\ DOMAIN TableRoots(SpecialRoots) = RootFields
         /\ TableRoots(SpecialRoots).mapping = Base
         /\ TableRoots(SpecialRoots).nil = SpecialRoots.nil
         /\ TableRoots(SpecialRoots).true = SpecialRoots.true
         /\ TableRoots(SpecialRoots).false = SpecialRoots.false
BY DEF SpecialRoots, TableRoots, RootFields

LEMMA WholeNext ==
  ASSUME WholeInv, [Next]_vars
  PROVE  WholeInv'
<1> USE DEF WholeInv
<1>1. ASSUME NEW n \in Capacities, SetMaxHeapCapacity(n) PROVE WholeInv'
  BY <1>1, WholeKept DEF SetMaxHeapCapacity, RunsOnWholeHeaps
<1>2. ASSUME NEW i \in Images, RejectHeader(i) PROVE WholeInv'
  BY <1>2, WholeKept DEF RejectHeader, Fail, RunsOnWholeHeaps
<1>3. ASSUME NEW i \in Images, RejectSize(i) \/ StartLoad(i) PROVE WholeInv'
  <2>1. /\ roots' = [roots EXCEPT !.lastHash = i.lastHash]
        /\ phase' # "roots" /\ UNCHANGED <<whole, ran>>
    BY <1>3 DEF RejectSize, StartLoad, WithHeader, Fail
  <2>2. /\ DOMAIN roots' = RootFields
        /\ roots'.special = roots.special /\ roots'.mapping = roots.mapping
    BY <2>1 DEF RootsOfWhole, RootFields
  <2> QED BY <2>1, <2>2 DEF RootsOfWhole, RunsOnWholeHeaps
<1>4. CASE Run
  <2>1. ran' \subseteq whole
    BY <1>4 DEF Run, RootsOfWhole, RunsOnWholeHeaps
  <2> QED BY <1>4, <2>1, WholeKept DEF Run
<1>5. CASE ReallocFreed \/ SegmentTooLarge \/ SegmentTruncated \/ LoadSegment \/ FixObject
  <2>1. /\ UNCHANGED <<loads, roots, whole, ran>>
        /\ phase' # "roots" \/ phase = "roots"
    BY <1>5 DEF ReallocFreed, SegmentTooLarge, SegmentTruncated, LoadSegment, FixObject, Fail
  <2> QED BY <2>1, WholeKept DEF RunsOnWholeHeaps
<1>6. CASE EndFixup
  BY <1>6, WholeKept DEF EndFixup, RunsOnWholeHeaps
<1>7. CASE RejectRoots
  <2>1. /\ roots' = SpecialRoots \/ roots' = TableRoots(SpecialRoots)
        /\ phase = "roots" /\ phase' = "idle" /\ UNCHANGED <<whole, ran>>
    BY <1>7 DEF RejectRoots, Fail
  <2>2. DOMAIN roots' = RootFields /\ roots'.mapping = Base
    BY <2>1, SpecialFields DEF RootsOfWhole
  <2> QED BY <2>1, <2>2 DEF RootsOfWhole, RunsOnWholeHeaps
<1>8. CASE LoadRoots
  <2>1. /\ roots' = [TableRoots(SpecialRoots) EXCEPT !.pages = PagesInUse(SpecialRoots),
                                                     !.nextClassTableIndex = 1]
        /\ phase = "roots" /\ phase' = "idle" /\ UNCHANGED <<whole, ran>>
    BY <1>8 DEF LoadRoots
  <2>2. DOMAIN roots' = RootFields /\ roots'.mapping = Base
    BY <2>1, SpecialFields DEF RootsOfWhole, RootFields
  <2> QED BY <2>1, <2>2 DEF RootsOfWhole, RunsOnWholeHeaps
<1>9. CASE UNCHANGED vars
  BY <1>9, WholeKept DEF vars, RunsOnWholeHeaps
<1> QED BY <1>1, <1>2, <1>3, <1>4, <1>5, <1>6, <1>7, <1>8, <1>9 DEF Next, LoadStep

LEMMA WholeInvariance == Spec => []WholeInv
<1>1. WholeInv /\ [Next]_vars => WholeInv'
  BY WholeNext
<1> QED BY <1>1, WholeInit, PTL DEF Spec

(* crankvm_context_run interprets a heap only if the walk of a load has      *)
(* moved its references to the end, however many loads failed before.        *)
THEOREM WholeHeapsRun == Spec => []RunsOnWholeHeaps
<1>1. WholeInv => RunsOnWholeHeaps
  BY DEF WholeInv
<1> QED BY <1>1, WholeInvariance, PTL

-----------------------------------------------------------------------------
(* Usable roots *)

(* Every set of naturals that is not empty has a least element.              *)
LEMMA Least ==
  ASSUME NEW S \in SUBSET Nat, S # {}
  PROVE  \E n \in S : \A m \in S : n <= m
<1> DEFINE R == {p \in Nat \X Nat : p[1] < p[2]}
<1>1. IsWellFoundedOn(R, Nat)
  BY NatLessThanWellFounded DEF OpToRel
<1>2. \A x, y \in Nat : <<y, x>> \in R <=> y < x
  OBVIOUS
<1> HIDE DEF R
<1>3. PICK n \in S : \A m \in S : <<m, n>> \notin R
  BY <1>1, WFMin
<1>4. ASSUME NEW m \in S PROVE n <= m
  <2>1. m \in Nat /\ n \in Nat /\ ~(m < n)
    BY <1>2, <1>3
  <2> QED BY <2>1
<1> QED BY <1>4

(* The pages that are counted: one at least, and none of them nil.           *)
LEMMA CountedPages ==
  ASSUME NEW r, Page(r, 0) # r.nil
  PROVE  /\ PagesInUse(r) \in 1 .. RootCount
         /\ \A p \in 0 .. PagesInUse(r) - 1 : Page(r, p) # r.nil
<1> DEFINE S == {p \in 1 .. RootCount - 1 : Page(r, p) = r.nil} \cup {RootCount}
<1>1. RootCount \in Nat /\ RootCount > 0
  BY ImageLoadAssumption
<1>2. S \subseteq 1 .. RootCount /\ S # {} /\ S \subseteq Nat /\ S \subseteq Int
  BY <1>1
<1>3. \E n \in S : \A m \in S : n <= m
  <2> HIDE DEF S
  <2> QED BY <1>2, Least
<1>4. PagesInUse(r) \in S /\ \A m \in S : PagesInUse(r) <= m
  <2>1. PagesInUse(r) = CHOOSE x \in S : \A y \in S : x <= y
    BY DEF PagesInUse, Min
  <2> HIDE DEF S
  <2> QED BY <1>3, <2>1
<1>5. PagesInUse(r) \in 1 .. RootCount
  BY <1>2, <1>4
<1>6. ASSUME NEW p \in 0 .. PagesInUse(r) - 1 PROVE Page(r, p) # r.nil
  <2>1. CASE p = 0
    BY <2>1
  <2>2. CASE p # 0
    <3>1. p \in 1 .. RootCount - 1 /\ ~(PagesInUse(r) <= p)
      BY <1>1, <1>5, <2>2
    <3>2. p \notin S
      BY <1>4, <3>1
    <3> QED BY <3>1, <3>2
  <2> QED BY <2>1, <2>2
<1> QED BY <1>5, <1>6

RootsInv == DOMAIN roots = RootFields /\ RootsUsable

(* In a memory that says the same the same objects follow each other.        *)
LEMMA SameMemory ==
  ASSUME UNCHANGED <<memory, loads>>
  PROVE  /\ Base' = Base
         /\ \A oop : ObjectAfter(oop)' = ObjectAfter(oop)
         /\ \A oop, k : SlotOf(oop, k)' = SlotOf(oop, k)
<1>1. Base' = Base
  BY DEF Base
<1>2. \A a : At(a)' = At(a) /\ SlotCount(a)' = SlotCount(a) /\ AddressOf(a)' = AddressOf(a)
  BY <1>1 DEF At, SlotCount, CountIn, AddressOf
<1>3. \A oop : IndexOf(oop)' = IndexOf(oop)
  BY <1>1 DEF IndexOf
<1>4. \A oop : ObjectAfter(oop)' = ObjectAfter(oop)
  BY <1>2, <1>3 DEF ObjectAfter
<1>5. \A oop, k : SlotOf(oop, k)' = SlotOf(oop, k)
  BY <1>2, <1>3 DEF SlotOf
<1> QED BY <1>1, <1>4, <1>5

UsableInv == WholeInv /\ RootsUsable

LEMMA UsableKept ==
  ASSUME RootsUsable, UNCHANGED <<memory, loads, roots, phase, error>>
  PROVE  RootsUsable'
<1>1. Loaded' => Loaded
  BY SameMemory DEF Loaded
<1>2. InSequence(roots)' <=> InSequence(roots)
  BY SameMemory DEF InSequence
<1>3. \A p : Page(roots, p)' = Page(roots, p)
  BY SameMemory DEF Page, HiddenRoots
<1> QED BY <1>1, <1>2, <1>3, SameMemory DEF RootsUsable

(* A load that has ended well leaves usable roots.                           *)
LEMMA UsableLoaded ==
  ASSUME WholeInv, LoadRoots
  PROVE  RootsUsable'
<1> DEFINE R == SpecialRoots
           T == TableRoots(SpecialRoots)
<1>1. /\ InSequence(R) /\ Page(R, 0) # R.nil
      /\ roots' = [T EXCEPT !.pages = PagesInUse(R), !.nextClassTableIndex = 1]
      /\ UNCHANGED <<memory, loads>>
  BY DEF LoadRoots, heap
<1>2. /\ DOMAIN T = RootFields
      /\ T.nil = R.nil /\ T.true = R.true /\ T.false = R.false
  BY SpecialFields DEF WholeInv, RootsOfWhole
<1> HIDE DEF R, T
<1>3. /\ roots'.nil = R.nil /\ roots'.true = R.true /\ roots'.false = R.false
      /\ roots'.pages = PagesInUse(R)
  BY <1>1, <1>2 DEF RootFields
<1>4. R.nil = Base /\ R.false = ObjectAfter(R.nil) /\ R.true = ObjectAfter(R.false)
  BY <1>1 DEF InSequence
<1>5. roots'.nil = Base' /\ InSequence(roots)'
  BY <1>1, <1>3, <1>4, SameMemory DEF InSequence
<1>6. \A p : Page(roots, p)' = Page(R, p)
  BY <1>1, <1>3, SameMemory DEF Page, HiddenRoots
<1>7. /\ PagesInUse(R) \in 1 .. RootCount
      /\ \A p \in 0 .. PagesInUse(R) - 1 : Page(R, p) # R.nil
  BY <1>1, CountedPages
<1> QED BY <1>3, <1>5, <1>6, <1>7 DEF RootsUsable

LEMMA UsableNext ==
  ASSUME UsableInv, [Next]_vars
  PROVE  UsableInv'
<1>1. SUFFICES RootsUsable'
  BY WholeNext DEF UsableInv
<1>2. ASSUME phase' # "idle" \/ error' # "none" PROVE RootsUsable'
  BY <1>2 DEF RootsUsable, Loaded
<1>3. ASSUME NEW n \in Capacities, SetMaxHeapCapacity(n) PROVE RootsUsable'
  BY <1>3, UsableKept DEF SetMaxHeapCapacity, heap, UsableInv
<1>4. CASE Run
  BY <1>4, UsableKept DEF Run, heap, UsableInv
<1>5. ASSUME NEW i \in Images, RejectHeader(i) \/ RejectSize(i) \/ StartLoad(i)
      PROVE  RootsUsable'
  BY <1>2, <1>5 DEF RejectHeader, RejectSize, StartLoad, Fail
<1>6. CASE ReallocFreed \/ SegmentTooLarge \/ SegmentTruncated \/ LoadSegment
           \/ FixObject \/ EndFixup \/ RejectRoots
  BY <1>2, <1>6 DEF ReallocFreed, SegmentTooLarge, SegmentTruncated, LoadSegment, FixObject,
                    EndFixup, RejectRoots, Fail
<1>7. CASE LoadRoots
  BY <1>7, UsableLoaded DEF UsableInv
<1>8. CASE UNCHANGED vars
  BY <1>8, UsableKept DEF vars, heap, UsableInv
<1> QED BY <1>3, <1>4, <1>5, <1>6, <1>7, <1>8 DEF Next, LoadStep

(* After a load that succeeded nil, false and true are the first objects of  *)
(* the heap, and crankvm_heap_loadClassTable has counted at least one page,  *)
(* none of them nil, whatever the image holds.                               *)
THEOREM RootsAreUsable == Spec => []RootsUsable
<1>1. Init => UsableInv
  BY WholeInit DEF Init, UsableInv, RootsUsable, Loaded
<1>2. UsableInv /\ [Next]_vars => UsableInv'
  BY UsableNext
<1>3. UsableInv => RootsUsable
  BY DEF UsableInv
<1> QED BY <1>1, <1>2, <1>3, PTL DEF Spec

-----------------------------------------------------------------------------
(* Moved references *)

(* The words of a file, once some have been moved. *)
MovedWord == [raw: 0 .. Big, format: Nat, pointer: BOOLEAN, value: Int]

(* s is a sequence, of whatever elements. *)
IsSequence(s) == s \in Seq({s[k] : k \in DOMAIN s})

(* The words of the image are in memory, and the references before e moved.  *)
MovedUpTo(e) ==
  /\ memory \in Seq(MovedWord) /\ Len(memory) = Len(image.words)
  /\ \A a \in 0 .. Len(memory) - 1 :
       At(a) = [image.words[a + 1] EXCEPT !.value =
                  @ + (IF a \in image.references /\ a < e THEN Base - image.startOfMemory ELSE 0)]

(* The first info, if there is one, is that of a segment that got no room or *)
(* of the first one of the loads up to n.                                    *)
FirstInfoOf(n) ==
  infos.entries # <<>> => infos.entries[1].start \in {0} \cup {Mapped[k] : k \in 1 .. n}

(* A load of an image of one segment, before the segment is read, ...        *)
NothingRead ==
  /\ memory = <<>> /\ rest = image.words /\ next = image.firstSize
  /\ oldBase = image.startOfMemory
  /\ iterator = Begin /\ current = 0 /\ upcoming = 1
  /\ FirstInfoOf(loads - 1)

(* ... after it, if its bridge says that another one follows, ...            *)
NothingLeft == rest = <<>> /\ next \in Nat \ {0}

(* ... and while the walk moves references.  If the infos of a failed load   *)
(* have remained, the walk finds none for this heap and passes what has no   *)
(* references only.                                                          *)
Relocating ==
  /\ MovedUpTo(iterator.end) /\ Len(memory) <= capacity
  /\ iterator.end \in image.starts \cup {Len(image.words)}
  /\ \/ /\ infos.entries = <<[start |-> Base, swizzle |-> Base - image.startOfMemory]>>
        /\ \/ iterator.end = 0 /\ current = 0 /\ upcoming = 1
           \/ current = 1 /\ upcoming = 2
     \/ /\ infos.entries # <<>> /\ FirstInfoOf(loads - 1)
        /\ current = 0 /\ upcoming = 1
        /\ \A a \in image.references : ~(a < iterator.end)

(* What holds in every phase, ... *)
LoadParts ==
  /\ loads \in 0 .. Len(Mapped) /\ image \in Images
  /\ maxCapacity \in Capacities \cup {DefaultCapacity}
  /\ capacity \in Capacities \cup {DefaultCapacity}
  /\ phase \in {"idle", "segments", "fixup", "roots", "crashed"}
  /\ phase \in {"segments", "fixup", "roots"} => loads > 0
  /\ DOMAIN iterator = {"start", "header", "count", "end", "atEnd"}
  /\ IsSequence(infos.entries) /\ FirstInfoOf(loads)
  /\ phase = "segments" /\ infos.entries = <<>> => memory = <<>>

(* ... and of loads of an image of one segment. *)
LoadPhases ==
  OneSegment(image) =>
    /\ phase = "segments" => NothingRead \/ NothingLeft
    /\ phase = "fixup" => Relocating
    /\ phase = "roots" => MovedUpTo(iterator.end) /\ iterator.end = Len(memory)
    /\ phase = "idle" /\ error = "none" /\ loads > 0 => MovedUpTo(iterator.end)

LoadInv == LoadParts /\ LoadPhases

(* What the assumptions say of an image, and of an address space. *)
LEMMA ImageFacts ==
  ASSUME NEW i \in Images
  PROVE  /\ i.words \in Seq(Word) /\ i.startOfMemory \in Nat
         /\ i.firstSize \in Nat /\ i.firstSize >= 2
         /\ i.starts \subseteq Nat /\ i.references \subseteq Nat
<1>1. i \in Image /\ i.firstSize >= 2
  BY ImageLoadAssumption
<1> QED BY <1>1 DEF Image

LEMMA BaseFacts ==
  ASSUME loads \in 0 .. Len(Mapped), loads > 0
  PROVE  loads \in DOMAIN Mapped /\ Base \in Nat \ {0}
<1>1. Mapped \in Seq(Nat \ {0})
  BY ImageLoadAssumption
<1>2. loads \in 1 .. Len(Mapped) /\ DOMAIN Mapped = 1 .. Len(Mapped)
  BY <1>1, LenProperties
<1>3. Mapped[loads] \in Nat \ {0}
  BY <1>1, <1>2, ElementOfSeq
<1> QED BY <1>2, <1>3 DEF Base

(* A word is as it was if it is moved by nothing, and moved once if it was   *)
(* moved by nothing before.                                                  *)
LEMMA WordUnmoved ==
  ASSUME NEW w \in Word
  PROVE  [w EXCEPT !.value = @ + 0] = w
<1>1. w.value + 0 = w.value
  BY DEF Word
<1> QED BY <1>1 DEF Word

LEMMA WordMoved ==
  ASSUME NEW w \in Word, NEW d \in Int
  PROVE  /\ [w EXCEPT !.value = @ + d] \in MovedWord
         /\ [[w EXCEPT !.value = @ + 0] EXCEPT !.value = @ + d] = [w EXCEPT !.value = @ + d]
<1>1. [w EXCEPT !.value = @ + 0] = w
  BY WordUnmoved
<1>2. [w EXCEPT !.value = @ + d] \in MovedWord
  BY DEF Word, MovedWord
<1> QED BY <1>1, <1>2

(* A sequence is one over its own elements, ... *)
LEMMA SequenceOfAny ==
  ASSUME NEW S, NEW s \in Seq(S)
  PROVE  IsSequence(s)
<1> DEFINE R == {s[k] : k \in DOMAIN s}
<1>1. Len(s) \in Nat /\ s \in [1 .. Len(s) -> S] /\ DOMAIN s = 1 .. Len(s)
  BY LenProperties
<1>2. s \in [1 .. Len(s) -> R]
  BY <1>1
<1>3. s \in Seq(R)
  <2> HIDE DEF R
  <2> QED BY <1>1, <1>2, SeqDef
<1> QED BY <1>3 DEF IsSequence

(* ... and an info is put behind the others. *)
LEMMA InfoAppended ==
  ASSUME IsSequence(infos.entries), NEW a, NEW d, infos' = WithInfo(a, d)
  PROVE  /\ IsSequence(infos'.entries) /\ infos'.entries # <<>>
         /\ infos.entries # <<>> => infos'.entries[1] = infos.entries[1]
         /\ infos.entries = <<>> => infos'.entries = <<[start |-> a, swizzle |-> d]>>
<1> DEFINE s == infos.entries
           e == [start |-> a, swizzle |-> d]
           R == {s[k] : k \in DOMAIN s}
           T == R \cup {e}
<1>1. infos'.entries = Append(s, e)
  BY DEF WithInfo
<1>2. s \in Seq(R)
  BY DEF IsSequence
<1> HIDE DEF s, e, R
<1>3. s \in Seq(T) /\ e \in T
  BY <1>2, SeqMonotonic
<1> HIDE DEF T
<1>4. /\ Append(s, e) \in Seq(T) /\ Append(s, e) # <<>>
      /\ \A k \in 1 .. Len(s) : Append(s, e)[k] = s[k]
  BY <1>3, AppendProperties
<1>5. s # <<>> => Len(s) \in Nat \ {0}
  BY <1>3, EmptySeq
<1>6. IsSequence(Append(s, e))
  BY <1>4, SequenceOfAny
<1>7. s # <<>> => Append(s, e)[1] = s[1]
  BY <1>4, <1>5
<1>8. s = <<>> => Append(s, e) = <<e>>
  OBVIOUS
<1> QED BY <1>1, <1>4, <1>6, <1>7, <1>8 DEF s, e

(* An info for a segment that gets no room, or that begins where memory ends. *)
LEMMA FirstInfoKept ==
  ASSUME LoadParts, phase = "segments",
         NEW a, NEW d, infos' = WithInfo(a, d), a = 0 \/ a = AddressOf(Len(memory)),
         UNCHANGED loads
  PROVE  IsSequence(infos.entries)' /\ infos'.entries # <<>> /\ FirstInfoOf(loads)'
<1>1. /\ IsSequence(infos'.entries) /\ infos'.entries # <<>>
      /\ infos.entries # <<>> => infos'.entries[1] = infos.entries[1]
      /\ infos.entries = <<>> => infos'.entries = <<[start |-> a, swizzle |-> d]>>
  BY InfoAppended DEF LoadParts
<1>2. loads \in 1 .. loads /\ Base \in Nat
  BY BaseFacts DEF LoadParts
<1>3. infos.entries = <<>> => a \in {0, Base}
  <2>1. infos.entries = <<>> => Len(memory) = 0
    BY DEF LoadParts
  <2>2. WordBytes * 0 = 0
    BY ImageLoadAssumption
  <2> QED BY <1>2, <2>1, <2>2 DEF AddressOf
<1>4. infos'.entries[1].start \in {0} \cup {Mapped[k] : k \in 1 .. loads}
  <2>1. CASE infos.entries = <<>>
    <3>1. infos'.entries[1].start = a
      BY <1>1, <2>1
    <3> QED BY <1>2, <1>3, <2>1, <3>1 DEF Base
  <2>2. CASE infos.entries # <<>>
    BY <1>1, <2>2 DEF LoadParts, FirstInfoOf
  <2> QED BY <2>1, <2>2
<1> QED BY <1>1, <1>4 DEF FirstInfoOf, IsSequence

(* The parts of the invariant that hold in every phase. *)
LEMMA PartsInit == Init => LoadParts
<1>1. <<>> \in Seq({<<>>[k] : k \in DOMAIN <<>>})
  BY EmptySeq
<1>2. 0 \in 0 .. Len(Mapped)
  <2>1. Mapped \in Seq(Nat \ {0})
    BY ImageLoadAssumption
  <2>2. Len(Mapped) \in Nat
    BY <2>1, LenProperties
  <2> QED BY <2>2
<1> QED BY <1>1, <1>2 DEF Init, LoadParts, IsSequence, FirstInfoOf, Begin

(* Steps that leave the heap and its infos as they are. *)
LEMMA PartsKept ==
  ASSUME LoadParts, UNCHANGED <<loads, image, capacity, infos, memory, iterator>>,
         maxCapacity' \in Capacities \cup {DefaultCapacity},
         phase' \in {"idle", "crashed", phase}
  PROVE  LoadParts'
BY DEF LoadParts, FirstInfoOf, IsSequence

LEMMA PartsNext ==
  ASSUME LoadParts, [Next]_vars
  PROVE  LoadParts'
<1>0. /\ maxCapacity \in Capacities \cup {DefaultCapacity}
      /\ phase \in {"idle", "segments", "fixup", "roots", "crashed"}
  BY DEF LoadParts
<1>2. ASSUME NEW n \in Capacities, SetMaxHeapCapacity(n) PROVE LoadParts'
  BY PartsKept, <1>0, <1>2 DEF SetMaxHeapCapacity, heap, loop
<1>3. ASSUME NEW i \in Images, RejectHeader(i) \/ RejectSize(i) PROVE LoadParts'
  BY PartsKept, <1>0, <1>3 DEF RejectHeader, RejectSize, Fail, heap, loop
<1>4. ASSUME NEW i \in Images, StartLoad(i) PROVE LoadParts'
  <2>1. /\ loads < Len(Mapped) /\ loads' = loads + 1 /\ image' = i /\ phase' = "segments"
        /\ capacity' = maxCapacity /\ memory' = <<>> /\ iterator' = Begin
        /\ UNCHANGED <<maxCapacity, infos>>
    BY <1>4 DEF StartLoad
  <2>2. loads' \in 0 .. Len(Mapped) /\ loads' > 0 /\ 1 .. loads \subseteq 1 .. loads'
    <3>1. Mapped \in Seq(Nat \ {0})
      BY ImageLoadAssumption
    <3>2. Len(Mapped) \in Nat /\ loads \in 0 .. Len(Mapped)
      BY <3>1, LenProperties DEF LoadParts
    <3> QED BY <2>1, <3>2
  <2>3. IsSequence(infos.entries)' /\ FirstInfoOf(loads)'
    BY <2>1, <2>2 DEF LoadParts, FirstInfoOf, IsSequence
  <2>4. DOMAIN iterator' = {"start", "header", "count", "end", "atEnd"}
    BY <2>1 DEF Begin
  <2> QED BY <2>1, <2>2, <2>3, <2>4 DEF LoadParts
<1>5. CASE Run
  BY PartsKept, <1>0, <1>5 DEF Run, heap, loop
<1>6. CASE ReallocFreed
  BY PartsKept, <1>0, <1>6 DEF ReallocFreed, heap, loop
<1>7. CASE SegmentTooLarge \/ SegmentTruncated
  <2>1. /\ phase = "segments" /\ phase' = "idle"
        /\ UNCHANGED <<loads, image, maxCapacity, capacity, iterator>>
        /\ \E a, d : infos' = WithInfo(a, d) /\ (a = 0 \/ a = AddressOf(Len(memory)))
    BY <1>7 DEF SegmentTooLarge, SegmentTruncated, Fail, loop
  <2>2. IsSequence(infos.entries)' /\ FirstInfoOf(loads)'
    BY <2>1, FirstInfoKept
  <2> QED BY <2>1, <2>2 DEF LoadParts
<1>8. CASE LoadSegment
  <2>1. /\ phase = "segments" /\ phase' \in {"fixup", "segments"}
        /\ UNCHANGED <<loads, image, maxCapacity, capacity, iterator>>
        /\ infos' = WithInfo(AddressOf(Len(memory)), Swizzle)
    BY <1>8 DEF LoadSegment
  <2>2. IsSequence(infos.entries)' /\ infos'.entries # <<>> /\ FirstInfoOf(loads)'
    BY <2>1, FirstInfoKept
  <2> QED BY <2>1, <2>2 DEF LoadParts
<1>9. CASE FixObject
  <2>1. /\ UNCHANGED <<loads, image, maxCapacity, capacity, infos>>
        /\ phase = "fixup" /\ phase' \in {"fixup", "crashed"}
        /\ \/ iterator' = iterator
           \/ iterator' = Advanced(iterator) /\ ~Advanced(iterator).atEnd
    BY <1>9 DEF FixObject
  <2>2. DOMAIN iterator' = {"start", "header", "count", "end", "atEnd"}
    BY <2>1 DEF LoadParts, Advanced
  <2> QED BY <2>1, <2>2 DEF LoadParts, FirstInfoOf, IsSequence
<1>10. CASE EndFixup
  <2>1. /\ UNCHANGED <<loads, image, maxCapacity, capacity, infos, memory>>
        /\ phase = "fixup" /\ phase' = "roots" /\ iterator' = Advanced(iterator)
    BY <1>10 DEF EndFixup, heap
  <2>2. DOMAIN iterator' = {"start", "header", "count", "end", "atEnd"}
    BY <2>1 DEF LoadParts, Advanced
  <2> QED BY <2>1, <2>2 DEF LoadParts, FirstInfoOf, IsSequence
<1>11. CASE RejectRoots
  BY PartsKept, <1>0, <1>11 DEF RejectRoots, Fail, heap, loop
<1>12. CASE LoadRoots
  <2>1. /\ UNCHANGED <<loads, image, maxCapacity, capacity, iterator>>
        /\ phase' = "idle" /\ infos' = [entries |-> <<>>, dangling |-> TRUE]
    BY <1>12 DEF LoadRoots
  <2>2. <<>> \in Seq({<<>>[k] : k \in DOMAIN <<>>})
    BY EmptySeq
  <2> QED BY <2>1, <2>2 DEF LoadParts, FirstInfoOf, IsSequence
<1>13. CASE UNCHANGED vars
  BY PartsKept, <1>0, <1>13 DEF vars, heap, loop
<1> QED BY <1>2, <1>3, <1>4, <1>5, <1>6, <1>7, <1>8, <1>9, <1>10, <1>11, <1>12, <1>13 DEF Next, LoadStep

(* Words as they were in the image, before any reference.                    *)
LEMMA NothingMoved ==
  image \in Images /\ memory = image.words /\ Base \in Int =>
    \A e \in Int : (\A a \in image.references : ~(a < e)) => MovedUpTo(e)
<1> SUFFICES ASSUME image \in Images, memory = image.words, Base \in Int, NEW e \in Int,
                    \A a \in image.references : ~(a < e)
             PROVE  MovedUpTo(e)
  OBVIOUS
<1>1. image.words \in Seq(Word) /\ image.startOfMemory \in Nat /\ image.references \subseteq Nat
  BY ImageFacts
<1>2. \A a \in 0 .. Len(memory) - 1 : At(a) \in Word
  <2>1. Len(memory) \in Nat
    BY <1>1, LenProperties
  <2>2. \A a \in 0 .. Len(memory) - 1 : a + 1 \in 1 .. Len(memory)
    BY <2>1
  <2> QED BY <1>1, <2>2, ElementOfSeq DEF At
<1>3. ASSUME NEW a \in 0 .. Len(memory) - 1
      PROVE  At(a) = [image.words[a + 1] EXCEPT !.value =
                  @ + (IF a \in image.references /\ a < e THEN Base - image.startOfMemory ELSE 0)]
  <2>1. At(a) = image.words[a + 1] /\ image.words[a + 1] \in Word
    BY <1>2 DEF At
  <2>2. [image.words[a + 1] EXCEPT !.value = @ + 0] = image.words[a + 1]
    BY <2>1, WordUnmoved
  <2>3. ~(a \in image.references /\ a < e)
    OBVIOUS
  <2> QED BY <2>1, <2>2, <2>3
<1>4. Word \subseteq MovedWord
  BY DEF Word, MovedWord
<1>5. memory \in Seq(MovedWord)
  BY <1>1, <1>4, SeqMonotonic
<1> QED BY <1>3, <1>5 DEF MovedUpTo

LEMMA NothingMovedNext ==
  (image \in Images /\ memory = image.words /\ Base \in Int =>
     \A e \in Int : (\A a \in image.references : ~(a < e)) => MovedUpTo(e))'
BY NothingMoved, PTL

(* The segment is the words of the image, at the base of the address space.  *)
LEMMA SegmentIsImage ==
  ASSUME ImagesLaidOut, LoadParts, LoadPhases, OneSegment(image), LoadSegment, LoadParts'
  PROVE  LoadPhases'
<1> DEFINE w == image.words
           n == Len(w)
<1>1. image \in Images /\ loads \in 0 .. Len(Mapped) /\ loads > 0 /\ IsSequence(infos.entries)
  BY DEF LoadParts, LoadSegment
<1>2. w \in Seq(Word) /\ n \in Nat /\ n >= 2 /\ image.firstSize = n /\ image.startOfMemory \in Nat
      /\ image.references \subseteq Nat
  BY <1>1, ImageFacts, LenProperties DEF OneSegment
<1>3. LaidOut(image)
  BY <1>1 DEF ImagesLaidOut
<1>4. NothingRead
  <2>1. NothingRead \/ NothingLeft
    BY DEF LoadPhases, LoadSegment
  <2>2. Len(rest) >= next
    BY DEF LoadSegment
  <2>3. ~NothingLeft
    BY <2>2 DEF NothingLeft
  <2> QED BY <2>1, <2>3
<1>5. /\ memory = <<>> /\ rest = w /\ next = n /\ oldBase = image.startOfMemory
      /\ iterator = Begin /\ current = 0 /\ upcoming = 1 /\ FirstInfoOf(loads - 1)
  BY <1>2, <1>4 DEF NothingRead
<1>6. loads \in DOMAIN Mapped /\ Base \in Nat \ {0}
  BY <1>1, BaseFacts
<1>7. AddressOf(Len(memory)) = Base /\ Swizzle = Base - image.startOfMemory
  <2>1. Len(memory) = 0
    BY <1>5
  <2>2. WordBytes * 0 = 0
    BY ImageLoadAssumption
  <2>3. AddressOf(Len(memory)) = Base
    BY <1>6, <2>1, <2>2 DEF AddressOf
  <2> QED BY <1>5, <2>3 DEF Swizzle
<1>8. SubSeq(rest, 1, next) = w
  BY <1>2, <1>5, SubSeqFull
<1>9. w[next - 1].raw = 0
  BY <1>3, <1>5 DEF LaidOut
<1>10. /\ memory' = <<>> \o w
       /\ infos' = WithInfo(Base, Base - image.startOfMemory)
       /\ rest' = SubSeq(rest, next + 1, Len(rest))
       /\ next' = w[next].value
       /\ phase' = IF next' = 0 THEN "fixup" ELSE "segments"
       /\ Len(memory) + next <= capacity
       /\ UNCHANGED <<loads, image, capacity, iterator, current, upcoming>>
  BY <1>5, <1>7, <1>8, <1>9 DEF LoadSegment, HasRoom
<1>11. memory' = w
  BY <1>2, <1>10, ConcatEmptySeq
<1>12. rest' = <<>>
  <2>1. Len(rest) < next + 1 /\ next + 1 \in Int /\ Len(rest) \in Int
    BY <1>2, <1>5
  <2> QED BY <1>10, <2>1, SubSeqEmpty
<1>13. next' \in Nat
  <2>1. w[n] \in Word
    <3>1. n \in 1 .. n
      BY <1>2
    <3> QED BY <1>2, <3>1, ElementOfSeq
  <2> QED BY <1>5, <1>10, <2>1 DEF Word
<1>14. Base' = Base
  BY <1>10 DEF Base
<1>15. CASE next' # 0
  BY <1>10, <1>12, <1>13, <1>15 DEF LoadPhases, NothingLeft
<1>16. CASE next' = 0
  <2>1. iterator'.end = 0
    BY <1>5, <1>10 DEF Begin
  <2>2. MovedUpTo(iterator.end)'
    <3>1. \A a \in image'.references : ~(a < iterator'.end)
      BY <1>2, <1>10, <2>1
    <3>2. image' \in Images /\ memory' = image'.words /\ Base' \in Int /\ iterator'.end \in Int
      BY <1>1, <1>6, <1>10, <1>11, <1>14, <2>1
    <3> QED BY <3>1, <3>2, NothingMovedNext
  <2>3. Len(memory') <= capacity'
    BY <1>2, <1>5, <1>10, <1>11
  <2>4. iterator'.end \in image'.starts
    BY <1>3, <1>10, <2>1 DEF LaidOut
  <2>5. \A a \in image'.references : ~(a < iterator'.end)
    BY <1>2, <1>10, <2>1
  <2>6. /\ infos'.entries # <<>>
        /\ infos.entries # <<>> => infos'.entries[1] = infos.entries[1]
        /\ infos.entries = <<>> =>
             infos'.entries = <<[start |-> Base, swizzle |-> Base - image.startOfMemory]>>
    BY <1>1, <1>10, InfoAppended
  <2>7. CASE infos.entries = <<>>
    BY <1>5, <1>10, <1>14, <2>1, <2>2, <2>3, <2>4, <2>6, <2>7, <1>16
       DEF LoadPhases, Relocating
  <2>8. CASE infos.entries # <<>>
    <3>1. FirstInfoOf(loads - 1)'
      BY <1>5, <1>10, <2>6, <2>8 DEF FirstInfoOf
    <3> QED BY <1>5, <1>10, <2>2, <2>3, <2>4, <2>5, <2>6, <3>1, <1>16 DEF LoadPhases, Relocating
  <2> QED BY <2>7, <2>8
<1> QED BY <1>15, <1>16

(* What of the words not passed the walk looks at is as in the image.        *)
LEMMA ObjectAtEnd ==
  ASSUME image \in Images, LaidOut(image), MovedUpTo(iterator.end),
         iterator.end \in image.starts \cup {Len(image.words)},
         ~Advanced(iterator).atEnd
  PROVE  \E last \in Nat :
           /\ last \in image.starts \cup {Len(image.words)} /\ last <= Len(image.words)
           /\ iterator.end \in image.starts /\ iterator.end < last
           /\ Advanced(iterator).start = iterator.end /\ Advanced(iterator).end = last
           /\ {a \in Movable(Advanced(iterator)) : At(a).pointer}
                = {a \in iterator.end .. last - 1 : a \in image.references}
<1> DEFINE w == image.words
           n == Len(w)
           s == iterator.end
           h == HeaderIn(w, s)
           c == CountIn(w, h)
           e == h + 1 + AtLeastOne(c)
           M == MovableIn(w, h, c)
           it == Advanced(iterator)
<1>1. /\ w \in Seq(Word) /\ n \in Nat /\ image.starts \subseteq Nat /\ image.references \subseteq Nat
      /\ Big \in Nat
  BY ImageFacts, LenProperties, ImageLoadAssumption
<1>2. memory \in Seq(MovedWord) /\ Len(memory) = n
  BY DEF MovedUpTo
<1>3. s \in Nat /\ ~(s + 1 >= n) /\ s \in image.starts
  <2>1. ~(s + 1 >= Len(memory))
    BY DEF Advanced
  <2> QED BY <1>1, <1>2, <2>1
<1>4. ASSUME NEW a \in s .. n - 1
      PROVE  memory[a + 1] = w[a + 1] /\ w[a + 1] \in Word
  <2>1. a \in 0 .. Len(memory) - 1 /\ ~(a < s) /\ a + 1 \in 1 .. Len(w)
    BY <1>1, <1>2, <1>3
  <2>2. w[a + 1] \in Word
    BY <1>1, <2>1, ElementOfSeq
  <2>3. memory[a + 1] = [w[a + 1] EXCEPT !.value = @ + 0]
    BY <2>1 DEF MovedUpTo, At
  <2>4. [w[a + 1] EXCEPT !.value = @ + 0] = w[a + 1]
    BY <2>2, WordUnmoved
  <2> QED BY <2>2, <2>3, <2>4
<1>5. /\ s + 1 < n /\ e \in image.starts \cup {n} /\ M \subseteq h + 1 .. e - 1
      /\ \A a \in s .. e - 1 : a \in image.references <=> a \in M /\ w[a + 1].pointer
  BY <1>3 DEF LaidOut
<1>6. h \in {s, s + 1} /\ h \in s .. n - 1 /\ h \in Nat
  BY <1>1, <1>3 DEF HeaderIn
<1>7. c \in Nat
  <2>1. w[h + 1] \in Word
    BY <1>4, <1>6
  <2>2. CASE w[h + 1].raw # Big
    BY <2>1, <2>2 DEF CountIn, Word
  <2>3. CASE w[h + 1].raw = Big
    <3>1. h = s + 1
      BY <1>6, <2>3 DEF HeaderIn
    <3>2. w[s + 1] \in Word
      <4>1. s \in s .. n - 1
        BY <1>1, <1>3
      <4> QED BY <1>4, <4>1
    <3>3. c = w[s + 1].value
      BY <2>3, <3>1 DEF CountIn
    <3> QED BY <3>2, <3>3 DEF Word
  <2> QED BY <2>2, <2>3
<1>8. e \in Nat /\ h + 2 <= e /\ e <= n
  <2>1. AtLeastOne(c) \in Nat /\ AtLeastOne(c) >= 1
    BY <1>7 DEF AtLeastOne
  <2>2. e \in Nat /\ h + 2 <= e
    BY <1>6, <2>1
  <2>3. \A x \in image.starts : x + 1 < n
    BY DEF LaidOut
  <2>4. e <= n
    <3> HIDE DEF e
    <3> QED BY <1>1, <1>5, <2>2, <2>3
  <2> QED BY <2>2, <2>4
<1>9. HeaderIn(memory, s) = h
  <2>1. memory[s + 1] = w[s + 1]
    <3>1. s \in s .. n - 1
      BY <1>1, <1>3
    <3> QED BY <1>4, <3>1
  <2> QED BY <2>1 DEF HeaderIn
<1>10. CountIn(memory, h) = c
  <2>1. memory[h + 1] = w[h + 1]
    BY <1>4, <1>6
  <2>2. w[h + 1].raw = Big => memory[h] = w[h]
    <3>1. ASSUME w[h + 1].raw = Big PROVE memory[h] = w[h]
      <4>1. h = s + 1 /\ s \in s .. n - 1
        BY <1>1, <1>3, <1>6, <3>1 DEF HeaderIn
      <4>2. memory[s + 1] = w[s + 1]
        BY <1>4, <4>1
      <4> QED BY <4>1, <4>2
    <3> QED BY <3>1
  <2> QED BY <2>1, <2>2 DEF CountIn
<1>11. it = [start |-> s, header |-> h, count |-> c, end |-> e, atEnd |-> FALSE]
  BY <1>1, <1>2, <1>3, <1>9, <1>10 DEF Advanced, SlotCount
<1>12. Movable(it) = M
  <2>1. memory[h + 1] = w[h + 1]
    BY <1>4, <1>6
  <2>2. memory[h + 2] = w[h + 2]
    <3>1. h + 1 \in s .. n - 1 /\ h + 1 + 1 = h + 2
      BY <1>1, <1>3, <1>6, <1>8
    <3>2. memory[h + 1 + 1] = w[h + 1 + 1]
      BY <1>4, <3>1
    <3> QED BY <3>1, <3>2
  <2>3. it.header = h /\ it.count = c
    BY <1>11
  <2> HIDE DEF it, h, c
  <2> QED BY <2>1, <2>2, <2>3 DEF Movable, MovableIn
<1>13. ASSUME NEW a PROVE (a \in M /\ At(a).pointer) <=> (a \in s .. e - 1 /\ a \in image.references)
  <2> HIDE DEF M, e, h, c
  <2>1. a \in M => a \in s .. e - 1
    BY <1>3, <1>5, <1>6, <1>8
  <2>2. a \in s .. e - 1 => At(a) = w[a + 1]
    <3>1. a \in s .. e - 1 => a \in s .. n - 1
      BY <1>1, <1>3, <1>8
    <3> QED BY <1>4, <3>1 DEF At
  <2> QED BY <1>5, <2>1, <2>2
<1>14. {a \in Movable(it) : At(a).pointer} = {a \in s .. e - 1 : a \in image.references}
  <2> HIDE DEF M, e, it, s
  <2> QED BY <1>12, <1>13
<1>15. /\ e \in Nat /\ e \in image.starts \cup {n} /\ e <= n /\ s \in image.starts /\ s < e
       /\ it.start = s /\ it.end = e
  <2>1. it.start = s /\ it.end = e
    BY <1>11
  <2>2. s < e
    <3> HIDE DEF e, h, s
    <3> QED BY <1>3, <1>6, <1>8
  <2> QED BY <1>3, <1>5, <1>8, <2>1, <2>2
<1> HIDE DEF e, it, s, n
<1> QED BY <1>14, <1>15 DEF s, it, n

(* The references of one object are moved, or there are none to be moved.    *)
LEMMA ObjectMoved ==
  ASSUME ImagesLaidOut, SpacesApart, LoadParts, LoadPhases, OneSegment(image), FixObject
  PROVE  LoadPhases'
<1> DEFINE s   == iterator.end
           it  == Advanced(iterator)
           w   == image.words
           d   == Base - image.startOfMemory
           refs == {a \in Movable(it) : At(a).pointer}
           segment == IF AtNextSegment(it) THEN upcoming ELSE current
<1>1. image \in Images /\ loads \in 0 .. Len(Mapped) /\ loads > 0 /\ IsSequence(infos.entries)
  BY DEF LoadParts, FixObject
<1>2. /\ w \in Seq(Word) /\ Len(w) \in Nat /\ image.startOfMemory \in Nat
      /\ image.references \subseteq Nat /\ image.starts \subseteq Nat
  BY <1>1, ImageFacts, LenProperties
<1>3. LaidOut(image) /\ Relocating
  BY <1>1 DEF ImagesLaidOut, LoadPhases, FixObject
<1>4. /\ MovedUpTo(s) /\ Len(memory) <= capacity /\ s \in image.starts \cup {Len(w)}
      /\ memory \in Seq(MovedWord) /\ Len(memory) = Len(w)
  BY <1>3 DEF Relocating, MovedUpTo
<1>5. PICK last \in Nat :
        /\ last \in image.starts \cup {Len(w)} /\ last <= Len(w)
        /\ s \in image.starts /\ s < last /\ it.start = s /\ it.end = last
        /\ refs = {a \in s .. last - 1 : a \in image.references}
  <2>1. ~it.atEnd
    BY DEF FixObject
  <2> QED BY <1>1, <1>3, <1>4, <2>1, ObjectAtEnd
<1>6. loads \in DOMAIN Mapped /\ Base \in Nat \ {0} /\ d \in Int
  BY <1>1, <1>2, BaseFacts
<1>7. UNCHANGED <<error, loads, image, capacity, infos>> /\ Base' = Base
  BY DEF FixObject, Base
<1>8. CASE refs # {} /\ segment = 0
  <2>1. phase' = "crashed"
    BY <1>8 DEF FixObject
  <2> QED BY <2>1 DEF LoadPhases
<1>9. CASE ~(refs # {} /\ segment = 0)
  <2>1. /\ memory' = [i \in DOMAIN memory |->
                        IF i - 1 \in refs
                        THEN [memory[i] EXCEPT !.value = @ + infos.entries[segment].swizzle]
                        ELSE memory[i]]
        /\ iterator' = it /\ current' = segment
        /\ upcoming' = IF AtNextSegment(it) THEN upcoming + 1 ELSE upcoming
        /\ phase' = "fixup"
    BY <1>9 DEF FixObject
  <2>2. iterator'.end = last /\ s \in Nat
    BY <1>2, <1>5, <2>1
  <2>3. /\ DOMAIN memory = 1 .. Len(w)
        /\ \A a \in 0 .. Len(w) - 1 :
             /\ w[a + 1] \in Word
             /\ memory[a + 1] = [w[a + 1] EXCEPT !.value =
                                   @ + (IF a \in image.references /\ a < s THEN d ELSE 0)]
    <3>1. DOMAIN memory = 1 .. Len(w)
      BY <1>4, LenProperties
    <3>2. \A a \in 0 .. Len(w) - 1 : w[a + 1] \in Word
      <4>1. \A a \in 0 .. Len(w) - 1 : a + 1 \in 1 .. Len(w)
        BY <1>2
      <4> QED BY <1>2, <4>1, ElementOfSeq
    <3> QED BY <1>4, <3>1, <3>2 DEF MovedUpTo, At
  <2>4. ASSUME refs # {} => infos.entries[segment].swizzle = d
        PROVE  /\ memory' \in Seq(MovedWord) /\ Len(memory') = Len(w)
               /\ \A a \in 0 .. Len(w) - 1 :
                    memory'[a + 1] = IF a \in refs THEN [memory[a + 1] EXCEPT !.value = @ + d]
                                     ELSE memory[a + 1]
    <3>1. memory' = [i \in 1 .. Len(w) |->
                      IF i - 1 \in refs THEN [memory[i] EXCEPT !.value = @ + d] ELSE memory[i]]
      <4> HIDE DEF refs, segment, d
      <4> QED BY <2>1, <2>3, <2>4
    <3>2. \A i \in 1 .. Len(w) : memory[i] \in MovedWord
      BY <1>4, ElementOfSeq
    <3>3. \A i \in 1 .. Len(w) : memory'[i] \in MovedWord
      <4> HIDE DEF refs, d
      <4>1. \A x \in MovedWord : [x EXCEPT !.value = @ + d] \in MovedWord
        BY <1>6 DEF MovedWord
      <4> QED BY <3>1, <3>2, <4>1
    <3>4. memory' \in [1 .. Len(w) -> MovedWord]
      <4> HIDE DEF refs, d
      <4> QED BY <3>1, <3>3
    <3>5. memory' \in Seq(MovedWord)
      BY <1>2, <3>4, SeqDef
    <3>6. Len(memory') = Len(w)
      <4>1. Len(memory') \in Nat /\ DOMAIN memory' = 1 .. Len(memory')
        BY <3>5, LenProperties
      <4>2. DOMAIN memory' = 1 .. Len(w)
        BY <3>4
      <4> QED BY <1>2, <4>1, <4>2
    <3>7. ASSUME NEW a \in 0 .. Len(w) - 1
          PROVE  memory'[a + 1] = IF a \in refs THEN [memory[a + 1] EXCEPT !.value = @ + d]
                                  ELSE memory[a + 1]
      <4>1. a + 1 \in 1 .. Len(w) /\ a + 1 - 1 = a
        BY <1>2
      <4> HIDE DEF refs, d
      <4> QED BY <3>1, <4>1
    <3> QED BY <3>5, <3>6, <3>7
  <2>5. CASE /\ infos.entries = <<[start |-> Base, swizzle |-> d]>>
             /\ \/ s = 0 /\ current = 0 /\ upcoming = 1
                \/ current = 1 /\ upcoming = 2
    <3>1. Len(infos.entries) = 1 /\ infos.entries[1] = [start |-> Base, swizzle |-> d]
      BY <2>5
    <3>2. segment = 1 /\ upcoming' = 2
      <4>1. CASE upcoming = 1 /\ s = 0
        <5>1. AddressOf(it.start) = Base
          <6>1. WordBytes * 0 = 0
            BY ImageLoadAssumption
          <6> QED BY <1>5, <1>6, <4>1, <6>1 DEF AddressOf
        <5>2. AtNextSegment(it)
          BY <3>1, <4>1, <5>1 DEF AtNextSegment
        <5> QED BY <2>1, <4>1, <5>2
      <4>2. CASE upcoming = 2 /\ current = 1
        <5>1. ~AtNextSegment(it)
          BY <3>1, <4>2 DEF AtNextSegment
        <5> QED BY <2>1, <4>2, <5>1
      <4> QED BY <2>5, <4>1, <4>2
    <3>3. infos.entries[segment].swizzle = d
      BY <3>1, <3>2
    <3>4. /\ memory' \in Seq(MovedWord) /\ Len(memory') = Len(w)
          /\ \A a \in 0 .. Len(w) - 1 :
               memory'[a + 1] = IF a \in refs THEN [memory[a + 1] EXCEPT !.value = @ + d]
                                ELSE memory[a + 1]
      BY <2>4, <3>3
    <3>5. ASSUME NEW a \in 0 .. Len(w) - 1
          PROVE  memory'[a + 1] = [w[a + 1] EXCEPT !.value =
                   @ + (IF a \in image.references /\ a < last THEN d ELSE 0)]
      <4> HIDE DEF d, w
      <4>1. CASE a \in refs
        <5>1. a \in image.references /\ a < last /\ ~(a < s)
          BY <1>5, <2>2, <4>1
        <5>2. memory[a + 1] = [w[a + 1] EXCEPT !.value = @ + 0] /\ w[a + 1] \in Word
          BY <2>3, <5>1
        <5>3. memory'[a + 1] = [memory[a + 1] EXCEPT !.value = @ + d]
          BY <3>4, <4>1
        <5>4. [[w[a + 1] EXCEPT !.value = @ + 0] EXCEPT !.value = @ + d]
                = [w[a + 1] EXCEPT !.value = @ + d]
          BY <1>6, <5>2, WordMoved
        <5> QED BY <5>1, <5>2, <5>3, <5>4
      <4>2. CASE a \notin refs
        <5>1. (a \in image.references /\ a < last) <=> (a \in image.references /\ a < s)
          <6>1. a \in image.references /\ ~(a < s) /\ a < last => a \in s .. last - 1
            BY <2>2
          <6>2. a < s => a < last
            BY <1>5, <2>2
          <6> QED BY <1>5, <4>2, <6>1, <6>2
        <5> QED BY <2>3, <3>4, <4>2, <5>1
      <4> QED BY <4>1, <4>2
    <3>6. MovedUpTo(iterator.end)'
      BY <1>7, <2>2, <3>4, <3>5 DEF MovedUpTo, At
    <3>7. Relocating'
      BY <1>4, <1>5, <1>7, <2>1, <2>2, <2>5, <3>2, <3>4, <3>6 DEF Relocating
    <3> QED BY <2>1, <3>7 DEF LoadPhases
  <2>6. CASE FirstInfoOf(loads - 1) /\ infos.entries # <<>> /\ current = 0 /\ upcoming = 1
             /\ \A a \in image.references : ~(a < s)
    <3>1. ~AtNextSegment(it)
      <4>1. infos.entries[1].start \in {0} \cup {Mapped[k] : k \in 1 .. loads - 1}
        BY <2>6 DEF FirstInfoOf
      <4>2. AddressOf(it.start) = Mapped[loads] + WordBytes * s
        BY <1>5 DEF AddressOf, Base
      <4>3. capacity \in Capacities \cup {DefaultCapacity} /\ s \in 0 .. capacity
        <5>1. capacity \in Capacities \cup {DefaultCapacity} /\ capacity \in Nat
          BY ImageLoadAssumption DEF LoadParts
        <5>2. s <= capacity
          BY <1>2, <1>4, <1>5, <2>2, <5>1
        <5> QED BY <2>2, <5>1, <5>2
      <4>4. ASSUME NEW k \in 1 .. loads - 1 PROVE Mapped[k] # Mapped[loads] + WordBytes * s
        <5>1. k \in DOMAIN Mapped /\ k # loads
          <6>1. Mapped \in Seq(Nat \ {0})
            BY ImageLoadAssumption
          <6>2. DOMAIN Mapped = 1 .. Len(Mapped)
            BY <6>1, LenProperties
          <6> QED BY <1>1, <6>2
        <5> QED BY <1>6, <4>3, <5>1 DEF SpacesApart
      <4>5. Mapped[loads] + WordBytes * s # 0
        <5>1. WordBytes * s \in Nat
          <6>1. WordBytes \in Nat
            BY ImageLoadAssumption
          <6> QED BY <2>2, <6>1
        <5> QED BY <1>6, <5>1 DEF Base
      <4> QED BY <2>6, <4>1, <4>2, <4>4, <4>5 DEF AtNextSegment
    <3>2. segment = 0 /\ refs = {} /\ current' = 0 /\ upcoming' = 1
      BY <1>9, <2>1, <2>6, <3>1
    <3>2a. /\ memory' \in Seq(MovedWord) /\ Len(memory') = Len(w)
           /\ \A a \in 0 .. Len(w) - 1 :
                memory'[a + 1] = IF a \in refs THEN [memory[a + 1] EXCEPT !.value = @ + d]
                                 ELSE memory[a + 1]
      BY <2>4, <3>2
    <3>3. \A a \in image.references : ~(a < last)
      <4>1. ASSUME NEW a \in image.references, a < last PROVE FALSE
        <5>1. a \in s .. last - 1
          BY <1>2, <2>2, <2>6, <4>1
        <5> QED BY <1>5, <3>2, <5>1
      <4> QED BY <4>1
    <3>4. MovedUpTo(iterator.end)'
      <4>1. ASSUME NEW a \in 0 .. Len(memory') - 1
            PROVE  memory'[a + 1] = [w[a + 1] EXCEPT !.value =
                     @ + (IF a \in image.references /\ a < last THEN d ELSE 0)]
        <5>1. memory'[a + 1] = memory[a + 1] /\ a \in 0 .. Len(w) - 1
          BY <3>2, <3>2a, <4>1
        <5>2. ~(a \in image.references /\ a < last) /\ ~(a \in image.references /\ a < s)
          BY <2>6, <3>3
        <5> QED BY <2>3, <5>1, <5>2
      <4> QED BY <1>7, <2>2, <3>2a, <4>1 DEF MovedUpTo, At
    <3>5. Relocating'
      <4>1. FirstInfoOf(loads - 1)'
        BY <1>7, <2>6 DEF FirstInfoOf
      <4> QED BY <1>4, <1>5, <1>7, <2>2, <2>6, <3>2, <3>2a, <3>3, <3>4, <4>1 DEF Relocating
    <3> QED BY <2>1, <3>5 DEF LoadPhases
  <2> QED BY <1>3, <2>5, <2>6 DEF Relocating
<1> QED BY <1>8, <1>9

(* The walk ends at the end of the last object.                              *)
LEMMA WalkOver ==
  ASSUME ImagesLaidOut, LoadParts, LoadPhases, OneSegment(image), EndFixup
  PROVE  LoadPhases'
<1>1. image \in Images /\ DOMAIN iterator = {"start", "header", "count", "end", "atEnd"}
  BY DEF LoadParts
<1>2. /\ LaidOut(image) /\ MovedUpTo(iterator.end)
      /\ iterator.end \in image.starts \cup {Len(image.words)}
  BY <1>1 DEF ImagesLaidOut, LoadPhases, EndFixup, Relocating
<1>3. Len(image.words) \in Nat /\ image.starts \subseteq Nat /\ Len(memory) = Len(image.words)
  BY <1>1, <1>2, ImageFacts, LenProperties DEF MovedUpTo
<1>4. iterator.end + 1 >= Len(memory)
  BY DEF EndFixup, Advanced
<1>5. iterator.end = Len(memory)
  <2>1. \A s \in image.starts : s + 1 < Len(image.words)
    BY <1>2 DEF LaidOut
  <2> QED BY <1>2, <1>3, <1>4, <2>1
<1>6. /\ iterator'.end = iterator.end /\ phase' = "roots"
      /\ UNCHANGED <<memory, image, loads>>
  BY <1>1, <1>4 DEF EndFixup, Advanced, heap
<1>7. MovedUpTo(iterator.end)'
  BY <1>2, <1>6 DEF MovedUpTo, At, Base
<1> QED BY <1>5, <1>6, <1>7 DEF LoadPhases

(* The parts that depend on the phase. *)
LEMMA PhasesKept ==
  ASSUME LoadPhases,
         UNCHANGED <<phase, error, loads, image, capacity, memory, infos, rest, next, oldBase,
                     iterator, current, upcoming>>
  PROVE  LoadPhases'
<1>1. \A e : MovedUpTo(e)' <=> MovedUpTo(e)
  BY DEF MovedUpTo, At, Base
<1>2. \A n : FirstInfoOf(n)' <=> FirstInfoOf(n)
  BY DEF FirstInfoOf
<1>3. (NothingRead' <=> NothingRead) /\ (NothingLeft' <=> NothingLeft)
  BY <1>2 DEF NothingRead, NothingLeft
<1>4. Relocating' <=> Relocating
  BY <1>1, <1>2 DEF Relocating, Base
<1> QED BY <1>1, <1>3, <1>4 DEF LoadPhases, OneSegment

LEMMA PhasesNext ==
  ASSUME ImagesLaidOut, SpacesApart, LoadInv, [Next]_vars
  PROVE  LoadPhases'
<1>0. LoadParts /\ LoadPhases
  BY DEF LoadInv
<1>1. LoadParts'
  BY <1>0, PartsNext
<1>2. ASSUME NEW n \in Capacities, SetMaxHeapCapacity(n) PROVE LoadPhases'
  BY <1>2, <1>0, PhasesKept DEF SetMaxHeapCapacity, heap, loop
<1>3. CASE Run
  BY <1>3, <1>0, PhasesKept DEF Run, heap, loop
<1>4. CASE UNCHANGED vars
  BY <1>4, <1>0, PhasesKept DEF vars, heap, loop
<1>6. ASSUME NEW i \in Images, RejectHeader(i) \/ RejectSize(i) PROVE LoadPhases'
  BY <1>6 DEF RejectHeader, RejectSize, Fail, LoadPhases
<1>7. ASSUME NEW i \in Images, StartLoad(i) PROVE LoadPhases'
  <2>1. /\ phase' = "segments" /\ loads' = loads + 1 /\ image' = i /\ memory' = <<>>
        /\ rest' = i.words /\ next' = i.firstSize /\ oldBase' = i.startOfMemory
        /\ iterator' = Begin /\ current' = 0 /\ upcoming' = 1 /\ UNCHANGED infos
    BY <1>7 DEF StartLoad
  <2>2. loads' - 1 = loads
    <3>1. Mapped \in Seq(Nat \ {0})
      BY ImageLoadAssumption
    <3>2. Len(Mapped) \in Nat /\ loads \in 0 .. Len(Mapped)
      BY <1>0, <3>1, LenProperties DEF LoadParts
    <3> QED BY <2>1, <3>2
  <2>3. FirstInfoOf(loads - 1)'
    BY <1>0, <2>1, <2>2 DEF LoadParts, FirstInfoOf
  <2>4. Begin' = Begin
    BY DEF Begin
  <2> QED BY <2>1, <2>3, <2>4 DEF LoadPhases, NothingRead
<1>8. ASSUME ReallocFreed \/ SegmentTooLarge \/ SegmentTruncated \/ RejectRoots
      PROVE  LoadPhases'
  <2>1. CASE ReallocFreed
    BY <2>1 DEF ReallocFreed, LoadPhases
  <2>2. CASE SegmentTooLarge
    BY <2>2 DEF SegmentTooLarge, Fail, LoadPhases
  <2>3. CASE SegmentTruncated
    BY <2>3 DEF SegmentTruncated, Fail, LoadPhases
  <2>4. CASE RejectRoots
    BY <2>4 DEF RejectRoots, Fail, LoadPhases
  <2> QED BY <1>8, <2>1, <2>2, <2>3, <2>4
<1>9. CASE ~OneSegment(image) /\ UNCHANGED image
  BY <1>0, <1>9 DEF LoadPhases, OneSegment
<1>10. CASE LoadSegment
  BY <1>1, <1>9, <1>10, <1>0, SegmentIsImage DEF LoadSegment
<1>11. CASE FixObject
  BY <1>9, <1>11, <1>0, ObjectMoved DEF FixObject
<1>12. CASE EndFixup
  BY <1>9, <1>12, <1>0, WalkOver DEF EndFixup
<1>13. CASE LoadRoots
  <2>1. phase = "roots" /\ phase' = "idle" /\ UNCHANGED <<loads, image, memory, iterator>>
    BY <1>13 DEF LoadRoots
  <2>2. OneSegment(image) => MovedUpTo(iterator.end)
    BY <1>0, <2>1 DEF LoadPhases
  <2>3. OneSegment(image) => MovedUpTo(iterator.end)'
    BY <2>1, <2>2 DEF MovedUpTo, At, Base
  <2> QED BY <2>1, <2>3 DEF LoadPhases, OneSegment
<1> QED BY <1>2, <1>3, <1>4, <1>6, <1>7, <1>8, <1>10, <1>11, <1>12, <1>13 DEF Next, LoadStep

LEMMA LoadInvariance == ImagesLaidOut /\ SpacesApart => (Spec => []LoadInv)
<1> SUFFICES ASSUME ImagesLaidOut, SpacesApart PROVE Spec => []LoadInv
  OBVIOUS
<1>1. Init => LoadInv
  BY PartsInit DEF Init, LoadInv, LoadPhases
<1>2. LoadInv /\ [Next]_vars => LoadInv'
  BY PartsNext, PhasesNext DEF LoadInv
<1> QED BY <1>1, <1>2, PTL DEF Spec

(* The loop of crankvm_heap_loadImageContent moves each reference of an      *)
(* image of one segment once, by its segment's swizzle, and nothing else,    *)
(* whatever loads have left infos behind; in what it has not come to yet,    *)
(* and in a load that ended well, no other word differs from the image.      *)
THEOREM ReferencesMovedOnce == ImagesLaidOut /\ SpacesApart => (Spec => []EachReferenceMovedOnce)
<1>1. LoadInv => EachReferenceMovedOnce
  BY DEF LoadInv, LoadPhases, MovedUpTo, EachReferenceMovedOnce, Loaded, Relocating
<1> QED BY <1>1, LoadInvariance, PTL

(* assert(iterator.currentObjectEnd == targetSegment->size).                 *)
THEOREM WalkEndsWithSegment == ImagesLaidOut /\ SpacesApart => (Spec => []WalkEndsAtSize)
<1>1. LoadInv => WalkEndsAtSize
  BY DEF LoadInv, LoadPhases, WalkEndsAtSize
<1> QED BY <1>1, LoadInvariance, PTL

=============================================================================
