----------------------------- MODULE MCImageLoad -----------------------------
(* ImageLoad on small images, put together from descriptions of their        *)
(* objects.                                                                  *)
EXTENDS ImageLoad

Start == 800

(* What the words of an image can be: an integer, a reference to the object  *)
(* whose first word has this index, and data that looks like a reference.    *)
Imm(n)  == [raw |-> 0, format |-> 0, pointer |-> FALSE, value |-> n]
Ref(a)  == [raw |-> 0, format |-> 0, pointer |-> TRUE, value |-> Start + WordBytes * a]
Data    == [raw |-> 0, format |-> 0, pointer |-> TRUE, value |-> 2000]
Header(n, format) == [raw |-> n, format |-> format, pointer |-> FALSE, value |-> 0]
Count(n) == [raw |-> Big, format |-> 0, pointer |-> FALSE, value |-> n]

(* nil, false and true at 0, 2 and 4, the free list at 6, the hidden roots   *)
(* (three pages) at 9, the special objects at 14, a page at 18, a method of  *)
(* one literal at 21, some bytes at 25; the last bridge.                     *)
Objects(second, third, fourth, pages) ==
  <<Header(0, 0), Imm(0), Header(0, 0), Imm(0), Header(0, 0), Imm(0), Header(1, 9), Data>>
    \o <<Count(3), Header(Big, 2)>> \o pages
    \o <<Count(3), Header(Big, 2), second, third, fourth>>
    \o <<Header(1, 1), Ref(4)>>
    \o <<Count(3), Header(Big, 24), Imm(1), Ref(4), Data>>
    \o <<Header(1, 16), Data>>

LastBridge == <<Header(0, 0), Imm(0)>>

Starts     == {0, 2, 4, 6, 8, 13, 18, 20, 25, 27}
References == {10, 11, 12, 15, 16, 17, 19, 23}

File(version, claimed, words, refs) ==
  [readable |-> TRUE, version |-> version, littleEndian |-> TRUE, wholeHeader |-> TRUE,
   imageWords |-> claimed, startOfMemory |-> Start, specialObjects |-> Start + WordBytes * 14,
   lastHash |-> 1, firstSize |-> Len(words), words |-> words, starts |-> Starts,
   references |-> {a \in refs : words[a + 1].pointer}]

PagesFull   == <<Ref(18), Ref(18), Ref(18)>>
PagesHole   == <<Ref(18), Ref(0), Ref(18)>>
PagesTwo    == <<Ref(18), Ref(18), Ref(0)>>
PagesNone   == <<Ref(0), Ref(0), Ref(0)>>

Good(pages)  == Objects(Ref(0), Ref(2), Ref(4), pages) \o LastBridge
Swapped      == Objects(Ref(0), Ref(4), Ref(2), PagesFull) \o LastBridge
File1(words) == File(68021, Len(words), words, References)

(* Images of one segment: good ones, one whose roots are not in order, one   *)
(* without class table, one cut short, one larger than its header says; and  *)
(* files of every known version, unreadable ones and ones cut short.         *)
GoodAndBad ==
  {File1(Good(PagesFull)), File1(Good(PagesHole)), File1(Good(PagesTwo)),
   File1(Swapped), File1(Good(PagesNone)),
   [File1(Good(PagesFull)) EXCEPT !.words = SubSeq(@, 1, 20)],
   [File1(Good(PagesTwo)) EXCEPT !.imageWords = 12],
   [File1(Good(PagesTwo)) EXCEPT !.version = 68019]}
  \cup {[File1(Good(PagesFull)) EXCEPT !.version = v, !.littleEndian = e] :
          v \in {6502, 6504, 6505, 6521, 68000, 68002, 68003, 68019, 68021}, e \in {TRUE, FALSE}}
  \cup {[File1(Good(PagesFull)) EXCEPT !.readable = FALSE],
        [File1(Good(PagesFull)) EXCEPT !.wholeHeader = FALSE]}

(* The same objects, those from the method on in a second segment. *)
TwoSegments ==
  LET words == Objects(Ref(0), Ref(2), Ref(4), PagesTwo)
      first == SubSeq(words, 1, 20) \o <<Count(4), Imm(9)>>
  IN  {[File1(first \o SubSeq(words, 21, Len(words)) \o LastBridge) EXCEPT !.firstSize = 22]}

AllFiles == GoodAndBad \cup TwoSegments

(* The hypotheses of the theorems about relocation. *)
ASSUME ImagesLaidOut

TwoMappings == <<80, 1600>>
OtherCapacities == {16, 32}

ASSUME SpacesApart
=============================================================================
