---------------------------- MODULE FramesProofs ----------------------------
(***************************************************************************)
(* Proof that Frames implements OperandStacks, for every set of methods,   *)
(* frame size, program of the bytecodes and number of contexts.            *)
(***************************************************************************)
EXTENDS FramesRefinement, SequenceTheorems, TLAPS

ContextObject ==
  [slots : [Slot -> Oop], stackp : 0 .. FrameSize, sender : Nat, receiver : Oop, method : Methods]

Object == [slots : Seq(Oop), block : BOOLEAN, numArgs : Nat, outer : Nat]

TypeOK ==
  /\ contexts \in Seq(ContextObject)
  /\ active \in DOMAIN contexts
  /\ sp \in 0 .. FrameSize
  /\ calling \in BOOLEAN
  /\ objects \in Seq(Object) /\ Len(objects) \in 1 .. MaxObjects
  /\ globals \in [1 .. NumGlobals -> Oop]

(* A context is created after those it returns to. *)
SendersAreOlder == \A c \in DOMAIN contexts : contexts[c].sender < c

(* A block's arguments and captured values fit a frame. *)
BlocksFit ==
  \A b \in Block : /\ objects[b].outer \in DOMAIN contexts
                   /\ objects[b].numArgs + Len(objects[b].slots) <= FrameSize

(* A method whose primitive is next has its temporaries on the stack and no  *)
(* more; only blocks are sent value.                                         *)
CallsAtStart ==
  calling => /\ sp = NumTemps[Frame.method]
             /\ Frame.method \in ValueMethods => Frame.receiver \in Block

IInv == TypeOK /\ SendersAreOlder /\ BlocksFit /\ CallsAtStart

-----------------------------------------------------------------------------
(* Chains of senders *)

(* The sender of every context up to n is older. *)
Older(ctx, n) == \A d \in 1 .. n : ctx[d].sender \in 0 .. d - 1

(* The chain of a context is closed and holds the context. *)
LEMMA ChainClosed ==
  ASSUME NEW ctx, NEW n \in Nat, Older(ctx, n), NEW c \in 1 .. n
  PROVE  /\ c \in ChainIn(ctx, c) /\ ChainIn(ctx, c) \subseteq 1 .. c
         /\ Closed(ctx, ChainIn(ctx, c))
         /\ 1 .. c \subseteq 1 .. n
<1>1. \A d \in 1 .. c : d \in 1 .. n
  OBVIOUS
<1>2. c \in ChainIn(ctx, c) /\ ChainIn(ctx, c) \subseteq 1 .. c
  BY DEF ChainIn
<1>3. ASSUME NEW d \in ChainIn(ctx, c), ctx[d].sender # 0
      PROVE  ctx[d].sender \in ChainIn(ctx, c)
  <2>1. d \in 1 .. c /\ ctx[d].sender \in 0 .. d - 1
    BY <1>1, <1>2 DEF Older
  <2>2. ctx[d].sender \in 1 .. c
    BY <1>3, <2>1
  <2>3. ASSUME NEW S \in SUBSET (1 .. c), c \in S, Closed(ctx, S)
        PROVE  ctx[d].sender \in S
    BY <1>3, <2>3 DEF ChainIn, Closed
  <2> QED
    BY <2>2, <2>3 DEF ChainIn
<1> QED
  BY <1>1, <1>2, <1>3 DEF Closed

(* It is the smallest such set, also among those with younger contexts.      *)
LEMMA ChainMinimal ==
  ASSUME NEW ctx, NEW n \in Nat, Older(ctx, n), NEW c \in 1 .. n,
         NEW S \in SUBSET (1 .. n), c \in S, Closed(ctx, S)
  PROVE  ChainIn(ctx, c) \subseteq S
<1> DEFINE T == {d \in S : d <= c}
<1>1. T \in SUBSET (1 .. c) /\ c \in T
  <2>1. \A d \in T : d \in 1 .. c
    OBVIOUS
  <2>2. c \in T
    OBVIOUS
  <2> HIDE DEF T
  <2> QED
    BY <2>1, <2>2
<1>2. ASSUME NEW d \in T, ctx[d].sender # 0 PROVE ctx[d].sender \in T
  <2>1. ctx[d].sender \in 0 .. d - 1 /\ ctx[d].sender \in S /\ d \in 1 .. n /\ d <= c
    BY <1>2 DEF Older, Closed
  <2> QED
    BY <2>1
<1>3. Closed(ctx, T)
  BY <1>2 DEF Closed
<1> QED
  BY <1>1, <1>3 DEF ChainIn

(* A chain is its newest context and the chain of that one's sender. *)
LEMMA ChainUnfold ==
  ASSUME NEW ctx, NEW n \in Nat, Older(ctx, n), NEW c \in 1 .. n
  PROVE  ChainIn(ctx, c) = {c} \cup (IF ctx[c].sender = 0 THEN {}
                                     ELSE ChainIn(ctx, ctx[c].sender))
<1>1. CASE ctx[c].sender = 0
  <2>1. Closed(ctx, {c})
    BY <1>1 DEF Closed
  <2>2. ChainIn(ctx, c) \subseteq {c}
    BY <2>1, ChainMinimal
  <2> QED
    BY <1>1, <2>2, ChainClosed
<1>2. CASE ctx[c].sender # 0
  <2>1. PICK s : s = ctx[c].sender /\ s \in 1 .. n /\ s # 0
    BY <1>2 DEF Older
  <2>2. /\ s \in ChainIn(ctx, s) /\ ChainIn(ctx, s) \subseteq 1 .. n
        /\ Closed(ctx, ChainIn(ctx, s))
    BY <2>1, ChainClosed
  <2>3. Closed(ctx, {c} \cup ChainIn(ctx, s))
    BY <2>1, <2>2 DEF Closed
  <2>4. ChainIn(ctx, c) \subseteq {c} \cup ChainIn(ctx, s)
    BY <2>2, <2>3, ChainMinimal
  <2>5. /\ c \in ChainIn(ctx, c) /\ s \in ChainIn(ctx, c)
        /\ ChainIn(ctx, c) \in SUBSET (1 .. n) /\ Closed(ctx, ChainIn(ctx, c))
    BY <2>1, ChainClosed DEF Closed
  <2>6. ChainIn(ctx, s) \subseteq ChainIn(ctx, c)
    BY <2>1, <2>5, ChainMinimal
  <2> QED
    BY <1>2, <2>1, <2>4, <2>5, <2>6
<1> QED
  BY <1>1, <1>2

(* A chain cut at one of its contexts is the chain of that context. *)
LEMMA ChainCut ==
  ASSUME NEW ctx, NEW n \in Nat, Older(ctx, n), NEW c \in 1 .. n,
         NEW t \in ChainIn(ctx, c)
  PROVE  ChainIn(ctx, t) = {d \in ChainIn(ctx, c) : d <= t}
<1> DEFINE U == {d \in ChainIn(ctx, c) : t \in ChainIn(ctx, d)} \cup ChainIn(ctx, t)
<1>1. /\ c \in ChainIn(ctx, c) /\ ChainIn(ctx, c) \in SUBSET (1 .. n)
      /\ Closed(ctx, ChainIn(ctx, c)) /\ t \in 1 .. n
  BY ChainClosed
<1>2. /\ t \in ChainIn(ctx, t) /\ ChainIn(ctx, t) \subseteq 1 .. t
      /\ ChainIn(ctx, t) \subseteq 1 .. n /\ Closed(ctx, ChainIn(ctx, t))
  BY <1>1, ChainClosed
<1>3. ChainIn(ctx, t) \subseteq ChainIn(ctx, c)
  BY <1>1, ChainMinimal
<1>4. ASSUME NEW d \in U, ctx[d].sender # 0 PROVE ctx[d].sender \in U
  <2>1. CASE d \in ChainIn(ctx, t)
    BY <1>2, <1>4, <2>1 DEF Closed
  <2>2. CASE d \in ChainIn(ctx, c) /\ t \in ChainIn(ctx, d) /\ d # t
    <3>1. d \in 1 .. n /\ ctx[d].sender \in ChainIn(ctx, c)
      BY <1>1, <1>4, <2>2 DEF Closed
    <3>2. t \in ChainIn(ctx, ctx[d].sender)
      BY <1>4, <2>2, <3>1, ChainUnfold
    <3> QED
      BY <3>1, <3>2
  <2> QED
    BY <1>2, <2>1, <2>2
<1>5. ChainIn(ctx, c) \subseteq U
  <2>1. Closed(ctx, U) /\ c \in U /\ U \in SUBSET (1 .. n)
    BY <1>1, <1>2, <1>4 DEF Closed
  <2> QED
    BY <2>1, ChainMinimal
<1>6. ASSUME NEW d \in ChainIn(ctx, c), d <= t PROVE d \in ChainIn(ctx, t)
  <2>1. CASE t \in ChainIn(ctx, d)
    <3>1. t \in 1 .. d /\ d \in 1 .. n
      BY <1>1, <2>1, ChainClosed
    <3> QED
      BY <1>1, <1>2, <1>6, <3>1
  <2> QED
    BY <1>5, <2>1
<1> QED
  BY <1>2, <1>3, <1>6

(* Contexts with the same senders along a chain have the same chain. *)
LEMMA ChainAgrees ==
  ASSUME NEW ctx, NEW new, NEW n \in Nat, Older(ctx, n), Older(new, n), NEW c \in 1 .. n,
         \A d \in ChainIn(ctx, c) : new[d].sender = ctx[d].sender
  PROVE  ChainIn(new, c) = ChainIn(ctx, c)
<1>1. /\ c \in ChainIn(ctx, c) /\ ChainIn(ctx, c) \in SUBSET (1 .. n)
      /\ Closed(ctx, ChainIn(ctx, c))
  BY ChainClosed
<1>2. /\ c \in ChainIn(new, c) /\ ChainIn(new, c) \in SUBSET (1 .. n)
      /\ Closed(new, ChainIn(new, c))
  BY ChainClosed
<1>3. Closed(new, ChainIn(ctx, c))
  BY <1>1 DEF Closed
<1>4. ChainIn(new, c) \subseteq ChainIn(ctx, c)
  BY <1>1, <1>3, ChainMinimal
<1>5. Closed(ctx, ChainIn(new, c))
  BY <1>2, <1>4 DEF Closed
<1> QED
  BY <1>2, <1>4, <1>5, ChainMinimal

-----------------------------------------------------------------------------
(* Slots as sequences *)

(* An interval from 1 tells its length. *)
LEMMA SameLength == ASSUME NEW a \in Nat, NEW b \in Nat, 1 .. a = 1 .. b PROVE a = b
<1>1. CASE a < b
  <2>1. b \in 1 .. b
    BY <1>1
  <2> QED
    BY <1>1, <2>1
<1>2. CASE b < a
  <2>1. a \in 1 .. a
    BY <1>2
  <2> QED
    BY <1>2, <2>1
<1> QED
  BY <1>1, <1>2

(* A function on the first n numbers is a sequence of length n. *)
LEMMA FunctionIsSeq ==
  ASSUME NEW S, NEW n \in Nat, NEW f \in [1 .. n -> S]
  PROVE  f \in Seq(S) /\ Len(f) = n /\ DOMAIN f = 1 .. n
<1>1. f \in Seq(S)
  BY SeqDef
<1>2. Len(f) \in Nat /\ DOMAIN f = 1 .. Len(f) /\ DOMAIN f = 1 .. n
  BY <1>1, LenProperties
<1>3. Len(f) = n
  BY <1>2, SameLength
<1> QED
  BY <1>1, <1>2, <1>3

(* Sequences with the same elements are the same. *)
LEMMA SameSeq ==
  ASSUME NEW s \in Seq(Oop), NEW t \in Seq(Oop), Len(s) = Len(t),
         \A i \in 1 .. Len(s) : s[i] = t[i]
  PROVE  s = t
  BY SeqEqual

(* The live slots of a frame. *)
LEMMA StackedSeq ==
  ASSUME NEW slots \in [Slot -> Oop], NEW n \in 0 .. FrameSize
  PROVE  /\ Stacked(slots, n) \in Seq(Oop)
         /\ Len(Stacked(slots, n)) = n
         /\ DOMAIN Stacked(slots, n) = 1 .. n
         /\ \A i \in 1 .. n : i - 1 \in Slot /\ Stacked(slots, n)[i] = slots[i - 1]
<1>1. n \in Nat /\ \A i \in 1 .. n : i - 1 \in Slot
  BY FramesAssumption DEF Slot
<1>2. Stacked(slots, n) \in [1 .. n -> Oop]
  BY <1>1 DEF Stacked
<1>3. \A i \in 1 .. n : Stacked(slots, n)[i] = slots[i - 1]
  BY DEF Stacked
<1> QED
  BY <1>1, <1>2, <1>3, FunctionIsSeq

(* Slots that agree below n are the same sequence. *)
LEMMA StackedAgrees ==
  ASSUME NEW s, NEW t, NEW n \in Nat, \A i \in 0 .. n - 1 : s[i] = t[i]
  PROVE  Stacked(s, n) = Stacked(t, n)
<1>1. \A i \in 1 .. n : s[i - 1] = t[i - 1]
  OBVIOUS
<1> QED
  BY <1>1 DEF Stacked

(* One more live slot. *)
LEMMA StackedPush ==
  ASSUME NEW s \in [Slot -> Oop], NEW t \in [Slot -> Oop], NEW n \in 0 .. FrameSize, n < FrameSize,
         NEW v \in Oop, t[n] = v, \A i \in 0 .. n - 1 : t[i] = s[i]
  PROVE  Stacked(t, n + 1) = Append(Stacked(s, n), v)
<1>1. n \in Nat /\ n + 1 \in 0 .. FrameSize
  BY FramesAssumption
<1>2. /\ Stacked(t, n + 1) \in Seq(Oop) /\ Len(Stacked(t, n + 1)) = n + 1
      /\ \A i \in 1 .. n + 1 : Stacked(t, n + 1)[i] = t[i - 1]
  BY <1>1, StackedSeq
<1>3. /\ Stacked(s, n) \in Seq(Oop) /\ Len(Stacked(s, n)) = n
      /\ \A i \in 1 .. n : Stacked(s, n)[i] = s[i - 1]
  BY StackedSeq
<1> DEFINE u == Append(Stacked(s, n), v)
<1>4. /\ u \in Seq(Oop) /\ Len(u) = n + 1
      /\ \A i \in 1 .. n : u[i] = Stacked(s, n)[i]
      /\ u[n + 1] = v
  BY <1>3, AppendProperties
<1>5. ASSUME NEW i \in 1 .. n + 1 PROVE Stacked(t, n + 1)[i] = u[i]
  <2>1. CASE i = n + 1
    BY <1>1, <1>2, <1>4, <2>1
  <2>2. CASE i # n + 1
    <3>1. i \in 1 .. n /\ i - 1 \in 0 .. n - 1
      BY <1>1, <2>2
    <3> QED
      BY <1>2, <1>3, <1>4, <3>1
  <2> QED
    BY <2>1, <2>2
<1> HIDE DEF u
<1>6. Stacked(t, n + 1) = u
  BY <1>2, <1>4, <1>5, SameSeq
<1> QED
  BY <1>6 DEF u

(* The first live slots. *)
LEMMA StackedFirst ==
  ASSUME NEW s \in [Slot -> Oop], NEW n \in 0 .. FrameSize, NEW k \in 0 .. n
  PROVE  SubSeq(Stacked(s, n), 1, k) = Stacked(s, k)
<1>1. n \in Nat /\ k \in 0 .. FrameSize /\ k \in Int
  BY FramesAssumption
<1>2. /\ Stacked(s, k) \in Seq(Oop) /\ Len(Stacked(s, k)) = k
      /\ \A i \in 1 .. k : Stacked(s, k)[i] = s[i - 1]
  BY <1>1, StackedSeq
<1>3. \A i \in 1 .. k : Stacked(s, n)[i] = s[i - 1] /\ Stacked(s, n)[i] \in Oop
  <2>1. \A i \in 1 .. n : i - 1 \in Slot /\ Stacked(s, n)[i] = s[i - 1]
    BY StackedSeq
  <2> QED
    BY <1>1, <2>1
<1> DEFINE u == SubSeq(Stacked(s, n), 1, k)
<1>4. u \in Seq(Oop) /\ Len(u) = k /\ \A i \in 1 .. k : u[i] = Stacked(s, n)[i]
  BY <1>1, <1>3, SubSeqProperties
<1> HIDE DEF u
<1>5. u = Stacked(s, k)
  BY <1>2, <1>3, <1>4, SameSeq
<1> QED
  BY <1>5 DEF u

(* The last live slots. *)
LEMMA StackedLast ==
  ASSUME NEW s \in [Slot -> Oop], NEW n \in 0 .. FrameSize, NEW k \in 0 .. n
  PROVE  /\ SubSeq(Stacked(s, n), n - k + 1, n) \in Seq(Oop)
         /\ Len(SubSeq(Stacked(s, n), n - k + 1, n)) = k
         /\ \A i \in 1 .. k : SubSeq(Stacked(s, n), n - k + 1, n)[i] = s[n - k + i - 1]
<1>1. n \in Nat /\ k \in Nat /\ k <= n
  BY FramesAssumption
<1>2. \A i \in n - k + 1 .. n : Stacked(s, n)[i] = s[i - 1] /\ Stacked(s, n)[i] \in Oop
  <2>1. \A i \in 1 .. n : i - 1 \in Slot /\ Stacked(s, n)[i] = s[i - 1]
    BY StackedSeq
  <2> QED
    BY <1>1, <2>1
<1> DEFINE u == SubSeq(Stacked(s, n), n - k + 1, n)
<1>3. /\ u \in Seq(Oop)
      /\ Len(u) = IF n - k + 1 <= n THEN n - (n - k + 1) + 1 ELSE 0
      /\ \A i \in 1 .. n - (n - k + 1) + 1 : u[i] = Stacked(s, n)[(n - k + 1) + i - 1]
  BY <1>1, <1>2, SubSeqProperties
<1>4. n - (n - k + 1) + 1 = k /\ Len(u) = k
  BY <1>1, <1>3
<1>5. ASSUME NEW i \in 1 .. k PROVE u[i] = s[n - k + i - 1]
  <2>1. (n - k + 1) + i - 1 \in n - k + 1 .. n /\ (n - k + 1) + i - 1 - 1 = n - k + i - 1
    BY <1>1
  <2> QED
    BY <1>2, <1>3, <1>4, <2>1
<1> QED
  BY <1>3, <1>4, <1>5

-----------------------------------------------------------------------------
(* What a step finds *)

(* The parts of a context and of an object, and the shape of the heap.       *)
Facts ==
  /\ Len(contexts) \in Nat /\ DOMAIN contexts = 1 .. Len(contexts)
  /\ active \in 1 .. Len(contexts)
  /\ \A c \in DOMAIN contexts : contexts[c] \in ContextObject
  /\ Older(contexts, Len(contexts))
  /\ Here \in [Slot -> Oop] /\ Frame.receiver \in Oop /\ Frame.method \in Methods
  /\ Frame.sender \in 0 .. active - 1
  /\ sp \in Nat /\ sp <= FrameSize /\ FrameSize \in Nat
  /\ Len(objects) \in Nat /\ DOMAIN objects = 1 .. Len(objects)
  /\ \A o \in DOMAIN objects :
       /\ objects[o] \in Object
       /\ objects[o].slots \in Seq(Oop)
       /\ Len(objects[o].slots) \in Nat /\ DOMAIN objects[o].slots = 1 .. Len(objects[o].slots)
       /\ \A i \in 1 .. Len(objects[o].slots) : objects[o].slots[i] \in Oop

(* The invariant gives those facts. *)
LEMMA FactsHold == IInv => Facts
<1> SUFFICES ASSUME IInv PROVE Facts
  OBVIOUS
<1>1. /\ Len(contexts) \in Nat /\ DOMAIN contexts = 1 .. Len(contexts)
      /\ \A c \in DOMAIN contexts : contexts[c] \in ContextObject
  BY LenProperties, ElementOfSeq DEF IInv, TypeOK
<1>2. \A c \in DOMAIN contexts : contexts[c].sender \in Nat /\ contexts[c].sender < c
  BY <1>1 DEF IInv, SendersAreOlder, ContextObject
<1>3. Older(contexts, Len(contexts))
  BY <1>1, <1>2 DEF Older
<1>4. active \in 1 .. Len(contexts)
  BY <1>1 DEF IInv, TypeOK
<1>5. Frame \in ContextObject
  BY <1>1, <1>4 DEF Frame
<1>6. Here \in [Slot -> Oop] /\ Frame.receiver \in Oop /\ Frame.method \in Methods
  BY <1>5 DEF Here, ContextObject
<1>7. Frame.sender \in 0 .. active - 1
  BY <1>3, <1>4 DEF Older, Frame
<1>8. sp \in Nat /\ sp <= FrameSize /\ FrameSize \in Nat
  BY FramesAssumption DEF IInv, TypeOK
<1>9. /\ Len(objects) \in Nat /\ DOMAIN objects = 1 .. Len(objects)
      /\ \A o \in DOMAIN objects : objects[o] \in Object
  BY LenProperties, ElementOfSeq DEF IInv, TypeOK
<1>10. ASSUME NEW o \in DOMAIN objects
       PROVE  /\ objects[o].slots \in Seq(Oop)
              /\ Len(objects[o].slots) \in Nat /\ DOMAIN objects[o].slots = 1 .. Len(objects[o].slots)
              /\ \A i \in 1 .. Len(objects[o].slots) : objects[o].slots[i] \in Oop
  <2>1. objects[o].slots \in Seq(Oop)
    BY <1>9 DEF Object
  <2> QED
    BY <2>1, LenProperties, ElementOfSeq
<1> QED
  BY <1>1, <1>3, <1>4, <1>6, <1>7, <1>8, <1>9, <1>10 DEF Facts

(* The same of the next state. *)
LEMMA NextFactsHold == IInv' => Facts'
  BY FactsHold, PTL

(* The chain of the running context. *)
LEMMA ChainIsBelow ==
  ASSUME Facts
  PROVE  /\ active \in Chain /\ Chain \subseteq 1 .. active /\ Closed(contexts, Chain)
         /\ \A c \in Chain : c \in DOMAIN contexts /\ c \in Nat /\ c <= active
<1>1. PICK n : n = Len(contexts)
  OBVIOUS
<1>2. n \in Nat /\ Older(contexts, n) /\ active \in 1 .. n /\ DOMAIN contexts = 1 .. n
  BY <1>1 DEF Facts
<1>3. /\ active \in Chain /\ Chain \subseteq 1 .. active /\ Closed(contexts, Chain)
      /\ 1 .. active \subseteq 1 .. n
  BY <1>2, ChainClosed DEF Chain
<1> QED
  BY <1>2, <1>3

(* The greatest element of a set of numbers. *)
LEMMA GreatestIs ==
  ASSUME NEW S \in SUBSET Nat, NEW n \in S, \A m \in S : m <= n
  PROVE  Stacks!Greatest(S) = n
<1>1. \E k \in S : \A m \in S : m <= k
  OBVIOUS
<1>2. Stacks!Greatest(S) \in S /\ \A m \in S : m <= Stacks!Greatest(S)
  BY <1>1 DEF Stacks!Greatest
<1>3. PICK g : g = Stacks!Greatest(S)
  OBVIOUS
<1>4. g \in S /\ \A m \in S : m <= g
  BY <1>2, <1>3
<1>5. g \in Nat /\ n \in Nat /\ g <= n /\ n <= g
  BY <1>4
<1> QED
  BY <1>3, <1>5

(* The running activation, as a sequence. *)
TopIs ==
  /\ DOMAIN StackFrames = Chain /\ Stacks!Here = active
  /\ \A c \in Chain : StackFrames[c] = Live(c)
  /\ Stacks!Top = [receiver |-> Frame.receiver, stack |-> Stacked(Here, sp)]
  /\ Stacks!Top.stack = Stacked(Here, sp) /\ Stacks!Top.receiver = Frame.receiver
  /\ Stacks!Size = sp
  /\ \A i \in 1 .. sp : Stacks!Top.stack[i] = Here[i - 1]

(* The running activation of the abstract specification is the live slots. *)
LEMMA TopFacts == ASSUME Facts, status # "returned" PROVE TopIs
<1>1. DOMAIN StackFrames = Chain /\ \A c \in Chain : StackFrames[c] = Live(c)
  BY DEF StackFrames
<1>2. active \in Chain /\ Chain \in SUBSET Nat /\ \A c \in Chain : c <= active
  BY ChainIsBelow
<1>3. Stacks!Here = active
  BY <1>1, <1>2, GreatestIs DEF Stacks!Here
<1>4. Stacks!Top = [receiver |-> Frame.receiver, stack |-> Stacked(Here, sp)]
  BY <1>1, <1>2, <1>3 DEF Stacks!Top, Live, Frame, Here
<1>5. Len(Stacked(Here, sp)) = sp /\ \A i \in 1 .. sp : Stacked(Here, sp)[i] = Here[i - 1]
  BY StackedSeq DEF Facts
<1> QED
  BY <1>1, <1>3, <1>4, <1>5 DEF TopIs, Stacks!Size

-----------------------------------------------------------------------------
(* What a step of the running activation leaves *)

(* Only the slots of the running context, and the stack pointer, change.     *)
Rewrites(s, top) ==
  /\ contexts' = [contexts EXCEPT ![active].slots = s]
  /\ active' = active /\ sp' = top

(* Every other context is as it was. *)
LEMMA RewritesContexts ==
  ASSUME Facts, IInv, NEW s \in [Slot -> Oop], NEW top, Rewrites(s, top)
  PROVE  /\ contexts' \in Seq(ContextObject)
         /\ Len(contexts') = Len(contexts) /\ DOMAIN contexts' = DOMAIN contexts
         /\ \A c \in DOMAIN contexts :
              /\ contexts'[c].sender = contexts[c].sender
              /\ contexts'[c].receiver = contexts[c].receiver
              /\ contexts'[c].method = contexts[c].method
              /\ contexts'[c].stackp = contexts[c].stackp
              /\ c # active => contexts'[c] = contexts[c]
         /\ contexts'[active].slots = s
<1>1. PICK f : f = [contexts[active] EXCEPT !.slots = s]
  OBVIOUS
<1>2. contexts[active] \in ContextObject
  BY DEF Facts
<1>3. f \in ContextObject
  BY <1>1, <1>2 DEF ContextObject
<1>4. contexts' = [contexts EXCEPT ![active] = f]
  BY <1>1 DEF Rewrites
<1>5. contexts \in Seq(ContextObject) /\ active \in 1 .. Len(contexts)
  BY DEF IInv, TypeOK, Facts
<1>6. /\ contexts' \in Seq(ContextObject) /\ Len(contexts') = Len(contexts)
      /\ \A c \in 1 .. Len(contexts) : contexts'[c] = IF c = active THEN f ELSE contexts[c]
  BY <1>3, <1>4, <1>5, ExceptSeq
<1>7. DOMAIN contexts' = DOMAIN contexts
  BY <1>4
<1>8. /\ f.sender = contexts[active].sender /\ f.receiver = contexts[active].receiver
      /\ f.method = contexts[active].method /\ f.stackp = contexts[active].stackp /\ f.slots = s
  BY <1>1, <1>2 DEF ContextObject
<1> QED
  BY <1>5, <1>6, <1>7, <1>8 DEF Facts

(* The same activations run, and the running one has the sequence of s.      *)
LEMMA RewritesFrames ==
  ASSUME Facts, IInv, NEW s \in [Slot -> Oop], NEW top, Rewrites(s, top),
         status = "running", status' = status
  PROVE  Stacks!Becomes(Stacked(s, top))
<1>1. \A c \in DOMAIN contexts :
        /\ contexts'[c].sender = contexts[c].sender
        /\ contexts'[c].receiver = contexts[c].receiver
        /\ c # active => contexts'[c] = contexts[c]
  BY RewritesContexts
<1>2. contexts'[active].slots = s
  BY RewritesContexts
<1>3. Chain' = Chain
  <2>1. PICK n : n = Len(contexts)
    OBVIOUS
  <2>2. n \in Nat /\ Older(contexts, n) /\ active \in 1 .. n /\ DOMAIN contexts = 1 .. n
    BY <2>1 DEF Facts
  <2>3. PICK new : new = contexts'
    OBVIOUS
  <2>4. Older(new, n)
    BY <1>1, <2>2, <2>3 DEF Older
  <2>5. \A d \in ChainIn(contexts, active) : new[d].sender = contexts[d].sender
    BY <1>1, <2>3, ChainIsBelow DEF Chain
  <2>6. ChainIn(new, active) = ChainIn(contexts, active)
    BY <2>2, <2>4, <2>5, ChainAgrees
  <2>7. Chain' = ChainIn(new, active)
    BY <2>3 DEF Chain, ChainIn, Closed, Rewrites
  <2> QED
    BY <2>6, <2>7 DEF Chain
<1>4. ASSUME NEW c \in Chain, c # active PROVE Live(c)' = Live(c)
  BY <1>1, <1>4, ChainIsBelow DEF Live, Stacked, Rewrites
<1>5. ASSUME NEW c, c = active
      PROVE  Live(c)' = [receiver |-> contexts[active].receiver, stack |-> Stacked(s, top)]
  <2>1. contexts'[c].receiver = contexts[active].receiver /\ contexts'[c].slots = s
    BY <1>1, <1>2, <1>5 DEF Facts
  <2>2. c = active' /\ sp' = top
    BY <1>5 DEF Rewrites
  <2> QED
    BY <2>1, <2>2 DEF Live, Stacked
<1>6. StackFrames' = [c \in Chain |-> IF c = active
                                      THEN [receiver |-> contexts[active].receiver, stack |-> Stacked(s, top)]
                                      ELSE Live(c)]
  <2>1. StackFrames' = [c \in Chain |-> Live(c)']
    BY <1>3 DEF StackFrames
  <2> QED
    BY <1>4, <1>5, <2>1 DEF Rewrites
<1>7. TopIs
  BY TopFacts
<1>8. StackFrames = [c \in Chain |-> Live(c)]
  BY DEF StackFrames
<1>9. [StackFrames[active] EXCEPT !.stack = Stacked(s, top)]
        = [receiver |-> contexts[active].receiver, stack |-> Stacked(s, top)]
  BY <1>8, ChainIsBelow DEF Live
<1>10. StackFrames' = [StackFrames EXCEPT ![active].stack = Stacked(s, top)]
  BY <1>6, <1>8, <1>9
<1> QED
  BY <1>7, <1>10 DEF TopIs, Stacks!Becomes

(* The invariant after such a step, with the objects still well-formed. *)
ObjectsFit ==
  /\ objects' \in Seq(Object) /\ Len(objects') \in 1 .. MaxObjects
  /\ \A b \in DOMAIN objects' :
       objects'[b].block => /\ objects'[b].outer \in DOMAIN contexts
                            /\ objects'[b].numArgs + Len(objects'[b].slots) <= FrameSize

(* Such a step keeps the invariant. *)
LEMMA RewritesInv ==
  ASSUME Facts, IInv, NEW s \in [Slot -> Oop], NEW top \in 0 .. FrameSize, Rewrites(s, top),
         calling' = FALSE, ObjectsFit, globals' \in [1 .. NumGlobals -> Oop]
  PROVE  IInv'
<1>1. /\ contexts' \in Seq(ContextObject) /\ DOMAIN contexts' = DOMAIN contexts
      /\ \A c \in DOMAIN contexts : contexts'[c].sender = contexts[c].sender
  BY RewritesContexts
<1>2. active' = active /\ sp' = top
  BY DEF Rewrites
<1>3. TypeOK'
  BY <1>1, <1>2 DEF IInv, TypeOK, ObjectsFit
<1>4. SendersAreOlder'
  BY <1>1 DEF IInv, SendersAreOlder
<1>5. BlocksFit'
  BY <1>1 DEF ObjectsFit, BlocksFit, Block
<1>6. CallsAtStart'
  BY DEF CallsAtStart
<1> QED
  BY <1>3, <1>4, <1>5, <1>6 DEF IInv

(* The objects are as they were. *)
LEMMA ObjectsSame == ASSUME Facts, IInv, UNCHANGED objects PROVE ObjectsFit
  BY DEF IInv, TypeOK, BlocksFit, Block, ObjectsFit, Facts

(* An element of an object is stored into. *)
Stores(o, i, v) ==
  /\ o \in DOMAIN objects /\ i \in 1 .. Len(objects[o].slots) /\ v \in Oop
  /\ objects' = [objects EXCEPT ![o].slots[i] = v]

(* The object keeps its shape, the others keep everything. *)
LEMMA StoredObject ==
  ASSUME Facts, IInv, NEW o, NEW i, NEW v, Stores(o, i, v)
  PROVE  /\ objects' \in Seq(Object) /\ Len(objects') = Len(objects)
         /\ DOMAIN objects' = DOMAIN objects
         /\ \A b \in DOMAIN objects :
              /\ objects'[b].block = objects[b].block /\ objects'[b].numArgs = objects[b].numArgs
              /\ objects'[b].outer = objects[b].outer
              /\ Len(objects'[b].slots) = Len(objects[b].slots)
              /\ b # o => objects'[b] = objects[b]
         /\ objects'[o].slots = [objects[o].slots EXCEPT ![i] = v]
<1>1. PICK slots : slots = [objects[o].slots EXCEPT ![i] = v]
  OBVIOUS
<1>2. /\ o \in 1 .. Len(objects) /\ objects[o] \in Object /\ objects[o].slots \in Seq(Oop)
      /\ i \in 1 .. Len(objects[o].slots) /\ v \in Oop
  BY DEF Facts, Stores
<1>3. slots \in Seq(Oop) /\ Len(slots) = Len(objects[o].slots)
  BY <1>1, <1>2, ExceptSeq
<1>4. PICK r : r = [objects[o] EXCEPT !.slots = slots]
  OBVIOUS
<1>5. /\ r \in Object /\ r.block = objects[o].block /\ r.numArgs = objects[o].numArgs
      /\ r.outer = objects[o].outer /\ r.slots = slots
  BY <1>2, <1>3, <1>4 DEF Object
<1>6. objects' = [objects EXCEPT ![o] = r]
  BY <1>1, <1>4 DEF Stores
<1>7. objects \in Seq(Object)
  BY DEF IInv, TypeOK
<1>8. /\ objects' \in Seq(Object) /\ Len(objects') = Len(objects)
      /\ \A b \in 1 .. Len(objects) : objects'[b] = IF b = o THEN r ELSE objects[b]
  BY <1>2, <1>5, <1>6, <1>7, ExceptSeq
<1>9. DOMAIN objects' = DOMAIN objects /\ DOMAIN objects = 1 .. Len(objects)
  BY <1>6 DEF Facts
<1> QED
  BY <1>1, <1>2, <1>3, <1>5, <1>8, <1>9

(* A store leaves the objects well-formed. *)
LEMMA ObjectsSet == ASSUME Facts, IInv, NEW o, NEW i, NEW v, Stores(o, i, v) PROVE ObjectsFit
<1>1. /\ objects' \in Seq(Object) /\ Len(objects') = Len(objects)
      /\ DOMAIN objects' = DOMAIN objects
      /\ \A b \in DOMAIN objects :
           /\ objects'[b].block = objects[b].block /\ objects'[b].numArgs = objects[b].numArgs
           /\ objects'[b].outer = objects[b].outer
           /\ Len(objects'[b].slots) = Len(objects[b].slots)
  BY StoredObject
<1> QED
  BY <1>1 DEF IInv, TypeOK, BlocksFit, Block, ObjectsFit

(* An object is created. *)
Creates(r) ==
  /\ r \in Object /\ Len(objects) < MaxObjects
  /\ r.block => r.outer \in DOMAIN contexts /\ r.numArgs + Len(r.slots) <= FrameSize
  /\ objects' = Append(objects, r)

(* The new object is the last one. *)
LEMMA CreatedObject ==
  ASSUME Facts, IInv, NEW r, Creates(r)
  PROVE  /\ objects' \in Seq(Object) /\ Len(objects') = Len(objects) + 1
         /\ DOMAIN objects' = 1 .. Len(objects) + 1
         /\ \A b \in DOMAIN objects : objects'[b] = objects[b]
         /\ objects'[Len(objects) + 1] = r
<1>1. objects \in Seq(Object) /\ r \in Object /\ objects' = Append(objects, r)
  BY DEF IInv, TypeOK, Creates
<1>2. /\ objects' \in Seq(Object) /\ Len(objects') = Len(objects) + 1
      /\ \A b \in 1 .. Len(objects) : objects'[b] = objects[b]
      /\ objects'[Len(objects) + 1] = r
  BY <1>1, AppendProperties
<1>3. DOMAIN objects' = 1 .. Len(objects')
  BY <1>2, LenProperties
<1> QED
  BY <1>2, <1>3 DEF Facts

(* A well-formed new object leaves the objects well-formed. *)
LEMMA ObjectsCreated ==
  ASSUME Facts, IInv, NEW r, Creates(r)
  PROVE  ObjectsFit /\ Len(objects) + 1 \in Oop
<1>1. /\ objects' \in Seq(Object) /\ Len(objects') = Len(objects) + 1
      /\ DOMAIN objects' = 1 .. Len(objects) + 1
      /\ \A b \in DOMAIN objects : objects'[b] = objects[b]
      /\ objects'[Len(objects) + 1] = r
  BY CreatedObject
<1>2. /\ Len(objects) \in Nat /\ MaxObjects \in Nat /\ Len(objects) + 1 <= MaxObjects
      /\ DOMAIN objects = 1 .. Len(objects)
  BY FramesAssumption DEF Creates, Facts
<1>3. \A b \in DOMAIN objects' : b \in DOMAIN objects \/ b = Len(objects) + 1
  BY <1>1, <1>2
<1>4. Len(objects) + 1 \in Oop
  BY <1>2 DEF Oop
<1> QED
  BY <1>1, <1>2, <1>3, <1>4 DEF IInv, BlocksFit, Block, ObjectsFit, Creates

-----------------------------------------------------------------------------
(* Objects as the abstract specification has them *)

(* No context gets another receiver. *)
ReceiversKept == \A c \in DOMAIN contexts : contexts'[c].receiver = contexts[c].receiver

StackObject(r) ==
  [slots |-> r.slots, block |-> r.block, numArgs |-> r.numArgs,
   receiver |-> IF r.block THEN contexts[r.outer].receiver ELSE Nil]

(* A block names the receiver of its outer context. *)
LEMMA StackObjectsAre ==
  ASSUME Facts
  PROVE  /\ DOMAIN StackObjects = DOMAIN objects
         /\ \A o \in DOMAIN objects : /\ StackObjects[o] = StackObject(objects[o])
                                     /\ StackObjects[o].slots = objects[o].slots
                                     /\ StackObjects[o].block = objects[o].block
                                     /\ StackObjects[o].numArgs = objects[o].numArgs
  BY DEF StackObjects, StackObject

(* Objects that do not change are the same to the abstract specification. *)
LEMMA StackObjectsSame ==
  ASSUME Facts, IInv, ReceiversKept, UNCHANGED objects
  PROVE  StackObjects' = StackObjects
<1>1. \A o \in DOMAIN objects :
        objects[o].block => contexts'[objects[o].outer].receiver = contexts[objects[o].outer].receiver
  BY DEF IInv, BlocksFit, Block, ReceiversKept
<1> QED
  BY <1>1 DEF StackObjects

(* A store is the same store. *)
LEMMA StackObjectsSet ==
  ASSUME Facts, IInv, NEW o, NEW i, NEW v, Stores(o, i, v), ReceiversKept
  PROVE  StackObjects' = [StackObjects EXCEPT ![o].slots[i] = v]
<1>1. /\ DOMAIN objects' = DOMAIN objects
      /\ \A b \in DOMAIN objects :
           /\ objects'[b].block = objects[b].block /\ objects'[b].numArgs = objects[b].numArgs
           /\ objects'[b].outer = objects[b].outer
           /\ Len(objects'[b].slots) = Len(objects[b].slots)
           /\ b # o => objects'[b] = objects[b]
  BY StoredObject DEF Stores
<1>2. objects'[o].slots = [objects[o].slots EXCEPT ![i] = v]
  <2>1. o \in DOMAIN objects /\ objects' = [objects EXCEPT ![o].slots[i] = v]
    BY DEF Stores
  <2>2. objects[o] \in Object
    BY <2>1 DEF Facts
  <2> QED
    BY <2>1, <2>2 DEF Object
<1>3. \A b \in DOMAIN objects :
        objects[b].block => contexts'[objects[b].outer].receiver = contexts[objects[b].outer].receiver
  BY DEF IInv, BlocksFit, Block, ReceiversKept
<1>4. ASSUME NEW b \in DOMAIN objects
      PROVE  StackObject(objects[b])' = IF b = o THEN [StackObject(objects[b]) EXCEPT !.slots[i] = v]
                                       ELSE StackObject(objects[b])
  BY <1>1, <1>2, <1>3 DEF StackObject
<1>5. StackObjects' = [b \in DOMAIN objects |-> StackObject(objects[b])']
  BY <1>1 DEF StackObjects, StackObject
<1>6. StackObjects = [b \in DOMAIN objects |-> StackObject(objects[b])]
  BY DEF StackObjects, StackObject
<1> HIDE DEF StackObject
<1> QED
  BY <1>4, <1>5, <1>6 DEF Stores

(* A new object is a new object. *)
LEMMA StackObjectsCreated ==
  ASSUME Facts, IInv, ReceiversKept, NEW r, Creates(r)
  PROVE  StackObjects' = Append(StackObjects, StackObject(r))
<1> DEFINE R == [slots : Seq(Oop), block : BOOLEAN, numArgs : Nat, receiver : Oop]
<1>1. ASSUME NEW q \in Object, q.block => q.outer \in DOMAIN contexts PROVE StackObject(q) \in R
  <2>1. Nil \in Oop
    BY DEF Oop, Plain
  <2>2. q.block \in BOOLEAN /\ q.slots \in Seq(Oop) /\ q.numArgs \in Nat
    BY DEF Object
  <2>3. q.block => contexts[q.outer].receiver \in Oop
    BY <1>1 DEF Facts, ContextObject
  <2> QED
    BY <2>1, <2>2, <2>3 DEF StackObject
<1>2. /\ DOMAIN objects' = 1 .. Len(objects) + 1
      /\ \A b \in DOMAIN objects : objects'[b] = objects[b]
      /\ objects'[Len(objects) + 1] = r
  BY CreatedObject
<1>3. /\ Len(objects) \in Nat /\ DOMAIN objects = 1 .. Len(objects)
      /\ \A b \in DOMAIN objects : objects[b] \in Object
  BY DEF Facts
<1>4. \A b \in DOMAIN objects : objects[b].block => objects[b].outer \in DOMAIN contexts
  BY DEF IInv, BlocksFit, Block
<1>5. r \in Object /\ (r.block => r.outer \in DOMAIN contexts)
  BY DEF Creates
<1> DEFINE n == Len(objects)
           e(b) == IF b = n + 1 THEN StackObject(r) ELSE StackObject(objects[b])
           new == [b \in 1 .. n + 1 |-> e(b)]
<1>6. \A b \in 1 .. n : b \in DOMAIN objects /\ e(b) = StackObject(objects[b]) /\ e(b) \in R
  <2>1. ASSUME NEW b \in 1 .. n PROVE b \in DOMAIN objects /\ e(b) = StackObject(objects[b])
    BY <1>3
  <2>2. \A b \in DOMAIN objects : StackObject(objects[b]) \in R
    BY <1>1, <1>3, <1>4
  <2> HIDE DEF R, e
  <2> QED
    BY <2>1, <2>2
<1>7. e(n + 1) = StackObject(r) /\ StackObject(r) \in R
  BY <1>1, <1>5
<1>8. StackObjects' = new
  <2>1. ASSUME NEW b \in 1 .. n + 1 PROVE StackObject(objects'[b]) = e(b)
    BY <1>2, <1>3
  <2>2. ASSUME NEW q \in Object, q.block => q.outer \in DOMAIN contexts
        PROVE  [slots |-> q.slots, block |-> q.block, numArgs |-> q.numArgs,
                receiver |-> IF q.block THEN contexts'[q.outer].receiver ELSE Nil] = StackObject(q)
    BY <2>2 DEF StackObject, ReceiversKept
  <2>3. \A b \in 1 .. n + 1 : objects'[b] \in Object /\ (objects'[b].block => objects'[b].outer \in DOMAIN contexts)
    BY <1>2, <1>3, <1>4, <1>5
  <2>4. \A b \in 1 .. n + 1 :
          [slots |-> objects'[b].slots, block |-> objects'[b].block, numArgs |-> objects'[b].numArgs,
           receiver |-> IF objects'[b].block THEN contexts'[objects'[b].outer].receiver ELSE Nil] = e(b)
    <3> HIDE DEF e
    <3> QED
      BY <2>1, <2>2, <2>3
  <2> HIDE DEF e
  <2> QED
    BY <1>2, <2>4 DEF StackObjects
<1>9. StackObjects = [b \in 1 .. n |-> e(b)]
  <2>1. \A b \in 1 .. n : [slots |-> objects[b].slots, block |-> objects[b].block, numArgs |-> objects[b].numArgs,
           receiver |-> IF objects[b].block THEN contexts[objects[b].outer].receiver ELSE Nil] = e(b)
    BY <1>6 DEF StackObject
  <2> HIDE DEF e
  <2> QED
    BY <1>3, <2>1 DEF StackObjects
<1> DEFINE old == [b \in 1 .. n |-> e(b)]
<1> HIDE DEF e, R
<1>10. \A b \in 1 .. n + 1 : b \in 1 .. n \/ b = n + 1
  BY <1>3
<1>11. old \in [1 .. n -> R] /\ new \in [1 .. n + 1 -> R]
  BY <1>6, <1>7, <1>10
<1>12. n \in Nat /\ n + 1 \in Nat
  BY <1>3
<1>13. old \in Seq(R) /\ Len(old) = n /\ new \in Seq(R) /\ Len(new) = n + 1
  <2> HIDE DEF old, new, n
  <2> QED
    BY <1>11, <1>12, FunctionIsSeq
<1>14. \A b \in 1 .. n : old[b] = e(b)
  OBVIOUS
<1>15. \A b \in 1 .. n + 1 : new[b] = e(b)
  OBVIOUS
<1> DEFINE w == Append(old, StackObject(r))
<1> HIDE DEF old, new, n
<1>16. w \in Seq(R) /\ Len(w) = n + 1 /\ (\A b \in 1 .. n : w[b] = old[b]) /\ w[n + 1] = StackObject(r)
  BY <1>7, <1>13, AppendProperties
<1>17. \A b \in 1 .. n + 1 : new[b] = w[b]
  BY <1>7, <1>10, <1>14, <1>15, <1>16
<1> HIDE DEF w
<1>18. new = w
  BY <1>13, <1>16, <1>17, SeqEqual
<1> QED
  BY <1>8, <1>9, <1>18 DEF w, old

-----------------------------------------------------------------------------
(* The bytecodes on values *)

Refines == IInv' /\ (Stacks!Next \/ UNCHANGED Stacks!vars)

(* A step that ends the run keeps the activations. *)
LEMMA StopStep ==
  ASSUME IInv, status = "running",
         NEW reason \in {"error", "aborted", "stray variable", "stray element"}, Stop(reason)
  PROVE  Refines
<1>1. /\ status' = reason /\ reason # "running" /\ reason # "returned"
      /\ UNCHANGED <<contexts, active, sp, calling, objects, globals>>
  BY DEF Stop
<1>2. IInv'
  BY <1>1 DEF IInv, TypeOK, SendersAreOlder, BlocksFit, CallsAtStart, Block, Frame
<1>3. UNCHANGED <<StackFrames, StackObjects>>
  BY <1>1 DEF StackFrames, StackObjects, Chain, ChainIn, Closed, Live, Stacked
<1>4. Running = TRUE /\ Running' = FALSE
  BY <1>1 DEF Running
<1>5. Stacks!Stop
  BY <1>1, <1>3, <1>4 DEF Stacks!Stop
<1> QED
  BY <1>2, <1>4, <1>5 DEF Refines, Stacks!Next

(* What the abstract specification knows of the running activation.          *)
LEMMA ReadableAre ==
  ASSUME Facts, TopIs
  PROVE  /\ Plain \subseteq Stacks!Readable
         /\ Frame.receiver \in Stacks!Readable
         /\ \A i \in 0 .. sp - 1 : Here[i] \in Stacks!Readable
         /\ \A g \in DOMAIN globals : globals[g] \in Stacks!Readable
         /\ \A o \in DOMAIN objects :
              o = Frame.receiver \/ (\E i \in 0 .. sp - 1 : o = Here[i]) =>
                \A i \in 1 .. Len(objects[o].slots) : objects[o].slots[i] \in Stacks!Readable
<1>1. DOMAIN Stacks!Top.stack = 1 .. sp
  BY StackedSeq DEF TopIs, Facts
<1>2. \A i \in 0 .. sp - 1 : Here[i] \in Stacks!Elements(Stacks!Top.stack)
  <2> SUFFICES ASSUME NEW i \in 0 .. sp - 1 PROVE Here[i] \in Stacks!Elements(Stacks!Top.stack)
    OBVIOUS
  <2>1. i + 1 \in 1 .. sp /\ (i + 1) - 1 = i
    BY DEF Facts
  <2>2. Stacks!Top.stack[i + 1] = Here[i]
    BY <2>1 DEF TopIs
  <2> QED
    BY <1>1, <2>1, <2>2 DEF Stacks!Elements
<1>3. \A g \in DOMAIN globals : globals[g] \in Stacks!Elements(globals)
  BY DEF Stacks!Elements
<1>4. ASSUME NEW o \in DOMAIN objects,
             o = Frame.receiver \/ (\E i \in 0 .. sp - 1 : o = Here[i]),
             NEW i \in 1 .. Len(objects[o].slots)
      PROVE  objects[o].slots[i] \in Stacks!Readable
  <2>1. o \in DOMAIN StackObjects \cap ({Stacks!Top.receiver} \cup Stacks!Elements(Stacks!Top.stack))
    BY <1>2, <1>4, StackObjectsAre DEF TopIs
  <2>2. objects[o].slots[i] \in Stacks!Elements(StackObjects[o].slots)
    <3>1. StackObjects[o].slots = objects[o].slots /\ i \in DOMAIN objects[o].slots
      BY StackObjectsAre DEF Facts
    <3> QED
      BY <3>1 DEF Stacks!Elements
  <2> QED
    BY <2>1, <2>2 DEF Stacks!Readable
<1> QED
  BY <1>2, <1>3, <1>4 DEF Stacks!Readable, TopIs

(* A bytecode of a running method leaves its frame with the slots s.         *)
LEMMA LeaveStep ==
  ASSUME Facts, IInv, status = "running", status' = status, ~calling,
         NEW s \in [Slot -> Oop], NEW top \in 0 .. FrameSize, Leave(s, top),
         ObjectsFit, globals' \in [1 .. NumGlobals -> Oop]
  PROVE  /\ IInv' /\ Stacks!Becomes(Stacked(s, top)) /\ ReceiversKept
         /\ Running = TRUE /\ Running' = TRUE
<1>1. Rewrites(s, top) /\ calling' = FALSE
  BY DEF Leave, Rewrites, IInv, TypeOK
<1>2. IInv'
  BY <1>1, RewritesInv
<1>3. Stacks!Becomes(Stacked(s, top))
  BY <1>1, RewritesFrames
<1>4. ReceiversKept
  BY <1>1, RewritesContexts DEF ReceiversKept
<1> QED
  BY <1>2, <1>3, <1>4 DEF Running

(* A push of something readable onto slots of which the first top are live.  *)
LEMMA PushedSlots ==
  ASSUME Facts, NEW s \in [Slot -> Oop], NEW top \in 0 .. FrameSize, top < FrameSize, NEW v \in Oop
  PROVE  /\ [s EXCEPT ![top] = v] \in [Slot -> Oop] /\ top + 1 \in 0 .. FrameSize
         /\ Stacked([s EXCEPT ![top] = v], top + 1) = Append(Stacked(s, top), v)
<1> DEFINE t == [s EXCEPT ![top] = v]
<1>1. top \in Slot /\ top \in Nat /\ top + 1 \in 0 .. FrameSize /\ FrameSize \in Nat
  BY DEF Slot, Facts
<1>2. t \in [Slot -> Oop] /\ t[top] = v
  BY <1>1
<1>3. \A i \in 0 .. top - 1 : t[i] = s[i]
  <2>1. \A i \in 0 .. top - 1 : i \in Slot /\ i # top
    BY <1>1 DEF Slot
  <2> QED
    BY <2>1
<1> HIDE DEF t
<1>4. Stacked(t, top + 1) = Append(Stacked(s, top), v)
  BY <1>2, <1>3, StackedPush
<1> QED
  BY <1>1, <1>2, <1>4 DEF t

(* A push of a readable value is one of the abstract specification. *)
LEMMA PushStep ==
  ASSUME Facts, IInv, status = "running", ~calling, NEW v \in Oop, v \in Stacks!Readable, Push(v)
  PROVE  Refines
<1>1. CASE sp >= FrameSize
  BY <1>1, StopStep DEF Push
<1>2. CASE ~(sp >= FrameSize)
  <2>1. PushOnto(Here, sp, v) /\ UNCHANGED <<objects, globals, status>>
    BY <1>2 DEF Push
  <2>2. Here \in [Slot -> Oop] /\ sp \in 0 .. FrameSize /\ sp < FrameSize
    BY <1>2 DEF Facts
  <2>3. PICK s : s = [Here EXCEPT ![sp] = v]
    OBVIOUS
  <2>4. /\ s \in [Slot -> Oop] /\ sp + 1 \in 0 .. FrameSize
        /\ Stacked(s, sp + 1) = Append(Stacked(Here, sp), v)
    BY <2>2, <2>3, PushedSlots
  <2>5. Leave(s, sp + 1)
    BY <2>1, <2>3 DEF PushOnto
  <2>6. ObjectsFit /\ globals' \in [1 .. NumGlobals -> Oop] /\ status' = status
    BY <2>1, ObjectsSame DEF IInv, TypeOK
  <2>7. /\ IInv' /\ Stacks!Becomes(Stacked(s, sp + 1)) /\ ReceiversKept
        /\ Running = TRUE /\ Running' = TRUE
    BY <2>4, <2>5, <2>6, LeaveStep
  <2>8. StackObjects' = StackObjects
    BY <2>1, <2>7, StackObjectsSame
  <2>9. TopIs
    BY TopFacts
  <2>10. Stacks!Load(v)
    BY <2>1, <2>4, <2>7, <2>8, <2>9 DEF TopIs, Stacks!Load
  <2> QED
    BY <2>7, <2>10 DEF Refines, Stacks!Next
<1> QED
  BY <1>1, <1>2

(* A slot of a vector is one of its elements. *)
LEMMA SlotOfVector ==
  ASSUME Facts, NEW o, NEW i \in Nat, HasSlot(o, i)
  PROVE  o \in DOMAIN objects /\ i + 1 \in 1 .. Len(objects[o].slots)
<1>1. o \in DOMAIN objects /\ i < Len(objects[o].slots)
  BY DEF HasSlot, Vector
<1>2. Len(objects[o].slots) \in Nat
  BY <1>1 DEF Facts
<1> QED
  BY <1>1, <1>2

(* A live slot holds a value. *)
LEMMA LiveSlot == ASSUME Facts, NEW i \in Nat, i < sp PROVE i \in 0 .. sp - 1 /\ i \in Slot /\ Here[i] \in Oop
<1>1. i \in 0 .. sp - 1 /\ i \in Slot
  BY DEF Facts, Slot
<1> QED
  BY <1>1 DEF Facts

(* Operand n is a live slot. *)
LEMMA Operand ==
  ASSUME Facts, NEW n \in Nat, n < sp
  PROVE  sp - n - 1 \in 0 .. sp - 1 /\ sp - n - 1 \in Slot /\ StackOopAt(n) \in Oop /\ StackOopAt(n) = Here[sp - n - 1]
<1>1. sp - n - 1 \in Nat /\ sp - n - 1 < sp
  BY DEF Facts
<1> QED
  BY <1>1, LiveSlot DEF StackOopAt

(* The bytecodes that push, one by one. *)
LEMMA PushValueStep == ASSUME Facts, IInv, PushValue PROVE Refines
<1>1. PICK v \in Mentioned \cup {Frame.receiver} : Push(v)
  BY DEF PushValue
<1>2. v \in Oop
  BY FramesAssumption DEF Facts, Oop, Plain
<1>3. v \in Stacks!Readable
  BY TopFacts, ReadableAre, FramesAssumption DEF PushValue, Executing, Plain
<1> QED
  BY <1>1, <1>2, <1>3, PushStep DEF PushValue, Executing

LEMMA PushReceiverVariableStep ==
  ASSUME Facts, IInv, NEW i \in Nat, PushReceiverVariable(i) PROVE Refines
<1>1. CASE HasSlot(Frame.receiver, i)
  <2>1. PICK o : o = Frame.receiver
    OBVIOUS
  <2>2. o \in DOMAIN objects /\ i + 1 \in 1 .. Len(objects[o].slots)
    BY <1>1, <2>1, SlotOfVector
  <2>3. objects[o].slots[i + 1] \in Stacks!Readable
    BY <2>1, <2>2, TopFacts, ReadableAre DEF PushReceiverVariable, Executing
  <2>4. objects[o].slots[i + 1] \in Oop
    BY <2>2 DEF Facts
  <2> QED
    BY <1>1, <2>1, <2>3, <2>4, PushStep DEF PushReceiverVariable, Executing
<1>2. CASE ~HasSlot(Frame.receiver, i)
  BY <1>2, StopStep DEF PushReceiverVariable, Executing
<1> QED
  BY <1>1, <1>2

LEMMA PushTemporaryStep ==
  ASSUME Facts, IInv, NEW i \in Nat, PushTemporary(i) PROVE Refines
<1>1. CASE i < sp
  <2>1. Here[i] \in Stacks!Readable /\ Here[i] \in Oop
    BY <1>1, LiveSlot, TopFacts, ReadableAre DEF PushTemporary, Executing
  <2> QED
    BY <1>1, <2>1, PushStep DEF PushTemporary, Executing
<1>2. CASE ~(i < sp)
  BY <1>2, StopStep DEF PushTemporary, Executing
<1> QED
  BY <1>1, <1>2

LEMMA PushLiteralVariableStep ==
  ASSUME Facts, IInv, NEW g \in 0 .. NumGlobals, PushLiteralVariable(g) PROVE Refines
<1>1. CASE g > 0
  <2>1. g \in DOMAIN globals /\ globals[g] \in Oop
    BY <1>1, FramesAssumption DEF IInv, TypeOK
  <2>2. globals[g] \in Stacks!Readable
    BY <2>1, TopFacts, ReadableAre DEF PushLiteralVariable, Executing
  <2> QED
    BY <1>1, <2>1, <2>2, PushStep DEF PushLiteralVariable, Executing
<1>2. CASE ~(g > 0)
  BY <1>2, StopStep DEF PushLiteralVariable, Executing
<1> QED
  BY <1>1, <1>2

LEMMA DuplicateStackTopStep == ASSUME Facts, IInv, DuplicateStackTop PROVE Refines
<1>1. CASE CanPop(1)
  <2>1. 0 < sp
    BY <1>1 DEF CanPop, Facts
  <2>2. StackOopAt(0) \in Stacks!Readable /\ StackOopAt(0) \in Oop
    BY <2>1, Operand, TopFacts, ReadableAre DEF DuplicateStackTop, Executing
  <2> QED
    BY <1>1, <2>2, PushStep DEF DuplicateStackTop, Executing
<1>2. CASE ~CanPop(1)
  BY <1>2, StopStep DEF DuplicateStackTop, Executing
<1> QED
  BY <1>1, <1>2

LEMMA PushRemoteTempStep ==
  ASSUME Facts, IInv, NEW i \in Nat, NEW v \in Nat, PushRemoteTemp(i, v) PROVE Refines
<1>1. CASE Stop("error") \/ Stop("stray element")
  BY <1>1, StopStep DEF PushRemoteTemp, Executing
<1>2. CASE /\ v < sp /\ HasSlot(Here[v], i)
           /\ Push(objects[Here[v]].slots[i + 1])
  <2>1. PICK o : o = Here[v]
    OBVIOUS
  <2>2. v \in 0 .. sp - 1 /\ o \in DOMAIN objects /\ i + 1 \in 1 .. Len(objects[o].slots)
    BY <1>2, <2>1, LiveSlot, SlotOfVector
  <2>3. objects[o].slots[i + 1] \in Stacks!Readable
    BY <2>1, <2>2, TopFacts, ReadableAre DEF PushRemoteTemp, Executing
  <2>4. objects[o].slots[i + 1] \in Oop
    BY <2>2 DEF Facts
  <2> QED
    BY <1>2, <2>1, <2>3, <2>4, PushStep DEF PushRemoteTemp, Executing
<1>3. v < sp \/ v >= sp
  BY DEF Facts
<1> QED
  BY <1>1, <1>2, <1>3 DEF PushRemoteTemp

-----------------------------------------------------------------------------
(* Stores *)

(* The slots after n operands were popped. *)
LEMMA PoppedSlots ==
  ASSUME Facts, NEW n \in 0 .. sp
  PROVE  /\ Popped(n) \in [Slot -> Oop] /\ sp - n \in 0 .. FrameSize
         /\ \A i \in 0 .. sp - n - 1 : i \in Slot /\ Popped(n)[i] = Here[i]
<1>1. sp \in Nat /\ FrameSize \in Nat /\ sp <= FrameSize /\ n \in Nat /\ n <= sp
  BY DEF Facts
<1>2. Nil \in Oop
  BY DEF Oop, Plain
<1>3. Popped(n) \in [Slot -> Oop]
  BY <1>2 DEF Popped, Facts
<1>4. ASSUME NEW i \in 0 .. sp - n - 1 PROVE i \in Slot /\ Popped(n)[i] = Here[i]
  <2>1. i \in Slot /\ ~(sp - n <= i)
    BY <1>1 DEF Slot
  <2> QED
    BY <2>1 DEF Popped
<1> QED
  BY <1>1, <1>3, <1>4

(* Popping n operands takes them off the sequence. *)
LEMMA PoppedSeq ==
  ASSUME Facts, TopIs, NEW n \in 0 .. sp
  PROVE  Stacked(Popped(n), sp - n) = Stacks!First(Stacks!Top.stack, Stacks!Size - n)
<1>1. /\ Popped(n) \in [Slot -> Oop] /\ Here \in [Slot -> Oop]
      /\ sp - n \in 0 .. sp /\ sp - n \in Nat /\ sp \in 0 .. FrameSize
      /\ \A i \in 0 .. sp - n - 1 : Popped(n)[i] = Here[i]
  BY PoppedSlots DEF Facts
<1>2. Stacked(Popped(n), sp - n) = Stacked(Here, sp - n)
  BY <1>1, StackedAgrees
<1>3. SubSeq(Stacked(Here, sp), 1, sp - n) = Stacked(Here, sp - n)
  BY <1>1, StackedFirst
<1> QED
  BY <1>2, <1>3 DEF TopIs, Stacks!First

(* A step that pops n operands. *)
LEMMA AfterStep ==
  ASSUME Facts, IInv, status = "running", status' = status, ~calling, NEW n \in 0 .. sp, After(n),
         ObjectsFit, globals' \in [1 .. NumGlobals -> Oop]
  PROVE  /\ IInv' /\ Stacks!Becomes(Stacks!First(Stacks!Top.stack, Stacks!Size - n)) /\ ReceiversKept
         /\ Running = TRUE /\ Running' = TRUE
<1>1. Popped(n) \in [Slot -> Oop] /\ sp - n \in 0 .. FrameSize
  BY PoppedSlots
<1>2. Leave(Popped(n), sp - n)
  BY DEF After
<1>3. /\ IInv' /\ Stacks!Becomes(Stacked(Popped(n), sp - n)) /\ ReceiversKept
      /\ Running = TRUE /\ Running' = TRUE
  BY <1>1, <1>2, LeaveStep
<1>4. Stacked(Popped(n), sp - n) = Stacks!First(Stacks!Top.stack, Stacks!Size - n)
  BY TopFacts, PoppedSeq
<1> QED
  BY <1>3, <1>4

(* The operand a bytecode drops is gone from the sequence. *)
LEMMA DropStep ==
  ASSUME Facts, IInv, Executing, CanPop(1), After(1), UNCHANGED <<objects, globals, status>>
  PROVE  Refines
<1>1. 1 \in 0 .. sp /\ sp >= 1
  BY DEF CanPop, Facts
<1>2. ObjectsFit /\ globals' \in [1 .. NumGlobals -> Oop] /\ status' = status
  BY ObjectsSame DEF IInv, TypeOK
<1>3. /\ IInv' /\ Stacks!Becomes(Stacks!First(Stacks!Top.stack, Stacks!Size - 1)) /\ ReceiversKept
      /\ Running = TRUE /\ Running' = TRUE
  BY <1>1, <1>2, AfterStep DEF Executing
<1>4. StackObjects' = StackObjects
  BY <1>3, StackObjectsSame
<1>5. Stacks!Size = sp
  BY TopFacts DEF TopIs, Executing
<1>6. Stacks!Drop
  BY <1>1, <1>3, <1>4, <1>5 DEF Stacks!Drop
<1> QED
  BY <1>3, <1>6 DEF Refines, Stacks!Next

LEMMA PopStackTopStep == ASSUME Facts, IInv, PopStackTop PROVE Refines
  BY DropStep, StopStep DEF PopStackTop, Executing

LEMMA JumpIfBooleanStep == ASSUME Facts, IInv, JumpIfBoolean PROVE Refines
<1>1. CASE Stop("error") \/ Stop("aborted")
  BY <1>1, StopStep DEF JumpIfBoolean, Executing
<1>2. CASE CanPop(1) /\ After(1) /\ UNCHANGED <<objects, globals, status>>
  BY <1>2, DropStep DEF JumpIfBoolean
<1> QED
  BY <1>1, <1>2 DEF JumpIfBoolean


(* The top operand. *)
LEMMA TopOperand ==
  ASSUME Facts, TopIs, sp >= 1
  PROVE  /\ StackOopAt(0) \in Oop /\ StackOopAt(0) = Stacks!Top.stack[Stacks!Size]
         /\ {0, 1} \subseteq 0 .. sp /\ Stacks!Size = sp /\ Stacks!Size >= 1
<1>1. sp \in 1 .. sp /\ 0 < sp /\ {0, 1} \subseteq 0 .. sp /\ sp - 0 - 1 = sp - 1
  BY DEF Facts
<1>2. StackOopAt(0) \in Oop /\ StackOopAt(0) = Here[sp - 1]
  BY <1>1, Operand
<1> QED
  BY <1>1, <1>2 DEF TopIs

(* A store of the top operand into an element of an object. *)
LEMMA SetElementStep ==
  ASSUME Facts, IInv, Executing, CanPop(1), NEW o \in DOMAIN objects,
         NEW i \in 1 .. Len(objects[o].slots), NEW pop \in {0, 1},
         objects' = [objects EXCEPT ![o].slots[i] = StackOopAt(0)],
         After(pop), UNCHANGED <<globals, status>>
  PROVE  Refines
<1>1. sp >= 1 /\ status = "running" /\ ~calling /\ status' = status
  BY DEF CanPop, Facts, Executing
<1>2. TopIs
  BY <1>1, TopFacts
<1>3. /\ StackOopAt(0) \in Oop /\ StackOopAt(0) = Stacks!Top.stack[Stacks!Size]
      /\ pop \in 0 .. sp /\ Stacks!Size = sp /\ Stacks!Size >= 1
  BY <1>1, <1>2, TopOperand
<1>4. PICK v : v = StackOopAt(0)
  OBVIOUS
<1>5. Stores(o, i, v)
  BY <1>3, <1>4 DEF Stores
<1>6. ObjectsFit /\ globals' \in [1 .. NumGlobals -> Oop]
  BY <1>5, ObjectsSet DEF IInv, TypeOK, Stores
<1>7. /\ IInv' /\ Stacks!Becomes(Stacks!First(Stacks!Top.stack, Stacks!Size - pop)) /\ ReceiversKept
      /\ Running = TRUE /\ Running' = TRUE
  BY <1>1, <1>3, <1>6, AfterStep
<1>8. StackObjects' = [StackObjects EXCEPT ![o].slots[i] = v]
  BY <1>5, <1>7, StackObjectsSet DEF Stores
<1>9. o \in DOMAIN StackObjects /\ i \in DOMAIN StackObjects[o].slots
  BY StackObjectsAre DEF Facts
<1>10. Stacks!SetElement(o, i, pop)
  BY <1>3, <1>4, <1>7, <1>8, <1>9 DEF Stacks!SetElement
<1> QED
  BY <1>7, <1>9, <1>10 DEF Refines, Stacks!Next

(* The three stores into objects and the one into a literal variable. *)
LEMMA SetReceiverSlotStep ==
  ASSUME Facts, IInv, Executing, CanPop(1), NEW i \in Nat, NEW pop \in {0, 1}, SetReceiverSlot(i, pop)
  PROVE  Refines
<1>1. CASE HasSlot(Frame.receiver, i)
  <2>1. PICK o : o = Frame.receiver
    OBVIOUS
  <2>2. o \in DOMAIN objects /\ i + 1 \in 1 .. Len(objects[o].slots)
    BY <1>1, <2>1, SlotOfVector
  <2>3. /\ objects' = [objects EXCEPT ![o].slots[i + 1] = StackOopAt(0)]
        /\ After(pop) /\ UNCHANGED <<globals, status>>
    BY <1>1, <2>1 DEF SetReceiverSlot
  <2> QED
    BY <2>2, <2>3, SetElementStep
<1>2. CASE ~HasSlot(Frame.receiver, i)
  BY <1>2, StopStep DEF SetReceiverSlot, Executing
<1> QED
  BY <1>1, <1>2

LEMMA StoreReceiverVariableStep ==
  ASSUME Facts, IInv, NEW i \in Nat, NEW pop \in {0, 1}, StoreReceiverVariable(i, pop)
  PROVE  Refines
  BY SetReceiverSlotStep, StopStep DEF StoreReceiverVariable, Executing

LEMMA DoubleStoreReceiverVariableStep ==
  ASSUME Facts, IInv, NEW i \in Nat, NEW pop \in {0, 1}, DoubleStoreReceiverVariable(i, pop)
  PROVE  Refines
  BY SetReceiverSlotStep, StopStep DEF DoubleStoreReceiverVariable, Executing

LEMMA StoreRemoteTempStep ==
  ASSUME Facts, IInv, NEW i \in Nat, NEW v \in Nat, NEW pop \in {0, 1}, StoreRemoteTemp(i, v, pop)
  PROVE  Refines
<1>1. CASE Stop("error") \/ Stop("stray element")
  BY <1>1, StopStep DEF StoreRemoteTemp, Executing
<1>2. CASE /\ v < sp /\ HasSlot(Here[v], i)
           /\ objects' = [objects EXCEPT ![Here[v]].slots[i + 1] = StackOopAt(0)]
           /\ After(pop)
           /\ UNCHANGED <<globals, status>>
  <2>1. PICK o : o = Here[v]
    OBVIOUS
  <2>2. o \in DOMAIN objects /\ i + 1 \in 1 .. Len(objects[o].slots)
    BY <1>2, <2>1, SlotOfVector
  <2>3. objects' = [objects EXCEPT ![o].slots[i + 1] = StackOopAt(0)]
    BY <1>2, <2>1
  <2>4. CanPop(1)
    BY <1>2 DEF CanPop, Facts
  <2> QED
    BY <1>2, <2>2, <2>3, <2>4, SetElementStep DEF StoreRemoteTemp
<1>3. v < sp \/ v >= sp
  BY DEF Facts
<1> QED
  BY <1>1, <1>2, <1>3 DEF StoreRemoteTemp

LEMMA StoreLiteralVariableStep ==
  ASSUME Facts, IInv, NEW g \in 0 .. NumGlobals, NEW pop \in {0, 1}, StoreLiteralVariable(g, pop)
  PROVE  Refines
<1>1. CASE Stop("error")
  BY <1>1, StopStep DEF StoreLiteralVariable, Executing
<1>2. CASE /\ CanPop(1) /\ g > 0
           /\ globals' = [globals EXCEPT ![g] = StackOopAt(0)]
           /\ After(pop) /\ UNCHANGED <<objects, status>>
  <2>1. sp >= 1 /\ status = "running" /\ ~calling /\ status' = status
    BY <1>2 DEF CanPop, Facts, StoreLiteralVariable, Executing
  <2>2. TopIs
    BY <2>1, TopFacts
  <2>3. /\ StackOopAt(0) \in Oop /\ StackOopAt(0) = Stacks!Top.stack[Stacks!Size]
        /\ pop \in 0 .. sp /\ Stacks!Size = sp /\ Stacks!Size >= 1
    BY <2>1, <2>2, TopOperand
  <2>4. g \in 1 .. NumGlobals /\ globals \in [1 .. NumGlobals -> Oop]
    BY <1>2, FramesAssumption DEF IInv, TypeOK
  <2>5. ObjectsFit
    BY <1>2, ObjectsSame
  <2>6. globals' \in [1 .. NumGlobals -> Oop]
    BY <1>2, <2>3, <2>4
  <2>7. /\ IInv' /\ Stacks!Becomes(Stacks!First(Stacks!Top.stack, Stacks!Size - pop)) /\ ReceiversKept
        /\ Running = TRUE /\ Running' = TRUE
    BY <1>2, <2>1, <2>3, <2>5, <2>6, AfterStep
  <2>8. StackObjects' = StackObjects
    BY <1>2, <2>7, StackObjectsSame
  <2>9. Stacks!SetGlobal(g, pop) /\ g \in DOMAIN globals
    BY <1>2, <2>3, <2>4, <2>7, <2>8 DEF Stacks!SetGlobal
  <2> QED
    BY <2>7, <2>9 DEF Refines, Stacks!Next
<1> QED
  BY <1>1, <1>2 DEF StoreLiteralVariable

(* A store into a live slot is one into the sequence. *)
LEMMA StackedSet ==
  ASSUME Facts, NEW i \in Nat, i < sp, NEW v \in Oop
  PROVE  /\ SetTemporary(Here, i, v) \in [Slot -> Oop]
         /\ Stacked(SetTemporary(Here, i, v), sp) = [Stacked(Here, sp) EXCEPT ![i + 1] = v]
<1> DEFINE t == SetTemporary(Here, i, v)
           whole == [Stacked(Here, sp) EXCEPT ![i + 1] = v]
<1>1. Here \in [Slot -> Oop] /\ i \in Slot /\ sp \in 0 .. FrameSize
  BY LiveSlot DEF Facts
<1>2. t \in [Slot -> Oop]
  BY <1>1 DEF SetTemporary
<1>3. /\ Stacked(Here, sp) \in Seq(Oop) /\ Len(Stacked(Here, sp)) = sp
      /\ \A j \in 1 .. sp : j - 1 \in Slot /\ Stacked(Here, sp)[j] = Here[j - 1]
  BY <1>1, StackedSeq
<1>4. /\ Stacked(t, sp) \in Seq(Oop) /\ Len(Stacked(t, sp)) = sp
      /\ \A j \in 1 .. sp : Stacked(t, sp)[j] = t[j - 1]
  BY <1>1, <1>2, StackedSeq
<1>5. i + 1 \in 1 .. sp
  BY DEF Facts
<1>6. /\ whole \in Seq(Oop) /\ Len(whole) = sp
      /\ \A j \in 1 .. sp : whole[j] = IF j = i + 1 THEN v ELSE Stacked(Here, sp)[j]
  BY <1>3, <1>5, ExceptSeq
<1>7. \A j \in Slot : t[j] = IF j = i THEN v ELSE Here[j]
  BY <1>1 DEF SetTemporary
<1> HIDE DEF t, whole
<1>8. sp \in Nat
  BY DEF Facts
<1>9. ASSUME NEW j \in 1 .. sp PROVE whole[j] = Stacked(t, sp)[j]
  <2>1. j - 1 \in Slot
    BY <1>3
  <2>2. j = i + 1 <=> j - 1 = i
    BY <1>8
  <2> QED
    BY <1>3, <1>4, <1>6, <1>7, <2>1, <2>2
<1>10. whole = Stacked(t, sp)
  BY <1>4, <1>6, <1>9, SameSeq
<1> QED
  BY <1>2, <1>10 DEF t, whole

(* The top operand goes to a temporary that is live when it is popped or     *)
(* not.  It does not matter that the slot may be the operand's own.          *)
LEMMA SetTemporarySlots ==
  ASSUME Facts, TopIs, sp >= 1, NEW i \in 0 .. sp - 1, NEW pop \in {0, 1}
  PROVE  /\ SetTemporary(Popped(pop), i, StackOopAt(0)) \in [Slot -> Oop]
         /\ Stacked(SetTemporary(Popped(pop), i, StackOopAt(0)), sp - pop) =
              Stacks!First([Stacks!Top.stack EXCEPT ![i + 1] = Stacks!Top.stack[Stacks!Size]],
                           Stacks!Size - pop)
<1> DEFINE s == SetTemporary(Popped(pop), i, StackOopAt(0))
           t == SetTemporary(Here, i, StackOopAt(0))
           whole == [Stacked(Here, sp) EXCEPT ![i + 1] = StackOopAt(0)]
<1>1. /\ StackOopAt(0) \in Oop /\ StackOopAt(0) = Stacks!Top.stack[Stacks!Size]
      /\ pop \in 0 .. sp /\ Stacks!Size = sp /\ i \in Slot
  <2>1. i \in Nat /\ i < sp
    BY DEF Facts
  <2> QED
    BY <2>1, TopOperand, LiveSlot
<1>2. /\ Popped(pop) \in [Slot -> Oop] /\ Here \in [Slot -> Oop]
      /\ \A j \in 0 .. sp - pop - 1 : j \in Slot /\ Popped(pop)[j] = Here[j]
  BY <1>1, PoppedSlots DEF Facts
<1>3. s \in [Slot -> Oop] /\ t \in [Slot -> Oop]
  BY <1>1, <1>2 DEF SetTemporary
<1>4. \A j \in 0 .. sp - pop - 1 : s[j] = t[j]
  BY <1>1, <1>2 DEF SetTemporary
<1>5. sp \in 0 .. FrameSize /\ sp - pop \in 0 .. sp /\ sp - pop \in Nat
  BY <1>1 DEF Facts
<1>6. whole = Stacked(t, sp)
  <2>1. i \in Nat /\ i < sp
    BY DEF Facts
  <2> QED
    BY <1>1, <2>1, StackedSet
<1> HIDE DEF s, t
<1>7. Stacked(s, sp - pop) = Stacked(t, sp - pop)
  BY <1>4, <1>5, StackedAgrees
<1>8. SubSeq(Stacked(t, sp), 1, sp - pop) = Stacked(t, sp - pop)
  BY <1>3, <1>5, StackedFirst
<1>9. whole = [Stacks!Top.stack EXCEPT ![i + 1] = Stacks!Top.stack[Stacks!Size]]
  BY <1>1 DEF TopIs
<1> HIDE DEF whole
<1>10. Stacks!First(whole, Stacks!Size - pop) = Stacked(s, sp - pop)
  BY <1>1, <1>6, <1>7, <1>8 DEF Stacks!First
<1> QED
  BY <1>3, <1>9, <1>10 DEF s

(* A store to a live temporary. *)
LEMMA SetTemporaryStep ==
  ASSUME Facts, IInv, Executing, CanPop(1), NEW i \in Nat, i < sp, NEW pop \in {0, 1},
         Leave(SetTemporary(Popped(pop), i, StackOopAt(0)), sp - pop),
         UNCHANGED <<objects, globals, status>>
  PROVE  Refines
<1>1. sp >= 1 /\ status = "running" /\ ~calling /\ status' = status
  BY DEF CanPop, Facts, Executing
<1>2. TopIs
  BY <1>1, TopFacts
<1>3. /\ Stacks!Size = sp /\ i \in 0 .. sp - 1 /\ i + 1 \in 1 .. sp /\ sp - pop \in 0 .. FrameSize
  BY <1>1, <1>2 DEF TopIs, Facts
<1>4. PICK s : s = SetTemporary(Popped(pop), i, StackOopAt(0))
  OBVIOUS
<1>5. s \in [Slot -> Oop]
  BY <1>1, <1>2, <1>3, <1>4, SetTemporarySlots
<1>6. Stacked(s, sp - pop) =
        Stacks!First([Stacks!Top.stack EXCEPT ![i + 1] = Stacks!Top.stack[Stacks!Size]],
                     Stacks!Size - pop)
  BY <1>1, <1>2, <1>3, <1>4, SetTemporarySlots
<1>7. ObjectsFit /\ globals' \in [1 .. NumGlobals -> Oop]
  BY ObjectsSame DEF IInv, TypeOK
<1>8. /\ IInv' /\ Stacks!Becomes(Stacked(s, sp - pop)) /\ ReceiversKept
      /\ Running = TRUE /\ Running' = TRUE
  BY <1>1, <1>3, <1>4, <1>5, <1>7, LeaveStep
<1>9. StackObjects' = StackObjects
  BY <1>8, StackObjectsSame
<1>10. Stacks!SetTemporary(i + 1, pop) /\ i + 1 \in 1 .. Stacks!Size
  BY <1>3, <1>6, <1>8, <1>9 DEF Stacks!SetTemporary
<1> QED
  BY <1>8, <1>10 DEF Refines, Stacks!Next

LEMMA PopStoreTemporalVariableStep ==
  ASSUME Facts, IInv, NEW i \in Nat, PopStoreTemporalVariable(i) PROVE Refines
  BY SetTemporaryStep, StopStep DEF PopStoreTemporalVariable, Executing

LEMMA ExtendedStoreTemporaryStep ==
  ASSUME Facts, IInv, NEW i \in Nat, NEW pop \in {0, 1}, ExtendedStoreTemporary(i, pop)
  PROVE  Refines
<1>1. CASE Stop("error")
  BY <1>1, StopStep DEF ExtendedStoreTemporary, Executing
<1>2. CASE /\ CanPop(1) /\ i < sp - pop
           /\ Leave(SetTemporary(Popped(pop), i, StackOopAt(0)), sp - pop)
           /\ UNCHANGED <<objects, globals, status>>
  <2>1. i < sp
    BY <1>2 DEF Facts
  <2> QED
    BY <1>2, <2>1, SetTemporaryStep DEF ExtendedStoreTemporary
<1> QED
  BY <1>1, <1>2 DEF ExtendedStoreTemporary

-----------------------------------------------------------------------------
(* Comparisons, vectors and blocks *)

(* A result is pushed where n operands were. *)
LEMMA PushedOver ==
  ASSUME Facts, TopIs, NEW n \in 0 .. sp, sp - n < FrameSize, NEW v \in Oop,
         NEW s \in [Slot -> Oop], \A i \in 0 .. sp - n - 1 : s[i] = Here[i]
  PROVE  /\ [s EXCEPT ![sp - n] = v] \in [Slot -> Oop] /\ sp - n + 1 \in 0 .. FrameSize
         /\ Stacked([s EXCEPT ![sp - n] = v], sp - n + 1)
              = Append(Stacks!First(Stacks!Top.stack, Stacks!Size - n), v)
<1> DEFINE top == sp - n
<1>1. top \in 0 .. FrameSize /\ top < FrameSize /\ top \in 0 .. sp /\ top \in Nat
      /\ sp \in 0 .. FrameSize
  BY DEF Facts
<1>2. \A i \in 0 .. top - 1 : s[i] = Here[i]
  OBVIOUS
<1> HIDE DEF top
<1> DEFINE t == [s EXCEPT ![top] = v]
<1>3. top \in Slot /\ top + 1 \in 0 .. FrameSize /\ FrameSize \in Nat
  BY <1>1 DEF Slot, Facts
<1>4. t \in [Slot -> Oop] /\ t[top] = v
  BY <1>3
<1>5. \A i \in 0 .. top - 1 : t[i] = s[i]
  <2>1. \A i \in 0 .. top - 1 : i \in Slot /\ i # top
    BY <1>1, <1>3 DEF Slot
  <2> QED
    BY <2>1
<1> HIDE DEF t
<1>6. Stacked(t, top + 1) = Append(Stacked(s, top), v)
  BY <1>1, <1>3, <1>4, <1>5, StackedPush
<1>7. Stacked(s, top) = Stacked(Here, top)
  BY <1>1, <1>2, StackedAgrees
<1>8. SubSeq(Stacked(Here, sp), 1, top) = Stacked(Here, top)
  BY <1>1, StackedFirst DEF Facts
<1>9. Stacks!First(Stacks!Top.stack, Stacks!Size - n) = Stacked(Here, top)
  BY <1>8 DEF TopIs, Stacks!First, top
<1> QED
  BY <1>3, <1>7, <1>9, <1>4, <1>6 DEF top, t

(* The comparison answers the same on slots and sequences. *)
LEMMA IdentityStep ==
  ASSUME Facts, IInv, NEW ifSame, NEW ifNot,
         \/ ifSame = True /\ ifNot = False
         \/ ifSame = False /\ ifNot = True,
         Identity(ifSame, ifNot)
  PROVE  Refines
<1>1. CASE Stop("error")
  BY <1>1, StopStep DEF Identity, Executing
<1>2. CASE /\ CanPop(2)
           /\ PushOnto(Popped(2), sp - 2,
                       IF StackOopAt(0) = StackOopAt(1) THEN ifSame ELSE ifNot)
           /\ UNCHANGED <<objects, globals, status>>
  <2>1. /\ sp >= 2 /\ 2 \in 0 .. sp /\ sp - 2 < FrameSize /\ 0 < sp /\ 1 < sp
        /\ sp - 1 \in 1 .. sp /\ sp \in 1 .. sp /\ sp - 1 - 1 = sp - 2
        /\ sp - 0 - 1 = sp - 1
    BY <1>2 DEF CanPop, Facts
  <2>2. status = "running" /\ ~calling /\ status' = status
    BY <1>2 DEF Identity, Executing
  <2>3. TopIs
    BY <2>2, TopFacts
  <2>4. PICK v : v = IF StackOopAt(0) = StackOopAt(1) THEN ifSame ELSE ifNot
    OBVIOUS
  <2>5. v \in Oop
    BY <2>4 DEF Oop, Plain
  <2>6. /\ StackOopAt(0) = Stacks!Top.stack[Stacks!Size]
        /\ StackOopAt(1) = Stacks!Top.stack[Stacks!Size - 1]
    <3>1. StackOopAt(0) = Here[sp - 1] /\ StackOopAt(1) = Here[sp - 2]
      BY <2>1 DEF StackOopAt
    <3>2. \A i \in 1 .. sp : Stacks!Top.stack[i] = Here[i - 1]
      BY <2>3 DEF TopIs
    <3>3. Stacks!Top.stack[sp] = Here[sp - 1] /\ Stacks!Top.stack[sp - 1] = Here[sp - 2]
      BY <2>1, <3>2
    <3>4. Stacks!Size = sp
      BY <2>3 DEF TopIs
    <3> QED
      BY <3>1, <3>3, <3>4
  <2>7. Popped(2) \in [Slot -> Oop] /\ \A i \in 0 .. sp - 2 - 1 : Popped(2)[i] = Here[i]
    BY <2>1, PoppedSlots
  <2>8. PICK s : s = [Popped(2) EXCEPT ![sp - 2] = v]
    OBVIOUS
  <2>9. /\ s \in [Slot -> Oop] /\ sp - 2 + 1 \in 0 .. FrameSize
        /\ Stacked(s, sp - 2 + 1) = Append(Stacks!First(Stacks!Top.stack, Stacks!Size - 2), v)
    BY <2>1, <2>3, <2>5, <2>7, <2>8, PushedOver
  <2>10. Leave(s, sp - 2 + 1)
    BY <1>2, <2>4, <2>8 DEF PushOnto
  <2>11. ObjectsFit /\ globals' \in [1 .. NumGlobals -> Oop]
    BY <1>2, ObjectsSame DEF IInv, TypeOK
  <2>12. /\ IInv' /\ Stacks!Becomes(Stacked(s, sp - 2 + 1)) /\ ReceiversKept
         /\ Running = TRUE /\ Running' = TRUE
    BY <2>2, <2>9, <2>10, <2>11, LeaveStep
  <2>13. StackObjects' = StackObjects
    BY <1>2, <2>12, StackObjectsSame
  <2>14. Stacks!Size >= 2
    BY <2>1, <2>3 DEF TopIs
  <2>15. Stacks!Compare(ifSame, ifNot)
    BY <1>2, <2>4, <2>6, <2>9, <2>12, <2>13, <2>14 DEF Stacks!Compare
  <2> QED
    BY <2>12, <2>15 DEF Refines, Stacks!Next
<1> QED
  BY <1>1, <1>2 DEF Identity

(* The new object r is pushed where pops operands were. *)
LEMMA CreateStep ==
  ASSUME Facts, IInv, Executing, NEW r, Creates(r), NEW pops \in 0 .. sp, sp - pops < FrameSize,
         NEW s \in [Slot -> Oop], \A i \in 0 .. sp - pops - 1 : s[i] = Here[i],
         PushOnto(s, sp - pops, Len(objects) + 1), UNCHANGED <<globals, status>>
  PROVE  /\ IInv' /\ Stacks!Create(StackObject(r), pops)
         /\ Running = TRUE /\ Running' = TRUE
<1>1. status = "running" /\ ~calling /\ status' = status
  BY DEF Executing
<1>2. TopIs
  BY <1>1, TopFacts
<1>3. ObjectsFit /\ Len(objects) + 1 \in Oop /\ globals' \in [1 .. NumGlobals -> Oop]
  BY ObjectsCreated DEF IInv, TypeOK, Creates
<1>4. PICK t : t = [s EXCEPT ![sp - pops] = Len(objects) + 1]
  OBVIOUS
<1>5. /\ t \in [Slot -> Oop] /\ sp - pops + 1 \in 0 .. FrameSize
      /\ Stacked(t, sp - pops + 1)
           = Append(Stacks!First(Stacks!Top.stack, Stacks!Size - pops), Len(objects) + 1)
  BY <1>2, <1>3, <1>4, PushedOver
<1>6. Leave(t, sp - pops + 1)
  BY <1>4 DEF PushOnto
<1>7. /\ IInv' /\ Stacks!Becomes(Stacked(t, sp - pops + 1)) /\ ReceiversKept
      /\ Running = TRUE /\ Running' = TRUE
  BY <1>1, <1>3, <1>5, <1>6, LeaveStep
<1>8. StackObjects' = Append(StackObjects, StackObject(r))
  BY <1>7, StackObjectsCreated DEF Creates
<1>9. Len(StackObjects) = Len(objects)
  <2>1. DOMAIN StackObjects = 1 .. Len(objects) /\ Len(objects) \in Nat
    BY StackObjectsAre DEF Facts
  <2> DEFINE n == Len(objects)
  <2>2. StackObjects \in [1 .. n -> {StackObjects[o] : o \in 1 .. n}]
    <3>1. StackObjects = [o \in 1 .. n |-> StackObjects[o]]
      BY <2>1 DEF StackObjects
    <3> QED
      BY <3>1
  <2> HIDE DEF n
  <2>3. n \in Nat
    BY <2>1 DEF n
  <2>4. Len(StackObjects) = n
    BY <2>2, <2>3, FunctionIsSeq
  <2> QED
    BY <2>4 DEF n
<1>10. Stacks!Create(StackObject(r), pops)
  BY <1>5, <1>7, <1>8, <1>9 DEF Stacks!Create
<1> QED
  BY <1>7, <1>10

(* The last operands, oldest first. *)
LEMMA LastOperands ==
  ASSUME Facts, TopIs, NEW n \in 0 .. sp
  PROVE  /\ Stacks!Last(Stacks!Top.stack, n) \in Seq(Oop)
         /\ Len(Stacks!Last(Stacks!Top.stack, n)) = n
         /\ \A i \in 1 .. n : /\ sp - n + i - 1 \in Slot
                              /\ Stacks!Last(Stacks!Top.stack, n)[i] = Here[sp - n + i - 1]
<1>1. sp \in 0 .. FrameSize /\ Here \in [Slot -> Oop] /\ Len(Stacked(Here, sp)) = sp
  BY StackedSeq DEF Facts
<1>2. Stacks!Last(Stacks!Top.stack, n) = SubSeq(Stacked(Here, sp), sp - n + 1, sp)
  BY <1>1 DEF TopIs, Stacks!Last
<1>3. /\ SubSeq(Stacked(Here, sp), sp - n + 1, sp) \in Seq(Oop)
      /\ Len(SubSeq(Stacked(Here, sp), sp - n + 1, sp)) = n
      /\ \A i \in 1 .. n : SubSeq(Stacked(Here, sp), sp - n + 1, sp)[i] = Here[sp - n + i - 1]
  BY <1>1, StackedLast
<1>4. \A i \in 1 .. n : sp - n + i - 1 \in Slot
  BY DEF Facts, Slot
<1> QED
  BY <1>2, <1>3, <1>4

(* A block takes its copied values from the sequence. *)
LEMMA PushClosureStep ==
  ASSUME Facts, IInv, NEW args \in BlockArgs, NEW n \in CopiedCounts, PushClosure(args, n)
  PROVE  Refines
<1>1. CASE Stop("error") \/ Stop("aborted")
  BY <1>1, StopStep DEF PushClosure, Executing
<1>2. CASE /\ CanPop(n) /\ Len(objects) < MaxObjects /\ sp - n < FrameSize
           /\ objects' = Append(objects, [slots |-> Captured(n), block |-> TRUE,
                                          numArgs |-> args, outer |-> active])
           /\ PushOnto(Popped(n), sp - n, Len(objects) + 1)
           /\ UNCHANGED <<globals, status>>
  <2>1. /\ n \in Nat /\ args \in Nat /\ args + n <= FrameSize
    BY FramesAssumption
  <2>2. n \in 0 .. sp /\ sp \in Nat
    BY <1>2, <2>1 DEF CanPop, Facts
  <2>3. Executing /\ TopIs
    BY TopFacts DEF PushClosure, Executing
  <2>4. /\ Captured(n) \in Seq(Oop) /\ Len(Captured(n)) = n
        /\ \A i \in 1 .. n : Captured(n)[i] = Here[sp - n + i - 1]
    <3>1. ASSUME NEW i \in 1 .. n
          PROVE  StackOopAt(n - i) \in Oop /\ StackOopAt(n - i) = Here[sp - n + i - 1]
      <4>1. n - i \in Nat /\ n - i < sp /\ sp - (n - i) - 1 = sp - n + i - 1
        BY <2>1, <2>2
      <4> QED
        BY <4>1, Operand
    <3>2. Captured(n) \in [1 .. n -> Oop]
      BY <3>1 DEF Captured
    <3>3. \A i \in 1 .. n : Captured(n)[i] = Here[sp - n + i - 1]
      BY <3>1 DEF Captured
    <3> QED
      BY <2>1, <3>2, <3>3, FunctionIsSeq
  <2>5. Captured(n) = Stacks!Last(Stacks!Top.stack, n)
    <3>1. /\ Stacks!Last(Stacks!Top.stack, n) \in Seq(Oop)
          /\ Len(Stacks!Last(Stacks!Top.stack, n)) = n
          /\ \A i \in 1 .. n : Stacks!Last(Stacks!Top.stack, n)[i] = Here[sp - n + i - 1]
      BY <2>2, <2>3, LastOperands
    <3> QED
      BY <2>4, <3>1, SameSeq
  <2>6. PICK r : r = [slots |-> Captured(n), block |-> TRUE, numArgs |-> args, outer |-> active]
    OBVIOUS
  <2>7. /\ r \in Object /\ r.block = TRUE /\ r.outer = active /\ r.numArgs = args
        /\ r.slots = Captured(n)
    BY <2>1, <2>4, <2>6 DEF Object, Facts
  <2>8. r.outer \in DOMAIN contexts /\ r.numArgs + Len(r.slots) <= FrameSize
    BY <2>1, <2>4, <2>7 DEF Facts
  <2>9. Creates(r)
    BY <1>2, <2>6, <2>7, <2>8 DEF Creates
  <2>10. Popped(n) \in [Slot -> Oop] /\ \A i \in 0 .. sp - n - 1 : Popped(n)[i] = Here[i]
    BY <2>2, PoppedSlots
  <2>11. PICK s : s = Popped(n)
    OBVIOUS
  <2>12. /\ IInv' /\ Stacks!Create(StackObject(r), n) /\ Running = TRUE /\ Running' = TRUE
    BY <1>2, <2>2, <2>3, <2>9, <2>10, <2>11, CreateStep DEF Creates
  <2>13. StackObject(r) = [slots |-> Stacks!Last(Stacks!Top.stack, n), block |-> TRUE,
                           numArgs |-> args, receiver |-> Stacks!Top.receiver]
    BY <2>3, <2>5, <2>7 DEF StackObject, TopIs, Frame
  <2>14. Stacks!NewBlock(n, args) /\ n \in 0 .. Stacks!Size
    BY <2>2, <2>3, <2>12, <2>13 DEF Stacks!NewBlock, TopIs
  <2> QED
    BY <2>12, <2>14 DEF Refines, Stacks!Next
<1>3. sp - n >= FrameSize \/ sp - n < FrameSize
  BY FramesAssumption DEF Facts
<1>4. Len(objects) = MaxObjects \/ Len(objects) < MaxObjects
  BY FramesAssumption DEF IInv, TypeOK
<1> QED
  BY <1>1, <1>2, <1>3, <1>4 DEF PushClosure

(* A vector takes its elements from the sequence, or is filled with nil. *)
LEMMA PushNewArrayStep ==
  ASSUME Facts, IInv, NEW n \in VectorSizes, NEW popping \in BOOLEAN, PushNewArray(n, popping)
  PROVE  Refines
<1> DEFINE top == IF popping THEN sp - n ELSE sp
<1>1. CASE Stop("error") \/ Stop("aborted")
  BY <1>1, StopStep DEF PushNewArray, Executing
<1>2. CASE /\ CanPop(n) /\ Len(objects) < MaxObjects /\ top < FrameSize
           /\ objects' = Append(objects, [slots |-> ArrayOf(n), block |-> FALSE,
                                          numArgs |-> 0, outer |-> 0])
           /\ PushOnto(Here, top, Len(objects) + 1)
           /\ UNCHANGED <<globals, status>>
  <2>1. n \in Nat
    BY FramesAssumption
  <2>2. n \in 0 .. sp /\ sp \in Nat
    BY <1>2, <2>1 DEF CanPop, Facts
  <2>3. Executing /\ TopIs
    BY TopFacts DEF PushNewArray, Executing
  <2>4. /\ ArrayOf(n) \in Seq(Oop) /\ Len(ArrayOf(n)) = n /\ ArrayOf(n) \in [1 .. n -> Oop]
        /\ \A i \in 1 .. n : ArrayOf(n)[i] = Here[sp - i]
    <3>1. ASSUME NEW i \in 1 .. n
          PROVE  StackOopAt(i - 1) \in Oop /\ StackOopAt(i - 1) = Here[sp - i]
      <4>1. i - 1 \in Nat /\ i - 1 < sp /\ sp - (i - 1) - 1 = sp - i
        BY <2>1, <2>2
      <4> QED
        BY <4>1, Operand
    <3>2. ArrayOf(n) \in [1 .. n -> Oop]
      BY <3>1 DEF ArrayOf
    <3>3. \A i \in 1 .. n : ArrayOf(n)[i] = Here[sp - i]
      BY <3>1 DEF ArrayOf
    <3> QED
      BY <2>1, <3>2, <3>3, FunctionIsSeq
  <2>5. ArrayOf(n) = Stacks!Reversed(Stacks!Last(Stacks!Top.stack, n))
    <3>1. /\ Len(Stacks!Last(Stacks!Top.stack, n)) = n
          /\ \A i \in 1 .. n : Stacks!Last(Stacks!Top.stack, n)[i] = Here[sp - n + i - 1]
      BY <2>2, <2>3, LastOperands
    <3>2. \A i \in 1 .. n : n + 1 - i \in 1 .. n /\ sp - n + (n + 1 - i) - 1 = sp - i
      BY <2>1, <2>2
    <3>3. \A i \in 1 .. n : Stacks!Last(Stacks!Top.stack, n)[n + 1 - i] = Here[sp - i]
      BY <3>1, <3>2
    <3>4. Stacks!Reversed(Stacks!Last(Stacks!Top.stack, n)) = [i \in 1 .. n |-> Here[sp - i]]
      BY <3>1, <3>3 DEF Stacks!Reversed
    <3> QED
      BY <2>4, <3>4
  <2>6. PICK r : r = [slots |-> ArrayOf(n), block |-> FALSE, numArgs |-> 0, outer |-> 0]
    OBVIOUS
  <2>7. r \in Object /\ r.block = FALSE /\ r.numArgs = 0 /\ r.slots = ArrayOf(n)
    BY <2>4, <2>6 DEF Object
  <2>8. Creates(r)
    BY <1>2, <2>6, <2>7 DEF Creates
  <2>9. PICK pops : pops = IF popping THEN n ELSE 0
    OBVIOUS
  <2>10. pops \in 0 .. sp /\ pops \in {0, n} /\ sp - pops = top /\ sp - pops < FrameSize
    BY <1>2, <2>1, <2>2, <2>9
  <2>11. Here \in [Slot -> Oop]
    BY DEF Facts
  <2>12. PushOnto(Here, sp - pops, Len(objects) + 1)
    BY <1>2, <2>10
  <2> HIDE DEF top
  <2>13. PICK s : s = Here
    OBVIOUS
  <2>14. s \in [Slot -> Oop] /\ (\A i \in 0 .. sp - pops - 1 : s[i] = Here[i])
         /\ PushOnto(s, sp - pops, Len(objects) + 1)
    BY <2>11, <2>12, <2>13
  <2>15. /\ IInv' /\ Stacks!Create(StackObject(r), pops) /\ Running = TRUE /\ Running' = TRUE
    BY <1>2, <2>3, <2>8, <2>10, <2>14, CreateStep DEF Creates
  <2>16. StackObject(r) = [slots |-> Stacks!Reversed(Stacks!Last(Stacks!Top.stack, n)), block |-> FALSE,
                           numArgs |-> 0, receiver |-> Nil]
    BY <2>5, <2>7 DEF StackObject
  <2>17. Stacks!NewVector(n, pops) /\ n \in 0 .. Stacks!Size
    BY <2>2, <2>3, <2>15, <2>16 DEF Stacks!NewVector, TopIs
  <2> QED
    BY <2>10, <2>15, <2>17 DEF Refines, Stacks!Next
<1>3. top >= FrameSize \/ top < FrameSize
  BY FramesAssumption DEF Facts
<1>4. Len(objects) = MaxObjects \/ Len(objects) < MaxObjects
  BY FramesAssumption DEF IInv, TypeOK
<1> QED
  BY <1>1, <1>2, <1>3, <1>4 DEF PushNewArray

-----------------------------------------------------------------------------
(* Primitives that fail *)

(* Nothing the abstract specification knows changes. *)
LEMMA SameStacks ==
  ASSUME Facts, IInv, UNCHANGED <<contexts, active, sp, objects, globals, status>>
  PROVE  UNCHANGED Stacks!vars
<1>1. StackFrames' = StackFrames
  BY DEF StackFrames, Chain, ChainIn, Closed, Live, Stacked
<1>2. StackObjects' = StackObjects
  BY DEF StackObjects
<1> QED
  BY <1>1, <1>2 DEF Stacks!vars, Running

(* The fall-through of value: to the method's code. *)
LEMMA PrimitiveFailsStep == ASSUME Facts, IInv, PrimitiveFails PROVE Refines
<1>1. PICK m : m = Frame.method
  OBVIOUS
<1>2. /\ m \in Methods /\ NumArgs[m] \in Nat /\ NumTemps[m] \in Nat /\ sp = NumTemps[m]
      /\ ErrorName \in Plain /\ ErrorName \in Oop
  BY <1>1, FramesAssumption DEF Facts, IInv, CallsAtStart, PrimitiveFails, Plain, Oop
<1>3. status = "running" /\ calling' = FALSE /\ UNCHANGED <<active, sp, objects, globals, status>>
  BY DEF PrimitiveFails
<1>4. CASE NumTemps[m] > NumArgs[m]
  <2>1. NumArgs[m] < sp /\ NumArgs[m] + 1 \in 1 .. sp
    BY <1>2, <1>4
  <2>2. PICK s : s = SetTemporary(Here, NumArgs[m], ErrorName)
    OBVIOUS
  <2>3. /\ s \in [Slot -> Oop]
        /\ Stacked(s, sp) = [Stacked(Here, sp) EXCEPT ![NumArgs[m] + 1] = ErrorName]
    BY <1>2, <2>1, <2>2, StackedSet
  <2>4. Rewrites(s, sp)
    BY <1>1, <1>3, <1>4, <2>2 DEF PrimitiveFails, Rewrites
  <2>5. ObjectsFit /\ globals' \in [1 .. NumGlobals -> Oop] /\ sp \in 0 .. FrameSize
    BY <1>3, ObjectsSame DEF IInv, TypeOK
  <2>6. IInv'
    BY <1>3, <2>3, <2>4, <2>5, RewritesInv
  <2>7. Stacks!Becomes(Stacked(s, sp))
    BY <1>3, <2>3, <2>4, RewritesFrames
  <2>8. ReceiversKept
    BY <2>3, <2>4, RewritesContexts DEF ReceiversKept
  <2>9. StackObjects' = StackObjects
    BY <1>3, <2>8, StackObjectsSame
  <2>10. TopIs /\ Running = TRUE /\ Running' = TRUE
    BY <1>3, TopFacts DEF Running
  <2>11. Stacks!Explain(NumArgs[m] + 1, ErrorName) /\ NumArgs[m] + 1 \in 1 .. Stacks!Size
    BY <1>3, <2>1, <2>3, <2>7, <2>9, <2>10 DEF Stacks!Explain, TopIs
  <2> QED
    BY <1>2, <2>6, <2>10, <2>11 DEF Refines, Stacks!Next
<1>5. CASE ~(NumTemps[m] > NumArgs[m])
  <2>1. contexts' = contexts
    BY <1>1, <1>5 DEF PrimitiveFails
  <2>2. IInv'
    BY <1>3, <2>1 DEF IInv, TypeOK, SendersAreOlder, BlocksFit, CallsAtStart, Block
  <2> QED
    BY <1>3, <2>1, <2>2, SameStacks DEF Refines
<1> QED
  BY <1>4, <1>5

-----------------------------------------------------------------------------
(* New activations *)

(* The activations below the running one are those of its sender's chain.    *)
LEMMA CallersAre ==
  ASSUME Facts
  PROVE  Chain \ {active} = IF Frame.sender = 0 THEN {} ELSE ChainIn(contexts, Frame.sender)
<1>1. PICK n : n = Len(contexts)
  OBVIOUS
<1>2. n \in Nat /\ Older(contexts, n) /\ active \in 1 .. n /\ Frame.sender \in 0 .. active - 1
  BY <1>1 DEF Facts
<1>3. Chain = {active} \cup (IF Frame.sender = 0 THEN {} ELSE ChainIn(contexts, Frame.sender))
  BY <1>2, ChainUnfold DEF Chain, Frame
<1>4. ASSUME Frame.sender # 0 PROVE active \notin ChainIn(contexts, Frame.sender)
  <2>1. PICK s : s = Frame.sender
    OBVIOUS
  <2>2. s \in 1 .. n /\ s < active /\ active \in Nat
    BY <1>2, <1>4, <2>1
  <2>3. ChainIn(contexts, s) \subseteq 1 .. s
    BY <1>2, <2>2, ChainClosed
  <2> QED
    BY <2>1, <2>2, <2>3
<1> QED
  BY <1>3, <1>4

(* A context is created on top of the running one or of its sender. *)
Activates(new, caller) ==
  /\ new \in ContextObject /\ new.sender \in {active, Frame.sender}
  /\ caller \in ContextObject
  /\ caller.sender = Frame.sender /\ caller.receiver = Frame.receiver
  /\ Activate(new, caller)

(* The new context is the last one. *)
LEMMA ActivatesContexts ==
  ASSUME Facts, IInv, NEW new, NEW caller, Activates(new, caller)
  PROVE  /\ contexts' \in Seq(ContextObject) /\ Len(contexts') = Len(contexts) + 1
         /\ DOMAIN contexts' = 1 .. Len(contexts) + 1
         /\ \A c \in DOMAIN contexts : contexts'[c] = IF c = active THEN caller ELSE contexts[c]
         /\ contexts'[Len(contexts) + 1] = new
<1>1. contexts \in Seq(ContextObject) /\ active \in 1 .. Len(contexts)
  BY DEF IInv, TypeOK, Facts
<1>2. PICK left : left = [contexts EXCEPT ![active] = caller]
  OBVIOUS
<1>3. /\ left \in Seq(ContextObject) /\ Len(left) = Len(contexts)
      /\ \A c \in 1 .. Len(contexts) : left[c] = IF c = active THEN caller ELSE contexts[c]
  BY <1>1, <1>2, ExceptSeq DEF Activates
<1>4. contexts' = Append(left, new) /\ new \in ContextObject
  BY <1>2 DEF Activates, Activate
<1>5. /\ contexts' \in Seq(ContextObject) /\ Len(contexts') = Len(left) + 1
      /\ \A c \in 1 .. Len(left) : contexts'[c] = left[c]
      /\ contexts'[Len(left) + 1] = new
  BY <1>3, <1>4, AppendProperties
<1>6. DOMAIN contexts' = 1 .. Len(contexts')
  BY <1>5, LenProperties
<1>7. DOMAIN contexts = 1 .. Len(contexts)
  BY DEF Facts
<1> QED
  BY <1>3, <1>5, <1>6, <1>7

(* Its sender is older and its live slots are those it started with. *)
LEMMA ActivatesInv ==
  ASSUME Facts, IInv, NEW new, NEW caller, Activates(new, caller),
         calling' \in BOOLEAN,
         calling' => /\ new.stackp = NumTemps[new.method]
                     /\ new.method \in ValueMethods => new.receiver \in Block
  PROVE  IInv' /\ ReceiversKept
<1> DEFINE n == Len(contexts)
<1>1. /\ contexts' \in Seq(ContextObject) /\ DOMAIN contexts' = 1 .. n + 1
      /\ \A c \in DOMAIN contexts : contexts'[c] = IF c = active THEN caller ELSE contexts[c]
      /\ contexts'[n + 1] = new
  BY ActivatesContexts
<1>2. /\ active' = n + 1 /\ sp' = new.stackp /\ UNCHANGED <<objects, globals, status>>
      /\ new \in ContextObject /\ new.sender \in {active, Frame.sender}
      /\ caller.sender = contexts[active].sender /\ caller.receiver = contexts[active].receiver
  BY DEF Activates, Activate, Frame
<1>3. /\ n \in Nat /\ DOMAIN contexts = 1 .. n /\ active \in 1 .. n
      /\ Frame.sender \in 0 .. active - 1
  BY DEF Facts
<1>4. Frame' = new
  BY <1>1, <1>2 DEF Frame
<1> HIDE DEF n
<1>5. TypeOK'
  <2>1. active' \in DOMAIN contexts'
    BY <1>1, <1>2, <1>3
  <2>2. sp' \in 0 .. FrameSize
    BY <1>2 DEF ContextObject
  <2> QED
    BY <1>1, <1>2, <2>1, <2>2 DEF IInv, TypeOK
<1>6. SendersAreOlder'
  <2>1. new.sender < n + 1
    BY <1>2, <1>3
  <2>2. \A c \in DOMAIN contexts : contexts'[c].sender = contexts[c].sender
    BY <1>1, <1>2
  <2>3. \A c \in 1 .. n + 1 : c \in DOMAIN contexts \/ c = n + 1
    BY <1>3
  <2> QED
    BY <1>1, <2>1, <2>2, <2>3 DEF IInv, SendersAreOlder
<1>7. BlocksFit'
  <2>1. DOMAIN contexts \subseteq DOMAIN contexts'
    BY <1>1, <1>3
  <2> QED
    BY <1>2, <2>1 DEF IInv, BlocksFit, Block
<1>8. CallsAtStart'
  BY <1>2, <1>4 DEF CallsAtStart, Block
<1>9. ReceiversKept
  BY <1>1, <1>2 DEF ReceiversKept
<1> QED
  BY <1>5, <1>6, <1>7, <1>8, <1>9 DEF IInv

(* What the chain and its activations become. *)
LEMMA ActivatesFrames ==
  ASSUME Facts, IInv, status = "running", NEW new, NEW caller, Activates(new, caller)
  PROVE  /\ \A c \in Chain : c < Len(contexts) + 1
         /\ StackFrames' =
              [c \in {Len(contexts) + 1} \cup (IF new.sender = active THEN Chain ELSE Chain \ {active}) |->
                 IF c = Len(contexts) + 1
                 THEN [receiver |-> new.receiver, stack |-> Stacked(new.slots, new.stackp)]
                 ELSE IF c = active
                      THEN [receiver |-> Frame.receiver, stack |-> Stacked(caller.slots, caller.stackp)]
                      ELSE Live(c)]
<1>1. PICK n : n = Len(contexts)
  OBVIOUS
<1>2. PICK ctx : ctx = contexts'
  OBVIOUS
<1>3. /\ DOMAIN ctx = 1 .. n + 1
      /\ \A c \in DOMAIN contexts : ctx[c] = IF c = active THEN caller ELSE contexts[c]
      /\ ctx[n + 1] = new
  BY <1>1, <1>2, ActivatesContexts
<1>4. /\ active' = n + 1 /\ sp' = new.stackp /\ status' = "running"
      /\ new.sender \in {active, Frame.sender}
      /\ caller.sender = contexts[active].sender /\ caller.receiver = contexts[active].receiver
  BY <1>1 DEF Activates, Activate, Frame
<1>5. /\ n \in Nat /\ DOMAIN contexts = 1 .. n /\ active \in 1 .. n /\ Older(contexts, n)
      /\ Frame.sender \in 0 .. active - 1
  BY <1>1 DEF Facts
<1>6. \A c \in 1 .. n : ctx[c].sender = contexts[c].sender
  BY <1>3, <1>4, <1>5
<1>7. Older(ctx, n) /\ Older(ctx, n + 1)
  <2>1. new.sender \in 0 .. n
    BY <1>4, <1>5
  <2>2. \A c \in 1 .. n + 1 : c \in 1 .. n \/ c = n + 1
    BY <1>5
  <2>3. \A c \in 1 .. n : contexts[c].sender \in 0 .. c - 1
    BY <1>5 DEF Older
  <2>4. \A c \in 1 .. n : ctx[c].sender \in 0 .. c - 1
    BY <1>6, <2>3
  <2>5. \A c \in 1 .. n + 1 : ctx[c].sender \in 0 .. c - 1
    <3> SUFFICES ASSUME NEW c \in 1 .. n + 1 PROVE ctx[c].sender \in 0 .. c - 1
      OBVIOUS
    <3>1. CASE c = n + 1
      <4>1. ctx[c] = new
        BY <1>3, <3>1
      <4>2. c - 1 = n
        BY <1>5, <3>1
      <4> QED
        BY <2>1, <4>1, <4>2
    <3> QED
      BY <2>2, <2>4, <3>1
  <2> QED
    BY <2>4, <2>5 DEF Older
<1>8. ASSUME NEW t \in 1 .. n PROVE ChainIn(ctx, t) = ChainIn(contexts, t)
  <2>1. ChainIn(contexts, t) \subseteq 1 .. t /\ 1 .. t \subseteq 1 .. n
    BY <1>5, ChainClosed
  <2>2. \A d \in ChainIn(contexts, t) : ctx[d].sender = contexts[d].sender
    BY <1>6, <2>1
  <2> QED
    BY <1>5, <1>7, <2>2, ChainAgrees
<1>9. ChainIn(ctx, n + 1) = {n + 1} \cup (IF new.sender = active THEN Chain ELSE Chain \ {active})
  <2>1. ChainIn(ctx, n + 1) = {n + 1} \cup (IF new.sender = 0 THEN {} ELSE ChainIn(ctx, new.sender))
    <3>1. n + 1 \in Nat /\ n + 1 \in 1 .. n + 1
      BY <1>5
    <3> QED
      BY <1>3, <1>7, <3>1, ChainUnfold
  <2>2. CASE new.sender = active
    BY <1>5, <1>8, <2>1, <2>2 DEF Chain
  <2>3. CASE new.sender # active
    <3>1. new.sender = Frame.sender
      BY <1>4, <2>3
    <3>2. new.sender # 0 => new.sender \in 1 .. n
      BY <1>5, <3>1
    <3> QED
      BY <1>8, <2>1, <2>3, <3>1, <3>2, CallersAre
  <2> QED
    BY <2>2, <2>3
<1>10. Chain' = ChainIn(ctx, n + 1)
  BY <1>2, <1>4 DEF Chain, ChainIn, Closed
<1>11. \A c \in Chain : c \in 1 .. n /\ c < n + 1
  BY <1>5, ChainIsBelow
<1>12. Live(n + 1)' = [receiver |-> new.receiver, stack |-> Stacked(new.slots, new.stackp)]
  BY <1>2, <1>3, <1>4 DEF Live, Stacked
<1>13. ASSUME NEW c \in Chain
       PROVE  Live(c)' = IF c = active
                         THEN [receiver |-> Frame.receiver, stack |-> Stacked(caller.slots, caller.stackp)]
                         ELSE Live(c)
  <2>1. c \in DOMAIN contexts /\ c # n + 1
    BY <1>5, <1>11
  <2> QED
    BY <1>2, <1>3, <1>4, <2>1 DEF Live, Stacked, Frame
<1>14. StackFrames' = [c \in Chain' |-> Live(c)']
  BY <1>4 DEF StackFrames
<1>15. n + 1 \notin Chain
  BY <1>5, <1>11
<1> QED
  BY <1>1, <1>9, <1>10, <1>11, <1>12, <1>13, <1>14, <1>15

(* What a method finds on its sequence: the arguments, and nil in the other  *)
(* temporaries.                                                              *)
LEMMA CalleeStack ==
  ASSUME Facts, TopIs, NEW n \in Nat, n < sp, NEW temps \in 0 .. FrameSize, n <= temps,
         NEW slots, slots = [i \in Slot |-> IF i < n THEN ArgumentSlot(n, i) ELSE Nil]
  PROVE  /\ slots \in [Slot -> Oop]
         /\ Stacked(slots, temps)
              = Stacks!Last(Stacks!Top.stack, n) \o [i \in 1 .. temps - n |-> Nil]
<1> DEFINE nils == [i \in 1 .. temps - n |-> Nil]
           last == Stacks!Last(Stacks!Top.stack, n)
           both == last \o nils
<1>1. sp \in Nat /\ temps \in Nat /\ temps - n \in Nat /\ n \in 0 .. sp
  BY FramesAssumption DEF Facts
<1>2. ASSUME NEW i \in Nat, i < n
      PROVE  ArgumentSlot(n, i) \in Oop /\ ArgumentSlot(n, i) = Here[sp - n + i]
  <2>1. n - i - 1 \in Nat /\ n - i - 1 < sp /\ sp - (n - i - 1) - 1 = sp - n + i
    BY <1>1, <1>2
  <2> QED
    BY <2>1, Operand DEF ArgumentSlot
<1>3. slots \in [Slot -> Oop]
  <2>1. \A i \in Slot : i \in Nat
    BY FramesAssumption DEF Slot
  <2>2. Nil \in Oop
    BY DEF Oop, Plain
  <2> QED
    BY <1>2, <2>1, <2>2
<1>4. /\ Stacked(slots, temps) \in Seq(Oop) /\ Len(Stacked(slots, temps)) = temps
      /\ \A i \in 1 .. temps : i - 1 \in Slot /\ Stacked(slots, temps)[i] = slots[i - 1]
  BY <1>3, StackedSeq
<1>5. /\ last \in Seq(Oop) /\ Len(last) = n
      /\ \A i \in 1 .. n : last[i] = Here[sp - n + i - 1]
  BY <1>1, LastOperands
<1>6. nils \in Seq(Oop) /\ Len(nils) = temps - n /\ \A i \in 1 .. temps - n : nils[i] = Nil
  <2>1. nils \in [1 .. temps - n -> Oop]
    BY DEF Oop, Plain
  <2>2. \A i \in 1 .. temps - n : nils[i] = Nil
    OBVIOUS
  <2>3. PICK k : k = temps - n
    OBVIOUS
  <2> HIDE DEF nils
  <2> QED
    BY <1>1, <2>1, <2>2, <2>3, FunctionIsSeq
<1> HIDE DEF nils, last
<1>7. /\ both \in Seq(Oop) /\ Len(both) = Len(last) + Len(nils)
      /\ \A i \in 1 .. Len(last) + Len(nils) :
           both[i] = IF i <= Len(last) THEN last[i] ELSE nils[i - Len(last)]
  BY <1>5, <1>6, ConcatProperties
<1>8. Len(both) = temps
  BY <1>1, <1>5, <1>6, <1>7
<1> HIDE DEF both
<1>9. ASSUME NEW i \in 1 .. temps PROVE Stacked(slots, temps)[i] = both[i]
  <2>1. i - 1 \in Slot /\ Stacked(slots, temps)[i] = slots[i - 1]
    BY <1>4
  <2>2. CASE i <= n
    <3>1. i - 1 \in Nat /\ i - 1 < n /\ i \in 1 .. n /\ sp - n + (i - 1) = sp - n + i - 1
      BY <1>1, <2>2
    <3>2. slots[i - 1] = Here[sp - n + i - 1]
      BY <1>2, <2>1, <3>1
    <3>3. both[i] = last[i]
      BY <1>5, <1>7, <1>8, <2>2
    <3> QED
      BY <1>5, <2>1, <3>1, <3>2, <3>3
  <2>3. CASE ~(i <= n)
    <3>1. i - n \in 1 .. temps - n /\ ~(i - 1 < n)
      BY <1>1, <2>3
    <3>2. both[i] = nils[i - n]
      BY <1>5, <1>7, <1>8, <2>3
    <3> QED
      BY <1>6, <2>1, <3>1, <3>2
  <2> QED
    BY <2>2, <2>3
<1>10. Stacked(slots, temps) = both
  BY <1>4, <1>7, <1>8, <1>9, SameSeq
<1> QED
  BY <1>3, <1>10 DEF both, last, nils

(* A send. *)
LEMMA SendStep == ASSUME Facts, IInv, NEW m \in Methods, Send(m) PROVE Refines
<1> DEFINE n == NumArgs[m]
<1>1. CASE Stop("error") \/ Stop("aborted")
  BY <1>1, StopStep DEF Send, Executing
<1>2. PICK new : new = [slots |-> [i \in Slot |-> IF i < n THEN ArgumentSlot(n, i) ELSE Nil],
                        stackp |-> NumTemps[m], sender |-> active,
                        receiver |-> StackOopAt(n), method |-> m]
  OBVIOUS
<1>3. PICK caller : caller = [Frame EXCEPT !.slots = Popped(n + 1), !.stackp = sp - (n + 1)]
  OBVIOUS
<1>4. CASE /\ CanPop(n + 1)
           /\ m \in ValueMethods => StackOopAt(n) \in Block
           /\ Activate(new, caller)
           /\ calling' = (m \in ValueMethods \cup OtherPrimitives)
  <2>1. /\ n \in Nat /\ NumTemps[m] \in 0 .. FrameSize /\ n <= NumTemps[m]
    BY FramesAssumption
  <2>2. n < sp /\ n + 1 \in 0 .. sp /\ sp \in Nat /\ sp - n \in 1 .. sp /\ sp - n - 1 = sp - (n + 1)
    BY <1>4, <2>1 DEF CanPop, Facts
  <2>3. status = "running" /\ TopIs
    BY TopFacts DEF Send, Executing
  <2>4. PICK slots : slots = [i \in Slot |-> IF i < n THEN ArgumentSlot(n, i) ELSE Nil]
    OBVIOUS
  <2>5. /\ slots \in [Slot -> Oop]
        /\ Stacked(slots, NumTemps[m])
             = Stacks!Last(Stacks!Top.stack, n) \o [i \in 1 .. NumTemps[m] - n |-> Nil]
    BY <2>1, <2>2, <2>3, <2>4, CalleeStack
  <2>6. StackOopAt(n) \in Oop /\ StackOopAt(n) = Here[sp - n - 1]
    BY <2>1, <2>2, Operand
  <2>7. /\ new \in ContextObject /\ new.sender = active /\ new.slots = slots
        /\ new.stackp = NumTemps[m] /\ new.receiver = StackOopAt(n) /\ new.method = m
    <3>1. new = [slots |-> slots, stackp |-> NumTemps[m], sender |-> active,
                 receiver |-> StackOopAt(n), method |-> m]
      BY <1>2, <2>4
    <3>2. active \in Nat
      BY DEF Facts
    <3> QED
      BY <2>1, <2>5, <2>6, <3>1, <3>2 DEF ContextObject
  <2>8. Popped(n + 1) \in [Slot -> Oop] /\ sp - (n + 1) \in 0 .. FrameSize
    BY <2>2, PoppedSlots
  <2>9. Frame \in ContextObject
    BY DEF Facts, Frame
  <2>10. /\ caller \in ContextObject /\ caller.sender = Frame.sender
         /\ caller.receiver = Frame.receiver
         /\ caller.slots = Popped(n + 1) /\ caller.stackp = sp - (n + 1)
    BY <1>3, <2>8, <2>9 DEF ContextObject
  <2>11. Activates(new, caller)
    BY <1>4, <2>7, <2>10 DEF Activates
  <2>12. UNCHANGED <<objects, globals, status>>
    BY <1>4 DEF Activate
  <2>13. IInv' /\ ReceiversKept
    <3>1. calling' \in BOOLEAN
      BY <1>4
    <3>2. calling' => /\ new.stackp = NumTemps[new.method]
                      /\ new.method \in ValueMethods => new.receiver \in Block
      BY <1>4, <2>7
    <3> QED
      BY <2>11, <3>1, <3>2, ActivatesInv DEF Activates
  <2>14. StackObjects' = StackObjects
    BY <2>12, <2>13, StackObjectsSame
  <2>15. Stacked(Popped(n + 1), sp - (n + 1))
           = Stacks!First(Stacks!Top.stack, Stacks!Size - (n + 1))
    BY <2>2, <2>3, PoppedSeq
  <2>16. Stacks!Top.stack[Stacks!Size - n] = StackOopAt(n)
    BY <2>2, <2>3, <2>6 DEF TopIs
  <2> DEFINE N == Len(contexts) + 1
             callee == [receiver |-> new.receiver, stack |-> Stacked(new.slots, new.stackp)]
             left == [receiver |-> Frame.receiver, stack |-> Stacked(caller.slots, caller.stackp)]
             fs == [StackFrames EXCEPT ![active].stack = left.stack]
  <2>17. /\ \A c \in Chain : c < N
         /\ StackFrames' = [c \in {N} \cup Chain |->
                              IF c = N THEN callee ELSE IF c = active THEN left ELSE Live(c)]
    BY <2>3, <2>7, <2>11, ActivatesFrames DEF Activates
  <2>18. StackFrames = [c \in Chain |-> Live(c)]
    BY <2>3 DEF StackFrames
  <2>19. active \in Chain /\ Live(active).receiver = Frame.receiver
    BY ChainIsBelow DEF Live, Frame
  <2>20. [Live(active) EXCEPT !.stack = left.stack] = left
    BY <2>19 DEF Live
  <2>21. DOMAIN fs = Chain /\ \A c \in Chain : fs[c] = IF c = active THEN left ELSE Live(c)
    <3> HIDE DEF left
    <3> QED
      BY <2>18, <2>19, <2>20
  <2>22. N \notin Chain
    <3>1. N \in Nat
      BY DEF Facts
    <3> HIDE DEF N
    <3> QED
      BY <2>17, <3>1
  <2>23. StackFrames' = [f \in DOMAIN fs \cup {N} |-> IF f = N THEN callee ELSE fs[f]]
    <3> HIDE DEF fs, N, callee, left
    <3> QED
      BY <2>17, <2>21
  <2>24. N \in DOMAIN StackFrames' /\ \A f \in DOMAIN StackFrames : f < N
    <3> HIDE DEF fs, N, callee, left
    <3> QED
      BY <2>17, <2>18
  <2>25. Stacks!Starts(fs, new.receiver, Stacked(new.slots, new.stackp))
    <3> HIDE DEF fs, N
    <3> QED
      BY <2>23, <2>24 DEF Stacks!Starts
  <2>26. fs = [StackFrames EXCEPT ![Stacks!Here].stack
                 = Stacks!First(Stacks!Top.stack, Stacks!Size - (n + 1))]
    BY <2>3, <2>10, <2>15 DEF TopIs
  <2>27. n < Stacks!Size /\ Running = TRUE /\ Running' = TRUE
    BY <2>2, <2>3, <2>12 DEF TopIs, Running
  <2> HIDE DEF fs
  <2>28. Stacks!Call(NumArgs[m], NumTemps[m])
    BY <2>5, <2>7, <2>12, <2>14, <2>16, <2>25, <2>26, <2>27 DEF Stacks!Call
  <2>29. m \in DOMAIN NumArgs
    BY FramesAssumption
  <2> QED
    BY <2>13, <2>27, <2>28, <2>29 DEF Refines, Stacks!Next
<1> QED
  BY <1>1, <1>2, <1>3, <1>4 DEF Send

(* A block finds its arguments and then the values it captured. *)
LEMMA BlockStack ==
  ASSUME Facts, TopIs, NEW b \in DOMAIN objects, objects[b].numArgs = sp,
         sp + Len(objects[b].slots) <= FrameSize,
         NEW slots, slots = [i \in Slot |-> BlockSlot(b, i)]
  PROVE  /\ slots \in [Slot -> Oop]
         /\ Stacked(slots, sp + Len(objects[b].slots)) = Stacks!Top.stack \o objects[b].slots
<1> DEFINE captured == objects[b].slots
           both == Stacked(Here, sp) \o captured
<1>1. PICK k : k = Len(captured)
  OBVIOUS
<1>2. /\ k \in Nat /\ captured \in Seq(Oop) /\ \A i \in 1 .. k : captured[i] \in Oop
  BY <1>1 DEF Facts
<1>3. sp \in Nat /\ sp \in 0 .. FrameSize /\ sp + k \in 0 .. FrameSize /\ sp + k \in Nat
  BY <1>1, <1>2 DEF Facts
<1>4. ASSUME NEW i \in Slot
      PROVE  BlockSlot(b, i) = IF i < sp THEN Here[i]
                               ELSE IF i - sp \in 0 .. k - 1 THEN captured[i - sp + 1] ELSE Nil
  <2>1. i \in Nat
    BY FramesAssumption DEF Slot
  <2> QED
    BY <1>1, <1>2, <1>3, <2>1 DEF BlockSlot
<1> HIDE DEF captured
<1>5. slots \in [Slot -> Oop]
  <2>1. ASSUME NEW i \in Slot PROVE BlockSlot(b, i) \in Oop
    <3>1. i \in Nat /\ Here[i] \in Oop /\ Nil \in Oop
      BY FramesAssumption DEF Slot, Facts, Oop, Plain
    <3>2. i - sp \in 0 .. k - 1 => i - sp + 1 \in 1 .. k
      BY <1>2, <1>3, <3>1
    <3> QED
      BY <1>2, <1>4, <3>1, <3>2
  <2> QED
    BY <2>1
<1>6. /\ Stacked(slots, sp + k) \in Seq(Oop) /\ Len(Stacked(slots, sp + k)) = sp + k
      /\ \A i \in 1 .. sp + k : i - 1 \in Slot /\ Stacked(slots, sp + k)[i] = slots[i - 1]
  BY <1>3, <1>5, StackedSeq
<1>7. /\ Stacked(Here, sp) \in Seq(Oop) /\ Len(Stacked(Here, sp)) = sp
      /\ \A i \in 1 .. sp : Stacked(Here, sp)[i] = Here[i - 1]
  BY <1>3, StackedSeq DEF Facts
<1>8. /\ both \in Seq(Oop) /\ Len(both) = sp + k
      /\ \A i \in 1 .. sp + k :
           both[i] = IF i <= sp THEN Stacked(Here, sp)[i] ELSE captured[i - sp]
  <2>1. PICK a : a = Stacked(Here, sp)
    OBVIOUS
  <2>2. /\ a \o captured \in Seq(Oop) /\ Len(a \o captured) = Len(a) + Len(captured)
        /\ \A i \in 1 .. Len(a) + Len(captured) :
             (a \o captured)[i] = IF i <= Len(a) THEN a[i] ELSE captured[i - Len(a)]
    BY <1>2, <1>7, <2>1, ConcatProperties
  <2>3. Len(a) = sp /\ Len(captured) = k
    BY <1>1, <1>7, <2>1
  <2>4. both = a \o captured
    BY <2>1
  <2> HIDE DEF both
  <2> QED
    BY <2>1, <2>2, <2>3, <2>4
<1> HIDE DEF both
<1>9. ASSUME NEW i \in 1 .. sp + k PROVE Stacked(slots, sp + k)[i] = both[i]
  <2>1. i - 1 \in Slot /\ Stacked(slots, sp + k)[i] = BlockSlot(b, i - 1)
    BY <1>6
  <2>2. i \in Nat
    BY <1>3
  <2>3. CASE i <= sp
    <3>1. i - 1 < sp /\ i \in 1 .. sp
      BY <1>3, <2>2, <2>3
    <3>2. BlockSlot(b, i - 1) = Here[i - 1]
      BY <1>4, <2>1, <3>1
    <3>3. both[i] = Stacked(Here, sp)[i] /\ Stacked(Here, sp)[i] = Here[i - 1]
      BY <1>7, <1>8, <2>3, <3>1
    <3> QED
      BY <2>1, <3>2, <3>3
  <2>4. CASE ~(i <= sp)
    <3>1. ~(i - 1 < sp) /\ i - 1 - sp \in 0 .. k - 1 /\ i - 1 - sp + 1 = i - sp
      BY <1>2, <1>3, <2>2, <2>4
    <3>2. BlockSlot(b, i - 1) = captured[i - sp]
      BY <1>4, <2>1, <3>1
    <3>3. both[i] = captured[i - sp]
      BY <1>8, <2>4
    <3> QED
      BY <2>1, <3>2, <3>3
  <2> QED
    BY <2>3, <2>4
<1>10. Stacked(slots, sp + k) = both
  BY <1>6, <1>8, <1>9, SameSeq
<1> QED
  BY <1>1, <1>5, <1>10 DEF both, captured, TopIs

(* The evaluation of a block. *)
LEMMA BlockValueStep == ASSUME Facts, IInv, BlockValue PROVE Refines
<1>1. CASE Stop("aborted")
  BY <1>1, StopStep DEF BlockValue
<1>2. PICK b : b = Frame.receiver
  OBVIOUS
<1>3. PICK k : k = Len(objects[b].slots)
  OBVIOUS
<1>4. PICK slots : slots = [i \in Slot |-> BlockSlot(b, i)]
  OBVIOUS
<1>5. PICK new : new = [slots |-> slots, stackp |-> objects[b].numArgs + k,
                        sender |-> Frame.sender,
                        receiver |-> contexts[objects[b].outer].receiver,
                        method |-> contexts[objects[b].outer].method]
  OBVIOUS
<1>6. CASE Activate(new, Frame) /\ calling' = FALSE
  <2>1. /\ status = "running" /\ calling /\ Frame.method \in ValueMethods
        /\ objects[b].numArgs = NumArgs[Frame.method]
    BY <1>2 DEF BlockValue
  <2>2. b \in Block /\ b \in DOMAIN objects /\ objects[b].block
    BY <1>2, <2>1 DEF IInv, CallsAtStart, Block
  <2>3. objects[b].numArgs = sp
    BY <2>1, FramesAssumption DEF IInv, CallsAtStart
  <2>4. /\ objects[b].outer \in DOMAIN contexts /\ sp + k <= FrameSize
    BY <1>3, <2>2, <2>3 DEF IInv, BlocksFit
  <2>5. k \in Nat /\ sp + k \in 0 .. FrameSize /\ objects[b].slots \in Seq(Oop)
    BY <1>3, <2>2, <2>4 DEF Facts
  <2>6. TopIs
    BY <2>1, TopFacts
  <2>7. slots \in [Slot -> Oop] /\ Stacked(slots, sp + k) = Stacks!Top.stack \o objects[b].slots
    BY <1>3, <1>4, <2>2, <2>3, <2>4, <2>6, BlockStack
  <2>8. contexts[objects[b].outer] \in ContextObject
    BY <2>4 DEF Facts
  <2>9. contexts[objects[b].outer].receiver \in Oop /\ contexts[objects[b].outer].method \in Methods
    BY <2>8 DEF ContextObject
  <2>10. Frame.sender \in Nat /\ Frame.sender < active /\ active \in Nat /\ Frame \in ContextObject
    BY DEF Facts, Frame
  <2>11. new \in ContextObject /\ new.sender = Frame.sender /\ new.slots = slots
         /\ new.stackp = sp + k /\ new.receiver = contexts[objects[b].outer].receiver
    BY <1>5, <2>3, <2>5, <2>7, <2>9, <2>10 DEF ContextObject
  <2>12. Activates(new, Frame)
    BY <1>6, <2>10, <2>11 DEF Activates
  <2>13. UNCHANGED <<objects, globals, status>>
    BY <1>6 DEF Activate
  <2>14. IInv' /\ ReceiversKept
    BY <1>6, <2>12, ActivatesInv DEF Activates
  <2>15. StackObjects' = StackObjects
    BY <2>13, <2>14, StackObjectsSame
  <2> DEFINE N == Len(contexts) + 1
             callee == [receiver |-> new.receiver, stack |-> Stacked(new.slots, new.stackp)]
  <2>16. /\ \A c \in Chain : c < N
         /\ StackFrames' = [c \in {N} \cup (Chain \ {active}) |-> IF c = N THEN callee ELSE Live(c)]
    <3>1. new.sender # active
      BY <2>10, <2>11
    <3> QED
      BY <2>1, <2>12, <3>1, ActivatesFrames DEF Activates
  <2>17. StackFrames = [c \in Chain |-> Live(c)]
    BY <2>1 DEF StackFrames
  <2>18. Stacks!Callers = [c \in Chain \ {active} |-> Live(c)]
    BY <2>6, <2>17 DEF TopIs, Stacks!Callers
  <2>19. StackFrames' = [f \in DOMAIN Stacks!Callers \cup {N} |->
                           IF f = N THEN callee ELSE Stacks!Callers[f]]
    <3> HIDE DEF N, callee
    <3> QED
      BY <2>16, <2>18
  <2>20. N \in DOMAIN StackFrames' /\ \A f \in DOMAIN StackFrames : f < N
    <3> HIDE DEF N, callee
    <3> QED
      BY <2>16, <2>17
  <2>21. Stacks!Starts(Stacks!Callers, new.receiver, Stacked(new.slots, new.stackp))
    <3> HIDE DEF N
    <3> QED
      BY <2>19, <2>20 DEF Stacks!Starts
  <2>22. /\ b \in DOMAIN StackObjects /\ StackObjects[b].block
         /\ StackObjects[b].numArgs = sp /\ StackObjects[b].slots = objects[b].slots
         /\ StackObjects[b].receiver = new.receiver
    <3>1. StackObjects[b] = StackObject(objects[b]) /\ b \in DOMAIN StackObjects
      BY <2>2, StackObjectsAre
    <3> QED
      BY <2>2, <2>3, <2>11, <3>1 DEF StackObject
  <2>23. /\ Stacks!Top.receiver = b /\ Stacks!Size = sp /\ Running = TRUE /\ Running' = TRUE
    BY <1>2, <2>1, <2>6, <2>13 DEF TopIs, Running
  <2>24. Stacks!Evaluate
    BY <2>7, <2>11, <2>13, <2>15, <2>21, <2>22, <2>23 DEF Stacks!Evaluate
  <2> QED
    BY <2>14, <2>23, <2>24 DEF Refines, Stacks!Next
<1> QED
  BY <1>1, <1>2, <1>3, <1>4, <1>5, <1>6 DEF BlockValue

-----------------------------------------------------------------------------
(* Returns *)

(* The context after a return: its operands are popped and it has no sender. *)
LeftContext(pop) == [Frame EXCEPT !.slots = Popped(pop), !.stackp = sp - pop, !.sender = 0]

(* Only the returning context changes, and it returns to none. *)
LEMMA LeftContexts ==
  ASSUME Facts, IInv, NEW pop \in 0 .. sp, NEW left, left = [contexts EXCEPT ![active] = LeftContext(pop)]
  PROVE  /\ left \in Seq(ContextObject) /\ Len(left) = Len(contexts) /\ DOMAIN left = DOMAIN contexts
         /\ \A c \in DOMAIN contexts :
              left[c].receiver = contexts[c].receiver /\ (c # active => left[c] = contexts[c])
         /\ left[active].sender = 0 /\ left[active].method = Frame.method
<1>1. contexts \in Seq(ContextObject) /\ active \in 1 .. Len(contexts) /\ Frame \in ContextObject
  BY DEF IInv, TypeOK, Facts, Frame
<1>2. PICK f : f = LeftContext(pop)
  OBVIOUS
<1>3. Popped(pop) \in [Slot -> Oop] /\ sp - pop \in 0 .. FrameSize
  BY PoppedSlots
<1>4. f \in ContextObject /\ f.receiver = Frame.receiver /\ f.sender = 0 /\ f.method = Frame.method
  BY <1>1, <1>2, <1>3 DEF LeftContext, ContextObject
<1>5. /\ left \in Seq(ContextObject) /\ Len(left) = Len(contexts)
      /\ \A c \in 1 .. Len(contexts) : left[c] = IF c = active THEN f ELSE contexts[c]
  BY <1>1, <1>2, <1>4, ExceptSeq
<1>6. DOMAIN left = DOMAIN contexts /\ DOMAIN contexts = 1 .. Len(contexts)
  BY DEF Facts
<1> QED
  BY <1>1, <1>4, <1>5, <1>6 DEF Frame

(* The last activation returns. *)
LEMMA FinishStep ==
  ASSUME Facts, IInv, status = "running", NEW pop \in 0 .. sp,
         contexts' = [contexts EXCEPT ![active] = LeftContext(pop)], status' = "returned",
         UNCHANGED <<active, sp, calling, objects, globals>>
  PROVE  Refines
<1>1. PICK left : left = contexts'
  OBVIOUS
<1>2. /\ left \in Seq(ContextObject) /\ DOMAIN left = DOMAIN contexts
      /\ \A c \in DOMAIN contexts :
           left[c].receiver = contexts[c].receiver /\ (c # active => left[c] = contexts[c])
      /\ left[active].sender = 0 /\ left[active].method = Frame.method
  BY <1>1, LeftContexts
<1>3. active \in DOMAIN contexts /\ active \in Nat /\ active > 0
  BY DEF Facts
<1>4. Frame'.receiver = Frame.receiver /\ Frame'.method = Frame.method
  BY <1>1, <1>2, <1>3 DEF Frame
<1>5. TypeOK'
  BY <1>1, <1>2 DEF IInv, TypeOK
<1>6. SendersAreOlder'
  BY <1>1, <1>2, <1>3 DEF IInv, SendersAreOlder
<1>7. BlocksFit' /\ CallsAtStart'
  BY <1>1, <1>2, <1>4 DEF IInv, BlocksFit, CallsAtStart, Block
<1>8. ReceiversKept
  BY <1>1, <1>2 DEF ReceiversKept
<1>9. StackObjects' = StackObjects
  BY <1>8, StackObjectsSame
<1>10. DOMAIN StackFrames' = {}
  BY DEF StackFrames
<1>11. Running = TRUE /\ Running' = FALSE
  BY DEF Running
<1>12. Stacks!AnswerLast
  BY <1>9, <1>10, <1>11 DEF Stacks!AnswerLast
<1> QED
  BY <1>5, <1>6, <1>7, <1>11, <1>12 DEF Refines, IInv, Stacks!Next

(* A suspended context that is as it was. *)
LEMMA LiveKept ==
  ASSUME NEW c, contexts'[c] = contexts[c], c # active, c # active'
  PROVE  Live(c)' = Live(c)
  BY DEF Live, Stacked

(* The sender is resumed with v on top of its operands. *)
LEMMA ResumeStep ==
  ASSUME Facts, IInv, status = "running", NEW pop \in 0 .. sp, NEW v \in Oop, v \in Stacks!Readable,
         NEW target, target = Frame.sender, target # 0,
         NEW left, left = [contexts EXCEPT ![active] = LeftContext(pop)],
         NEW top, top = left[target].stackp, ~(top >= FrameSize),
         contexts' = [left EXCEPT ![target].slots[top] = v],
         active' = target, sp' = top + 1, calling' = FALSE,
         UNCHANGED <<objects, globals, status>>
  PROVE  Refines
<1>1. PICK n : n = Len(contexts)
  OBVIOUS
<1>2. /\ n \in Nat /\ DOMAIN contexts = 1 .. n /\ active \in 1 .. n /\ Older(contexts, n)
      /\ target \in 1 .. n /\ target < active
  BY <1>1 DEF Facts
<1>3. /\ left \in Seq(ContextObject) /\ Len(left) = n /\ DOMAIN left = 1 .. n
      /\ \A c \in 1 .. n :
           left[c].receiver = contexts[c].receiver /\ (c # active => left[c] = contexts[c])
      /\ left[active].sender = 0
  BY <1>1, <1>2, LeftContexts
<1>4. /\ left[target] = contexts[target] /\ contexts[target] \in ContextObject
      /\ top = contexts[target].stackp
  BY <1>2, <1>3 DEF Facts
<1>5. /\ top \in 0 .. FrameSize /\ top < FrameSize /\ top \in Slot /\ top + 1 \in 0 .. FrameSize
      /\ contexts[target].slots \in [Slot -> Oop]
  <2>1. contexts[target].stackp \in 0 .. FrameSize /\ contexts[target].slots \in [Slot -> Oop]
    BY <1>4 DEF ContextObject
  <2>2. top \in 0 .. FrameSize /\ FrameSize \in Nat /\ ~(top >= FrameSize)
    BY <1>4, <2>1, FramesAssumption
  <2> QED
    BY <2>1, <2>2 DEF Slot
<1>6. PICK slots : slots = [contexts[target].slots EXCEPT ![top] = v]
  OBVIOUS
<1>7. /\ slots \in [Slot -> Oop]
      /\ Stacked(slots, top + 1) = Append(Stacked(contexts[target].slots, top), v)
  <2>1. PICK old : old = contexts[target].slots
    OBVIOUS
  <2>2. PICK t : t = top
    OBVIOUS
  <2>3. /\ old \in [Slot -> Oop] /\ t \in 0 .. FrameSize /\ t < FrameSize
        /\ slots = [old EXCEPT ![t] = v]
    BY <1>5, <1>6, <2>1, <2>2
  <2>4. slots \in [Slot -> Oop] /\ Stacked(slots, t + 1) = Append(Stacked(old, t), v)
    BY <2>3, PushedSlots
  <2> QED
    BY <2>1, <2>2, <2>4
<1>8. PICK f : f = [contexts[target] EXCEPT !.slots = slots]
  OBVIOUS
<1>9. f \in ContextObject /\ f.slots = slots /\ f.receiver = contexts[target].receiver
      /\ f.sender = contexts[target].sender
  BY <1>4, <1>7, <1>8 DEF ContextObject
<1>10. contexts' = [left EXCEPT ![target] = f]
  BY <1>4, <1>6, <1>8
<1>11. /\ contexts' \in Seq(ContextObject)
       /\ \A c \in 1 .. n : contexts'[c] = IF c = target THEN f ELSE left[c]
  BY <1>2, <1>3, <1>9, <1>10, ExceptSeq
<1>12. DOMAIN contexts' = 1 .. n
  BY <1>3, <1>10
<1>13. PICK ctx : ctx = contexts'
  OBVIOUS
<1>14. \A c \in 1 .. n : /\ ctx[c].receiver = contexts[c].receiver
                        /\ (c # active => ctx[c].sender = contexts[c].sender)
                        /\ (c = active => ctx[c].sender = 0)
                        /\ (c # active /\ c # target => ctx[c] = contexts[c])
  BY <1>2, <1>3, <1>9, <1>11, <1>13
<1>15. ctx[target] = f
  BY <1>2, <1>11, <1>13
<1>16. IInv'
  <2>1. TypeOK'
    <3>1. active' \in DOMAIN contexts' /\ sp' \in 0 .. FrameSize
      BY <1>2, <1>5, <1>12
    <3> QED
      BY <1>11, <3>1 DEF IInv, TypeOK
  <2>2. SendersAreOlder'
    <3>1. \A c \in 1 .. n : ctx[c].sender < c
      BY <1>2, <1>14 DEF IInv, SendersAreOlder
    <3> QED
      BY <1>12, <1>13, <3>1 DEF SendersAreOlder
  <2>3. BlocksFit'
    BY <1>2, <1>12 DEF IInv, BlocksFit, Block
  <2>4. CallsAtStart'
    BY DEF CallsAtStart
  <2> QED
    BY <2>1, <2>2, <2>3, <2>4 DEF IInv
<1>17. Chain \ {active} = ChainIn(contexts, target)
  BY CallersAre
<1>18. /\ target \in ChainIn(contexts, target) /\ ChainIn(contexts, target) \subseteq 1 .. target
       /\ \A d \in ChainIn(contexts, target) : d \in 1 .. n /\ d # active /\ d <= target /\ d \in Nat
  <2>1. /\ target \in ChainIn(contexts, target) /\ ChainIn(contexts, target) \subseteq 1 .. target
    BY <1>2, ChainClosed
  <2> QED
    BY <1>2, <2>1
<1>19. Chain' = Chain \ {active}
  <2>1. Older(ctx, n)
    BY <1>2, <1>14 DEF Older
  <2>2. \A d \in ChainIn(contexts, target) : ctx[d].sender = contexts[d].sender
    BY <1>14, <1>18
  <2>3. ChainIn(ctx, target) = ChainIn(contexts, target)
    BY <1>2, <2>1, <2>2, ChainAgrees
  <2>4. Chain' = ChainIn(ctx, target)
    BY <1>13 DEF Chain, ChainIn, Closed
  <2> QED
    BY <1>17, <2>3, <2>4
<1> DEFINE resumed == [receiver |-> contexts[target].receiver,
                       stack |-> Append(Stacked(contexts[target].slots, top), v)]
<1>20. Live(target)' = resumed
  BY <1>7, <1>9, <1>13, <1>15 DEF Live, Stacked
<1>21. ASSUME NEW c \in Chain \ {active}, c # target PROVE Live(c)' = Live(c)
  <2>1. contexts'[c] = contexts[c] /\ c # active /\ c # active'
    BY <1>13, <1>14, <1>17, <1>18, <1>21
  <2> QED
    BY <2>1, LiveKept
<1>22. StackFrames' = [c \in Chain \ {active} |-> IF c = target THEN resumed ELSE Live(c)]
  <2>1. StackFrames' = [c \in Chain \ {active} |-> Live(c)']
    BY <1>19 DEF StackFrames
  <2> HIDE DEF resumed
  <2> QED
    BY <1>20, <1>21, <2>1
<1>23. TopIs /\ StackFrames = [c \in Chain |-> Live(c)]
  BY TopFacts DEF StackFrames
<1>24. Stacks!Callers = [c \in Chain \ {active} |-> Live(c)]
  BY <1>23 DEF TopIs, Stacks!Callers
<1>25. Stacks!Greatest(DOMAIN Stacks!Callers) = target /\ DOMAIN Stacks!Callers # {}
  <2>1. DOMAIN Stacks!Callers = ChainIn(contexts, target)
    BY <1>17, <1>24
  <2> QED
    BY <1>18, <2>1, GreatestIs
<1>26. [Live(target) EXCEPT !.stack = Append(@, v)] = resumed
  <2>1. target # active
    BY <1>2
  <2>2. Live(target) = [receiver |-> contexts[target].receiver,
                        stack |-> Stacked(contexts[target].slots, top)]
    BY <1>4, <2>1, Zenon DEF Live
  <2>3. PICK r : r = contexts[target].receiver
    OBVIOUS
  <2>4. PICK s : s = Stacked(contexts[target].slots, top)
    OBVIOUS
  <2>5. Live(target) = [receiver |-> r, stack |-> s] /\ resumed = [receiver |-> r, stack |-> Append(s, v)]
    BY <2>2, <2>3, <2>4, Zenon
  <2>6. [Live(target) EXCEPT !.stack = Append(@, v)] = [receiver |-> r, stack |-> Append(s, v)]
    <3>1. PICK old : old = Live(target)
      OBVIOUS
    <3>2. old = [receiver |-> r, stack |-> s]
      BY <2>5, <3>1, Zenon
    <3>3. PICK w : w = Append(old.stack, v)
      OBVIOUS
    <3>4. [old EXCEPT !.stack = w] = [receiver |-> r, stack |-> w] /\ old.stack = s
      BY <3>2
    <3> QED
      BY <3>1, <3>3, <3>4, Zenon
  <2> QED
    BY <2>5, <2>6, Zenon
<1>27. StackFrames' = [Stacks!Callers EXCEPT ![target].stack = Append(@, v)]
  <2> HIDE DEF resumed
  <2> QED
    BY <1>17, <1>18, <1>22, <1>24, <1>26
<1>28. StackObjects' = StackObjects
  <2>1. ReceiversKept
    BY <1>2, <1>13, <1>14 DEF ReceiversKept
  <2> QED
    BY <2>1, StackObjectsSame
<1>29. Running = TRUE /\ Running' = TRUE
  BY DEF Running
<1>30. Stacks!Answer(v)
  BY <1>25, <1>27, <1>28, <1>29 DEF Stacks!Answer
<1> QED
  BY <1>16, <1>29, <1>30 DEF Refines, Stacks!Next

(* A return to the sender, or the last one. *)
LEMMA ReturnStep ==
  ASSUME Facts, IInv, status = "running", NEW pop \in 0 .. sp, NEW v \in Oop, v \in Stacks!Readable,
         Return(v, pop)
  PROVE  Refines
<1> DEFINE left   == [contexts EXCEPT ![active] = LeftContext(pop)]
           target == Frame.sender
           top    == left[target].stackp
<1>1. CASE target = 0
  <2>1. contexts' = left /\ status' = "returned" /\ UNCHANGED <<active, sp, calling, objects, globals>>
    BY <1>1 DEF Return, LeftContext
  <2> QED
    BY <2>1, FinishStep
<1>2. CASE target # 0 /\ top >= FrameSize
  <2>1. Stop("error")
    BY <1>2 DEF Return, LeftContext
  <2> QED
    BY <2>1, StopStep
<1>3. CASE target # 0 /\ ~(top >= FrameSize)
  <2>1. /\ contexts' = [left EXCEPT ![target].slots[top] = v]
        /\ active' = target /\ sp' = top + 1 /\ calling' = FALSE
        /\ UNCHANGED <<objects, globals, status>>
    BY <1>3 DEF Return, LeftContext
  <2> QED
    BY <1>3, <2>1, ResumeStep
<1> QED
  BY <1>1, <1>2, <1>3

(* The three ways to return. *)
LEMMA PrimitiveReturnsStep ==
  ASSUME Facts, IInv, NEW v \in Mentioned \cup {Frame.receiver}, PrimitiveReturns(v)
  PROVE  Refines
<1>1. v \in Oop /\ 0 \in 0 .. sp /\ status = "running"
  BY FramesAssumption DEF Facts, Oop, Plain, PrimitiveReturns
<1>2. v \in Stacks!Readable
  BY <1>1, TopFacts, ReadableAre, FramesAssumption DEF Plain
<1> QED
  BY <1>1, <1>2, ReturnStep DEF PrimitiveReturns

LEMMA ReturnTopStep == ASSUME Facts, IInv, ReturnTop PROVE Refines
<1>1. CASE CanPop(1)
  <2>1. 0 < sp /\ 1 \in 0 .. sp /\ status = "running"
    BY <1>1 DEF CanPop, Facts, ReturnTop, Executing
  <2>2. StackOopAt(0) \in Stacks!Readable /\ StackOopAt(0) \in Oop
    BY <2>1, Operand, TopFacts, ReadableAre
  <2> QED
    BY <1>1, <2>1, <2>2, ReturnStep DEF ReturnTop
<1>2. CASE ~CanPop(1)
  BY <1>2, StopStep DEF ReturnTop, Executing
<1> QED
  BY <1>1, <1>2

LEMMA ReturnValueStep == ASSUME Facts, IInv, ReturnValue PROVE Refines
<1>1. PICK v \in {Frame.receiver} \cup (Mentioned \ Literals) : Return(v, 0)
  BY DEF ReturnValue
<1>2. v \in Oop /\ 0 \in 0 .. sp /\ status = "running"
  BY FramesAssumption DEF Facts, Oop, Plain, ReturnValue, Executing
<1>3. v \in Stacks!Readable
  BY <1>2, TopFacts, ReadableAre, FramesAssumption DEF Plain
<1> QED
  BY <1>1, <1>2, <1>3, ReturnStep

-----------------------------------------------------------------------------
(* The refinement *)

(* The first context satisfies the invariant. *)
LEMMA InitInv == Init => IInv
<1> SUFFICES ASSUME Init PROVE IInv
  OBVIOUS
<1>1. PICK m \in Methods \ (ValueMethods \cup OtherPrimitives) :
        contexts = <<[slots |-> [i \in Slot |-> Nil], stackp |-> NumTemps[m],
                      sender |-> 0, receiver |-> 1, method |-> m]>>
  BY DEF Init
<1>2. PICK r : r = [slots |-> [i \in 1 .. ReceiverSize |-> Nil], block |-> FALSE,
                    numArgs |-> 0, outer |-> 0]
  OBVIOUS
<1>3. PICK c : c = [slots |-> [i \in Slot |-> Nil], stackp |-> NumTemps[m],
                    sender |-> 0, receiver |-> 1, method |-> m]
  OBVIOUS
<1>4. Nil \in Oop /\ 1 \in Oop /\ NumTemps[m] \in 0 .. FrameSize
  BY FramesAssumption DEF Oop, Plain
<1>5. r \in Object /\ r.block = FALSE
  <2>1. [i \in 1 .. ReceiverSize |-> Nil] \in Seq(Oop)
    <3>1. [i \in 1 .. ReceiverSize |-> Nil] \in [1 .. ReceiverSize -> Oop]
      BY <1>4
    <3> QED
      BY <3>1, FramesAssumption, FunctionIsSeq
  <2> QED
    BY <1>2, <2>1 DEF Object
<1>6. c \in ContextObject /\ c.sender = 0 /\ c.stackp \in 0 .. FrameSize
  BY <1>3, <1>4 DEF ContextObject
<1>7. contexts = <<c>> /\ objects = <<r>> /\ active = 1 /\ sp = contexts[1].stackp
      /\ calling = FALSE /\ globals = [g \in 1 .. NumGlobals |-> Nil]
  BY <1>1, <1>2, <1>3 DEF Init
<1>8. /\ contexts \in Seq(ContextObject) /\ Len(contexts) = 1 /\ DOMAIN contexts = {1}
      /\ contexts[1] = c
  BY <1>6, <1>7
<1>9. objects \in Seq(Object) /\ Len(objects) = 1 /\ DOMAIN objects = {1} /\ objects[1] = r
  BY <1>5, <1>7
<1>10. TypeOK
  <2>1. active \in DOMAIN contexts /\ sp \in 0 .. FrameSize /\ calling \in BOOLEAN
    BY <1>6, <1>7, <1>8
  <2>2. Len(objects) \in 1 .. MaxObjects
    BY <1>9, FramesAssumption
  <2>3. globals \in [1 .. NumGlobals -> Oop]
    BY <1>4, <1>7
  <2> QED
    BY <1>8, <1>9, <2>1, <2>2, <2>3 DEF TypeOK
<1>11. SendersAreOlder /\ BlocksFit /\ CallsAtStart
  BY <1>5, <1>6, <1>7, <1>8, <1>9 DEF SendersAreOlder, BlocksFit, CallsAtStart, Block
<1> QED
  BY <1>10, <1>11 DEF IInv

(* The first states map to first states. *)
LEMMA InitRefines == Init => Stacks!Init
<1> SUFFICES ASSUME Init PROVE Stacks!Init
  OBVIOUS
<1>1. IInv /\ Facts
  BY InitInv, FactsHold
<1>2. status = "running" /\ active = 1
  BY DEF Init
<1>3. TopIs
  BY <1>1, <1>2, TopFacts
<1>4. Chain = {active}
  BY <1>1, <1>2, ChainIsBelow
<1>5. Here = [i \in Slot |-> Nil]
  <2>1. PICK m \in Methods : contexts = <<[slots |-> [i \in Slot |-> Nil], stackp |-> NumTemps[m],
                                           sender |-> 0, receiver |-> 1, method |-> m]>>
    BY DEF Init
  <2>2. contexts[1].slots = [i \in Slot |-> Nil]
    BY <2>1
  <2> QED
    BY <1>2, <2>2 DEF Here, Frame
<1>6. ASSUME NEW i \in 1 .. sp PROVE Stacks!Top.stack[i] = Nil
  <2>1. i - 1 \in Slot
    BY <1>1 DEF Facts, Slot
  <2> QED
    BY <1>3, <1>5, <2>1 DEF TopIs
<1>7. Running = TRUE
  BY <1>2 DEF Running
<1> QED
  BY <1>3, <1>4, <1>6, <1>7 DEF TopIs, Stacks!Init

(* Every step maps to a step or to none. *)
LEMMA NextRefines == IInv /\ [Next]_vars => Refines
<1> SUFFICES ASSUME IInv, [Next]_vars PROVE Refines
  OBVIOUS
<1>1. Facts
  BY FactsHold
<1>2. Indices \subseteq Nat
  BY FramesAssumption
<1>3. CASE PushValue
  BY <1>1, <1>3, PushValueStep
<1>4. CASE PopStackTop
  BY <1>1, <1>4, PopStackTopStep
<1>5. CASE DuplicateStackTop
  BY <1>1, <1>5, DuplicateStackTopStep
<1>6. CASE JumpIfBoolean
  BY <1>1, <1>6, JumpIfBooleanStep
<1>7. CASE Identity(True, False) \/ Identity(False, True)
  BY <1>1, <1>7, IdentityStep
<1>8. ASSUME NEW i \in Indices, PushReceiverVariable(i) PROVE Refines
  BY <1>1, <1>2, <1>8, PushReceiverVariableStep
<1>9. ASSUME NEW i \in Indices, PushTemporary(i) PROVE Refines
  BY <1>1, <1>2, <1>9, PushTemporaryStep
<1>10. ASSUME NEW i \in Indices, PopStoreTemporalVariable(i) PROVE Refines
  BY <1>1, <1>2, <1>10, PopStoreTemporalVariableStep
<1>11. ASSUME NEW i \in Indices, NEW pop \in {0, 1}, StoreReceiverVariable(i, pop) PROVE Refines
  BY <1>1, <1>2, <1>11, StoreReceiverVariableStep
<1>12. ASSUME NEW i \in Indices, NEW pop \in {0, 1}, DoubleStoreReceiverVariable(i, pop)
       PROVE  Refines
  BY <1>1, <1>2, <1>12, DoubleStoreReceiverVariableStep
<1>13. ASSUME NEW i \in Indices, NEW pop \in {0, 1}, ExtendedStoreTemporary(i, pop) PROVE Refines
  BY <1>1, <1>2, <1>13, ExtendedStoreTemporaryStep
<1>14. ASSUME NEW i \in Indices, NEW pop \in {0, 1}, NEW v \in Indices, StoreRemoteTemp(i, v, pop)
       PROVE  Refines
  BY <1>1, <1>2, <1>14, StoreRemoteTempStep
<1>15. ASSUME NEW i \in Indices, NEW v \in Indices, PushRemoteTemp(i, v) PROVE Refines
  BY <1>1, <1>2, <1>15, PushRemoteTempStep
<1>16. ASSUME NEW g \in 0 .. NumGlobals, PushLiteralVariable(g) PROVE Refines
  BY <1>1, <1>16, PushLiteralVariableStep
<1>17. ASSUME NEW g \in 0 .. NumGlobals, NEW pop \in {0, 1}, StoreLiteralVariable(g, pop)
       PROVE  Refines
  BY <1>1, <1>17, StoreLiteralVariableStep
<1>18. ASSUME NEW n \in VectorSizes, NEW popping \in BOOLEAN, PushNewArray(n, popping)
       PROVE  Refines
  BY <1>1, <1>18, PushNewArrayStep
<1>19. ASSUME NEW args \in BlockArgs, NEW n \in CopiedCounts, PushClosure(args, n) PROVE Refines
  BY <1>1, <1>19, PushClosureStep
<1>20. ASSUME NEW m \in Methods, Send(m) PROVE Refines
  BY <1>1, <1>20, SendStep
<1>21. CASE BlockValue
  BY <1>1, <1>21, BlockValueStep
<1>22. CASE PrimitiveFails
  BY <1>1, <1>22, PrimitiveFailsStep
<1>23. ASSUME NEW v \in Mentioned \cup {Frame.receiver}, PrimitiveReturns(v) PROVE Refines
  BY <1>1, <1>23, PrimitiveReturnsStep
<1>24. CASE ReturnTop
  BY <1>1, <1>24, ReturnTopStep
<1>25. CASE ReturnValue
  BY <1>1, <1>25, ReturnValueStep
<1>26. CASE UNCHANGED vars
  <2>1. IInv'
    BY <1>26 DEF vars, IInv, TypeOK, SendersAreOlder, BlocksFit, CallsAtStart, Block, Frame
  <2> QED
    BY <1>1, <1>26, <2>1, SameStacks DEF vars, Refines
<1> QED
  BY <1>3, <1>4, <1>5, <1>6, <1>7, <1>8, <1>9, <1>10, <1>11, <1>12, <1>13, <1>14, <1>15,
     <1>16, <1>17, <1>18, <1>19, <1>20, <1>21, <1>22, <1>23, <1>24, <1>25, <1>26 DEF Next

(* Types, and the shape that the sender chain, the blocks and the calls of   *)
(* primitives have in every reachable state (src/vm/interpreter.c).          *)
THEOREM FramesInvariant == Spec => []IInv
<1>1. IInv /\ [Next]_vars => IInv'
  BY NextRefines DEF Refines
<1> QED
  BY <1>1, InitInv, PTL DEF Spec

(* The frames of crankvm_interpreter_run implement sequences of values: no   *)
(* activation ever reads or keeps a slot that is not live, the arguments and *)
(* the answer of a send arrive where they belong, and a block starts with    *)
(* its arguments, its captured values and the receiver it was created with.  *)
THEOREM OperandsAreStacks == Spec => ImplementsOperandStacks
<1>1. IInv /\ [Next]_vars => IInv' /\ [Stacks!Next]_(Stacks!vars)
  BY NextRefines DEF Refines
<1> QED
  BY <1>1, InitInv, InitRefines, PTL DEF Spec, ImplementsOperandStacks, Stacks!Spec
=============================================================================
