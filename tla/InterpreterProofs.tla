------------------------- MODULE InterpreterProofs -------------------------
(***************************************************************************)
(* Proofs about Interpreter, for every set of methods and every bound.     *)
(*                                                                         *)
(* Senders being older than the contexts they wait for is inductive with   *)
(* the shape of the heap.  That a return always finds a context it can     *)
(* fetch and push into is not: an abandoned context may point at one that  *)
(* has long returned with a full stack.  The invariant therefore carries   *)
(* the spine, a set of contexts closed under sender that holds the active  *)
(* context and only resumable senders; a return cuts it at its target.     *)
(*                                                                         *)
(* That the activations are a stack rests on the smallest such set, the    *)
(* chain of the active context: cut at any of its contexts it is the chain *)
(* of that one, and it is the same for heaps that agree on its senders.    *)
(***************************************************************************)
EXTENDS InterpreterRefinement, TLAPS

Live == status \in {"entering", "running", "walking"}

Shape ==
  /\ reg.methodContext \in 1 .. allocated
  /\ \A b \in 1 .. created : closures[b].outer <= allocated /\ closures[b].startpc > 0
  /\ \A c \in 1 .. allocated : contexts[c].closure <= created

Spine(S) ==
  /\ reg.methodContext \in S
  /\ \A c \in S :
       /\ c <= reg.methodContext
       /\ contexts[c].sender # Nil =>
            contexts[c].sender \in S /\ Resumable(contexts[c].sender)
  /\ status = "walking" /\ walk.cursor # Nil =>
       /\ walk.cursor \in S
       /\ walk.cursor # reg.methodContext
       /\ Resumable(walk.cursor)

HasSpine == Live => \E S \in SUBSET Context : Spine(S)

IInv == TypeOK /\ Shape /\ SendersAreOlder /\ RegistersCurrent /\ HasSpine

-----------------------------------------------------------------------------

(* The unused slots of the heap are well-typed. *)
LEMMA BlankTypes == BlankContext \in ContextObject /\ BlankClosure \in ClosureObject
  BY MethodsAssumption, BoundsAssumption
  DEF BlankContext, BlankClosure, ContextObject, ClosureObject, Context, Nil

(* The types the arithmetic below needs.                                     *)
LEMMA TypeFacts ==
  ASSUME TypeOK
  PROVE  /\ allocated \in Nat /\ created \in Nat
         /\ allocated + 1 \in Nat /\ (allocated # MaxContexts => allocated + 1 \in Context)
         /\ \A c \in 1 .. allocated : c \in Nat /\ c \in Context
         /\ \A c \in Context : /\ c \in Nat /\ c > 0
                               /\ contexts[c].sender \in Nat
                               /\ contexts[c].closure \in Nat
                               /\ contexts[c].stackp \in Nat
         /\ \A b \in 1 .. created : /\ b \in Nat /\ b \in Closure
                                   /\ closures[b].outer \in Nat
                                   /\ closures[b].outer \in Context
         /\ reg.methodContext \in Context
<1>1. /\ allocated \in Nat /\ created \in Nat /\ created <= MaxClosures
      /\ allocated + 1 \in Nat /\ (allocated # MaxContexts => allocated + 1 \in Context)
      /\ \A c \in 1 .. allocated : c \in Nat /\ c \in Context
      /\ \A b \in 1 .. created : b \in Nat /\ b \in Closure
  BY BoundsAssumption DEF TypeOK, Context, Closure
<1>2. \A c \in Context : contexts[c] \in ContextObject
  BY DEF TypeOK
<1>3. \A c \in Context : /\ c \in Nat /\ c > 0
                        /\ contexts[c].sender \in Nat
                        /\ contexts[c].closure \in Nat
                        /\ contexts[c].stackp \in Nat
  BY <1>2 DEF ContextObject, Context, Closure, Nil
<1>4. \A b \in Closure : closures[b].outer \in Nat /\ closures[b].outer \in Context
  BY DEF TypeOK, ClosureObject, Context
<1>5. reg.methodContext \in Context
  BY DEF TypeOK, Registers
<1> QED
  BY <1>1, <1>3, <1>4, <1>5

(* What a fetch leaves in the registers.                                     *)
LEMMA FetchedRegisters ==
  ASSUME NEW id \in Context, NEW c \in ContextObject, reg \in Registers
  PROVE  /\ Fetched(id, c) \in Registers
         /\ Fetched(id, c).methodContext = id
         /\ ~FetchFails(c) =>
              /\ Fetched(id, c).limit = FrameSize[c.method]
              /\ Fetched(id, c).sp = c.stackp
              /\ c.stackp <= FrameSize[c.method]
              /\ Fetched(id, c).nextPC = Fetched(id, c).pc + 1
<1>1. /\ c.pc \in Nat /\ c.stackp \in Nat /\ c.method \in Methods
      /\ FrameSize[c.method] \in Nat
  BY MethodsAssumption DEF ContextObject
<1>2. FetchFails(c) <=> c.pc = 0 \/ c.stackp > FrameSize[c.method]
  BY <1>1 DEF FetchFails, FixedSize
<1>3. CASE FetchFails(c)
  <2>1. FrameSize[c.method] + FixedSize \in Nat
    BY <1>1 DEF FixedSize
  <2>2. Fetched(id, c) = [methodContext |-> id, pc |-> c.pc, nextPC |-> reg.nextPC,
                          sp |-> c.stackp, limit |-> FrameSize[c.method] + FixedSize]
    BY <1>3 DEF Fetched, Registers
  <2> QED
    BY <1>1, <1>3, <2>1, <2>2 DEF Registers
<1>4. CASE ~FetchFails(c)
  <2> DEFINE r == [methodContext |-> id, pc |-> c.pc - 1, nextPC |-> c.pc,
                   sp |-> c.stackp, limit |-> FrameSize[c.method]]
  <2>1. Fetched(id, c) = r
    BY <1>4 DEF Fetched
  <2>2. r \in Registers
    BY <1>1, <1>2, <1>4 DEF Registers
  <2>3. /\ r.methodContext = id /\ r.limit = FrameSize[c.method] /\ r.sp = c.stackp
        /\ c.stackp <= FrameSize[c.method] /\ r.nextPC = r.pc + 1
    BY <1>1, <1>2, <1>4
  <2> QED
    BY <2>1, <2>2, <2>3
<1> QED
  BY <1>3, <1>4

(* Stopping keeps the invariant: nothing but the status changes.             *)
LEMMA StopWithInv ==
  ASSUME IInv, NEW reason \in Ended, StopWith(reason)
  PROVE  IInv'
<1>1. TypeOK'
  BY DEF IInv, TypeOK, StopWith, heapVars, Ended
<1>2. Shape' /\ SendersAreOlder'
  BY DEF IInv, Shape, SendersAreOlder, StopWith, heapVars
<1>3. RegistersCurrent' /\ HasSpine'
  BY DEF StopWith, Ended, RegistersCurrent, HasSpine, Live
<1> QED
  BY <1>1, <1>2, <1>3 DEF IInv

(* Steps that only move the registers within the active frame.               *)
LEMMA ProceedInv ==
  ASSUME IInv, status = "running", UNCHANGED <<allocated, contexts, walk, status>>,
         created' = created /\ closures' = closures,
         NEW p \in Nat, NEW sp \in Nat, sp <= reg.limit, Proceed(p, sp)
  PROVE  IInv'
<1> USE DEF IInv
<1>1. TypeOK'
  <2>1. reg' = [methodContext |-> reg.methodContext, pc |-> p, nextPC |-> p + 1,
                sp |-> sp, limit |-> reg.limit]
    BY DEF TypeOK, Proceed, Registers
  <2>2. reg' \in Registers
    BY <2>1 DEF TypeOK, Registers
  <2> QED
    BY <2>2 DEF TypeOK
<1>2. Shape' /\ SendersAreOlder'
  BY DEF Shape, SendersAreOlder, Proceed, TypeOK, Registers
<1>3. RegistersCurrent'
  BY DEF RegistersCurrent, Proceed, TypeOK, Registers, Active
<1>4. HasSpine'
  <2>1. PICK S \in SUBSET Context : Spine(S)
    BY DEF HasSpine, Live
  <2>2. Spine(S)'
    BY <2>1 DEF Spine, Proceed, TypeOK, Registers, Resumable, FetchFails
  <2> QED
    BY <2>2 DEF HasSpine
<1> QED
  BY <1>1, <1>2, <1>3, <1>4

(* A new activation, whose sender is the one left behind or the sender of    *)
(* the one whose place it takes, extends the spine.                          *)
LEMMA ActivateNewInv ==
  ASSUME IInv, status = "running", allocated # MaxContexts,
         NEW new \in ContextObject, NEW caller \in ContextObject,
         new.closure <= created,
         caller.sender = Active.sender, caller.closure = Active.closure,
         \/ new.sender = Active.sender
         \/ /\ new.sender = reg.methodContext
            /\ ~FetchFails(caller)
            /\ caller.stackp < FrameSize[caller.method],
         ActivateNew(new, caller)
  PROVE  IInv'
<1> USE TypeFacts DEF IInv
<1>0. PICK mc \in Nat, id \in Nat : mc = reg.methodContext /\ id = allocated + 1
  OBVIOUS
<1> USE <1>0
<1>1. /\ mc \in 1 .. allocated /\ id \in Context /\ mc # id
      /\ mc \in Nat /\ id \in Nat
      /\ \A c \in 1 .. id : c # id => c \in 1 .. allocated
  BY DEF Shape
<1>2. /\ contexts' = [contexts EXCEPT ![mc] = caller, ![id] = new]
      /\ allocated' = id /\ reg' = Fetched(id, new)
      /\ UNCHANGED <<created, closures, walk>>
      /\ status' = IF FetchFails(new) THEN "error" ELSE "running"
  BY DEF ActivateNew
<1>3. /\ contexts'[mc] = caller /\ contexts'[id] = new
      /\ \A c \in Context : c # mc /\ c # id => contexts'[c] = contexts[c]
      /\ contexts' \in [Context -> ContextObject]
  BY <1>1, <1>2 DEF IInv, TypeOK
<1>4. reg' \in Registers /\ reg'.methodContext = id
  BY <1>1, <1>2, FetchedRegisters DEF IInv, TypeOK
<1>5. TypeOK'
  BY <1>1, <1>2, <1>3, <1>4 DEF IInv, TypeOK, Ended
<1>6. Shape'
  <2>1. \A c \in 1 .. id : contexts'[c].closure <= created
    BY <1>1, <1>3 DEF Shape, Active
  <2>2. \A b \in 1 .. created : closures[b].outer <= id
    BY <1>1 DEF Shape
  <2> QED
    <3>1. \A b \in 1 .. created : closures[b].startpc > 0
      BY DEF Shape
    <3>2. reg'.methodContext \in 1 .. allocated'
      BY <1>1, <1>2, <1>4
    <3> QED
      BY <1>2, <2>1, <2>2, <3>1, <3>2 DEF Shape
<1>7. SendersAreOlder'
  <2> SUFFICES ASSUME NEW c \in 1 .. id
               PROVE  /\ contexts'[c].sender < c
                      /\ contexts'[c].closure # Nil => closures[contexts'[c].closure].outer < c
    BY <1>2 DEF SendersAreOlder
  <2>1. CASE c = id
    <3>1. new.sender < id
      BY <1>1 DEF SendersAreOlder, Active
    <3>2. new.closure # Nil => new.closure \in 1 .. created
      BY <1>1 DEF ContextObject, Closure, Nil
    <3>3. \A b \in 1 .. created : closures[b].outer < id
      BY <1>1 DEF Shape
    <3> QED
      BY <2>1, <1>3, <3>1, <3>2, <3>3
  <2>2. CASE c = mc
    BY <2>2, <1>3, <1>1 DEF IInv, SendersAreOlder, Active
  <2>3. CASE c # id /\ c # mc
    BY <2>3, <1>1, <1>3 DEF SendersAreOlder
  <2> QED
    BY <2>1, <2>2, <2>3
<1>8. RegistersCurrent'
  BY <1>1, <1>2, <1>3, <1>4, FetchedRegisters DEF RegistersCurrent, Active, IInv, TypeOK
<1>9. HasSpine'
  <2>1. PICK S \in SUBSET Context : Spine(S)
    BY DEF IInv, HasSpine, Live
  <2> DEFINE T == S \cup {id}
  <2>2. \A c \in Context : Resumable(c) /\ c # mc /\ c # id => Resumable(c)'
    BY <1>3 DEF Resumable, FetchFails
  <2>3. \A c \in S : c <= mc /\ c # id /\ c \in 1 .. allocated /\ contexts[c].sender < c
    BY <2>1, <1>1 DEF Spine, IInv, SendersAreOlder, Context
  <2>4. ASSUME NEW c \in S, NEW s \in Nat, s = contexts[c].sender, s # Nil
        PROVE  s \in S /\ Resumable(s)'
    <3>1. s \in S /\ Resumable(s)
      BY <2>1, <2>4 DEF Spine
    <3>2. s # mc /\ s # id
      BY <1>1, <2>3, <2>4, <3>1
    <3> QED
      BY <2>2, <3>1, <3>2
  <2>5. ASSUME NEW s \in Nat, s = new.sender, s # Nil
        PROVE  s \in S /\ Resumable(s)'
    <3>1. CASE s = Active.sender
      BY <3>1, <2>1, <2>4, <2>5 DEF Spine, Active
    <3>2. CASE s = mc /\ ~FetchFails(caller) /\ caller.stackp < FrameSize[caller.method]
      BY <3>2, <2>1, <1>3 DEF Spine, Resumable, FetchFails
    <3> QED
      BY <2>5, <3>1, <3>2
  <2>6. Spine(T)'
    <3>1. ASSUME NEW c \in T
          PROVE  /\ c <= id
                 /\ contexts'[c].sender # Nil =>
                      contexts'[c].sender \in T /\ Resumable(contexts[c].sender)'
      <4>1. PICK s \in Nat : s = contexts'[c].sender
        BY <1>1, <1>3 DEF ContextObject, Context, Nil
      <4>2. CASE c = id
        BY <4>1, <4>2, <1>1, <1>3, <2>5
      <4>3. CASE c \in S
        BY <4>1, <4>3, <1>1, <1>3, <2>3, <2>4 DEF Active
      <4> QED
        BY <4>2, <4>3
    <3>2. status' # "walking"
      BY <1>2
    <3>3. reg'.methodContext \in T
      BY <1>4
    <3> QED
      BY <1>4, <3>1, <3>2, <3>3 DEF Spine
  <2> QED
    <3>1. T \in SUBSET Context
      BY <1>1
    <3> QED
      BY <2>6, <3>1 DEF HasSpine
<1> QED
  BY <1>5, <1>6, <1>7, <1>8, <1>9 DEF IInv

(* A return into a resumable context of the spine, or into nil, keeps the    *)
(* invariant: the fetch succeeds, the push has room, and the spine is cut    *)
(* at the target.                                                            *)
LEMMA ReturnIntoInv ==
  ASSUME IInv, status \in {"running", "walking"},
         NEW S \in SUBSET Context, Spine(S),
         NEW target \in Nat,
         target # Nil => target \in S /\ target # reg.methodContext /\ Resumable(target),
         NEW current \in ContextObject,
         current.sender = Active.sender, current.closure = Active.closure,
         ReturnInto(target, current)
  PROVE  IInv'
<1> USE TypeFacts DEF IInv
<1>0. PICK mc \in Nat : mc = reg.methodContext
  OBVIOUS
<1> USE <1>0
<1>1. /\ mc \in 1 .. allocated /\ mc \in Context
      /\ contexts' = [contexts EXCEPT ![mc] = [current EXCEPT !.sender = Nil]]
      /\ walk' = NoWalk
      /\ UNCHANGED <<allocated, created, closures>>
  BY DEF Shape, ReturnInto
<1>2. /\ [current EXCEPT !.sender = Nil] \in ContextObject
      /\ contexts' \in [Context -> ContextObject]
      /\ contexts'[mc].sender = Nil /\ contexts'[mc].closure = contexts[mc].closure
      /\ \A c \in Context : c # mc => contexts'[c] = contexts[c]
  BY <1>1 DEF ContextObject, TypeOK, Active
<1>3. SendersAreOlder'
  BY <1>1, <1>2 DEF SendersAreOlder, Nil
<1>4. \A c \in 1 .. allocated : contexts'[c].closure <= created
  BY <1>1, <1>2 DEF Shape
<1>5. NoWalk \in [cursor: Context \cup {Nil}, target: Context \cup {Nil}]
  BY DEF NoWalk
<1>6. CASE target = Nil
  <2>1. status' = "returned" /\ reg' = reg
    BY <1>6 DEF ReturnInto, ContinueIn
  <2>2. TypeOK' /\ Shape'
    BY <1>1, <1>2, <1>4, <1>5, <2>1 DEF TypeOK, Shape, Ended
  <2> QED
    BY <1>3, <2>1, <2>2 DEF RegistersCurrent, HasSpine, Live
<1>7. CASE target # Nil
  <2> DEFINE r == Fetched(target, contexts[target])
  <2>1. /\ target \in S /\ target # mc /\ target \in Context
        /\ ~FetchFails(contexts[target])
        /\ contexts[target] \in ContextObject
        /\ contexts[target].stackp < FrameSize[contexts[target].method]
    BY <1>7 DEF Resumable, TypeOK
  <2>2. /\ r \in Registers /\ r.methodContext = target
        /\ r.limit = FrameSize[contexts[target].method]
        /\ r.sp = contexts[target].stackp
        /\ r.nextPC = r.pc + 1
    BY <2>1, FetchedRegisters DEF TypeOK
  <2>3. /\ reg' = [r EXCEPT !.sp = r.sp + 1] /\ status' = "running"
        /\ r.sp < r.limit
    <3>1. r.sp < r.limit /\ r.sp \in Nat /\ r.limit \in Nat
      BY <2>1, <2>2 DEF Registers
    <3> QED
      BY <3>1, <1>7 DEF ReturnInto, ContinueIn
  <2>4. reg' = [methodContext |-> target, pc |-> r.pc, nextPC |-> r.pc + 1,
                sp |-> r.sp + 1, limit |-> r.limit]
    BY <2>2, <2>3 DEF Registers
  <2>5. reg' \in Registers /\ reg'.methodContext = target
    BY <2>2, <2>4 DEF Registers
  <2>6. target <= mc /\ target \in 1 .. allocated
    BY <2>1, <1>1 DEF Spine
  <2>7. TypeOK' /\ Shape'
    BY <1>1, <1>2, <1>4, <1>5, <2>3, <2>5, <2>6 DEF TypeOK, Shape
  <2>8. RegistersCurrent'
    <3>1. Active' = contexts[target]
      BY <1>2, <2>1, <2>5 DEF Active
    <3> QED
      BY <3>1, <2>2, <2>3, <2>4 DEF RegistersCurrent, Registers
  <2>9. HasSpine'
    <3> DEFINE T == {c \in S : c <= target}
    <3>1. \A c \in S : c # mc /\ Resumable(c) => Resumable(c)'
      BY <1>2 DEF Resumable, FetchFails
    <3>2. ASSUME NEW c \in T
          PROVE  /\ c <= target
                 /\ contexts'[c].sender # Nil =>
                      contexts'[c].sender \in T /\ Resumable(contexts[c].sender)'
      <4>1. PICK s \in Nat : s = contexts[c].sender
        OBVIOUS
      <4>2. c # mc /\ c \in 1 .. allocated /\ contexts'[c] = contexts[c] /\ s < c
        BY <4>1, <1>1, <1>2, <2>1, <2>6 DEF SendersAreOlder
      <4>3. s # Nil => s \in S /\ Resumable(s)
        BY <4>1 DEF Spine
      <4>4. s # Nil => s \in T /\ Resumable(s)'
        BY <4>2, <4>3, <3>1, <2>6
      <4> QED
        BY <4>1, <4>2, <4>4
    <3>3. Spine(T)'
      BY <2>1, <2>3, <2>5, <3>2 DEF Spine
    <3> QED
      BY <3>3 DEF HasSpine
  <2> QED
    BY <1>3, <2>7, <2>8, <2>9
<1> QED
  BY <1>6, <1>7

(* The saved state of the active context once stored.                        *)
LEMMA StoredContext ==
  ASSUME TypeOK, NEW pc \in Nat, NEW sp \in Nat
  PROVE  LET c == Stored(Active, pc, sp)
         IN  /\ c \in ContextObject
             /\ c.sender = Active.sender /\ c.closure = Active.closure
             /\ c.stackp = sp /\ c.method = Active.method
             /\ sp <= FrameSize[Active.method] => ~FetchFails(c)
<1>1. Active \in ContextObject
  BY DEF TypeOK, Active, Registers
<1>2. ASSUME NEW c \in ContextObject
      PROVE  /\ Stored(c, pc, sp) \in ContextObject
             /\ Stored(c, pc, sp).pc = pc + 1 /\ Stored(c, pc, sp).stackp = sp
             /\ Stored(c, pc, sp).sender = c.sender /\ Stored(c, pc, sp).closure = c.closure
             /\ Stored(c, pc, sp).method = c.method
  <2>1. pc + 1 \in Nat
    OBVIOUS
  <2> QED
    BY <2>1 DEF Stored, ContextObject
<1>3. FrameSize[Active.method] \in Nat
  BY <1>1, MethodsAssumption DEF ContextObject
<1> QED
  BY <1>1, <1>2, <1>3 DEF FetchFails, FixedSize

(* Returning to the sender of the active context. *)
LEMMA ReturnToSenderInv ==
  ASSUME IInv, status = "running",
         NEW current \in ContextObject,
         current.sender = Active.sender, current.closure = Active.closure,
         ReturnInto(Active.sender, current)
  PROVE  IInv'
<1> USE TypeFacts DEF IInv
<1>1. PICK S \in SUBSET Context : Spine(S)
  BY DEF HasSpine, Live
<1>2. PICK target \in Nat : target = Active.sender
  BY DEF Active
<1>3. target < reg.methodContext
  BY <1>2 DEF SendersAreOlder, Shape, Active
<1>4. target # Nil => target \in S /\ target # reg.methodContext /\ Resumable(target)
  BY <1>1, <1>2, <1>3 DEF Spine, Active
<1> QED
  BY <1>1, <1>2, <1>4, ReturnIntoInv

-----------------------------------------------------------------------------
(* The invariant is inductive *)

(* A chain of suspended frames: every sender is the context before, and waits  *)
(* for an answer it has room for.                                            *)
LEMMA ChainFacts ==
  ASSUME NEW n \in 1 .. MaxInitial, NEW frames \in [1 .. n -> SuspendedFrame],
         Waiting(frames, n)
  PROVE  /\ n \in 1 .. MaxContexts /\ n \in Nat
         /\ frames[n].method \in Methods
         /\ ChainOf(frames, n) \in [Context -> ContextObject]
         /\ \A c \in 1 .. n :
              /\ ChainOf(frames, n)[c].sender = c - 1
              /\ ChainOf(frames, n)[c].closure = 0
              /\ c < n => /\ ~FetchFails(ChainOf(frames, n)[c])
                          /\ ChainOf(frames, n)[c].stackp
                               < FrameSize[ChainOf(frames, n)[c].method]
<1> USE BlankTypes DEF Nil
<1> DEFINE e(c) == [sender |-> c - 1, pc |-> frames[c].pc, stackp |-> frames[c].stackp,
                    method |-> frames[c].method, closure |-> Nil]
           f == ChainOf(frames, n)
<1>1. n \in 1 .. MaxContexts /\ n \in Nat
  BY BoundsAssumption
<1>2. ASSUME NEW c \in 1 .. n
      PROVE  /\ frames[c].pc \in Nat /\ frames[c].pc > 0
             /\ frames[c].method \in Methods
             /\ frames[c].stackp \in Nat
             /\ FrameSize[frames[c].method] \in Nat
  <2>1. PICK m \in Methods :
          frames[c] \in [pc: 1 .. CodeSize, stackp: 0 .. FrameSize[m], method: {m}]
    BY DEF SuspendedFrame
  <2> QED
    BY <2>1, MethodsAssumption, CodeAssumption
<1>3. ASSUME NEW c \in 1 .. n PROVE e(c) \in ContextObject
  <2>1. c - 1 \in Context \cup {Nil}
    BY <1>1, BoundsAssumption DEF Context
  <2> QED
    BY <1>2, <2>1 DEF ContextObject
<1>4. f = [c \in Context |-> IF c > n THEN BlankContext ELSE e(c)]
  BY DEF ChainOf
<1>5. /\ \A c \in Context : ~(c > n) => c \in 1 .. n
      /\ \A c \in 1 .. n : c \in Context /\ ~(c > n)
  BY <1>1, BoundsAssumption DEF Context
<1>6. f \in [Context -> ContextObject]
  <2> HIDE DEF e, f
  <2> QED
    BY <1>3, <1>4, <1>5
<1>7. ASSUME NEW c \in 1 .. n
      PROVE  /\ f[c].sender = c - 1 /\ f[c].closure = 0
             /\ c < n => ~FetchFails(f[c]) /\ f[c].stackp < FrameSize[f[c].method]
  <2>1. f[c] = e(c)
    <3> HIDE DEF e, f
    <3> QED
      BY <1>4, <1>5
  <2>2. f[c].sender = c - 1 /\ f[c].closure = 0
    BY <2>1
  <2>3. /\ f[c].pc = frames[c].pc /\ f[c].stackp = frames[c].stackp
        /\ f[c].method = frames[c].method
    BY <2>1
  <2>4. ASSUME c < n PROVE ~FetchFails(f[c]) /\ f[c].stackp < FrameSize[f[c].method]
    <3> HIDE DEF f
    <3>1. f[c].pc > 0 /\ f[c].stackp < FrameSize[f[c].method]
      BY <1>2, <2>3, <2>4 DEF Waiting
    <3> QED
      BY <1>2, <2>3, <3>1 DEF FetchFails, FixedSize
  <2> QED
    BY <2>2, <2>4
<1>8. frames[n].method \in Methods
  BY <1>1, <1>2
<1> QED
  BY <1>1, <1>6, <1>7, <1>8

(* An initial heap: senders that are resumable and older, closures only in   *)
(* a block activation.                                                       *)
LEMMA InitialHeap ==
  ASSUME Init, NEW n, n = allocated
  PROVE  /\ n \in 1 .. MaxContexts
         /\ created \in 0 .. MaxClosures
         /\ contexts \in [Context -> ContextObject]
         /\ closures \in [Closure -> ClosureObject]
         /\ \A c \in 1 .. n :
              /\ contexts[c].sender # Nil =>
                   contexts[c].sender \in 1 .. c - 1 /\ Resumable(contexts[c].sender)
              /\ contexts[c].closure <= created
              /\ contexts[c].closure # Nil => closures[contexts[c].closure].outer < c
         /\ \A b \in 1 .. created : closures[b].outer <= n /\ closures[b].startpc > 0
<1> USE BlankTypes DEF Nil
<1>1. CASE EntryMessage
  <2>1. PICK m \in Methods : /\ n = 1
                             /\ contexts = [c \in Context |->
                                  IF c = 1 THEN [sender |-> Nil, pc |-> 1, stackp |-> NumTemps[m],
                                                 method |-> m, closure |-> Nil]
                                  ELSE BlankContext]
                             /\ created = 0
                             /\ closures = [b \in Closure |-> BlankClosure]
    BY <1>1 DEF EntryMessage
  <2> DEFINE e == [sender |-> Nil, pc |-> 1, stackp |-> NumTemps[m],
                   method |-> m, closure |-> Nil]
  <2>2. e \in ContextObject
    BY MethodsAssumption DEF ContextObject
  <2>3. 1 \in Context /\ 1 \in 1 .. MaxContexts /\ 0 \in 0 .. MaxClosures
    BY BoundsAssumption DEF Context
  <2>4. contexts \in [Context -> ContextObject] /\ contexts[1] = e
    BY <2>1, <2>2, <2>3
  <2>5. closures \in [Closure -> ClosureObject]
    BY <2>1
  <2> QED
    BY <2>1, <2>3, <2>4, <2>5
<1>2. CASE EntryBlock
  <2>1. PICK k \in 1 .. MaxInitial, start \in 1 .. CodeSize, copied \in CopiedCounts :
          \E frames \in [1 .. k -> SuspendedFrame] :
            /\ k < MaxContexts /\ MaxClosures >= 1
            /\ Waiting(frames, k)
            /\ n = k + 1
            /\ contexts = [ChainOf(frames, k) EXCEPT ![k + 1] =
                             [sender |-> Nil, pc |-> start, stackp |-> copied,
                              method |-> frames[k].method, closure |-> 1]]
            /\ created = 1
            /\ closures = [b \in Closure |->
                            IF b = 1 THEN [outer |-> k, startpc |-> start, numArgs |-> 0,
                                           captured |-> copied]
                            ELSE BlankClosure]
    BY <1>2 DEF EntryBlock
  <2>2. PICK frames \in [1 .. k -> SuspendedFrame] :
            /\ k < MaxContexts /\ MaxClosures >= 1
            /\ Waiting(frames, k)
            /\ n = k + 1
            /\ contexts = [ChainOf(frames, k) EXCEPT ![k + 1] =
                             [sender |-> Nil, pc |-> start, stackp |-> copied,
                              method |-> frames[k].method, closure |-> 1]]
            /\ created = 1
            /\ closures = [b \in Closure |->
                            IF b = 1 THEN [outer |-> k, startpc |-> start, numArgs |-> 0,
                                           captured |-> copied]
                            ELSE BlankClosure]
    BY <2>1
  <2> DEFINE f == ChainOf(frames, k)
             e == [sender |-> Nil, pc |-> start, stackp |-> copied,
                   method |-> frames[k].method, closure |-> 1]
             d == [outer |-> k, startpc |-> start, numArgs |-> 0, captured |-> copied]
  <2>3. /\ k \in Nat /\ k \in 1 .. MaxContexts /\ frames[k].method \in Methods
        /\ f \in [Context -> ContextObject]
        /\ \A c \in 1 .. k : /\ f[c].sender = c - 1 /\ f[c].closure = 0
                             /\ c < k => ~FetchFails(f[c]) /\ f[c].stackp < FrameSize[f[c].method]
    BY <2>2, ChainFacts
  <2> HIDE DEF f
  <2>4. /\ n \in Context /\ n \in 1 .. MaxContexts /\ 1 \in Closure /\ 1 \in 0 .. MaxClosures
        /\ k \in Context /\ start \in Nat /\ start > 0 /\ copied \in Nat
        /\ \A c \in 1 .. n : c \in Context /\ (c = n \/ (c \in 1 .. k /\ c # n))
    BY <2>2, <2>3, BoundsAssumption, CodeAssumption DEF Context, Closure
  <2>5. e \in ContextObject /\ d \in ClosureObject
    BY <2>3, <2>4 DEF ContextObject, ClosureObject
  <2>6. contexts = [f EXCEPT ![n] = e] /\ closures = [b \in Closure |-> IF b = 1 THEN d ELSE BlankClosure]
    BY <2>2 DEF f
  <2>7. e.sender = 0 /\ e.closure = 1 /\ d.outer = k /\ d.startpc > 0
    BY <2>4
  <2> HIDE DEF e, d
  <2>8. /\ contexts \in [Context -> ContextObject] /\ contexts[n] = e
        /\ \A c \in 1 .. k : contexts[c] = f[c]
        /\ closures \in [Closure -> ClosureObject] /\ closures[1] = d
    <3>1. contexts \in [Context -> ContextObject] /\ contexts[n] = e
      BY <2>3, <2>4, <2>5, <2>6
    <3>2. \A c \in 1 .. k : c # n /\ c \in Context
      BY <2>2, <2>3, BoundsAssumption DEF Context
    <3>3. \A c \in 1 .. k : contexts[c] = f[c]
      BY <2>3, <2>6, <3>2
    <3>4. closures \in [Closure -> ClosureObject]
      BY <2>5, <2>6
    <3>5. closures[1] = d
      BY <2>4, <2>6
    <3> QED
      BY <3>1, <3>3, <3>4, <3>5
  <2>9. ASSUME NEW c \in 1 .. n
        PROVE  /\ contexts[c].sender # Nil =>
                    contexts[c].sender \in 1 .. c - 1 /\ Resumable(contexts[c].sender)
               /\ contexts[c].closure <= created
               /\ contexts[c].closure # Nil => closures[contexts[c].closure].outer < c
    <3>1. CASE c = n
      BY <2>2, <2>3, <2>7, <2>8, <3>1
    <3>2. CASE c \in 1 .. k
      <4>1. contexts[c].sender = c - 1 /\ contexts[c].closure = 0
        BY <2>3, <2>8, <3>2
      <4>2. ASSUME contexts[c].sender # Nil
            PROVE  contexts[c].sender \in 1 .. c - 1 /\ Resumable(contexts[c].sender)
        <5>1. c - 1 \in 1 .. k /\ c - 1 < k /\ c - 1 \in 1 .. c - 1
          BY <2>3, <3>2, <4>1, <4>2
        <5>2. Resumable(c - 1)
          BY <2>3, <2>8, <5>1 DEF Resumable
        <5> QED
          BY <4>1, <5>1, <5>2
      <4> QED
        BY <2>2, <4>1, <4>2
    <3> QED
      BY <2>4, <3>1, <3>2
  <2>10. \A b \in 1 .. created : closures[b].outer <= n /\ closures[b].startpc > 0
    <3>1. \A b \in 1 .. created : b = 1
      BY <2>2
    <3> QED
      BY <2>2, <2>3, <2>7, <2>8, <3>1
  <2> QED
    BY <2>2, <2>4, <2>8, <2>9, <2>10
<1>3. CASE InitialChain
  <2>0. n \in 1 .. MaxInitial /\ created = 0 /\ closures = [b \in Closure |-> BlankClosure]
    BY <1>3 DEF InitialChain
  <2>1. PICK frames \in [1 .. n -> SuspendedFrame] :
          Waiting(frames, n) /\ contexts = ChainOf(frames, n)
    BY <1>3 DEF InitialChain
  <2>2. /\ n \in Nat /\ n \in 1 .. MaxContexts
        /\ contexts \in [Context -> ContextObject]
        /\ \A c \in 1 .. n :
             /\ contexts[c].sender = c - 1 /\ contexts[c].closure = 0
             /\ c < n => /\ ~FetchFails(contexts[c])
                         /\ contexts[c].stackp < FrameSize[contexts[c].method]
    BY <2>0, <2>1, ChainFacts
  <2>3. 0 \in 0 .. MaxClosures /\ closures \in [Closure -> ClosureObject]
    BY <2>0, BoundsAssumption
  <2>4. ASSUME NEW c \in 1 .. n, contexts[c].sender # Nil
        PROVE  contexts[c].sender \in 1 .. c - 1 /\ Resumable(contexts[c].sender)
    <3>1. contexts[c].sender = c - 1 /\ c - 1 \in 1 .. n /\ c - 1 < n /\ c - 1 \in 1 .. c - 1
      BY <2>2, <2>4
    <3> QED
      BY <2>2, <3>1 DEF Resumable
  <2> QED
    BY <2>0, <2>2, <2>3, <2>4
<1> QED
  BY <1>1, <1>2, <1>3 DEF Init

(* The interpreter starts with a spine: a chain of resumable contexts. *)
LEMMA InitInv == Init => IInv
<1> SUFFICES ASSUME Init PROVE IInv
  OBVIOUS
<1>1. /\ reg = [methodContext |-> allocated, pc |-> 0, nextPC |-> 0, sp |-> 0, limit |-> 0]
      /\ walk = NoWalk /\ status = "entering"
  BY DEF Init
<1>0. PICK n : n = allocated
  OBVIOUS
<1>2. n \in Nat /\ n \in 1 .. n /\ n \in Context /\ 1 .. n \in SUBSET Context
  BY <1>0, InitialHeap, BoundsAssumption DEF Context
<1>3. TypeOK
  BY <1>0, <1>1, <1>2, InitialHeap DEF TypeOK, Registers, NoWalk
<1>4. ASSUME NEW c \in 1 .. n PROVE contexts[c].sender < c
  BY <1>0, <1>2, <1>4, InitialHeap DEF Nil
<1>5. Shape /\ SendersAreOlder
  BY <1>0, <1>1, <1>2, <1>4, InitialHeap DEF Shape, SendersAreOlder
<1>6. Spine(1 .. n)
  <2>1. ASSUME NEW c \in 1 .. n, contexts[c].sender # Nil
        PROVE  contexts[c].sender \in 1 .. n /\ Resumable(contexts[c].sender)
    BY <1>0, <1>2, <2>1, InitialHeap
  <2>2. reg.methodContext = n /\ status # "walking" /\ \A c \in 1 .. n : c <= n
    BY <1>0, <1>1
  <2> QED
    BY <1>2, <2>1, <2>2 DEF Spine
<1> QED
  BY <1>1, <1>2, <1>3, <1>5, <1>6 DEF IInv, RegistersCurrent, HasSpine

(* Entering the run loop fetches a context of a well-formed heap. *)
LEMMA EnterInv == IInv /\ Enter => IInv'
<1> SUFFICES ASSUME IInv, Enter PROVE IInv'
  OBVIOUS
<1> USE TypeFacts DEF IInv
<1>1. /\ reg' = Fetched(reg.methodContext, Active) /\ Active \in ContextObject
      /\ UNCHANGED <<allocated, contexts, created, closures, walk>>
      /\ status' = IF FetchFails(Active) THEN "error" ELSE "running"
      /\ status = "entering"
  BY DEF Enter, heapVars, Active, TypeOK
<1>2. reg' \in Registers /\ reg'.methodContext = reg.methodContext
  BY <1>1, FetchedRegisters DEF TypeOK
<1>3. TypeOK' /\ Shape' /\ SendersAreOlder'
  BY <1>1, <1>2 DEF TypeOK, Shape, SendersAreOlder, Ended
<1>4. RegistersCurrent'
  BY <1>1, <1>2, FetchedRegisters DEF RegistersCurrent, Active, TypeOK
<1>5. HasSpine'
  <2>1. PICK S \in SUBSET Context : Spine(S)
    BY <1>1 DEF HasSpine, Live
  <2>2. status' # "walking"
    BY <1>1
  <2>3. Spine(S)'
    BY <1>1, <1>2, <2>1, <2>2 DEF Spine, Resumable, FetchFails
  <2> QED
    BY <2>3 DEF HasSpine
<1> QED
  BY <1>3, <1>4, <1>5

(* A stack bytecode stays within the frame. *)
LEMMA StackBytecodeInv ==
  ASSUME IInv, NEW e \in StackEffects, StackBytecode(e[1], e[2], e[3])
  PROVE  IInv'
<1>1. /\ e[1] \in Nat /\ e[2] \in Nat /\ e[3] \in Nat /\ e[2] <= e[1] /\ e[3] <= 1
      /\ reg.sp \in Nat /\ reg.limit \in Nat /\ Here \in Nat /\ reg.sp <= reg.limit
      /\ status = "running"
  BY CodeAssumption
  DEF IInv, TypeOK, Registers, Here, StackBytecode, DispatchWithin, Dispatch, RegistersCurrent
<1>2. CASE reg.sp < e[1] \/ (e[3] > 0 /\ reg.sp - e[2] >= reg.limit)
  BY <1>2, StopWithInv DEF StackBytecode, Ended
<1>3. CASE ~(reg.sp < e[1] \/ (e[3] > 0 /\ reg.sp - e[2] >= reg.limit))
  <2>1. PICK sp \in Nat : sp = reg.sp - e[2] + e[3] /\ sp <= reg.limit
    BY <1>1, <1>3
  <2>2. Proceed(Here, sp) /\ UNCHANGED <<heapVars, walk, status>>
    BY <1>3, <2>1 DEF StackBytecode
  <2> QED
    BY <1>1, <2>1, <2>2, ProceedInv DEF heapVars
<1> QED
  BY <1>2, <1>3

(* A jump moves the pc only; a conditional one pops its condition. *)
LEMMA JumpInv ==
  ASSUME IInv, NEW to \in 0 .. CodeSize - 1, Jump(to) \/ JumpIfBoolean(to)
  PROVE  IInv'
<1>1. /\ reg.sp \in Nat /\ reg.limit \in Nat /\ Here \in Nat /\ reg.sp <= reg.limit
      /\ to \in Nat /\ status = "running"
  BY CodeAssumption
  DEF IInv, TypeOK, Registers, Here, Jump, JumpIfBoolean, DispatchWithin, Dispatch, RegistersCurrent
<1>2. CASE \E reason \in Ended : StopWith(reason)
  BY <1>2, StopWithInv
<1>3. CASE \E p \in Nat, sp \in Nat :
             sp <= reg.limit /\ Proceed(p, sp) /\ UNCHANGED <<heapVars, walk, status>>
  BY <1>1, <1>3, ProceedInv DEF heapVars
<1>4. CASE Jump(to)
  BY <1>1, <1>3, <1>4 DEF Jump
<1>5. CASE JumpIfBoolean(to)
  <2>1. CASE reg.sp < 1
    BY <1>2, <1>5, <2>1 DEF JumpIfBoolean, Ended
  <2>2. CASE ~(reg.sp < 1)
    <3>1. reg.sp - 1 \in Nat /\ reg.sp - 1 <= reg.limit
      BY <1>1, <2>2
    <3> QED
      BY <1>1, <1>2, <1>3, <1>5, <2>2, <3>1 DEF JumpIfBoolean, Ended
  <2> QED
    BY <2>1, <2>2
<1> QED
  BY <1>4, <1>5

(* What holds of the registers wherever a bytecode is dispatched.            *)
LEMMA RunningFacts ==
  ASSUME IInv, status = "running"
  PROVE  /\ reg.sp \in Nat /\ reg.limit \in Nat /\ reg.pc \in Nat /\ Here \in Nat
         /\ reg.sp <= reg.limit
         /\ Active \in ContextObject
         /\ reg.limit = FrameSize[Active.method]
  BY DEF IInv, TypeOK, Registers, Here, Active, RegistersCurrent

(* A send stores a caller that can be resumed, then activates. *)
LEMMA SendInv ==
  ASSUME IInv, NEW m \in Methods, NEW n \in {NumArgs[x] : x \in Methods}, Send(n, m)
  PROVE  IInv'
<1> USE TypeFacts DEF IInv
<1>1. status = "running" /\ n \in Nat /\ NumTemps[m] \in Nat
  BY MethodsAssumption DEF Send, DispatchWithin, Dispatch
<1>2. CASE \E reason \in Ended : StopWith(reason)
  BY <1>2, StopWithInv
<1>3. CASE ~(reg.sp < n + 1 \/ NumArgs[m] # n) /\ allocated # MaxContexts
  <2> DEFINE new == [sender |-> reg.methodContext, pc |-> 1, stackp |-> NumTemps[m],
                     method |-> m, closure |-> Nil]
             caller == Stored(Active, Here, reg.sp - (n + 1))
  <2>1. ActivateNew(new, caller)
    BY <1>3 DEF Send
  <2>2. reg.sp - (n + 1) \in Nat /\ reg.sp - (n + 1) < FrameSize[Active.method]
    BY <1>1, <1>3, RunningFacts
  <2>3. /\ caller \in ContextObject /\ caller.sender = Active.sender
        /\ caller.closure = Active.closure
        /\ ~FetchFails(caller) /\ caller.stackp < FrameSize[caller.method]
    <3>1. Here \in Nat /\ FrameSize[Active.method] \in Nat
      BY <1>1, RunningFacts
    <3> QED
      BY <2>2, <3>1, StoredContext
  <2>4. new \in ContextObject /\ new.closure <= created /\ new.sender = reg.methodContext
    BY <1>1 DEF ContextObject, Nil
  <2> HIDE DEF new, caller
  <2> QED
    BY <1>1, <1>3, <2>1, <2>3, <2>4, ActivateNewInv
<1> QED
  BY <1>2, <1>3 DEF Send, Ended

(* A block activation takes the place of the primitive's context. *)
LEMMA BlockValueInv ==
  ASSUME IInv, NEW b \in 1 .. created, BlockValue(b)
  PROVE  IInv'
<1> USE TypeFacts DEF IInv
<1>1. status = "running"
  BY DEF BlockValue
<1>2. CASE StopWith("aborted")
  BY <1>2, StopWithInv DEF Ended
<1>3. CASE allocated # MaxContexts
  <2> DEFINE new == [sender |-> Active.sender, pc |-> closures[b].startpc,
                     stackp |-> closures[b].numArgs + closures[b].captured,
                     method |-> contexts[closures[b].outer].method, closure |-> b]
  <2>1. ActivateNew(new, Active)
    BY <1>3 DEF BlockValue
  <2>2. /\ closures[b].startpc \in Nat
        /\ closures[b].numArgs + closures[b].captured \in Nat
        /\ contexts[closures[b].outer] \in ContextObject
    <3>1. closures[b] \in ClosureObject
      BY DEF TypeOK
    <3>2. /\ closures[b].startpc \in Nat /\ closures[b].outer \in Context
          /\ closures[b].numArgs \in Nat /\ closures[b].captured \in Nat
      BY <3>1 DEF ClosureObject
    <3> QED
      BY <3>2 DEF TypeOK
  <2>3. Active \in ContextObject
    BY <1>1, RunningFacts
  <2>4. new \in ContextObject /\ new.closure <= created /\ new.sender = Active.sender
    BY <2>2, <2>3 DEF ContextObject
  <2> HIDE DEF new
  <2> QED
    BY <1>1, <1>3, <2>1, <2>3, <2>4, ActivateNewInv
<1> QED
  BY <1>2, <1>3 DEF BlockValue

(* A performed method takes the place of the primitive's context. *)
LEMMA PerformInSuperclassInv ==
  ASSUME IInv, NEW m \in Methods, PerformInSuperclass(m)
  PROVE  IInv'
<1> USE TypeFacts DEF IInv
<1>1. status = "running" /\ NumTemps[m] \in Nat
  BY MethodsAssumption DEF PerformInSuperclass
<1>2. CASE StopWith("aborted")
  BY <1>2, StopWithInv DEF Ended
<1>3. CASE allocated # MaxContexts
  <2> DEFINE new == [sender |-> Active.sender, pc |-> 1, stackp |-> NumTemps[m],
                     method |-> m, closure |-> Nil]
  <2>1. ActivateNew(new, Active)
    BY <1>3 DEF PerformInSuperclass
  <2>2. Active \in ContextObject
    BY <1>1, RunningFacts
  <2>3. new \in ContextObject /\ new.closure <= created /\ new.sender = Active.sender
    BY <1>1, <2>2 DEF ContextObject, Nil
  <2> HIDE DEF new
  <2> QED
    BY <1>1, <1>3, <2>1, <2>2, <2>3, ActivateNewInv
<1> QED
  BY <1>2, <1>3 DEF PerformInSuperclass

(* A new closure's outer context is the active one. *)
LEMMA PushClosureInv ==
  ASSUME IInv, NEW args \in BlockArgs, NEW copied \in CopiedCounts,
         NEW to \in 0 .. CodeSize - 1, PushClosure(args, copied, to)
  PROVE  IInv'
<1> USE TypeFacts DEF IInv
<1>1. status = "running" /\ args \in Nat /\ copied \in Nat /\ to \in Nat
  BY CodeAssumption DEF PushClosure, DispatchWithin, Dispatch
<1>2. CASE \E reason \in Ended : StopWith(reason)
  BY <1>2, StopWithInv
<1>3. CASE ~(reg.sp < copied) /\ created # MaxClosures /\ ~(reg.sp - copied >= reg.limit)
  <2>0. PICK id \in Nat : id = created + 1
    OBVIOUS
  <2> DEFINE new == [outer |-> reg.methodContext, startpc |-> Here + 1,
                     numArgs |-> args, captured |-> copied]
  <2>1. /\ created' = id /\ closures' = [closures EXCEPT ![id] = new]
        /\ Proceed(to, reg.sp - copied + 1)
        /\ UNCHANGED <<allocated, contexts, walk, status>>
    BY <1>3, <2>0 DEF PushClosure
  <2>2. reg.sp - copied + 1 \in Nat /\ reg.sp - copied + 1 <= reg.limit /\ Here \in Nat
    BY <1>1, <1>3, RunningFacts
  <2>3. /\ new \in ClosureObject /\ id \in Closure
        /\ new.outer <= allocated /\ new.startpc > 0
    <3>1. reg.methodContext <= allocated /\ Here + 1 \in Nat /\ Here + 1 > 0
      BY <2>2 DEF Shape
    <3>2. id \in Closure
      BY <1>3, <2>0, BoundsAssumption DEF Closure, TypeOK
    <3> QED
      BY <1>1, <3>1, <3>2 DEF ClosureObject
  <2> HIDE DEF new
  <2>4. /\ closures' \in [Closure -> ClosureObject] /\ closures'[id] = new
        /\ \A b \in 1 .. created : b # id /\ closures'[b] = closures[b]
        /\ \A b \in 1 .. id : b \in 1 .. created \/ b = id
    BY <2>0, <2>1, <2>3 DEF TypeOK
  <2>5. TypeOK'
    <3>1. reg' = [methodContext |-> reg.methodContext, pc |-> to, nextPC |-> to + 1,
                  sp |-> reg.sp - copied + 1, limit |-> reg.limit]
      BY <2>1 DEF TypeOK, Proceed, Registers
    <3>2. reg' \in Registers
      BY <1>1, <2>2, <3>1 DEF TypeOK, Registers
    <3>3. created' \in 0 .. MaxClosures
      BY <2>1, <2>3, BoundsAssumption DEF Closure
    <3> QED
      BY <2>1, <2>4, <3>2, <3>3 DEF TypeOK
  <2>6. reg'.methodContext = reg.methodContext /\ reg'.sp = reg.sp - copied + 1
        /\ reg'.limit = reg.limit /\ reg'.nextPC = reg'.pc + 1
    BY <1>1, <2>1 DEF Proceed, TypeOK, Registers
  <2>7. Shape'
    <3>1. \A c \in 1 .. allocated : contexts[c].closure <= id
      BY <2>0 DEF Shape
    <3> QED
      BY <2>1, <2>3, <2>4, <2>6, <3>1 DEF Shape
  <2>8. SendersAreOlder'
    <3>1. \A c \in 1 .. allocated :
            contexts[c].closure # Nil => closures'[contexts[c].closure] = closures[contexts[c].closure]
      BY <2>4 DEF Shape, Nil
    <3> QED
      BY <2>1, <3>1 DEF SendersAreOlder
  <2>9. RegistersCurrent'
    BY <1>1, <2>1, <2>2, <2>6, RunningFacts DEF RegistersCurrent, Active
  <2>10. HasSpine'
    <3>1. PICK S \in SUBSET Context : Spine(S)
      BY <1>1 DEF HasSpine, Live
    <3>2. Spine(S)'
      BY <2>1, <2>6, <3>1 DEF Spine, Resumable, FetchFails
    <3> QED
      BY <3>2 DEF HasSpine
  <2> QED
    BY <2>5, <2>7, <2>8, <2>9, <2>10
<1> QED
  BY <1>2, <1>3 DEF PushClosure, Ended

(* A failed primitive goes on within its method's frame. *)
LEMMA PrimitiveFailsInv == IInv /\ PrimitiveFails => IInv'
<1> SUFFICES ASSUME IInv, PrimitiveFails PROVE IInv'
  OBVIOUS
<1>1. status = "running" /\ Proceed(Here, reg.sp) /\ UNCHANGED <<heapVars, walk, status>>
  BY DEF PrimitiveFails
<1>2. Here \in Nat /\ reg.sp \in Nat /\ reg.sp <= reg.limit
  BY <1>1, RunningFacts
<1> QED
  BY <1>1, <1>2, ProceedInv DEF heapVars

(* A local return goes to the sender of the active context. *)
LEMMA LocalReturnInv ==
  ASSUME IInv, status = "running", NEW pops \in Nat, ~(reg.sp < pops), LocalReturn(pops)
  PROVE  IInv'
<1>1. PICK sp \in Nat, pc \in Nat : sp = reg.sp - pops /\ pc = Here
  BY RunningFacts
<1>2. ReturnInto(Active.sender, Stored(Active, pc, sp))
  BY <1>1 DEF LocalReturn
<1> QED
  BY <1>2, StoredContext, ReturnToSenderInv DEF IInv

(* A successful primitive returns to the sender of its context. *)
LEMMA PrimitiveReturnsInv == IInv /\ PrimitiveReturns => IInv'
<1> SUFFICES ASSUME IInv, PrimitiveReturns PROVE IInv'
  OBVIOUS
<1>1. status = "running" /\ ReturnInto(Active.sender, Stored(Active, Here, reg.sp))
  BY DEF PrimitiveReturns
<1>2. Here \in Nat /\ reg.sp \in Nat
  BY <1>1, RunningFacts
<1> QED
  BY <1>1, <1>2, StoredContext, ReturnToSenderInv DEF IInv

(* A block return is a local return. *)
LEMMA BlockReturnInv ==
  ASSUME IInv, NEW pops \in {0, 1}, BlockReturn(pops)
  PROVE  IInv'
<1>1. status = "running" /\ pops \in Nat
  BY DEF BlockReturn, Dispatch
<1>2. CASE reg.sp < pops
  BY <1>2, StopWithInv DEF BlockReturn, Ended
<1>3. CASE ~(reg.sp < pops)
  BY <1>1, <1>3, LocalReturnInv DEF BlockReturn
<1> QED
  BY <1>2, <1>3

(* A walk begins on the spine, at the sender of the active context.          *)
LEMMA MethodReturnInv ==
  ASSUME IInv, NEW pops \in {0, 1}, MethodReturn(pops)
  PROVE  IInv'
<1> USE TypeFacts DEF IInv
<1>1. status = "running" /\ pops \in Nat
  BY DEF MethodReturn, Dispatch
<1>2. CASE reg.sp < pops
  BY <1>2, StopWithInv DEF MethodReturn, Ended
<1>3. CASE ~(reg.sp < pops) /\ Active.closure = Nil
  BY <1>1, <1>3, LocalReturnInv DEF MethodReturn
<1>4. CASE ~(reg.sp < pops) /\ Active.closure # Nil
  <2>1. PICK cursor \in Nat, target \in Nat :
          /\ cursor = Active.sender /\ cursor \in Context \cup {Nil}
          /\ target = contexts[closures[Active.closure].outer].sender
          /\ target \in Context \cup {Nil}
    <3>1. Active.closure \in Closure
      BY <1>1, <1>4, RunningFacts DEF ContextObject
    <3>2. closures[Active.closure].outer \in Context
      BY <3>1 DEF TypeOK, ClosureObject
    <3>3. \A c \in Context : contexts[c].sender \in Context \cup {Nil}
      BY DEF TypeOK, ContextObject
    <3> QED
      BY <3>2, <3>3 DEF Active
  <2>2. /\ walk' = [cursor |-> cursor, target |-> target]
        /\ reg' = [reg EXCEPT !.sp = reg.sp - pops]
        /\ status' = "walking"
        /\ UNCHANGED <<allocated, contexts, created, closures>>
    BY <1>4, <2>1 DEF MethodReturn, heapVars
  <2>3. reg' \in Registers /\ reg'.methodContext = reg.methodContext
    <3>1. reg.sp - pops \in Nat
      BY <1>1, <1>4, RunningFacts
    <3> QED
      BY <2>2, <3>1 DEF TypeOK, Registers
  <2>4. TypeOK' /\ Shape' /\ SendersAreOlder'
    BY <2>1, <2>2, <2>3 DEF TypeOK, Shape, SendersAreOlder
  <2>5. PICK S \in SUBSET Context : Spine(S)
    BY <1>1 DEF HasSpine, Live
  <2>6. cursor < reg.methodContext
    BY <2>1 DEF SendersAreOlder, Shape, Active
  <2>7. cursor # Nil => cursor \in S /\ cursor # reg.methodContext /\ Resumable(cursor)
    <3>1. cursor = contexts[reg.methodContext].sender
      BY <2>1 DEF Active
    <3>2. cursor # reg.methodContext
      BY <2>6
    <3> QED
      BY <2>5, <3>1, <3>2 DEF Spine
  <2>8. Spine(S)'
    BY <2>2, <2>3, <2>5, <2>7 DEF Spine, Resumable, FetchFails
  <2> QED
    BY <2>2, <2>4, <2>8 DEF HasSpine, RegistersCurrent
<1> QED
  BY <1>2, <1>3, <1>4

(* The walk stays on the spine. *)
LEMMA WalkStepInv == IInv /\ WalkStep => IInv'
<1> SUFFICES ASSUME IInv, WalkStep PROVE IInv'
  OBVIOUS
<1> USE TypeFacts DEF IInv
<1>1. status = "walking" /\ walk.cursor # Nil
  BY DEF WalkStep
<1>2. PICK S \in SUBSET Context : Spine(S)
  BY <1>1 DEF HasSpine, Live
<1>3. PICK cursor \in Context : cursor = walk.cursor /\ cursor \in S
  BY <1>1, <1>2 DEF Spine
<1>4. PICK s \in Nat : s = contexts[cursor].sender /\ s \in Context \cup {Nil}
  BY <1>3 DEF TypeOK, ContextObject
<1>5. /\ walk' = [walk EXCEPT !.cursor = s]
      /\ UNCHANGED <<allocated, contexts, created, closures, reg, status>>
  BY <1>3, <1>4 DEF WalkStep, IsUnwindContext, ParsePrimitiveNumber, heapVars
<1>6. TypeOK' /\ Shape' /\ SendersAreOlder' /\ RegistersCurrent'
  <2>1. walk' \in [cursor: Context \cup {Nil}, target: Context \cup {Nil}]
    BY <1>4, <1>5 DEF TypeOK
  <2>2. TypeOK'
    BY <1>5, <2>1 DEF TypeOK
  <2> QED
    BY <1>1, <1>5, <2>2 DEF Shape, SendersAreOlder, RegistersCurrent
<1>7. walk'.cursor = s
  BY <1>5 DEF TypeOK
<1>8. s # Nil => s \in S /\ Resumable(s)
  BY <1>2, <1>3, <1>4 DEF Spine
<1>9. s < cursor /\ cursor <= reg.methodContext /\ cursor \in 1 .. allocated
  <2>1. cursor <= reg.methodContext /\ reg.methodContext <= allocated
    BY <1>2, <1>3 DEF Spine, Shape
  <2>2. cursor \in 1 .. allocated
    BY <2>1
  <2> QED
    BY <1>4, <2>1, <2>2 DEF SendersAreOlder
<1>10. s # reg.methodContext
  BY <1>9
<1>11. Spine(S)'
  BY <1>2, <1>5, <1>7, <1>8, <1>10 DEF Spine, Resumable, FetchFails
<1> QED
  BY <1>6, <1>11 DEF HasSpine

(* A walk arrives at a resumable context of the spine, or at nil. *)
LEMMA WalkArrivesInv == IInv /\ WalkArrives => IInv'
<1> SUFFICES ASSUME IInv, WalkArrives PROVE IInv'
  OBVIOUS
<1> USE TypeFacts DEF IInv
<1>1. status = "walking" /\ walk.cursor = walk.target /\ ReturnInto(walk.target, Active)
  BY DEF WalkArrives
<1>2. PICK S \in SUBSET Context : Spine(S)
  BY <1>1 DEF HasSpine, Live
<1>3. PICK target \in Nat : target = walk.target
  BY DEF TypeOK, Context, Nil
<1>4. target # Nil => target \in S /\ target # reg.methodContext /\ Resumable(target)
  BY <1>1, <1>2, <1>3 DEF Spine
<1>5. Active \in ContextObject
  BY DEF TypeOK, Active
<1> QED
  BY <1>1, <1>2, <1>3, <1>4, <1>5, ReturnIntoInv

(* The invariant depends on nothing but the variables. *)
LEMMA StutterInv ==
  ASSUME IInv, UNCHANGED vars
  PROVE  IInv'
BY DEF IInv, vars, TypeOK, Shape, SendersAreOlder, RegistersCurrent, HasSpine, Live,
       Spine, Resumable, FetchFails, Active

(* The invariant is inductive: one step per action. *)
LEMMA NextInv == IInv /\ [Next]_vars => IInv'
<1> SUFFICES ASSUME IInv, [Next]_vars PROVE IInv'
  OBVIOUS
<1>1. CASE Enter
  BY <1>1, EnterInv
<1>2. CASE \E e \in StackEffects : StackBytecode(e[1], e[2], e[3])
  BY <1>2, StackBytecodeInv
<1>3. CASE \E to \in 0 .. CodeSize - 1 : Jump(to) \/ JumpIfBoolean(to)
  BY <1>3, JumpInv
<1>4. CASE FailingBytecode \/ UndefinedBytecode \/ WalkFails
  BY <1>4, StopWithInv DEF FailingBytecode, UndefinedBytecode, WalkFails, Ended
<1>5. CASE \E m \in Methods : \E n \in {NumArgs[x] : x \in Methods} : Send(n, m)
  BY <1>5, SendInv
<1>6. CASE \E args \in BlockArgs, copied \in CopiedCounts :
             \E to \in 0 .. CodeSize - 1 : PushClosure(args, copied, to)
  BY <1>6, PushClosureInv
<1>7. CASE PrimitiveFails
  BY <1>7, PrimitiveFailsInv
<1>8. CASE \E b \in 1 .. created : BlockValue(b)
  BY <1>8, BlockValueInv
<1>9. CASE \E m \in Methods : PerformInSuperclass(m)
  BY <1>9, PerformInSuperclassInv
<1>10. CASE PrimitiveReturns
  BY <1>10, PrimitiveReturnsInv
<1>11. CASE \E pops \in {0, 1} : BlockReturn(pops)
  BY <1>11, BlockReturnInv
<1>12. CASE \E pops \in {0, 1} : MethodReturn(pops)
  BY <1>12, MethodReturnInv
<1>13. CASE WalkStep
  BY <1>13, WalkStepInv
<1>14. CASE WalkArrives
  BY <1>14, WalkArrivesInv
<1>15. CASE UNCHANGED vars
  BY <1>15, StutterInv
<1> QED
  BY <1>1, <1>2, <1>3, <1>4, <1>5, <1>6, <1>7, <1>8, <1>9, <1>10, <1>11, <1>12,
     <1>13, <1>14, <1>15 DEF Next

-----------------------------------------------------------------------------
(* The theorems *)

(* The invariant holds always. *)
LEMMA Invariance == Spec => []IInv
  BY InitInv, NextInv, PTL DEF Spec

(* Every step of the interpreter keeps its state well-typed: in particular   *)
(* no stack pointer goes below zero.                                         *)
THEOREM TypeCorrect == Spec => []TypeOK
<1>1. IInv => TypeOK
  BY DEF IInv
<1> QED
  BY Invariance, <1>1, PTL

(* The sender chain is acyclic, whatever activations replace each other and  *)
(* whatever chains non-local returns abandon.                                *)
THEOREM SendersOlder == Spec => []SendersAreOlder
<1>1. IInv => SendersAreOlder
  BY DEF IInv
<1> QED
  BY Invariance, <1>1, PTL

(* The registers are those of the active context.                            *)
THEOREM RegistersAreCurrent == Spec => []RegistersCurrent
<1>1. IInv => RegistersCurrent
  BY DEF IInv
<1> QED
  BY Invariance, <1>1, PTL

(* A return never fetches a context it cannot continue in: the error that    *)
(* returnOopActivatingContext ignores does not occur.                        *)
THEOREM ReturnTargetsReady == Spec => []ReturnTargetReady
<1>1. IInv => ReturnTargetReady
  <2> SUFFICES ASSUME IInv PROVE ReturnTargetReady
    OBVIOUS
  <2>1. CASE status \in {"running", "walking"}
    <3>1. PICK S \in SUBSET Context : Spine(S)
      BY <2>1 DEF IInv, HasSpine, Live
    <3>2. contexts[reg.methodContext].sender # Nil =>
            Resumable(contexts[reg.methodContext].sender)
      BY <3>1 DEF Spine
    <3>3. status = "walking" /\ walk.cursor # Nil => Resumable(walk.cursor)
      BY <3>1 DEF Spine
    <3>4. \A c : c = Nil => Resumable(c)
      BY DEF Resumable
    <3> QED
      BY <3>2, <3>3, <3>4 DEF ReturnTargetReady, Active
  <2>2. CASE status \notin {"running", "walking"}
    BY <2>2 DEF ReturnTargetReady
  <2> QED
    BY <2>1, <2>2
<1> QED
  BY Invariance, <1>1, PTL

(* The three ways a step treats the contexts. *)
LEMMA NextContexts ==
  ASSUME Next
  PROVE  \/ contexts' = contexts
         \/ \E new, caller : ActivateNew(new, caller)
         \/ \E target, current : ReturnInto(target, current)
<1> USE DEF heapVars
<1>1. (\E reason : StopWith(reason)) => contexts' = contexts
  BY DEF StopWith
<1>2. Enter => contexts' = contexts
  BY DEF Enter
<1>3. ASSUME NEW e \in StackEffects, StackBytecode(e[1], e[2], e[3]) PROVE contexts' = contexts
  BY <1>1, <1>3 DEF StackBytecode
<1>4. ASSUME NEW to, Jump(to) \/ JumpIfBoolean(to) PROVE contexts' = contexts
  BY <1>1, <1>4 DEF Jump, JumpIfBoolean
<1>5. FailingBytecode \/ UndefinedBytecode \/ WalkFails => contexts' = contexts
  BY <1>1 DEF FailingBytecode, UndefinedBytecode, WalkFails
<1>6. ASSUME NEW n, NEW m, Send(n, m)
      PROVE  contexts' = contexts \/ \E new, caller : ActivateNew(new, caller)
  BY <1>1, <1>6 DEF Send
<1>7. ASSUME NEW args, NEW copied, NEW to, PushClosure(args, copied, to) PROVE contexts' = contexts
  BY <1>1, <1>7 DEF PushClosure
<1>8. PrimitiveFails => contexts' = contexts
  BY DEF PrimitiveFails
<1>9. ASSUME NEW b, BlockValue(b) \/ PerformInSuperclass(b)
      PROVE  contexts' = contexts \/ \E new, caller : ActivateNew(new, caller)
  BY <1>1, <1>9 DEF BlockValue, PerformInSuperclass
<1>10. PrimitiveReturns \/ WalkArrives => \E target, current : ReturnInto(target, current)
  BY DEF PrimitiveReturns, WalkArrives
<1>11. ASSUME NEW pops, BlockReturn(pops) \/ MethodReturn(pops)
       PROVE  contexts' = contexts \/ \E target, current : ReturnInto(target, current)
  BY <1>1, <1>11 DEF BlockReturn, MethodReturn, LocalReturn
<1>12. WalkStep => contexts' = contexts
  BY <1>1 DEF WalkStep
<1> QED
  BY <1>1, <1>2, <1>3, <1>4, <1>5, <1>6, <1>7, <1>8, <1>9, <1>10, <1>11, <1>12 DEF Next

(* A suspended activation keeps the state it was left with until the         *)
(* interpreter returns into it.                                              *)
THEOREM SuspendedContextsUntouched == Spec => SuspendedUntouched
<1>1. IInv /\ [Next]_vars =>
        [\A c \in 1 .. allocated : c # reg.methodContext => contexts'[c] = contexts[c]]_vars
  <2> SUFFICES ASSUME IInv, Next, NEW c \in 1 .. allocated, c # reg.methodContext
               PROVE  contexts'[c] = contexts[c]
    OBVIOUS
  <2>1. /\ c # allocated + 1 /\ c \in Context
        /\ contexts \in [Context -> ContextObject]
    BY TypeFacts DEF IInv, TypeOK
  <2>2. CASE \E new, caller : ActivateNew(new, caller)
    BY <2>1, <2>2 DEF ActivateNew
  <2>3. CASE \E target, current : ReturnInto(target, current)
    BY <2>1, <2>3 DEF ReturnInto
  <2> QED
    BY <2>2, <2>3, NextContexts
<1> QED
  BY Invariance, <1>1, PTL DEF Spec, SuspendedUntouched

-----------------------------------------------------------------------------
(* Chains of senders *)

(* The sender of every context up to n is older. *)
Older(ctx, n) == \A d \in 1 .. n : ctx[d].sender \in 0 .. d - 1

(* The chain of a context is closed and holds the context. *)
LEMMA ChainClosed ==
  ASSUME NEW ctx, NEW n \in Nat, Older(ctx, n), NEW c \in 1 .. n
  PROVE  /\ c \in ChainIn(ctx, c) /\ ChainIn(ctx, c) \subseteq 1 .. c
         /\ Closed(ctx, ChainIn(ctx, c))
         /\ 1 .. c \subseteq 1 .. n
<1>1. \A d \in 1 .. c : d \in 1 .. n
  OBVIOUS
<1>2. c \in ChainIn(ctx, c) /\ ChainIn(ctx, c) \subseteq 1 .. c
  BY DEF ChainIn
<1>3. ASSUME NEW d \in ChainIn(ctx, c), ctx[d].sender # Nil
      PROVE  ctx[d].sender \in ChainIn(ctx, c)
  <2>1. d \in 1 .. c /\ ctx[d].sender \in 0 .. d - 1
    BY <1>1, <1>2 DEF Older
  <2>2. ctx[d].sender \in 1 .. c
    BY <1>3, <2>1 DEF Nil
  <2>3. ASSUME NEW S \in SUBSET (1 .. c), c \in S, Closed(ctx, S)
        PROVE  ctx[d].sender \in S
    BY <1>3, <2>3 DEF ChainIn, Closed
  <2> QED
    BY <2>2, <2>3 DEF ChainIn
<1> QED
  BY <1>1, <1>2, <1>3 DEF Closed

(* It is the smallest such set, also among those with younger contexts.      *)
LEMMA ChainMinimal ==
  ASSUME NEW ctx, NEW n \in Nat, Older(ctx, n), NEW c \in 1 .. n,
         NEW S \in SUBSET (1 .. n), c \in S, Closed(ctx, S)
  PROVE  ChainIn(ctx, c) \subseteq S
<1> DEFINE T == {d \in S : d <= c}
<1>1. T \in SUBSET (1 .. c) /\ c \in T
  <2>1. \A d \in T : d \in 1 .. c
    OBVIOUS
  <2>2. c \in T
    OBVIOUS
  <2> HIDE DEF T
  <2> QED
    BY <2>1, <2>2
<1>2. ASSUME NEW d \in T, ctx[d].sender # Nil PROVE ctx[d].sender \in T
  <2>1. ctx[d].sender \in 0 .. d - 1 /\ ctx[d].sender \in S /\ d \in 1 .. n /\ d <= c
    BY <1>2 DEF Older, Closed
  <2> QED
    BY <2>1
<1>3. Closed(ctx, T)
  BY <1>2 DEF Closed
<1> QED
  BY <1>1, <1>3 DEF ChainIn

(* A chain is its newest context and the chain of that one's sender. *)
LEMMA ChainUnfold ==
  ASSUME NEW ctx, NEW n \in Nat, Older(ctx, n), NEW c \in 1 .. n
  PROVE  ChainIn(ctx, c) = {c} \cup (IF ctx[c].sender = Nil THEN {}
                                     ELSE ChainIn(ctx, ctx[c].sender))
<1>1. CASE ctx[c].sender = Nil
  <2>1. Closed(ctx, {c})
    BY <1>1 DEF Closed
  <2>2. ChainIn(ctx, c) \subseteq {c}
    BY <2>1, ChainMinimal
  <2> QED
    BY <1>1, <2>2, ChainClosed
<1>2. CASE ctx[c].sender # Nil
  <2>1. PICK s : s = ctx[c].sender /\ s \in 1 .. n /\ s # Nil
    BY <1>2 DEF Older, Nil
  <2>2. /\ s \in ChainIn(ctx, s) /\ ChainIn(ctx, s) \subseteq 1 .. n
        /\ Closed(ctx, ChainIn(ctx, s))
    BY <2>1, ChainClosed
  <2>3. Closed(ctx, {c} \cup ChainIn(ctx, s))
    BY <2>1, <2>2 DEF Closed
  <2>4. ChainIn(ctx, c) \subseteq {c} \cup ChainIn(ctx, s)
    BY <2>2, <2>3, ChainMinimal
  <2>5. /\ c \in ChainIn(ctx, c) /\ s \in ChainIn(ctx, c)
        /\ ChainIn(ctx, c) \in SUBSET (1 .. n) /\ Closed(ctx, ChainIn(ctx, c))
    BY <2>1, ChainClosed DEF Closed
  <2>6. ChainIn(ctx, s) \subseteq ChainIn(ctx, c)
    BY <2>1, <2>5, ChainMinimal
  <2> QED
    BY <1>2, <2>1, <2>4, <2>5, <2>6
<1> QED
  BY <1>1, <1>2

(* A chain cut at one of its contexts is the chain of that context. *)
LEMMA ChainCut ==
  ASSUME NEW ctx, NEW n \in Nat, Older(ctx, n), NEW c \in 1 .. n,
         NEW t \in ChainIn(ctx, c)
  PROVE  ChainIn(ctx, t) = {d \in ChainIn(ctx, c) : d <= t}
<1> DEFINE U == {d \in ChainIn(ctx, c) : t \in ChainIn(ctx, d)} \cup ChainIn(ctx, t)
<1>1. /\ c \in ChainIn(ctx, c) /\ ChainIn(ctx, c) \in SUBSET (1 .. n)
      /\ Closed(ctx, ChainIn(ctx, c)) /\ t \in 1 .. n
  BY ChainClosed
<1>2. /\ t \in ChainIn(ctx, t) /\ ChainIn(ctx, t) \subseteq 1 .. t
      /\ ChainIn(ctx, t) \subseteq 1 .. n /\ Closed(ctx, ChainIn(ctx, t))
  BY <1>1, ChainClosed
<1>3. ChainIn(ctx, t) \subseteq ChainIn(ctx, c)
  BY <1>1, ChainMinimal
<1>4. ASSUME NEW d \in U, ctx[d].sender # Nil PROVE ctx[d].sender \in U
  <2>1. CASE d \in ChainIn(ctx, t)
    BY <1>2, <1>4, <2>1 DEF Closed
  <2>2. CASE d \in ChainIn(ctx, c) /\ t \in ChainIn(ctx, d) /\ d # t
    <3>1. d \in 1 .. n /\ ctx[d].sender \in ChainIn(ctx, c)
      BY <1>1, <1>4, <2>2 DEF Closed
    <3>2. t \in ChainIn(ctx, ctx[d].sender)
      BY <1>4, <2>2, <3>1, ChainUnfold
    <3> QED
      BY <3>1, <3>2
  <2> QED
    BY <1>2, <2>1, <2>2
<1>5. ChainIn(ctx, c) \subseteq U
  <2>1. Closed(ctx, U) /\ c \in U /\ U \in SUBSET (1 .. n)
    BY <1>1, <1>2, <1>4 DEF Closed
  <2> QED
    BY <2>1, ChainMinimal
<1>6. ASSUME NEW d \in ChainIn(ctx, c), d <= t PROVE d \in ChainIn(ctx, t)
  <2>1. CASE t \in ChainIn(ctx, d)
    <3>1. t \in 1 .. d /\ d \in 1 .. n
      BY <1>1, <2>1, ChainClosed
    <3> QED
      BY <1>1, <1>2, <1>6, <3>1
  <2> QED
    BY <1>5, <2>1
<1> QED
  BY <1>2, <1>3, <1>6

(* Contexts with the same senders along a chain have the same chain. *)
LEMMA ChainAgrees ==
  ASSUME NEW ctx, NEW new, NEW n \in Nat, Older(ctx, n), Older(new, n), NEW c \in 1 .. n,
         \A d \in ChainIn(ctx, c) : new[d].sender = ctx[d].sender
  PROVE  ChainIn(new, c) = ChainIn(ctx, c)
<1>1. /\ c \in ChainIn(ctx, c) /\ ChainIn(ctx, c) \in SUBSET (1 .. n)
      /\ Closed(ctx, ChainIn(ctx, c))
  BY ChainClosed
<1>2. /\ c \in ChainIn(new, c) /\ ChainIn(new, c) \in SUBSET (1 .. n)
      /\ Closed(new, ChainIn(new, c))
  BY ChainClosed
<1>3. Closed(new, ChainIn(ctx, c))
  BY <1>1 DEF Closed
<1>4. ChainIn(new, c) \subseteq ChainIn(ctx, c)
  BY <1>1, <1>3, ChainMinimal
<1>5. Closed(ctx, ChainIn(new, c))
  BY <1>2, <1>4 DEF Closed
<1> QED
  BY <1>2, <1>4, <1>5, ChainMinimal

-----------------------------------------------------------------------------
(* The interpreter implements the stack of activations *)

(* The frame of a context that is not running. *)
SavedFrame(c) == [method |-> c.method, pc |-> c.pc - 1, sp |-> c.stackp]

(* The chain of the active context: resumable contexts below it. *)
ChainShape ==
  /\ reg.methodContext \in 1 .. allocated /\ allocated \in Nat
  /\ Older(contexts, allocated)
  /\ reg.methodContext \in Chain /\ Chain \subseteq 1 .. reg.methodContext
  /\ Closed(contexts, Chain)
  /\ \A c \in Chain : c \in 1 .. allocated /\ c \in Context
  /\ \A c \in Chain : c # reg.methodContext => c < reg.methodContext /\ Resumable(c)

(* The chain of a live interpreter is so shaped. *)
LEMMA ChainShaped == IInv /\ Live => ChainShape
<1> SUFFICES ASSUME IInv, Live PROVE ChainShape
  OBVIOUS
<1> USE TypeFacts DEF IInv
<1>1. PICK mc : mc = reg.methodContext
  OBVIOUS
<1>2. mc \in 1 .. allocated /\ allocated \in Nat /\ mc \in Nat
  BY <1>1 DEF Shape
<1>3. Older(contexts, allocated)
  <2>1. \A d \in 1 .. allocated : contexts[d].sender \in Nat /\ contexts[d].sender < d
    BY DEF SendersAreOlder
  <2> QED
    BY <1>2, <2>1 DEF Older
<1>4. /\ mc \in Chain /\ Chain \subseteq 1 .. mc
      /\ Closed(contexts, Chain) /\ 1 .. mc \subseteq 1 .. allocated
  BY <1>1, <1>2, <1>3, ChainClosed DEF Chain
<1>5. PICK S \in SUBSET Context : Spine(S)
  BY DEF HasSpine
<1> DEFINE R == {mc} \cup {d \in Chain \cap S : Resumable(d)}
<1>6. mc \in S /\ R \in SUBSET (1 .. allocated)
  BY <1>1, <1>2, <1>4, <1>5 DEF Spine
<1>7. ASSUME NEW d \in R, contexts[d].sender # Nil PROVE contexts[d].sender \in R
  <2>1. d \in Chain /\ d \in S
    BY <1>4, <1>6
  <2>2. contexts[d].sender \in Chain
    BY <1>4, <1>7, <2>1 DEF Closed
  <2>3. contexts[d].sender \in S /\ Resumable(contexts[d].sender)
    BY <1>5, <1>7, <2>1 DEF Spine
  <2> QED
    BY <2>2, <2>3
<1>8. Closed(contexts, R)
  <2> HIDE DEF R
  <2> QED
    BY <1>7 DEF Closed
<1>9. Chain \subseteq R
  <2>1. mc \in R
    OBVIOUS
  <2> HIDE DEF R
  <2> QED
    BY <1>1, <1>2, <1>3, <1>6, <1>8, <2>1, ChainMinimal DEF Chain
<1>10. \A c \in Chain : c # mc => c < mc /\ Resumable(c)
  <2>1. \A c \in Chain : c # mc => Resumable(c)
    BY <1>9
  <2>2. \A c \in Chain : c \in 1 .. mc
    BY <1>4
  <2> QED
    BY <1>2, <2>1, <2>2
<1>11. \A c \in Chain : c \in 1 .. allocated /\ c \in Context
  <2>1. \A c \in Chain : c \in 1 .. allocated
    BY <1>4
  <2> QED
    BY <2>1
<1> QED
  BY <1>1, <1>2, <1>3, <1>4, <1>10, <1>11 DEF ChainShape

(* The stack while the interpreter runs: the active context has the top      *)
(* frame, the others wait.                                                   *)
StackShape ==
  /\ Outcome = "running"
  /\ DOMAIN Frames = Chain /\ Frames = [c \in DOMAIN Frames |-> Frames[c]]
  /\ Stack!IsTop(Frames, reg.methodContext)
  /\ \A c \in Chain : c # reg.methodContext =>
       Frames[c] = SavedFrame(contexts[c]) /\ Stack!Waiting(Frames[c])
  /\ status # "entering" =>
       Frames[reg.methodContext] = [method |-> Active.method, pc |-> reg.pc, sp |-> reg.sp]
  /\ status = "entering" => Frames[reg.methodContext] = SavedFrame(Active)

(* The stack of a live interpreter is so shaped. *)
LEMMA StackShaped == IInv /\ Live => StackShape
<1> SUFFICES ASSUME IInv, Live PROVE StackShape
  OBVIOUS
<1>1. Outcome = "running"
  BY DEF Live, Outcome, Ended
<1>2. Frames = [c \in Chain |-> FrameOf(c)]
  BY <1>1 DEF Frames
<1>3. reg.methodContext \in Chain /\ \A c \in Chain : c <= reg.methodContext
  BY ChainShaped DEF ChainShape
<1>4. Stack!IsTop(Frames, reg.methodContext)
  BY <1>2, <1>3 DEF Stack!IsTop
<1>5. ASSUME NEW c \in Chain, c # reg.methodContext
      PROVE  Frames[c] = SavedFrame(contexts[c]) /\ Stack!Waiting(Frames[c])
  <2>1. c \in Context /\ Resumable(c) /\ c # Nil
    BY <1>5, ChainShaped DEF ChainShape, Context, Nil
  <2>2. contexts[c] \in ContextObject
    BY <2>1 DEF IInv, TypeOK
  <2>3. /\ contexts[c].method \in Methods /\ contexts[c].pc \in Nat /\ contexts[c].stackp \in Nat
        /\ FrameSize[contexts[c].method] \in Nat
    BY <2>2, MethodsAssumption DEF ContextObject
  <2>4. /\ contexts[c].pc > 0 /\ contexts[c].stackp < FrameSize[contexts[c].method]
    BY <2>1, <2>3 DEF Resumable, FetchFails
  <2>5. Frames[c] = SavedFrame(contexts[c])
    BY <1>2, <1>5 DEF FrameOf, SavedFrame
  <2>6. Stack!Waiting(SavedFrame(contexts[c]))
    BY <2>3, <2>4 DEF Stack!Waiting, Stack!Frame, SavedFrame
  <2> QED
    BY <2>5, <2>6
<1>6. status # "entering" =>
        Frames[reg.methodContext] = [method |-> Active.method, pc |-> reg.pc, sp |-> reg.sp]
  BY <1>2, <1>3 DEF FrameOf, Active
<1>7. status = "entering" => Frames[reg.methodContext] = SavedFrame(Active)
  BY <1>2, <1>3 DEF FrameOf, SavedFrame, Active
<1> QED
  BY <1>1, <1>2, <1>4, <1>5, <1>6, <1>7 DEF StackShape
(* The same after a step. *)
LEMMA ShapedNext == (IInv /\ Live => ChainShape)' /\ (IInv /\ Live => StackShape)'
  BY ChainShaped, StackShaped, PTL

(* The frame of the running context fits. *)
LEMMA TopFrame ==
  IInv /\ status \in {"running", "walking"} /\ reg.sp <= FrameSize[Active.method] =>
    Stack!Frame(Frames[reg.methodContext])
<1> SUFFICES ASSUME IInv, status \in {"running", "walking"}, reg.sp <= FrameSize[Active.method]
             PROVE  Stack!Frame(Frames[reg.methodContext])
  OBVIOUS
<1>1. Frames[reg.methodContext] = [method |-> Active.method, pc |-> reg.pc, sp |-> reg.sp]
  BY StackShaped DEF StackShape, Live
<1>2. Active.method \in Methods /\ reg.pc \in Nat /\ reg.sp \in Nat
  BY DEF IInv, TypeOK, Active, Registers, ContextObject
<1>3. FrameSize[Active.method] \in Nat
  BY <1>2, MethodsAssumption
<1> QED
  BY <1>1, <1>2, <1>3 DEF Stack!Frame

(* Stacks that agree below two numbers have the same frames there. *)
LEMMA SameBelow ==
  ASSUME NEW fs, NEW n, NEW gs, NEW m,
         {j \in DOMAIN fs : j < n} = {j \in DOMAIN gs : j < m},
         \A j \in {i \in DOMAIN fs : i < n} : gs[j] = fs[j]
  PROVE  Stack!Below(gs, m) = Stack!Below(fs, n)
BY DEF Stack!Below

(* Steps that only move the registers are steps of the top frame.            *)
LEMMA ExecutesInPlace ==
  ASSUME IInv, IInv', status \in {"running", "walking"}, status' \in {"running", "walking"},
         contexts' = contexts, reg'.methodContext = reg.methodContext,
         reg.sp <= FrameSize[Active.method], reg'.sp <= FrameSize[Active.method]
  PROVE  Stack!Next
<1>1. PICK mc, C : mc = reg.methodContext /\ C = Chain
  OBVIOUS
<1>2. C = Chain' /\ mc = reg'.methodContext /\ Active' = Active
  BY <1>1 DEF Chain, Active
<1>3. /\ Outcome = "running" /\ DOMAIN Frames = C /\ Stack!IsTop(Frames, mc)
      /\ \A c \in C : c # mc => Frames[c] = SavedFrame(contexts[c])
  BY <1>1, StackShaped DEF StackShape, Live
<1>4. /\ Outcome' = "running" /\ DOMAIN Frames' = C /\ Stack!IsTop(Frames', mc)
      /\ \A c \in C : c # mc => Frames'[c] = SavedFrame(contexts[c])
  BY <1>2, ShapedNext DEF StackShape, Live
<1>5. Stack!Frame(Frames[mc]) /\ Stack!Frame(Frames'[mc])
  <2>1. (IInv /\ status \in {"running", "walking"} /\ reg.sp <= FrameSize[Active.method] =>
           Stack!Frame(Frames[reg.methodContext]))'
    BY TopFrame, PTL
  <2> QED
    BY <1>1, <1>2, <2>1, TopFrame
<1>6. Stack!Below(Frames', mc) = Stack!Below(Frames, mc)
  <2>1. \A j \in {i \in C : i < mc} : j # mc
    BY <1>1, ChainShaped DEF ChainShape, Live
  <2> QED
    BY <1>3, <1>4, <2>1, SameBelow
<1>7. Stack!Execute(Frames, Frames', mc, mc)
  BY <1>5, <1>6 DEF Stack!Execute
<1>8. Stack!Step(Frames, Frames')
  BY <1>3, <1>4, <1>5, <1>7 DEF Stack!Step, Stack!IsTop
<1> QED
  BY <1>3, <1>4, <1>8 DEF Stack!Next, Stack!Run

(* A new activation is the newest context of the chain, above the one it is  *)
(* called from or in place of it.                                            *)
LEMMA NewChain ==
  ASSUME IInv, IInv', status = "running", status' = "running", allocated # MaxContexts,
         NEW new \in ContextObject, NEW caller \in ContextObject,
         caller.sender = Active.sender,
         ActivateNew(new, caller)
  PROVE  /\ reg'.methodContext = allocated + 1
         /\ contexts'[reg.methodContext] = caller /\ contexts'[allocated + 1] = new
         /\ \A c \in Chain : c # reg.methodContext => contexts'[c] = contexts[c]
         /\ new.sender = reg.methodContext => Chain' = Chain \cup {allocated + 1}
         /\ new.sender = Active.sender =>
              Chain' = (Chain \ {reg.methodContext}) \cup {allocated + 1}
<1>1. PICK mc, n, id : mc = reg.methodContext /\ n = allocated /\ id = allocated + 1
  OBVIOUS
<1>2. /\ n \in Nat /\ mc \in 1 .. n /\ id \in 1 .. id /\ id \in Context /\ mc # id
      /\ mc \in Context /\ 1 .. n \subseteq 1 .. id /\ id \notin 1 .. n
      /\ Older(contexts, n) /\ mc \in Chain /\ Chain \subseteq 1 .. mc
      /\ \A c \in Chain : c \in 1 .. n /\ c \in Context
  <2>1. id \in Context /\ 1 .. n \subseteq 1 .. id /\ id \notin 1 .. n /\ id \in 1 .. id
    BY <1>1, TypeFacts DEF IInv
  <2> QED
    BY <1>1, <2>1, ChainShaped DEF ChainShape, Live
<1>3. /\ contexts' = [contexts EXCEPT ![mc] = caller, ![id] = new] /\ allocated' = id
      /\ reg'.methodContext = id
  BY <1>1, <1>2, FetchedRegisters DEF ActivateNew, IInv, TypeOK
<1>4. /\ contexts'[mc] = caller /\ contexts'[id] = new
      /\ \A c \in 1 .. n : c # mc => contexts'[c] = contexts[c]
      /\ \A c \in 1 .. n : contexts'[c].sender = contexts[c].sender
  <2>1. \A c \in 1 .. n : c \in Context /\ c # id
    BY <1>1, <1>2, TypeFacts DEF IInv
  <2> QED
    BY <1>1, <1>2, <1>3, <2>1 DEF IInv, TypeOK, Active
<1>5. Older(contexts', id) /\ Older(contexts', n)
  <2>1. Older(contexts', id)
    BY <1>3, ShapedNext DEF ChainShape, Live
  <2> QED
    BY <1>2, <2>1 DEF Older
<1>6. ASSUME NEW c \in 1 .. n PROVE ChainIn(contexts', c) = ChainIn(contexts, c)
  <2>1. ChainIn(contexts, c) \subseteq 1 .. n
    BY <1>2, ChainClosed
  <2> QED
    BY <1>2, <1>4, <1>5, <2>1, ChainAgrees
<1>7. Chain' = ChainIn(contexts', id) /\ Chain = ChainIn(contexts, mc)
  BY <1>1, <1>3 DEF Chain
<1>8. Chain' = {id} \cup (IF new.sender = Nil THEN {} ELSE ChainIn(contexts', new.sender))
  <2>1. id \in Nat
    BY <1>1, <1>2
  <2>2. ChainIn(contexts', id)
          = {id} \cup (IF contexts'[id].sender = Nil THEN {}
                       ELSE ChainIn(contexts', contexts'[id].sender))
    BY <1>2, <1>5, <2>1, ChainUnfold
  <2> QED
    BY <1>4, <1>7, <2>2
<1>9. ASSUME new.sender = mc PROVE Chain' = Chain \cup {id}
  <2>1. mc # Nil
    BY <1>2 DEF Nil
  <2> QED
    BY <1>2, <1>6, <1>7, <1>8, <1>9, <2>1
<1>10. ASSUME new.sender = Active.sender PROVE Chain' = (Chain \ {mc}) \cup {id}
  <2>1. PICK s : s = Active.sender /\ s = contexts[mc].sender /\ s \in 0 .. mc - 1
    BY <1>1, <1>2 DEF Active, Older
  <2>2. Chain = {mc} \cup (IF s = Nil THEN {} ELSE ChainIn(contexts, s))
    BY <1>2, <1>7, <2>1, ChainUnfold
  <2>3. CASE s = Nil
    BY <1>8, <1>10, <2>1, <2>2, <2>3
  <2>4. CASE s # Nil
    <3>1. s \in 1 .. n /\ mc \notin 1 .. s
      BY <1>2, <2>1, <2>4 DEF Nil
    <3>2. ChainIn(contexts, s) \subseteq 1 .. s
      BY <1>2, <3>1, ChainClosed
    <3> QED
      BY <1>6, <1>8, <1>10, <2>1, <2>2, <2>4, <3>1, <3>2
  <2> QED
    BY <2>3, <2>4
<1> QED
  BY <1>1, <1>2, <1>3, <1>4, <1>9, <1>10

(* Every other frame is what it was. *)
LEMMA NewFrames ==
  ASSUME IInv, IInv', status = "running", status' = "running", allocated # MaxContexts,
         NEW new \in ContextObject, NEW caller \in ContextObject,
         caller.sender = Active.sender,
         ActivateNew(new, caller)
  PROVE  /\ Outcome = "running" /\ Outcome' = "running"
         /\ Stack!IsTop(Frames, reg.methodContext) /\ Stack!Frame(Frames[reg.methodContext])
         /\ Stack!IsTop(Frames', allocated + 1) /\ Stack!Frame(Frames'[allocated + 1])
         /\ DOMAIN Frames = Chain /\ DOMAIN Frames' = Chain'
         /\ reg.methodContext < allocated + 1
         /\ \A c \in Chain : c <= reg.methodContext
         /\ \A c \in Chain : c < reg.methodContext /\ c \in Chain' => Frames'[c] = Frames[c]
         /\ reg.methodContext \in Chain' => Frames'[reg.methodContext] = SavedFrame(caller)
         /\ Frames[reg.methodContext] = [method |-> Active.method, pc |-> reg.pc, sp |-> reg.sp]
         /\ Frames'[allocated + 1].pc = new.pc - 1
<1>1. /\ reg'.methodContext = allocated + 1
      /\ contexts'[reg.methodContext] = caller /\ contexts'[allocated + 1] = new
      /\ \A c \in Chain : c # reg.methodContext => contexts'[c] = contexts[c]
  BY NewChain
<1>2. PICK mc, id : mc = reg.methodContext /\ id = allocated + 1
  OBVIOUS
<1>3. /\ mc < id /\ mc # id /\ \A c \in Chain : c <= mc /\ c # id /\ (c < mc => c # mc)
      /\ id \in Context
  BY <1>2, ChainShaped, TypeFacts DEF ChainShape, Live, IInv
<1>4. /\ Outcome = "running" /\ Stack!IsTop(Frames, mc) /\ DOMAIN Frames = Chain
      /\ \A c \in Chain : c # mc => Frames[c] = SavedFrame(contexts[c])
      /\ Frames[mc] = [method |-> Active.method, pc |-> reg.pc, sp |-> reg.sp]
  BY <1>2, StackShaped DEF StackShape, Live
<1>5. /\ Outcome' = "running" /\ Stack!IsTop(Frames', id) /\ DOMAIN Frames' = Chain'
      /\ \A c \in Chain' : c # id => Frames'[c] = SavedFrame(contexts'[c])
      /\ Frames'[id] = [method |-> Active'.method, pc |-> reg'.pc, sp |-> reg'.sp]
  BY <1>1, <1>2, ShapedNext DEF StackShape, Live
<1>6. Stack!Frame(Frames[mc])
  <2>1. reg.sp <= FrameSize[Active.method]
    BY RunningFacts
  <2> QED
    BY <1>2, <2>1, TopFrame
<1>7. Stack!Frame(Frames'[id])
  <2>1. (IInv /\ status \in {"running", "walking"} /\ reg.sp <= FrameSize[Active.method] =>
           Stack!Frame(Frames[reg.methodContext]))'
    BY TopFrame, PTL
  <2>2. reg'.sp <= FrameSize[Active'.method]
    BY DEF IInv, RegistersCurrent
  <2> QED
    BY <1>1, <1>2, <2>1, <2>2
<1>8. Frames'[id].pc = new.pc - 1
  <2>1. reg' = Fetched(id, new) /\ ~FetchFails(new)
    BY <1>2 DEF ActivateNew
  <2>2. reg'.pc = new.pc - 1
    BY <2>1 DEF Fetched
  <2> QED
    BY <1>5, <2>2
<1>9. ASSUME NEW c \in Chain, c < mc, c \in Chain' PROVE Frames'[c] = Frames[c]
  BY <1>1, <1>2, <1>3, <1>4, <1>5, <1>9
<1> QED
  BY <1>1, <1>2, <1>3, <1>4, <1>5, <1>6, <1>7, <1>8, <1>9

(* A send is a call; what takes the place of the context that ran is a step  *)
(* of the top frame.                                                         *)
LEMMA Activates ==
  ASSUME IInv, IInv', status = "running", allocated # MaxContexts,
         NEW new \in ContextObject, NEW caller \in ContextObject,
         caller.sender = Active.sender,
         \/ new.sender = Active.sender
         \/ /\ new.sender = reg.methodContext /\ new.pc = 1
            /\ caller.method = Active.method
            /\ caller.pc = reg.nextPC + 1
            /\ caller.stackp \in 0 .. reg.sp - 1,
         ActivateNew(new, caller)
  PROVE  Stack!Next
<1>1. CASE FetchFails(new)
  <2>1. status' = "error"
    BY <1>1 DEF ActivateNew
  <2>2. Outcome = "running" /\ Outcome' = "stopped" /\ DOMAIN Frames' = {}
    BY <2>1, StackShaped DEF StackShape, Live, Outcome, Ended, Frames
  <2> QED
    BY <2>2 DEF Stack!Next, Stack!Stop
<1>2. CASE ~FetchFails(new)
  <2>0. status' = "running"
    BY <1>2 DEF ActivateNew
  <2>1. PICK mc, id : mc = reg.methodContext /\ id = allocated + 1
    OBVIOUS
  <2>2. /\ Outcome = "running" /\ Outcome' = "running"
        /\ Stack!IsTop(Frames, mc) /\ Stack!Frame(Frames[mc])
        /\ Stack!IsTop(Frames', id) /\ Stack!Frame(Frames'[id])
        /\ DOMAIN Frames = Chain /\ DOMAIN Frames' = Chain'
        /\ mc < id
        /\ \A c \in Chain : c <= mc
        /\ \A c \in Chain : c < mc /\ c \in Chain' => Frames'[c] = Frames[c]
        /\ mc \in Chain' => Frames'[mc] = SavedFrame(caller)
        /\ Frames[mc] = [method |-> Active.method, pc |-> reg.pc, sp |-> reg.sp]
        /\ Frames'[id].pc = new.pc - 1
    BY <2>0, <2>1, NewFrames
  <2>3. mc \in Nat /\ id \in Nat /\ mc \in Chain /\ \A c \in Chain : c \in Nat
    BY <2>1, ChainShaped DEF ChainShape, Live
  <2>4. CASE new.sender = Active.sender
    <3>1. Chain' = (Chain \ {mc}) \cup {id}
      BY <2>0, <2>1, <2>4, NewChain
    <3>0. \A j : j \in Chain /\ j < mc <=> j \in Chain' /\ j < id
      <4>1. \A j \in Chain : j # id /\ (j < mc <=> j # mc) /\ j < id
        BY <2>2, <2>3
      <4>2. ~(id < id)
        BY <2>3
      <4> QED
        BY <3>1, <4>1, <4>2
    <3>2. {j \in DOMAIN Frames : j < mc} = {j \in DOMAIN Frames' : j < id}
      BY <2>2, <3>0
    <3>3. \A j \in {i \in DOMAIN Frames : i < mc} : Frames'[j] = Frames[j]
      BY <2>2, <3>0
    <3>4. Stack!Below(Frames', id) = Stack!Below(Frames, mc)
      BY <3>2, <3>3, SameBelow
    <3> QED
      BY <2>2, <3>4 DEF Stack!Next, Stack!Run, Stack!Step, Stack!IsTop, Stack!Execute
  <2>5. CASE /\ new.sender = mc /\ new.pc = 1
             /\ caller.method = Active.method
             /\ caller.pc = reg.nextPC + 1
             /\ caller.stackp \in 0 .. reg.sp - 1
    <3>1. Chain' = Chain \cup {id}
      BY <2>0, <2>1, <2>5, NewChain
    <3>2. {j \in DOMAIN Frames : j < mc} = {j \in DOMAIN Frames' : j < mc}
      BY <2>2, <2>3, <3>1
    <3>3. \A j \in {i \in DOMAIN Frames : i < mc} : Frames'[j] = Frames[j]
      BY <2>2, <2>3, <3>1
    <3>4. Stack!Below(Frames', mc) = Stack!Below(Frames, mc)
      BY <3>2, <3>3, SameBelow
    <3>5. Frames'[mc] = SavedFrame(caller)
      BY <2>2, <2>3, <3>1
    <3>6. reg.nextPC = reg.pc + 1 /\ reg.pc \in Nat
      BY DEF IInv, RegistersCurrent, TypeOK, Registers
    <3>7. /\ Frames'[mc].method = Frames[mc].method
          /\ Frames'[mc].pc = Frames[mc].pc + 1
          /\ Frames'[mc].sp \in 0 .. Frames[mc].sp - 1
      BY <2>2, <2>5, <3>5, <3>6 DEF SavedFrame
    <3>8. Frames'[id].pc = 0
      BY <2>2, <2>5
    <3>9. Stack!Call(Frames, Frames', mc, id)
      BY <2>2, <3>1, <3>4, <3>7, <3>8 DEF Stack!Call
    <3> QED
      BY <2>2, <3>9 DEF Stack!Next, Stack!Run, Stack!Step, Stack!IsTop
  <2> QED
    BY <2>1, <2>4, <2>5
<1> QED
  BY <1>1, <1>2

(* A return cuts the chain at the context it continues in. *)
LEMMA CutChain ==
  ASSUME IInv, IInv', status \in {"running", "walking"}, status' = "running",
         NEW target \in Chain, target # reg.methodContext,
         NEW current \in ContextObject,
         ReturnInto(target, current), reg'.methodContext = target
  PROVE  /\ Chain' = {c \in Chain : c <= target}
         /\ \A c \in Chain : c <= target => contexts'[c] = contexts[c]
<1>1. PICK mc, n : mc = reg.methodContext /\ n = allocated
  OBVIOUS
<1>2. /\ n \in Nat /\ mc \in 1 .. n /\ mc \in Nat
      /\ Older(contexts, n)
      /\ Chain = ChainIn(contexts, mc)
      /\ target \in 1 .. n /\ target < mc
      /\ \A c \in Chain : c \in Context /\ c \in Nat
  BY <1>1, ChainShaped DEF ChainShape, Live, Chain
<1>3. contexts' = [contexts EXCEPT ![mc] = [current EXCEPT !.sender = Nil]] /\ allocated' = n
  BY <1>1 DEF ReturnInto
<1>4. \A c \in Context : c # mc => contexts'[c] = contexts[c]
  BY <1>3 DEF IInv, TypeOK
<1>5. \A c \in Chain : c <= target => contexts'[c] = contexts[c]
  <2>1. \A c \in Chain : c <= target => c # mc
    BY <1>2
  <2> QED
    BY <1>2, <1>4, <2>1
<1>6. ChainIn(contexts, target) = {c \in Chain : c <= target}
  BY <1>2, ChainCut
<1>7. Older(contexts', n)
  BY <1>3, ShapedNext DEF ChainShape, Live
<1>8. \A c \in ChainIn(contexts, target) : contexts'[c].sender = contexts[c].sender
  BY <1>5, <1>6
<1>9. ChainIn(contexts', target) = ChainIn(contexts, target)
  BY <1>2, <1>7, <1>8, ChainAgrees
<1>10. Chain' = ChainIn(contexts', target)
  BY DEF Chain
<1> QED
  BY <1>5, <1>6, <1>9, <1>10

(* A return pops the frames above the one it continues in. *)
LEMMA Returns ==
  ASSUME IInv, IInv', status \in {"running", "walking"}, reg.sp <= FrameSize[Active.method],
         NEW target \in Context \cup {Nil},
         target # Nil => target \in Chain /\ target # reg.methodContext,
         NEW current \in ContextObject,
         ReturnInto(target, current)
  PROVE  Stack!Next
<1>1. Outcome = "running"
  BY StackShaped DEF StackShape, Live
<1>2. CASE target = Nil
  <2>1. status' = "returned"
    BY <1>2 DEF ReturnInto, ContinueIn
  <2>2. Outcome' = "finished" /\ DOMAIN Frames' = {}
    BY <2>1 DEF Outcome, Frames
  <2> QED
    BY <1>1, <2>2 DEF Stack!Next, Stack!Finish
<1>3. CASE target # Nil
  <2>1. PICK mc, c : mc = reg.methodContext /\ c = contexts[target]
    OBVIOUS
  <2>2. /\ target \in Chain /\ target # mc /\ target \in Context /\ target \in Nat /\ target < mc
        /\ Resumable(target) /\ c \in ContextObject /\ mc \in Nat
        /\ \A d \in Chain : d \in Nat
    <3>1. /\ target < mc /\ Resumable(target) /\ \A d \in Chain : d \in 1 .. allocated
          /\ mc \in 1 .. allocated
      BY <1>3, <2>1, ChainShaped DEF ChainShape, Live
    <3>2. target \in Context
      BY <1>3
    <3> QED
      BY <1>3, <2>1, <3>1, <3>2 DEF IInv, TypeOK, Context
  <2>3. /\ ~FetchFails(c) /\ c.stackp \in Nat /\ FrameSize[c.method] \in Nat
        /\ c.stackp < FrameSize[c.method] /\ c.pc \in Nat
    BY <1>3, <2>1, <2>2, MethodsAssumption DEF Resumable, ContextObject
  <2>4. PICK r : r = [methodContext |-> target, pc |-> c.pc - 1, nextPC |-> c.pc,
                      sp |-> c.stackp, limit |-> FrameSize[c.method]]
    OBVIOUS
  <2>5. Fetched(target, c) = r
    BY <2>3, <2>4 DEF Fetched
  <2>6. r.sp = c.stackp /\ r.limit = FrameSize[c.method] /\ ~(r.sp >= r.limit)
    BY <2>3, <2>4
  <2>7. reg' = [r EXCEPT !.sp = r.sp + 1] /\ status' = "running"
    BY <1>3, <2>1, <2>5, <2>6 DEF ReturnInto, ContinueIn
  <2>8. reg'.methodContext = target /\ reg'.pc = c.pc - 1 /\ reg'.sp = c.stackp + 1
    BY <2>4, <2>7
  <2>9. /\ Chain' = {d \in Chain : d <= target}
        /\ \A d \in Chain : d <= target => contexts'[d] = contexts[d]
    BY <2>1, <2>2, <2>7, <2>8, CutChain
  <2>10. /\ Stack!IsTop(Frames, mc) /\ DOMAIN Frames = Chain
         /\ \A d \in Chain : d # mc =>
              Frames[d] = SavedFrame(contexts[d]) /\ Stack!Waiting(Frames[d])
    BY <2>1, StackShaped DEF StackShape, Live
  <2>11. /\ Outcome' = "running" /\ DOMAIN Frames' = Chain'
         /\ Frames' = [d \in DOMAIN Frames' |-> Frames'[d]]
         /\ \A d \in Chain' : d # target => Frames'[d] = SavedFrame(contexts'[d])
         /\ Frames'[target] = [method |-> Active'.method, pc |-> reg'.pc, sp |-> reg'.sp]
    BY <2>7, <2>8, ShapedNext DEF StackShape, Live
  <2>12. Frames'[target] = [method |-> c.method, pc |-> c.pc - 1, sp |-> c.stackp + 1]
    BY <2>1, <2>2, <2>8, <2>9, <2>11 DEF Active
  <2>13. Frames[target] = [method |-> c.method, pc |-> c.pc - 1, sp |-> c.stackp]
    BY <2>1, <2>2, <2>10 DEF SavedFrame
  <2>14. Frames'[target] = [Frames[target] EXCEPT !.sp = @ + 1]
    BY <2>12, <2>13
  <2>15. PICK low : low = Stack!Below(Frames, target + 1)
    OBVIOUS
  <2>16. /\ DOMAIN low = Chain' /\ low = [d \in Chain' |-> Frames[d]]
    <3>0. \A d \in Chain : d < target + 1 <=> d <= target
      BY <2>2
    <3>1. {j \in Chain : j < target + 1} = Chain'
      BY <2>9, <3>0
    <3> QED
      BY <2>10, <2>15, <3>1 DEF Stack!Below
  <2>17. \A d \in Chain' : d # target => Frames'[d] = low[d]
    <3>1. \A d \in Chain' : d \in Chain /\ d <= target /\ d # mc
      BY <2>2, <2>9
    <3> QED
      BY <2>9, <2>10, <2>11, <2>16, <3>1
  <2>18. target \in Chain' /\ low[target] = Frames[target]
    BY <2>2, <2>9, <2>16
  <2>19. Frames' = [low EXCEPT ![target].sp = @ + 1]
    <3>1. PICK D, gs, f : D = Chain' /\ gs = Frames' /\ f = [low[target] EXCEPT !.sp = @ + 1]
      OBVIOUS
    <3>2. gs = [d \in D |-> gs[d]] /\ low = [d \in D |-> low[d]] /\ target \in D
      BY <2>11, <2>16, <2>18, <3>1
    <3>3. gs[target] = f /\ \A d \in D : d # target => gs[d] = low[d]
      BY <2>14, <2>17, <2>18, <3>1
    <3>4. gs = [low EXCEPT ![target] = f]
      BY <3>2, <3>3
    <3> QED
      BY <3>1, <3>4
  <2>20. Stack!Return(Frames, Frames', mc)
    BY <2>2, <2>10, <2>15, <2>19 DEF Stack!Return
  <2>21. Stack!Frame(Frames[mc])
    BY <2>1, TopFrame
  <2> QED
    BY <1>1, <2>10, <2>11, <2>20, <2>21 DEF Stack!Next, Stack!Run, Stack!Step, Stack!IsTop
<1> QED
  BY <1>2, <1>3

(* The end of the run loop stops the stack. *)
LEMMA Stops ==
  ASSUME IInv, Live, NEW reason \in Ended \ {"returned"}, status' = reason
  PROVE  Stack!Next
<1>1. Outcome = "running"
  BY StackShaped DEF StackShape
<1>2. Outcome' = "stopped" /\ DOMAIN Frames' = {}
  BY DEF Outcome, Frames, Ended
<1> QED
  BY <1>1, <1>2 DEF Stack!Next, Stack!Stop

(* Fetching the first context changes no frame. *)
LEMMA Enters == IInv /\ IInv' /\ Enter => Stack!Next \/ UNCHANGED Stack!avars
<1> SUFFICES ASSUME IInv, IInv', Enter PROVE Stack!Next \/ UNCHANGED Stack!avars
  OBVIOUS
<1>1. /\ status = "entering" /\ contexts' = contexts
      /\ reg' = Fetched(reg.methodContext, Active)
      /\ status' = IF FetchFails(Active) THEN "error" ELSE "running"
  BY DEF Enter, heapVars
<1>2. CASE FetchFails(Active)
  BY <1>1, <1>2, Stops DEF Live, Ended
<1>3. CASE ~FetchFails(Active)
  <2>1. PICK mc, c : mc = reg.methodContext /\ c = Active
    OBVIOUS
  <2>2. /\ reg'.methodContext = mc /\ reg'.pc = c.pc - 1 /\ reg'.sp = c.stackp
        /\ status' = "running" /\ Active' = c
    BY <1>1, <1>3, <2>1 DEF Fetched, Active
  <2>3. Chain' = Chain
    BY <1>1, <2>1, <2>2 DEF Chain
  <2>4. /\ Outcome = "running" /\ DOMAIN Frames = Chain /\ Frames = [d \in DOMAIN Frames |-> Frames[d]]
        /\ \A d \in Chain : d # mc => Frames[d] = SavedFrame(contexts[d])
        /\ Frames[mc] = SavedFrame(c)
    BY <1>1, <2>1, StackShaped DEF StackShape, Live
  <2>5. /\ Outcome' = "running" /\ DOMAIN Frames' = Chain'
        /\ Frames' = [d \in DOMAIN Frames' |-> Frames'[d]]
        /\ \A d \in Chain' : d # mc => Frames'[d] = SavedFrame(contexts'[d])
        /\ Frames'[mc] = [method |-> Active'.method, pc |-> reg'.pc, sp |-> reg'.sp]
    BY <2>2, ShapedNext DEF StackShape, Live
  <2>6. Frames'[mc] = Frames[mc]
    BY <2>2, <2>4, <2>5 DEF SavedFrame
  <2>7. \A d \in Chain : Frames'[d] = Frames[d]
    BY <1>1, <2>3, <2>4, <2>5, <2>6
  <2>8. Frames' = Frames
    BY <2>3, <2>4, <2>5, <2>7
  <2> QED
    BY <2>4, <2>5, <2>8 DEF Stack!avars
<1> QED
  BY <1>2, <1>3

(* The invariant the refinement needs. *)
RInv == IInv /\ SearchOnChain

(* A step of the stack, with no search begun. *)
Implemented == SearchOnChain' /\ (Stack!Next \/ UNCHANGED Stack!avars)

(* The end of the run loop. *)
LEMMA StopImplemented ==
  ASSUME RInv, Live, NEW reason \in Ended \ {"returned"}, StopWith(reason)
  PROVE  Implemented
<1>1. status' = reason /\ status' # "walking"
  BY DEF StopWith, Ended
<1> QED
  BY <1>1, Stops DEF Implemented, SearchOnChain, RInv

(* A bytecode that only moves the registers. *)
LEMMA ProceedImplemented ==
  ASSUME RInv, IInv', status = "running", NEW p, NEW sp, Proceed(p, sp),
         contexts' = contexts, status' = status
  PROVE  Implemented
<1>1. reg'.methodContext = reg.methodContext
  BY DEF Proceed, RInv, IInv, TypeOK, Registers
<1>2. reg.sp <= FrameSize[Active.method]
  BY RunningFacts DEF RInv
<1>3. reg'.sp <= FrameSize[Active.method]
  <2>1. Active' = Active
    BY <1>1 DEF Active
  <2> QED
    BY <2>1 DEF IInv, RegistersCurrent
<1> QED
  BY <1>1, <1>2, <1>3, ExecutesInPlace DEF Implemented, SearchOnChain, RInv

(* A bytecode that only uses the stack. *)
LEMMA StackBytecodeImplemented ==
  ASSUME RInv, IInv', NEW e \in StackEffects, StackBytecode(e[1], e[2], e[3])
  PROVE  Implemented
<1>1. status = "running" /\ Live
  BY DEF StackBytecode, DispatchWithin, Dispatch, Live
<1>2. CASE StopWith("error")
  BY <1>1, <1>2, StopImplemented DEF Ended
<1>3. CASE ~StopWith("error")
  BY <1>1, <1>3, ProceedImplemented DEF StackBytecode, heapVars
<1> QED
  BY <1>2, <1>3

(* A jump. *)
LEMMA JumpImplemented ==
  ASSUME RInv, IInv', NEW to, Jump(to) \/ JumpIfBoolean(to)
  PROVE  Implemented
<1>1. status = "running" /\ Live
  BY DEF Jump, JumpIfBoolean, DispatchWithin, Dispatch, Live
<1>2. CASE \E reason \in {"error", "aborted"} : StopWith(reason)
  BY <1>1, <1>2, StopImplemented DEF Ended
<1>3. CASE ~\E reason \in {"error", "aborted"} : StopWith(reason)
  BY <1>1, <1>3, ProceedImplemented DEF Jump, JumpIfBoolean, heapVars
<1> QED
  BY <1>2, <1>3

(* The creation of a block. *)
LEMMA PushClosureImplemented ==
  ASSUME RInv, IInv', NEW args, NEW copied, NEW to, PushClosure(args, copied, to)
  PROVE  Implemented
<1>1. status = "running" /\ Live
  BY DEF PushClosure, DispatchWithin, Dispatch, Live
<1>2. CASE \E reason \in {"error", "aborted"} : StopWith(reason)
  BY <1>1, <1>2, StopImplemented DEF Ended
<1>3. CASE ~\E reason \in {"error", "aborted"} : StopWith(reason)
  BY <1>1, <1>3, ProceedImplemented DEF PushClosure
<1> QED
  BY <1>2, <1>3

(* Entering the run loop, leaving it, and a primitive that fails. *)
LEMMA OtherStepsImplemented ==
  ASSUME RInv, IInv', Enter \/ FailingBytecode \/ UndefinedBytecode \/ PrimitiveFails \/ WalkFails
  PROVE  Implemented
<1>1. CASE Enter
  BY <1>1, Enters DEF Implemented, SearchOnChain, Enter, RInv
<1>2. CASE FailingBytecode \/ UndefinedBytecode \/ WalkFails
  BY <1>2, StopImplemented DEF FailingBytecode, UndefinedBytecode, WalkFails, Dispatch, Ended, Live
<1>3. CASE PrimitiveFails
  BY <1>3, ProceedImplemented DEF PrimitiveFails, heapVars
<1> QED
  BY <1>1, <1>2, <1>3

(* What creates a context. *)
LEMMA ActivateImplemented ==
  ASSUME RInv, IInv', status = "running", allocated # MaxContexts,
         NEW new \in ContextObject, NEW caller \in ContextObject,
         caller.sender = Active.sender,
         \/ new.sender = Active.sender
         \/ /\ new.sender = reg.methodContext /\ new.pc = 1
            /\ caller.method = Active.method
            /\ caller.pc = reg.nextPC + 1
            /\ caller.stackp \in 0 .. reg.sp - 1,
         ActivateNew(new, caller)
  PROVE  Implemented
<1>1. Stack!Next
  BY Activates DEF RInv
<1>2. status' # "walking"
  BY DEF ActivateNew
<1> QED
  BY <1>1, <1>2 DEF Implemented, SearchOnChain

(* A send calls. *)
LEMMA SendImplemented ==
  ASSUME RInv, IInv', NEW m \in Methods, NEW n \in {NumArgs[x] : x \in Methods}, Send(n, m)
  PROVE  Implemented
<1> USE TypeFacts DEF RInv, IInv
<1>1. status = "running" /\ Live /\ n \in Nat /\ NumTemps[m] \in Nat
  BY MethodsAssumption DEF Send, DispatchWithin, Dispatch, Live
<1>2. CASE \E reason \in {"error", "aborted"} : StopWith(reason)
  BY <1>1, <1>2, StopImplemented DEF Ended
<1>3. CASE ~(reg.sp < n + 1 \/ NumArgs[m] # n) /\ allocated # MaxContexts
  <2> DEFINE new == [sender |-> reg.methodContext, pc |-> 1, stackp |-> NumTemps[m],
                     method |-> m, closure |-> Nil]
             caller == Stored(Active, Here, reg.sp - (n + 1))
  <2>1. ActivateNew(new, caller)
    BY <1>3 DEF Send
  <2>2. /\ reg.sp - (n + 1) \in Nat /\ reg.sp - (n + 1) \in 0 .. reg.sp - 1
        /\ Here \in Nat /\ Active \in ContextObject
    BY <1>1, <1>3, RunningFacts
  <2>3. /\ caller \in ContextObject /\ caller.sender = Active.sender
        /\ caller.method = Active.method /\ caller.stackp \in 0 .. reg.sp - 1
    BY <2>2, StoredContext
  <2>4. caller.pc = reg.nextPC + 1
    BY <2>2 DEF Stored, Here, ContextObject
  <2>5. new \in ContextObject /\ new.sender = reg.methodContext /\ new.pc = 1
    BY <1>1 DEF ContextObject, Nil
  <2> HIDE DEF new, caller
  <2> QED
    BY <1>1, <1>3, <2>1, <2>3, <2>4, <2>5, ActivateImplemented
<1> QED
  BY <1>2, <1>3 DEF Send

(* A block's activation takes the place of the primitive's. *)
LEMMA BlockValueImplemented ==
  ASSUME RInv, IInv', NEW b \in 1 .. created, BlockValue(b)
  PROVE  Implemented
<1> USE TypeFacts DEF RInv, IInv
<1>1. status = "running" /\ Live
  BY DEF BlockValue, Live
<1>2. CASE StopWith("aborted")
  BY <1>1, <1>2, StopImplemented DEF Ended
<1>3. CASE allocated # MaxContexts
  <2> DEFINE new == [sender |-> Active.sender, pc |-> closures[b].startpc,
                     stackp |-> closures[b].numArgs + closures[b].captured,
                     method |-> contexts[closures[b].outer].method, closure |-> b]
  <2>1. ActivateNew(new, Active)
    BY <1>3 DEF BlockValue
  <2>2. /\ closures[b].startpc \in Nat
        /\ closures[b].numArgs + closures[b].captured \in Nat
        /\ contexts[closures[b].outer] \in ContextObject
    <3>1. closures[b] \in ClosureObject
      BY DEF TypeOK
    <3>2. /\ closures[b].startpc \in Nat /\ closures[b].outer \in Context
          /\ closures[b].numArgs \in Nat /\ closures[b].captured \in Nat
      BY <3>1 DEF ClosureObject
    <3> QED
      BY <3>2 DEF TypeOK
  <2>3. Active \in ContextObject
    BY <1>1, RunningFacts
  <2>4. new \in ContextObject /\ new.sender = Active.sender
    BY <2>2, <2>3 DEF ContextObject
  <2> HIDE DEF new
  <2> QED
    BY <1>1, <1>3, <2>1, <2>3, <2>4, ActivateImplemented
<1> QED
  BY <1>2, <1>3 DEF BlockValue

(* So does a performed method's. *)
LEMMA PerformImplemented ==
  ASSUME RInv, IInv', NEW m \in Methods, PerformInSuperclass(m)
  PROVE  Implemented
<1> USE TypeFacts DEF RInv, IInv
<1>1. status = "running" /\ NumTemps[m] \in Nat /\ Live
  BY MethodsAssumption DEF PerformInSuperclass, Live
<1>2. CASE StopWith("aborted")
  BY <1>1, <1>2, StopImplemented DEF Ended
<1>3. CASE allocated # MaxContexts
  <2> DEFINE new == [sender |-> Active.sender, pc |-> 1, stackp |-> NumTemps[m],
                     method |-> m, closure |-> Nil]
  <2>1. ActivateNew(new, Active)
    BY <1>3 DEF PerformInSuperclass
  <2>2. Active \in ContextObject
    BY <1>1, RunningFacts
  <2>3. new \in ContextObject /\ new.sender = Active.sender
    BY <1>1, <2>2 DEF ContextObject, Nil
  <2> HIDE DEF new
  <2> QED
    BY <1>1, <1>3, <2>1, <2>2, <2>3, ActivateImplemented
<1> QED
  BY <1>2, <1>3 DEF PerformInSuperclass

(* A return, to a context of the chain or to nil. *)
LEMMA ReturnImplemented ==
  ASSUME RInv, IInv', status \in {"running", "walking"}, reg.sp <= FrameSize[Active.method],
         NEW target \in Context \cup {Nil},
         target # Nil => target \in Chain /\ target # reg.methodContext,
         NEW current \in ContextObject,
         ReturnInto(target, current)
  PROVE  Implemented
<1>1. Stack!Next
  BY Returns DEF RInv
<1>2. status' # "walking"
  BY DEF ReturnInto, ContinueIn
<1> QED
  BY <1>1, <1>2 DEF Implemented, SearchOnChain

(* The sender of the active context is on the chain. *)
LEMMA SenderOnChain ==
  ASSUME IInv, Live
  PROVE  /\ Active.sender \in Context \cup {Nil}
         /\ Active.sender # Nil => Active.sender \in Chain /\ Active.sender # reg.methodContext
<1>1. /\ reg.methodContext \in Chain /\ Closed(contexts, Chain)
      /\ reg.methodContext \in 1 .. allocated /\ Older(contexts, allocated)
  BY ChainShaped DEF ChainShape
<1>2. Active \in ContextObject
  BY DEF IInv, TypeOK, Active, Registers
<1>3. Active.sender # Nil => Active.sender \in Chain
  BY <1>1 DEF Closed, Active
<1>4. Active.sender # reg.methodContext
  BY <1>1 DEF Older, Active
<1> QED
  BY <1>2, <1>3, <1>4 DEF ContextObject

(* A return to the sender. *)
LEMMA LocalReturnImplemented ==
  ASSUME RInv, IInv', status = "running", NEW sp \in Nat,
         ReturnInto(Active.sender, Stored(Active, Here, sp))
  PROVE  Implemented
<1> USE DEF RInv
<1>1. reg.sp <= FrameSize[Active.method] /\ Here \in Nat
  BY RunningFacts
<1>2. PICK current \in ContextObject : current = Stored(Active, Here, sp)
  BY <1>1, StoredContext DEF IInv
<1>3. PICK target : target = Active.sender
  OBVIOUS
<1>4. /\ target \in Context \cup {Nil}
      /\ target # Nil => target \in Chain /\ target # reg.methodContext
  BY <1>3, SenderOnChain DEF Live
<1>5. ReturnInto(target, current)
  BY <1>2, <1>3
<1> QED
  BY <1>1, <1>4, <1>5, ReturnImplemented

(* The returns that do not search. *)
LEMMA ReturnsImplemented ==
  ASSUME RInv, IInv',
         \/ PrimitiveReturns
         \/ \E pops \in {0, 1} : BlockReturn(pops) \/ (Active.closure = Nil /\ MethodReturn(pops))
  PROVE  Implemented
<1>1. status = "running"
  BY DEF PrimitiveReturns, BlockReturn, MethodReturn, Dispatch
<1>2. reg.sp \in Nat
  BY <1>1, RunningFacts DEF RInv
<1>3. CASE StopWith("error")
  BY <1>1, <1>3, StopImplemented DEF Ended, Live
<1>4. CASE PrimitiveReturns
  BY <1>1, <1>2, <1>4, LocalReturnImplemented DEF PrimitiveReturns
<1>5. CASE ~StopWith("error") /\ ~PrimitiveReturns
  <2>1. PICK pops \in {0, 1} : BlockReturn(pops) \/ (Active.closure = Nil /\ MethodReturn(pops))
    BY <1>5
  <2>2. ~(reg.sp < pops) /\ LocalReturn(pops)
    BY <1>5, <2>1 DEF BlockReturn, MethodReturn
  <2>3. reg.sp - pops \in Nat
    BY <1>2, <2>2
  <2> QED
    BY <1>1, <2>2, <2>3, LocalReturnImplemented DEF LocalReturn
<1> QED
  BY <1>3, <1>4, <1>5

(* The search of a non-local return begins at the sender. *)
LEMMA SearchBeginImplemented ==
  ASSUME RInv, IInv', NEW pops \in {0, 1}, MethodReturn(pops), Active.closure # Nil
  PROVE  Implemented
<1>1. status = "running" /\ Live
  BY DEF MethodReturn, Dispatch, Live
<1>2. CASE StopWith("error")
  BY <1>1, <1>2, StopImplemented DEF Ended
<1>3. CASE ~StopWith("error")
  <2>1. /\ reg.sp \in Nat /\ ~(reg.sp < pops) /\ pops \in Nat
        /\ reg.sp <= FrameSize[Active.method] /\ FrameSize[Active.method] \in Nat
    <3>1. Active.method \in Methods
      BY <1>1, RunningFacts DEF RInv, ContextObject
    <3> QED
      BY <1>1, <1>3, <3>1, RunningFacts, MethodsAssumption DEF MethodReturn, RInv
  <2>2. /\ walk'.cursor = Active.sender /\ status' = "walking" /\ contexts' = contexts
        /\ reg' = [reg EXCEPT !.sp = reg.sp - pops]
    BY <1>3 DEF MethodReturn, heapVars
  <2>3. reg'.methodContext = reg.methodContext /\ reg'.sp = reg.sp - pops
    BY <2>2 DEF RInv, IInv, TypeOK, Registers
  <2>4. reg'.sp <= FrameSize[Active.method]
    BY <2>1, <2>3
  <2>5. Chain' = Chain /\ Active' = Active
    BY <2>2, <2>3 DEF Chain, Active
  <2>6. Stack!Next
    BY <1>1, <2>1, <2>2, <2>3, <2>4, ExecutesInPlace DEF RInv
  <2>7. SearchOnChain'
    BY <1>1, <2>2, <2>3, <2>4, <2>5, SenderOnChain DEF SearchOnChain, RInv
  <2> QED
    BY <2>6, <2>7 DEF Implemented
<1> QED
  BY <1>2, <1>3

(* It goes on along the chain. *)
LEMMA WalkStepImplemented ==
  ASSUME RInv, IInv', WalkStep
  PROVE  Implemented
<1>1. PICK cursor : cursor = walk.cursor
  OBVIOUS
<1>2. /\ status = "walking" /\ cursor # Nil /\ cursor \in Chain /\ cursor # reg.methodContext
      /\ reg.sp <= FrameSize[Active.method] /\ Live
  BY <1>1 DEF WalkStep, RInv, SearchOnChain, Live
<1>3. /\ walk' = [walk EXCEPT !.cursor = contexts[cursor].sender]
      /\ UNCHANGED <<allocated, contexts, created, closures, reg, status>>
  BY <1>1 DEF WalkStep, IsUnwindContext, ParsePrimitiveNumber, heapVars
<1>4. walk'.cursor = contexts[cursor].sender
  BY <1>3 DEF RInv, IInv, TypeOK
<1>5. Chain' = Chain /\ Active' = Active
  BY <1>3 DEF Chain, Active
<1>6. Stack!Next
  BY <1>2, <1>3, ExecutesInPlace DEF RInv
<1>7. SearchOnChain'
  <2>1. /\ Closed(contexts, Chain) /\ Older(contexts, allocated)
        /\ cursor \in 1 .. allocated /\ cursor < reg.methodContext
        /\ reg.methodContext \in Nat
    BY <1>2, ChainShaped DEF ChainShape, RInv
  <2>2. contexts[cursor].sender # Nil => contexts[cursor].sender \in Chain
    BY <1>2, <2>1 DEF Closed
  <2>3. contexts[cursor].sender # reg.methodContext
    BY <2>1 DEF Older
  <2> QED
    BY <1>2, <1>3, <1>4, <1>5, <2>2, <2>3 DEF SearchOnChain
<1> QED
  BY <1>6, <1>7 DEF Implemented

(* It ends at a context of the chain, or at nil. *)
LEMMA WalkArrivesImplemented ==
  ASSUME RInv, IInv', WalkArrives
  PROVE  Implemented
<1>1. PICK target : target = walk.target
  OBVIOUS
<1>2. /\ status = "walking" /\ walk.cursor = target /\ ReturnInto(target, Active)
      /\ target \in Context \cup {Nil}
      /\ target # Nil => target \in Chain /\ target # reg.methodContext
      /\ reg.sp <= FrameSize[Active.method]
  BY <1>1 DEF WalkArrives, RInv, IInv, TypeOK, SearchOnChain
<1>3. Active \in ContextObject
  BY DEF RInv, IInv, TypeOK, Active, Registers
<1> QED
  BY <1>2, <1>3, ReturnImplemented

(* The stack depends on nothing but the variables. *)
LEMMA StutterImplemented ==
  ASSUME RInv, UNCHANGED vars
  PROVE  Implemented
<1>1. Chain' = Chain /\ Outcome' = Outcome /\ Active' = Active
  BY DEF vars, Chain, Outcome, Active
<1>2. Frames' = Frames
  BY <1>1 DEF vars, Frames, FrameOf
<1>3. SearchOnChain'
  BY <1>1 DEF vars, SearchOnChain, RInv
<1> QED
  BY <1>1, <1>2, <1>3 DEF Implemented, Stack!avars

(* Every step of the interpreter is a step of the stack, or none of it. *)
LEMMA NextImplemented ==
  RInv /\ [Next]_vars => RInv' /\ [Stack!Next]_(Stack!avars)
<1> SUFFICES ASSUME RInv, [Next]_vars PROVE IInv' /\ Implemented
  BY DEF RInv, Implemented
<1>0. IInv'
  BY NextInv DEF RInv
<1>1. CASE Enter \/ FailingBytecode \/ UndefinedBytecode \/ PrimitiveFails \/ WalkFails
  BY <1>0, <1>1, OtherStepsImplemented
<1>2. CASE \E e \in StackEffects : StackBytecode(e[1], e[2], e[3])
  BY <1>0, <1>2, StackBytecodeImplemented
<1>3. CASE \E to \in 0 .. CodeSize - 1 : Jump(to) \/ JumpIfBoolean(to)
  BY <1>0, <1>3, JumpImplemented
<1>4. CASE \E m \in Methods : \E n \in {NumArgs[x] : x \in Methods} : Send(n, m)
  BY <1>0, <1>4, SendImplemented
<1>5. CASE \E args \in BlockArgs, copied \in CopiedCounts :
             \E to \in 0 .. CodeSize - 1 : PushClosure(args, copied, to)
  BY <1>0, <1>5, PushClosureImplemented
<1>6. CASE \E b \in 1 .. created : BlockValue(b)
  BY <1>0, <1>6, BlockValueImplemented
<1>7. CASE \E m \in Methods : PerformInSuperclass(m)
  BY <1>0, <1>7, PerformImplemented
<1>8. CASE PrimitiveReturns \/ \E pops \in {0, 1} : BlockReturn(pops)
  BY <1>0, <1>8, ReturnsImplemented
<1>9. CASE \E pops \in {0, 1} : MethodReturn(pops)
  BY <1>0, <1>9, ReturnsImplemented, SearchBeginImplemented
<1>10. CASE WalkStep
  BY <1>0, <1>10, WalkStepImplemented
<1>11. CASE WalkArrives
  BY <1>0, <1>11, WalkArrivesImplemented
<1>12. CASE UNCHANGED vars
  BY <1>0, <1>12, StutterImplemented
<1> QED
  BY <1>1, <1>2, <1>3, <1>4, <1>5, <1>6, <1>7, <1>8, <1>9, <1>10, <1>11, <1>12 DEF Next

(* The context the interpreter starts in has a pc. *)
LEMMA InitialPC == Init => contexts[allocated].pc > 0 /\ contexts[allocated].pc \in Nat
<1> SUFFICES ASSUME Init PROVE contexts[allocated].pc > 0 /\ contexts[allocated].pc \in Nat
  OBVIOUS
<1>0. allocated \in Context
  BY InitialHeap DEF Context
<1>1. CASE EntryMessage
  BY <1>0, <1>1 DEF EntryMessage
<1>2. CASE EntryBlock
  <2>1. PICK k \in 1 .. MaxInitial, start \in 1 .. CodeSize, copied \in CopiedCounts :
          \E frames \in [1 .. k -> SuspendedFrame] :
            /\ allocated = k + 1
            /\ contexts = [ChainOf(frames, k) EXCEPT ![k + 1] =
                             [sender |-> Nil, pc |-> start, stackp |-> copied,
                              method |-> frames[k].method, closure |-> 1]]
    BY <1>2 DEF EntryBlock
  <2>2. PICK frames \in [1 .. k -> SuspendedFrame] :
            /\ allocated = k + 1
            /\ contexts = [ChainOf(frames, k) EXCEPT ![k + 1] =
                             [sender |-> Nil, pc |-> start, stackp |-> copied,
                              method |-> frames[k].method, closure |-> 1]]
    BY <2>1
  <2>3. DOMAIN ChainOf(frames, k) = Context
    BY DEF ChainOf
  <2>4. contexts[allocated].pc = start
    BY <1>0, <2>2, <2>3
  <2> QED
    BY <2>4, CodeAssumption
<1>3. CASE InitialChain
  <2>1. PICK frames \in [1 .. allocated -> SuspendedFrame] : contexts = ChainOf(frames, allocated)
    BY <1>3 DEF InitialChain
  <2>2. allocated \in 1 .. allocated /\ ~(allocated > allocated)
    BY <1>0, BoundsAssumption DEF Context
  <2>3. contexts[allocated].pc = frames[allocated].pc
    BY <1>0, <2>1, <2>2 DEF ChainOf
  <2>4. frames[allocated] \in SuspendedFrame
    BY <2>1, <2>2
  <2>5. frames[allocated].pc \in 1 .. CodeSize
    BY <2>4 DEF SuspendedFrame
  <2> QED
    BY <2>3, <2>5, CodeAssumption
<1> QED
  BY <1>1, <1>2, <1>3 DEF Init

(* The interpreter begins as the stack does. *)
LEMMA InitImplemented == Init => RInv /\ Stack!Begin
<1> SUFFICES ASSUME Init PROVE RInv /\ Stack!Begin
  OBVIOUS
<1>1. IInv /\ status = "entering" /\ Live /\ reg.methodContext = allocated
  BY InitInv DEF Init, Live
<1>2. RInv
  BY <1>1 DEF RInv, SearchOnChain
<1>3. StackShape /\ reg.methodContext \in Chain
  BY <1>1, StackShaped, ChainShaped DEF ChainShape
<1>4. /\ Active \in ContextObject /\ Active.pc > 0 /\ Active.pc \in Nat
  BY <1>1, InitialPC DEF IInv, TypeOK, Active, Registers
<1>5. /\ Frames[reg.methodContext].method \in Methods /\ Frames[reg.methodContext].pc \in Nat
  BY <1>1, <1>3, <1>4 DEF StackShape, SavedFrame, ContextObject
<1>6. Stack!Begin
  BY <1>1, <1>3, <1>5 DEF StackShape, Stack!Begin, Stack!IsTop
<1> QED
  BY <1>2, <1>6

(* A search stays on the chain of the context that returns. *)
THEOREM SearchesOnChain == Spec => []SearchOnChain
<1>1. RInv => SearchOnChain
  BY DEF RInv
<1> QED
  BY <1>1, InitImplemented, NextImplemented, PTL DEF Spec

(* The interpreter implements the stack of activations. *)
THEOREM ActivationsAreAStack == Spec => ImplementsActivationStack
<1>1. RInv /\ [Next]_vars => [Stack!Next]_(Stack!avars)
  BY NextImplemented
<1>2. RInv /\ [Next]_vars => RInv'
  BY NextImplemented
<1>3. Init => RInv /\ Stack!Begin
  BY InitImplemented
<1> QED
  BY <1>1, <1>2, <1>3, PTL DEF Spec, ImplementsActivationStack, Stack!Spec

=============================================================================
