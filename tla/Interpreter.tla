---------------------------- MODULE Interpreter ----------------------------
(***************************************************************************)
(* The activation machinery of the bytecode interpreter                    *)
(* (src/vm/interpreter.c with the context constructors of                  *)
(* src/vm/special-objects.c and src/vm/block-primitives.c).                *)
(*                                                                         *)
(* An activation is a MethodContext object in the heap; its sender field   *)
(* links it to the activation it returns to.  The interpreter keeps the pc *)
(* and the stack pointer of the running activation in registers and writes *)
(* them back to the object only when it leaves it.  The model keeps every  *)
(* step of that protocol: what is cached, when it is stored, when it is    *)
(* fetched, and how a return picks the context it continues in.            *)
(*                                                                         *)
(* Abstracted: operand values (module Frames), the encoding of a bytecode  *)
(* in bytes (an instruction is one position of the code), the identity of  *)
(* a context (contexts are numbered in the order of their creation), and   *)
(* which bytecode stands where: any bytecode may come next.                *)
(* Assumed: programs do not write the named fields of a context, as methods  *)
(* of the image's Context class could with PopStoreReceiverVariable.         *)
(***************************************************************************)
EXTENDS Naturals

CONSTANTS
  Methods,      \* the compiled methods a send can find
  NumArgs,      \* header: numberOfArguments of each method
  NumTemps,     \* header: numberOfTemporaries (the arguments included)
  FrameSize,    \* stack slots of its contexts: 16, or 56 with largeFrameRequired
  Primitive,    \* what its CallPrimitive bytecode, if any, invokes
  BlockArgs,    \* the argument counts of the closures created
  CopiedCounts, \* the numbers of values a closure captures
  StackEffects, \* <<needs, pops, pushes>> of the bytecodes that only use the stack
  CodeSize,     \* bound: instruction positions of a method, 0..CodeSize-1
  MaxContexts,  \* bound: the contexts the heap has room for
  MaxClosures,  \* bound: the closures the heap has room for
  MaxInitial    \* bound: the depth of the chain an image is resumed with

PrimitiveKind == {"none", "blockValue", "perform", "unwind", "other"}

ASSUME MethodsAssumption ==
  /\ Methods # {}
  /\ NumArgs \in [Methods -> Nat]
  /\ NumTemps \in [Methods -> Nat]
  /\ FrameSize \in [Methods -> Nat]
  /\ Primitive \in [Methods -> PrimitiveKind]

ASSUME CodeAssumption ==
  /\ BlockArgs \subseteq Nat
  /\ CopiedCounts \subseteq Nat
  /\ StackEffects \subseteq Nat \X Nat \X Nat
  /\ \A e \in StackEffects : e[2] <= e[1] /\ e[3] <= 1
  /\ CodeSize \in Nat \ {0}

ASSUME BoundsAssumption ==
  MaxContexts \in Nat \ {0} /\ MaxClosures \in Nat /\ MaxInitial \in 0 .. MaxContexts

Nil     == 0
Context == 1 .. MaxContexts
Closure == 1 .. MaxClosures

(* CRANK_VM_MethodContext_InstanceFixedSize: the named fields of a context. *)
FixedSize == 6

VARIABLES
  allocated,  \* number of contexts created so far
  contexts,   \* the MethodContext objects: sender, pc, stackp, method, closureOrNil
  created,    \* number of closures created so far
  closures,   \* the BlockClosure objects: outerContext, startpc, numArgs, captured
  reg,        \* the interpreter's registers
  walk,       \* the locals of a non-local return looking for its target
  status      \* what crankvm_interpreter_run is doing, or how it ended

heapVars == <<allocated, contexts, created, closures>>
vars     == <<allocated, contexts, created, closures, reg, walk, status>>

ContextObject ==
  [sender: Context \cup {Nil}, pc: Nat, stackp: Nat,
   method: Methods, closure: Closure \cup {Nil}]

ClosureObject ==
  [outer: Context, startpc: Nat, numArgs: Nat, captured: Nat]

Registers ==
  [methodContext: Context, pc: Nat, nextPC: Nat, sp: Nat, limit: Nat]

Ended == {"returned", "undefined", "error", "aborted"}

(* A slot of the heap no object has been created in. *)
BlankContext ==
  [sender |-> Nil, pc |-> 1, stackp |-> 0,
   method |-> CHOOSE m \in Methods : TRUE, closure |-> Nil]
BlankClosure == [outer |-> 1, startpc |-> 1, numArgs |-> 0, captured |-> 0]
NoWalk       == [cursor |-> Nil, target |-> Nil]

TypeOK ==
  /\ allocated \in Context
  /\ contexts \in [Context -> ContextObject]
  /\ created \in 0 .. MaxClosures
  /\ closures \in [Closure -> ClosureObject]
  /\ reg \in Registers
  /\ walk \in [cursor: Context \cup {Nil}, target: Context \cup {Nil}]
  /\ status \in {"entering", "running", "walking"} \cup Ended

-----------------------------------------------------------------------------
(* Registers and contexts *)

Active == contexts[reg.methodContext]

(* The tests of fetchMethodContext on the pc and the stack pointer. *)
FetchFails(c) == c.pc <= 0 \/ c.stackp + FixedSize > FrameSize[c.method] + FixedSize

(* Mutant of Fetched: the limit counts the named fields as stack slots.      *)
FetchedRawLimit(id, c) ==
  [methodContext |-> id, pc |-> c.pc - 1, nextPC |-> c.pc,
   sp |-> c.stackp, limit |-> FrameSize[c.method] + FixedSize]

(* fetchMethodContext: the registers once context id, holding c, is fetched. *)
(* When a test fails the pc is left one-based and the limit unadjusted.      *)
Fetched(id, c) ==
  IF FetchFails(c)
  THEN [reg EXCEPT !.methodContext = id, !.pc = c.pc, !.sp = c.stackp,
                   !.limit = FrameSize[c.method] + FixedSize]
  ELSE [methodContext |-> id, pc |-> c.pc - 1, nextPC |-> c.pc,
        sp |-> c.stackp, limit |-> FrameSize[c.method]]

(* Mutants of Stored: before the operands are popped; without the pc. *)
StoredBeforePops(c, pc, sp) == [c EXCEPT !.pc = pc + 1, !.stackp = reg.sp]
StoredSamePC(c, pc, sp)     == [c EXCEPT !.stackp = sp]

(* storeMethodContextState, run with the given pc and stack pointer. *)
Stored(c, pc, sp) == [c EXCEPT !.pc = pc + 1, !.stackp = sp]

(* The end of the run loop with an error code, or abort(). *)
StopWith(reason) ==
  /\ status' = reason
  /\ UNCHANGED <<heapVars, reg, walk>>

(* Mutant of ActivateNew: the sender is taken after the switch. *)
ActivateNewSenderLast(new, caller) ==
  /\ allocated' = allocated + 1
  /\ contexts' = [contexts EXCEPT ![reg.methodContext] = caller,
                                  ![allocated + 1] = [new EXCEPT !.sender = allocated + 1]]
  /\ reg' = Fetched(allocated + 1, new)
  /\ status' = IF FetchFails(new) THEN "error" ELSE "running"
  /\ UNCHANGED <<created, closures, walk>>

(* Create a context and make it the active one; caller is what the context   *)
(* being left holds from now on.                                             *)
ActivateNew(new, caller) ==
  /\ allocated' = allocated + 1
  /\ contexts' = [contexts EXCEPT ![reg.methodContext] = caller,
                                  ![allocated + 1] = new]
  /\ reg' = Fetched(allocated + 1, new)
  /\ status' = IF FetchFails(new) THEN "error" ELSE "running"
  /\ UNCHANGED <<created, closures, walk>>

(* The registers and the status once target is active: the result of the     *)
(* fetch is ignored, and the return value is pushed with whatever registers  *)
(* it left.                                                                  *)
ContinueIn(target) ==
  IF target = Nil
  THEN status' = "returned" /\ UNCHANGED reg
  ELSE LET r == Fetched(target, contexts[target])
       IN  IF r.sp >= r.limit
           THEN reg' = r /\ status' = "error"
           ELSE reg' = [r EXCEPT !.sp = r.sp + 1] /\ status' = "running"

(* Mutant of ReturnInto: clears the sender of the context it returns into.   *)
ReturnIntoUnlinked(target, current) ==
  /\ contexts' = [c \in Context |->
                    CASE c = reg.methodContext -> current
                      [] c = target            -> [contexts[c] EXCEPT !.sender = Nil]
                      [] OTHER                 -> contexts[c]]
  /\ walk' = NoWalk
  /\ UNCHANGED <<allocated, created, closures>>
  /\ ContinueIn(target)

(* returnOopActivatingContext: current is what the returning context holds.  *)
ReturnInto(target, current) ==
  /\ contexts' = [contexts EXCEPT ![reg.methodContext] = [current EXCEPT !.sender = Nil]]
  /\ walk' = NoWalk
  /\ UNCHANGED <<allocated, created, closures>>
  /\ ContinueIn(target)

-----------------------------------------------------------------------------
(* Bytecodes.  At the top of the loop pc becomes nextPC; a handler fetches   *)
(* the following instruction itself.                                         *)

Here == reg.nextPC

(* The CallPrimitive bytecode is the first instruction of its method. *)
AtPrimitive ==
  /\ Primitive[Active.method] # "none"
  /\ reg.pc = 0
  /\ Active.closure = Nil

Dispatch       == status = "running" /\ ~AtPrimitive
DispatchWithin == Dispatch /\ Here < CodeSize  \* the code goes on after it

(* fetchNextInstruction with the pc at p. *)
Proceed(p, sp) == reg' = [reg EXCEPT !.pc = p, !.nextPC = p + 1, !.sp = sp]

(* Entry of crankvm_interpreter_run. *)
Enter ==
  /\ status = "entering"
  /\ reg' = Fetched(reg.methodContext, Active)
  /\ status' = IF FetchFails(Active) THEN "error" ELSE "running"
  /\ UNCHANGED <<heapVars, walk>>

(* Pushes, pops, stores, duplicates, identity tests, array creation: they    *)
(* need so many operands, pop so many and push at most one.                  *)
StackBytecode(needs, pops, pushes) ==
  /\ DispatchWithin
  /\ IF reg.sp < needs \/ (pushes > 0 /\ reg.sp - pops >= reg.limit)
     THEN StopWith("error")
     ELSE /\ Proceed(Here, reg.sp - pops + pushes)
          /\ UNCHANGED <<heapVars, walk, status>>

Jump(to) ==
  /\ Dispatch
  /\ Proceed(to, reg.sp)
  /\ UNCHANGED <<heapVars, walk, status>>

(* jumpIfBoolean: the condition is popped; it may be neither boolean. *)
JumpIfBoolean(to) ==
  /\ DispatchWithin
  /\ IF reg.sp < 1
     THEN StopWith("error")
     ELSE \/ /\ \E p \in {to, Here} : Proceed(p, reg.sp - 1)
             /\ UNCHANGED <<heapVars, walk, status>>
          \/ StopWith("aborted")

(* Index and literal checks that fail, illegal and unimplemented bytecodes,  *)
(* doesNotUnderstand: and the other failures of a lookup.                    *)
FailingBytecode ==
  /\ status = "running"
  /\ \E reason \in {"error", "aborted"} : StopWith(reason)

(* The default case of the dispatch ends the loop without an error. *)
UndefinedBytecode ==
  /\ Dispatch
  /\ StopWith("undefined")

(* A send of n arguments whose lookup finds m. *)
Send(n, m) ==
  /\ DispatchWithin
  /\ IF reg.sp < n + 1 \/ NumArgs[m] # n
     THEN StopWith("error")
     ELSE IF allocated = MaxContexts
     THEN StopWith("aborted")
     ELSE ActivateNew([sender |-> reg.methodContext, pc |-> 1, stackp |-> NumTemps[m],
                       method |-> m, closure |-> Nil],
                      Stored(Active, Here, reg.sp - (n + 1)))

(* PushClosureCopyCopiedValues: the block's code lies between this           *)
(* instruction and position to.                                              *)
PushClosure(args, copied, to) ==
  /\ DispatchWithin
  /\ to > Here
  /\ IF reg.sp < copied
     THEN StopWith("error")
     ELSE IF created = MaxClosures
     THEN StopWith("aborted")
     ELSE IF reg.sp - copied >= reg.limit
     THEN StopWith("error")
     ELSE /\ created' = created + 1
          /\ closures' = [closures EXCEPT ![created + 1] =
                            [outer |-> reg.methodContext, startpc |-> Here + 1,
                             numArgs |-> args, captured |-> copied]]
          /\ Proceed(to, reg.sp - copied + 1)
          /\ UNCHANGED <<allocated, contexts, walk, status>>

-----------------------------------------------------------------------------
(* CallPrimitive.  The context of the primitive's method is already active.  *)

(* The primitive fails: the fallback code follows. *)
PrimitiveFails ==
  /\ status = "running" /\ AtPrimitive
  /\ Primitive[Active.method] = "blockValue" =>
       \/ created = 0
       \/ \E b \in 1 .. created : closures[b].numArgs # NumArgs[Active.method]
  /\ Proceed(Here, reg.sp)
  /\ UNCHANGED <<heapVars, walk, status>>

(* blockValueFixed on closure b: a context for the block takes the place of  *)
(* the primitive's own context.                                              *)
BlockValue(b) ==
  LET outer == contexts[closures[b].outer]
  IN  /\ status = "running" /\ AtPrimitive
      /\ Primitive[Active.method] = "blockValue"
      /\ closures[b].numArgs = NumArgs[Active.method]
      /\ IF allocated = MaxContexts
         THEN StopWith("aborted")
         ELSE ActivateNew([sender |-> Active.sender, pc |-> closures[b].startpc,
                           stackp |-> closures[b].numArgs + closures[b].captured,
                           method |-> outer.method, closure |-> b],
                          Active)

(* performWithArgumentsInSuperclass finding m, likewise. *)
PerformInSuperclass(m) ==
  /\ status = "running" /\ AtPrimitive
  /\ Primitive[Active.method] = "perform"
  /\ IF allocated = MaxContexts
     THEN StopWith("aborted")
     ELSE ActivateNew([sender |-> Active.sender, pc |-> 1, stackp |-> NumTemps[m],
                       method |-> m, closure |-> Nil],
                      Active)

(* Any other primitive that succeeds returns its result from the method. *)
PrimitiveReturns ==
  /\ status = "running" /\ AtPrimitive
  /\ Primitive[Active.method] = "other"
  /\ ReturnInto(Active.sender, Stored(Active, Here, reg.sp))

-----------------------------------------------------------------------------
(* Returns *)

LocalReturn(pops) ==
  ReturnInto(Active.sender, Stored(Active, Here, reg.sp - pops))

(* BlockReturnTop (pops 1) and BlockReturnNil (pops 0). *)
BlockReturn(pops) ==
  /\ Dispatch
  /\ IF reg.sp < pops THEN StopWith("error") ELSE LocalReturn(pops)

(* ReturnTop (pops 1), ReturnReceiver, ReturnTrue, ReturnFalse, ReturnNil.   *)
(* In a block activation the return is not local: its target is the sender   *)
(* of the context the block was created in.                                  *)
MethodReturn(pops) ==
  /\ Dispatch
  /\ IF reg.sp < pops
     THEN StopWith("error")
     ELSE IF Active.closure = Nil
     THEN LocalReturn(pops)
     ELSE /\ walk' = [cursor |-> Active.sender,
                      target |-> contexts[closures[Active.closure].outer].sender]
          /\ reg' = [reg EXCEPT !.sp = reg.sp - pops]
          /\ status' = "walking"
          /\ UNCHANGED heapVars

(* crankvm_CompiledCode_parsePrimitiveNumber answers 0 when it finds no      *)
(* primitive, and CRANK_VM_OK, which is 0, when it finds one.                *)
ParsePrimitiveNumber(c) == 0

IsUnwindContext(c) == ParsePrimitiveNumber(c) # 0 /\ Primitive[c.method] = "unwind"

(* Mutant of WalkStep: the cursor is not advanced. *)
WalkStepInPlace ==
  /\ status = "walking"
  /\ walk.cursor # Nil /\ walk.cursor # walk.target
  /\ UNCHANGED vars

(* One iteration of the search along the sender chain. *)
WalkStep ==
  /\ status = "walking"
  /\ walk.cursor # Nil /\ walk.cursor # walk.target
  /\ IF IsUnwindContext(contexts[walk.cursor])
     THEN StopWith("aborted")
     ELSE /\ walk' = [walk EXCEPT !.cursor = contexts[walk.cursor].sender]
          /\ UNCHANGED <<heapVars, reg, status>>

(* The search ends at the target: return into it. *)
WalkArrives ==
  /\ status = "walking"
  /\ walk.cursor = walk.target
  /\ ReturnInto(walk.target, Active)

(* The search ends at the bottom of the chain: "Cannot return." *)
WalkFails ==
  /\ status = "walking"
  /\ walk.cursor = Nil /\ walk.target # Nil
  /\ StopWith("aborted")

-----------------------------------------------------------------------------
(* The interpreter starts in the context of the message value it sends the   *)
(* image's entry object (getEntryMethodContext), which is an activation of a *)
(* method or, for a block, of the block; or in the suspended context of the  *)
(* image's active process, the newest of a chain of suspended activations.   *)

SuspendedFrame ==
  UNION {[pc: 1 .. CodeSize, stackp: 0 .. FrameSize[m], method: {m}] : m \in Methods}

(* The contexts of a chain of frames, the oldest first. *)
ChainOf(frames, n) ==
  [c \in Context |->
     IF c > n
     THEN BlankContext
     ELSE [sender |-> c - 1, pc |-> frames[c].pc, stackp |-> frames[c].stackp,
           method |-> frames[c].method, closure |-> Nil]]

(* A suspended activation with another above it has sent a message, and so   *)
(* has room for its answer.                                                  *)
Waiting(frames, n) ==
  \A c \in 1 .. n : c < n => frames[c].stackp < FrameSize[frames[c].method]

InitialChain ==
  \E n \in 1 .. MaxInitial :
    \E frames \in [1 .. n -> SuspendedFrame] :
      /\ Waiting(frames, n)
      /\ allocated = n
      /\ contexts = ChainOf(frames, n)
      /\ created = 0
      /\ closures = [b \in Closure |-> BlankClosure]

EntryMessage ==
  \E m \in Methods :
    /\ NumArgs[m] = 0
    /\ allocated = 1
    /\ contexts = [c \in Context |->
                    IF c = 1 THEN [sender |-> Nil, pc |-> 1, stackp |-> NumTemps[m],
                                   method |-> m, closure |-> Nil]
                    ELSE BlankContext]
    /\ created = 0
    /\ closures = [b \in Closure |-> BlankClosure]

(* The entry block was created in the newest context of a chain of its own.  *)
EntryBlock ==
  \E n \in 1 .. MaxInitial, start \in 1 .. CodeSize, copied \in CopiedCounts :
    \E frames \in [1 .. n -> SuspendedFrame] :
      /\ n < MaxContexts /\ MaxClosures >= 1
      /\ Waiting(frames, n)
      /\ allocated = n + 1
      /\ contexts = [ChainOf(frames, n) EXCEPT ![n + 1] =
                       [sender |-> Nil, pc |-> start, stackp |-> copied,
                        method |-> frames[n].method, closure |-> 1]]
      /\ created = 1
      /\ closures = [b \in Closure |->
                      IF b = 1 THEN [outer |-> n, startpc |-> start, numArgs |-> 0,
                                     captured |-> copied]
                      ELSE BlankClosure]

Init ==
  /\ EntryMessage \/ EntryBlock \/ InitialChain
  /\ reg = [methodContext |-> allocated, pc |-> 0, nextPC |-> 0, sp |-> 0, limit |-> 0]
  /\ walk = NoWalk
  /\ status = "entering"

Next ==
  \/ Enter
  \/ \E e \in StackEffects : StackBytecode(e[1], e[2], e[3])
  \/ \E to \in 0 .. CodeSize - 1 : Jump(to)
  \/ \E to \in 0 .. CodeSize - 1 : JumpIfBoolean(to)
  \/ FailingBytecode
  \/ UndefinedBytecode
  \/ \E m \in Methods : \E n \in {NumArgs[x] : x \in Methods} : Send(n, m)
  \/ \E args \in BlockArgs, copied \in CopiedCounts :
       \E to \in 0 .. CodeSize - 1 : PushClosure(args, copied, to)
  \/ PrimitiveFails
  \/ \E b \in 1 .. created : BlockValue(b)
  \/ \E m \in Methods : PerformInSuperclass(m)
  \/ PrimitiveReturns
  \/ \E pops \in {0, 1} : BlockReturn(pops)
  \/ \E pops \in {0, 1} : MethodReturn(pops)
  \/ WalkStep
  \/ WalkArrives
  \/ WalkFails

(* The search of a non-local return is a loop in one call: it goes on.       *)
Spec == Init /\ [][Next]_vars /\ WF_vars(WalkStep \/ WalkArrives \/ WalkFails)

-----------------------------------------------------------------------------
(* Properties *)

(* A sender is an activation created before the one it waits for, and so is  *)
(* the context a closure was created in before any activation of the         *)
(* closure.  The sender chain a return walks along therefore has no cycle,   *)
(* although activations take each other's places and chains are abandoned.   *)
SendersAreOlder ==
  \A c \in 1 .. allocated :
    /\ contexts[c].sender < c
    /\ contexts[c].closure # Nil => closures[contexts[c].closure].outer < c

(* The registers of a running interpreter are those of the active context:   *)
(* its stack pointer within its own frame, its limit the one of its method,  *)
(* and the bytecode fetched ahead the one at pc.                             *)
RegistersCurrent ==
  status = "running" =>
    /\ reg.limit = FrameSize[Active.method]
    /\ reg.sp <= reg.limit
    /\ reg.nextPC = reg.pc + 1

(* returnOopActivatingContext ignores the error of the fetch and then        *)
(* pushes: whichever context a return is about to continue in, local or      *)
(* not, its saved state is one the fetch accepts and it has a free slot.     *)
Resumable(c) ==
  c # Nil => ~FetchFails(contexts[c]) /\ contexts[c].stackp < FrameSize[contexts[c].method]

ReturnTargetReady ==
  /\ status = "running" => Resumable(Active.sender)
  /\ status = "walking" /\ walk.cursor = walk.target => Resumable(walk.target)

(* No step touches a context other than the active one: whatever the running *)
(* activation does, the suspended ones keep the pc, stack pointer and sender *)
(* they were left with.                                                      *)
SuspendedUntouched ==
  [][\A c \in 1 .. allocated : c # reg.methodContext => contexts'[c] = contexts[c]]_vars

(* The search of a non-local return ends. *)
WalkTerminates == (status = "walking") ~> (status # "walking")
=============================================================================
