------------------------------- MODULE Frames -------------------------------
(***************************************************************************)
(* The values in the frames of the interpreter (src/vm/interpreter.c): the *)
(* stack slots of a context hold its arguments, its other temporaries and  *)
(* its operands, and the stackPointer register says how many slots are     *)
(* live.  The bytecodes push, pop, store, build vectors and closures, pass *)
(* arguments and answers, and reach temporaries that live in a vector      *)
(* shared with blocks.                                                     *)
(*                                                                         *)
(* Complements module Interpreter, which has the pc, the registers' saving *)
(* and the choice of the context a return goes to, and no values.  Left    *)
(* out here: the pc, and so jumps other than for the operand they pop;     *)
(* method returns from a block; contexts and the named fields of closures  *)
(* as values.  What a bytecode did before it failed is not kept: the run   *)
(* loop ends with the error and nothing reads it again.                    *)
(*                                                                         *)
(* The interpreter checks the index of a temporary, but not that of an     *)
(* element of a vector, nor in two bytecodes that of a receiver's          *)
(* variable.  An access beside the object has no defined outcome, and the  *)
(* model stops there (the stray accesses).                                 *)
(***************************************************************************)
EXTENDS Naturals, Sequences

CONSTANTS
  Nil, True, False,
  Literals,      \* the other oops that are not objects of the model
  ErrorName,     \* the literal a failing primitive stores
  Mentioned,     \* the constants and literals the code pushes or returns
  Compares,      \* whether the code has identity tests
  Methods, NumArgs, NumTemps,
  ValueMethods,  \* those with the primitive of value, value: ...
  OtherPrimitives, \* those with another primitive
  FrameSize,     \* stack slots of a context
  VectorSizes,   \* operands of PushNewArray
  BlockArgs, CopiedCounts,  \* operands of PushClosureCopyCopiedValues
  Indices,       \* indices in the other bytecodes
  NumGlobals,    \* literal variables
  ReceiverSize,  \* variables of the receiver of the first activation
  MaxContexts, MaxObjects   \* bounds: what the heap has room for

ASSUME FramesAssumption ==
  /\ ErrorName \in Literals
  /\ NumArgs \in [Methods -> Nat] /\ NumTemps \in [Methods -> 0 .. FrameSize]
  /\ \A m \in Methods : NumArgs[m] <= NumTemps[m]
  /\ ValueMethods \cup OtherPrimitives \subseteq Methods
  /\ ValueMethods \cap OtherPrimitives = {}
  /\ \A m \in ValueMethods : NumTemps[m] = NumArgs[m]
  /\ \A a \in BlockArgs, c \in CopiedCounts : a + c <= FrameSize
  /\ Mentioned \subseteq {Nil, True, False} \cup Literals
  /\ Compares \in BOOLEAN
  /\ FrameSize \in Nat /\ MaxObjects \in Nat \ {0}
  /\ VectorSizes \cup BlockArgs \cup CopiedCounts \cup Indices \subseteq Nat
  /\ NumGlobals \in Nat /\ ReceiverSize \in Nat

Plain == {Nil, True, False} \cup Literals
Oop   == Plain \cup 1 .. MaxObjects
Slot  == 0 .. FrameSize - 1

VARIABLES
  contexts,  \* the contexts created: slots, stackp, sender, receiver, method
  active,    \* register methodContext
  sp,        \* register stackPointer
  calling,   \* the next bytecode is the CallPrimitive of a method
  objects,   \* the vectors and closures created, oop i being objects[i]
  globals,   \* the values of the literal variables
  status

vars == <<contexts, active, sp, calling, objects, globals, status>>

Frame  == contexts[active]
Here   == Frame.slots
Vector == {o \in DOMAIN objects : ~objects[o].block}
Block  == {o \in DOMAIN objects : objects[o].block}

-----------------------------------------------------------------------------
(* The stack of the running activation *)

Stop(reason) ==
  /\ status' = reason
  /\ UNCHANGED <<contexts, active, sp, calling, objects, globals>>

(* The frame after a bytecode.                                               *)
Leave(slots, top) ==
  /\ contexts' = [contexts EXCEPT ![active].slots = slots]
  /\ sp' = top
  /\ UNCHANGED <<active, calling>>

(* checkSizeToPop *)
CanPop(n) == n <= sp

(* stackOopAt *)
StackOopAt(n) == Here[sp - n - 1]

(* popOop n times: every slot popped becomes nil.                            *)
Popped(n) == [i \in Slot |-> IF sp - n <= i /\ i < sp THEN Nil ELSE Here[i]]

(* pushOop onto the slots s of which the first top are live.                 *)
PushOnto(s, top, v) == Leave([s EXCEPT ![top] = v], top + 1)

Push(v) ==
  IF sp >= FrameSize
  THEN Stop("error")
  ELSE PushOnto(Here, sp, v) /\ UNCHANGED <<objects, globals, status>>

Executing == status = "running" /\ ~calling

HasSlot(o, i) == o \in Vector /\ i < Len(objects[o].slots)

-----------------------------------------------------------------------------
(* Bytecodes on values *)

(* PushReceiver, PushTrue ... PushTwo, pushLiteral, PushThisContext *)
PushValue ==
  /\ Executing
  /\ \E v \in Mentioned \cup {Frame.receiver} : Push(v)

(* pushReceiverVariable; a closure's variables are left out. *)
PushReceiverVariable(i) ==
  /\ Executing /\ Frame.receiver \notin Block
  /\ IF HasSlot(Frame.receiver, i)
     THEN Push(objects[Frame.receiver].slots[i + 1])
     ELSE Stop("error")

PushTemporary(i) ==
  /\ Executing
  /\ IF i < sp THEN Push(Here[i]) ELSE Stop("error")

(* The index 0 is one of no literal, or of a literal that is nil. *)
PushLiteralVariable(g) ==
  /\ Executing
  /\ IF g > 0 THEN Push(globals[g]) ELSE Stop("error")

(* What a store does to the stack: pop tells how many operands it pops.      *)
After(pop) == Leave(Popped(pop), sp - pop)

(* setReceiverSlot, with the index unchecked; a store beside the receiver's  *)
(* variables has no defined outcome.                                         *)
SetReceiverSlot(i, pop) ==
  IF HasSlot(Frame.receiver, i)
  THEN /\ objects' = [objects EXCEPT ![Frame.receiver].slots[i + 1] = StackOopAt(0)]
       /\ After(pop)
       /\ UNCHANGED <<globals, status>>
  ELSE Stop("stray variable")

(* popStoreReceiverVariable, and ExtendedStore and ExtendedPopAndStore of a  *)
(* receiver variable.                                                        *)
StoreReceiverVariable(i, pop) ==
  /\ Executing /\ Frame.receiver \notin Block
  /\ IF HasSlot(Frame.receiver, i) /\ CanPop(1)
     THEN SetReceiverSlot(i, pop)
     ELSE Stop("error")

(* Operations 5 and 6 of DoubleExtendedDoAnything check the stack only. *)
DoubleStoreReceiverVariable(i, pop) ==
  /\ Executing /\ Frame.receiver \notin Block
  /\ IF CanPop(1) THEN SetReceiverSlot(i, pop) ELSE Stop("error")

SetTemporary(slots, i, v) == [slots EXCEPT ![i] = v]

(* popStoreTemporalVariable: the index is checked before the operand is      *)
(* popped, so the slot stored into may be the operand's own.                 *)
PopStoreTemporalVariable(i) ==
  /\ Executing
  /\ IF i < sp /\ CanPop(1)
     THEN /\ Leave(SetTemporary(Popped(1), i, StackOopAt(0)), sp - 1)
          /\ UNCHANGED <<objects, globals, status>>
     ELSE Stop("error")

(* ExtendedStore and ExtendedPopAndStore of a temporary: the index is        *)
(* checked with the operand popped.                                          *)
ExtendedStoreTemporary(i, pop) ==
  /\ Executing
  /\ IF CanPop(1) /\ i < sp - pop
     THEN /\ Leave(SetTemporary(Popped(pop), i, StackOopAt(0)), sp - pop)
          /\ UNCHANGED <<objects, globals, status>>
     ELSE Stop("error")

(* ExtendedStore, ExtendedPopAndStore and operation 7 of DoubleExtended.     *)
StoreLiteralVariable(g, pop) ==
  /\ Executing
  /\ IF CanPop(1) /\ g > 0
     THEN /\ globals' = [globals EXCEPT ![g] = StackOopAt(0)]
          /\ After(pop)
          /\ UNCHANGED <<objects, status>>
     ELSE Stop("error")

PopStackTop ==
  /\ Executing
  /\ IF CanPop(1)
     THEN After(1) /\ UNCHANGED <<objects, globals, status>>
     ELSE Stop("error")

DuplicateStackTop ==
  /\ Executing
  /\ IF CanPop(1) THEN Push(StackOopAt(0)) ELSE Stop("error")

(* jumpIfBoolean, whichever way it goes. *)
JumpIfBoolean ==
  /\ Executing
  /\ CASE ~CanPop(1)                          -> Stop("error")
       [] CanPop(1) /\ StackOopAt(0) \in {True, False} ->
            After(1) /\ UNCHANGED <<objects, globals, status>>
       [] OTHER                               -> Stop("aborted")

(* SpecialMessageIdentityEqual and NotEqual *)
Identity(ifSame, ifNot) ==
  /\ Executing /\ Compares
  /\ IF CanPop(2)
     THEN /\ PushOnto(Popped(2), sp - 2,
                      IF StackOopAt(0) = StackOopAt(1) THEN ifSame ELSE ifNot)
          /\ UNCHANGED <<objects, globals, status>>
     ELSE Stop("error")

-----------------------------------------------------------------------------
(* Vectors and closures *)

(* Mutant of ArrayOf: takes the popped slots. *)
ArrayOfAbove(n) == [i \in 1 .. n |-> IF sp - i + 1 \in Slot THEN Here[sp - i + 1] ELSE Nil]

(* The elements of the array PushNewArray creates: the top operand first.    *)
ArrayOf(n) == [i \in 1 .. n |-> StackOopAt(i - 1)]

(* The popped slots are left as they are. *)
PushNewArray(n, popping) ==
  LET top == IF popping THEN sp - n ELSE sp
  IN  /\ Executing
      /\ CASE ~CanPop(n)                             -> Stop("error")
           [] CanPop(n) /\ Len(objects) = MaxObjects -> Stop("aborted")
           [] CanPop(n) /\ Len(objects) < MaxObjects /\ top >= FrameSize -> Stop("error")
           [] OTHER ->
                /\ objects' = Append(objects, [slots |-> ArrayOf(n), block |-> FALSE,
                                               numArgs |-> 0, outer |-> 0])
                /\ PushOnto(Here, top, Len(objects) + 1)
                /\ UNCHANGED <<globals, status>>

(* The captured temporaries of a closure: in the order they were pushed.     *)
Captured(n) == [i \in 1 .. n |-> StackOopAt(n - i)]

PushClosure(args, n) ==
  /\ Executing
  /\ CASE ~CanPop(n)                             -> Stop("error")
       [] CanPop(n) /\ Len(objects) = MaxObjects -> Stop("aborted")
       [] CanPop(n) /\ Len(objects) < MaxObjects /\ sp - n >= FrameSize -> Stop("error")
       [] OTHER ->
            /\ objects' = Append(objects, [slots |-> Captured(n), block |-> TRUE,
                                           numArgs |-> args, outer |-> active])
            /\ PushOnto(Popped(n), sp - n, Len(objects) + 1)
            /\ UNCHANGED <<globals, status>>

(* pushRemoteTemporaryElementInVector: neither that the temporary holds an   *)
(* array nor the index of the element is checked.                            *)
PushRemoteTemp(i, v) ==
  /\ Executing
  /\ CASE v >= sp                                    -> Stop("error")
       [] v < sp /\ Here[v] = Nil                    -> Stop("error")
       [] v < sp /\ HasSlot(Here[v], i)              -> Push(objects[Here[v]].slots[i + 1])
       [] OTHER                                      -> Stop("stray element")

(* storeRemoteTemporaryElementInVectorMaybePop *)
StoreRemoteTemp(i, v, pop) ==
  /\ Executing
  /\ CASE v >= sp                       -> Stop("error")
       [] v < sp /\ Here[v] = Nil       -> Stop("error")
       [] v < sp /\ HasSlot(Here[v], i) ->
            /\ objects' = [objects EXCEPT ![Here[v]].slots[i + 1] = StackOopAt(0)]
            /\ After(pop)
            /\ UNCHANGED <<globals, status>>
       [] OTHER                         -> Stop("stray element")

-----------------------------------------------------------------------------
(* Sends, primitives and returns *)

(* fetchMethodContext of the newest context. *)
Activate(new, caller) ==
  /\ contexts' = Append([contexts EXCEPT ![active] = caller], new)
  /\ active' = Len(contexts) + 1
  /\ sp' = new.stackp
  /\ UNCHANGED <<objects, globals, status>>

(* The argument that goes to slot i of the callee. *)
ArgumentSlot(n, i) == StackOopAt(n - i - 1)

(* A send whose lookup finds m: only blocks understand value. *)
Send(m) ==
  LET n == NumArgs[m]
  IN  /\ Executing
      /\ IF ~CanPop(n + 1)
         THEN Stop("error")
         ELSE /\ m \in ValueMethods => StackOopAt(n) \in Block
              /\ IF Len(contexts) = MaxContexts
                 THEN Stop("aborted")
                 ELSE /\ Activate([slots |-> [i \in Slot |-> IF i < n THEN ArgumentSlot(n, i) ELSE Nil],
                                   stackp |-> NumTemps[m], sender |-> active,
                                   receiver |-> StackOopAt(n), method |-> m],
                                  [Frame EXCEPT !.slots = Popped(n + 1), !.stackp = sp - (n + 1)])
                      /\ calling' = (m \in ValueMethods \cup OtherPrimitives)

(* Mutant of BlockSlot: the arguments come after the captured values. *)
BlockSlotCapturedFirst(b, i) ==
  LET captured == Len(objects[b].slots)
  IN  CASE i < captured                      -> objects[b].slots[i + 1]
        [] i - captured \in 0 .. objects[b].numArgs - 1 -> Here[i - captured]
        [] OTHER                             -> Nil

(* Slot i of the activation of block b: the arguments, which the slots of    *)
(* the primitive's own context hold, and then what the block captured.       *)
BlockSlot(b, i) ==
  LET n == objects[b].numArgs
  IN  CASE i < n                                -> Here[i]
        [] i - n \in 0 .. Len(objects[b].slots) - 1 -> objects[b].slots[i - n + 1]
        [] OTHER                                -> Nil

(* blockValueFixed succeeds: the block's context takes the place of the      *)
(* primitive's.                                                              *)
BlockValue ==
  LET b == Frame.receiver
  IN  /\ status = "running" /\ calling /\ Frame.method \in ValueMethods
      /\ objects[b].numArgs = NumArgs[Frame.method]
      /\ IF Len(contexts) = MaxContexts
         THEN Stop("aborted")
         ELSE /\ Activate([slots |-> [i \in Slot |-> BlockSlot(b, i)],
                           stackp |-> objects[b].numArgs + Len(objects[b].slots),
                           sender |-> Frame.sender,
                           receiver |-> contexts[objects[b].outer].receiver,
                           method |-> contexts[objects[b].outer].method],
                          Frame)
              /\ calling' = FALSE

(* A primitive fails: the error goes to the first temporary, if any.         *)
PrimitiveFails ==
  LET m == Frame.method
  IN  /\ status = "running" /\ calling
      /\ m \in ValueMethods => objects[Frame.receiver].numArgs # NumArgs[m]
      /\ calling' = FALSE
      /\ contexts' = IF NumTemps[m] > NumArgs[m]
                     THEN [contexts EXCEPT ![active].slots =
                             SetTemporary(Here, NumArgs[m], ErrorName)]
                     ELSE contexts
      /\ UNCHANGED <<active, sp, objects, globals, status>>

(* localMethodReturnOop of v with pop operands popped.                       *)
Return(v, pop) ==
  LET left   == [contexts EXCEPT ![active] = [Frame EXCEPT !.slots = Popped(pop),
                                                           !.stackp = sp - pop, !.sender = 0]]
      target == Frame.sender
      top    == left[target].stackp
  IN  CASE target = 0 ->
             /\ contexts' = left
             /\ status' = "returned"
             /\ UNCHANGED <<active, sp, calling, objects, globals>>
        [] target # 0 /\ top >= FrameSize -> Stop("error")
        [] OTHER ->
             /\ contexts' = [left EXCEPT ![target].slots[top] = v]
             /\ active' = target
             /\ sp' = top + 1
             /\ calling' = FALSE
             /\ UNCHANGED <<objects, globals, status>>

(* Another primitive succeeds with a result. *)
PrimitiveReturns(v) ==
  /\ status = "running" /\ calling /\ Frame.method \in OtherPrimitives
  /\ Return(v, 0)

(* ReturnTop and BlockReturnTop *)
ReturnTop ==
  /\ Executing
  /\ IF CanPop(1) THEN Return(StackOopAt(0), 1) ELSE Stop("error")

(* ReturnReceiver, ReturnTrue, ReturnFalse, ReturnNil and BlockReturnNil     *)
ReturnValue ==
  /\ Executing
  /\ \E v \in {Frame.receiver} \cup (Mentioned \ Literals) : Return(v, 0)

-----------------------------------------------------------------------------
Init ==
  /\ objects = <<[slots |-> [i \in 1 .. ReceiverSize |-> Nil], block |-> FALSE,
                  numArgs |-> 0, outer |-> 0]>>
  /\ \E m \in Methods \ (ValueMethods \cup OtherPrimitives) :
       contexts = <<[slots |-> [i \in Slot |-> Nil], stackp |-> NumTemps[m],
                     sender |-> 0, receiver |-> 1, method |-> m]>>
  /\ active = 1
  /\ sp = contexts[1].stackp
  /\ calling = FALSE
  /\ globals = [g \in 1 .. NumGlobals |-> Nil]
  /\ status = "running"

Next ==
  \/ PushValue \/ PopStackTop \/ DuplicateStackTop \/ JumpIfBoolean
  \/ Identity(True, False) \/ Identity(False, True)
  \/ \E i \in Indices :
       \/ PushReceiverVariable(i)
       \/ PushTemporary(i)
       \/ PopStoreTemporalVariable(i)
       \/ \E pop \in {0, 1} :
            \/ StoreReceiverVariable(i, pop)
            \/ DoubleStoreReceiverVariable(i, pop)
            \/ ExtendedStoreTemporary(i, pop)
            \/ \E v \in Indices : StoreRemoteTemp(i, v, pop)
       \/ \E v \in Indices : PushRemoteTemp(i, v)
  \/ \E g \in 0 .. NumGlobals :
       PushLiteralVariable(g) \/ \E pop \in {0, 1} : StoreLiteralVariable(g, pop)
  \/ \E n \in VectorSizes, popping \in BOOLEAN : PushNewArray(n, popping)
  \/ \E args \in BlockArgs, n \in CopiedCounts : PushClosure(args, n)
  \/ \E m \in Methods : Send(m)
  \/ BlockValue
  \/ PrimitiveFails
  \/ \E v \in Mentioned \cup {Frame.receiver} : PrimitiveReturns(v)
  \/ ReturnTop
  \/ ReturnValue

Spec == Init /\ [][Next]_vars

=============================================================================
