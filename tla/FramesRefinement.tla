-------------------------- MODULE FramesRefinement --------------------------
(***************************************************************************)
(* Frames implements OperandStacks: the activations are the contexts of    *)
(* the active context's sender chain, each with the sequence of its live   *)
(* slots, and a block has the receiver of the context it was created in.   *)
(***************************************************************************)
EXTENDS Frames

(* The chain of context c, told by the contexts ctx: what is in every set    *)
(* that holds c and the senders of its elements.                             *)
Closed(ctx, S) == \A d \in S : ctx[d].sender # 0 => ctx[d].sender \in S

ChainIn(ctx, c) ==
  LET closed == {S \in SUBSET (1 .. c) : c \in S /\ Closed(ctx, S)}
  IN  {d \in 1 .. c : \A S \in closed : d \in S}

Chain == ChainIn(contexts, active)

(* The first n slots as a sequence. *)
Stacked(slots, n) == [i \in 1 .. n |-> slots[i - 1]]

(* The live slots of the running context are told by the register, those of  *)
(* a suspended one by its stackp.                                            *)
Live(c) ==
  [receiver |-> contexts[c].receiver,
   stack |-> Stacked(contexts[c].slots, IF c = active THEN sp ELSE contexts[c].stackp)]

StackFrames == [c \in IF status = "returned" THEN {} ELSE Chain |-> Live(c)]

StackObjects ==
  [o \in DOMAIN objects |->
     [slots |-> objects[o].slots, block |-> objects[o].block, numArgs |-> objects[o].numArgs,
      receiver |-> IF objects[o].block THEN contexts[objects[o].outer].receiver ELSE Nil]]

Running == status = "running"

Stacks == INSTANCE OperandStacks
  WITH frames <- StackFrames, objects <- StackObjects, running <- Running

(* Frames of slots that are reused, popped without being cleared, saved and  *)
(* restored with a stack pointer in a register behave as sequences of        *)
(* values: no bytecode in any activation reads or keeps a slot that is not   *)
(* live, arguments and answers arrive where they belong, and a block starts  *)
(* with its arguments, its captured values and the receiver it was created   *)
(* with.                                                                     *)
ImplementsOperandStacks == Stacks!Spec
=============================================================================
