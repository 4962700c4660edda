----------------------- MODULE InterpreterRefinement -----------------------
(***************************************************************************)
(* Interpreter implements ActivationStack: the frames are the contexts of  *)
(* the active context's sender chain, the active one as the registers have *)
(* it and the others as they were stored.                                  *)
(***************************************************************************)
EXTENDS Interpreter

(* The chain of context c, told by the contexts ctx: what is in every set    *)
(* that holds c and the senders of its elements.                             *)
Closed(ctx, S) == \A d \in S : ctx[d].sender # Nil => ctx[d].sender \in S

ChainIn(ctx, c) ==
  LET closed == {S \in SUBSET (1 .. c) : c \in S /\ Closed(ctx, S)}
  IN  {d \in 1 .. c : \A S \in closed : d \in S}

Chain == ChainIn(contexts, reg.methodContext)

FrameOf(c) ==
  IF c = reg.methodContext /\ status # "entering"
  THEN [method |-> contexts[c].method, pc |-> reg.pc, sp |-> reg.sp]
  ELSE [method |-> contexts[c].method, pc |-> contexts[c].pc - 1, sp |-> contexts[c].stackp]

Outcome ==
  CASE status = "returned" -> "finished"
    [] status \in Ended \ {"returned"} -> "stopped"
    [] OTHER -> "running"

(* A context is created after those it returns to. *)
Frames == [c \in IF Outcome = "running" THEN Chain ELSE {} |-> FrameOf(c)]

Stack == INSTANCE ActivationStack WITH frames <- Frames, outcome <- Outcome

(* Caching the running activation's state in registers, keeping the others   *)
(* in context objects, and finding the context to continue in through sender *)
(* fields: together they behave as a stack of frames each of which keeps its *)
(* own pc and stack pointer, whatever activations were abandoned on the way. *)
ImplementsActivationStack == Stack!Spec

(* A search for the target of a return is on the chain, below the active     *)
(* context, whose operands still fit its frame.                              *)
SearchOnChain ==
  status = "walking" =>
    /\ reg.sp <= FrameSize[Active.method]
    /\ walk.cursor # Nil => walk.cursor \in Chain \ {reg.methodContext}
=============================================================================
