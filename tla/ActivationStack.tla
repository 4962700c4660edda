-------------------------- MODULE ActivationStack --------------------------
(***************************************************************************)
(* What the interpreter's activations promise, without context objects,    *)
(* senders, registers or a search: a program's activations are a stack of  *)
(* frames, only the top one runs, and a return drops frames and gives the  *)
(* one it uncovers exactly one more operand.                               *)
(*                                                                         *)
(* The stack is a function of numbers that grow from the bottom to the top.*)
(***************************************************************************)
EXTENDS Naturals

CONSTANTS Methods, FrameSize

VARIABLES
  frames,   \* the activations: the greater the number, the nearer the top
  outcome   \* "running", then "finished" or "stopped"

avars == <<frames, outcome>>

Frame(f) ==
  /\ f.method \in Methods
  /\ f.pc \in Nat
  /\ f.sp \in 0 .. FrameSize[f.method]

(* A frame that has a place for the answer of the one above it. *)
Waiting(f) == Frame(f) /\ f.sp < FrameSize[f.method]

IsTop(fs, t) == t \in DOMAIN fs /\ \A i \in DOMAIN fs : i <= t

(* The frames of a stack that are below number n. *)
Below(fs, n) == [i \in {j \in DOMAIN fs : j < n} |-> fs[i]]

(* The operands of the first frame may be too many for it to run. *)
Begin ==
  /\ \E t \in DOMAIN frames :
       /\ IsTop(frames, t) /\ frames[t].method \in Methods /\ frames[t].pc \in Nat
       /\ \A i \in DOMAIN frames \ {t} : Waiting(frames[i])
  /\ outcome = "running"

(* The steps from the frames fs to gs, with t the top of fs.                 *)

(* The top frame executes, or gives its place to another, u. *)
Execute(fs, gs, t, u) == Below(gs, u) = Below(fs, t) /\ Frame(gs[u])

(* The top frame takes the operands of a send and a new frame u starts. *)
Call(fs, gs, t, u) ==
  /\ t < u /\ DOMAIN gs = DOMAIN fs \cup {u}
  /\ Below(gs, t) = Below(fs, t)
  /\ gs[t].method = fs[t].method
  /\ gs[t].pc = fs[t].pc + 1
  /\ gs[t].sp \in 0 .. fs[t].sp - 1
  /\ Frame(gs[u]) /\ gs[u].pc = 0

(* Execution returns to a suspended frame, which continues where it was. *)
Return(fs, gs, t) ==
  \E k \in DOMAIN fs :
    /\ k < t /\ Waiting(fs[k])
    /\ gs = [Below(fs, k + 1) EXCEPT ![k].sp = @ + 1]

Step(fs, gs) ==
  \E t \in DOMAIN fs :
    /\ IsTop(fs, t) /\ Frame(fs[t])
    /\ \/ \E u \in DOMAIN gs :
            IsTop(gs, u) /\ (Execute(fs, gs, t, u) \/ Call(fs, gs, t, u))
       \/ Return(fs, gs, t)

Run    == Step(frames, frames') /\ outcome' = outcome
Finish == DOMAIN frames' = {} /\ outcome' = "finished"
Stop   == DOMAIN frames' = {} /\ outcome' = "stopped"

Next == outcome = "running" /\ (Run \/ Finish \/ Stop)

Spec == Begin /\ [][Next]_avars
=============================================================================
