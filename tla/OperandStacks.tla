--------------------------- MODULE OperandStacks ---------------------------
(***************************************************************************)
(* What the frames of the interpreter promise: every activation has its    *)
(* temporaries and, on top of them, its operands, as one sequence; a send  *)
(* takes the receiver and the arguments off the caller's sequence and      *)
(* starts the callee's with the arguments; the answer ends up on top of    *)
(* the caller's; a block's sequence starts with its arguments and the      *)
(* values it captured, and it has the receiver of the activation it was    *)
(* created in.  There are no slots, stack pointers, registers or limits.   *)
(*                                                                         *)
(* The activations are numbered, growing from the first to the running     *)
(* one, as in module ActivationStack.                                      *)
(***************************************************************************)
EXTENDS Naturals, Sequences

CONSTANTS Plain, Nil, True, False, NumArgs, NumTemps, BlockArgs

VARIABLES
  frames,   \* the chain of activations: a callee's number is greater than its caller's
  objects,  \* the vectors and blocks, oop i being objects[i]
  globals,  \* the values of the literal variables
  running   \* whether the interpreter goes on

vars == <<frames, objects, globals, running>>

Greatest(S) == CHOOSE n \in S : \A m \in S : m <= n

Here == Greatest(DOMAIN frames)
Top  == frames[Here]
Size == Len(Top.stack)

First(s, n) == SubSeq(s, 1, n)
Last(s, n)  == SubSeq(s, Len(s) - n + 1, Len(s))
Callers     == [f \in DOMAIN frames \ {Here} |-> frames[f]]

(* The running activation's sequence becomes s. *)
Becomes(s) == frames' = [frames EXCEPT ![Here].stack = s]

(* An activation with the sequence s starts on top of those of fs.           *)
Starts(fs, receiver, s) ==
  \E new \in DOMAIN frames' :
    /\ \A f \in DOMAIN frames : f < new
    /\ frames' = [f \in DOMAIN fs \cup {new} |->
                    IF f = new THEN [receiver |-> receiver, stack |-> s] ELSE fs[f]]

Elements(s) == {s[i] : i \in DOMAIN s}

(* What the running activation can push: constants and literals, itself, its *)
(* receiver, temporaries and operands, the values of literal variables, and  *)
(* the elements of its receiver and of the vectors among its temporaries.    *)
Readable ==
  Plain \cup {Top.receiver} \cup Elements(Top.stack) \cup Elements(globals)
    \cup UNION {Elements(objects[o].slots) :
                   o \in DOMAIN objects \cap ({Top.receiver} \cup Elements(Top.stack))}

Load(v) ==
  /\ Becomes(Append(Top.stack, v))
  /\ UNCHANGED <<objects, globals, running>>

(* == and ~~ *)
Compare(ifSame, ifNot) ==
  /\ Size >= 2
  /\ Becomes(Append(First(Top.stack, Size - 2),
                    IF Top.stack[Size] = Top.stack[Size - 1] THEN ifSame ELSE ifNot))
  /\ UNCHANGED <<objects, globals, running>>

Drop ==
  /\ Size >= 1
  /\ Becomes(First(Top.stack, Size - 1))
  /\ UNCHANGED <<objects, globals, running>>

(* Stores the top operand, and pops it or not. *)
SetTemporary(i, pops) ==
  /\ i \in 1 .. Size
  /\ Becomes(First([Top.stack EXCEPT ![i] = Top.stack[Size]], Size - pops))
  /\ UNCHANGED <<objects, globals, running>>

SetElement(o, i, pops) ==
  /\ Size >= 1 /\ o \in DOMAIN objects /\ i \in DOMAIN objects[o].slots
  /\ objects' = [objects EXCEPT ![o].slots[i] = Top.stack[Size]]
  /\ Becomes(First(Top.stack, Size - pops))
  /\ UNCHANGED <<globals, running>>

SetGlobal(g, pops) ==
  /\ Size >= 1
  /\ globals' = [globals EXCEPT ![g] = Top.stack[Size]]
  /\ Becomes(First(Top.stack, Size - pops))
  /\ UNCHANGED <<objects, running>>

(* The last n operands become the elements of a new vector, the top first,   *)
(* or of a new block, the top last.                                          *)
Create(o, pops) ==
  /\ objects' = Append(objects, o)
  /\ Becomes(Append(First(Top.stack, Size - pops), Len(objects) + 1))
  /\ UNCHANGED <<globals, running>>

Reversed(s) == [i \in 1 .. Len(s) |-> s[Len(s) + 1 - i]]

NewVector(n, pops) ==
  Create([slots |-> Reversed(Last(Top.stack, n)), block |-> FALSE,
          numArgs |-> 0, receiver |-> Nil], pops)

NewBlock(n, args) ==
  Create([slots |-> Last(Top.stack, n), block |-> TRUE,
          numArgs |-> args, receiver |-> Top.receiver], n)

(* A send of n arguments: the callee's other temporaries are nil. *)
Call(n, temps) ==
  /\ n < Size
  /\ Starts([frames EXCEPT ![Here].stack = First(Top.stack, Size - (n + 1))],
            Top.stack[Size - n],
            Last(Top.stack, n) \o [i \in 1 .. temps - n |-> Nil])
  /\ UNCHANGED <<objects, globals, running>>

(* The activation of value, value: ... gives way to one of the block.        *)
Evaluate ==
  LET b == Top.receiver
  IN  /\ b \in DOMAIN objects /\ objects[b].block /\ objects[b].numArgs = Size
      /\ Starts(Callers, objects[b].receiver, Top.stack \o objects[b].slots)
      /\ UNCHANGED <<objects, globals, running>>

(* A failing primitive tells the reason in the first temporary.              *)
Explain(i, code) ==
  /\ i \in 1 .. Size
  /\ Becomes([Top.stack EXCEPT ![i] = code])
  /\ UNCHANGED <<objects, globals, running>>

Answer(v) ==
  /\ DOMAIN Callers # {}
  /\ frames' = [Callers EXCEPT ![Greatest(DOMAIN Callers)].stack = Append(@, v)]
  /\ UNCHANGED <<objects, globals, running>>

Stop == running' = FALSE /\ UNCHANGED <<frames, objects, globals>>

(* What the last activation answers goes to the caller of the interpreter.   *)
AnswerLast == running' = FALSE /\ DOMAIN frames' = {} /\ UNCHANGED <<objects, globals>>

Init ==
  /\ running = TRUE
  /\ DOMAIN frames = {Here}
  /\ \A i \in 1 .. Size : Top.stack[i] = Nil

Next ==
  /\ running = TRUE
  /\ \/ Stop
     \/ AnswerLast
     \/ \E v \in Readable : Load(v)
     \/ Compare(True, False)
     \/ Compare(False, True)
     \/ Drop
     \/ \E pops \in {0, 1} :
          \/ \E i \in 1 .. Size : SetTemporary(i, pops)
          \/ \E o \in DOMAIN objects : \E i \in DOMAIN objects[o].slots : SetElement(o, i, pops)
          \/ \E g \in DOMAIN globals : SetGlobal(g, pops)
     \/ \E n \in 0 .. Size : \E pops \in {0, n} : NewVector(n, pops)
     \/ \E n \in 0 .. Size : \E args \in BlockArgs : NewBlock(n, args)
     \/ \E m \in DOMAIN NumArgs : Call(NumArgs[m], NumTemps[m])
     \/ Evaluate
     \/ \E i \in 1 .. Size : \E code \in Plain : Explain(i, code)
     \/ \E v \in Readable : Answer(v)

Spec == Init /\ [][Next]_vars
=============================================================================
