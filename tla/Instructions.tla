---------------------------- MODULE Instructions ----------------------------
(***************************************************************************)
(* What the bytes of a method promise: the method is a list of             *)
(* instructions, each with its operands and, for a jump, the instruction   *)
(* it goes to.  Activations go from one instruction of their list to the   *)
(* next or to the target of a jump; the instruction that creates a block   *)
(* goes on after the block's own instructions; a send suspends an          *)
(* activation where it will go on, and a return resumes one there.         *)
(***************************************************************************)
EXTENDS Naturals, Sequences

CONSTANTS
  Methods,
  Listing  \* for each method, its instructions: op, args and, of a jump, to

VARIABLES
  here,     \* the running activation: method, index, and whether of a block
  callers,  \* the suspended ones, the innermost last
  blocks,   \* the blocks created: method and index
  executed, \* the last instruction that was executed, with its operands
  running

vars == <<here, callers, blocks, executed, running>>

Sends         == {"send", "superSend", "specialSend"}
MethodReturns == {"ReturnReceiver", "ReturnTrue", "ReturnFalse", "ReturnNil", "ReturnTop"}
BlockReturns  == {"BlockReturnTop", "BlockReturnNil"}
Branches      == {"jumpIfTrue", "jumpIfFalse"}

(* What ends the run loop: a store into a literal, a bytecode without        *)
(* implementation, one that is not of the set.                               *)
Illegal == {"storeLiteral", "unimplemented", "undefined"}

Control == Sends \cup MethodReturns \cup BlockReturns \cup Branches
             \cup {"jump", "pushClosure", "CallPrimitive"}

(* Primitives a CallPrimitive does not invoke: those of accessors, which the *)
(* code that follows carries out, and those inlined in the code.             *)
Quick(number)  == number \in 256 .. 519
Inline(number) == number >= 32768

-----------------------------------------------------------------------------
Instruction == Listing[here.method][here.index]

Execute(ops) ==
  /\ running /\ Instruction.op \in ops
  /\ executed' = [op |-> Instruction.op, args |-> Instruction.args]

GoTo(i) == here' = [here EXCEPT !.index = i] /\ UNCHANGED <<callers, running>>

FirstOf(m) == [method |-> m, index |-> 1, block |-> FALSE]

(* The activation given up is that of a method that evaluates a block or     *)
(* performs a message, or the sender of one.                                 *)
Activate(new, waiting) == here' = new /\ callers' = waiting /\ UNCHANGED running

(* Gives up the running activation and those above caller n; the caller of   *)
(* the outermost one is that of the interpreter.                             *)
Resume(n) ==
  IF n = 0
  THEN running' = FALSE /\ UNCHANGED <<here, callers>>
  ELSE Activate(callers[n], SubSeq(callers, 1, n - 1))

Operation ==
  /\ running /\ Instruction.op \notin Control \cup Illegal
  /\ Execute({Instruction.op}) /\ GoTo(here.index + 1)
  /\ UNCHANGED blocks

Jump   == Execute({"jump"}) /\ GoTo(Instruction.to) /\ UNCHANGED blocks

Branch ==
  /\ Execute(Branches)
  /\ GoTo(Instruction.to) \/ GoTo(here.index + 1)
  /\ UNCHANGED blocks

PushClosure ==
  /\ Execute({"pushClosure"})
  /\ blocks' = Append(blocks, [method |-> here.method, index |-> here.index + 1])
  /\ GoTo(Instruction.to)

Send ==
  /\ Execute(Sends)
  /\ \E m \in Methods :
       Activate(FirstOf(m), Append(callers, [here EXCEPT !.index = here.index + 1]))
  /\ UNCHANGED blocks

CallPrimitive ==
  /\ Execute({"CallPrimitive"})
  /\ ~Inline(Instruction.args[1])
  /\ \/ GoTo(here.index + 1)
     \/ /\ ~Quick(Instruction.args[1])
        /\ \/ Resume(Len(callers))
           \/ \E m \in Methods : Activate(FirstOf(m), callers)
           \/ \E b \in DOMAIN blocks :
                Activate([method |-> blocks[b].method, index |-> blocks[b].index,
                          block |-> TRUE], callers)
  /\ UNCHANGED blocks

Return ==
  /\ Execute(MethodReturns \cup BlockReturns)
  /\ \/ Resume(Len(callers))
     \/ /\ here.block /\ Instruction.op \in MethodReturns
        /\ \E n \in 0 .. Len(callers) : Resume(n)
  /\ UNCHANGED blocks

(* An operand is missing or wrong, or there is no room; or the instruction   *)
(* is illegal.                                                               *)
Stop ==
  /\ running /\ Instruction.op \notin {"jump", "Nop"}
  /\ running' = FALSE
  /\ UNCHANGED <<here, callers, blocks, executed>>

Next == Operation \/ Jump \/ Branch \/ PushClosure \/ Send \/ CallPrimitive \/ Return \/ Stop

Init ==
  /\ \E m \in Methods : here = FirstOf(m)
  /\ callers = <<>> /\ blocks = <<>>
  /\ executed = [op |-> "none", args |-> <<>>]
  /\ running = TRUE

Spec == Init /\ [][Next]_vars
=============================================================================
