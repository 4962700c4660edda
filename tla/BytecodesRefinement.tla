------------------------ MODULE BytecodesRefinement ------------------------
(***************************************************************************)
(* The interpreter's reading of a method's bytes (Bytecodes) implements    *)
(* the method as a list of instructions (Instructions).  What the compiler *)
(* wrote is given: the list, and where in the method each instruction is.  *)
(***************************************************************************)
EXTENDS Bytecodes

CONSTANTS
  Listing, \* for each method, its instructions
  IndexAt  \* for each method, the instruction that begins at an address, or 0

Place(m, address) == IF address \in DOMAIN Code[m] THEN IndexAt[m][address] ELSE 0

(* What the bytes of method m from an address on mean in its bytecode set.   *)
RowAt(m, a) == IF m \in Alternate THEN SistaV1(Code[m][a]) ELSE SqueakV3(Code[m][a])

DecodedAt(m, a) ==
  Operands(RowAt(m, a).handler, RowAt(m, a).implicit, [n \in 1 .. 3 |-> Code[m][a + n]])

(* After which the next instruction of the method may be executed, and from  *)
(* which a jump is made.                                                     *)
GoesOn(op) ==
  op \notin {"jump", "storeLiteral", "unimplemented", "undefined"} \cup MethodReturns \cup BlockReturns
Jumps(op)  == op \in {"jump", "pushClosure"} \cup Branches

TwoBytes == 0 .. 65535

(* Instruction i of method m is what decoding gives, with the next address.  *)
Means(m, i, decoded, next) ==
  /\ Listing[m][i].op = decoded.op /\ Listing[m][i].args = decoded.args
  /\ decoded.bytes \in Nat /\ decoded.delta \in Int
  /\ decoded.op = "CallPrimitive" => decoded.args[1] \in TwoBytes
  /\ GoesOn(decoded.op) => Place(m, next) = i + 1
  /\ Jumps(decoded.op) => /\ Listing[m][i].to \in Nat \ {0}
                          /\ Place(m, next + decoded.delta) = Listing[m][i].to

(* It is so encoded at address a. *)
Encoded(m, a, i) == Means(m, i, DecodedAt(m, a), a + 1 + DecodedAt(m, a).bytes)

(* The image's compiler wrote the bytes for the list.                        *)
ASSUME CompiledAssumption ==
  \A m \in Methods :
    /\ DOMAIN Code[m] \subseteq Nat
    /\ Place(m, InitialPC[m] - 1) = 1
    /\ \A a \in DOMAIN Code[m] :
         /\ IndexAt[m][a] \in Nat
         /\ IndexAt[m][a] # 0 => Encoded(m, a, IndexAt[m][a])

AbstractHere == [method |-> method, index |-> Place(method, nextPC - 1), block |-> block]

AbstractCallers ==
  [n \in DOMAIN senders |->
     [method |-> senders[n].method,
      index  |-> Place(senders[n].method, senders[n].pc - 1),
      block  |-> senders[n].block]]

AbstractBlocks ==
  [n \in DOMAIN closures |->
     [method |-> closures[n].method,
      index  |-> Place(closures[n].method, closures[n].startpc - 1)]]

Listed ==
  INSTANCE Instructions WITH
    here    <- AbstractHere,
    callers <- AbstractCallers,
    blocks  <- AbstractBlocks,
    running <- status = "running"

(* Whatever its bytecode set, the forms of its operands, its jumps and the   *)
(* sends, returns and blocks in between, a method is executed as the list of *)
(* instructions it was compiled from: each with its operands, and each       *)
(* followed by the next one, the target of the jump, or where the caller     *)
(* left off.  The handlers between lines 712 and 1537 and the tables.        *)
ImplementsInstructions == Listed!Spec
=============================================================================
