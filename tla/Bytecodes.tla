------------------------------ MODULE Bytecodes ------------------------------
(***************************************************************************)
(* How the interpreter reads a method (src/vm/interpreter.c and the two    *)
(* bytecode set tables it includes): the bytes, the program counter in     *)
(* them, the bytecode fetched ahead, the operands a handler fetches, where *)
(* jumps, sends, closures and returns leave the program counter.           *)
(*                                                                         *)
(* Complements modules Interpreter, which has the contexts and picks the   *)
(* one a return goes to, and Frames, which has the values: here a check of *)
(* an operand may fail, a condition be true or false and a primitive       *)
(* succeed or fail, whatever the values.  Register pc is written by every  *)
(* handler and overwritten with nextPC before the next one reads it, so a  *)
(* handler's pc is local to its action.                                    *)
(***************************************************************************)
EXTENDS Integers, Sequences

CONSTANTS
  Methods,
  Alternate,    \* those whose header has isAlternateBytecode: Sista V1
  InitialPC,    \* (numberOfLiterals + 1) * 8 + 1 of each, one-based
  Code,         \* the bytes of each, by zero-based address
  Entries,      \* the methods the interpreter starts in
  Callees,      \* the methods sends and performing primitives find
  LeftToRight,  \* whether the build evaluates operands from left to right
  MaxCallers, MaxClosures  \* bounds: contexts waiting, closures created

ASSUME BytecodesAssumption ==
  /\ Alternate \subseteq Methods /\ Entries \subseteq Methods /\ Callees \subseteq Methods
  /\ InitialPC \in [Methods -> Nat \ {0}]
  /\ \A m \in Methods : \A a \in DOMAIN Code[m] : Code[m][a] \in 0 .. 255
  /\ LeftToRight \in BOOLEAN
  /\ MaxCallers \in Nat /\ MaxClosures \in Nat

VARIABLES
  method,       \* register: the method of the active context
  block,        \* whether the active context is of a block
  setOffset,    \* register currentBytecodeSetOffset
  nextPC,       \* register, zero-based
  nextBytecode, \* register
  senders,      \* the suspended contexts, the innermost last: method, block, pc
  closures,     \* the closures: method and startpc
  executed,     \* the handler that ran last, with the operands it decoded
  status

registers == <<method, block, setOffset, nextPC, nextBytecode>>
vars == <<method, block, setOffset, nextPC, nextBytecode, senders, closures, executed, status>>

-----------------------------------------------------------------------------
(* The bytecode sets: the handler of each bytecode and its implicit operand. *)

Row(handler, implicit) == [handler |-> handler, implicit |-> implicit]

Constants == <<"PushReceiver", "PushTrue", "PushFalse", "PushNil",
               "PushMinusOne", "PushZero", "PushOne", "PushTwo">>
Returns   == <<"ReturnReceiver", "ReturnTrue", "ReturnFalse", "ReturnNil", "ReturnTop">>
Extended  == <<"ExtendedPush", "ExtendedStore", "ExtendedPopAndStore", "SingleExtendedSend",
               "DoubleExtendedDoAnything", "SingleExtendedSuperSend", "SecondExtendedSend",
               "PopStackTop", "DuplicateStackTop", "PushThisContext", "PushNewArray",
               "CallPrimitive", "PushRemoteTempLong", "StoreRemoteTempLong",
               "PopStoreRemoteTempLong", "PushClosureCopyCopiedValues">>

(* The bytecodes with an operator or a common selector, by the selector's    *)
(* place among the special selectors; two have handlers of their own.        *)
SpecialMessage(k) ==
  CASE k = 22 -> Row("SpecialMessageIdentityEqual", 0)
    [] k = 24 -> Row("SpecialMessageIdentityNotEqual", 0)
    [] OTHER  -> Row("SpecialMessage", k)

SqueakV3(b) ==
  CASE b \in   0 ..  15 -> Row("PushReceiverVariableShort", b)
    [] b \in  16 ..  31 -> Row("PushTempShort", b - 16)
    [] b \in  32 ..  63 -> Row("PushLiteralShort", b - 32)
    [] b \in  64 ..  95 -> Row("PushLiteralVariableShort", b - 64)
    [] b \in  96 .. 103 -> Row("PopStoreReceiverVariableShort", b - 96)
    [] b \in 104 .. 111 -> Row("PopStoreTemporalVariableShort", b - 104)
    [] b \in 112 .. 119 -> Row(Constants[b - 111], 0)
    [] b \in 120 .. 124 -> Row(Returns[b - 119], 0)
    [] b = 125          -> Row("BlockReturnTop", 0)
    [] b \in 126 .. 127 -> Row("undefined", 0)
    [] b \in 128 .. 143 -> Row(Extended[b - 127], 0)
    [] b \in 144 .. 151 -> Row("ShortJump", b - 144)
    [] b \in 152 .. 159 -> Row("ShortJumpIfFalse", b - 152)
    [] b \in 160 .. 167 -> Row("LongJump", b - 160)
    [] b \in 168 .. 171 -> Row("LongJumpIfTrue", b - 168)
    [] b \in 172 .. 175 -> Row("LongJumpIfFalse", b - 172)
    [] b \in 176 .. 207 -> SpecialMessage(b - 176)
    [] b \in 208 .. 223 -> Row("SendShortArgs0", b - 208)
    [] b \in 224 .. 239 -> Row("SendShortArgs1", b - 224)
    [] b \in 240 .. 255 -> Row("SendShortArgs2", b - 240)

SistaV1(b) ==
  CASE b \in   0 ..  15 -> Row("PushReceiverVariableShort", b)
    [] b \in  16 ..  31 -> Row("PushLiteralVariableShort", b - 16)
    [] b \in  32 ..  63 -> Row("PushLiteralShort", b - 32)
    [] b \in  64 ..  75 -> Row("PushTempShort", b - 64)
    [] b \in  76 ..  79 -> Row(Constants[b - 75], 0)
    [] b \in  80 ..  81 -> Row(Constants[b - 74], 0)
    [] b = 82           -> Row("PushThisContext", 0)
    [] b = 83           -> Row("DuplicateStackTop", 0)
    [] b \in  88 ..  92 -> Row(Returns[b - 87], 0)
    [] b = 93           -> Row("BlockReturnNil", 0)
    [] b = 94           -> Row("BlockReturnTop", 0)
    [] b = 95           -> Row("Nop", 0)
    [] b \in (96 .. 127) \ {120} -> SpecialMessage(b - 96)
    [] b \in 128 .. 143 -> Row("SendShortArgs0", b - 128)
    [] b \in 144 .. 159 -> Row("SendShortArgs1", b - 144)
    [] b \in 160 .. 175 -> Row("SendShortArgs2", b - 160)
    [] b \in 176 .. 183 -> Row("ShortJump", b - 176)
    [] b \in 184 .. 191 -> Row("ShortJumpIfTrue", b - 184)
    [] b \in 192 .. 199 -> Row("ShortJumpIfFalse", b - 192)
    [] b \in 200 .. 207 -> Row("PopStoreReceiverVariableShort", b - 200)
    [] b \in 208 .. 215 -> Row("PopStoreTemporalVariableShort", b - 208)
    [] b = 216          -> Row("PopStackTop", 0)
    [] b = 248          -> Row("CallPrimitive", 0)
    [] b \in (224 .. 245) \cup (250 .. 253) -> Row("unimplemented", 0)
    [] OTHER            -> Row("undefined", 0)

(* The switch of the run loop is over both sets.                             *)
Dispatched == IF setOffset = 0 THEN SqueakV3(nextBytecode) ELSE SistaV1(nextBytecode)

-----------------------------------------------------------------------------
(* The operands.  In what follows b is the sequence of bytes fetchByte gives *)
(* a handler.                                                                *)

(* Two calls of fetchByte in one expression: which of the two is evaluated   *)
(* first is up to the build.                                                 *)
InOrder(b, c) == IF LeftToRight THEN <<b, c>> ELSE <<c, b>>

(* A decoded bytecode: what is to be done, and with what; the operand bytes  *)
(* fetched; and what is added to the pc by a jump, or by a closure.          *)
Plain(op, args, bytes) == [op |-> op, args |-> args, bytes |-> bytes, delta |-> 0]
Jumping(op, bytes, delta) == [op |-> op, args |-> <<>>, bytes |-> bytes, delta |-> delta]

Pushes == <<"pushReceiverVariable", "pushTemporary", "pushLiteral", "pushLiteralVariable">>
Stores == <<"storeReceiverVariable", "storeTemporary", "storeLiteral", "storeLiteralVariable">>

ExtendedPush(b) ==
  Plain(Pushes[b[1] \div 64 + 1], <<b[1] % 64>>, 1)

(* ExtendedStoreMaybePop; pops is 1 if it pops. *)
ExtendedStore(b, pops) ==
  Plain(Stores[b[1] \div 64 + 1], <<b[1] % 64, pops>>, 1)

DoubleExtended(b) ==
  LET operation == b[1] \div 32
      index     == b[2]
  IN  CASE operation = 0 -> Plain("send", <<index, b[1] % 32>>, 2)
        [] operation = 1 -> Plain("superSend", <<index, b[1] % 32>>, 2)
        [] operation = 2 -> Plain("pushReceiverVariable", <<index>>, 2)
        [] operation = 3 -> Plain("pushLiteral", <<index>>, 2)
        [] operation = 4 -> Plain("pushLiteralVariable", <<index>>, 2)
        [] operation = 5 -> Plain("storeReceiverVariable", <<index, 0>>, 2)
        [] operation = 6 -> Plain("storeReceiverVariable", <<index, 1>>, 2)
        [] operation = 7 -> Plain("storeLiteralVariable", <<index, 0>>, 2)

PushNewArray(b) == Plain("pushNewArray", <<b[1] % 128, b[1] \div 128>>, 1)

CallPrimitiveNumber(b) ==
  LET bytes == InOrder(b[1], b[2])
  IN  Plain("CallPrimitive", <<bytes[1] + 256 * bytes[2]>>, 2)

(* numArgs and the captured values, and the size of the block's code. *)
PushClosureOperands(b) ==
  LET size == InOrder(b[2], b[3])
  IN  [op |-> "pushClosure", args |-> <<b[1] % 16, b[1] \div 16>>,
       bytes |-> 3, delta |-> 256 * size[1] + size[2]]

LongJump(p, b) == Jumping("jump", 1, 256 * (p - 4) + b[1])

(* What the handler h of a bytecode with the implicit operand p does. *)
Operands(h, p, b) ==
  CASE h = "PushReceiverVariableShort" -> Plain("pushReceiverVariable", <<p>>, 0)
    [] h = "PushTempShort"             -> Plain("pushTemporary", <<p>>, 0)
    [] h = "PushLiteralShort"          -> Plain("pushLiteral", <<p>>, 0)
    [] h = "PushLiteralVariableShort"  -> Plain("pushLiteralVariable", <<p>>, 0)
    [] h = "PopStoreReceiverVariableShort" -> Plain("storeReceiverVariable", <<p, 1>>, 0)
    [] h = "PopStoreTemporalVariableShort" -> Plain("storeTemporary", <<p, 1>>, 0)
    [] h = "ExtendedPush"              -> ExtendedPush(b)
    [] h = "ExtendedStore"             -> ExtendedStore(b, 0)
    [] h = "ExtendedPopAndStore"       -> ExtendedStore(b, 1)
    [] h = "SingleExtendedSend"        -> Plain("send", <<b[1] % 32, b[1] \div 32>>, 1)
    [] h = "DoubleExtendedDoAnything"  -> DoubleExtended(b)
    [] h = "SingleExtendedSuperSend"   -> Plain("superSend", <<b[1] % 32, b[1] \div 32>>, 1)
    [] h = "SecondExtendedSend"        -> Plain("send", <<b[1] % 64, b[1] \div 64>>, 1)
    [] h = "PushNewArray"              -> PushNewArray(b)
    [] h = "CallPrimitive"             -> CallPrimitiveNumber(b)
    [] h = "PushRemoteTempLong"        -> Plain("pushRemote", <<b[1], b[2]>>, 2)
    [] h = "StoreRemoteTempLong"       -> Plain("storeRemote", <<b[1], b[2], 0>>, 2)
    [] h = "PopStoreRemoteTempLong"    -> Plain("storeRemote", <<b[1], b[2], 1>>, 2)
    [] h = "PushClosureCopyCopiedValues" -> PushClosureOperands(b)
    [] h = "ShortJump"                 -> Jumping("jump", 0, 1 + p)
    [] h = "ShortJumpIfTrue"           -> Jumping("jumpIfTrue", 0, 1 + p)
    [] h = "ShortJumpIfFalse"          -> Jumping("jumpIfFalse", 0, 1 + p)
    [] h = "LongJump"                  -> LongJump(p, b)
    [] h = "LongJumpIfTrue"            -> Jumping("jumpIfTrue", 1, 256 * p + b[1])
    [] h = "LongJumpIfFalse"           -> Jumping("jumpIfFalse", 1, 256 * p + b[1])
    [] h = "SpecialMessage"            -> Plain("specialSend", <<p>>, 0)
    [] h = "SendShortArgs0"            -> Plain("send", <<p, 0>>, 0)
    [] h = "SendShortArgs1"            -> Plain("send", <<p, 1>>, 0)
    [] h = "SendShortArgs2"            -> Plain("send", <<p, 2>>, 0)
    [] OTHER                           -> Plain(h, <<>>, 0)

(* The n-th fetchByte of a handler reads the byte at nextPC + n - 1. *)
Decoded ==
  Operands(Dispatched.handler, Dispatched.implicit,
           [n \in 1 .. 3 |-> Code[method][nextPC + n - 1]])

-----------------------------------------------------------------------------
(* The program counter *)

Sends         == {"send", "superSend", "specialSend"}
MethodReturns == {"ReturnReceiver", "ReturnTrue", "ReturnFalse", "ReturnNil", "ReturnTop"}
BlockReturns  == {"BlockReturnTop", "BlockReturnNil"}
Branches      == {"jumpIfTrue", "jumpIfFalse"}
Failing       == {"storeLiteral", "unimplemented"}
Control       == Sends \cup MethodReturns \cup BlockReturns \cup Branches \cup Failing
                   \cup {"jump", "pushClosure", "CallPrimitive", "undefined"}

(* The pc when the handler has fetched its operands. *)
PC == nextPC + Decoded.bytes

Run(ops) ==
  /\ status = "running" /\ Decoded.op \in ops
  /\ executed' = [op |-> Decoded.op, args |-> Decoded.args]

(* fetchNextInstruction with the pc at p, in the context fetched already. *)
FetchNext(p) ==
  /\ nextPC' = p + 1 /\ nextBytecode' = Code[method][p]
  /\ UNCHANGED <<method, block, setOffset, senders, status>>

(* Mutant of FetchContext: the set is that of the context before. *)
FetchContextSameSet(c) ==
  /\ method' = c.method /\ block' = c.block
  /\ UNCHANGED setOffset
  /\ nextPC' = c.pc /\ nextBytecode' = Code[c.method][c.pc - 1]
  /\ UNCHANGED status

(* fetchMethodContext: the pc kept in a context is one-based. *)
FetchContext(c) ==
  /\ method' = c.method /\ block' = c.block
  /\ setOffset' = IF c.method \in Alternate THEN 256 ELSE 0
  /\ nextPC' = c.pc /\ nextBytecode' = Code[c.method][c.pc - 1]
  /\ UNCHANGED status

(* storeMethodContextState, with the pc as it is. *)
Stored(pc) == [method |-> method, block |-> block, pc |-> pc + 1]

MethodContext(m)  == [method |-> m, block |-> FALSE, pc |-> InitialPC[m]]
ClosureContext(c) == [method |-> c.method, block |-> TRUE, pc |-> c.startpc]

Operation ==
  /\ status = "running" /\ Decoded.op \notin Control
  /\ Run({Decoded.op}) /\ FetchNext(PC)
  /\ UNCHANGED closures

Jump == Run({"jump"}) /\ FetchNext(PC + Decoded.delta) /\ UNCHANGED closures

JumpIfBoolean ==
  /\ Run(Branches)
  /\ FetchNext(PC) \/ FetchNext(PC + Decoded.delta)
  /\ UNCHANGED closures

PushClosure ==
  /\ Run({"pushClosure"}) /\ Len(closures) < MaxClosures
  /\ FetchNext(PC + Decoded.delta)
  /\ closures' = Append(closures, [method |-> method, startpc |-> PC + 1])

(* A send fetches nothing ahead: the context it returns to is fetched again. *)
Send ==
  /\ Run(Sends) /\ Len(senders) < MaxCallers
  /\ \E m \in Callees : FetchContext(MethodContext(m))
  /\ senders' = Append(senders, Stored(PC))
  /\ UNCHANGED closures

(* returnOopActivatingContext, of the n-th of the contexts waiting. *)
ReturnTo(n) ==
  IF n = 0
  THEN status' = "returned" /\ UNCHANGED <<registers, senders>>
  ELSE FetchContext(senders[n]) /\ senders' = SubSeq(senders, 1, n - 1)

Quick(number)  == number \in 256 .. 519
Inline(number) == (number \div 32768) % 2 = 1

(* The primitive of a quick method is not invoked, and another may fail. *)
PassPrimitive ==
  /\ Run({"CallPrimitive"}) /\ ~Inline(Decoded.args[1])
  /\ FetchNext(PC)
  /\ UNCHANGED closures

(* The primitive succeeds: the method returns its result, or the context it  *)
(* made replaces the method's.                                               *)
SucceedPrimitive ==
  /\ Run({"CallPrimitive"})
  /\ ~Inline(Decoded.args[1]) /\ ~Quick(Decoded.args[1])
  /\ \/ ReturnTo(Len(senders))
     \/ \E m \in Callees : FetchContext(MethodContext(m)) /\ UNCHANGED senders
     \/ \E c \in DOMAIN closures :
          FetchContext(ClosureContext(closures[c])) /\ UNCHANGED senders
  /\ UNCHANGED closures

LocalReturn ==
  /\ Run(BlockReturns) \/ (Run(MethodReturns) /\ ~block)
  /\ ReturnTo(Len(senders))
  /\ UNCHANGED closures

(* The context is the one module Interpreter finds. *)
NonLocalReturn ==
  /\ Run(MethodReturns) /\ block
  /\ \E n \in 0 .. Len(senders) : ReturnTo(n)
  /\ UNCHANGED closures

(* The loop ends with an error, or abort().  A jump and a nop check nothing. *)
Fail ==
  /\ status = "running" /\ Decoded.op \notin {"jump", "Nop", "undefined"}
  /\ status' = "error"
  /\ UNCHANGED <<registers, senders, closures, executed>>

(* UNDEFINED_BYTECODE: the default case of the switch. *)
UndefinedBytecode ==
  /\ status = "running" /\ Decoded.op = "undefined"
  /\ status' = "ended"
  /\ UNCHANGED <<registers, senders, closures, executed>>

Init ==
  /\ method \in Entries /\ block = FALSE
  /\ setOffset = IF method \in Alternate THEN 256 ELSE 0
  /\ nextPC = InitialPC[method] /\ nextBytecode = Code[method][InitialPC[method] - 1]
  /\ senders = <<>> /\ closures = <<>>
  /\ executed = [op |-> "none", args |-> <<>>]
  /\ status = "running"

Next ==
  \/ Operation \/ Jump \/ JumpIfBoolean \/ PushClosure \/ Send
  \/ PassPrimitive \/ SucceedPrimitive \/ LocalReturn \/ NonLocalReturn
  \/ Fail \/ UndefinedBytecode

Spec == Init /\ [][Next]_vars
=============================================================================
