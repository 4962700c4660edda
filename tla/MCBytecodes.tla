----------------------------- MODULE MCBytecodes -----------------------------
(***************************************************************************)
(* Methods for module BytecodesRefinement: one of each bytecode set with   *)
(* every bytecode of the set, and small ones they send to.  An instruction *)
(* is written with its operands beside the bytes a compiler encodes it in; *)
(* a jump, or the creation of a block, with the instructions it goes over. *)
(***************************************************************************)
EXTENDS BytecodesRefinement, SequencesExt

Instr(op, args, code)    == [op |-> op, args |-> args, skip |-> 0, code |-> code]
Over(op, args, code, skip) == [op |-> op, args |-> args, skip |-> skip, code |-> code]

(* Bytecodes from base on with the operand in the bytecode. *)
Family(op, base, max)    == [k \in 1 .. max + 1 |-> Instr(op, <<k - 1>>, <<base + k - 1>>)]
Popping(op, base, max)   == [k \in 1 .. max + 1 |-> Instr(op, <<k - 1, 1>>, <<base + k - 1>>)]
Selectors(base, args)    == [k \in 1 .. 16 |-> Instr("send", <<k - 1, args>>, <<base + k - 1>>)]
Handlers(base, names)    == [k \in DOMAIN names |-> Instr(names[k], <<>>, <<base + k - 1>>)]

Specials(base) ==
  [k \in 1 .. 32 |->
     CASE k = 23 -> Instr("SpecialMessageIdentityEqual", <<>>, <<base + 22>>)
       [] k = 25 -> Instr("SpecialMessageIdentityNotEqual", <<>>, <<base + 24>>)
       [] OTHER  -> Instr("specialSend", <<k - 1>>, <<base + k - 1>>)]

Filler(nil, n) == [k \in 1 .. n |-> Instr("PushNil", <<>>, <<nil>>)]

(* Jumps over one to eight bytes; nil is the set's bytecode that pushes it.  *)
ShortJumps(op, base, nil) ==
  FlattenSeq([k \in 1 .. 8 |-> <<Over(op, <<>>, <<base + k - 1>>, k)>> \o Filler(nil, k)])

(* Each instruction goes on only if a branch is taken or not: one that ends  *)
(* the activation or the run has a branch over it before it.                 *)
Guarded(branch, list) ==
  FlattenSeq([k \in DOMAIN list |->
    <<Over("jumpIfFalse", <<>>, <<branch + Len(list[k].code) - 1>>, 1), list[k]>>])

MethodReturnNames == <<"ReturnReceiver", "ReturnTrue", "ReturnFalse", "ReturnNil", "ReturnTop">>

-----------------------------------------------------------------------------
(* Squeak V3 with closures *)

PushOf == [k \in 1 .. 4 |-> <<"pushReceiverVariable", "pushTemporary", "pushLiteral", "pushLiteralVariable">>[k]]
StoreOf == [k \in 1 .. 4 |-> <<"storeReceiverVariable", "storeTemporary", "storeLiteral", "storeLiteralVariable">>[k]]

ExtendedForms ==
  FlattenSeq([k \in 1 .. 4 |->
    <<Instr(PushOf[k], <<0>>, <<128, 64 * (k - 1)>>), Instr(PushOf[k], <<63>>, <<128, 64 * k - 1>>)>>])
  \o FlattenSeq([k \in 1 .. 3 |->
    LET i == IF k = 3 THEN 4 ELSE k
    IN  <<Instr(StoreOf[i], <<5, 0>>, <<129, 64 * (i - 1) + 5>>),
          Instr(StoreOf[i], <<62, 1>>, <<130, 64 * (i - 1) + 62>>)>>])
  \o <<Instr("send", <<31, 0>>, <<131, 31>>),
       Instr("send", <<1, 7>>, <<131, 225>>),
       Instr("superSend", <<30, 1>>, <<133, 62>>),
       Instr("superSend", <<2, 6>>, <<133, 194>>),
       Instr("send", <<63, 1>>, <<134, 127>>),
       Instr("send", <<2, 3>>, <<134, 194>>)>>

DoubleForms ==
  <<Instr("send", <<255, 31>>, <<132, 31, 255>>),
    Instr("send", <<3, 0>>, <<132, 0, 3>>),
    Instr("superSend", <<200, 17>>, <<132, 49, 200>>),
    Instr("pushReceiverVariable", <<64>>, <<132, 64, 64>>),
    Instr("pushLiteral", <<255>>, <<132, 96, 255>>),
    Instr("pushLiteralVariable", <<129>>, <<132, 128, 129>>),
    Instr("storeReceiverVariable", <<100, 0>>, <<132, 160, 100>>),
    Instr("storeReceiverVariable", <<101, 1>>, <<132, 192, 101>>),
    Instr("storeLiteralVariable", <<102, 0>>, <<132, 224, 102>>),
    Instr("pushNewArray", <<127, 0>>, <<138, 127>>),
    Instr("pushNewArray", <<2, 1>>, <<138, 130>>),
    Instr("pushRemote", <<1, 2>>, <<140, 1, 2>>),
    Instr("storeRemote", <<3, 4, 0>>, <<141, 3, 4>>),
    Instr("storeRemote", <<255, 6, 1>>, <<142, 255, 6>>),
    Instr("CallPrimitive", <<772>>, <<139, 4, 3>>)>>

(* Over 300 instructions forward, then 264 bytes back to the second of these *)
(* jumps, which goes on after the third.                                     *)
LongJumps ==
  <<Over("jump", <<>>, <<165, 46>>, 301)>>
  \o Filler(115, 40)
  \o <<Over("jump", <<>>, <<165, 6>>, 261)>>
  \o Filler(115, 260)
  \o <<Over("jump", <<>>, <<162, 248>>, 0 - 262)>>

LongBranches ==
  <<Over("jumpIfTrue", <<>>, <<169, 46>>, 301), Over("jump", <<>>, <<165, 44>>, 300)>>
  \o Filler(115, 300)
  \o <<Over("jumpIfFalse", <<>>, <<173, 46>>, 301), Over("jump", <<>>, <<165, 44>>, 300)>>
  \o Filler(115, 300)

(* A block of 267 bytes with two arguments and three values, that may return *)
(* from its method.                                                          *)
LongBlock ==
  <<Over("pushClosure", <<2, 3>>, <<143, 50, 1, 11>>, 266),
    Instr("pushTemporary", <<0>>, <<16>>),
    Over("jumpIfTrue", <<>>, <<169, 7>>, 263),
    Instr("ReturnTop", <<>>, <<124>>)>>
  \o Filler(115, 262)
  \o <<Instr("BlockReturnTop", <<>>, <<125>>)>>

SqueakListing ==
  Family("pushReceiverVariable", 0, 15) \o Family("pushTemporary", 16, 15)
  \o Family("pushLiteral", 32, 31) \o Family("pushLiteralVariable", 64, 31)
  \o Popping("storeReceiverVariable", 96, 7) \o Popping("storeTemporary", 104, 7)
  \o Handlers(112, <<"PushReceiver", "PushTrue", "PushFalse", "PushNil",
                     "PushMinusOne", "PushZero", "PushOne", "PushTwo">>)
  \o Handlers(135, <<"PopStackTop", "DuplicateStackTop", "PushThisContext">>)
  \o ExtendedForms \o DoubleForms
  \o ShortJumps("jump", 144, 115) \o ShortJumps("jumpIfFalse", 152, 115)
  \o LongJumps \o LongBranches
  \o Specials(176) \o Selectors(208, 0) \o Selectors(224, 1) \o Selectors(240, 2)
  \o Guarded(152, <<Instr("storeLiteral", <<7, 0>>, <<129, 135>>),
                    Instr("storeLiteral", <<8, 1>>, <<130, 136>>),
                    Instr("CallPrimitive", <<32770>>, <<139, 2, 128>>),
                    Instr("undefined", <<>>, <<126>>), Instr("undefined", <<>>, <<127>>)>>)
  \o LongBlock
  \o <<Instr("specialSend", <<25>>, <<201>>), Instr("ReturnTop", <<>>, <<124>>)>>

-----------------------------------------------------------------------------
(* Sista V1.  The returns of blocks are here in a method: no block of this   *)
(* set can be created.                                                       *)

SistaListing ==
  Family("pushReceiverVariable", 0, 15) \o Family("pushLiteralVariable", 16, 15)
  \o Family("pushLiteral", 32, 31) \o Family("pushTemporary", 64, 11)
  \o Handlers(76, <<"PushReceiver", "PushTrue", "PushFalse", "PushNil", "PushZero", "PushOne",
                    "PushThisContext", "DuplicateStackTop">>)
  \o Handlers(95, <<"Nop">>) \o Handlers(216, <<"PopStackTop">>)
  \o Popping("storeReceiverVariable", 200, 7) \o Popping("storeTemporary", 208, 7)
  \o ShortJumps("jump", 176, 79) \o ShortJumps("jumpIfTrue", 184, 79)
  \o ShortJumps("jumpIfFalse", 192, 79)
  \o <<Instr("CallPrimitive", <<517>>, <<248, 5, 2>>), Instr("CallPrimitive", <<772>>, <<248, 4, 3>>)>>
  \o SelectSeq(Specials(96), LAMBDA i : i.op # "SpecialMessageIdentityNotEqual")
  \o Selectors(128, 0) \o Selectors(144, 1) \o Selectors(160, 2)
  \o Guarded(192, <<Instr("CallPrimitive", <<32770>>, <<248, 2, 128>>)>>
               \o Handlers(93, <<"BlockReturnNil", "BlockReturnTop">>)
               \o [k \in 1 .. 22 |-> Instr("unimplemented", <<>>, <<223 + k>>)]
               \o [k \in 1 .. 4 |-> Instr("unimplemented", <<>>, <<249 + k>>)]
               \o [k \in 1 .. 4 |-> Instr("undefined", <<>>, <<83 + k>>)]
               \o [k \in 1 .. 7 |-> Instr("undefined", <<>>, <<216 + k>>)]
               \o <<Instr("undefined", <<>>, <<120>>), Instr("undefined", <<>>, <<246>>),
                    Instr("undefined", <<>>, <<247>>), Instr("undefined", <<>>, <<249>>),
                    Instr("undefined", <<>>, <<254>>), Instr("undefined", <<>>, <<255>>)>>)
  \o Guarded(192, Handlers(88, MethodReturnNames))
  \o <<Instr("send", <<0, 0>>, <<128>>), Instr("ReturnTop", <<>>, <<92>>)>>

-----------------------------------------------------------------------------
(* The methods sends find: with a primitive and with a quick one's number in *)
(* each set, and one that makes a block.                                     *)

SqueakPrimitive ==
  <<Instr("CallPrimitive", <<60>>, <<139, 60, 0>>), Instr("specialSend", <<16>>, <<192>>),
    Instr("ReturnTop", <<>>, <<124>>)>>

SqueakQuick ==
  <<Instr("CallPrimitive", <<258>>, <<139, 2, 1>>)>> \o Guarded(152, Handlers(120, MethodReturnNames))
  \o <<Instr("ReturnNil", <<>>, <<123>>)>>

SqueakBlock ==
  <<Over("pushClosure", <<1, 0>>, <<143, 1, 0, 4>>, 4),
    Instr("pushTemporary", <<0>>, <<16>>),
    Over("jumpIfFalse", <<>>, <<152>>, 1),
    Instr("ReturnTrue", <<>>, <<121>>),
    Instr("BlockReturnTop", <<>>, <<125>>),
    Instr("send", <<0, 0>>, <<208>>),
    Instr("ReturnTop", <<>>, <<124>>)>>

SistaPrimitive ==
  <<Instr("CallPrimitive", <<201>>, <<248, 201, 0>>), Instr("send", <<1, 1>>, <<145>>),
    Instr("ReturnTop", <<>>, <<92>>)>>

SistaQuick == <<Instr("CallPrimitive", <<256>>, <<248, 0, 1>>), Instr("ReturnReceiver", <<>>, <<88>>)>>

Texts ==
  [squeak |-> SqueakListing, sista |-> SistaListing, squeakPrimitive |-> SqueakPrimitive,
   squeakQuick |-> SqueakQuick, squeakBlock |-> SqueakBlock,
   sistaPrimitive |-> SistaPrimitive, sistaQuick |-> SistaQuick]

MCEntries   == {"squeak", "sista"}
MCCallees   == {"squeakPrimitive", "squeakQuick", "squeakBlock", "sistaPrimitive", "sistaQuick"}
MCMethods   == MCEntries \cup MCCallees
MCAlternate == {"sista", "sistaPrimitive", "sistaQuick"}

(* A function as a table, that TLC evaluates once. *)
Tabulated(f) == f @@ <<>>

(* Three literals in methods of the one set, two in those of the other. *)
MCInitialPC ==
  Tabulated([m \in MCMethods |-> ((IF m \in MCAlternate THEN 3 ELSE 2) + 1) * 8 + 1])

(* Of instructions first to last of a list, the bytes, and the instruction   *)
(* that begins with each byte.                                               *)
RECURSIVE Bytes(_, _, _)
Bytes(list, first, last) ==
  IF first = last THEN list[first].code
  ELSE Bytes(list, first, (first + last) \div 2) \o Bytes(list, (first + last) \div 2 + 1, last)

RECURSIVE Beginnings(_, _, _)
Beginnings(list, first, last) ==
  IF first = last THEN [k \in DOMAIN list[first].code |-> IF k = 1 THEN first ELSE 0]
  ELSE Beginnings(list, first, (first + last) \div 2)
         \o Beginnings(list, (first + last) \div 2 + 1, last)

(* A sequence at the addresses from first on, a method's trailer after it: a *)
(* wrong pc reads bytes there too.                                           *)
Placed(first, s) ==
  [a \in first .. first + Len(s) - 1 |-> s[a - first + 1]]
    @@ [a \in first .. first + Len(s) + 8 |-> 0]

CodeTable ==
  Tabulated([m \in MCMethods |-> Placed(MCInitialPC[m] - 1, Bytes(Texts[m], 1, Len(Texts[m])))])

IndexAtTable ==
  Tabulated([m \in MCMethods |-> Placed(MCInitialPC[m] - 1, Beginnings(Texts[m], 1, Len(Texts[m])))])

ListingOf(list) ==
  [i \in DOMAIN list |-> [op |-> list[i].op, args |-> list[i].args, to |-> i + 1 + list[i].skip]]

ListingTable ==
  Tabulated([m \in MCMethods |-> LET list == Texts[m] IN Tabulated(ListingOf(list))])
(* By name: TLC evaluates the definition a configuration gives a constant    *)
(* each time it is used, and the tables once.                                *)
MCCode    == CodeTable
MCIndexAt == IndexAtTable
MCListing == ListingTable
=============================================================================
