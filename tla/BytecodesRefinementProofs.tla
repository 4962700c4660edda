----------------------- MODULE BytecodesRefinementProofs -----------------------
(***************************************************************************)
(* The proof that the interpreter reads the bytes of any methods as the    *)
(* lists of instructions they were compiled from: the step of each handler *)
(* is that of the instruction.                                             *)
(***************************************************************************)
EXTENDS BytecodesRefinement, SequenceTheorems, TLAPS

Context == {c \in [method: Methods, block: BOOLEAN, pc: Int] : Place(c.method, c.pc - 1) # 0}
Closure == {c \in [method: Methods, startpc: Int] : Place(c.method, c.startpc - 1) # 0}

(* The registers agree, at the beginning of an instruction.                  *)
AtInstruction ==
  /\ method \in Methods /\ block \in BOOLEAN /\ nextPC \in Int
  /\ setOffset = IF method \in Alternate THEN 256 ELSE 0
  /\ nextBytecode = Code[method][nextPC - 1]
  /\ Place(method, nextPC - 1) # 0

(* So they will be when a context goes on or a block is evaluated.           *)
IInv == AtInstruction /\ senders \in Seq(Context) /\ closures \in Seq(Closure)

-----------------------------------------------------------------------------
(* Instructions *)

(* What is in a method at an address that begins an instruction.             *)
LEMMA Placed ==
  ASSUME NEW m \in Methods, NEW a \in Int, Place(m, a) # 0
  PROVE  Place(m, a) \in Nat \ {0} /\ Encoded(m, a, Place(m, a))
BY CompiledAssumption DEF Place

(* The bit that is tested is set in the larger half of the numbers.          *)
LEMMA InlineBit == \A n \in TwoBytes : Inline(n) <=> Listed!Inline(n)
<1> SUFFICES ASSUME NEW n \in TwoBytes PROVE Inline(n) <=> Listed!Inline(n)
  OBVIOUS
<1>1. n \in Nat /\ n <= 65535
  BY SMT DEF TwoBytes
<1> QED BY <1>1, SMT DEF Inline, Listed!Inline

LEMMA MeaningParts ==
  \A m, i, d, next : Means(m, i, d, next) =>
    /\ Listing[m][i].op = d.op /\ Listing[m][i].args = d.args
    /\ d.bytes \in Nat /\ d.delta \in Int
    /\ d.op = "CallPrimitive" => d.args[1] \in TwoBytes
    /\ GoesOn(d.op) => Place(m, next) = i + 1
    /\ Jumps(d.op) => /\ Listing[m][i].to \in Nat \ {0}
                      /\ Place(m, next + d.delta) = Listing[m][i].to
BY DEF Means

(* The bytecode fetched ahead is decoded like the bytes it was fetched from. *)
LEMMA DecodedHere ==
  ASSUME AtInstruction
  PROVE  Decoded = DecodedAt(method, nextPC - 1)
<1>1. Dispatched = RowAt(method, nextPC - 1)
  BY DEF AtInstruction, Dispatched, RowAt
<1>2. [n \in 1 .. 3 |-> Code[method][nextPC + n - 1]] = [n \in 1 .. 3 |-> Code[method][(nextPC - 1) + n]]
  <2>1. \A n \in 1 .. 3 : nextPC + n - 1 = (nextPC - 1) + n
    BY DEF AtInstruction
  <2> QED BY <2>1
<1> QED BY <1>1, <1>2 DEF Decoded, DecodedAt

(* The instruction of the list is the one the handler carries out, and where *)
(* the handler goes on is where the list does.                               *)
LEMMA InstructionHere ==
  ASSUME AtInstruction
  PROVE  /\ AbstractHere.index \in Nat \ {0}
         /\ Listed!Instruction = Listing[method][AbstractHere.index]
         /\ Means(method, AbstractHere.index, Decoded, PC)
         /\ PC \in Int
<1> DEFINE a == nextPC - 1
           i == AbstractHere.index
<1>1. a \in Int /\ nextPC \in Int /\ method \in Methods /\ i = Place(method, a) /\ i # 0
  BY DEF AtInstruction, AbstractHere
<1>2. Listed!Instruction = Listing[method][i]
  BY DEF Listed!Instruction, AbstractHere
<1>3. a + 1 = nextPC
  BY <1>1
<1> HIDE DEF a, i
<1>4. i \in Nat \ {0} /\ Encoded(method, a, i)
  BY <1>1, Placed
<1>5. DecodedAt(method, a) = Decoded
  BY DecodedHere DEF a
<1>6. Means(method, i, Decoded, a + 1 + Decoded.bytes)
  BY <1>4, <1>5 DEF Encoded
<1>7. Decoded.bytes \in Nat
  BY <1>6, MeaningParts
<1>8. Means(method, i, Decoded, PC)
  BY <1>3, <1>6 DEF PC
<1>9. PC \in Int
  BY <1>1, <1>7 DEF PC
<1> QED BY <1>2, <1>4, <1>8, <1>9 DEF i

-----------------------------------------------------------------------------
(* Where execution goes on *)

LEMMA FetchNextMaps ==
  ASSUME AtInstruction, NEW p, p \in Int, Place(method, p) # 0, FetchNext(p)
  PROVE  /\ AtInstruction'
         /\ AbstractHere' = [AbstractHere EXCEPT !.index = Place(method, p)]
         /\ AbstractCallers' = AbstractCallers
         /\ UNCHANGED <<senders, status>>
<1>1. /\ nextPC' = p + 1 /\ nextBytecode' = Code[method][p]
      /\ UNCHANGED <<method, block, setOffset, senders, status>>
  BY DEF FetchNext
<1>2. nextPC' - 1 = p /\ nextPC' \in Int
  BY <1>1
<1>3. \A m, a : Place(m, a)' = Place(m, a)
  BY DEF Place
<1>4. AtInstruction'
  BY <1>1, <1>2, <1>3 DEF AtInstruction
<1>5. AbstractHere' = [method |-> method, index |-> Place(method, p), block |-> block]
  BY <1>1, <1>2 DEF AbstractHere
<1>6. AbstractCallers' = AbstractCallers
  BY <1>1 DEF AbstractCallers
<1> QED BY <1>1, <1>4, <1>5, <1>6 DEF AbstractHere

(* A context that goes on does so at the instruction it was to go on at.     *)
LEMMA FetchContextMaps ==
  ASSUME NEW c \in Context, FetchContext(c)
  PROVE  /\ AtInstruction'
         /\ AbstractHere' = [method |-> c.method, index |-> Place(c.method, c.pc - 1), block |-> c.block]
         /\ UNCHANGED status
<1>1. /\ method' = c.method /\ block' = c.block /\ nextPC' = c.pc
      /\ setOffset' = IF c.method \in Alternate THEN 256 ELSE 0
      /\ nextBytecode' = Code[c.method][c.pc - 1] /\ UNCHANGED status
  BY DEF FetchContext
<1>2. c.method \in Methods /\ c.block \in BOOLEAN /\ c.pc \in Int /\ Place(c.method, c.pc - 1) # 0
  BY DEF Context
<1>3. \A m, a : Place(m, a)' = Place(m, a)
  BY DEF Place
<1>4. AtInstruction'
  BY <1>1, <1>2, <1>3 DEF AtInstruction
<1> QED BY <1>1, <1>3, <1>4 DEF AbstractHere

LEMMA MethodBegins ==
  ASSUME NEW m \in Methods
  PROVE  /\ MethodContext(m) \in Context
         /\ FetchContext(MethodContext(m)) => AbstractHere' = Listed!FirstOf(m)
<1>1. InitialPC[m] \in Int /\ Place(m, InitialPC[m] - 1) = 1
  BY BytecodesAssumption, CompiledAssumption
<1>2. /\ MethodContext(m).method = m /\ MethodContext(m).block = FALSE
      /\ MethodContext(m).pc = InitialPC[m]
      /\ MethodContext(m) \in [method: Methods, block: BOOLEAN, pc: Int]
  BY <1>1 DEF MethodContext
<1>3. MethodContext(m) \in Context
  BY <1>1, <1>2 DEF Context
<1> QED BY <1>1, <1>2, <1>3, FetchContextMaps DEF Listed!FirstOf

-----------------------------------------------------------------------------
(* Sequences that are mapped element by element *)

Mapped(g, s) == [n \in DOMAIN s |-> g[s[n]]]

IsMap(g, S, T) == g \in [S -> T]

LEMMA MappedIsSeq ==
  ASSUME NEW S, NEW T, NEW g, IsMap(g, S, T), NEW s \in Seq(S)
  PROVE  /\ Mapped(g, s) \in Seq(T) /\ Len(Mapped(g, s)) = Len(s) /\ Len(s) \in Nat
         /\ DOMAIN s = 1 .. Len(s) /\ DOMAIN Mapped(g, s) = 1 .. Len(s)
         /\ \A n \in 1 .. Len(s) : s[n] \in S /\ Mapped(g, s)[n] = g[s[n]]
<1>1. Len(s) \in Nat /\ DOMAIN s = 1 .. Len(s) /\ \A n \in 1 .. Len(s) : s[n] \in S
  BY LenProperties, ElementOfSeq
<1>2. Mapped(g, s) \in [1 .. Len(s) -> T]
  BY <1>1 DEF Mapped, IsMap
<1>3. Mapped(g, s) \in Seq(T)
  BY <1>1, <1>2, SeqDef
<1>4. DOMAIN Mapped(g, s) = 1 .. Len(s)
  BY <1>2
<1>5. Len(Mapped(g, s)) \in Nat /\ DOMAIN Mapped(g, s) = 1 .. Len(Mapped(g, s))
  BY <1>3, LenProperties
<1>6. Len(Mapped(g, s)) = Len(s)
  BY <1>1, <1>4, <1>5
<1> QED BY <1>1, <1>3, <1>4, <1>6 DEF Mapped

LEMMA MappedLen ==
  ASSUME NEW S, NEW T, NEW g, IsMap(g, S, T), NEW s \in Seq(S)
  PROVE  Mapped(g, s) \in Seq(T) /\ Len(Mapped(g, s)) = Len(s)
BY MappedIsSeq

LEMMA MappedElement ==
  ASSUME NEW S, NEW T, NEW g, IsMap(g, S, T), NEW s \in Seq(S), NEW n \in 1 .. Len(s)
  PROVE  s[n] \in S /\ Mapped(g, s)[n] = g[s[n]] /\ g[s[n]] \in T
<1>1. s[n] \in S
  BY ElementOfSeq
<1>2. n \in DOMAIN s
  BY LenProperties
<1> QED BY <1>1, <1>2 DEF Mapped, IsMap

LEMMA MappedAppend ==
  ASSUME NEW S, NEW T, NEW g, IsMap(g, S, T), NEW s \in Seq(S), NEW e \in S
  PROVE  Append(s, e) \in Seq(S) /\ Mapped(g, Append(s, e)) = Append(Mapped(g, s), g[e])
<1> DEFINE u == Append(s, e)
           v == Append(Mapped(g, s), g[e])
<1>1. /\ u \in Seq(S) /\ Len(u) = Len(s) + 1 /\ u[Len(s) + 1] = e
      /\ \A n \in 1 .. Len(s) : u[n] = s[n]
  BY AppendProperties
<1>2. g[e] \in T
  BY DEF IsMap
<1>3. /\ Mapped(g, s) \in Seq(T) /\ Len(Mapped(g, s)) = Len(s) /\ Len(s) \in Nat
      /\ \A n \in 1 .. Len(s) : Mapped(g, s)[n] = g[s[n]]
  <2>1. \A n \in 1 .. Len(s) : Mapped(g, s)[n] = g[s[n]]
    BY MappedElement
  <2>2. Len(s) \in Nat
    BY LenProperties
  <2> QED BY <2>1, <2>2, MappedLen
<1>4. /\ v \in Seq(T) /\ Len(v) = Len(s) + 1 /\ v[Len(s) + 1] = g[e]
      /\ \A n \in 1 .. Len(s) : v[n] = g[s[n]]
  BY <1>2, <1>3, AppendProperties
<1> HIDE DEF u, v
<1>5. /\ Mapped(g, u) \in Seq(T) /\ Len(Mapped(g, u)) = Len(s) + 1
      /\ \A n \in 1 .. Len(s) + 1 : Mapped(g, u)[n] = g[u[n]]
  BY <1>1, MappedIsSeq
<1>6. \A n \in 1 .. Len(s) + 1 : Mapped(g, u)[n] = v[n]
  <2> SUFFICES ASSUME NEW n \in 1 .. Len(s) + 1 PROVE Mapped(g, u)[n] = v[n]
    OBVIOUS
  <2>1. n \in 1 .. Len(s) \/ n = Len(s) + 1
    BY <1>3
  <2> QED BY <1>1, <1>4, <1>5, <2>1
<1>7. Mapped(g, u) = v
  BY <1>4, <1>5, <1>6, SeqEqual
<1> QED BY <1>1, <1>7 DEF u, v

LEMMA MappedSubSeq ==
  ASSUME NEW S, NEW T, NEW g, IsMap(g, S, T), NEW s \in Seq(S), NEW k \in 0 .. Len(s)
  PROVE  SubSeq(s, 1, k) \in Seq(S) /\ Mapped(g, SubSeq(s, 1, k)) = SubSeq(Mapped(g, s), 1, k)
<1> DEFINE u == SubSeq(s, 1, k)
           v == SubSeq(Mapped(g, s), 1, k)
<1>1. /\ Mapped(g, s) \in Seq(T) /\ Len(s) \in Nat
      /\ \A n \in 1 .. Len(s) : s[n] \in S /\ Mapped(g, s)[n] = g[s[n]]
  BY MappedIsSeq
<1>2. k \in Nat /\ \A n \in 1 .. k : n \in 1 .. Len(s) /\ s[n] \in S
  BY <1>1
<1>3. \A n \in 1 .. k : Mapped(g, s)[n] = g[s[n]] /\ g[s[n]] \in T
  BY <1>2, MappedElement
<1>4. 1 \in Int /\ k \in Int /\ (IF 1 <= k THEN k - 1 + 1 ELSE 0) = k /\ k - 1 + 1 = k
      /\ \A n \in 1 .. k : 1 + n - 1 = n
  BY <1>2
<1>5. u \in Seq(S) /\ Len(u) = k /\ \A n \in 1 .. k : u[n] = s[n]
  BY <1>2, <1>4, SubSeqProperties
<1>6. v \in Seq(T) /\ Len(v) = k /\ \A n \in 1 .. k : v[n] = g[s[n]]
  BY <1>3, <1>4, SubSeqProperties
<1> HIDE DEF u, v
<1>7. /\ Mapped(g, u) \in Seq(T) /\ Len(Mapped(g, u)) = k
      /\ \A n \in 1 .. k : Mapped(g, u)[n] = g[u[n]]
  <2>1. /\ Mapped(g, u) \in Seq(T) /\ Len(Mapped(g, u)) = Len(u)
        /\ \A n \in 1 .. Len(u) : Mapped(g, u)[n] = g[u[n]]
    BY <1>5, MappedLen, MappedElement
  <2> QED BY <1>5, <2>1
<1>8. Mapped(g, u) = v
  BY <1>5, <1>6, <1>7, SeqEqual
<1> QED BY <1>5, <1>8 DEF u, v

CallerOf == [c \in Context |->
               [method |-> c.method, index |-> Place(c.method, c.pc - 1), block |-> c.block]]
BlockOf  == [c \in Closure |-> [method |-> c.method, index |-> Place(c.method, c.startpc - 1)]]

LEMMA Functions ==
  /\ IsMap(CallerOf, Context, {CallerOf[c] : c \in Context})
  /\ IsMap(BlockOf, Closure, {BlockOf[c] : c \in Closure})
BY DEF CallerOf, BlockOf, IsMap

LEMMA PlaceIsConstant == \A m, a : Place(m, a)' = Place(m, a)
BY DEF Place

LEMMA CallersMapped ==
  /\ senders \in Seq(Context) => AbstractCallers = Mapped(CallerOf, senders)
  /\ senders' \in Seq(Context) => AbstractCallers' = Mapped(CallerOf, senders')
<1>1. ASSUME senders \in Seq(Context) PROVE AbstractCallers = Mapped(CallerOf, senders)
  <2>1. \A n \in DOMAIN senders : senders[n] \in Context
    BY <1>1, LenProperties, ElementOfSeq
  <2> QED BY <2>1 DEF AbstractCallers, Mapped, CallerOf
<1>2. ASSUME senders' \in Seq(Context) PROVE AbstractCallers' = Mapped(CallerOf, senders')
  <2>1. \A n \in DOMAIN senders' : senders'[n] \in Context
    BY <1>2, LenProperties, ElementOfSeq
  <2> QED BY <2>1, PlaceIsConstant DEF AbstractCallers, Mapped, CallerOf
<1> QED BY <1>1, <1>2

LEMMA BlocksMapped ==
  /\ closures \in Seq(Closure) => AbstractBlocks = Mapped(BlockOf, closures)
  /\ closures' \in Seq(Closure) => AbstractBlocks' = Mapped(BlockOf, closures')
<1>1. ASSUME closures \in Seq(Closure) PROVE AbstractBlocks = Mapped(BlockOf, closures)
  <2>1. \A n \in DOMAIN closures : closures[n] \in Closure
    BY <1>1, LenProperties, ElementOfSeq
  <2> QED BY <2>1 DEF AbstractBlocks, Mapped, BlockOf
<1>2. ASSUME closures' \in Seq(Closure) PROVE AbstractBlocks' = Mapped(BlockOf, closures')
  <2>1. \A n \in DOMAIN closures' : closures'[n] \in Closure
    BY <1>2, LenProperties, ElementOfSeq
  <2> QED BY <2>1, PlaceIsConstant DEF AbstractBlocks, Mapped, BlockOf
<1> QED BY <1>1, <1>2

(* A context is suspended where the caller of the list is.                   *)
LEMMA CallersGrow ==
  ASSUME senders \in Seq(Context), NEW c \in Context, senders' = Append(senders, c)
  PROVE  /\ senders' \in Seq(Context)
         /\ AbstractCallers' = Append(AbstractCallers, CallerOf[c])
<1>1. /\ Append(senders, c) \in Seq(Context)
      /\ Mapped(CallerOf, Append(senders, c)) = Append(Mapped(CallerOf, senders), CallerOf[c])
  BY MappedAppend, Functions
<1> QED BY <1>1, CallersMapped

LEMMA BlocksGrow ==
  ASSUME closures \in Seq(Closure), NEW c \in Closure, closures' = Append(closures, c)
  PROVE  /\ closures' \in Seq(Closure)
         /\ AbstractBlocks' = Append(AbstractBlocks, BlockOf[c])
<1>1. /\ Append(closures, c) \in Seq(Closure)
      /\ Mapped(BlockOf, Append(closures, c)) = Append(Mapped(BlockOf, closures), BlockOf[c])
  BY MappedAppend, Functions
<1> QED BY <1>1, BlocksMapped

LEMMA BlocksKept ==
  ASSUME closures \in Seq(Closure), UNCHANGED closures
  PROVE  closures' \in Seq(Closure) /\ UNCHANGED AbstractBlocks
BY BlocksMapped

LEMMA CallersKept ==
  ASSUME senders \in Seq(Context), UNCHANGED senders
  PROVE  senders' \in Seq(Context) /\ UNCHANGED AbstractCallers
BY CallersMapped

(* A return resumes the caller of the list.                                  *)
LEMMA ReturnMaps ==
  ASSUME IInv, UNCHANGED closures, NEW n \in 0 .. Len(senders), ReturnTo(n)
  PROVE  IInv' /\ Listed!Resume(n)
<1>0. senders \in Seq(Context) /\ closures' \in Seq(Closure) /\ Len(senders) \in Nat
  BY BlocksKept, LenProperties DEF IInv
<1>1. CASE n = 0
  <2>1. /\ status' = "returned" /\ UNCHANGED senders
        /\ UNCHANGED <<method, block, setOffset, nextPC, nextBytecode>>
    BY <1>1 DEF ReturnTo, registers
  <2>2. AtInstruction' /\ UNCHANGED AbstractHere
    BY <2>1, PlaceIsConstant DEF AtInstruction, AbstractHere, IInv
  <2>3. senders' \in Seq(Context) /\ UNCHANGED AbstractCallers
    BY <1>0, <2>1, CallersKept
  <2>4. (status = "running")' = FALSE
    BY <2>1
  <2> QED BY <1>0, <1>1, <2>2, <2>3, <2>4 DEF IInv, Listed!Resume
<1>2. CASE n # 0
  <2> DEFINE k == n - 1
  <2>1. n \in 1 .. Len(senders) /\ k \in 0 .. Len(senders)
    BY <1>0, <1>2
  <2>2. FetchContext(senders[n]) /\ senders' = SubSeq(senders, 1, k)
    BY <1>2 DEF ReturnTo
  <2> HIDE DEF k
  <2>3. senders[n] \in Context
    BY <1>0, <2>1, ElementOfSeq
  <2>4. /\ AtInstruction' /\ UNCHANGED status
        /\ AbstractHere' = CallerOf[senders[n]]
    BY <2>2, <2>3, FetchContextMaps DEF CallerOf
  <2>5. /\ senders' \in Seq(Context)
        /\ Mapped(CallerOf, senders') = SubSeq(Mapped(CallerOf, senders), 1, k)
    BY <1>0, <2>1, <2>2, MappedSubSeq, Functions
  <2>6. AbstractCallers' = SubSeq(AbstractCallers, 1, k)
    BY <1>0, <2>5, CallersMapped
  <2>7. AbstractCallers[n] = CallerOf[senders[n]]
    BY <1>0, <2>1, CallersMapped, MappedElement, Functions
  <2> QED BY <1>0, <1>2, <2>4, <2>5, <2>6, <2>7 DEF IInv, Listed!Resume, Listed!Activate, k
<1> QED BY <1>1, <1>2

-----------------------------------------------------------------------------
(* The instruction that is carried out *)

LEMMA Here ==
  ASSUME AtInstruction
  PROVE  /\ Listed!Instruction.op = Decoded.op /\ Listed!Instruction.args = Decoded.args
         /\ AbstractHere.index \in Nat \ {0}
         /\ PC \in Int /\ PC + Decoded.delta \in Int
         /\ Decoded.op = "CallPrimitive" => Decoded.args[1] \in TwoBytes
         /\ GoesOn(Decoded.op) =>
              Place(method, PC) = AbstractHere.index + 1 /\ Place(method, PC) # 0
         /\ Jumps(Decoded.op) =>
              /\ Place(method, PC + Decoded.delta) = Listed!Instruction.to
              /\ Place(method, PC + Decoded.delta) # 0
<1> DEFINE i == AbstractHere.index
<1>1. /\ i \in Nat \ {0} /\ Listed!Instruction = Listing[method][i]
      /\ Means(method, i, Decoded, PC) /\ PC \in Int
  BY InstructionHere
<1> HIDE DEF i
<1> QED BY <1>1, MeaningParts DEF i

LEMMA Executed ==
  ASSUME AtInstruction, NEW ops, Run(ops)
  PROVE  Listed!Execute(ops) /\ Decoded.op \in ops /\ status = "running"
BY Here DEF Run, Listed!Execute

LEMMA NextMaps ==
  ASSUME IInv, GoesOn(Decoded.op), FetchNext(PC), UNCHANGED closures
  PROVE  IInv' /\ Listed!GoTo(AbstractHere.index + 1) /\ UNCHANGED AbstractBlocks
<1>1. PC \in Int /\ Place(method, PC) # 0 /\ Place(method, PC) = AbstractHere.index + 1
  BY Here DEF IInv
<1>2. /\ AtInstruction' /\ AbstractHere' = [AbstractHere EXCEPT !.index = Place(method, PC)]
      /\ AbstractCallers' = AbstractCallers /\ UNCHANGED <<senders, status>>
  BY <1>1, FetchNextMaps DEF IInv
<1>3. IInv' /\ UNCHANGED AbstractBlocks
  BY <1>2, BlocksKept DEF IInv
<1> QED BY <1>1, <1>2, <1>3 DEF Listed!GoTo

LEMMA TargetMaps ==
  ASSUME IInv, Jumps(Decoded.op), FetchNext(PC + Decoded.delta)
  PROVE  /\ AtInstruction' /\ senders' \in Seq(Context)
         /\ Listed!GoTo(Listed!Instruction.to)
<1> DEFINE p == PC + Decoded.delta
<1>1. p \in Int /\ Place(method, p) # 0 /\ Place(method, p) = Listed!Instruction.to
  BY Here DEF IInv
<1> HIDE DEF p
<1>2. FetchNext(p)
  BY DEF p
<1>3. /\ AtInstruction' /\ AbstractHere' = [AbstractHere EXCEPT !.index = Place(method, p)]
      /\ AbstractCallers' = AbstractCallers /\ UNCHANGED <<senders, status>>
  BY <1>1, <1>2, FetchNextMaps DEF IInv
<1> QED BY <1>1, <1>3 DEF Listed!GoTo, IInv

(* A context suspended after an instruction goes on at the next one.         *)
LEMMA SuspendedHere ==
  ASSUME AtInstruction, GoesOn(Decoded.op)
  PROVE  /\ Stored(PC) \in Context
         /\ CallerOf[Stored(PC)] = [AbstractHere EXCEPT !.index = AbstractHere.index + 1]
<1>1. PC \in Int /\ Place(method, PC) # 0 /\ Place(method, PC) = AbstractHere.index + 1
  BY Here
<1>2. /\ Stored(PC).method = method /\ Stored(PC).block = block
      /\ Stored(PC).pc - 1 = PC /\ Stored(PC) \in [method: Methods, block: BOOLEAN, pc: Int]
  BY <1>1 DEF Stored, AtInstruction
<1>3. Stored(PC) \in Context
  BY <1>1, <1>2 DEF Context
<1>4. CallerOf[Stored(PC)] = [method |-> method, index |-> Place(method, PC), block |-> block]
  BY <1>2, <1>3 DEF CallerOf
<1> QED BY <1>1, <1>3, <1>4 DEF AbstractHere

-----------------------------------------------------------------------------
(* One lemma for each action *)

LEMMA OperationMaps == ASSUME IInv, Operation PROVE IInv' /\ Listed!Operation
<1>1. /\ Decoded.op \notin Control /\ Run({Decoded.op}) /\ FetchNext(PC) /\ UNCHANGED closures
      /\ AtInstruction
  BY DEF Operation, IInv
<1>2. /\ Listed!Execute({Listed!Instruction.op}) /\ status = "running"
      /\ Listed!Instruction.op = Decoded.op
  BY <1>1, Executed, Here
<1>3. GoesOn(Decoded.op)
  BY <1>1 DEF GoesOn, Control, Failing
<1>4. Listed!Instruction.op \notin Listed!Control \cup Listed!Illegal
  BY <1>1, <1>2 DEF Listed!Control, Listed!Illegal, Control, Failing, Sends, Branches,
    MethodReturns, BlockReturns, Listed!Sends, Listed!Branches, Listed!MethodReturns,
    Listed!BlockReturns
<1> QED BY <1>1, <1>2, <1>3, <1>4, NextMaps DEF Listed!Operation

LEMMA JumpMaps == ASSUME IInv, Jump PROVE IInv' /\ Listed!Jump
<1>1. Listed!Execute({"jump"}) /\ Jumps(Decoded.op)
  BY Executed DEF IInv, Jump, Jumps
<1>2. UNCHANGED closures /\ FetchNext(PC + Decoded.delta)
  BY DEF Jump
<1> QED BY <1>1, <1>2, TargetMaps, BlocksKept DEF IInv, Listed!Jump

LEMMA BranchMaps == ASSUME IInv, JumpIfBoolean PROVE IInv' /\ Listed!Branch
<1>1. /\ Listed!Execute(Listed!Branches) /\ Jumps(Decoded.op) /\ GoesOn(Decoded.op)
  <2>1. Run(Branches) /\ AtInstruction
    BY DEF IInv, JumpIfBoolean
  <2>2. Listed!Execute(Branches) /\ Decoded.op \in Branches
    BY <2>1, Executed
  <2>3. Branches = Listed!Branches
    BY DEF Branches, Listed!Branches
  <2> QED BY <2>2, <2>3 DEF Jumps, GoesOn, Branches, MethodReturns, BlockReturns
<1>2. UNCHANGED closures
  BY DEF JumpIfBoolean
<1>3. CASE FetchNext(PC)
  BY <1>1, <1>2, <1>3, NextMaps DEF Listed!Branch
<1>4. CASE FetchNext(PC + Decoded.delta)
  BY <1>1, <1>2, <1>4, TargetMaps, BlocksKept DEF IInv, Listed!Branch
<1> QED BY <1>3, <1>4 DEF JumpIfBoolean

LEMMA PushClosureMaps == ASSUME IInv, PushClosure PROVE IInv' /\ Listed!PushClosure
<1> DEFINE c == [method |-> method, startpc |-> PC + 1]
<1>1. /\ Run({"pushClosure"}) /\ FetchNext(PC + Decoded.delta)
      /\ closures' = Append(closures, c) /\ AtInstruction
  BY DEF PushClosure, IInv
<1>2. /\ Listed!Execute({"pushClosure"}) /\ Decoded.op = "pushClosure"
  BY <1>1, Executed
<1>3. Jumps(Decoded.op) /\ GoesOn(Decoded.op)
  BY <1>2 DEF Jumps, GoesOn, MethodReturns, BlockReturns
<1>4. PC \in Int /\ Place(method, PC) # 0 /\ Place(method, PC) = AbstractHere.index + 1
  BY <1>1, <1>3, Here
<1>5. method \in Methods /\ AbstractHere.method = method
  BY <1>1 DEF AtInstruction, AbstractHere
<1>6. /\ c.method = method /\ c.startpc - 1 = PC /\ c \in [method: Methods, startpc: Int]
  BY <1>4, <1>5
<1> HIDE DEF c
<1>7. c \in Closure
  BY <1>4, <1>6 DEF Closure
<1>8. BlockOf[c] = [method |-> AbstractHere.method, index |-> AbstractHere.index + 1]
  BY <1>4, <1>5, <1>6, <1>7 DEF BlockOf
<1>9. closures' \in Seq(Closure) /\ AbstractBlocks' = Append(AbstractBlocks, BlockOf[c])
  BY <1>1, <1>7, BlocksGrow DEF IInv
<1> QED BY <1>1, <1>2, <1>3, <1>8, <1>9, TargetMaps DEF IInv, Listed!PushClosure

LEMMA SendMaps == ASSUME IInv, Send PROVE IInv' /\ Listed!Send
<1>1. PICK m \in Callees : FetchContext(MethodContext(m))
  BY DEF Send
<1>2. Run(Sends) /\ senders' = Append(senders, Stored(PC)) /\ UNCHANGED closures /\ AtInstruction
  BY DEF Send, IInv
<1>3. Listed!Execute(Listed!Sends) /\ GoesOn(Decoded.op)
  <2>1. Listed!Execute(Sends) /\ Decoded.op \in Sends
    BY <1>2, Executed
  <2>2. Sends = Listed!Sends
    BY DEF Sends, Listed!Sends
  <2> QED BY <2>1, <2>2 DEF GoesOn, Sends, MethodReturns, BlockReturns
<1>4. m \in Methods
  BY BytecodesAssumption
<1>5. /\ AtInstruction' /\ UNCHANGED status /\ AbstractHere' = Listed!FirstOf(m)
  BY <1>1, <1>4, MethodBegins, FetchContextMaps
<1>6. /\ senders' \in Seq(Context)
      /\ AbstractCallers' =
           Append(AbstractCallers, [AbstractHere EXCEPT !.index = AbstractHere.index + 1])
  BY <1>2, <1>3, SuspendedHere, CallersGrow DEF IInv
<1>7. Listed!Activate(Listed!FirstOf(m),
        Append(AbstractCallers, [AbstractHere EXCEPT !.index = AbstractHere.index + 1]))
  BY <1>5, <1>6 DEF Listed!Activate
<1> QED BY <1>2, <1>3, <1>4, <1>5, <1>6, <1>7, BlocksKept DEF IInv, Listed!Send

(* An instruction of a primitive that is not inlined.                        *)
LEMMA PrimitiveHere ==
  ASSUME AtInstruction, Run({"CallPrimitive"}), ~Inline(Decoded.args[1])
  PROVE  /\ Listed!Execute({"CallPrimitive"}) /\ GoesOn(Decoded.op)
         /\ ~Listed!Inline(Listed!Instruction.args[1])
         /\ Listed!Quick(Listed!Instruction.args[1]) <=> Quick(Decoded.args[1])
<1>1. Listed!Execute({"CallPrimitive"}) /\ Decoded.op = "CallPrimitive"
  BY Executed
<1>2. Listed!Instruction.args = Decoded.args /\ Decoded.args[1] \in TwoBytes
  BY <1>1, Here
<1>3. ~Listed!Inline(Listed!Instruction.args[1])
  BY <1>2, InlineBit
<1> QED BY <1>1, <1>2, <1>3 DEF GoesOn, MethodReturns, BlockReturns, Quick, Listed!Quick

LEMMA PassPrimitiveMaps == ASSUME IInv, PassPrimitive PROVE IInv' /\ Listed!CallPrimitive
<1>1. /\ Run({"CallPrimitive"}) /\ ~Inline(Decoded.args[1]) /\ FetchNext(PC)
      /\ UNCHANGED closures /\ AtInstruction
  BY DEF PassPrimitive, IInv
<1> QED BY <1>1, PrimitiveHere, NextMaps DEF Listed!CallPrimitive

LEMMA SucceedPrimitiveMaps == ASSUME IInv, SucceedPrimitive PROVE IInv' /\ Listed!CallPrimitive
<1>1. /\ Run({"CallPrimitive"}) /\ ~Inline(Decoded.args[1]) /\ ~Quick(Decoded.args[1])
      /\ UNCHANGED closures /\ AtInstruction
  BY DEF SucceedPrimitive, IInv
<1>2. /\ Listed!Execute({"CallPrimitive"})
      /\ ~Listed!Inline(Listed!Instruction.args[1]) /\ ~Listed!Quick(Listed!Instruction.args[1])
  BY <1>1, PrimitiveHere
<1>3. closures' \in Seq(Closure) /\ UNCHANGED AbstractBlocks
  BY <1>1, BlocksKept DEF IInv
<1>4. CASE ReturnTo(Len(senders))
  <2>1. Len(senders) \in 0 .. Len(senders) /\ Len(senders) = Len(AbstractCallers)
    BY LenProperties, CallersMapped, MappedLen, Functions DEF IInv
  <2>2. IInv' /\ Listed!Resume(Len(AbstractCallers))
    BY <1>1, <1>4, <2>1, ReturnMaps
  <2> QED BY <1>2, <1>3, <2>2 DEF Listed!CallPrimitive
<1>5. CASE \E m \in Callees : FetchContext(MethodContext(m)) /\ UNCHANGED senders
  <2>1. PICK m \in Callees : FetchContext(MethodContext(m)) /\ UNCHANGED senders
    BY <1>5
  <2>2. m \in Methods
    BY BytecodesAssumption
  <2>3. /\ AtInstruction' /\ UNCHANGED status /\ AbstractHere' = Listed!FirstOf(m)
    BY <2>1, <2>2, MethodBegins, FetchContextMaps
  <2>4. senders' \in Seq(Context) /\ UNCHANGED AbstractCallers
    BY <2>1, CallersKept DEF IInv
  <2>5. Listed!Activate(Listed!FirstOf(m), AbstractCallers)
    BY <2>3, <2>4 DEF Listed!Activate
  <2> QED BY <1>2, <1>3, <2>2, <2>3, <2>4, <2>5 DEF IInv, Listed!CallPrimitive
<1>6. CASE \E c \in DOMAIN closures :
             FetchContext(ClosureContext(closures[c])) /\ UNCHANGED senders
  <2>1. PICK c \in DOMAIN closures :
               FetchContext(ClosureContext(closures[c])) /\ UNCHANGED senders
    BY <1>6
  <2>2. closures \in Seq(Closure) /\ c \in 1 .. Len(closures)
    BY LenProperties DEF IInv
  <2>3. closures[c] \in Closure
    BY <2>2, ElementOfSeq
  <2> DEFINE d == ClosureContext(closures[c])
  <2>4. /\ d.method = closures[c].method /\ d.block = TRUE /\ d.pc = closures[c].startpc
        /\ d \in [method: Methods, block: BOOLEAN, pc: Int]
    BY <2>3 DEF Closure, ClosureContext
  <2>5. FetchContext(d)
    BY <2>1
  <2> HIDE DEF d
  <2>6. d \in Context
    BY <2>3, <2>4 DEF Context, Closure
  <2>7. /\ AtInstruction' /\ UNCHANGED status
        /\ AbstractHere' = [method |-> closures[c].method,
                           index |-> Place(closures[c].method, closures[c].startpc - 1),
                           block |-> TRUE]
    BY <2>4, <2>5, <2>6, FetchContextMaps
  <2>8. c \in DOMAIN AbstractBlocks
    BY <2>1 DEF AbstractBlocks
  <2>9. AbstractBlocks[c] =
          [method |-> closures[c].method,
           index |-> Place(closures[c].method, closures[c].startpc - 1)]
    BY <2>1 DEF AbstractBlocks
  <2>10. senders' \in Seq(Context) /\ UNCHANGED AbstractCallers
    BY <2>1, CallersKept DEF IInv
  <2>11. Listed!Activate([method |-> AbstractBlocks[c].method, index |-> AbstractBlocks[c].index,
                          block |-> TRUE], AbstractCallers)
    BY <2>7, <2>9, <2>10 DEF Listed!Activate
  <2> QED BY <1>2, <1>3, <2>7, <2>8, <2>10, <2>11 DEF IInv, Listed!CallPrimitive
<1> QED BY <1>4, <1>5, <1>6 DEF SucceedPrimitive

LEMMA LocalReturnMaps == ASSUME IInv, LocalReturn PROVE IInv' /\ Listed!Return
<1>1. /\ Run(BlockReturns) \/ Run(MethodReturns)
      /\ ReturnTo(Len(senders)) /\ UNCHANGED closures /\ AtInstruction
  BY DEF LocalReturn, IInv
<1>2. Listed!Execute(Listed!MethodReturns \cup Listed!BlockReturns)
  <2>1. Run(MethodReturns \cup BlockReturns)
    BY <1>1 DEF Run
  <2>2. MethodReturns \cup BlockReturns = Listed!MethodReturns \cup Listed!BlockReturns
    BY DEF MethodReturns, BlockReturns, Listed!MethodReturns, Listed!BlockReturns
  <2> QED BY <1>1, <2>1, <2>2, Executed
<1>3. Len(senders) \in 0 .. Len(senders) /\ Len(senders) = Len(AbstractCallers)
  BY LenProperties, CallersMapped, MappedLen, Functions DEF IInv
<1>4. IInv' /\ Listed!Resume(Len(AbstractCallers))
  BY <1>1, <1>3, ReturnMaps
<1> QED BY <1>1, <1>2, <1>4, BlocksKept DEF IInv, Listed!Return

LEMMA NonLocalReturnMaps == ASSUME IInv, NonLocalReturn PROVE IInv' /\ Listed!Return
<1>1. PICK n \in 0 .. Len(senders) : ReturnTo(n)
  BY DEF NonLocalReturn
<1>2. Run(MethodReturns) /\ block /\ UNCHANGED closures /\ AtInstruction
  BY DEF NonLocalReturn, IInv
<1>3. Decoded.op \in MethodReturns /\ MethodReturns = Listed!MethodReturns
  BY <1>2, Executed DEF MethodReturns, Listed!MethodReturns
<1>4. Listed!Execute(Listed!MethodReturns \cup Listed!BlockReturns)
  BY <1>2, <1>3, Executed DEF Listed!Execute
<1>5. Listed!Instruction.op \in Listed!MethodReturns /\ AbstractHere.block
  BY <1>2, <1>3, Here DEF AbstractHere
<1>6. n \in 0 .. Len(AbstractCallers)
  BY CallersMapped, MappedLen, Functions DEF IInv
<1>7. IInv' /\ Listed!Resume(n)
  BY <1>1, <1>2, ReturnMaps
<1> QED BY <1>2, <1>4, <1>5, <1>6, <1>7, BlocksKept DEF IInv, Listed!Return

(* The state in which the loop has ended is that in which it stopped.        *)
LEMMA StopMaps ==
  ASSUME IInv, Fail \/ UndefinedBytecode
  PROVE  IInv' /\ Listed!Stop
<1>1. /\ status = "running" /\ Decoded.op \notin {"jump", "Nop"} /\ status' # "running"
      /\ UNCHANGED <<method, block, setOffset, nextPC, nextBytecode, senders, closures, executed>>
  BY DEF Fail, UndefinedBytecode, registers
<1>2. IInv' /\ UNCHANGED <<AbstractHere, AbstractCallers, AbstractBlocks>>
  BY <1>1, PlaceIsConstant, CallersKept, BlocksKept DEF IInv, AtInstruction, AbstractHere
<1>3. Listed!Instruction.op = Decoded.op
  BY Here DEF IInv
<1> QED BY <1>1, <1>2, <1>3 DEF Listed!Stop

LEMMA Stutters == ASSUME IInv, UNCHANGED vars PROVE IInv' /\ UNCHANGED Listed!vars
<1>1. UNCHANGED <<method, block, setOffset, nextPC, nextBytecode, senders, closures, executed, status>>
  BY DEF vars
<1>2. IInv' /\ UNCHANGED <<AbstractHere, AbstractCallers, AbstractBlocks>>
  BY <1>1, PlaceIsConstant, CallersKept, BlocksKept DEF IInv, AtInstruction, AbstractHere
<1> QED BY <1>1, <1>2 DEF Listed!vars

LEMMA Begins == ASSUME Init PROVE IInv /\ Listed!Init
<1>1. /\ method \in Methods /\ block = FALSE
      /\ setOffset = IF method \in Alternate THEN 256 ELSE 0
      /\ nextPC = InitialPC[method] /\ nextBytecode = Code[method][InitialPC[method] - 1]
      /\ senders = <<>> /\ closures = <<>>
      /\ executed = [op |-> "none", args |-> <<>>] /\ status = "running"
  BY BytecodesAssumption DEF Init
<1>2. InitialPC[method] \in Int /\ Place(method, InitialPC[method] - 1) = 1
  BY <1>1, BytecodesAssumption, CompiledAssumption
<1>3. AtInstruction
  <2>1. nextPC - 1 = InitialPC[method] - 1 /\ nextPC \in Int /\ block \in BOOLEAN
    BY <1>1, <1>2
  <2>2. Code[method][nextPC - 1] = nextBytecode /\ Place(method, nextPC - 1) # 0
    BY <1>1, <1>2, <2>1
  <2> QED BY <1>1, <2>1, <2>2 DEF AtInstruction
<1>4. AbstractHere = Listed!FirstOf(method)
  BY <1>1, <1>2 DEF AbstractHere, Listed!FirstOf
<1>5. AbstractCallers = <<>> /\ AbstractBlocks = <<>>
  BY <1>1 DEF AbstractCallers, AbstractBlocks
<1>6. senders \in Seq(Context) /\ closures \in Seq(Closure)
  BY <1>1, EmptySeq
<1> QED BY <1>1, <1>3, <1>4, <1>5, <1>6 DEF IInv, Listed!Init

LEMMA Steps == IInv /\ [Next]_vars => IInv' /\ [Listed!Next]_(Listed!vars)
<1> SUFFICES ASSUME IInv, [Next]_vars PROVE IInv' /\ (Listed!Next \/ UNCHANGED Listed!vars)
  OBVIOUS
<1>1. CASE Operation
  BY <1>1, OperationMaps DEF Listed!Next
<1>2. CASE Jump
  BY <1>2, JumpMaps DEF Listed!Next
<1>3. CASE JumpIfBoolean
  BY <1>3, BranchMaps DEF Listed!Next
<1>4. CASE PushClosure
  BY <1>4, PushClosureMaps DEF Listed!Next
<1>5. CASE Send
  BY <1>5, SendMaps DEF Listed!Next
<1>6. CASE PassPrimitive
  BY <1>6, PassPrimitiveMaps DEF Listed!Next
<1>7. CASE SucceedPrimitive
  BY <1>7, SucceedPrimitiveMaps DEF Listed!Next
<1>8. CASE LocalReturn
  BY <1>8, LocalReturnMaps DEF Listed!Next
<1>9. CASE NonLocalReturn
  BY <1>9, NonLocalReturnMaps DEF Listed!Next
<1>10. CASE Fail \/ UndefinedBytecode
  BY <1>10, StopMaps DEF Listed!Next
<1>11. CASE UNCHANGED vars
  BY <1>11, Stutters
<1> QED BY <1>1, <1>2, <1>3, <1>4, <1>5, <1>6, <1>7, <1>8, <1>9, <1>10, <1>11 DEF Next

(* However many methods there are and whatever they say, provided that their *)
(* bytes are those of their lists of instructions, the interpreter executes  *)
(* the lists: no form of an operand, jump, send, block or return leaves the  *)
(* program counter beside an instruction or at the wrong one.                *)
THEOREM ExecutesTheLists == Spec => ImplementsInstructions
<1>1. Init => IInv /\ Listed!Init
  BY Begins
<1>2. IInv /\ [Next]_vars => IInv' /\ [Listed!Next]_(Listed!vars)
  BY Steps
<1> QED BY <1>1, <1>2, PTL DEF Spec, ImplementsInstructions, Listed!Spec
=============================================================================
