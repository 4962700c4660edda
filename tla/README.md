# A TLA+ verification of Crank VM

Crank VM is a virtual machine for Smalltalk images in the 64-bit Spur format.
It loads an image into an object heap, finds a context to start from and
interprets the bytecodes of the image's methods.  It is single-threaded and has
no garbage collector and no process switching yet; what is hard about it is
not concurrency but long sequences of legal steps: activations that replace,
suspend and abandon each other, state that is cached in registers and written
back later, memory whose only structure is in its own words, one header field
that serves both as identity hash and as class index, an image moved to other
addresses, and numbers and indices at the edge of their encodings.

## Inventory

| Component | State | Operations | Interacts with |
|---|---|---|---|
| Bytecode interpreter (`vm/interpreter.c`, `vm/interpreter-internal.h`) | registers `pc`, `nextPC`, `stackPointer`, `stackLimit`, the active context and its method | the bytecodes of the SqueakV3PlusClosures and SistaV1 sets; fetch and store of the context state; sends; local and non-local returns | contexts in the heap, method lookup, primitives |
| Contexts and closures (`vm/special-objects.c`, `include/crank-vm/special-objects.h`) | `MethodContext` objects (sender, pc, stackp, method, closureOrNil, receiver, slots), `BlockClosure` objects | construction for a method, a block or an entry message; unwind test | interpreter, block and message primitives |
| Primitives (`vm/*-primitives.c`, `include/crank-vm/interpreter.h`) | a primitive context per call: arguments, result, error, replacement context | fail, return, replace the context; arithmetic, at:, at:put:, new, copy, hash, block value, perform, semaphores, files, time | interpreter, heap, object model |
| Method lookup (`crankvm_Behavior_lookupSelector`, `crankvm_MethodDictionary_atOrNil`) | method dictionaries (read only), the selector's hash | lookup along the superclass chain, open-addressing search | identity hashes |
| Object model (`vm/object-model.c`, `include/crank-vm/objectmodel.h`) | object headers: slot count, identity hash, format, class index; tagged words | size of an object, class of an object, class test, identity hash, boxing of integers and floats | heap, class table |
| Object heap (`vm/heap.c`) | one segment: address, size, allocated capacity | allocation, copy, iterator, successor of an object | everything that creates objects |
| Image loader (`vm/image.c`, `vm/read-memory-stream.h`, `crankvm_heap_loadImageContent`) | the stream position, segment infos, the roots | header parsing, loading and joining of segments, swizzling, roots and class table | heap, object model |
| VM context (`vm/context.c`) | heap, roots, last hash, class table pages | create, destroy, set the capacity, load, run | all of the above |
| Bytecode sets (`vm/*BytecodeSetTable.inc`) | - | for each byte the handler and its implicit operand | included by the interpreter's run loop |
| Semaphores (`vm/scheduling-primitives.c`) | excess signals and the list of waiters | signal, wait | interpreter |
| File plugin, external primitives, clock, command line, table of primitives | - | - | operating system |

### What is hard, and what makes each component correct

* **Interpreter.**  The state of the running activation lives in registers, of
  all others in their context objects; every send, primitive and return moves
  between the two.  Correct means: registers always describe the active
  context; a suspended context keeps its state; a return continues where it
  should, in a context that can take the value; the search of a non-local
  return ends; and all of it looks like a stack of frames.
* **Instructions.**  The program counter is a register over raw bytes; operands
  follow a bytecode in five encodings, jumps are relative to the byte after
  their operands, contexts and closures keep a pc that counts from one, and the
  bytecode set changes with the method.  Correct means: every method is executed
  as the list of instructions it was compiled from.
* **Operands.**  Slots are reused without being cleared, arguments are popped
  last first, temporaries may live in a vector shared with blocks.  Correct
  means: every activation behaves as one sequence of values.
* **Object model.**  Identity hashes are given on demand, from the range that
  class table indices come from.  Correct means: hashes are stable, an object
  never changes class, and the class test recognises exactly the classes.
* **Method lookup.**  Correct means: the method of the first class that has
  the selector, whatever the selector's hash, and termination.
* **Heap.**  Objects are recognised only by walking from header to header.
  Correct means: the objects tile memory, each header decodes to what was
  asked for, and the walk visits each object once.
* **Image loader.**  Correct means: each reference is moved once and nothing
  else is, what is run is a heap that was relocated to its end, and its roots
  are those of that heap.
* **Integer and float primitives.**  Correct means: answers are exact, in their
  one form, a primitive fails exactly for what it cannot take, and rounding
  never turns a comparison round.
* **Indexed access.**  Correct means: only elements of the object are touched,
  what was stored is read, and named variables and method headers stay.
* **Semaphores** only count signals as long as there is no process switching.

`PROJECT.json` lists the hazards one by one with their lines.

## Modules

| Module | Models | Checked by | Proved in |
|---|---|---|---|
| `Interpreter` | the activation machinery | `MCInterpreter` | `InterpreterProofs` |
| `ActivationStack` | its abstract specification: a stack of frames | | |
| `InterpreterRefinement` | the mapping from contexts and registers to frames | `MCInterpreter` | `InterpreterProofs` |
| `Bytecodes` | the bytes of methods, operands and program counter, both bytecode sets | `MCBytecodes` | `BytecodesRefinementProofs` |
| `Instructions` | their abstract specification: lists of instructions | | |
| `BytecodesRefinement` | the mapping from addresses to places in the lists | | |
| `Frames` | the values in the slots of contexts | `MCFrames` | `FramesProofs` |
| `OperandStacks` | their abstract specification: sequences of values | | |
| `FramesRefinement` | the mapping from live slots to sequences | `MCFrames` | `FramesProofs` |
| `ObjectIdentity` | identity hashes, class table, `new`, copies | `MCObjectIdentity` | `IdentityAndLookupProofs` |
| `MethodLookup` | lookup and method dictionaries | itself | `IdentityAndLookupProofs` |
| `Heap` | allocation, object layout, copy, iterator | `MCHeap` | `HeapProofs` |
| `ImageLoad` | loading, relocation, roots, repeated loads, run | `MCImageLoad` | `ImageLoadProofs` |
| `PrimitiveContext` | what primitives on numbers share: operands, error, result | with the next two | |
| `Immediates`, `Arithmetic` | tagged words, boxing, the integer, identity and character primitives | itself | `ArithmeticProofs` |
| `SmallFloat`, `FloatPrimitives` | floats as tagged words, the float primitives | `MCFloatPrimitives` | `ArithmeticProofs` |
| `IndexedAccess` | `at:`, `at:put:`, `size` and their relatives | `MCIndexedAccess` | `IndexedAccessProofs` |

`Interpreter`, `Frames` and `Bytecodes` look at the same handlers from three
sides: the first has contexts, registers and control and neither values nor
bytes, the second has the values and leaves out the pc and method returns from
blocks, the third has the bytes and leaves a condition, a check of an operand
and the target of a non-local return open.  Each implements an abstract machine
without registers, slots or addresses.  A send's choice of method, left open in
all, is `MethodLookup`.

### Interpreter

`contexts` and `closures` are the heap's context and closure objects, numbered
in the order of their creation; `reg` is the interpreter's state structure;
`walk` holds the two locals of the search of a non-local return, and `status`
what the run loop is doing or how it ended.  Each action is one iteration of the
run loop: the whole handler with every push, pop, store and fetch it makes, and
one outcome per early return.  `Stored` is `storeMethodContextState`, `Fetched`
is `fetchMethodContext` (what it leaves behind when its tests fail included),
`ReturnInto` is `returnOopActivatingContext`, which ignores the fetch's error.
The search of a non-local return is the one loop whose iterations are steps of
their own (`WalkStep`), so that its end is a liveness property.

Abstracted: operand values, bytes of instructions, which `Bytecodes` has (a
position of the code is an instruction, and any bytecode may come next; the two exceptions are the
CallPrimitive bytecode, which is the first of its method, and the code of a
block, which lies inside its method's), names, printing.  A send chooses its
method nondeterministically: `MethodLookup` says which one it is.  It is assumed
that no program writes the named fields of a context, which a method of the
image's Context class could do through PopStoreReceiverVariable.

Initial states: the entry message (a method or, when the entry object is a
block, the block itself, created in a context with a chain of senders of its
own), or a suspended context of the image's active process with such a chain
under it.

### Bytecodes

`nextPC` and `nextBytecode` are the registers, `setOffset` the offset of the
active bytecode set; `pc` is written by each handler before it reads it and is
local to the action.  `SqueakV3` and `SistaV1` are the two tables, `Dispatched`
the switch over both, `Operands` what the handler does with its implicit operand
and the bytes it fetches, one line for each handler.  `senders` and `closures`
are what the pc is stored in and fetched from.  `LeftToRight` is the order in
which the build evaluates the two `fetchByte()` calls of one expression
(`vm/interpreter.c:1138` and `1225`), which C leaves open.

`Instructions` has no bytes: a method is a list of instructions with operands,
and a jump names the instruction it goes to.  Given are, in
`BytecodesRefinement`, the list and which address begins which instruction;
`CompiledAssumption` says that the bytes at an address decode to the
instruction, that the next one begins where its operands end and that a jump
leads to its target.  That is what a compiler promises, and in the run TLC
evaluates it on every method.  The refinement then says that the interpreter
never leaves the beginnings of instructions, whatever calls, returns and blocks
of the two sets come in between, and goes on at the right one.

### Frames

`contexts` have their slots, a saved stackp, a sender and a receiver; `active`
and `sp` are the registers; `objects` are the vectors and closures a program
makes, `globals` the values of literal variables.  A slot that is popped keeps
its value, as in the code (`PushNewArray`, for instance, takes its operands top
first and only lowers the stack pointer).  `OperandStacks` has no slots at all,
so the refinement says that no such left-over is ever read.  Its activations are
numbered, callees above their callers, and the mapping takes the numbers of the
contexts; the chain of senders is the smallest set that holds the active context
and the senders of its members, as in `InterpreterRefinement`.  Three accesses of
the interpreter are not checked against the size of the object (an element of a
remote vector, and a receiver variable in operations 5 and 6 of
DoubleExtendedDoAnything); C gives them no meaning, and the model stops there.

### ObjectIdentity

`hash` and `classIndex` are the two header fields, `lastHash` the generator's
state; `maker` and `answer` are history variables.  `HashOf` is
`crankvm_object_getIdentityHash` with its truncation to the field.  The class
table is a constant: no code adds to it (`getBehaviorHash` aborts where it
would).  Pages after the first nil page are not counted, as the loader does.

### MethodLookup

One step is one iteration of a loop: up the superclass chain, then the two
loops of `atOrNil`.  Classes are numbered up the chain.  The dictionaries, their
sizes and the selectors' hashes are any; a key is in a dictionary once.

### Heap

Memory is an array of words, each a slot byte and the rest.  `NewObject`,
`ShallowCopy`, `IteratorCreate`, `IteratorAdvance` and `ObjectPointerAfter`
write and read headers and extension words exactly where the code does;
`objects` is a history variable with what each object was asked for.  The slot
byte's limit `Big` (255) and the page size are constants.  `Store` is the
program's own writing into what a header says are slots, the only way arbitrary
words get into the heap.  Objects of every size are copied.  The copy of one with
an extension word is laid out wrongly (below): the history variable `largeCopied`
says whether there has been one, and `ObjectsTile`, `HeadersDecode` and the
properties of the walk hold until then.  `ObjectsKept` says what such a copy
harms.  The words it reads overlap those it writes when the original is the last
object, and either value is taken for the one word this concerns.

The program walks over the heap only while it loads an image, when nothing has
been allocated or copied yet.  The module lets walks, stores and allocations
alternate, because the iterator keeps no state that forbids it; the properties of
the walk matter for the heap as it was read.

### ImageLoad

A load is a sequence of steps, one segment or one object each; `phase` says
which loop it is in, and `error` how the last one ended.  `infos` are the
segment infos with their swizzles, `dangling` when they were freed and the
pointer kept; `roots` what the last load that came so far wrote, `whole` and
`ran` which mappings were relocated to their end and which were run.  A context
may be asked to load again after a success or a failure, and the capacity may be
changed between.  Files of every known version number and byte order exist,
unreadable ones and truncated ones.  Words are a slot byte, a format and a
value; which words refer to an object (`references`) and where objects start
(`starts`) is known to the properties and not to the loader.  `assert` does nothing: CMakeLists.txt
builds with NDEBUG unless told otherwise.

### PrimitiveContext, Immediates, Arithmetic, SmallFloat, FloatPrimitives

A word is a number below `Word`; a shift by the tag's bits multiplies or
divides.  A primitive's steps are those of the C function: receiver, argument,
operation; the first error sticks.  Division is C's, rounding to zero, with the
code's corrections; a product is computed at full width and passed on at a
word's.  Shifts whose result C leaves undefined have any of the outcomes the
processor or a wide shift gives.  Characters are encoded with their own tag and
decoded with a signed shift; the bound of their range is computed from the bits
of a small integer, as in the code.

`SmallFloat` has the bits of a number, sign,
exponent and mantissa, and rotates, offsets and shifts them as the macros do; a
program keeps an encoded number between two primitives, and the next decodes it.
`FloatPrimitives` has the primitives on operands of every kind: small integers,
which the conversion to double rounds to even, small and boxed floats, and
objects that are no numbers.  What the processor does exactly (conversions,
comparisons, cutting off a fraction) is defined on the bits; what an addition or
a square root comes to is any number, since no property depends on it.
The code's "or" of two words is a sum: of the tag and a word whose low bits are
free, and of the two halves of a rotation less the one bit they have in common
(`Joined`), because the prover has no bitwise operators.  `MCFloatPrimitives` has
TLC compare both with the bitwise "or" on every word (`JoinedIsOr`).

### IndexedAccess

One object of any format, slots or bytes; the primitives with their tests in
the code's order, the size computed from the header, the first pc of compiled
code, elements of one to eight bytes, least byte first.  `accessed` is the
cells the last primitive touched, `written` what was last stored at each index.

## Runs

| Run | Bounds | Shows |
|---|---|---|
| `interpreter` | a method for each kind of primitive, one of them with an argument and temporaries that do not fit its frame, four contexts, two closures with a captured value, resumed chains of two, code of three positions | registers and contexts agree, returns land where they can go on, non-local returns end, and the whole is a stack of frames |
| `bytecodes` | a method with every bytecode of each set, operands at both ends of their ranges, and five small ones that are sent to; two contexts waiting, two closures | a method is executed as the list of instructions it was compiled from |
| `object_identity` | six objects, two new ones, pages of two entries with one missing, a generator whose values collide with class indices and have zero low bits | hashes and answers are stable, classes are exactly the table's, an object keeps its class |
| `method_lookup` | two classes, dictionaries of at most two slots, hashes wider than the field | lookups answer the first method up the chain, and end |
| `heap` | twelve words, extension from three slots on, pages of five words | objects tile, headers decode and the walk visits each object until a large one is copied; such a copy harms one word |
| `frames` | two arguments, a block with an argument and two captured values, three contexts | sends, blocks, primitives and returns move values as sequences do |
| `frames_variables` | one context, a vector of two, a receiver variable and a literal variable, closures with two captured values | so do the bytecodes on variables, vectors, remote temporaries, captured values and identity |
| `image_load` | images of some thirty words, one or two segments, two loads, every version | what is run is a whole heap whose references were moved once; a load ends |
| `arithmetic` | words of eight bits with three of tag, all small integers and operands of every other kind | answers are exact and canonical, failures exactly those there should be, characters keep their number |
| `float_primitives` | five bits of exponent, four of mantissa, three of tag; every number to be encoded, sixteen integers and forty-eight floats as operands | all but the sign and the lowest bit come back; truncation is exact or fails; no comparison is the wrong way round |
| `small_float_rotation` | the same | a number does not come back (a violation, below) |
| `indexed_access` | 17 objects of every kind of format, indices inside, at and beyond both ends | what is touched is an element, what was stored is read, variables and method headers stay |

A run checks the type invariant where it says something of its own: that
allocation stays within the segment (`heap`).  Elsewhere it is proved
(`Interpreter`, `ObjectIdentity`, `MethodLookup`, `Arithmetic`), or only says
what the variables hold.

Why the bounds are enough.  Every guard and early return is reached within them:
the coverage of the runs shows each action fires.  A non-local return needs a
home, a caller of the block, the block value's context and the block's own: four
contexts; two closures are a block in a block.  The lists of `bytecodes` hold
each bytecode, short and long jumps of either direction at the ends of their
distances, and a block and jumps of more than 255 bytes, where the higher byte
of an operand counts.  A swap of two arguments shows with two (`frames`), and so
does one of two captured values when the closure is made (`frames_variables`);
when it is activated the values it captured are equal in `frames`, and their order is
left to the proof.  Three slots make an object large when `Big` is 3, so small,
boundary and large objects are next to each other in twelve words; a large object,
its copy and what a store makes of the count between the two fit as well, with a
copy of the copy; a page of five words is crossed by the second object.  An image has an object of every kind the relocation
distinguishes: none, pointers, large pointers, a method with a literal and
bytes, and bytes that look like a reference.  Two loads are enough for
everything one leaves behind.  Integers are exhaustive at their width; the
operands of float primitives lie around the first integer a float rounds, at
the ends of the ranges of integers and small floats, and among infinities and
NaN, of either sign, with the least and the greatest mantissa.  Four bits of
mantissa are fewer than an integer has, as 52 are fewer than 61, and no width
appears in the primitives' code except through the macros that the models have
as constants.  What bounds do not cover, the proofs do, of all properties but
those of liveness.

`CHECK_DEADLOCK FALSE` is set where the system really stops: an interpreter
that returned from its last context or failed, a heap that is full, a lookup
that divided by zero, a load that crashed, a primitive that is done.

## Fairness

Only where the code runs a loop inside one call: the search of a non-local
return (`WF` on `WalkStep`, `WalkArrives`, `WalkFails`), the loops of a lookup
(`WF` on `Search`) and the steps of a load (`WF` on `LoadStep`).  Nothing is
assumed about programs: an image need never return.

## Proofs

All by TLAPS, for every value of the constants that meets the named
assumptions.

* `InterpreterProofs`: type correctness, `SendersAreOlder`, `RegistersCurrent`,
  `ReturnTargetReady` and the action property `SuspendedUntouched`.  The first
  two are inductive together with the shape of the heap.  `ReturnTargetReady` is
  not: an abandoned context may have a sender that has itself returned with a
  full stack, so "every sender is resumable" is false.  The invariant therefore
  says that there is a *spine*: a set of contexts, closed under sender, that
  contains the active context and the cursor of a search and whose senders are
  all resumable.  A send extends it by the new context (the caller has popped
  at least the receiver, which is why it has room for the answer), a primitive
  that replaces its context extends it by the replacement, and a return cuts it
  at its target.
  The same module proves the refinement, `ImplementsActivationStack`, for any
  number of contexts and depth of calls.  The frames of the stack are the
  contexts of the active one's chain of senders, by age.  The chain is stated
  without recursion, as the smallest set that contains a context and is closed
  under sender, which exists because senders are older; from this follow the
  lemmas the steps need: a chain is its context and its sender's chain, the part
  of a chain up to a member is that member's chain, and chains of two heaps that
  agree on the senders are equal.  Every action but the search is then one of
  three changes of the stack (the top executes, a frame is put on, frames are
  cut off), and a step of the search is none: its cursor stays on the chain,
  `SearchOnChain`.
* `BytecodesRefinementProofs`: the refinement itself, `ImplementsInstructions`,
  for all methods that meet `CompiledAssumption`, of any number and length, and
  any depth of calls.  The invariant: the registers are at the beginning of an
  instruction, with the bytecode set of the method and the bytecode that is
  there, and so is every pc kept in a context or a closure.  One lemma maps each
  action to the abstract one; the mapped stacks follow by lemmas about
  sequences mapped element by element.
* `HeapProofs`: all that the `heap` run checks, for segments, pages and slot
  bytes of any size: `TypeOK`, `ObjectsTile`, `HeadersDecode`,
  `WalkIsOnObjects`, `AfterIsNext`, `WalkIsComplete`, `ObjectsKept`.  The
  invariant says which words are whose (objects lie between 0 and the segment's
  size, disjoint and without gaps), that an object's header and extension word
  are those it was made with, and that a walk stands on an object or at the end,
  having passed all those below.  Completeness of the walk follows because the
  successor of an object is the one that begins after its last word, small or
  large.  All this holds until an object with an extension word is copied, and
  that is part of the properties, not a hypothesis of the theorems.  A second part
  of the invariant holds throughout, whatever such copies have made of the
  words: every object lies inside the heap, and no header at the first word has an
  extension word, so that reading a count never leaves memory.  From it follow
  `TypeOK` and what `ObjectsKept` says of allocations: none changes a word of an
  object there is, except that a copy which begins with the header of a large object
  overwrites the last word before it.
* `ImageLoadProofs`: all that the run checks but `LoadsEnd`.  `RunsOnWholeHeaps`
  and `RootsUsable` hold for any images, well formed or not.  The first follows
  from an invariant of what is left behind by a load: if the special objects are
  known, they are those of a mapping that was relocated.  The second is about the
  loop over the class table pages, which changes its own bound while it runs: the
  pages counted in the end are below the first nil one, by well-founded choice of
  the first.  `EachReferenceMovedOnce` and `WalkEndsAtSize` are proved from two
  hypotheses, which TLC evaluates for the run: `ImagesLaidOut`, that the words of
  an image of one segment are those of its objects up to the last bridge and its
  references are the pointers in slots and literals, and `SpacesApart`, that the
  address spaces of two loads do not overlap (nothing is ever unmapped).  The
  invariant says in which of three situations a load is: nothing read, nothing
  left to read, or relocating, with the references before the walk moved and all
  else as in the file.  Relocating splits once more, because the infos of a
  failed load remain: either the first info is that of this segment, or it is
  that of an earlier load, in which case the walk never finds its segment, passes
  objects without references and crashes at the first reference.
* `FramesProofs`: the refinement of `OperandStacks`, `ImplementsOperandStacks`,
  for any methods, frame size, vectors, blocks and number of contexts.  The
  invariant says that a sender is older than the context that returns to it (so
  the chain of senders exists and a return cuts it at the sender), that a block's
  arguments and captured values fit a frame, and that a method whose primitive is
  next has its temporaries on the stack and nothing else (so a primitive that
  fails leaves them to the method's code).  Each bytecode is one of a few changes
  of the running sequence: something readable is put on, operands are taken off,
  a live element is replaced; one lemma for each change says what it is on slots
  and what on the sequence, and that the sequences of all other activations are
  as they were.  What is readable is a live slot, an element of a vector or a
  value of a literal variable; a store to the slot of an operand that was just
  popped is allowed only where the sequence cannot tell.  A send splits the
  sequence of its caller, a return puts its value on the sequence the sender had
  when it was suspended, the one told by its stackp.
* `IdentityAndLookupProofs`, about the two readers of the header's hash field.
  Of `ObjectIdentity`: type correctness, `HashStable`, `ClassesAreTheTables`,
  `ClassKept` and `AnswerIsOfHeader`.  The invariant adds that the objects of
  the image keep the hash they came with; that a class in the table is found at
  its own hash is an assumption about the image.  Of `MethodLookup`:
  type correctness and `AnswerIsFirst`.  The invariant has the loop invariants:
  the slots passed do not hold the selector, and the classes passed do not
  understand it.
* `ArithmeticProofs`: that encoding and decoding a small integer gives it back,
  that an integer is boxed exactly outside their range, that the quotient and
  remainder of `//` and `\\` are those of floored division for all signs; type
  correctness, `AnswersAreCanonical`, `FailureSticks` and `CharactersComeBack`.
  `FailsExactly` and `AnswersAreExact` rest on
  what the truncated division of C leaves over (less than the divisor, so that
  it is 0 exactly if the divisor divides) and on an invariant of the protocol:
  as long as a primitive has not failed it has its operands' values, and it has
  failed exactly if one of them was missing or no small integer.
  That bitwise operations never leave the small integers follows from a lemma: a
  word is a small integer if and only if its bits from that of `Half` on are all
  the same, and each operation maps equal bits to equal bits.
  `ArithmeticAssumption` says of the powers of two that are used that they are
  positive integers and that each is twice the one before: it is true of every
  instance, but follows from the definition of `^` only by induction.
  The second half of the module is about floats: `MagnitudesKept`,
  `TruncationsAreExact` and `ComparisonsInOrder`, for words, tags, exponents and
  mantissas of every width that meets `SmallFloatAssumption`, `WordAssumption` and
  `FloatPrimitivesAssumption` (a small integer has more bits than a mantissa and
  is never beyond the range of floats), with the same facts about powers of two
  (`PowersAssumption`).  `FloatInvariant` reduces each to its numbers: as long as a
  primitive has not failed it has the values of its operands, and its result is
  that of the operation on them.  The lemmas are:
  a word is one sign, exponent and mantissa; the rotations move all of these but
  the sign and the mantissa's lowest bit to and back from where the tag leaves
  room, and an exponent in the range of small floats loses no bit when its offset
  is taken; a number's first bit is one only, so rounding has one result; rounding
  never turns two numbers round, at the borders between two exponents either; the
  integer part of a float is on the same side of an integer as the float is of
  the rounded integer; and both bounds `truncated` compares with are rounded to
  the same magnitude, which is the lowest small integer and one more than the
  highest, so that only the second check refuses the upper one.
* `IndexedAccessProofs`: `AccessesAreElements`, `AtReachesAll`,
  `InstanceVariablesKept` and `MethodHeaderKept` for objects of any size and
  every index, from the bounds the primitives' tests establish.
  `ReadsWhatWasWritten` needs that the cells of two elements are disjoint, that
  the bytes of a number that fits make it up again, for elements of one, two and
  four bytes and any radix, and as invariant that every value noted as written is
  what the cells of its element make up.

Only model-checked: the liveness properties `WalkTerminates`, `LookupEnds` and
`LoadsEnd`, since the prover has no rules for fairness and `ENABLED`, and the
assumption `JoinedIsOr`, since it has no bitwise operators.  All other properties
of the passing runs are proved.

## Disagreements found

One has a run.

* **Small floats lose their sign** (`include/crank-vm/objectmodel.h:182-201`,
  run `small_float_rotation`).  The comments say the sign is rotated; the shift
  the other way is by one bit less than the word needs.  The sign and the
  lowest bit of the mantissa come back combined, so that 0.3 becomes -0.3.
  `MagnitudeKept` says what is kept nevertheless.

The others were met while modelling.  The models do what the code does, and the
properties are stated for what holds.

* **Non-local return** (`vm/interpreter.c:355`).  The comments speak of the home
  context, whose sender a `^` in a block returns to.  The code takes the sender
  of the closure's outer context, which in a block nested in another is the
  outer block's; and of a home that has returned already the sender field is
  still followed.  No unwind block is ever seen: the function that reads a
  method's primitive number answers 0 when it succeeds
  (`vm/special-objects.c:266`), which the test takes for a failure (line 488).
* **The first identity hash** (`vm/object-model.c:72`) is answered with all bits
  of the generator; later answers come from the header, which keeps fewer.
  `AnswerIsOfHeader` is about what the header keeps.
* **nil passes the class test** (`vm/object-model.c:149`) when its hash is the
  index of an empty table entry; `ClassesAreTheTables` excepts it.
* **Shallow copy of a large object** (`vm/heap.c:158`) puts the header in the
  first of the two words and the count in the word before them, the last of
  another object, whose value is lost.  `ObjectsKept` says that this word is all such
  a copy harms.  Its count can then be overwritten by a store to that word, and
  its last word belongs to no object; the properties of the layout and
  of the walk end with the first such copy.
* **Stores by DoubleExtendedDoAnything** (`vm/interpreter.c:1030`) into the
  receiver do not check the index in operations 5 and 6, and PopStoreTemporary
  (`vm/interpreter.c:681`) checks its own before the pop, so that the slot of
  the popped operand passes.
* **Bridges** (`vm/heap.c:357`).  The bridge between two segments is made an
  object of no slots, two words that the walk counts as three, so that what
  follows is taken from the wrong word.  The assertion that the walk ends at the
  segment's size fails; `EachReferenceMovedOnce` and `WalkEndsAtSize` are about
  images of one segment, the other properties about both kinds.
* **Class table pages** (`vm/heap.c:287-297`).  The loop lowers its own bound
  and goes on; `RootsUsable` says the pages it ends up counting are there.
* **Products** (`include/crank-vm/interpreter.h:273`).  The product of two small
  integers is computed in 128 bits and passed on as 64: one that does not fit comes
  back as another number.  `AnswersAreExact` is about products that fit.
* **Shifts** (`vm/arithmetic-primitives.c:173`).  A shift by zero aborts, and so
  does one after an operand that was no integer; a shift by the width of a word or more has no result
  in C.  `AnswersAreExact` and `FailsExactly` leave these out.
* **Elements of 64 bits** (`vm/object-primitives.c:75`) are read through a pointer
  to 32-bit ones: `at:` answers half of an element, from another place than the
  index says.  `AccessesAreElements` says that it is inside the object.
* **Characters that do not fit** (`vm/object-primitives.c:300`).  `stringAt:put:`
  cuts a character to the width of an element, `stringAt:` answers another.
  `ReadsWhatWasWritten` is about those that fit.
* **Division** (`vm/arithmetic-primitives.c:89`): the comment says the remainder
  must be zero; floored division takes any operands, and `AnswersAreExact` says so.
* **Index test of compiled code** (`vm/object-primitives.c:129`): made only if
  the bytes do not fill the last slot, and against a first pc
  (`vm/special-objects.c:58`) that counts a byte per literal, not a slot, so
  that `at:put:` reaches literals.  `MethodHeaderKept` is what is left.
* **Truncating what is no number** (`vm/arithmetic-primitives.c:281`).  The
  value a non-number is given is 0, the failure is not asked for, and the
  success of the answer overrides it: the primitive answers 0.
  `TruncatedIsExact` is about floats.
* **Characters on 32 bits** (`include/crank-vm/objectmodel.h:73`).  The largest
  character is computed from the bits of a small integer and decoding shifts
  with sign.  With tags of one width, as on 64 bits, this is right
  (`CharactersComeBack`); on 32 bits characters from 2^29 on come back negative.
* **Order of operands' bytes** (`vm/interpreter.c:1138`, `1225`).  Two calls of
  `fetchByte()` in one expression may be evaluated in either order.  The
  assumption of `BytecodesRefinement` holds of `LeftToRight` only; with the
  other order primitive numbers and sizes of blocks have their bytes swapped.
* **Negative sizes** (`vm/object-primitives.c:398`).  `new:` passes a negative
  argument on as an unsigned size, whose rounding and product wrap.  `Heap`
  takes sizes that are not negative.

## Not modelled

* The table of numbered primitives and the generators of all tables
  (`numbered-primitives.c`, `definitions/`, `scripts/`), which run at build
  time; the command line (`app/main.c`), printing.
* The clock, the file plugin and external primitives: calls of the operating
  system, most of them not implemented.
* Semaphores: waiting without an excess signal and signalling with a process
  waiting abort; what is left adds one to a counter or takes one from it.
* The widths of the heap's size computation, and failures of `mmap` and
  `mprotect`.
* The bytes of large integers, and the arithmetic of the processor's floats.
* Destroying a context and reading the image's file into memory.

## What could follow

Process switching, once the code has it; method returns from blocks in `Frames`,
which has the other returns.
