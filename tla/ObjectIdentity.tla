--------------------------- MODULE ObjectIdentity ---------------------------
(***************************************************************************)
(* Identity hashes, the class table and instantiation (getIdentityHash,    *)
(* isClass and getClass of src/vm/object-model.c, basicNew of              *)
(* src/vm/special-objects.c, shallowCopy of src/vm/heap.c and the          *)
(* primitives of src/vm/object-primitives.c that call them).               *)
(*                                                                         *)
(* One header field plays two parts: the identity hash of a class is its   *)
(* index in the class table, and every other object gets, when first       *)
(* asked, a hash from the same range.  An object names its class by that   *)
(* index.                                                                  *)
(*                                                                         *)
(* Abstracted: the contents of objects and their addresses.  The class     *)
(* table is the image's: nothing in the code adds to it.                   *)
(***************************************************************************)
EXTENDS Integers

CONSTANTS
  Image,        \* the objects of the image
  NewObjects,   \* bound: the objects there is room to create after loading it
  Nil,          \* the nil object
  HashField,    \* 2^22: the values of the header's hash and class index fields
  PageSize,     \* 2^10: the entries of a class table page
  Pages,        \* the numbers of the pages that are not nil
  ClassAt,      \* the class table's entries
  ImageHash,    \* the identity hashes of the image's objects, 0 when never asked
  ImageClass,   \* their class indices
  Word, Modulus, Multiplier, Increment  \* the hash generator

ASSUME ImageAssumption ==
  /\ Nil \in Image /\ Image \cap NewObjects = {}
  /\ ImageHash \in [Image -> 0 .. HashField - 1]
  /\ ImageClass \in [Image -> 0 .. HashField - 1]

ASSUME TableAssumption ==
  /\ HashField \in Nat \ {0} /\ PageSize \in Nat \ {0}
  /\ Pages \subseteq Nat /\ 0 \in Pages
  /\ ClassAt \in [0 .. HashField - 1 -> Image]
  /\ ClassAt[0] = Nil
  /\ \A i \in 0 .. HashField - 1 : ClassAt[i] # Nil => ClassAt[ImageHash[ClassAt[i]]] = ClassAt[i]

ASSUME GeneratorAssumption ==
  /\ Word \in Nat \ {0} /\ Modulus \in 1 .. Word
  /\ Multiplier \in Nat /\ Increment \in Nat

VARIABLES
  objects,    \* the objects in the heap
  hash,       \* header field: identity hash
  classIndex, \* header field: class index
  lastHash,   \* context: lastIdentityHash
  maker,      \* history: the class an object, or the one it copies, was created from
  answer,     \* history: the last answer of primitiveIdentityHash, <<object, hash>>
  status      \* "running" or "aborted"

vars == <<objects, hash, classIndex, lastHash, maker, answer, status>>

Field == 0 .. HashField - 1

TypeOK ==
  /\ objects \subseteq Image \cup NewObjects /\ Image \subseteq objects
  /\ hash \in [objects -> Field]
  /\ classIndex \in [objects -> Field]
  /\ lastHash \in 0 .. Word - 1
  /\ maker \in [objects -> objects]
  /\ answer \in (objects \X Nat) \cup {<<>>}
  /\ status \in {"running", "aborted"}

-----------------------------------------------------------------------------
(* The class table *)

(* crankvm_heap_loadClassTable stops counting at the first nil page. *)
PageLoaded(p) == \A q \in 0 .. p : q \in Pages

(* getClassWithIndex *)
ClassWithIndex(i) == IF PageLoaded(i \div PageSize) THEN ClassAt[i] ELSE Nil

ClassOf(o) == ClassWithIndex(classIndex[o])

(* Mutant of IsClass: any hash that is the index of a class will do. *)
IsClassIndex(o) == ClassWithIndex(hash[o]) # Nil

IsClass(o) == ClassWithIndex(hash[o]) = o

(* The classes the table holds at their own hash. *)
TableClasses == {c \in Image : c # Nil /\ ClassWithIndex(ImageHash[c]) = c}

-----------------------------------------------------------------------------
(* Identity hashes *)

(* crankvm_context_newIdentityHash, in 32-bit arithmetic. *)
NextHash == ((lastHash * Multiplier + Increment) % Word) % Modulus

(* Mutant of HashOf: the generator is asked every time. *)
HashAlwaysNew(o, h) == h = NextHash /\ lastHash' = h /\ hash' = [hash EXCEPT ![o] = h % HashField]

(* Mutant of HashOf: the mask of the field is taken for a modulus. *)
HashModuloMask(o, h) ==
  IF hash[o] # 0
  THEN h = hash[o] /\ UNCHANGED <<lastHash, hash>>
  ELSE h = NextHash /\ lastHash' = h /\ hash' = [hash EXCEPT ![o] = h % (HashField - 1)]

(* crankvm_object_getIdentityHash answers h for o: what the header holds, or *)
(* a new hash, of which the header keeps the low bits.                       *)
HashOf(o, h) ==
  IF hash[o] # 0
  THEN h = hash[o] /\ UNCHANGED <<lastHash, hash>>
  ELSE h = NextHash /\ lastHash' = h /\ hash' = [hash EXCEPT ![o] = h % HashField]

IdentityHash(o) ==
  /\ status = "running"
  /\ \E h \in {hash[o], NextHash} : HashOf(o, h) /\ answer' = <<o, h>>
  /\ UNCHANGED <<objects, classIndex, maker, status>>

(* crankvm_object_getBehaviorHash: "Insert behavior in class table" is not   *)
(* implemented.                                                              *)
BehaviorHash(o) ==
  /\ status = "running"
  /\ status' = IF hash[o] = 0 THEN "aborted" ELSE status
  /\ UNCHANGED <<objects, hash, classIndex, lastHash, maker, answer>>

-----------------------------------------------------------------------------
(* New objects *)

Extended(f, new, v) == [o \in objects \cup {new} |-> IF o = new THEN v ELSE f[o]]

(* An object made from class c, its header holding class index i. *)
Create(new, i, c) ==
  /\ objects' = objects \cup {new}
  /\ classIndex' = Extended(classIndex, new, i)
  /\ maker' = Extended(maker, new, c)
  /\ UNCHANGED <<answer, status>>

(* Mutant of New: the instance gets the class index of its class. *)
NewLikeItsClass(c, new) ==
  /\ status = "running" /\ IsClass(c) /\ new \notin objects
  /\ Create(new, classIndex[c], c)
  /\ hash' = Extended(hash, new, 0)
  /\ UNCHANGED lastHash

(* crankvm_primitive_new and newWithArg on receiver c that pass their test:  *)
(* the index of the instance's class is the class's identity hash, asked for *)
(* once the object is allocated.                                             *)
New(c, new) ==
  /\ status = "running" /\ IsClass(c) /\ new \notin objects
  /\ IF hash[c] # 0
     THEN /\ Create(new, hash[c], c)
          /\ hash' = Extended(hash, new, 0)
          /\ UNCHANGED lastHash
     ELSE /\ Create(new, NextHash % HashField, c)
          /\ hash' = [Extended(hash, new, 0) EXCEPT ![c] = NextHash % HashField]
          /\ lastHash' = NextHash

(* crankvm_primitive_shallowCopy: the copy has no identity hash yet. *)
ShallowCopy(o, new) ==
  /\ status = "running" /\ new \notin objects
  /\ Create(new, classIndex[o], maker[o])
  /\ hash' = Extended(hash, new, 0)
  /\ UNCHANGED lastHash

Init ==
  /\ objects = Image
  /\ hash = ImageHash
  /\ classIndex = ImageClass
  /\ lastHash \in 0 .. Word - 1
  /\ maker = [o \in Image |-> ClassWithIndex(ImageClass[o])]
  /\ answer = <<>>
  /\ status = "running"

Next ==
  \E o \in objects :
    \/ IdentityHash(o)
    \/ BehaviorHash(o)
    \/ \E new \in NewObjects : New(o, new)
    \/ \E new \in NewObjects : ShallowCopy(o, new)

Spec == Init /\ [][Next]_vars

-----------------------------------------------------------------------------
(* Properties *)

(* An object keeps the identity hash its header holds: hashed collections,   *)
(* method dictionaries and, for a class, the class table depend on it.       *)
HashStable ==
  [][\A o \in objects : hash[o] # 0 => hash'[o] = hash[o]]_vars

(* crankvm_object_isClass is true of the class table's classes, always, and  *)
(* of no other object but nil: not of a copy of a class, and not of an       *)
(* object whose generated hash happens to be the index of a class.           *)
ClassesAreTheTables ==
  \A o \in objects : o # Nil => (IsClass(o) <=> o \in TableClasses)

(* An object and its copies are for ever instances of the class the object   *)
(* was created from, whatever hashes were handed out in between.             *)
ClassKept == \A o \in objects : maker[o] # Nil => ClassOf(o) = maker[o]

(* What primitiveIdentityHash answered stays true of the object: its header  *)
(* holds the low bits of the answer (the field "22: identityHash"), whoever  *)
(* asks for hashes or instantiates it later.  The other bits of a first      *)
(* answer are lost, and an answer without low bits left none to keep.        *)
AnswerIsOfHeader ==
  answer # <<>> /\ answer[2] % HashField # 0 =>
    answer[2] % HashField = hash[answer[1]]
=============================================================================
