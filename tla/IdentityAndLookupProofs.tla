----------------------- MODULE IdentityAndLookupProofs -----------------------
(* Proofs about ObjectIdentity and MethodLookup, the two readers of an       *)
(* object's header hash field.                                               *)
(*                                                                           *)
(* Of ObjectIdentity: hashes are stable, the class test is true of the       *)
(* classes of the table, and objects keep their class, for every image,      *)
(* class table and hash generator that meet the assumptions.                 *)
(*                                                                           *)
(* Of MethodLookup: a lookup answers the first method up the chain, for      *)
(* every chain of dictionaries, whatever the hashes of selectors and what    *)
(* the generator answers.                                                    *)
EXTENDS ObjectIdentity, MethodLookup, TLAPS

(* The header of an object of the image still holds the hash, and so the     *)
(* class table index, the image gave it.                                     *)
ImageKept == \A o \in Image : ImageHash[o] # 0 => hash[o] = ImageHash[o]

IInv == TypeOK /\ ImageKept /\ ClassKept

-----------------------------------------------------------------------------

(* A product of naturals is one. *)
LEMMA ProductNat == \A a, b \in Nat : a * b \in Nat
  OBVIOUS

(* The remainder of a natural is one below the divisor. *)
LEMMA ModBound == \A a \in Nat, b \in Nat \ {0} : a % b \in 0 .. b - 1
  OBVIOUS

(* newIdentityHash answers a value of a word; what the header keeps of it is *)
(* a value of the field.                                                     *)
LEMMA NextHashType ==
  ASSUME TypeOK
  PROVE  NextHash \in 0 .. Word - 1 /\ NextHash % HashField \in Field
<1> DEFINE p == lastHash * Multiplier
           w == (p + Increment) % Word
<1>1. p \in Nat
  BY ProductNat, GeneratorAssumption DEF TypeOK
<1> HIDE DEF p
<1>2. w \in 0 .. Word - 1
  BY <1>1, ModBound, GeneratorAssumption
<1>3. NextHash = w % Modulus
  BY DEF NextHash, p
<1> HIDE DEF w
<1>4. w % Modulus \in 0 .. Modulus - 1
  BY <1>2, ModBound, GeneratorAssumption
<1>5. NextHash \in 0 .. Word - 1
  BY <1>3, <1>4, GeneratorAssumption
<1>6. NextHash % HashField \in Field
  BY <1>5, ModBound, TableAssumption, GeneratorAssumption DEF Field
<1> QED
  BY <1>5, <1>6

(* The table answers nil or an object of the image. *)
LEMMA ClassWithIndexType == \A i \in Field : ClassWithIndex(i) \in Image
  BY ImageAssumption, TableAssumption DEF Field, ClassWithIndex

(* An object whose header holds no hash is not a class, unless it is nil. *)
LEMMA UnhashedIsNil == ClassWithIndex(0) = Nil
  BY TableAssumption DEF ClassWithIndex

-----------------------------------------------------------------------------

(* The heap an image is loaded into satisfies the invariant. *)
LEMMA InitInv == Init => IInv
<1> SUFFICES ASSUME Init PROVE IInv
  OBVIOUS
<1>1. maker \in [objects -> objects]
  BY ClassWithIndexType, ImageAssumption DEF Init, Field
<1>2. TypeOK
  BY <1>1, ImageAssumption DEF Init, TypeOK, Field
<1>3. ImageKept
  BY DEF Init, ImageKept
<1>4. ClassKept
  BY DEF Init, ClassKept, ClassOf
<1> QED
  BY <1>2, <1>3, <1>4 DEF IInv

(* Asking o its hash writes the hash only of an object that had none. *)
LEMMA HashOfStep ==
  ASSUME IInv, NEW o \in objects, NEW h \in {hash[o], NextHash}, HashOf(o, h)
  PROVE  /\ hash' \in [objects -> Field] /\ lastHash' \in 0 .. Word - 1 /\ h \in Nat
         /\ \A x \in objects : hash[x] # 0 => hash'[x] = hash[x]
<1>1. CASE hash[o] # 0
  BY <1>1, GeneratorAssumption, TableAssumption DEF IInv, TypeOK, HashOf, Field
<1>2. CASE hash[o] = 0
  <2>1. NextHash \in 0 .. Word - 1 /\ NextHash % HashField \in Field
    BY NextHashType DEF IInv
  <2>2. h = NextHash /\ lastHash' = h /\ hash' = [hash EXCEPT ![o] = h % HashField]
    BY <1>2 DEF HashOf
  <2>3. hash \in [objects -> Field]
    BY DEF IInv, TypeOK
  <2> HIDE DEF NextHash
  <2> QED
    BY <1>2, <2>1, <2>2, <2>3, GeneratorAssumption
<1> QED
  BY <1>1, <1>2

(* An object created with class index i, from c or as a copy of an object    *)
(* made from c, keeps the invariant when i is the index of c.                *)
LEMMA CreateStep ==
  ASSUME IInv, NEW new \in NewObjects, new \notin objects,
         NEW i \in Field, NEW c \in objects, c # Nil => ClassWithIndex(i) = c,
         Create(new, i, c),
         hash' \in [objects' -> Field], lastHash' \in 0 .. Word - 1,
         \A x \in objects : hash[x] # 0 => hash'[x] = hash[x]
  PROVE  IInv'
<1> USE DEF IInv
<1>1. /\ objects' = objects \cup {new}
      /\ classIndex' = Extended(classIndex, new, i)
      /\ maker' = Extended(maker, new, c)
  BY DEF Create
<1>2. /\ classIndex' \in [objects' -> Field] /\ classIndex'[new] = i
      /\ \A o \in objects : classIndex'[o] = classIndex[o]
  BY <1>1 DEF TypeOK, Extended
<1>3. maker \in [objects -> objects \cup {new}]
  BY DEF TypeOK
<1>4. /\ maker' \in [objects' -> objects'] /\ maker'[new] = c
      /\ \A o \in objects : maker'[o] = maker[o]
  BY <1>1, <1>3 DEF Extended
<1>5. TypeOK'
  BY <1>1, <1>2, <1>4 DEF TypeOK, Create
<1>6. ImageKept'
  BY ImageAssumption DEF ImageKept, TypeOK
<1>7. ClassKept'
  BY <1>1, <1>2, <1>4 DEF ClassKept, ClassOf
<1> QED
  BY <1>5, <1>6, <1>7

(* Every operation preserves the invariant and the hashes objects have. *)
LEMMA NextStep ==
  IInv /\ Next => IInv' /\ (\A o \in objects : hash[o] # 0 => hash'[o] = hash[o])
<1> SUFFICES ASSUME IInv, NEW o \in objects,
               \/ IdentityHash(o) \/ BehaviorHash(o)
               \/ \E new \in NewObjects : New(o, new)
               \/ \E new \in NewObjects : ShallowCopy(o, new)
             PROVE  IInv' /\ (\A x \in objects : hash[x] # 0 => hash'[x] = hash[x])
  BY DEF Next
<1>t. TypeOK /\ hash \in [objects -> Field]
  BY DEF IInv, TypeOK
<1>1. CASE IdentityHash(o)
  <2>1. PICK h \in {hash[o], NextHash} : HashOf(o, h) /\ answer' = <<o, h>>
    BY <1>1 DEF IdentityHash
  <2>2. /\ hash' \in [objects -> Field] /\ lastHash' \in 0 .. Word - 1 /\ h \in Nat
        /\ \A x \in objects : hash[x] # 0 => hash'[x] = hash[x]
    BY <2>1, HashOfStep
  <2>3. TypeOK'
    BY <1>1, <2>1, <2>2 DEF IdentityHash, IInv, TypeOK, Field
  <2>4. ImageKept'
    BY <2>2 DEF IInv, ImageKept, TypeOK
  <2>5. ClassKept'
    BY <1>1 DEF IdentityHash, IInv, ClassKept, ClassOf
  <2> QED
    BY <2>2, <2>3, <2>4, <2>5 DEF IInv
<1>2. CASE BehaviorHash(o)
  BY <1>2 DEF BehaviorHash, IInv, TypeOK, ImageKept, ClassKept, ClassOf, Field
<1>3. ASSUME NEW new \in NewObjects, New(o, new)
      PROVE  IInv' /\ (\A x \in objects : hash[x] # 0 => hash'[x] = hash[x])
  <2>1. /\ IsClass(o) /\ new \notin objects
        /\ 0 \in Field
    BY <1>3, TableAssumption DEF New, Field
  <2>2. /\ Extended(hash, new, 0) \in [objects \cup {new} -> Field]
        /\ \A x \in objects : Extended(hash, new, 0)[x] = hash[x]
    BY <1>t, <2>1 DEF Extended
  <2>3. CASE hash[o] # 0
    <3>1. /\ Create(new, hash[o], o) /\ hash' = Extended(hash, new, 0)
          /\ lastHash' = lastHash
      BY <1>3, <2>3 DEF New
    <3>2. objects' = objects \cup {new}
      BY <3>1 DEF Create
    <3>3. /\ hash[o] \in Field /\ ClassWithIndex(hash[o]) = o
          /\ lastHash' \in 0 .. Word - 1
      BY <2>1, <3>1 DEF IsClass, IInv, TypeOK
    <3> QED
      BY <2>1, <2>2, <3>1, <3>2, <3>3, CreateStep
  <2>4. CASE hash[o] = 0
    <3> DEFINE i == NextHash % HashField
    <3>1. /\ Create(new, i, o)
          /\ hash' = [Extended(hash, new, 0) EXCEPT ![o] = i]
          /\ lastHash' = NextHash
      BY <1>3, <2>4 DEF New
    <3>2. objects' = objects \cup {new}
      BY <3>1 DEF Create
    <3>3. i \in Field /\ lastHash' \in 0 .. Word - 1
      BY <3>1, <1>t, NextHashType
    <3>4. o = Nil
      BY <2>1, <2>4, UnhashedIsNil DEF IsClass
    <3> HIDE DEF i
    <3>5. /\ hash' \in [objects' -> Field]
          /\ \A x \in objects : hash[x] # 0 => hash'[x] = hash[x]
      BY <2>2, <2>4, <3>1, <3>2, <3>3
    <3> QED
      BY <2>1, <3>1, <3>3, <3>4, <3>5, CreateStep
  <2> QED
    BY <2>3, <2>4
<1>4. ASSUME NEW new \in NewObjects, ShallowCopy(o, new)
      PROVE  IInv' /\ (\A x \in objects : hash[x] # 0 => hash'[x] = hash[x])
  <2>1. /\ new \notin objects /\ Create(new, classIndex[o], maker[o])
        /\ hash' = Extended(hash, new, 0) /\ lastHash' = lastHash
        /\ 0 \in Field
    BY <1>4, TableAssumption DEF ShallowCopy, Field
  <2>2. /\ Extended(hash, new, 0) \in [objects \cup {new} -> Field]
        /\ \A x \in objects : Extended(hash, new, 0)[x] = hash[x]
    BY <1>t, <2>1 DEF Extended
  <2>3. objects' = objects \cup {new}
    BY <2>1 DEF Create
  <2>4. /\ classIndex[o] \in Field /\ maker[o] \in objects
        /\ maker[o] # Nil => ClassWithIndex(classIndex[o]) = maker[o]
        /\ lastHash' \in 0 .. Word - 1
    BY <2>1 DEF IInv, TypeOK, ClassKept, ClassOf
  <2> QED
    BY <2>1, <2>2, <2>3, <2>4, CreateStep
<1> QED
  BY <1>1, <1>2, <1>3, <1>4

(* The invariant holds in every state. *)
LEMMA Invariance == Spec => []IInv
<1>1. IInv /\ [Next]_vars => IInv'
  <2>1. IInv /\ UNCHANGED vars => IInv'
    BY DEF vars, IInv, TypeOK, ImageKept, ClassKept, ClassOf
  <2> QED
    BY <2>1, NextStep
<1> QED
  BY <1>1, InitInv, PTL DEF Spec

(* The fields stay within their widths. *)
THEOREM TypeCorrect == Spec => []TypeOK
  BY Invariance, PTL DEF IInv

(* No operation changes a hash an object has. *)
THEOREM HashesAreStable == Spec => HashStable
<1>1. IInv /\ [Next]_vars
        => [\A o \in objects : hash[o] # 0 => hash'[o] = hash[o]]_vars
  BY NextStep
<1> QED
  BY <1>1, Invariance, PTL DEF Spec, HashStable

(* Instances, copies and generated hashes never make or unmake a class. *)
THEOREM ClassesAreFixed == Spec => []ClassesAreTheTables
<1>1. IInv => ClassesAreTheTables
  <2> SUFFICES ASSUME IInv, NEW o \in objects, o # Nil
               PROVE  IsClass(o) <=> o \in TableClasses
    BY DEF ClassesAreTheTables
  <2>1. ASSUME o \in Image, NEW i \in Field, ClassWithIndex(i) = o
        PROVE  hash[o] = ImageHash[o]
    <3>1. ClassAt[ImageHash[o]] = o
      BY <2>1, TableAssumption DEF ClassWithIndex, Field
    <3>2. ImageHash[o] # 0
      BY <3>1, TableAssumption
    <3> QED
      BY <2>1, <3>2 DEF IInv, ImageKept
  <2>2. hash[o] \in Field
    BY DEF IInv, TypeOK
  <2>3. IsClass(o) => o \in TableClasses
    BY <2>1, <2>2, ClassWithIndexType DEF IsClass, TableClasses
  <2>4. o \in TableClasses => IsClass(o)
    BY <2>1, <2>2, ImageAssumption DEF IsClass, TableClasses, Field
  <2> QED
    BY <2>3, <2>4
<1> QED
  BY <1>1, Invariance, PTL

(* An object is an instance of the class it was made from, for ever. *)
THEOREM ClassesAreKept == Spec => []ClassKept
  BY Invariance, PTL DEF IInv

(* What is in the header of an object agrees with the last answer, after the *)
(* answer and after every operation that follows.                            *)
LEMMA AnswerStep ==
  IInv /\ AnswerIsOfHeader /\ [Next]_vars => AnswerIsOfHeader'
<1> SUFFICES ASSUME IInv, AnswerIsOfHeader, [Next]_vars,
                    answer' # <<>>, answer'[2] % HashField # 0
             PROVE  answer'[2] % HashField = hash'[answer'[1]]
  BY DEF AnswerIsOfHeader
<1>t. TypeOK /\ hash \in [objects -> Field] /\ answer \in (objects \X Nat) \cup {<<>>}
  BY DEF IInv, TypeOK
<1>1. ASSUME NEW o \in objects, IdentityHash(o)
      PROVE  answer'[2] % HashField = hash'[answer'[1]]
  <2>1. PICK h \in {hash[o], NextHash} : HashOf(o, h) /\ answer' = <<o, h>>
    BY <1>1 DEF IdentityHash
  <2>2. answer'[1] = o /\ answer'[2] = h
    BY <2>1
  <2>3. CASE hash[o] # 0
    <3>1. h = hash[o] /\ hash' = hash
      BY <2>1, <2>3 DEF HashOf
    <3>2. h \in Field
      BY <1>t, <3>1
    <3>3. h % HashField = h
      BY <3>2, TableAssumption DEF Field
    <3> QED
      BY <2>2, <3>1, <3>3
  <2>4. CASE hash[o] = 0
    <3>1. hash' = [hash EXCEPT ![o] = h % HashField]
      BY <2>1, <2>4 DEF HashOf
    <3>2. hash'[o] = h % HashField
      BY <1>t, <3>1
    <3> QED
      BY <2>2, <3>2
  <2> QED
    BY <2>3, <2>4
<1>2. ASSUME UNCHANGED answer, \A o \in objects : hash[o] # 0 => hash'[o] = hash[o]
      PROVE  answer'[2] % HashField = hash'[answer'[1]]
  <2>1. answer[2] % HashField = hash[answer[1]] /\ answer[1] \in objects
    BY <1>t, <1>2 DEF AnswerIsOfHeader
  <2>2. hash[answer[1]] # 0
    BY <1>2, <2>1
  <2>3. hash'[answer[1]] = hash[answer[1]]
    BY <1>2, <2>1, <2>2
  <2> QED
    BY <1>2, <2>1, <2>3
<1>3. CASE UNCHANGED vars
  BY <1>2, <1>3 DEF vars
<1>4. ASSUME NEW o \in objects,
             \/ BehaviorHash(o)
             \/ \E new \in NewObjects : New(o, new)
             \/ \E new \in NewObjects : ShallowCopy(o, new)
      PROVE  answer'[2] % HashField = hash'[answer'[1]]
  <2>1. UNCHANGED answer
    BY <1>4 DEF BehaviorHash, New, ShallowCopy, Create
  <2>2. \A x \in objects : hash[x] # 0 => hash'[x] = hash[x]
    BY <1>4, NextStep DEF Next
  <2> QED
    BY <1>2, <2>1, <2>2
<1> QED
  BY <1>1, <1>3, <1>4 DEF Next

(* What primitiveIdentityHash answered is what the header holds, as far as   *)
(* the header has room for it, whatever is asked, created or copied later.   *)
THEOREM AnswersLast == Spec => []AnswerIsOfHeader
<1>1. Init => AnswerIsOfHeader
  BY DEF Init, AnswerIsOfHeader
<1> QED
  BY <1>1, AnswerStep, Invariance, PTL DEF Spec

-----------------------------------------------------------------------------
(* Method lookup *)

(* A key is in a dictionary once. *)
KeysUnique ==
  \A c \in Class : \A m, n \in Slot :
    keys[c][m] = keys[c][n] /\ keys[c][m] # NilObject => m = n

(* No slot of m .. n - 1 holds the selector. *)
Absent(m, n) == \A x \in m .. n - 1 : keys[current][x] # selector

(* The classes below the current one do not understand the selector.         *)
ClassesPassed ==
  phase \in Searching =>
    result = NilObject /\ \A d \in behavior .. current - 1 : ~Understands(d)

(* Neither does any slot the loops have passed hold it. *)
SlotsPassed ==
  /\ phase = "toFinish" => hasArray[current] /\ start <= index /\ Absent(start, index)
  /\ phase = "toStart"  => /\ hasArray[current] /\ index <= start
                            /\ Absent(start, size[current]) /\ Absent(0, index)

LookupInvariant ==
  LookupTypeOK /\ KeysUnique /\ ClassesPassed /\ SlotsPassed /\ AnswerIsFirst

-----------------------------------------------------------------------------

(* What a class understands depends on the image and the selector only. *)
LEMMA UnderstandsSame ==
  ASSUME UNCHANGED image, selector' = selector
  PROVE  \A c, m : Defines(c, m)' <=> Defines(c, m)
  BY DEF image, Defines

(* No lookup is under way at first. *)
LEMMA LookupInitInv ==
  ASSUME LookupInit
  PROVE  LookupInvariant
  BY LookupAssumption DEF LookupInit, LookupInvariant, LookupTypeOK, KeysUnique,
         ClassesPassed,
         SlotsPassed, AnswerIsFirst, Searching, Class

(* A dictionary none of whose slots holds the selector does not define it;   *)
(* neither does one that holds nil under it, as a key is there once.         *)
LEMMA NotUnderstood ==
  ASSUME LookupInvariant, current \in Class,
         \/ ~hasArray[current]
         \/ Absent(0, size[current])
         \/ /\ index \in 0 .. size[current] - 1
            /\ keys[current][index] = selector /\ methods[current][index] = NilObject
  PROVE  ~Understands(current)
<1> SUFFICES ASSUME NEW m \in Methods, Defines(current, m) PROVE FALSE
  BY DEF Understands
<1>1. PICK n \in 0 .. size[current] - 1 : keys[current][n] = selector /\ methods[current][n] = m
  BY DEF Defines
<1>2. CASE ~hasArray[current]
  BY <1>2 DEF Defines
<1>3. CASE Absent(0, size[current])
  BY <1>1, <1>3 DEF Absent
<1>4. CASE /\ index \in 0 .. size[current] - 1
           /\ keys[current][index] = selector /\ methods[current][index] = NilObject
  <2>1. size[current] \in 0 .. MaxSize /\ selector \in Selectors
    BY DEF LookupInvariant, LookupTypeOK
  <2>2. n \in Slot /\ index \in Slot /\ selector # NilObject
    BY <1>4, <2>1, LookupAssumption DEF Slot
  <2>3. n = index
    BY <1>1, <1>4, <2>2 DEF LookupInvariant, KeysUnique
  <2> QED
    BY <1>1, <1>4, <2>3, LookupAssumption
<1> QED
  BY <1>2, <1>3, <1>4

(* Going on to the superclass of a class that does not understand it. *)
LEMMA Advance ==
  ASSUME LookupInvariant, phase \in Searching,
  current \in Class, ~Understands(current),
         phase' = "class", current' = current + 1, UNCHANGED <<image, selector, behavior,
         result>>,
         selectorHash' \in [Selectors -> 0 .. HashRange - 1], start' \in Nat, index' \in Nat
  PROVE  LookupInvariant'
<1> USE DEF LookupInvariant
<1>1. LookupTypeOK'
  BY LookupAssumption DEF LookupTypeOK, image, Class, Searching
<1>2. KeysUnique'
  BY DEF KeysUnique, image
<1>3. \A d : Understands(d)' <=> Understands(d)
  BY UnderstandsSame DEF Understands
<1>4. ClassesPassed'
  <2>1. behavior' .. current' - 1 = (behavior .. current - 1) \cup {current}
    BY LookupAssumption DEF LookupTypeOK, Class
  <2> QED
    BY <1>3, <2>1 DEF ClassesPassed
<1>5. SlotsPassed' /\ AnswerIsFirst'
  BY DEF SlotsPassed, AnswerIsFirst
<1> QED
  BY <1>1, <1>2, <1>4, <1>5

(* A step that stays in the same class and keeps the loops' facts. *)
LEMMA SameClass ==
  ASSUME LookupInvariant, phase \in Searching, phase' \in Searching,
         UNCHANGED <<image, selector, behavior, current, result>>,
         LookupTypeOK', SlotsPassed'
  PROVE  LookupInvariant'
<1>1. \A d : Understands(d)' <=> Understands(d)
  BY UnderstandsSame DEF Understands
<1> QED
  BY <1>1 DEF LookupInvariant, KeysUnique, image, ClassesPassed, AnswerIsFirst,
       Searching

(* The two ways Found goes on. *)
LEMMA FoundInv ==
  ASSUME LookupInvariant, phase \in {"toFinish", "toStart"}, Found,
         index \in 0 .. size[current] - 1, hasArray[current], keys[current][index] = selector
  PROVE  LookupInvariant'
<1> USE DEF LookupInvariant
<1>1. /\ current \in Class /\ index \in Slot /\ phase \in Searching
      /\ methods[current][index] \in Methods \cup {NilObject}
  BY LookupAssumption DEF LookupTypeOK, Slot, Searching
<1>2. CASE methods[current][index] = NilObject
  <2>1. ~Understands(current)
    BY <1>1, <1>2, NotUnderstood
  <2>2. /\ phase' = "class" /\ current' = current + 1
        /\ UNCHANGED <<image, selector, behavior, result>>
        /\ selectorHash' \in [Selectors -> 0 .. HashRange - 1] /\ start' \in Nat /\ index' \in Nat
    BY <1>2 DEF Found, LookupTypeOK, image
  <2> QED
    BY <1>1, <2>1, <2>2, Advance
<1>3. CASE methods[current][index] # NilObject
  <2>1. /\ phase' = "answered" /\ result' = methods[current][index]
        /\ UNCHANGED <<image, selectorHash, selector, behavior, current, start, index>>
    BY <1>3 DEF Found, image
  <2>2. LookupTypeOK'
    BY <1>1, <2>1 DEF LookupTypeOK, image, Searching
  <2>3. KeysUnique' /\ ClassesPassed' /\ SlotsPassed'
    BY <2>1 DEF KeysUnique, ClassesPassed, SlotsPassed, image, Searching
  <2>4. \A d : Understands(d)' <=> Understands(d)
    BY <2>1, UnderstandsSame DEF Understands
  <2>5. PICK c, m : c = current /\ m = methods[current][index]
    OBVIOUS
  <2>6. /\ Defines(c, m) /\ result' = m /\ c \in behavior' .. Depth
        /\ \A d \in behavior' .. c - 1 : ~Understands(d)
    BY <1>1, <1>3, <2>1, <2>5 DEF ClassesPassed, LookupTypeOK, Class, Defines
  <2>7. AnswerIsFirst'
    <3>1. Defines(c, result)'
      BY <2>1, <2>6 DEF Defines, image
    <3>2. \A d \in behavior' .. c - 1 : ~Understands(d)'
      BY <2>4, <2>6
    <3> QED
      BY <2>6, <3>1, <3>2 DEF AnswerIsFirst
  <2> QED
    BY <2>2, <2>3, <2>7
<1> QED
  BY <1>1, <1>2, <1>3

(* A lookup starts with no class and no slot passed. *)
LEMMA LookupStartInv ==
  ASSUME LookupInvariant,
         NEW s \in Selectors, NEW b \in 1 .. Depth + 1, Lookup(s, b)
  PROVE  LookupInvariant'
<1>1. LookupTypeOK'
  BY LookupAssumption DEF LookupInvariant, LookupTypeOK, Lookup, image,
         Searching
<1> QED
  BY <1>1, LookupAssumption
  DEF LookupInvariant, Lookup, image, KeysUnique,
      ClassesPassed, SlotsPassed, AnswerIsFirst, Searching

(* At the end of the chain every class has been passed. *)
LEMMA ExhaustedInv ==
  ASSUME LookupInvariant, Exhausted
  PROVE  LookupInvariant'
<1>1. LookupTypeOK' /\ KeysUnique' /\ ClassesPassed' /\ SlotsPassed'
  BY DEF LookupInvariant, LookupTypeOK, Exhausted, image, locals,
         KeysUnique, ClassesPassed, SlotsPassed, Searching
<1>2. \A d : Understands(d)' <=> Understands(d)
  BY UnderstandsSame DEF Understands, Exhausted, locals
<1>3. /\ result' = NilObject /\ behavior' = behavior /\ current = Depth + 1
      /\ \A d \in behavior .. current - 1 : ~Understands(d)
  BY DEF LookupInvariant, ClassesPassed, Exhausted, locals, Searching
<1>4. AnswerIsFirst'
  BY <1>2, <1>3, LookupAssumption DEF AnswerIsFirst
<1> QED
  BY <1>1, <1>4 DEF LookupInvariant

(* A class without a dictionary understands nothing. *)
LEMMA NoDictionaryInv ==
  ASSUME LookupInvariant, NoDictionary
  PROVE  LookupInvariant'
<1>1. ~Understands(current)
  BY NotUnderstood DEF NoDictionary
<1> QED
  BY <1>1, Advance DEF NoDictionary, LookupInvariant, LookupTypeOK, Searching

(* The search starts at a slot of the dictionary, with none passed. *)
LEMMA EnterDictionaryInv ==
  ASSUME LookupInvariant,
         NEW h \in Generated \cup {selectorHash[selector]}, EnterDictionary(h)
  PROVE  LookupInvariant'
<1>1. /\ h \in Nat /\ selector \in Selectors /\ size[current] \in Nat
      /\ current \in Class /\ phase = "class"
  BY LookupAssumption DEF LookupInvariant, LookupTypeOK, EnterDictionary
<1>2. selectorHash' \in [Selectors -> 0 .. HashRange - 1]
  <2>1. h % HashRange \in 0 .. HashRange - 1
    BY <1>1, ModBound, LookupAssumption
  <2>2. selectorHash \in [Selectors -> 0 .. HashRange - 1] /\ SelectorHash(h)
    BY DEF LookupInvariant, LookupTypeOK, EnterDictionary
  <2> QED
    BY <2>1, <2>2 DEF SelectorHash
<1>3. CASE size[current] = 0
  <2>1. /\ phase' = "trapped"
        /\ UNCHANGED <<image, selector, behavior, current, result, start, index>>
    BY <1>3 DEF EnterDictionary
  <2>2. LookupTypeOK'
    BY <1>2, <2>1 DEF LookupInvariant, LookupTypeOK, image, Searching
  <2> QED
    BY <2>1, <2>2 DEF LookupInvariant, image, KeysUnique, ClassesPassed, SlotsPassed,
         AnswerIsFirst, Searching
<1>4. CASE size[current] # 0
  <2>1. /\ start' = h % size[current] /\ index' = start' /\ phase' = "toFinish"
        /\ UNCHANGED <<image, selector, behavior, current, result>>
    BY <1>4 DEF EnterDictionary
  <2>2. start' \in 0 .. size[current] - 1
    BY <1>1, <1>4, <2>1, ModBound
  <2>3. LookupTypeOK'
    BY <1>1, <1>2, <2>1, <2>2 DEF LookupInvariant, LookupTypeOK, image, Searching
  <2>4. hasArray[current] /\ start' <= index' /\ start' .. index' - 1 = {}
    BY <2>1, <2>2 DEF EnterDictionary
  <2>5. SlotsPassed'
    BY <2>1, <2>4 DEF SlotsPassed, Absent, image
  <2> QED
    BY <1>1, <2>1, <2>3, <2>5, SameClass DEF Searching
<1> QED
  BY <1>3, <1>4

(* The first loop passes the slots from start on, one by one. *)
LEMMA ToFinishInv ==
  ASSUME LookupInvariant, ToFinish
  PROVE  LookupInvariant'
<1>1. /\ phase = "toFinish" /\ phase \in Searching /\ hasArray[current]
      /\ start \in Nat /\ index \in Nat /\ start <= index /\ Absent(start, index)
      /\ current \in Class /\ size[current] \in Nat /\ index <= size[current]
      /\ start < size[current]
  BY DEF LookupInvariant, SlotsPassed, ToFinish, LookupTypeOK, Searching
<1>2. CASE index < size[current] /\ keys[current][index] = selector
  <2>1. Found
    BY <1>2 DEF ToFinish
  <2> QED
    BY <1>1, <1>2, <2>1, FoundInv
<1>3. CASE index < size[current] /\ keys[current][index] # selector
  <2>1. /\ index' = index + 1 /\ phase' = phase
        /\ UNCHANGED <<image, selectorHash, selector, behavior, current, start, result>>
    BY <1>3 DEF ToFinish
  <2>2. LookupTypeOK'
    BY <1>1, <1>3, <2>1 DEF LookupInvariant, LookupTypeOK, image
  <2>3. start .. index' - 1 = (start .. index - 1) \cup {index}
    BY <1>1, <2>1
  <2>4. SlotsPassed'
    BY <1>1, <1>3, <2>1, <2>3 DEF SlotsPassed, Absent, image
  <2> QED
    BY <1>1, <2>1, <2>2, <2>4, SameClass
<1>4. CASE ~(index < size[current])
  <2>1. /\ index' = 0 /\ phase' = "toStart"
        /\ UNCHANGED <<image, selectorHash, selector, behavior, current, start, result>>
    BY <1>4 DEF ToFinish
  <2>2. LookupTypeOK'
    BY <1>1, <2>1 DEF LookupInvariant, LookupTypeOK, image, Searching
  <2>3. index = size[current] /\ 0 .. index' - 1 = {}
    BY <1>1, <1>4, <2>1
  <2>4. SlotsPassed'
    BY <1>1, <2>1, <2>3 DEF SlotsPassed, Absent, image
  <2> QED
    BY <1>1, <2>1, <2>2, <2>4, SameClass DEF Searching
<1> QED
  BY <1>2, <1>3, <1>4

(* The second loop passes the slots before start; then all are passed. *)
LEMMA ToStartInv ==
  ASSUME LookupInvariant, ToStart
  PROVE  LookupInvariant'
<1>1. /\ phase = "toStart" /\ phase \in Searching /\ hasArray[current]
      /\ start \in Nat /\ index \in Nat /\ index <= start
      /\ Absent(start, size[current]) /\ Absent(0, index)
      /\ current \in Class /\ size[current] \in Nat /\ start < size[current]
  BY DEF LookupInvariant, SlotsPassed, ToStart, LookupTypeOK, Searching
<1>2. CASE index < start /\ keys[current][index] = selector
  <2>1. Found
    BY <1>2 DEF ToStart
  <2> QED
    BY <1>1, <1>2, <2>1, FoundInv
<1>3. CASE index < start /\ keys[current][index] # selector
  <2>1. /\ index' = index + 1 /\ phase' = phase
        /\ UNCHANGED <<image, selectorHash, selector, behavior, current, start, result>>
    BY <1>3 DEF ToStart
  <2>2. LookupTypeOK'
    BY <1>1, <1>3, <2>1 DEF LookupInvariant, LookupTypeOK, image
  <2>3. 0 .. index' - 1 = (0 .. index - 1) \cup {index}
    BY <1>1, <2>1
  <2>4. SlotsPassed'
    BY <1>1, <1>3, <2>1, <2>3 DEF SlotsPassed, Absent, image
  <2> QED
    BY <1>1, <2>1, <2>2, <2>4, SameClass
<1>4. CASE ~(index < start)
  <2>1. 0 .. size[current] - 1 = (0 .. index - 1) \cup (start .. size[current] - 1)
    BY <1>1, <1>4
  <2>2. Absent(0, size[current])
    BY <1>1, <2>1 DEF Absent
  <2>3. ~Understands(current)
    BY <1>1, <2>2, NotUnderstood
  <2>4. /\ phase' = "class" /\ current' = current + 1
        /\ UNCHANGED <<image, selectorHash, selector, behavior, start, index, result>>
    BY <1>4 DEF ToStart
  <2> QED
    BY <1>1, <2>3, <2>4, Advance DEF LookupInvariant, LookupTypeOK
<1> QED
  BY <1>2, <1>3, <1>4

(* The invariant holds always. *)
LEMMA LookupInvariance ==
  LookupSpec => []LookupInvariant
<1>1. LookupInvariant /\ [LookupNext]_lookupVars => LookupInvariant'
  <2>1. LookupInvariant /\ UNCHANGED lookupVars => LookupInvariant'
    BY DEF lookupVars, image, locals, LookupInvariant, LookupTypeOK, KeysUnique,
           ClassesPassed, SlotsPassed, Absent,
           AnswerIsFirst, Understands, Defines
  <2> QED
    BY <2>1, LookupStartInv, ExhaustedInv, NoDictionaryInv, EnterDictionaryInv, ToFinishInv,
         ToStartInv
    DEF LookupNext, Search
<1> QED
  BY <1>1, LookupInitInv, PTL DEF LookupSpec

(* The loops' indices stay within the dictionary they search. *)
THEOREM LookupTypeCorrect ==
  LookupSpec => []LookupTypeOK
  BY LookupInvariance, PTL DEF LookupInvariant

(* A lookup answers the first method up the chain, whatever the hashes. *)
THEOREM AnswersAreFirst ==
  LookupSpec => []AnswerIsFirst
  BY LookupInvariance, PTL DEF LookupInvariant
=============================================================================
