---------------------------- MODULE MethodLookup ----------------------------
(***************************************************************************)
(* Method lookup: crankvm_Behavior_lookupSelector and                      *)
(* crankvm_MethodDictionary_atOrNil of src/vm/special-objects.c, with the  *)
(* identity hash they ask the selector for.                                *)
(*                                                                         *)
(* A method dictionary is an open-addressing hash table the image's own    *)
(* code fills and the virtual machine only reads.  Where the reading       *)
(* starts depends on the selector's hash; a selector no one has asked its  *)
(* hash is given one by the lookup itself, and the first search uses more  *)
(* bits of it than the header keeps for the next ones.                     *)
(*                                                                         *)
(* Abstracted: the classes of a superclass chain are numbered from the     *)
(* receiver's up, so the superclass of class c is c + 1 and Depth + 1 is   *)
(* nil; the hash generator (module ObjectIdentity) answers any value.      *)
(***************************************************************************)
EXTENDS Integers

CONSTANTS
  Depth,      \* bound: the classes of the superclass chain
  MaxSize,    \* bound: the slots of a method dictionary
  Selectors, Methods,
  NilObject,  \* the nil object, as a key or a method
  HashRange,  \* 2^22: the values of the header's hash field
  Generated   \* what crankvm_context_newIdentityHash can answer

ASSUME LookupAssumption ==
  /\ Depth \in Nat /\ MaxSize \in Nat
  /\ NilObject \notin Selectors /\ NilObject \notin Methods
  /\ HashRange \in Nat \ {0} /\ Generated \subseteq Nat

Class == 1 .. Depth
Slot  == 0 .. MaxSize - 1

VARIABLES
  hasArray,     \* the class has a method dictionary, and that has an array
  size,         \* the slots of that array
  keys,         \* the dictionary's keys
  methods,      \* the array's elements
  selectorHash, \* the identity hash in each selector's header, 0 when never asked
  selector,     \* argument of lookupSelector
  behavior,     \* argument of lookupSelector
  current,      \* local currentBehavior
  start, index, \* locals of atOrNil
  phase,        \* where the lookup is
  result        \* what it answers

image      == <<hasArray, size, keys, methods>>
locals     == <<selector, behavior, current, start, index>>
lookupVars == <<image, selectorHash, locals, phase, result>>

Searching == {"class", "toFinish", "toStart"}

LookupTypeOK ==
  /\ hasArray \in [Class -> BOOLEAN]
  /\ size \in [Class -> 0 .. MaxSize]
  /\ keys \in [Class -> [Slot -> Selectors \cup {NilObject}]]
  /\ methods \in [Class -> [Slot -> Methods \cup {NilObject}]]
  /\ selectorHash \in [Selectors -> 0 .. HashRange - 1]
  /\ selector \in Selectors
  /\ behavior \in 1 .. Depth + 1
  /\ current \in behavior .. Depth + 1
  /\ start \in Nat /\ index \in Nat
  /\ phase \in {"idle", "answered", "trapped"} \cup Searching
  /\ phase \in {"toFinish", "toStart"} =>
       current \in Class /\ start < size[current] /\ index <= size[current]
  /\ result \in Methods \cup {NilObject}

-----------------------------------------------------------------------------

(* A send, a perform: or the entry message starts a lookup: in the class of  *)
(* the receiver or, for a super send, in the superclass of the method's.     *)
Lookup(s, b) ==
  /\ phase \in {"idle", "answered"}
  /\ selector' = s /\ behavior' = b /\ current' = b
  /\ start' = 0 /\ index' = 0
  /\ phase' = "class" /\ result' = NilObject
  /\ UNCHANGED <<image, selectorHash>>

(* The loop of lookupSelector ends at nil. *)
Exhausted ==
  /\ phase = "class" /\ current = Depth + 1
  /\ phase' = "answered"
  /\ UNCHANGED <<image, selectorHash, locals, result>>

(* A class without a dictionary, or with one without an array, has nothing. *)
NoDictionary ==
  /\ phase = "class" /\ current \in Class /\ ~hasArray[current]
  /\ current' = current + 1
  /\ UNCHANGED <<image, selectorHash, selector, behavior, start, index, phase, result>>

(* getIdentityHash answers h for the selector. *)
SelectorHash(h) ==
  IF selectorHash[selector] # 0
  THEN h = selectorHash[selector] /\ UNCHANGED selectorHash
  ELSE h \in Generated /\ selectorHash' = [selectorHash EXCEPT ![selector] = h % HashRange]

(* The search of a dictionary starts where the hash says.  An array without  *)
(* slots has no such place: the remainder of a division by zero traps.       *)
EnterDictionary(h) ==
  /\ phase = "class" /\ current \in Class /\ hasArray[current]
  /\ SelectorHash(h)
  /\ IF size[current] = 0
     THEN phase' = "trapped" /\ UNCHANGED <<start, index>>
     ELSE /\ start' = h % size[current] /\ index' = start'
          /\ phase' = "toFinish"
  /\ UNCHANGED <<image, selector, behavior, current, result>>

(* Slot index holds the selector: the lookup answers its method, or goes on in   *)
(* the superclass when that is nil.                                          *)
Found ==
  /\ IF methods[current][index] # NilObject
     THEN phase' = "answered" /\ result' = methods[current][index] /\ UNCHANGED current
     ELSE phase' = "class" /\ current' = current + 1 /\ UNCHANGED result
  /\ UNCHANGED <<image, selectorHash, selector, behavior, start, index>>

(* Mutant of ToFinish: the search does not wrap around. *)
ToFinishOnly ==
  /\ phase = "toFinish"
  /\ IF index < size[current]
     THEN IF keys[current][index] = selector
          THEN Found
          ELSE /\ index' = index + 1
               /\ UNCHANGED <<image, selectorHash, selector, behavior, current, start, phase, result>>
     ELSE /\ phase' = "class" /\ current' = current + 1
          /\ UNCHANGED <<image, selectorHash, selector, behavior, start, index, result>>

(* The first loop of atOrNil: from start to finish. *)
ToFinish ==
  /\ phase = "toFinish"
  /\ IF index < size[current]
     THEN IF keys[current][index] = selector
          THEN Found
          ELSE /\ index' = index + 1
               /\ UNCHANGED <<image, selectorHash, selector, behavior, current, start, phase, result>>
     ELSE /\ index' = 0 /\ phase' = "toStart"
          /\ UNCHANGED <<image, selectorHash, selector, behavior, current, start, result>>

(* Mutant of ToStart: a dictionary without the selector is searched again. *)
ToStartAgain ==
  /\ phase = "toStart"
  /\ IF index < start
     THEN IF keys[current][index] = selector
          THEN Found
          ELSE /\ index' = index + 1
               /\ UNCHANGED <<image, selectorHash, selector, behavior, current, start, phase, result>>
     ELSE /\ phase' = "class"
          /\ UNCHANGED <<image, selectorHash, locals, result>>

(* The second loop: from 0 to start.  Then the dictionary does not have the  *)
(* selector and the lookup goes on in the superclass.                        *)
ToStart ==
  /\ phase = "toStart"
  /\ IF index < start
     THEN IF keys[current][index] = selector
          THEN Found
          ELSE /\ index' = index + 1
               /\ UNCHANGED <<image, selectorHash, selector, behavior, current, start, phase, result>>
     ELSE /\ phase' = "class" /\ current' = current + 1
          /\ UNCHANGED <<image, selectorHash, selector, behavior, start, index, result>>

(* The dictionaries of an image: a key is in a dictionary once, in any slot. *)
LookupInit ==
  /\ hasArray \in [Class -> BOOLEAN]
  /\ size \in [Class -> 0 .. MaxSize]
  /\ keys \in [Class -> [Slot -> Selectors \cup {NilObject}]]
  /\ methods \in [Class -> [Slot -> Methods \cup {NilObject}]]
  /\ \A c \in Class :
       /\ ~hasArray[c] => size[c] = 0
       /\ \A n \in Slot :
            /\ n >= size[c] \/ keys[c][n] = NilObject => methods[c][n] = NilObject
            /\ n >= size[c] => keys[c][n] = NilObject
       /\ \A m, n \in Slot : keys[c][m] = keys[c][n] /\ keys[c][m] # NilObject => m = n
  /\ selectorHash \in [Selectors -> 0 .. HashRange - 1]
  /\ selector \in Selectors
  /\ behavior = Depth + 1 /\ current = Depth + 1
  /\ start = 0 /\ index = 0
  /\ phase = "idle" /\ result = NilObject

Search ==
  \/ Exhausted
  \/ NoDictionary
  \/ \E h \in Generated \cup {selectorHash[selector]} : EnterDictionary(h)
  \/ ToFinish
  \/ ToStart

LookupNext ==
  \/ \E s \in Selectors, b \in 1 .. Depth + 1 : Lookup(s, b)
  \/ Search

(* The two loops run within one call. *)
LookupSpec == LookupInit /\ [][LookupNext]_lookupVars /\ WF_lookupVars(Search)

-----------------------------------------------------------------------------
(* Properties *)

(* What a class understands, whatever the hashes: the method one of its      *)
(* dictionary's slots holds under the selector.                              *)
Defines(c, m) ==
  /\ hasArray[c] /\ m # NilObject
  /\ \E n \in 0 .. size[c] - 1 : keys[c][n] = selector /\ methods[c][n] = m

Understands(c) == \E m \in Methods : Defines(c, m)

(* A lookup answers the method of the first class up the chain that has the  *)
(* selector, wherever its dictionary holds it and whatever hash the selector *)
(* was given in the middle of the search; and nil only if there is none.     *)
AnswerIsFirst ==
  phase = "answered" =>
    \/ \E c \in behavior .. Depth :
         /\ Defines(c, result)
         /\ \A d \in behavior .. c - 1 : ~Understands(d)
    \/ /\ result = NilObject
       /\ \A d \in behavior .. Depth : ~Understands(d)

(* Every lookup ends: with an answer, or in the trap.                        *)
LookupEnds == phase \in Searching ~> phase \notin Searching
=============================================================================
