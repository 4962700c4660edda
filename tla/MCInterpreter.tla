--------------------------- MODULE MCInterpreter ---------------------------
(***************************************************************************)
(* Interpreter on a small set of methods: one that evaluates blocks, one   *)
(* that performs, and one with an argument and another primitive whose     *)
(* temporaries do not fit its frame.  Four contexts are enough for a block *)
(* whose ^ passes over an intermediate activation or finds its target      *)
(* gone, and two closures for a block created in a block.                  *)
(***************************************************************************)
EXTENDS InterpreterRefinement

MCMethods == {"value", "perform", "answer"}

MCStackEffects == {<<0, 0, 1>>, <<1, 1, 0>>}

MCNumArgs   == [m \in MCMethods |-> IF m = "answer" THEN 1 ELSE 0]
MCNumTemps  == [m \in MCMethods |-> IF m = "answer" THEN 2 ELSE 0]
MCFrameSize == [m \in MCMethods |-> 1]

MCPrimitive ==
  [m \in MCMethods |->
     CASE m = "value"   -> "blockValue"
       [] m = "perform" -> "perform"
       [] m = "answer"  -> "other"]
=============================================================================
