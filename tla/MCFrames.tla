------------------------------ MODULE MCFrames ------------------------------
(***************************************************************************)
(* Small instances of Frames: a method without arguments the interpreter   *)
(* starts in, one with arguments and a primitive that may fail, and the    *)
(* method that evaluates a block.                                          *)
(***************************************************************************)
EXTENDS FramesRefinement

CONSTANTS start, send, evaluate

MCMethods == {start, send, evaluate}
MCNumArgs  == [m \in MCMethods |-> IF m = start THEN 0 ELSE 1]
MCNumTemps == [m \in MCMethods |-> CASE m = start -> 0 [] m = send -> 2 [] m = evaluate -> 1]

(* Two arguments, whose order is visible, and a block of one. *)
MCTwoArgs  == [m \in MCMethods |-> CASE m = start -> 0 [] m = send -> 2 [] m = evaluate -> 1]
MCTwoTemps == MCTwoArgs
=============================================================================
