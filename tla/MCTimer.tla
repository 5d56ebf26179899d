------------------------------ MODULE MCTimer ------------------------------
(* Instances of Timer: a timer of a thread and one of timeout functions.   *)
EXTENDS Timer

CONSTANTS t1, t2, thread, function

Owners == [x \in TimerObj |-> IF x = t2 THEN function ELSE thread]
=============================================================================
