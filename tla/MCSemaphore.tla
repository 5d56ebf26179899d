---------------------------- MODULE MCSemaphore ----------------------------
(* Instances of Semaphore: threads of three priorities.                    *)
EXTENDS Semaphore

CONSTANTS a, b, c, s1, s2

ThreePrios == [t \in Thread |-> CASE t = a -> 0 [] t = b -> 1 [] t = c -> 1
                                  [] OTHER -> 2]
OneTick == [t \in Thread |-> 1]
Itself  == [s \in Sem |-> s]
Flags   == [s \in Sem |-> IF s = s1 THEN "PRIO" ELSE "FIFO"]
=============================================================================
