------------------------------ MODULE MCMutex ------------------------------
(* Instances of Mutex: three threads of different priorities.              *)
EXTENDS Mutex

CONSTANTS high, mid, low, m1, m2

Descending == [t \in Thread |-> CASE t = high -> 0 [] t = mid -> 1
                                  [] t = low -> 2 [] OTHER -> 3]

OneTick  == [t \in Thread |-> 1]

Sorted   == [m \in Mutex |-> "PRIO"]
Mixed    == [m \in Mutex |-> IF m = m1 THEN "PRIO" ELSE "FIFO"]
=============================================================================
