---------------------------- MODULE MCWorkQueue ----------------------------
(* Instances of WorkQueue: the clients, their urgency and what they call.  *)
EXTENDS WorkQueue

CONSTANTS a, b,   \* clients; a is the more urgent, b owns the delayed works
          p1, p2, \* plain works
          d1      \* a delayed work

OneTick == [t \in Thread |-> 1]
ByB     == [v \in Delayed |-> b]

(* The worker more urgent than the clients, between them, and less urgent. *)
WorkerFirst  == [t \in Thread |-> CASE t = Worker -> 0 [] t = a -> 1 [] t = b -> 2
                                     [] OTHER -> 3]
WorkerSecond == [t \in Thread |-> CASE t = a -> 0 [] t = Worker -> 1 [] t = b -> 2
                                     [] OTHER -> 3]

WorkerLast   == [t \in Thread |-> CASE t = b -> 1 [] t = Worker -> 2 [] OTHER -> 3]

(* One client that calls everything; two that do; two that only submit; an *)
(* owner that submits and cancels its delayed work.                        *)
Alone ==
  [t \in Thread |-> CASE t = b -> Operation [] t = Worker -> {"submit", "sleep"}
                       [] OTHER -> {}]
Shared ==
  [t \in Thread |-> CASE t \in {a, b} -> Operation
                       [] t = Worker -> {"submit", "sleep"} [] OTHER -> {}]
Submitting ==
  [t \in Thread |-> CASE t \in {a, b} -> {"submit", "sleep"} [] OTHER -> {}]
Delaying ==
  [t \in Thread |-> CASE t = b -> {"submit", "cancel", "sleep"} [] t = Worker -> {"sleep"}
                       [] OTHER -> {}]
=============================================================================
