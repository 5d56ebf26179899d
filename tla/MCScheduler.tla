---------------------------- MODULE MCScheduler ----------------------------
(* Instances of Scheduler: the workloads its runs give to the threads.     *)
EXTENDS Scheduler

CONSTANTS a, b, c   \* the application's threads

(* a waits for interrupts, locks the scheduler and exits, the more urgent  *)
(* b sleeps and so wakes while a holds the lock, c exits.  The main thread *)
(* starts them, sleeps, and deletes c and creates it anew.                 *)
SafetyCalls ==
  [t \in Thread |->
     CASE t = Main -> {<<"startup", a>>, <<"startup", b>>, <<"startup", c>>,
                       <<"delete", c>>, <<"create", c>>, <<"sleep", Main>>}
       [] t = a    -> {<<"suspend", a>>, <<"yield", a>>, <<"exit", a>>,
                       <<"critical", a>>}
       [] t = b    -> {<<"sleep", b>>}
       [] t = c    -> {<<"exit", c>>}
       [] OTHER    -> {}]

SafetyPrio == [t \in Thread |-> CASE t = Idle -> 2 [] t = b -> 0 [] OTHER -> 1]

(* The main thread sleeps, and suspends, resumes and reprioritises b. *)
LivenessCalls ==
  [t \in Thread |->
     CASE t = Main -> {<<"startup", b>>, <<"suspend", b>>, <<"resume", b>>,
                       <<"control", b>>, <<"critical", Main>>, <<"sleep", Main>>}
       [] t = b    -> {<<"yield", b>>}
       [] OTHER    -> {}]

LivenessPrio == [t \in Thread |-> IF t = Idle THEN 1 ELSE 0]

(* The main thread deletes b, which sleeps. *)
DeleteCalls ==
  [t \in Thread |->
     CASE t = Main -> {<<"startup", b>>, <<"delete", b>>, <<"sleep", Main>>}
       [] t = b    -> {<<"sleep", b>>}
       [] OTHER    -> {}]

OneTick  == [t \in Thread |-> 1]
TwoTicks == [t \in Thread |-> IF t = Main THEN 2 ELSE 1]
=============================================================================
