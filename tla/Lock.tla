-------------------------------- MODULE Lock --------------------------------
(* What a mutex promises its users: one owner, which may take it again and *)
(* releases it as often; a lock somebody wants is never left free, it is   *)
(* handed to one of those who want it; wanting may be given up.            *)
EXTENDS Integers

CONSTANTS Thread, NoThread

VARIABLES owner, depth, want
vars == <<owner, depth, want>>

Init == owner = NoThread /\ depth = 0 /\ want = {}

Acquire(t) == /\ owner = NoThread
              /\ owner' = t /\ depth' = 1
              /\ UNCHANGED want

Again == /\ owner # NoThread
         /\ depth' = depth + 1
         /\ UNCHANGED <<owner, want>>

Ask(t) == /\ owner \notin {NoThread, t} /\ t \notin want
          /\ want' = want \cup {t}
          /\ UNCHANGED <<owner, depth>>

GiveUp(t) == /\ t \in want
             /\ want' = want \ {t}
             /\ UNCHANGED <<owner, depth>>

Leave == /\ depth > 1
         /\ depth' = depth - 1
         /\ UNCHANGED <<owner, want>>

Release == /\ depth = 1 /\ want = {}
           /\ owner' = NoThread /\ depth' = 0
           /\ UNCHANGED want

HandOver(t) == /\ depth = 1 /\ t \in want
               /\ owner' = t /\ want' = want \ {t}
               /\ UNCHANGED depth

Next == \/ \E t \in Thread : Acquire(t) \/ Ask(t) \/ GiveUp(t) \/ HandOver(t)
        \/ Again \/ Leave \/ Release

Spec == Init /\ [][Next]_vars
=============================================================================
