---------------------------- MODULE MCMessaging ----------------------------
(* Instances of Messaging: one object of each kind, one at a time.         *)
EXTENDS Messaging

CONSTANTS a, b, e1, m1, s1, q1, p1, c1, d1, u1, w1

Prios   == [t \in Thread |-> IF t = a THEN 0 ELSE IF t = Idle THEN 2 ELSE 1]
OneTick == [t \in Thread |-> 1]
Orders  == [q \in Queue |-> IF q = p1 THEN "LIFO"
                            ELSE IF q \in {c1, d1, u1, w1} THEN "FIFO" ELSE "PRIO"]
Seconds == [q \in Queue |-> IF q = m1 THEN s1 ELSE IF q = d1 THEN u1 ELSE q]
OneEach == {{e1}, {m1, s1}, {q1}, {p1}, {c1}, {d1, u1}, {w1}}
OnePool == {{p1}}
OneRing == {{d1, u1}}
OneWait == {{w1}}
Alike   == Permutations(Message)
=============================================================================
