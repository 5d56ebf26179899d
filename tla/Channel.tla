------------------------------ MODULE Channel ------------------------------
(***************************************************************************)
(* What a mailbox or a message queue promises: a bounded buffer.  A sender *)
(* that cannot put its message at once holds it; a receiver holds the      *)
(* message it took until it returns with it.  A message is put once by its *)
(* sender, taken once, in the order of the puts unless it was put as       *)
(* urgent, and never altered on the way.                                   *)
(*                                                                         *)
(*   buf       the messages that were put and not taken                    *)
(*   hand[t]   the message t sends or has received, None between calls     *)
(***************************************************************************)
EXTENDS Integers, Sequences

CONSTANTS User, Message, None, Size

VARIABLES buf, hand
vars == <<buf, hand>>

Init == buf = << >> /\ hand = [t \in User |-> None]
-----------------------------------------------------------------------------
Hold(t, m) == hand' = [hand EXCEPT ![t] = m]

(* A send by t starts, or a caller that never waits sends at once. *)
Offer(t) == /\ hand[t] = None
            /\ \E m \in Message : Hold(t, m)
            /\ UNCHANGED buf

Enter(m) == Len(buf) < Size /\ (buf' = Append(buf, m) \/ buf' = <<m>> \o buf)

PutNow  == (\E m \in Message : Enter(m)) /\ UNCHANGED hand
Put(t)  == hand[t] # None /\ Enter(hand[t]) /\ Hold(t, None)

Take(t) == /\ hand[t] = None /\ buf # << >>
           /\ Hold(t, Head(buf)) /\ buf' = Tail(buf)

(* A receive by a caller that never waits. *)
TakeNow == buf # << >> /\ buf' = Tail(buf) /\ UNCHANGED hand

(* t returns with what it received, or gives up its send. *)
Return(t) == hand[t] # None /\ Hold(t, None) /\ UNCHANGED buf

Reset == buf' = << >> /\ UNCHANGED hand

Next == \/ \E t \in User : Offer(t) \/ Put(t) \/ Take(t) \/ Return(t)
        \/ PutNow \/ TakeNow \/ Reset

Spec == Init /\ [][Next]_vars
=============================================================================
