------------------------------- MODULE Retry -------------------------------
(***************************************************************************)
(* The calls that wait in a loop: what they wait for can be gone when the  *)
(* thread that was woken for it runs, and they then wait again with what   *)
(* is left of their timeout.                                               *)
(*                                                                         *)
(*   left[t]   the call's variable timeout, -1 for ever                    *)
(*   run[t]    rt_tick_get() - tick_delta, as long as it is below left[t]  *)
(*   waited[t] the ticks of the waits before this one: what the caller     *)
(*             knows, not a variable of the code                           *)
(*   hand[t]   the message t's call sends or has received                  *)
(*                                                                         *)
(* Timeout is the timeout in ticks of the calls that have one.             *)
(***************************************************************************)
EXTENDS Ipc

CONSTANTS Timeout, Message, None

ASSUME RetryAssumption == Timeout \in Nat \ {0} /\ None \notin Message

VARIABLES left, run, waited, hand
retryVars == <<left, run, waited, hand>>

Forever == -1

RetryInit == /\ left   = [t \in Thread |-> Forever]
             /\ run    = [t \in Thread |-> 0]
             /\ waited = [t \in Thread |-> 0]
             /\ hand   = [t \in Thread |-> None]

Hold(t, m) == hand' = [hand EXCEPT ![t] = m]

(* The timeouts of the calls that may wait in q. *)
Timeouts(q) == {Forever} \cup (IF q \in Timed THEN {Timeout} ELSE {})
-----------------------------------------------------------------------------
(* The loop's body: t waits in q with the timeout n, to go on from l. *)
WaitFor(t, q, n, l) == /\ n # 0
                       /\ WaitIn(t, q, n > 0, l)
                       /\ left' = [left EXCEPT ![t] = n]
                       /\ run'  = [run EXCEPT ![t] = 0]

(* The same where n was recomputed in this section. *)
WaitAgain(t, q, n, l) == /\ WaitFor(t, q, n, l)
                         /\ waited' = [waited EXCEPT ![t] = @ + run[t]]

(* Slip: the timeout is not recomputed. *)
RemainingStale(t) == left[t]

(* What is left of the timeout once the thread runs again. *)
Remaining(t) == IF left[t] > 0 THEN left[t] - run[t] ELSE left[t]

(* The loop is over. *)
Done(t) == /\ left'   = [left EXCEPT ![t] = Forever]
           /\ run'    = [run EXCEPT ![t] = 0]
           /\ waited' = [waited EXCEPT ![t] = 0]

(* The call returns an error, and its caller drops the message.  What it   *)
(* leaves in thread->error is reset before it is read again.               *)
GiveUp(t) == /\ Done(t) /\ Hold(t, None) /\ Goto(t, "user")
             /\ UNCHANGED <<k, then, slice, isr>>

(* The object is deleted once nobody but its waiters is in a call about    *)
(* it: a thread that was woken without an error looks at it again.         *)
Unused(q, inside) ==
  \A u \in Thread : arg[u] = q /\ {pc[u], then[u]} \cap inside # {} =>
    k.stat[u] = "SUSPEND"
-----------------------------------------------------------------------------
(* The tick interrupt; the timer of a wait with a timeout expires at the   *)
(* tick the timeout names.                                                 *)
RetryTick == /\ Tick
             /\ run' = [t \in Thread |-> IF run[t] < left[t] THEN run[t] + 1
                                                             ELSE run[t]]
             /\ UNCHANGED <<ipcVars, left, waited, hand>>

RetryExpire(t) == /\ TimerExpire(t)
                  /\ left[t] > 0 => run[t] = left[t]
                  /\ UNCHANGED <<ipcVars, retryVars>>

RetryTickEnd == /\ TickEnd
                /\ \A t \in Thread : k.timer[t] /\ left[t] > 0 => run[t] < left[t]
                /\ UNCHANGED <<ipcVars, retryVars>>
-----------------------------------------------------------------------------
RetryTypeOK == /\ left \in [Thread -> Forever .. Timeout]
               /\ run \in [Thread -> 0 .. Timeout]
               /\ waited \in [Thread -> 0 .. Timeout]
               /\ hand \in [Thread -> Message \cup {None}]

(* However often a thread is woken in vain, it has not waited longer than  *)
(* the timeout it called with.                                             *)
WaitsInTime ==
  isr = "none" => \A t \in Thread :
    k.stat[t] = "SUSPEND" /\ left[t] > 0 => waited[t] + run[t] < Timeout
=============================================================================
