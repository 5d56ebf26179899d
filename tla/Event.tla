------------------------------- MODULE Event -------------------------------
(***************************************************************************)
(* The event sets of ipc.c: a send merges flags into a set and wakes, in   *)
(* one pass over the waiters, all those whose condition then holds.        *)
(*                                                                         *)
(*   set[e]    event->set                                                  *)
(*   info[t]   thread->event_set, and thread->event_info as the two        *)
(*             booleans RT_EVENT_FLAG_AND and RT_EVENT_FLAG_CLEAR; kept    *)
(*             while t is in rt_event_recv, nobody reads it afterwards     *)
(*   owed[e]   for each flag, how often it rose minus how often a receiver *)
(*             that clears returned with it or a reset dropped it: what    *)
(*             the callers know, not a variable of the code                *)
(***************************************************************************)
EXTENDS Ipc

CONSTANTS Events,     \* the lists that belong to events
          Bits        \* the flags of the sets in use

ASSUME EventAssumption == Events \subseteq Queue

VARIABLES set, info, owed
eventVars == <<set, info, owed>>

Infos  == [set : SUBSET Bits, all : BOOLEAN, clear : BOOLEAN]
NoInfo == [set |-> {}, all |-> FALSE, clear |-> FALSE]

EventInit == /\ set  = [e \in Events |-> {}]
             /\ info = [t \in Thread |-> NoInfo]
             /\ owed = [e \in Events |-> [b \in Bits |-> 0]]

Rose(o, s)  == [b \in Bits |-> IF b \in s THEN o[b] + 1 ELSE o[b]]
Spent(o, s) == [b \in Bits |-> IF b \in s THEN o[b] - 1 ELSE o[b]]

(* The condition of a receiver, and the flags it is given. *)
Satisfied(w, s) == IF w.all THEN w.set \subseteq s ELSE w.set \cap s # {}
Received(w, s)  == w.set \cap s
-----------------------------------------------------------------------------
(* Slip: the search ends at the first thread it resumes. *)
SendFlagsOnce(e, s) ==
  LET full == set[e] \cup s
      fit  == SelectSeq(k.wait[e], LAMBDA t : Satisfied(info[t], full))
      t    == Head(fit)
      w    == info[t]
  IN  IF fit = << >>
      THEN [k |-> k, set |-> full, info |-> info]
      ELSE [k |-> ThreadResume(k, t),
            set |-> IF w.clear THEN full \ Received(w, full) ELSE full,
            info |-> [info EXCEPT ![t].set = Received(w, full)]]

(* Slip: the flags are cleared after the search. *)
SendFlagsLate(e, s) ==
  LET full == set[e] \cup s
      fit  == SelectSeq(k.wait[e], LAMBDA t : Satisfied(info[t], full))
      took == {t \in ToSet(fit) : info[t].clear}
  IN  [k |-> FoldLeft(ThreadResume, k, fit),
       set |-> full \ UNION {Received(info[t], full) : t \in took},
       info |-> [t \in Thread |-> IF t \in ToSet(fit)
                   THEN [info[t] EXCEPT !.set = Received(info[t], full)]
                   ELSE info[t]]]

(* The section of rt_event_send: each waiter in turn looks at the flags    *)
(* the ones before it have left.                                           *)
SendFlags(e, s) ==
  LET Pass(a, t) ==
        LET w   == info[t]
            got == Received(w, a.set)
        IN  IF Satisfied(w, a.set)
            THEN [k    |-> ThreadResume(a.k, t),
                  set  |-> IF w.clear THEN a.set \ got ELSE a.set,
                  info |-> [a.info EXCEPT ![t].set = got]]
            ELSE a
  IN  FoldLeft(Pass, [k |-> k, set |-> set[e] \cup s, info |-> info], k.wait[e])

Sent(e, s, r) == /\ set'  = [set EXCEPT ![e] = r.set]
                 /\ info' = r.info
                 /\ owed' = [owed EXCEPT ![e] = Rose(@, s \ set[e])]

(* rt_event_send; with set = 0 it returns and changes nothing. *)
EventSend(t, e) ==
  /\ Call(t, e)
  /\ \E s \in SUBSET Bits \ {{}} :
       LET r == SendFlags(e, s)
       IN  /\ Sent(e, s, r) /\ k' = r.k
           /\ IF r.k # k THEN Goto(t, "sched") ELSE UNCHANGED pc
  /\ UNCHANGED <<then, slice, isr, ipcVars>>

(* rt_event_send in an interrupt. *)
IsrEventSend(e) ==
  /\ isr = "none" /\ alive[e]
  /\ \E s \in SUBSET Bits \ {{}} :
       LET r == SendFlags(e, s)
       IN  /\ Sent(e, s, r)
           /\ k' = IF r.k # k THEN Schedule(r.k) ELSE k
  /\ UNCHANGED <<pc, then, slice, isr, ipcVars>>
-----------------------------------------------------------------------------
(* rt_event_recv whose condition holds. *)
EventTake(t, e) ==
  /\ Call(t, e)
  /\ \E w \in Infos :
       LET got == IF w.clear THEN Received(w, set[e]) ELSE {}
       IN  /\ w.set # {} /\ Satisfied(w, set[e])
           /\ set'  = [set EXCEPT ![e] = @ \ got]
           /\ owed' = [owed EXCEPT ![e] = Spent(@, got)]
  /\ k' = [k EXCEPT !.error[t] = "EOK"]
  /\ UNCHANGED <<pc, then, slice, isr, ipcVars, info>>

(* rt_event_recv that waits; with timeout = 0 it returns -RT_ETIMEOUT. *)
EventWait(t, e) ==
  /\ Call(t, e)
  /\ \E w \in Infos : /\ w.set # {} /\ ~Satisfied(w, set[e])
                      /\ info' = [info EXCEPT ![t] = w]
  /\ \E timed \in BOOLEAN : (timed => e \in Timed) /\ WaitIn(t, e, timed, "flagged")
  /\ About(t, e)
  /\ UNCHANGED <<alive, lists, wild, set, owed>>

(* rt_event_recv after its rt_schedule. *)
EventReturn(t) ==
  /\ At(t, "flagged")
  /\ LET e == arg[t]
     IN  owed' = IF k.error[t] = "EOK" /\ info[t].clear
                 THEN [owed EXCEPT ![e] = Spent(@, info[t].set)] ELSE owed
  /\ info' = [info EXCEPT ![t] = NoInfo]
  /\ Goto(t, "user")
  /\ UNCHANGED <<k, then, slice, isr, ipcVars, set>>

(* rt_event_control(RT_IPC_CMD_RESET) *)
EventReset(t, e) ==
  /\ Call(t, e)
  /\ set'  = [set EXCEPT ![e] = {}]
  /\ owed' = [owed EXCEPT ![e] = Spent(@, set[e])]
  /\ k' = IpcResumeAll(k, e)
  /\ Goto(t, "sched")
  /\ UNCHANGED <<then, slice, isr, ipcVars, info>>

(* rt_event_init, rt_event_create *)
EventCreate(t, e) ==
  /\ Revive(t, e, {"flagged"})
  /\ set'  = [set EXCEPT ![e] = {}]
  /\ owed' = [owed EXCEPT ![e] = [b \in Bits |-> 0]]
  /\ UNCHANGED info

EventStep(t) ==
  \/ \E e \in Events : \/ EventSend(t, e) \/ EventTake(t, e) \/ EventWait(t, e)
                       \/ EventReset(t, e) \/ EventCreate(t, e)
                       \/ Delete(t, e) /\ UNCHANGED eventVars
  \/ EventReturn(t)

EventInterrupt == \E e \in Events : IsrEventSend(e)
-----------------------------------------------------------------------------
EventTypeOK == /\ set \in [Events -> SUBSET Bits]
               /\ info \in [Thread -> Infos]
               /\ owed \in [Events -> [Bits -> Int]]

(* rt_event_send leaves nobody waiting whose condition holds, and nothing  *)
(* else makes the condition of a waiter true.                              *)
NoSatisfiedWaiter ==
  \A e \in Events : alive[e] =>
    \A t \in ToSet(k.wait[e]) : ~Satisfied(info[t], set[e])

(* A flag that is sent once is given to one of the receivers that clear    *)
(* it, and to no second one: neither by the pass that wakes several nor by *)
(* a receiver that comes before the one that was woken has run.            *)
FlagsConserved ==
  \A e \in Events, b \in Bits : alive[e] =>
    (IF b \in set[e] THEN 1 ELSE 0)
    + Cardinality({t \in WokenFrom(e, "flagged") : info[t].clear /\ b \in info[t].set})
    = owed[e][b]
=============================================================================
