------------------------------- MODULE Timer -------------------------------
(***************************************************************************)
(* The hard timers of timer.c and the tick of clock.c.  Threads start,     *)
(* stop, change and remove timers in several sections each; the tick       *)
(* interrupt falls between any two of them and calls the functions of the  *)
(* expired timers, which start, stop and change timers themselves.  The    *)
(* list has one level (RT_TIMER_SKIP_LIST_LEVEL 1 in every project).       *)
(*                                                                         *)
(*   tick      rt_tick                                                     *)
(*   list      rt_timer_list                                               *)
(*   tm[x]     of the timer x: init_tick, timeout_tick (due), its flag as  *)
(*             the booleans active and periodic, made while it is an       *)
(*             object; not in the code: wait, the ticks until it is due,   *)
(*             and stop, how the last stop of x since its start ended.     *)
(*             due is 0 while x is not in the list: nobody reads it then   *)
(*   pc, arg   where each thread is in its call, and the timer it is about *)
(*   saved     the flag as rt_timer_control has read it                    *)
(*   isr       "check" while the tick interrupt is in rt_timer_check       *)
(*   fresh     timers a thread linked since the last check                 *)
(*                                                                         *)
(* Owner says which thread uses a timer; the others, Callback's, are used  *)
(* by timeout functions.  A thread is preempted for at most Late ticks     *)
(* between reading the tick and linking its timer.                         *)
(***************************************************************************)
EXTENDS Integers, Sequences, SequencesExt, Lists

CONSTANTS TimerObj, User, Owner, Callback,
          TickMod,    \* 2^32: rt_tick_t is unsigned
          Times,      \* the values of init_tick
          Late

Half == (TickMod - 1) \div 2   \* RT_TICK_MAX / 2

ASSUME TimerAssumption ==
  /\ Owner \in [TimerObj -> User \cup {Callback}] /\ Callback \notin User
  /\ TimerObj # {} /\ TickMod \in Nat \ {0} /\ Late \in Nat
  /\ Times # {} /\ \A n \in Times : n \in 1 .. Half - 1 /\ n + Late < Half

VARIABLES tick, list, tm, pc, arg, saved, isr, fresh
vars == <<tick, list, tm, pc, arg, saved, isr, fresh>>

Made(n, p) == [made |-> TRUE, init |-> n, due |-> 0, active |-> FALSE,
               periodic |-> p, wait |-> 0, stop |-> "none"]

Init == /\ tick = 0 /\ list = << >> /\ isr = "none" /\ fresh = {}
        /\ \E p \in [TimerObj -> BOOLEAN], n \in [TimerObj -> Times] :
             tm = [x \in TimerObj |-> Made(n[x], p[x])]
        /\ pc = [c \in User |-> "user"]
        /\ arg = [c \in User |-> CHOOSE x \in TimerObj : TRUE]
        /\ saved = [c \in User |-> FALSE]
-----------------------------------------------------------------------------
(* Operators on s, a record of list and tm. *)
Minus(i, j) == (i - j) % TickMod

Removed(s, x) == [list |-> Without(s.list, x),
                  tm   |-> [s.tm EXCEPT ![x].due = 0, ![x].wait = 0]]

(* Slip: timeouts are compared without wrapping. *)
AfterPlain(s, y, x) == s.tm[y].due > s.tm[x].due

(* Whether y times out later than x. *)
After(s, y, x) == Minus(s.tm[y].due, s.tm[x].due) \in 1 .. Half - 1

(* The second section of rt_timer_start: behind those of the same tick. *)
Linked(s, x) ==
  LET later == {i \in DOMAIN s.list : After(s, s.list[i], x)}
      at    == IF later = {} THEN Len(s.list) + 1 ELSE Min(later)
  IN  [list |-> InsertAt(s.list, at, x), tm |-> [s.tm EXCEPT ![x].active = TRUE]]

Armed(s, x) == [s EXCEPT !.tm[x].due = (tick + s.tm[x].init) % TickMod,
                         !.tm[x].wait = s.tm[x].init]

(* The flag is cleared; e is how x was stopped.                            *)
Cleared(s, x, e) == [s EXCEPT !.tm[x].active = FALSE, !.tm[x].stop = e]

Disarmed(s, x) == Cleared(Removed(s, x), x, "none")

(* rt_timer_start, rt_timer_stop in an interrupt, which no one splits. *)
StartNow(s, x) == Linked(Armed(Disarmed(s, x), x), x)
StopNow(s, x)  == IF s.tm[x].active
                  THEN Cleared(Removed(s, x), x, "EOK")
                  ELSE [s EXCEPT !.tm[x].stop = "ERROR"]

Becomes(s) == list' = s.list /\ tm' = s.tm
Now        == [list |-> list, tm |-> tm]

At(c, l)   == pc[c] = l /\ isr = "none"
Goto(c, l) == pc' = [pc EXCEPT ![c] = l]
About(c, x, l) == /\ At(c, "user") /\ Owner[x] = c /\ tm[x].made
                  /\ arg' = [arg EXCEPT ![c] = x] /\ Goto(c, l)
-----------------------------------------------------------------------------
(* Slip: the timer is not removed first. *)
StartLinked(c, x) ==
  /\ About(c, x, "arm")
  /\ UNCHANGED <<tick, list, tm, saved, isr, fresh>>

(* rt_timer_start of a thread: out of the list; the timeout read with      *)
(* interrupts enabled; into the list.                                      *)
Start(c, x) ==
  /\ About(c, x, "arm")
  /\ Becomes(Disarmed(Now, x))
  /\ UNCHANGED <<tick, saved, isr, fresh>>

Arm(c) ==
  /\ At(c, "arm") /\ Goto(c, "link")
  /\ Becomes(Armed(Now, arg[c]))
  /\ UNCHANGED <<tick, arg, saved, isr, fresh>>

Link(c) ==
  /\ At(c, "link") /\ Goto(c, "user")
  /\ Becomes(Linked(Now, arg[c]))
  /\ fresh' = fresh \cup {arg[c]}
  /\ UNCHANGED <<tick, arg, saved, isr>>

(* rt_timer_stop of a thread: the flag is read and cleared with interrupts *)
(* enabled.                                                                *)
Stop(c, x) ==
  /\ IF tm[x].active
     THEN About(c, x, "remove") /\ UNCHANGED tm
     ELSE About(c, x, "user") /\ tm' = [tm EXCEPT ![x].stop = "ERROR"]
  /\ UNCHANGED <<tick, list, saved, isr, fresh>>

StopRemove(c) ==
  /\ At(c, "remove") /\ Goto(c, "clear")
  /\ Becomes(Removed(Now, arg[c]))
  /\ UNCHANGED <<tick, arg, saved, isr, fresh>>

StopClear(c) ==
  /\ At(c, "clear") /\ Goto(c, "user")
  /\ Becomes(Cleared(Now, arg[c], "EOK"))
  /\ UNCHANGED <<tick, arg, saved, isr, fresh>>

(* rt_timer_control: SET_TIME is one store; SET_ONESHOT and SET_PERIODIC   *)
(* read the flag and write it back with interrupts enabled.                *)
SetTime(c, x) ==
  /\ About(c, x, "user")
  /\ \E n \in Times : tm' = [tm EXCEPT ![x].init = n]
  /\ UNCHANGED <<tick, list, saved, isr, fresh>>

ReadFlag(c, x) ==
  /\ About(c, x, "flag")
  /\ saved' = [saved EXCEPT ![c] = tm[x].active]
  /\ UNCHANGED <<tick, list, tm, isr, fresh>>

WriteFlag(c) ==
  /\ At(c, "flag") /\ Goto(c, "user")
  /\ \E p \in BOOLEAN : tm' = [tm EXCEPT ![arg[c]].periodic = p,
                                         ![arg[c]].active = saved[c]]
  /\ UNCHANGED <<tick, list, arg, saved, isr, fresh>>

(* rt_timer_detach, rt_timer_delete: the flag stays. *)
Detach(c, x) ==
  /\ About(c, x, "user")
  /\ Becomes([Removed(Now, x) EXCEPT !.tm[x].made = FALSE, !.tm[x].stop = "none"])
  /\ UNCHANGED <<tick, saved, isr, fresh>>

(* rt_timer_init, rt_timer_create *)
Make(c, x) ==
  /\ At(c, "user") /\ Owner[x] = c /\ ~tm[x].made
  /\ \E n \in Times, p \in BOOLEAN : tm' = [tm EXCEPT ![x] = Made(n, p)]
  /\ UNCHANGED <<tick, list, pc, arg, saved, isr, fresh>>
-----------------------------------------------------------------------------
(* rt_tick_increase *)
Tick ==
  /\ isr = "none"
  /\ \A c \in User : pc[c] = "link" => tm[arg[c]].wait > -Late
  /\ tick' = (tick + 1) % TickMod
  /\ tm' = [x \in TimerObj |->
              IF \/ x \in ToSet(list)
                 \/ \E c \in User : pc[c] = "link" /\ arg[c] = x
              THEN [tm[x] EXCEPT !.wait = @ - 1] ELSE tm[x]]
  /\ isr' = "check"
  /\ UNCHANGED <<list, pc, arg, saved, fresh>>

(* Slip: the tick is compared without wrapping. *)
ExpiredPlain(x) == tick >= tm[x].due

Expired(x) == Minus(tick, tm[x].due) \in 0 .. Half - 1

(* What the timeout function of x may do. *)
Callbacks(s, x) ==
  {s, StopNow(s, x), StartNow(s, x)}
  \cup {[s EXCEPT !.tm[x].init = n] : n \in Times}
  \cup UNION {{StopNow(s, y), StartNow(s, y)} :
              y \in {z \in TimerObj : Owner[z] = Callback}}

(* Slip: a timer that its function stopped is started again. *)
AfterCallbackAlways(s, x) ==
  IF s.tm[x].periodic
  THEN Linked(Armed(Removed(s, x), x), x) ELSE [s EXCEPT !.tm[x].active = FALSE]

(* A periodic timer is started again, not by its users. *)
AfterCallback(s, x) ==
  IF s.tm[x].periodic /\ s.tm[x].active
  THEN Linked(Armed(Removed(s, x), x), x) ELSE [s EXCEPT !.tm[x].active = FALSE]

(* One iteration of rt_timer_check. *)
Fire ==
  /\ isr = "check" /\ list # << >> /\ Expired(Head(list))
  /\ \E s \in Callbacks(Removed(Now, Head(list)), Head(list)) :
       Becomes(AfterCallback(s, Head(list)))
  /\ UNCHANGED <<tick, pc, arg, saved, isr, fresh>>

CheckEnd ==
  /\ isr = "check" /\ ~(list # << >> /\ Expired(Head(list)))
  /\ isr' = "none" /\ fresh' = {}
  /\ UNCHANGED <<tick, list, tm, pc, arg, saved>>
-----------------------------------------------------------------------------
Call(c) == \E x \in TimerObj : \/ Start(c, x) \/ Stop(c, x) \/ SetTime(c, x)
                               \/ ReadFlag(c, x) \/ Detach(c, x) \/ Make(c, x)

Next == \/ \E c \in User : \/ Call(c) \/ Arm(c) \/ Link(c) \/ StopRemove(c)
                           \/ StopClear(c) \/ WriteFlag(c)
        \/ Tick \/ Fire \/ CheckEnd

Spec == Init /\ [][Next]_vars
-----------------------------------------------------------------------------
TypeOK ==
  /\ tick \in 0 .. TickMod - 1
  /\ list \in Seq(TimerObj) /\ IsInjective(list)
  /\ tm \in [TimerObj -> [made : BOOLEAN, init : Times, due : 0 .. TickMod - 1,
                          active : BOOLEAN, periodic : BOOLEAN, wait : Int,
                          stop : {"none", "EOK", "ERROR"}]]
  /\ pc \in [User -> {"user", "arm", "link", "remove", "clear", "flag"}]
  /\ arg \in [User -> TimerObj] /\ saved \in [User -> BOOLEAN]
  /\ isr \in {"none", "check"} /\ fresh \subseteq TimerObj

(* rt_timer_check leaves no timer in the list whose time has come, across  *)
(* the wraparound of the tick: only one that was linked too late for the   *)
(* last check can be overdue.                                              *)
NoneOverdue == isr = "none" => \A x \in ToSet(list) : tm[x].wait > 0 \/ x \in fresh

(* rt_timer_check calls no timeout function before the time it was started *)
(* for.                                                                    *)
NeverEarly ==
  [][isr = "check" /\ isr' = "check" => tm[Head(list)].wait <= 0]_vars

(* A timer that was stopped, by its thread or in its own timeout function, *)
(* is not in the list again before it is started: the check that was       *)
(* calling its function does not restart it.                               *)
StoppedStays == \A x \in ToSet(list) : tm[x].stop # "EOK"

(* timer.c: "This function will stop the timer".  Whatever rt_timer_stop   *)
(* returns, the timer is not in the list before it is started again.       *)
StopStops == \A x \in ToSet(list) : tm[x].stop = "none"
=============================================================================
