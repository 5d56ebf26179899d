------------------------------ MODULE Threads ------------------------------
(***************************************************************************)
(* What threads and interrupts do whatever else a component adds: a thread *)
(* in the middle of a kernel call, rt_schedule, rt_thread_yield,           *)
(* rt_thread_sleep, and the tick interrupt of clock.c.  One action is one  *)
(* section of code no interrupt can split.  Threads interleave only by a   *)
(* switch: it is always the current thread that steps, unless an interrupt *)
(* runs, and interrupts do not nest.                                       *)
(*                                                                         *)
(*   pc[t]    where t is in the call it makes ("user": outside the kernel) *)
(*   then[t]  where t goes on once rt_schedule returns                     *)
(*   slice[t] thread->remaining_tick                                       *)
(*   isr      "timers" while the tick interrupt is in rt_timer_check       *)
(*                                                                         *)
(* A caller that blocks does not hold the scheduler lock: the kernel asks  *)
(* it of its users and does not check it.                                  *)
(***************************************************************************)
EXTENDS Kernel

CONSTANTS InitPrio,   \* thread->init_priority
          InitTick    \* thread->init_tick

ASSUME ThreadsAssumption == /\ InitPrio \in [Thread -> Prio]
                            /\ InitTick \in [Thread -> Nat \ {0}]

VARIABLES k, pc, then, slice, isr
threadVars == <<k, pc, then, slice, isr>>

At(t, l)   == t = k.current /\ isr = "none" /\ pc[t] = l
Goto(t, l) == pc' = [pc EXCEPT ![t] = l]
Then(t, l) == then' = [then EXCEPT ![t] = l]

(* A state every started system reaches: the idle thread runs and the      *)
(* application's threads sleep.                                            *)
AllAsleep ==
  /\ k = [stat  |-> [t \in Thread |-> IF t = Idle THEN "RUNNING" ELSE "SUSPEND"],
          prio  |-> InitPrio,
          ready |-> [p \in Prio |-> << >>],
          group |-> {},
          wait  |-> [q \in Queue |-> << >>],
          current |-> Idle, lock |-> 0,
          timer |-> [t \in Thread |-> t # Idle],
          error |-> [t \in Thread |-> "EOK"]]
  /\ pc    = [t \in Thread |-> IF t = Idle THEN "user" ELSE "woken"]
  /\ then  = [t \in Thread |-> "user"]
  /\ slice = InitTick
  /\ isr   = "none"
-----------------------------------------------------------------------------
(* rt_schedule.  When another thread is chosen, the caller goes on from    *)
(* then[t] once it is current again.                                       *)
Reschedule(t) ==
  /\ At(t, "sched")
  /\ k' = Schedule(k)
  /\ Goto(t, then[t]) /\ Then(t, "user")
  /\ UNCHANGED <<slice, isr>>

(* rt_thread_yield *)
Yield(t) ==
  /\ At(t, "user")
  /\ Goto(t, "sched")
  /\ UNCHANGED <<k, then, slice, isr>>

(* rt_thread_sleep: suspended and its timer started in one section. *)
Sleep(t) ==
  /\ At(t, "user") /\ k.lock = 0
  /\ k' = TimerStart(ThreadSuspend(k, t), t)
  /\ Goto(t, "sched") /\ Then(t, "woken")
  /\ UNCHANGED <<slice, isr>>

(* rt_thread_sleep clears the timeout it was resumed by. *)
SleepReturn(t) ==
  /\ At(t, "woken")
  /\ k' = [k EXCEPT !.error[t] = IF @ = "ETIMEOUT" THEN "EOK" ELSE @]
  /\ Goto(t, "user")
  /\ UNCHANGED <<then, slice, isr>>

-----------------------------------------------------------------------------
(* Slip: a used up slice is not given anew. *)
TickUsedUp ==
  LET left == slice[k.current] - 1
  IN  /\ isr = "none"
      /\ slice' = [slice EXCEPT ![k.current] = left]
      /\ k' = IF left = 0 THEN Schedule(k) ELSE k
      /\ isr' = "timers"
      /\ UNCHANGED <<pc, then>>

(* rt_tick_increase: the slice of the current thread, then the timers. *)
Tick ==
  LET cur  == k.current
      left == slice[cur] - 1
  IN  /\ isr = "none"
      /\ slice' = [slice EXCEPT ![cur] = IF left = 0 THEN InitTick[cur]
                                                   ELSE left]
      /\ k' = IF left = 0 THEN Schedule(k) ELSE k
      /\ isr' = "timers"
      /\ UNCHANGED <<pc, then>>

(* rt_timer_check: any number of thread timers expire in one interrupt. *)
TimerExpire(t) ==
  /\ isr = "timers" /\ k.timer[t]
  /\ k' = ThreadTimeout(k, t)
  /\ UNCHANGED <<pc, then, slice, isr>>

TickEnd ==
  /\ isr = "timers"
  /\ isr' = "none"
  /\ UNCHANGED <<k, pc, then, slice>>
=============================================================================
