------------------------------- MODULE Kernel -------------------------------
(***************************************************************************)
(* The part of RT-Thread's kernel every other component calls: threads,    *)
(* the ready queue and rt_schedule, as operators on a record k that holds  *)
(* the kernel's global state.  Each operator is one C function, or the     *)
(* part of one that runs with interrupts disabled; a component's action    *)
(* composes them the way its critical section calls them.  The build is    *)
(* the one of projects/*/rtconfig.h: one CPU (no RT_USING_SMP), no         *)
(* RT_USING_SIGNALS, at most 32 priorities.                                *)
(*                                                                         *)
(*   k.stat     thread->stat & RT_THREAD_STAT_MASK                         *)
(*   k.prio     thread->current_priority (0 is the most urgent)            *)
(*   k.ready    rt_thread_priority_table, one list per priority            *)
(*   k.group    rt_thread_ready_priority_group, the set of its 1 bits      *)
(*   k.wait     the other lists a thread's tlist node can be linked in     *)
(*   k.current  rt_current_thread                                          *)
(*   k.lock     rt_scheduler_lock_nest                                     *)
(*   k.timer    thread->thread_timer is ACTIVATED (in rt_timer_list)       *)
(*   k.error    thread->error                                              *)
(***************************************************************************)
EXTENDS Integers, Sequences, SequencesExt, FiniteSetsExt, Lists

CONSTANTS Thread,    \* the thread objects of the system
          Idle,      \* the idle thread, never suspended
          PrioMax,   \* RT_THREAD_PRIORITY_MAX
          Queue      \* names of the lists of k.wait

ASSUME KernelAssumption == /\ PrioMax \in Nat \ {0}
                           /\ Idle \in Thread

Prio  == 0 .. PrioMax - 1
Stat  == {"INIT", "READY", "SUSPEND", "RUNNING", "CLOSE", "FREED"}
Errno == {"EOK", "ETIMEOUT", "ERROR"}

KernelState == [stat : [Thread -> Stat], prio : [Thread -> Prio],
                ready : [Prio -> Seq(Thread)], group : SUBSET Prio,
                wait : [Queue -> Seq(Thread)], current : Thread,
                lock : Nat, timer : [Thread -> BOOLEAN],
                error : [Thread -> Errno]]
-----------------------------------------------------------------------------
(* rt_list_remove(&thread->tlist): out of whichever list links the node. *)
Unlink(k, t) ==
  [k EXCEPT !.ready = [p \in Prio |-> Without(k.ready[p], t)],
            !.wait  = [q \in Queue |-> Without(k.wait[q], t)]]

SetStat(k, t, s) == [k EXCEPT !.stat[t] = s]

(* rt_schedule_insert_thread: the current thread is RUNNING and is not     *)
(* queued; any other goes to the tail of its priority's list.              *)
ScheduleInsert(k, t) ==
  IF t = k.current
  THEN SetStat(k, t, "RUNNING")
  ELSE [k EXCEPT !.stat[t] = "READY",
                 !.ready[k.prio[t]] = Append(@, t),
                 !.group = @ \cup {k.prio[t]}]

(* Slip: the bit of the priority stays set. *)
ScheduleRemoveKeepsBit(k, t) == Unlink(k, t)

(* rt_schedule_remove_thread: also clears the bit of a list left empty. *)
ScheduleRemove(k, t) ==
  LET u == Unlink(k, t)
  IN  [u EXCEPT !.group = IF u.ready[k.prio[t]] = << >>
                          THEN @ \ {k.prio[t]} ELSE @]

(* __rt_ffs on the bitmap: the most urgent priority with a ready thread. *)
HighestReady(g) == Min(g)

(* Slip: the scheduler lock is not looked at. *)
ScheduleUnlocked(k) ==
  LET cur  == k.current
      to   == Head(k.ready[Min(k.group)])
      from == IF k.stat[cur] = "RUNNING"
              THEN ScheduleInsert([k EXCEPT !.current = to], cur)
              ELSE [k EXCEPT !.current = to]
  IN  IF k.group = {} \/ (k.stat[cur] = "RUNNING" /\ k.prio[cur] < Min(k.group))
      THEN k ELSE SetStat(ScheduleRemove(from, to), to, "RUNNING")

(* Slip: a running thread also keeps the processor from its equals. *)
ScheduleNoRotation(k) ==
  LET cur  == k.current
      to   == Head(k.ready[Min(k.group)])
      from == IF k.stat[cur] = "RUNNING"
              THEN ScheduleInsert([k EXCEPT !.current = to], cur)
              ELSE [k EXCEPT !.current = to]
  IN  IF \/ k.lock # 0 \/ k.group = {}
         \/ k.stat[cur] = "RUNNING" /\ k.prio[cur] <= Min(k.group)
      THEN k ELSE SetStat(ScheduleRemove(from, to), to, "RUNNING")

(* rt_schedule: nothing while the scheduler is locked; otherwise the head  *)
(* of the most urgent list, unless the current thread still runs and is    *)
(* strictly more urgent.  A current thread that still runs is requeued.    *)
Schedule(k) ==
  LET cur     == k.current
      hp      == HighestReady(k.group)
      to      == Head(k.ready[hp])
      running == k.stat[cur] = "RUNNING"
      from    == IF running THEN ScheduleInsert([k EXCEPT !.current = to], cur)
                            ELSE [k EXCEPT !.current = to]
  IN  IF k.lock # 0 \/ k.group = {}
      THEN k
      ELSE IF to = cur \/ (running /\ k.prio[cur] < hp)
           THEN SetStat(ScheduleRemove(k, cur), cur, "RUNNING")
           ELSE SetStat(ScheduleRemove(from, to), to, "RUNNING")
-----------------------------------------------------------------------------
(* The part of rt_thread_suspend under the interrupt lock. *)
SuspendNow(k, t) ==
  [ScheduleRemove(k, t) EXCEPT !.stat[t] = "SUSPEND", !.timer[t] = FALSE]

(* rt_thread_suspend, called with interrupts disabled. *)
ThreadSuspend(k, t) ==
  IF k.stat[t] \in {"READY", "RUNNING"} THEN SuspendNow(k, t) ELSE k

(* Slip: the timer of the wait goes on. *)
ResumeUnlinkTimed(k, t) == Unlink(k, t)

(* The part of rt_thread_resume under the interrupt lock. *)
ResumeUnlink(k, t) == [Unlink(k, t) EXCEPT !.timer[t] = FALSE]

(* rt_thread_resume, called with interrupts disabled. *)
ThreadResume(k, t) ==
  IF k.stat[t] # "SUSPEND" THEN k ELSE ScheduleInsert(ResumeUnlink(k, t), t)

(* rt_timer_control(SET_TIME) and rt_timer_start of the thread's timer.    *)
(* Time is abstract: an armed timer expires at some later tick.            *)
TimerStart(k, t) == [k EXCEPT !.timer[t] = TRUE]

(* Slip: the thread is unlinked but not made ready. *)
ThreadTimeoutLost(k, t) ==
  Schedule([Unlink(k, t) EXCEPT !.timer[t] = FALSE, !.error[t] = "ETIMEOUT"])

(* rt_timer_check on an expired thread timer: it leaves the timer list and *)
(* rt_thread_timeout wakes the thread with -RT_ETIMEOUT, then reschedules. *)
ThreadTimeout(k, t) ==
  LET u == [Unlink(k, t) EXCEPT !.timer[t] = FALSE, !.error[t] = "ETIMEOUT"]
  IN  Schedule(ScheduleInsert(u, t))

(* Slip: a ready thread stays in the list of its old priority. *)
ChangePriorityInPlace(k, t, p) == [k EXCEPT !.prio[t] = p]

(* rt_thread_control(RT_THREAD_CTRL_CHANGE_PRIORITY): a ready thread moves *)
(* to its new list, any other only changes its priority.  It ends without  *)
(* a call of rt_schedule.                                                  *)
ChangePriority(k, t, p) ==
  IF k.stat[t] = "READY"
  THEN ScheduleInsert([ScheduleRemove(k, t) EXCEPT !.prio[t] = p], t)
  ELSE [k EXCEPT !.prio[t] = p]
-----------------------------------------------------------------------------
(* rt_ipc_list_suspend: suspend t and link it in the wait list q, at the   *)
(* tail (FIFO) or before the first waiter that is less urgent (PRIO).      *)
IpcSuspend(k, q, t, flag) ==
  LET s    == ThreadSuspend(k, t)
      less == {i \in DOMAIN s.wait[q] : s.prio[t] < s.prio[s.wait[q][i]]}
  IN  [s EXCEPT !.wait[q] = IF flag = "FIFO" \/ less = {}
                            THEN Append(@, t)
                            ELSE InsertAt(@, Min(less), t)]

(* rt_ipc_list_resume: resume the first waiter of q. *)
IpcResume(k, q) == ThreadResume(k, Head(k.wait[q]))

(* One iteration of rt_ipc_list_resume_all: the first waiter leaves with   *)
(* -RT_ERROR.                                                              *)
IpcResumeError(k, q) ==
  LET t == Head(k.wait[q])
  IN  ThreadResume([k EXCEPT !.error[t] = "ERROR"], t)

(* rt_ipc_list_resume_all inside a critical section of its caller. *)
IpcResumeAll(k, q) ==
  FoldLeft(LAMBDA kk, t : ThreadResume([kk EXCEPT !.error[t] = "ERROR"], t),
           k, k.wait[q])
-----------------------------------------------------------------------------
(* Wherever a thread's tlist node is linked. *)
Linked(k, t) == \/ \E p \in Prio : t \in ToSet(k.ready[p])
                \/ \E q \in Queue : t \in ToSet(k.wait[q])

(* Each node is in one list at most, and there once. *)
SingleLinkage(k) ==
  /\ \A p \in Prio : IsInjective(k.ready[p])
  /\ \A q \in Queue : IsInjective(k.wait[q])
  /\ \A p, r \in Prio : p # r => ToSet(k.ready[p]) \cap ToSet(k.ready[r]) = {}
  /\ \A q, r \in Queue : q # r => ToSet(k.wait[q]) \cap ToSet(k.wait[r]) = {}
  /\ \A p \in Prio, q \in Queue : ToSet(k.ready[p]) \cap ToSet(k.wait[q]) = {}

(* The ready lists hold exactly the READY threads, by current priority;    *)
(* those of the set dying are taken out before their state is changed.     *)
ReadyListed(k, dying) ==
  \A p \in Prio : ToSet(k.ready[p]) =
    {t \in Thread \ dying : k.stat[t] = "READY" /\ k.prio[t] = p}

(* The bitmap names exactly the lists that are not empty. *)
BitmapExact(k) == k.group = {p \in Prio : k.ready[p] # << >>}

(* A RUNNING thread is the current one and is in no list. *)
RunningUnlinked(k) ==
  \A t \in Thread : k.stat[t] = "RUNNING" => t = k.current /\ ~Linked(k, t)

(* What rt_thread_timeout asserts of the thread it is called for. *)
TimedSuspended(k) == \A t \in Thread : k.timer[t] => k.stat[t] = "SUSPEND"

(* No thread the scheduler could choose is more urgent than the current. *)
MostUrgentRuns(k) == \A p \in k.group : k.prio[k.current] <= p
=============================================================================
