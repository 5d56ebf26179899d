----------------------------- MODULE Scheduler -----------------------------
(***************************************************************************)
(* Threads and the scheduler: the calls of thread.c and scheduler.c one    *)
(* thread makes about itself or another, and the idle thread of idle.c     *)
(* that releases the dead ones.                                            *)
(*                                                                         *)
(*   obj[t]   the thread t's call is about                                 *)
(*                                                                         *)
(* What a caller owes the kernel, and no action here breaks: it does not   *)
(* block or exit while it holds the scheduler lock, passes no thread whose *)
(* memory was released, and deletes neither itself nor the idle thread.    *)
(***************************************************************************)
EXTENDS Threads

CONSTANTS Main,       \* the thread the system starts in
          Calls,      \* the calls each thread makes, and about which thread
          IsrWakes,   \* whether device interrupts resume waiting threads
          Static,     \* threads of rt_thread_init; the others are created
          Cleanup,    \* threads with a cleanup function
          MaxNest     \* bound of rt_scheduler_lock_nest

API == {"startup", "create", "delete", "suspend", "resume", "sleep", "yield",
        "control", "critical", "exit"}

ASSUME SchedulerAssumption ==
  /\ Queue = {"defunct"}
  /\ Main \in Thread \ {Idle}
  /\ InitPrio[Main] <= InitPrio[Idle]   \* the idle thread's is the last
  /\ Calls \in [Thread -> SUBSET (API \X Thread)]
  /\ Calls[Idle] = {}
  /\ \A t \in Thread : \A c \in Calls[t] : c[2] # Idle
  /\ IsrWakes \in BOOLEAN
  /\ {Main, Idle} \subseteq Static /\ Static \subseteq Thread
  /\ Cleanup \subseteq Thread
  /\ MaxNest \in Nat

VARIABLES obj
vars == <<k, pc, then, slice, isr, obj>>

Location == {"user", "check", "unlink", "insert", "sched", "woken", "suspend",
             "deltimer", "delstat", "defunct", "free", "dead"}

(* The main thread runs and the idle thread is ready: what                 *)
(* rt_system_scheduler_start leaves.  The others have only been created.   *)
Init ==
  /\ k = [stat  |-> [t \in Thread |-> CASE t = Main -> "RUNNING"
                                        [] t = Idle -> "READY"
                                        [] OTHER    -> "INIT"],
          prio  |-> InitPrio,
          ready |-> [p \in Prio |-> IF p = InitPrio[Idle] THEN <<Idle>>
                                                          ELSE << >>],
          group |-> {InitPrio[Idle]},
          wait  |-> [q \in Queue |-> << >>],
          current |-> Main, lock |-> 0,
          timer |-> [t \in Thread |-> FALSE],
          error |-> [t \in Thread |-> "EOK"]]
  /\ pc    = [t \in Thread |-> "user"]
  /\ then  = [t \in Thread |-> "user"]
  /\ obj   = [t \in Thread |-> t]
  /\ slice = InitTick
  /\ isr   = "none"
-----------------------------------------------------------------------------
Call(t, c, x) == At(t, "user") /\ <<c, x>> \in Calls[t]
About(t, x)   == obj' = [obj EXCEPT ![t] = x]

(* The pointer the caller holds is still one to another thread. *)
Names(t, c, x) == Call(t, c, x) /\ x # t /\ k.stat[x] # "FREED"

(* rt_thread_startup, up to its call of rt_thread_resume. *)
Startup(t) ==
  /\ \E x \in Thread :
       /\ Names(t, "startup", x) /\ k.stat[x] = "INIT"
       /\ k' = [k EXCEPT !.prio[x] = InitPrio[x], !.stat[x] = "SUSPEND"]
       /\ About(t, x)
  /\ Goto(t, "check") /\ Then(t, "sched")
  /\ UNCHANGED <<slice, isr>>

(* rt_thread_resume of a thread the caller names. *)
Resume(t) ==
  /\ \E x \in Thread : Names(t, "resume", x) /\ About(t, x)
  /\ Goto(t, "check") /\ Then(t, "user")
  /\ UNCHANGED <<k, slice, isr>>

(* rt_thread_resume reads the state before it disables interrupts. *)
ResumeCheck(t) ==
  /\ At(t, "check")
  /\ \/ /\ k.stat[obj[t]] = "SUSPEND"
        /\ Goto(t, "unlink") /\ UNCHANGED then
     \/ /\ k.stat[obj[t]] # "SUSPEND"
        /\ Goto(t, then[t]) /\ Then(t, "user")
  /\ UNCHANGED <<k, obj, slice, isr>>

(* The section of rt_thread_resume under the interrupt lock, and the       *)
(* insertion that follows it.                                              *)
ResumeTake(t) ==
  /\ At(t, "unlink")
  /\ k' = ResumeUnlink(k, obj[t])
  /\ Goto(t, "insert")
  /\ UNCHANGED <<then, obj, slice, isr>>

ResumeInsert(t) ==
  /\ At(t, "insert")
  /\ k' = ScheduleInsert(k, obj[t])
  /\ Goto(t, then[t]) /\ Then(t, "user")
  /\ UNCHANGED <<obj, slice, isr>>
-----------------------------------------------------------------------------
(* rt_thread_suspend of the caller, then the rt_schedule its note asks for. *)
SuspendSelf(t) ==
  /\ Call(t, "suspend", t) /\ k.lock = 0
  /\ k' = ThreadSuspend(k, t)
  /\ Goto(t, "sched") /\ Then(t, "woken")
  /\ UNCHANGED <<obj, slice, isr>>

(* rt_thread_suspend of another thread: the state is read with interrupts  *)
(* still enabled.                                                          *)
SuspendCheck(t) ==
  /\ \E x \in Thread :
       Names(t, "suspend", x) /\ k.stat[x] = "READY" /\ About(t, x)
  /\ Goto(t, "suspend")
  /\ UNCHANGED <<k, then, slice, isr>>

SuspendOther(t) ==
  /\ At(t, "suspend")
  /\ k' = SuspendNow(k, obj[t])
  /\ Goto(t, "user")
  /\ UNCHANGED <<then, obj, slice, isr>>

(* rt_thread_control(RT_THREAD_CTRL_CHANGE_PRIORITY) *)
Control(t) ==
  /\ \E x \in Thread, p \in Prio :
       /\ Call(t, "control", x) /\ k.stat[x] # "FREED"
       /\ k' = ChangePriority(k, x, p)
  /\ UNCHANGED <<pc, then, obj, slice, isr>>

EnterCritical(t) ==
  /\ Call(t, "critical", t) /\ k.lock < MaxNest
  /\ k' = [k EXCEPT !.lock = @ + 1]
  /\ UNCHANGED <<pc, then, obj, slice, isr>>

(* Slips: the counter is not clamped at zero; nothing reschedules. *)
ExitCriticalUnclamped(t) ==
  /\ Call(t, "critical", t)
  /\ k' = [k EXCEPT !.lock = @ - 1]
  /\ IF k'.lock <= 0 THEN Goto(t, "sched") ELSE UNCHANGED pc
  /\ UNCHANGED <<then, obj, slice, isr>>

ExitCriticalQuiet(t) ==
  /\ Call(t, "critical", t)
  /\ k' = [k EXCEPT !.lock = IF @ > 0 THEN @ - 1 ELSE 0]
  /\ UNCHANGED <<pc, then, obj, slice, isr>>

(* rt_exit_critical: the outermost one reschedules. *)
ExitCritical(t) ==
  /\ Call(t, "critical", t)
  /\ k' = [k EXCEPT !.lock = IF @ > 0 THEN @ - 1 ELSE 0]
  /\ IF k'.lock = 0 THEN Goto(t, "sched") ELSE UNCHANGED pc
  /\ UNCHANGED <<then, obj, slice, isr>>
-----------------------------------------------------------------------------
(* A thread without a cleanup function whose memory is its user's is only  *)
(* detached; any other waits in rt_thread_defunct for the idle thread.     *)
Detached(x) == x \in Static \ Cleanup

Bury(kk, x) == IF Detached(x) THEN kk
               ELSE [kk EXCEPT !.wait["defunct"] = <<x>> \o @]

(* rt_thread_exit *)
Exit(t) ==
  /\ Call(t, "exit", t) /\ k.lock = 0
  /\ k' = Bury([ScheduleRemove(k, t) EXCEPT !.stat[t] = "CLOSE",
                                            !.timer[t] = FALSE], t)
  /\ Goto(t, "sched") /\ Then(t, "dead")
  /\ UNCHANGED <<obj, slice, isr>>

(* Slip: the victim stays in its list. *)
DeleteLinked(t) ==
  /\ \E x \in Thread :
       Names(t, "delete", x) /\ k.stat[x] # "CLOSE" /\ About(t, x)
  /\ Goto(t, "deltimer")
  /\ UNCHANGED <<k, then, slice, isr>>

(* rt_thread_delete and rt_thread_detach: four sections, with interrupts   *)
(* enabled between them.                                                   *)
Delete(t) ==
  /\ \E x \in Thread :
       /\ Names(t, "delete", x) /\ k.stat[x] # "CLOSE"
       /\ k' = IF k.stat[x] = "INIT" THEN k ELSE ScheduleRemove(k, x)
       /\ About(t, x)
  /\ Goto(t, "deltimer")
  /\ UNCHANGED <<then, slice, isr>>

DeleteTimer(t) ==
  /\ At(t, "deltimer")
  /\ k' = [k EXCEPT !.timer[obj[t]] = FALSE]
  /\ Goto(t, "delstat")
  /\ UNCHANGED <<then, obj, slice, isr>>

DeleteStat(t) ==
  /\ At(t, "delstat")
  /\ k' = SetStat(k, obj[t], "CLOSE")
  /\ Goto(t, "defunct")
  /\ UNCHANGED <<then, obj, slice, isr>>

DeleteBury(t) ==
  /\ At(t, "defunct")
  /\ k' = Bury(k, obj[t])
  /\ Goto(t, "user")
  /\ UNCHANGED <<then, obj, slice, isr>>

(* rt_thread_create, in memory an earlier thread had. *)
Create(t) ==
  /\ \E x \in Thread :
       /\ Call(t, "create", x) /\ k.stat[x] = "FREED"
       /\ k' = [k EXCEPT !.stat[x] = "INIT", !.prio[x] = InitPrio[x],
                         !.error[x] = "EOK", !.timer[x] = FALSE]
       /\ pc'    = [pc EXCEPT ![x] = "user"]
       /\ then'  = [then EXCEPT ![x] = "user"]
       /\ slice' = [slice EXCEPT ![x] = InitTick[x]]
  /\ UNCHANGED <<obj, isr>>
-----------------------------------------------------------------------------
(* rt_thread_idle_excute: one defunct thread leaves the list; the          *)
(* rt_exit_critical around its cleanup function reschedules.               *)
IdleReap ==
  LET x == Head(k.wait["defunct"])
  IN  /\ At(Idle, "user") /\ k.wait["defunct"] # << >>
      /\ k' = Schedule(Unlink(k, x))
      /\ IF x \in Static THEN UNCHANGED <<pc, obj>>
                         ELSE Goto(Idle, "free") /\ About(Idle, x)
      /\ UNCHANGED <<then, slice, isr>>

IdleFree ==
  /\ At(Idle, "free")
  /\ k' = SetStat(k, obj[Idle], "FREED")
  /\ Goto(Idle, "user")
  /\ UNCHANGED <<then, obj, slice, isr>>
-----------------------------------------------------------------------------
(* A device interrupt resumes a thread that suspended itself to wait for   *)
(* it, as rt_completion_done does, and reschedules.                        *)
IsrWake(t) ==
  /\ IsrWakes /\ isr = "none"
  /\ k.stat[t] = "SUSPEND" /\ (pc[t] = "woken" \/ then[t] = "woken")
  /\ k' = Schedule(ThreadResume(k, t))
  /\ UNCHANGED <<pc, then, obj, slice, isr>>
-----------------------------------------------------------------------------
ThreadStep(t) ==
  \/ Startup(t) \/ Resume(t) \/ ResumeCheck(t) \/ ResumeTake(t)
  \/ ResumeInsert(t)
  \/ SuspendSelf(t) \/ SuspendCheck(t) \/ SuspendOther(t)
  \/ Control(t) \/ EnterCritical(t) \/ ExitCritical(t)
  \/ Exit(t) \/ Delete(t) \/ DeleteTimer(t) \/ DeleteStat(t) \/ DeleteBury(t)
  \/ Create(t)
  \/ /\ \/ Reschedule(t) \/ SleepReturn(t)
        \/ <<"yield", t>> \in Calls[t] /\ Yield(t)
        \/ <<"sleep", t>> \in Calls[t] /\ Sleep(t)
     /\ UNCHANGED obj

Interrupt ==
  \/ (Tick \/ TickEnd) /\ UNCHANGED obj
  \/ \E t \in Thread : (TimerExpire(t) /\ UNCHANGED obj) \/ IsrWake(t)

Next == (\E t \in Thread : ThreadStep(t)) \/ IdleReap \/ IdleFree \/ Interrupt

Spec == Init /\ [][Next]_vars

(* The processor goes on between interrupts; the tick interrupt comes      *)
(* back, ends, and reaches every timer.  A thread owes only that it leaves *)
(* the critical sections it enters.                                        *)
KernelCode(t) ==
  \/ ResumeCheck(t) \/ ResumeTake(t) \/ ResumeInsert(t) \/ SuspendOther(t)
  \/ DeleteTimer(t) \/ DeleteStat(t) \/ DeleteBury(t)
  \/ (Reschedule(t) \/ SleepReturn(t)) /\ UNCHANGED obj

Fairness ==
  /\ \A t \in Thread \ {Idle} :
       /\ SF_vars(KernelCode(t))
       /\ SF_vars(ExitCritical(t) /\ k.lock > 0)
       /\ SF_vars(TimerExpire(t) /\ UNCHANGED obj)
  /\ WF_vars(Tick /\ UNCHANGED obj) /\ WF_vars(TickEnd /\ UNCHANGED obj)

FairSpec == Spec /\ Fairness
-----------------------------------------------------------------------------
(* Threads another thread is deleting: out of every list, not yet CLOSE. *)
Dying == {obj[t] : t \in {u \in Thread : pc[u] \in {"deltimer", "delstat"}}}

TypeOK ==
  /\ k \in KernelState
  /\ pc \in [Thread -> Location]
  /\ then \in [Thread -> {"user", "sched", "woken", "dead"}]
  /\ obj \in [Thread -> Thread]
  /\ slice \in [Thread -> Nat \ {0}]
  /\ isr \in {"none", "timers"}

(* The lists, the bitmap and the thread states describe the same threads   *)
(* whenever interrupts are enabled: rt_schedule dereferences the head of   *)
(* the list the bitmap names and never looks at the states.                *)
ReadyQueue ==
  /\ SingleLinkage(k)
  /\ ReadyListed(k, Dying)
  /\ BitmapExact(k)
  /\ RunningUnlinked(k)

(* rt_thread_timeout asserts that its thread is suspended: no resume,      *)
(* suspend, exit or delete leaves the thread's timer running.              *)
TimersOfSuspended == TimedSuspended(k)

(* The thread outside the kernel is RUNNING, and unless the scheduler is   *)
(* locked no ready thread is more urgent: every section that makes a       *)
(* thread ready is followed by a reschedule before user code goes on.      *)
HighestPriorityRuns ==
  isr = "none" /\ pc[k.current] = "user" =>
    /\ k.stat[k.current] = "RUNNING"
    /\ k.lock = 0 => MostUrgentRuns(k)

(* rt_enter_critical: no interrupt and no call switches threads until the  *)
(* outermost rt_exit_critical.                                             *)
LockKeepsCurrent == [][k.lock > 0 => k'.current = k.current]_vars

(* A thread that exited or was deleted never runs or is queued again: it   *)
(* is released by the idle thread, and only then reused.                   *)
ClosedStaysClosed ==
  [][\A t \in Thread :
       /\ k.stat[t] = "CLOSE" => k'.stat[t] \in {"CLOSE", "FREED"}
       /\ k.stat[t] = "FREED" => k'.stat[t] \in {"FREED", "INIT"}]_vars

(* The idle thread frees no control block a list, the timer list or the    *)
(* processor still refers to, and the defunct list holds closed threads.   *)
FreedUnreferenced ==
  /\ ToSet(k.wait["defunct"]) \subseteq {t \in Thread : k.stat[t] = "CLOSE"}
  /\ \A t \in Thread : k.stat[t] = "FREED" =>
       ~Linked(k, t) /\ ~k.timer[t] /\ t # k.current

(* rt_thread_delete: "The thread object will be removed from thread        *)
(* queue": a closed thread is in no ready list.                            *)
ClosedUnqueued ==
  \A t \in Thread : k.stat[t] = "CLOSE" =>
    \A p \in Prio : t \notin ToSet(k.ready[p])

(* Threads of one priority share the processor round robin: while no       *)
(* thread is more urgent, a ready thread gets its turn.                    *)
MostUrgent(t) == \A u \in Thread : k.prio[t] <= k.prio[u]

RoundRobin ==
  \A t \in Thread : (k.stat[t] = "READY" /\ MostUrgent(t))
                    ~> (k.stat[t] # "READY" \/ ~MostUrgent(t))

(* A sleeping thread no other is more urgent than gets the processor back. *)
SleeperRuns ==
  \A t \in Thread : (k.timer[t] /\ MostUrgent(t))
                    ~> (pc[t] = "user" \/ ~MostUrgent(t))
=============================================================================
