------------------------------- MODULE Mutex -------------------------------
(***************************************************************************)
(* The mutexes of ipc.c: a counter of nested takes, an owner, a list of    *)
(* waiters the mutex is handed to, and inheritance of the waiters'         *)
(* priority by the owner.                                                  *)
(*                                                                         *)
(*   mtx[m]   value, owner, original_priority and hold of struct rt_mutex; *)
(*            its waiters are k.wait[m]                                    *)
(*   arg[t]   the mutex t's call of rt_mutex_take waits for                *)
(*   held[t]  how often t was told it has each mutex and has not released  *)
(*            it: what the callers know, not a variable of the code        *)
(*                                                                         *)
(* A thread releases what it holds and takes a mutex outside interrupts    *)
(* (RT_DEBUG_IN_THREAD_CONTEXT).  MaxHold bounds nested takes of one       *)
(* mutex, MaxHeld the mutexes one thread holds at a time.                  *)
(***************************************************************************)
EXTENDS Threads

CONSTANTS Flag,      \* parent.flag of each mutex, "FIFO" or "PRIO"
          MaxHold,
          MaxHeld,
          NoThread   \* RT_NULL

Mutex == Queue

ASSUME MutexAssumption == /\ Mutex # {}
                          /\ Flag \in [Mutex -> {"FIFO", "PRIO"}]
                          /\ MaxHold \in Nat \ {0} /\ MaxHeld \in Nat \ {0}
                          /\ NoThread \notin Thread

VARIABLES mtx, arg, held
mutexVars == <<mtx, arg, held>>
vars == <<k, pc, then, slice, isr, mtx, arg, held>>

Location == {"user", "sched", "woken", "granted"}

NoPrio == 255    \* original_priority of a mutex nobody owns: 0xFF
MutexState == [value : 0 .. 1, owner : Thread \cup {NoThread},
               orig : Prio \cup {NoPrio}, hold : Nat]

Free == [value |-> 1, owner |-> NoThread, orig |-> NoPrio, hold |-> 0]

OwnedBy(t, p) == [value |-> 0, owner |-> t, orig |-> p, hold |-> 1]

Init == /\ AllAsleep
        /\ mtx  = [m \in Mutex |-> Free]
        /\ arg  = [t \in Thread |-> CHOOSE m \in Mutex : TRUE]
        /\ held = [t \in Thread |-> [m \in Mutex |-> 0]]
-----------------------------------------------------------------------------
Holds(t) == {m \in Mutex : held[t][m] > 0}
Gains(t, m)  == held' = [held EXCEPT ![t][m] = @ + 1]
Reset(t) == [k EXCEPT !.error[t] = "EOK"]

(* rt_mutex_take by the owner. *)
TakeAgain(t, m) ==
  /\ At(t, "user") /\ mtx[m].owner = t /\ mtx[m].hold < MaxHold
  /\ k' = Reset(t)
  /\ mtx' = [mtx EXCEPT ![m].hold = @ + 1]
  /\ Gains(t, m)
  /\ UNCHANGED <<pc, then, slice, isr, arg>>

(* Slip: the counter is not looked at. *)
TakeFreeAlways(t, m) ==
  /\ At(t, "user") /\ mtx[m].owner # t /\ Cardinality(Holds(t)) < MaxHeld
  /\ k' = Reset(t)
  /\ mtx' = [mtx EXCEPT ![m] = [value |-> @.value - 1, owner |-> t,
                                orig |-> k.prio[t], hold |-> @.hold + 1]]
  /\ Gains(t, m)
  /\ UNCHANGED <<pc, then, slice, isr, arg>>

(* rt_mutex_take of a mutex that is available. *)
TakeFree(t, m) ==
  /\ At(t, "user") /\ mtx[m].owner # t /\ mtx[m].value > 0
  /\ Cardinality(Holds(t)) < MaxHeld
  /\ k' = Reset(t)
  /\ mtx' = [mtx EXCEPT ![m] = [value |-> @.value - 1, owner |-> t,
                                orig |-> k.prio[t], hold |-> @.hold + 1]]
  /\ Gains(t, m)
  /\ UNCHANGED <<pc, then, slice, isr, arg>>

(* rt_mutex_take that does not wait: -RT_ETIMEOUT. *)
TryFail(t, m) ==
  /\ At(t, "user") /\ mtx[m].owner # t /\ mtx[m].value = 0
  /\ k' = [k EXCEPT !.error[t] = "ETIMEOUT"]
  /\ UNCHANGED <<pc, then, slice, isr, mtx, arg, held>>

(* Slip: the owner keeps its own priority. *)
InheritNot(kk, m, t) == kk

(* rt_mutex_take that waits: the owner inherits the priority of a more     *)
(* urgent waiter, which then suspends itself, with a timer or for ever.    *)
Inherit(kk, m, t) ==
  LET o == mtx[m].owner
  IN  IF kk.prio[t] < kk.prio[o] THEN ChangePriority(kk, o, kk.prio[t]) ELSE kk

TakeWait(t, m) ==
  LET s == IpcSuspend(Inherit(Reset(t), m, t), m, t, Flag[m])
  IN  /\ At(t, "user") /\ mtx[m].owner # t /\ mtx[m].value = 0 /\ k.lock = 0
      /\ Cardinality(Holds(t)) < MaxHeld
      /\ k' \in {s, TimerStart(s, t)}
      /\ arg' = [arg EXCEPT ![t] = m]
      /\ Goto(t, "sched") /\ Then(t, "granted")
      /\ UNCHANGED <<slice, isr, mtx, held>>

(* Slip: every return from rt_schedule is a success. *)
TakeReturnAlways(t) ==
  /\ At(t, "granted")
  /\ Gains(t, arg[t])
  /\ Goto(t, "user")
  /\ UNCHANGED <<k, then, slice, isr, mtx, arg>>

(* rt_mutex_take after its rt_schedule: the error tells a timeout from the *)
(* mutex having been handed over.                                          *)
TakeReturn(t) ==
  /\ At(t, "granted")
  /\ IF k.error[t] = "EOK" THEN Gains(t, arg[t]) ELSE UNCHANGED held
  /\ Goto(t, "user")
  /\ UNCHANGED <<k, then, slice, isr, mtx, arg>>
-----------------------------------------------------------------------------
(* Slip: the priority of a waiter is kept. *)
RestoreNot(m, t) == k

(* rt_mutex_release gives the owner the priority it had at its first take. *)
Restore(m, t) ==
  IF mtx[m].orig # k.prio[t] THEN ChangePriority(k, t, mtx[m].orig) ELSE k

(* Slip: the mutex is made available although somebody waits. *)
ReleaseUnnoticed(t, m) ==
  LET r == Restore(m, t)
  IN  /\ At(t, "user") /\ mtx[m].owner = t
      /\ held' = [held EXCEPT ![t][m] = @ - 1]
      /\ \/ /\ mtx[m].hold > 1
            /\ mtx' = [mtx EXCEPT ![m].hold = @ - 1]
            /\ UNCHANGED <<k, pc>>
         \/ /\ mtx[m].hold = 1
            /\ k' = r
            /\ mtx' = [mtx EXCEPT ![m] = Free]
            /\ UNCHANGED pc
      /\ UNCHANGED <<then, slice, isr, arg>>

(* Slip: an inner release hands the mutex over. *)
ReleaseEarly(t, m) ==
  LET r == Restore(m, t)
      w == Head(k.wait[m])
  IN  /\ At(t, "user") /\ mtx[m].owner = t
      /\ held' = [held EXCEPT ![t][m] = @ - 1]
      /\ \/ /\ mtx[m].hold > 1 /\ k.wait[m] = << >>
            /\ mtx' = [mtx EXCEPT ![m].hold = @ - 1]
            /\ UNCHANGED <<k, pc>>
         \/ /\ mtx[m].hold = 1 /\ k.wait[m] = << >>
            /\ k' = r
            /\ mtx' = [mtx EXCEPT ![m] = Free]
            /\ UNCHANGED pc
         \/ /\ k.wait[m] # << >>
            /\ k' = IpcResume(r, m)
            /\ mtx' = [mtx EXCEPT ![m] = OwnedBy(w, r.prio[w])]
            /\ Goto(t, "sched")
      /\ UNCHANGED <<then, slice, isr, arg>>

(* rt_mutex_release by the owner: the last one restores the priority, and  *)
(* hands the mutex to the first waiter or makes it available.  It          *)
(* reschedules only when it resumed a waiter.                              *)
Release(t, m) ==
  LET r == Restore(m, t)
      w == Head(k.wait[m])
  IN  /\ At(t, "user") /\ mtx[m].owner = t
      /\ held' = [held EXCEPT ![t][m] = @ - 1]
      /\ \/ /\ mtx[m].hold > 1
            /\ mtx' = [mtx EXCEPT ![m].hold = @ - 1]
            /\ UNCHANGED <<k, pc>>
         \/ /\ mtx[m].hold = 1 /\ k.wait[m] = << >>
            /\ k' = r
            /\ mtx' = [mtx EXCEPT ![m] = Free]
            /\ UNCHANGED pc
         \/ /\ mtx[m].hold = 1 /\ k.wait[m] # << >>
            /\ k' = IpcResume(r, m)
            /\ mtx' = [mtx EXCEPT ![m] = OwnedBy(w, r.prio[w])]
            /\ Goto(t, "sched")
      /\ UNCHANGED <<then, slice, isr, arg>>

(* rt_mutex_release by a thread that is not the owner: -RT_ERROR. *)
ReleaseFail(t, m) ==
  /\ At(t, "user") /\ mtx[m].owner # t
  /\ k' = [k EXCEPT !.error[t] = "ERROR"]
  /\ UNCHANGED <<pc, then, slice, isr, mtx, arg, held>>
-----------------------------------------------------------------------------
ThreadStep(t) ==
  \/ \E m \in Mutex : \/ TakeAgain(t, m) \/ TakeFree(t, m) \/ TryFail(t, m)
                      \/ TakeWait(t, m)
                      \/ Release(t, m) \/ ReleaseFail(t, m)
  \/ TakeReturn(t)
  \/ (Reschedule(t) \/ Sleep(t) \/ SleepReturn(t)) /\ UNCHANGED mutexVars

Interrupt == /\ Tick \/ TickEnd \/ \E t \in Thread : TimerExpire(t)
             /\ UNCHANGED mutexVars

Next == (\E t \in Thread \ {Idle} : ThreadStep(t)) \/ Interrupt

Spec == Init /\ [][Next]_vars

-----------------------------------------------------------------------------
TypeOK ==
  /\ k \in KernelState
  /\ pc \in [Thread -> Location]
  /\ then \in [Thread -> {"user", "woken", "granted"}]
  /\ slice \in [Thread -> Nat \ {0}]
  /\ isr \in {"none", "timers"}
  /\ mtx \in [Mutex -> MutexState]
  /\ arg \in [Thread -> Mutex]
  /\ held \in [Thread -> [Mutex -> Nat]]

(* A mutex was handed to t, which has not run since. *)
Granted(t, m) ==
  /\ "granted" \in {pc[t], then[t]} /\ arg[t] = m
  /\ k.stat[t] # "SUSPEND" /\ k.error[t] = "EOK"

(* What rt_mutex_take and rt_mutex_release told the threads is what the    *)
(* mutex records: only its owner holds it, hold times, even when the       *)
(* release, the waiter's timeout and the waiter's return interleave.       *)
Ownership ==
  \A m \in Mutex, t \in Thread :
    /\ held[t][m] + (IF Granted(t, m) THEN 1 ELSE 0)
         = IF mtx[m].owner = t THEN mtx[m].hold ELSE 0
    /\ (mtx[m].owner = NoThread) <=> (mtx[m].value = 1)
    /\ (mtx[m].owner = NoThread) <=> (mtx[m].hold = 0)

(* No thread waits for a mutex that is free, whatever order timeouts and   *)
(* releases come in.                                                       *)
NoStrandedWaiter ==
  \A m \in Mutex : mtx[m].owner = NoThread => k.wait[m] = << >>

(* kernel.h: "Mutex objects use inherited priority to prevent priority     *)
(* reversion".  The owner is as urgent as every waiter.                    *)
Inherited(m) ==
  \A t \in ToSet(k.wait[m]) : k.prio[mtx[m].owner] <= k.prio[t]

OwnerInherits == \A m \in Mutex : Flag[m] = "PRIO" => Inherited(m)

(* rt_mutex_release: "change the owner thread to original priority".  A    *)
(* thread that owns no mutex has the priority it was given.                *)
PriorityRestored ==
  \A t \in Thread : (\A m \in Mutex : mtx[m].owner # t) => k.prio[t] = InitPrio[t]

ReadyQueue == /\ SingleLinkage(k) /\ ReadyListed(k, {})
              /\ BitmapExact(k) /\ RunningUnlinked(k)

(* kernel.h: "The scheduling is a full preemptive priority-based           *)
(* scheduling algorithm."                                                  *)
HighestPriorityRuns ==
  isr = "none" /\ pc[k.current] = "user" => MostUrgentRuns(k)

(* Every mutex is a lock that is handed over while somebody waits for it.  *)
L(m) == INSTANCE Lock WITH owner <- mtx[m].owner, depth <- mtx[m].hold,
                           want <- ToSet(k.wait[m])

ImplementsLock ==
  /\ \A m \in Mutex : L(m)!Init
  /\ [][\A m \in Mutex : L(m)!Next \/ UNCHANGED L(m)!vars]_vars
=============================================================================
