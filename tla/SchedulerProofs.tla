-------------------------- MODULE SchedulerProofs --------------------------
(***************************************************************************)
(* The ready queue of Scheduler is coherent for any number of threads and  *)
(* priorities, as long as threads start others, sleep, suspend themselves, *)
(* lock the scheduler, change priorities, exit and are created anew, and   *)
(* interrupts wake them, but none resumes, suspends or deletes another:    *)
(* those calls split their work over several sections, and run             *)
(* scheduler_delete shows what an interrupt between them does.             *)
(***************************************************************************)
EXTENDS Scheduler, KernelProofs

(* The workloads the theorems are about. *)
OwnCalls == \A t \in Thread : \A c \in Calls[t] :
              /\ c[1] \notin {"delete", "resume"}
              /\ c[1] = "suspend" => c[2] = t

-----------------------------------------------------------------------------
(* The inductive invariant.  Between the sections of rt_thread_startup the *)
(* thread being started belongs to its starter alone: it is suspended, has *)
(* no timer and is in no call an interrupt would wake it from.             *)
InStart  == {"check", "unlink", "insert"}
Starting == {t \in Thread : pc[t] \in InStart}

StartInv == \A u \in Starting :
  /\ k.stat[obj[u]] = "SUSPEND" /\ obj[u] # k.current /\ ~k.timer[obj[u]]
  /\ pc[obj[u]] = "user" /\ then[obj[u]] = "user"
  /\ \A v \in Starting : obj[v] = obj[u] => v = u

(* A thread that has not been started is in no call; one that exited is    *)
(* about to leave the processor for ever.                                  *)
FreshInv == \A x \in Thread : k.stat[x] = "INIT" => pc[x] = "user" /\ then[x] = "user"

ClosedInv == \A x \in Thread : k.stat[x] \in {"CLOSE", "FREED"} =>
               (pc[x] = "sched" /\ then[x] = "dead") \/ pc[x] = "dead"

(* The idle thread can always run, and frees only what it took out of the  *)
(* defunct list.                                                           *)
IdleInv == /\ k.stat[Idle] \in {"READY", "RUNNING"}
           /\ pc[Idle] = "free" => /\ k.stat[obj[Idle]] = "CLOSE"
                                   /\ obj[Idle] \notin ToSet(k.wait["defunct"])

CurrentInv == k.stat[k.current] \in {"READY", "RUNNING", "SUSPEND", "CLOSE"}

DefunctClosed == \A x \in ToSet(k.wait["defunct"]) : k.stat[x] = "CLOSE"

NoneDying == \A t \in Thread : pc[t] \notin {"suspend", "deltimer", "delstat", "defunct"}

IInv == /\ TypeOK /\ Coherent(k, {}) /\ TimedSuspended(k)
        /\ StartInv /\ FreshInv /\ ClosedInv /\ IdleInv /\ CurrentInv
        /\ DefunctClosed /\ NoneDying

-----------------------------------------------------------------------------
(* What a section that starts and creates no thread does to the states:    *)
(* threads of X are woken, the current one may suspend itself or exit, one *)
(* that waits to be freed may be freed.                                    *)
Affects(kk, s, X) ==
  /\ \A y \in Thread :
       \/ s.stat[y] = kk.stat[y]
       \/ {s.stat[y], kk.stat[y]} \subseteq {"READY", "RUNNING"}
       \/ y \in X /\ kk.stat[y] = "SUSPEND" /\ s.stat[y] \in {"READY", "RUNNING"}
       \/ /\ y = kk.current /\ y # Idle
          /\ kk.stat[y] \in {"READY", "RUNNING"} /\ s.stat[y] = "SUSPEND"
       \/ /\ y = kk.current /\ y # Idle
          /\ kk.stat[y] # "CLOSE" /\ s.stat[y] = "CLOSE"
          /\ pc'[y] = "sched" /\ then'[y] = "dead"
       \/ /\ kk.stat[y] = "CLOSE" /\ s.stat[y] = "FREED"
          /\ y # kk.current /\ y \notin ToSet(kk.wait["defunct"])
          /\ pc'[Idle] # "free"
  /\ \A y \in Thread : s.timer[y] =>
       s.stat[y] = "SUSPEND" /\ (kk.timer[y] \/ y = kk.current)
  /\ \A y \in ToSet(s.wait["defunct"]) :
       \/ y \in ToSet(kk.wait["defunct"])
       \/ y = kk.current /\ kk.stat[y] # "CLOSE" /\ s.stat[y] = "CLOSE"
  /\ s.current # kk.current => s.stat[s.current] = "RUNNING"

(* The idle thread takes a thread out of the defunct list to free it. *)
TakesOut(t) == /\ t = Idle
               /\ \E x \in Thread : /\ obj' = [obj EXCEPT ![t] = x]
                                   /\ k'.stat[x] = "CLOSE"
                                   /\ x \notin ToSet(k'.wait["defunct"])

(* How the current thread t goes on at l, to go on at h after rt_schedule: *)
(* it is in rt_thread_startup only if it was, with a thread that still is  *)
(* suspended, and it leaves the processor if it exited.                    *)
GoesOn(t, l, h, X) ==
  /\ t = k.current
  /\ l \in Location /\ h \in {"user", "sched", "woken", "dead"}
  /\ pc' = [pc EXCEPT ![t] = l] /\ then' = [then EXCEPT ![t] = h]
  /\ obj' = obj \/ (TakesOut(t) /\ l = "free")
  /\ l \notin {"suspend", "deltimer", "delstat", "defunct"}
  /\ l = "free" => pc[t] = "free" \/ TakesOut(t)
  /\ l \in InStart => pc[t] \in InStart
  /\ k.stat[t] = "CLOSE" => (l = "sched" /\ h = "dead") \/ l = "dead"
  /\ \A u \in Starting : obj[u] \in X => u = t /\ l \notin InStart
  /\ slice' \in [Thread -> Nat \ {0}] /\ isr' \in {"none", "timers"}

(* Together they keep the invariant. *)
LEMMA AffectsKeepsIInv ==
  ASSUME IInv, NEW X \in SUBSET Thread, Affects(k, k', X),
         k' \in KernelState, Coherent(k', {}),
         NEW t \in Thread, NEW l, NEW h, GoesOn(t, l, h, X)
  PROVE  IInv'
<1> USE DEF GoesOn
<1>1. /\ k \in KernelState /\ pc \in [Thread -> Location] /\ obj \in [Thread -> Thread]
      /\ then \in [Thread -> {"user", "sched", "woken", "dead"}]
  BY DEF IInv, TypeOK
<1>2. /\ \A x \in Thread : pc'[x] = IF x = t THEN l ELSE pc[x]
      /\ \A x \in Thread : then'[x] = IF x = t THEN h ELSE then[x]
  BY <1>1
<1>3. /\ obj' \in [Thread -> Thread]
      /\ \A u \in Thread : pc'[u] \in InStart => obj'[u] = obj[u]
  <2>1. CASE obj' = obj
    BY <1>1, <2>1
  <2>2. CASE TakesOut(t) /\ l = "free"
    <3>1. PICK x \in Thread : obj' = [obj EXCEPT ![t] = x]
      BY <2>2 DEF TakesOut
    <3>2. pc'[t] \notin InStart
      BY <1>2, <2>2 DEF InStart
    <3> QED
      BY <1>1, <3>1, <3>2
  <2> QED
    BY <2>1, <2>2
<1>4. TypeOK' /\ TimedSuspended(k')
  BY <1>1, <1>3 DEF TypeOK, TimedSuspended, Affects
<1>5. StartInv'
  <2> SUFFICES ASSUME NEW u \in Thread, pc'[u] \in InStart
               PROVE  /\ k'.stat[obj'[u]] = "SUSPEND" /\ obj'[u] # k'.current
                      /\ ~k'.timer[obj'[u]]
                      /\ pc'[obj'[u]] = "user" /\ then'[obj'[u]] = "user"
                      /\ \A v \in Thread : pc'[v] \in InStart /\ obj'[v] = obj'[u] => v = u
    BY DEF StartInv, Starting
  <2> DEFINE x == obj[u]
  <2>1. pc[u] \in InStart /\ \A v \in Thread : pc'[v] \in InStart => pc[v] \in InStart
    BY <1>2
  <2>2. x \in Thread /\ obj'[u] = x
    BY <1>1, <1>3
  <2>3. /\ k.stat[x] = "SUSPEND" /\ x # k.current /\ ~k.timer[x]
        /\ pc[x] = "user" /\ then[x] = "user"
        /\ \A v \in Thread : pc[v] \in InStart /\ obj[v] = x => v = u
    BY <2>1 DEF IInv, StartInv, Starting
  <2>4. x \notin X
    BY <1>2, <2>1 DEF Starting
  <2>5. k'.stat[x] = "SUSPEND" /\ ~k'.timer[x] /\ x # k'.current
    BY <2>2, <2>3, <2>4 DEF Affects
  <2> QED
    BY <1>2, <1>3, <2>1, <2>2, <2>3, <2>5
<1>6. FreshInv'
  BY <1>2 DEF IInv, FreshInv, CurrentInv, Affects
<1>7. ClosedInv'
  BY <1>2 DEF IInv, ClosedInv, CurrentInv, Affects
<1>8. IdleInv'
  <2>1. Idle \in Thread
    BY KernelAssumption
  <2>2. k'.stat[Idle] \in {"READY", "RUNNING"}
    BY <2>1 DEF IInv, IdleInv, Affects
  <2>3. ASSUME pc'[Idle] = "free"
        PROVE  k'.stat[obj'[Idle]] = "CLOSE" /\ obj'[Idle] \notin ToSet(k'.wait["defunct"])
    <3>1. CASE TakesOut(t)
      BY <1>1, <2>1, <3>1 DEF TakesOut
    <3>2. CASE ~TakesOut(t)
      <4>1. pc[Idle] = "free" /\ obj' = obj /\ obj[Idle] \in Thread
        BY <1>1, <1>2, <2>1, <2>3, <3>2
      <4>2. k.stat[obj[Idle]] = "CLOSE" /\ obj[Idle] \notin ToSet(k.wait["defunct"])
        BY <4>1 DEF IInv, IdleInv
      <4>3. k'.stat[obj[Idle]] = "CLOSE"
        BY <2>3, <4>1, <4>2 DEF Affects
      <4> QED
        BY <4>1, <4>2, <4>3 DEF Affects
    <3> QED
      BY <3>1, <3>2
  <2> QED
    BY <2>2, <2>3 DEF IdleInv
<1>9. CurrentInv'
  BY <1>1 DEF IInv, CurrentInv, Affects
<1>10. DefunctClosed'
  <2>1. ToSet(k.wait["defunct"]) \subseteq Thread
    <3>1. k.wait["defunct"] \in Seq(Thread)
      BY <1>1, SchedulerAssumption DEF KernelState
    <3> QED
      BY <3>1, ListEmpty
  <2> QED
    BY <2>1 DEF IInv, DefunctClosed, Affects
<1>11. NoneDying'
  BY <1>2 DEF IInv, NoneDying
<1> QED
  BY <1>4, <1>5, <1>6, <1>7, <1>8, <1>9, <1>10, <1>11 DEF IInv

LEMMA QuietAffects ==
  ASSUME IInv, Moves(k, k'), k'.timer = k.timer, k'.wait = k.wait,
         k'.current # k.current => k'.stat[k'.current] = "RUNNING"
  PROVE  Affects(k, k', {})
<1>1. \A y \in Thread : k.timer[y] => k'.stat[y] = "SUSPEND"
  BY DEF IInv, TimedSuspended, Moves
<1>2. \A y \in Thread : \/ k'.stat[y] = k.stat[y]
                       \/ {k'.stat[y], k.stat[y]} \subseteq {"READY", "RUNNING"}
  BY DEF Moves
<1> QED
  BY <1>1, <1>2 DEF Affects

LEMMA WokenAffects ==
  ASSUME IInv, NEW x \in Thread, k.stat[x] = "SUSPEND", Woken(k, k', x)
  PROVE  Affects(k, k', {x})
<1>1. k.timer \in [Thread -> BOOLEAN]
  BY DEF IInv, TypeOK, KernelState
<1>2. \A y \in Thread : k'.timer[y] => y # x /\ k.timer[y]
  BY <1>1 DEF Woken
<1>3. \A y \in Thread : k'.timer[y] => k'.stat[y] = "SUSPEND"
  BY <1>2 DEF IInv, TimedSuspended, Woken
<1>4. \A y \in Thread :
        \/ k'.stat[y] = k.stat[y]
        \/ {k'.stat[y], k.stat[y]} \subseteq {"READY", "RUNNING"}
        \/ y = x /\ k.stat[y] = "SUSPEND" /\ k'.stat[y] \in {"READY", "RUNNING"}
  BY DEF Woken
<1>5. ToSet(k'.wait["defunct"]) \subseteq ToSet(k.wait["defunct"])
  BY SchedulerAssumption DEF Woken
<1> QED
  BY <1>2, <1>3, <1>4, <1>5 DEF Affects, Woken

(* The section of rt_thread_suspend, by the current thread about itself. *)
LEMMA SuspendAffects ==
  ASSUME IInv, NEW t \in Thread \ {Idle}, t = k.current,
         \/ k' = ThreadSuspend(k, t)
         \/ k' = TimerStart(ThreadSuspend(k, t), t) /\ k.stat[t] # "CLOSE"
  PROVE  k' \in KernelState /\ Coherent(k', {}) /\ Affects(k, k', {})
<1> DEFINE u == ThreadSuspend(k, t)
<1>1. k \in KernelState /\ Coherent(k, {})
  BY DEF IInv, TypeOK
<1>2. /\ u \in KernelState /\ Coherent(u, {})
      /\ u.current = k.current
      /\ \A y \in Thread \ {t} : u.stat[y] = k.stat[y]
      /\ u.stat[t] = IF k.stat[t] \in {"READY", "RUNNING"} THEN "SUSPEND" ELSE k.stat[t]
      /\ \A y \in Thread : u.timer[y] => k.timer[y] /\ u.stat[y] = "SUSPEND"
      /\ ToSet(u.wait["defunct"]) \subseteq ToSet(k.wait["defunct"])
  <2>1. CASE k.stat[t] \in {"READY", "RUNNING"}
    <3> DEFINE v == [ScheduleRemove(k, t) EXCEPT !.stat[t] = "SUSPEND", !.timer[t] = FALSE]
    <3>1. /\ v \in KernelState
          /\ SameThreads(k, v)
          /\ v.stat = [k.stat EXCEPT ![t] = "SUSPEND"]
          /\ v.timer = [k.timer EXCEPT ![t] = FALSE]
          /\ \A q \in Queue : ToSet(v.wait[q]) = ToSet(k.wait[q]) \ {t}
          /\ Coherent(v, {})
      BY <1>1, RetireFacts
    <3>2. u = v
      BY <2>1 DEF ThreadSuspend, SuspendNow
    <3> HIDE DEF u, v
    <3>3. /\ \A y \in Thread : v.stat[y] = IF y = t THEN "SUSPEND" ELSE k.stat[y]
          /\ \A y \in Thread : v.timer[y] = IF y = t THEN FALSE ELSE k.timer[y]
      BY <1>1, <3>1 DEF KernelState
    <3>4. ToSet(v.wait["defunct"]) \subseteq ToSet(k.wait["defunct"])
      BY <3>1, SchedulerAssumption
    <3>5. v \in KernelState /\ Coherent(v, {}) /\ v.current = k.current
      BY <3>1 DEF SameThreads
    <3>6. \A y \in Thread : k.timer[y] => k.stat[y] = "SUSPEND"
      BY DEF IInv, TimedSuspended
    <3>7. \A y \in Thread : v.timer[y] => k.timer[y] /\ v.stat[y] = "SUSPEND"
      BY <3>3, <3>6
    <3> QED
      BY <2>1, <3>2, <3>3, <3>4, <3>5, <3>7, SMTT(30)
  <2>2. CASE k.stat[t] \notin {"READY", "RUNNING"}
    <3>1. u = k
      BY <2>2 DEF ThreadSuspend
    <3> QED
      BY <1>1, <2>2, <3>1 DEF IInv, TimedSuspended
  <2> QED
    BY <2>1, <2>2
<1> HIDE DEF u
<1>3. k.stat[t] \in {"READY", "RUNNING", "SUSPEND", "CLOSE"}
  BY DEF IInv, CurrentInv
<1>4. CASE k' = u
  BY <1>2, <1>3, <1>4 DEF Affects
<1>5. CASE k' = TimerStart(u, t) /\ k.stat[t] # "CLOSE"
  <2>1. /\ k' \in KernelState
        /\ k'.stat = u.stat /\ k'.prio = u.prio /\ k'.current = u.current
        /\ k'.ready = u.ready /\ k'.wait = u.wait /\ k'.group = u.group
        /\ \A y \in Thread : k'.timer[y] = IF y = t THEN TRUE ELSE u.timer[y]
    BY <1>2, <1>5 DEF TimerStart, KernelState
  <2>2. Coherent(k', {})
    <3>1. u \in KernelState /\ Coherent(u, {})
      BY <1>2
    <3> HIDE DEF u
    <3>2. /\ k' \in KernelState
          /\ k'.ready = u.ready /\ k'.wait = u.wait /\ k'.group = u.group
          /\ k'.current = u.current /\ k'.stat = u.stat
          /\ \A y \in Thread : u.stat[y] = "READY" => k'.prio[y] = u.prio[y]
      BY <2>1
    <3> QED
      BY <3>1, <3>2, CoherentFrame
  <2>3. u.stat[t] = "SUSPEND"
    BY <1>2, <1>3, <1>5
  <2>4. \A y \in Thread :
          \/ k'.stat[y] = k.stat[y]
          \/ /\ y = k.current /\ y # Idle
             /\ k.stat[y] \in {"READY", "RUNNING"} /\ k'.stat[y] = "SUSPEND"
    BY <1>2, <2>1
  <2>5. \A y \in Thread : k'.timer[y] =>
          k'.stat[y] = "SUSPEND" /\ (k.timer[y] \/ y = k.current)
    <3>1. t = k.current /\ k'.stat = u.stat /\ u.stat[t] = "SUSPEND"
      BY <2>1, <2>3
    <3>2. ASSUME NEW y \in Thread, y # t, k'.timer[y]
          PROVE  u.timer[y]
      BY <2>1, <3>2
    <3>3. \A y \in Thread : u.timer[y] => k.timer[y] /\ u.stat[y] = "SUSPEND"
      BY <1>2
    <3> QED
      BY <3>1, <3>2, <3>3
  <2>6. /\ ToSet(k'.wait["defunct"]) \subseteq ToSet(k.wait["defunct"])
        /\ k'.current = k.current
    BY <1>2, <2>1
  <2> QED
    BY <2>1, <2>2, <2>4, <2>5, <2>6 DEF Affects
<1> QED
  BY <1>4, <1>5 DEF u

(* A call leaves t where it was in the kernel. *)
LEMMA Stays ==
  ASSUME IInv, NEW t \in Thread
  PROVE  /\ pc = [pc EXCEPT ![t] = pc[t]] /\ then = [then EXCEPT ![t] = then[t]]
         /\ pc[t] \in Location /\ then[t] \in {"user", "sched", "woken", "dead"}
         /\ pc[t] \notin {"suspend", "deltimer", "delstat", "defunct"}
         /\ k.stat[t] = "CLOSE" => (pc[t] = "sched" /\ then[t] = "dead") \/ pc[t] = "dead"
         /\ slice \in [Thread -> Nat \ {0}] /\ isr \in {"none", "timers"}
         /\ k \in KernelState /\ Coherent(k, {})
BY DEF IInv, TypeOK, NoneDying, ClosedInv

-----------------------------------------------------------------------------
(* One lemma per group of actions. *)
LEMMA RescheduleKeeps ==
  ASSUME IInv, NEW t \in Thread, Reschedule(t), UNCHANGED obj
  PROVE  IInv'
<1> USE Stays
<1>1. /\ t = k.current /\ pc[t] = "sched" /\ k' = Schedule(k)
      /\ pc' = [pc EXCEPT ![t] = then[t]] /\ then' = [then EXCEPT ![t] = "user"]
      /\ slice' = slice /\ isr' = isr /\ obj' = obj
  BY DEF Reschedule, At, Goto, Then
<1>2. /\ k' \in KernelState
      /\ k'.timer = k.timer /\ k'.wait = k.wait
      /\ Coherent(k', {})
      /\ Moves(k, k')
      /\ k'.current # k.current => k'.stat[k'.current] = "RUNNING"
  BY <1>1, ScheduleFacts
<1>3. Affects(k, k', {})
  BY <1>2, QuietAffects
<1>4. then[t] \in Location /\ then[t] \notin InStart /\ then[t] # "free"
      /\ then[t] \notin {"suspend", "deltimer", "delstat", "defunct"}
  BY DEF Location, InStart
<1>5. k.stat[t] = "CLOSE" => then[t] = "dead"
  BY <1>1
<1>6. GoesOn(t, then[t], "user", {})
  BY <1>1, <1>4, <1>5 DEF GoesOn
<1> QED
  BY <1>2, <1>3, <1>6, AffectsKeepsIInv

(* rt_thread_sleep after it returns, rt_thread_yield. *)
LEMMA SleepReturnKeeps ==
  ASSUME IInv, NEW t \in Thread, SleepReturn(t), UNCHANGED obj
  PROVE  IInv'
<1> USE Stays
<1>1. /\ t = k.current /\ pc[t] = "woken"
      /\ k' = [k EXCEPT !.error[t] = IF @ = "ETIMEOUT" THEN "EOK" ELSE @]
      /\ pc' = [pc EXCEPT ![t] = "user"] /\ then' = then
      /\ slice' = slice /\ isr' = isr /\ obj' = obj
  BY DEF SleepReturn, At, Goto
<1>2. /\ k' \in KernelState
      /\ k'.stat = k.stat /\ k'.prio = k.prio /\ k'.current = k.current
      /\ k'.ready = k.ready /\ k'.wait = k.wait /\ k'.group = k.group
      /\ k'.timer = k.timer
  BY <1>1 DEF KernelState, Errno
<1>3. Coherent(k', {})
  BY <1>2, CoherentFrame
<1>4. Affects(k, k', {})
  BY <1>2, QuietAffects DEF Moves
<1>5. "user" \in Location /\ "user" \notin InStart
  BY DEF Location, InStart
<1>6. k.stat[t] # "CLOSE"
  BY <1>1
<1>7. GoesOn(t, "user", then[t], {})
  BY <1>1, <1>5, <1>6 DEF GoesOn
<1> QED
  BY <1>2, <1>3, <1>4, <1>7, AffectsKeepsIInv

LEMMA YieldKeeps ==
  ASSUME IInv, NEW t \in Thread, Yield(t), UNCHANGED obj
  PROVE  IInv'
<1> USE Stays
<1>1. /\ t = k.current /\ pc[t] = "user" /\ k' = k
      /\ pc' = [pc EXCEPT ![t] = "sched"] /\ then' = then
      /\ slice' = slice /\ isr' = isr /\ obj' = obj
  BY DEF Yield, At, Goto
<1>2. Affects(k, k', {})
  BY <1>1, QuietAffects DEF Moves
<1>3. "sched" \in Location /\ "sched" \notin InStart
  BY DEF Location, InStart
<1>4. k.stat[t] # "CLOSE"
  BY <1>1
<1>5. GoesOn(t, "sched", then[t], {})
  BY <1>1, <1>3, <1>4 DEF GoesOn
<1> QED
  BY <1>1, <1>2, <1>5, AffectsKeepsIInv

(* rt_thread_suspend of the caller, rt_thread_sleep. *)
LEMMA SuspendSelfKeeps ==
  ASSUME IInv, NEW t \in Thread \ {Idle},
         SuspendSelf(t) \/ (Sleep(t) /\ UNCHANGED obj)
  PROVE  IInv'
<1> USE Stays
<1>1. /\ t = k.current /\ pc[t] = "user"
      /\ k' = ThreadSuspend(k, t) \/ k' = TimerStart(ThreadSuspend(k, t), t)
      /\ pc' = [pc EXCEPT ![t] = "sched"] /\ then' = [then EXCEPT ![t] = "woken"]
      /\ slice' = slice /\ isr' = isr /\ obj' = obj
  BY DEF SuspendSelf, Sleep, Call, At, Goto, Then
<1>2. k.stat[t] # "CLOSE"
  BY <1>1
<1>3. k' \in KernelState /\ Coherent(k', {}) /\ Affects(k, k', {})
  BY <1>1, <1>2, SuspendAffects
<1>4. "sched" \in Location /\ "sched" \notin InStart
  BY DEF Location, InStart
<1>5. GoesOn(t, "sched", "woken", {})
  BY <1>1, <1>2, <1>4 DEF GoesOn
<1> QED
  BY <1>3, <1>5, AffectsKeepsIInv

LEMMA ControlKeeps ==
  ASSUME IInv, NEW t \in Thread, Control(t)
  PROVE  IInv'
<1> USE Stays
<1>1. PICK x \in Thread, p \in Prio : Call(t, "control", x) /\ k' = ChangePriority(k, x, p)
  BY DEF Control
<1>2. /\ pc' = pc /\ then' = then /\ obj' = obj /\ slice' = slice /\ isr' = isr
      /\ t = k.current
  BY <1>1 DEF Control, Call, At
<1>3. /\ k' \in KernelState /\ Coherent(k', {})
      /\ k'.current = k.current /\ k'.timer = k.timer /\ k'.wait = k.wait
      /\ Moves(k, k')
  BY <1>1, ChangePriorityFacts
<1>4. Affects(k, k', {})
  BY <1>3, QuietAffects
<1>5. GoesOn(t, pc[t], then[t], {})
  BY <1>2 DEF GoesOn
<1> QED
  BY <1>3, <1>4, <1>5, AffectsKeepsIInv

(* rt_enter_critical, rt_exit_critical *)
LEMMA CriticalKeeps ==
  ASSUME IInv, NEW t \in Thread, EnterCritical(t) \/ ExitCritical(t)
  PROVE  IInv'
<1> USE Stays
<1>1. /\ t = k.current /\ pc[t] = "user"
      /\ \/ k' = [k EXCEPT !.lock = @ + 1]
         \/ k' = [k EXCEPT !.lock = IF @ > 0 THEN @ - 1 ELSE 0]
      /\ pc' = [pc EXCEPT ![t] = "sched"] \/ pc' = pc
      /\ then' = then /\ slice' = slice /\ isr' = isr /\ obj' = obj
  BY DEF EnterCritical, ExitCritical, Call, At, Goto
<1>2. /\ k' \in KernelState
      /\ k'.stat = k.stat /\ k'.prio = k.prio /\ k'.current = k.current
      /\ k'.ready = k.ready /\ k'.wait = k.wait /\ k'.group = k.group
      /\ k'.timer = k.timer
  <2>1. k.lock \in Nat
    BY DEF KernelState
  <2>2. PICK n \in Nat : k' = [k EXCEPT !.lock = n]
    <3>1. CASE k' = [k EXCEPT !.lock = @ + 1]
      <4>1. PICK n \in Nat : n = k.lock + 1
        BY <2>1
      <4> QED
        BY <3>1, <4>1
    <3>2. CASE k' = [k EXCEPT !.lock = IF @ > 0 THEN @ - 1 ELSE 0]
      <4>1. PICK n \in Nat : n = IF k.lock > 0 THEN k.lock - 1 ELSE 0
        BY <2>1
      <4> QED
        BY <3>2, <4>1
    <3> QED
      BY <1>1, <3>1, <3>2
  <2> QED
    BY <2>2 DEF KernelState
<1>3. Coherent(k', {})
  BY <1>2, CoherentFrame
<1>4. Affects(k, k', {})
  BY <1>2, QuietAffects DEF Moves
<1>5. "sched" \in Location /\ "sched" \notin InStart
  BY DEF Location, InStart
<1>6. k.stat[t] # "CLOSE"
  BY <1>1
<1>7. CASE pc' = pc
  <2>1. GoesOn(t, pc[t], then[t], {})
    BY <1>1, <1>7 DEF GoesOn
  <2> QED
    BY <1>2, <1>3, <1>4, <2>1, AffectsKeepsIInv
<1>8. CASE pc' = [pc EXCEPT ![t] = "sched"]
  <2>1. GoesOn(t, "sched", then[t], {})
    BY <1>1, <1>5, <1>6, <1>8 DEF GoesOn
  <2> QED
    BY <1>2, <1>3, <1>4, <2>1, AffectsKeepsIInv
<1> QED
  BY <1>1, <1>7, <1>8

(* The tick interrupt, and a thread timer that expires in it: a thread     *)
(* whose timer runs is not being started.                                  *)
LEMMA TickKeeps ==
  ASSUME IInv, Tick \/ TickEnd, UNCHANGED obj
  PROVE  IInv'
<1> USE Stays
<1> DEFINE t == k.current
<1>1. t \in Thread
  BY DEF IInv, TypeOK, KernelState
<1>2. /\ k' = k \/ k' = Schedule(k)
      /\ pc' = pc /\ then' = then /\ obj' = obj
      /\ isr' \in {"none", "timers"}
  BY DEF Tick, TickEnd
<1>3. slice' \in [Thread -> Nat \ {0}]
  <2>1. CASE TickEnd
    BY <1>1, <2>1 DEF TickEnd
  <2>2. CASE Tick
    <3>1. slice[t] \in Nat \ {0} /\ InitTick[t] \in Nat \ {0}
      BY <1>1, ThreadsAssumption
    <3>2. slice' = [slice EXCEPT ![t] = IF slice[t] - 1 = 0 THEN InitTick[t]
                                                         ELSE slice[t] - 1]
      BY <2>2 DEF Tick
    <3>3. (IF slice[t] - 1 = 0 THEN InitTick[t] ELSE slice[t] - 1) \in Nat \ {0}
      BY <3>1
    <3> QED
      BY <1>1, <3>2, <3>3
  <2> QED
    BY <2>1, <2>2
<1>4. /\ k' \in KernelState
      /\ k'.timer = k.timer /\ k'.wait = k.wait
      /\ Coherent(k', {})
      /\ Moves(k, k')
      /\ k'.current # k.current => k'.stat[k'.current] = "RUNNING"
  <2>1. CASE k' = k
    BY <1>1, <2>1 DEF Moves
  <2>2. CASE k' = Schedule(k)
    BY <1>1, <2>2, ScheduleFacts
  <2> QED
    BY <1>2, <2>1, <2>2
<1>5. Affects(k, k', {})
  BY <1>4, QuietAffects
<1>6. GoesOn(t, pc[t], then[t], {})
  BY <1>1, <1>2, <1>3 DEF GoesOn
<1> QED
  BY <1>1, <1>4, <1>5, <1>6, AffectsKeepsIInv

LEMMA TimerExpireKeeps ==
  ASSUME IInv, NEW x \in Thread, TimerExpire(x), UNCHANGED obj
  PROVE  IInv'
<1> USE Stays
<1> DEFINE t == k.current
<1>1. t \in Thread
  BY DEF IInv, TypeOK, KernelState
<1>2. /\ k.timer[x] /\ k' = ThreadTimeout(k, x)
      /\ pc' = pc /\ then' = then /\ obj' = obj /\ slice' = slice /\ isr' = isr
  BY DEF TimerExpire
<1>3. k.stat[x] = "SUSPEND"
  BY <1>2 DEF IInv, TimedSuspended
<1>4. k' \in KernelState /\ Coherent(k', {}) /\ Woken(k, k', x)
  BY <1>1, <1>2, <1>3, ThreadTimeoutFacts
<1>5. Affects(k, k', {x})
  BY <1>3, <1>4, WokenAffects
<1>6. \A u \in Starting : obj[u] # x
  BY <1>2 DEF IInv, StartInv
<1>7. GoesOn(t, pc[t], then[t], {x})
  BY <1>1, <1>2, <1>6 DEF GoesOn
<1> QED
  BY <1>1, <1>4, <1>5, <1>7, AffectsKeepsIInv

(* A device interrupt wakes a thread that is in a call, so not one being   *)
(* started.                                                                *)
LEMMA IsrWakeKeeps ==
  ASSUME IInv, NEW x \in Thread, IsrWake(x)
  PROVE  IInv'
<1> USE Stays
<1> DEFINE t == k.current
           v == ThreadResume(k, x)
<1>1. t \in Thread /\ k \in KernelState /\ Coherent(k, {})
  BY DEF IInv, TypeOK, KernelState
<1>2. /\ k.stat[x] = "SUSPEND" /\ (pc[x] = "woken" \/ then[x] = "woken")
      /\ k' = Schedule(v)
      /\ pc' = pc /\ then' = then /\ obj' = obj /\ slice' = slice /\ isr' = isr
  BY DEF IsrWake
<1>3. /\ v \in KernelState /\ Coherent(v, {}) /\ Woken(k, v, x)
      /\ SameThreads(k, v)
  BY <1>1, <1>2, ThreadResumeFacts
<1> HIDE DEF v
<1>4. v.current = k.current
  BY <1>3 DEF SameThreads
<1>5. k' \in KernelState /\ Coherent(k', {}) /\ Woken(k, k', x)
  BY <1>1, <1>2, <1>3, <1>4, ScheduleKeepsWoken
<1>6. Affects(k, k', {x})
  BY <1>2, <1>5, WokenAffects
<1>7. \A u \in Starting : obj[u] # x
  BY <1>2 DEF IInv, StartInv
<1>8. GoesOn(t, pc[t], then[t], {x})
  BY <1>1, <1>2, <1>7 DEF GoesOn
<1> QED
  BY <1>1, <1>5, <1>6, <1>8, AffectsKeepsIInv

-----------------------------------------------------------------------------
(* rt_thread_startup.  The thread it starts was in no list and in no call. *)
LEMMA StartupKeeps ==
  ASSUME IInv, NEW t \in Thread, Startup(t)
  PROVE  IInv'
<1>1. PICK x \in Thread :
        /\ t = k.current /\ pc[t] = "user" /\ x # t /\ k.stat[x] = "INIT"
        /\ k' = [k EXCEPT !.prio[x] = InitPrio[x], !.stat[x] = "SUSPEND"]
        /\ obj' = [obj EXCEPT ![t] = x]
  BY DEF Startup, Names, Call, At, About
<1>2. /\ pc' = [pc EXCEPT ![t] = "check"] /\ then' = [then EXCEPT ![t] = "sched"]
      /\ slice' = slice /\ isr' = isr
  BY DEF Startup, Goto, Then
<1>3. /\ k \in KernelState /\ pc \in [Thread -> Location] /\ obj \in [Thread -> Thread]
      /\ then \in [Thread -> {"user", "sched", "woken", "dead"}]
      /\ InitPrio[x] \in Prio /\ Coherent(k, {})
  BY ThreadsAssumption DEF IInv, TypeOK
<1>4. /\ k' \in KernelState
      /\ k'.current = k.current /\ k'.timer = k.timer
      /\ k'.ready = k.ready /\ k'.wait = k.wait /\ k'.group = k.group
      /\ \A y \in Thread : k'.stat[y] = IF y = x THEN "SUSPEND" ELSE k.stat[y]
      /\ \A y \in Thread \ {x} : k'.prio[y] = k.prio[y]
  BY <1>1, <1>3 DEF KernelState, Stat
<1>5. Coherent(k', {})
  <2>1. SingleLinkage(k') /\ BitmapExact(k')
    BY <1>3, <1>4 DEF Coherent, SingleLinkage, BitmapExact
  <2>2. ReadyListed(k', {})
    BY <1>1, <1>3, <1>4 DEF Coherent, ReadyListed
  <2>3. RunningUnlinkedBut(k', {})
    BY <1>3, <1>4 DEF Coherent, RunningUnlinkedBut, Linked
  <2> QED
    BY <2>1, <2>2, <2>3 DEF Coherent
<1>6. /\ \A y \in Thread : pc'[y] = IF y = t THEN "check" ELSE pc[y]
      /\ \A y \in Thread : then'[y] = IF y = t THEN "sched" ELSE then[y]
      /\ \A y \in Thread : obj'[y] = IF y = t THEN x ELSE obj[y]
  BY <1>1, <1>2, <1>3
<1>7. TypeOK'
  BY <1>1, <1>2, <1>3, <1>4 DEF IInv, TypeOK, Location
<1>8. TimedSuspended(k')
  BY <1>4 DEF IInv, TimedSuspended
<1>9. StartInv'
  <2> SUFFICES ASSUME NEW u \in Thread, pc'[u] \in InStart
               PROVE  /\ k'.stat[obj'[u]] = "SUSPEND" /\ obj'[u] # k'.current
                      /\ ~k'.timer[obj'[u]]
                      /\ pc'[obj'[u]] = "user" /\ then'[obj'[u]] = "user"
                      /\ \A v \in Thread : pc'[v] \in InStart /\ obj'[v] = obj'[u] => v = u
    BY DEF StartInv, Starting
  <2>1. \A v \in Thread : pc[v] \in InStart =>
          /\ obj[v] \in Thread /\ k.stat[obj[v]] = "SUSPEND" /\ obj[v] # k.current
          /\ ~k.timer[obj[v]] /\ pc[obj[v]] = "user" /\ then[obj[v]] = "user"
          /\ \A w \in Thread : pc[w] \in InStart /\ obj[w] = obj[v] => w = v
    BY <1>3 DEF IInv, StartInv, Starting
  <2>2. \A v \in Thread \ {t} : pc'[v] \in InStart =>
          pc[v] \in InStart /\ obj'[v] = obj[v] /\ obj[v] # x
    BY <1>1, <1>6, <2>1
  <2>3. CASE u = t
    <3>1. pc[x] = "user" /\ then[x] = "user" /\ ~k.timer[x]
      BY <1>1 DEF IInv, FreshInv, TimedSuspended
    <3> QED
      BY <1>1, <1>4, <1>6, <2>2, <2>3, <3>1
  <2>4. CASE u # t
    BY <1>1, <1>4, <1>6, <2>1, <2>2, <2>4
  <2> QED
    BY <2>3, <2>4
<1>10. FreshInv'
  BY <1>1, <1>4, <1>6 DEF IInv, FreshInv, CurrentInv
<1>11. ClosedInv'
  BY <1>1, <1>4, <1>6 DEF IInv, ClosedInv, CurrentInv
<1>12. IdleInv'
  <2>1. Idle \in Thread
    BY KernelAssumption
  <2>2. x # Idle /\ k'.stat[Idle] \in {"READY", "RUNNING"}
    BY <1>1, <1>4, <2>1 DEF IInv, IdleInv
  <2>3. ASSUME pc'[Idle] = "free"
        PROVE  k'.stat[obj'[Idle]] = "CLOSE" /\ obj'[Idle] \notin ToSet(k'.wait["defunct"])
    <3>1. Idle # t /\ pc[Idle] = "free" /\ obj'[Idle] = obj[Idle] /\ obj[Idle] \in Thread
      BY <1>3, <1>6, <2>1, <2>3
    <3>2. k.stat[obj[Idle]] = "CLOSE" /\ obj[Idle] \notin ToSet(k.wait["defunct"])
      BY <3>1 DEF IInv, IdleInv
    <3> QED
      BY <1>1, <1>4, <3>1, <3>2
  <2> QED
    BY <2>2, <2>3 DEF IdleInv
<1>13. CurrentInv'
  BY <1>1, <1>4 DEF IInv, CurrentInv
<1>14. DefunctClosed'
  <2>1. k.wait["defunct"] \in Seq(Thread)
    BY <1>3, SchedulerAssumption DEF KernelState
  <2>2. ToSet(k.wait["defunct"]) \subseteq Thread
    BY <2>1, ListEmpty
  <2> QED
    BY <1>1, <1>4, <2>2 DEF IInv, DefunctClosed
<1>15. NoneDying'
  BY <1>6 DEF IInv, NoneDying
<1> QED
  BY <1>5, <1>7, <1>8, <1>9, <1>10, <1>11, <1>12, <1>13, <1>14, <1>15 DEF IInv

(* rt_thread_resume of the thread being started. *)
LEMMA ResumeKeeps ==
  ASSUME IInv, NEW t \in Thread, ResumeCheck(t) \/ ResumeTake(t) \/ ResumeInsert(t)
  PROVE  IInv'
<1> USE Stays
<1> DEFINE x == obj[t]
<1>1. /\ t = k.current /\ pc[t] \in InStart /\ x \in Thread
      /\ k \in KernelState /\ Coherent(k, {})
  BY DEF ResumeCheck, ResumeTake, ResumeInsert, At, InStart, IInv, TypeOK
<1>2. /\ k.stat[x] = "SUSPEND" /\ x # k.current /\ ~k.timer[x]
      /\ \A v \in Starting : obj[v] = x => v = t
  BY <1>1 DEF IInv, StartInv, Starting
<1>3. k.stat[t] # "CLOSE"
  BY <1>1 DEF InStart
<1>4. ~Linked(k, x)
  <2>1. \A p \in Prio : x \notin ToSet(k.ready[p])
    BY <1>1, <1>2 DEF Coherent, ReadyListed
  <2>2. x \notin ToSet(k.wait["defunct"])
    BY <1>2 DEF IInv, DefunctClosed
  <2> QED
    BY <2>1, <2>2, SchedulerAssumption DEF Linked
<1>5. CASE ResumeCheck(t)
  <2>1. /\ k' = k /\ pc' = [pc EXCEPT ![t] = "unlink"] /\ then' = then
        /\ obj' = obj /\ slice' = slice /\ isr' = isr
    BY <1>2, <1>5 DEF ResumeCheck, Goto
  <2>2. Affects(k, k', {})
    BY <1>1, <2>1, QuietAffects DEF Moves
  <2>3. GoesOn(t, "unlink", then[t], {})
    BY <1>1, <1>3, <2>1 DEF GoesOn, Location, InStart
  <2> QED
    BY <1>1, <2>1, <2>2, <2>3, AffectsKeepsIInv
<1>6. CASE ResumeTake(t)
  <2>1. /\ k' = ResumeUnlink(k, x)
        /\ pc' = [pc EXCEPT ![t] = "insert"] /\ then' = then
        /\ obj' = obj /\ slice' = slice /\ isr' = isr
    BY <1>6 DEF ResumeTake, Goto
  <2>2. k.stat[x] \notin {"READY", "RUNNING"}
    BY <1>2
  <2> HIDE DEF x
  <2>3. /\ k' \in KernelState
        /\ SameThreads(k, k')
        /\ k'.stat = k.stat
        /\ k'.timer = [k.timer EXCEPT ![x] = FALSE]
        /\ \A q \in Queue : ToSet(k'.wait[q]) = ToSet(k.wait[q]) \ {x}
        /\ Coherent(k', {})
    <3>1. x \in Thread /\ k \in KernelState /\ Coherent(k, {})
      BY <1>1, <1>2
    <3> QED
      BY <2>1, <2>2, <3>1, ResumeUnlinkFacts
  <2>4. \A y \in Thread : k'.timer[y] => k.timer[y] /\ k.stat[y] = "SUSPEND"
    BY <1>1, <1>2, <2>3 DEF KernelState, IInv, TimedSuspended
  <2>5. ToSet(k'.wait["defunct"]) \subseteq ToSet(k.wait["defunct"])
    BY <2>3, SchedulerAssumption
  <2>6. Affects(k, k', {})
    BY <2>3, <2>4, <2>5 DEF Affects, SameThreads
  <2> USE DEF x
  <2>7. GoesOn(t, "insert", then[t], {})
    BY <1>1, <1>3, <2>1 DEF GoesOn, Location, InStart
  <2> QED
    BY <1>1, <2>3, <2>6, <2>7, AffectsKeepsIInv
<1>7. CASE ResumeInsert(t)
  <2>1. /\ k' = ScheduleInsert(k, x)
        /\ pc' = [pc EXCEPT ![t] = then[t]] /\ then' = [then EXCEPT ![t] = "user"]
        /\ obj' = obj /\ slice' = slice /\ isr' = isr
    BY <1>7 DEF ResumeInsert, Goto, Then
  <2>2. k.timer = [k.timer EXCEPT ![x] = FALSE]
    BY <1>1, <1>2 DEF KernelState
  <2>3. \A q \in Queue : ToSet(k.wait[q]) = ToSet(k.wait[q]) \ {x}
    BY <1>4 DEF Linked
  <2>4. SameThreads(k, k) /\ k.stat[x] \notin {"READY", "RUNNING"}
    BY <1>2 DEF SameThreads
  <2>5. k' \in KernelState /\ Coherent(k', {}) /\ Woken(k, k', x)
    BY <1>1, <1>4, <2>1, <2>2, <2>3, <2>4, InsertWakes
  <2>6. Affects(k, k', {x})
    BY <1>1, <1>2, <2>5, WokenAffects
  <2>7. then[t] \in Location /\ then[t] \notin InStart /\ then[t] # "free"
        /\ then[t] \notin {"suspend", "deltimer", "delstat", "defunct"}
    BY DEF Location, InStart
  <2>8. GoesOn(t, then[t], "user", {x})
    BY <1>1, <1>2, <1>3, <2>1, <2>7 DEF GoesOn
  <2> QED
    BY <1>1, <2>5, <2>6, <2>8, AffectsKeepsIInv
<1> QED
  BY <1>5, <1>6, <1>7

-----------------------------------------------------------------------------
(* rt_thread_exit *)
LEMMA ExitKeeps ==
  ASSUME IInv, NEW t \in Thread \ {Idle}, Exit(t)
  PROVE  IInv'
<1> USE Stays
<1> DEFINE u == [ScheduleRemove(k, t) EXCEPT !.stat[t] = "CLOSE", !.timer[t] = FALSE]
           w == <<t>> \o u.wait["defunct"]
<1>1. /\ t = k.current /\ pc[t] = "user" /\ k' = Bury(u, t)
      /\ pc' = [pc EXCEPT ![t] = "sched"] /\ then' = [then EXCEPT ![t] = "dead"]
      /\ slice' = slice /\ isr' = isr /\ obj' = obj
  BY SMTT(30) DEF Exit, Call, At, Goto, Then
<1>2. /\ u \in KernelState
      /\ SameThreads(k, u)
      /\ u.stat = [k.stat EXCEPT ![t] = "CLOSE"]
      /\ u.timer = [k.timer EXCEPT ![t] = FALSE]
      /\ \A q \in Queue : ToSet(u.wait[q]) = ToSet(k.wait[q]) \ {t}
      /\ Coherent(u, {})
      /\ ~Linked(u, t)
  BY RetireFacts
<1> HIDE DEF u
<1>3. "defunct" \in Queue /\ u.wait["defunct"] \in Seq(Thread) /\ t \notin ToSet(u.wait["defunct"])
      /\ u.stat[t] # "RUNNING" /\ IsInjective(u.wait["defunct"])
  BY <1>2, SchedulerAssumption DEF KernelState, Linked, Coherent, SingleLinkage
<1>4. w \in Seq(Thread) /\ ToSet(w) = ToSet(u.wait["defunct"]) \cup {t} /\ IsInjective(w)
  BY <1>3, ListPrepend
<1> HIDE DEF w
<1>5. /\ k' \in KernelState /\ Coherent(k', {})
      /\ k'.current = k.current /\ k'.stat = u.stat /\ k'.timer = u.timer
      /\ ToSet(k'.wait["defunct"]) \subseteq ToSet(k.wait["defunct"]) \cup {t}
  <2>1. CASE Detached(t)
    <3>1. k' = u
      BY <1>1, <2>1 DEF Bury
    <3> QED
      BY <1>2, <1>3, <3>1 DEF SameThreads
  <2>2. CASE ~Detached(t)
    <3> DEFINE q == "defunct"
               v == Enlist(u, q, w)
    <3>1. k' = v
      BY <1>1, <2>2 DEF Bury, Enlist, w
    <3>2. Enters(u, q, t, w)
      BY <1>2, <1>3, <1>4 DEF Enters
    <3> HIDE DEF q
    <3>3. /\ v \in KernelState /\ Coherent(v, {})
          /\ SameThreads(u, v)
          /\ v.stat = u.stat /\ v.timer = u.timer
          /\ ToSet(v.wait[q]) = ToSet(u.wait[q]) \cup {t}
      BY <1>2, <3>2, EnlistFacts
    <3> USE DEF q
    <3> HIDE DEF v
    <3> QED
      BY <1>2, <1>3, <3>1, <3>3 DEF SameThreads
  <2> QED
    BY <2>1, <2>2
<1>6. k.stat[t] # "CLOSE"
  BY <1>1
<1>7. Affects(k, k', {})
  <2>1. /\ \A y \in Thread : k'.stat[y] = IF y = t THEN "CLOSE" ELSE k.stat[y]
        /\ \A y \in Thread : k'.timer[y] => k.timer[y] /\ y # t
    <3>1. k.stat \in [Thread -> Stat] /\ k.timer \in [Thread -> BOOLEAN]
      BY DEF IInv, TypeOK, KernelState
    <3> QED
      BY <1>2, <1>5, <3>1
  <2>2. pc'[t] = "sched" /\ then'[t] = "dead"
    BY <1>1 DEF IInv, TypeOK
  <2>3. \A y \in Thread : k'.timer[y] => k'.stat[y] = "SUSPEND" /\ k.timer[y]
    BY <2>1 DEF IInv, TimedSuspended
  <2> QED
    BY <1>1, <1>5, <1>6, <2>1, <2>2, <2>3 DEF Affects
<1>8. GoesOn(t, "sched", "dead", {})
  BY <1>1, <1>6 DEF GoesOn, Location, InStart
<1> QED
  BY <1>5, <1>7, <1>8, AffectsKeepsIInv

(* rt_thread_create takes memory no list, timer or processor refers to. *)
LEMMA CreateKeeps ==
  ASSUME IInv, NEW t \in Thread, Create(t)
  PROVE  IInv'
<1>1. PICK x \in Thread :
        /\ k.stat[x] = "FREED"
        /\ k' = [k EXCEPT !.stat[x] = "INIT", !.prio[x] = InitPrio[x],
                          !.error[x] = "EOK", !.timer[x] = FALSE]
        /\ pc'    = [pc EXCEPT ![x] = "user"]
        /\ then'  = [then EXCEPT ![x] = "user"]
        /\ slice' = [slice EXCEPT ![x] = InitTick[x]]
        /\ obj' = obj /\ isr' = isr
  BY DEF Create
<1>2. /\ k \in KernelState /\ pc \in [Thread -> Location] /\ obj \in [Thread -> Thread]
      /\ then \in [Thread -> {"user", "sched", "woken", "dead"}]
      /\ InitPrio[x] \in Prio /\ InitTick[x] \in Nat \ {0} /\ Coherent(k, {})
  BY ThreadsAssumption DEF IInv, TypeOK
<1>3. /\ k' \in KernelState
      /\ k'.current = k.current
      /\ k'.ready = k.ready /\ k'.wait = k.wait /\ k'.group = k.group
      /\ \A y \in Thread : k'.stat[y] = IF y = x THEN "INIT" ELSE k.stat[y]
      /\ \A y \in Thread : k'.timer[y] = IF y = x THEN FALSE ELSE k.timer[y]
      /\ \A y \in Thread \ {x} : k'.prio[y] = k.prio[y]
  BY <1>1, <1>2 DEF KernelState, Stat, Errno
<1>4. Coherent(k', {})
  <2>1. SingleLinkage(k') /\ BitmapExact(k')
    <3>1. SingleLinkage(k) /\ BitmapExact(k)
      BY <1>2 DEF Coherent
    <3>2. SingleLinkage(k')
      BY <1>3, <3>1 DEF SingleLinkage
    <3>3. BitmapExact(k')
      BY <1>3, <3>1 DEF BitmapExact
    <3> QED
      BY <3>2, <3>3
  <2>2. ReadyListed(k', {})
    BY <1>1, <1>2, <1>3 DEF Coherent, ReadyListed
  <2>3. RunningUnlinkedBut(k', {})
    BY <1>2, <1>3 DEF Coherent, RunningUnlinkedBut, Linked
  <2> QED
    BY <2>1, <2>2, <2>3 DEF Coherent
<1>5. /\ \A y \in Thread : pc'[y] = IF y = x THEN "user" ELSE pc[y]
      /\ \A y \in Thread : then'[y] = IF y = x THEN "user" ELSE then[y]
  BY <1>1, <1>2
<1>6. TypeOK'
  BY <1>1, <1>2, <1>3 DEF IInv, TypeOK, Location
<1>7. TimedSuspended(k')
  BY <1>1, <1>3 DEF IInv, TimedSuspended
<1>8. StartInv'
  <2> SUFFICES ASSUME NEW u \in Thread, pc'[u] \in InStart
               PROVE  /\ k'.stat[obj[u]] = "SUSPEND" /\ obj[u] # k'.current
                      /\ ~k'.timer[obj[u]]
                      /\ pc'[obj[u]] = "user" /\ then'[obj[u]] = "user"
                      /\ \A v \in Thread : pc'[v] \in InStart /\ obj[v] = obj[u] => v = u
    BY <1>1 DEF StartInv, Starting
  <2>1. \A v \in Thread : pc'[v] \in InStart => pc[v] \in InStart
    BY <1>5 DEF InStart
  <2>2. obj[u] \in Thread
    BY <1>2
  <2>3. /\ k.stat[obj[u]] = "SUSPEND" /\ obj[u] # k.current /\ ~k.timer[obj[u]]
        /\ pc[obj[u]] = "user" /\ then[obj[u]] = "user"
        /\ \A v \in Thread : pc[v] \in InStart /\ obj[v] = obj[u] => v = u
    BY <2>1 DEF IInv, StartInv, Starting
  <2> QED
    BY <1>1, <1>3, <1>5, <2>1, <2>2, <2>3
<1>9. FreshInv'
  BY <1>3, <1>5 DEF IInv, FreshInv
<1>10. ClosedInv'
  BY <1>3, <1>5 DEF IInv, ClosedInv
<1>11. IdleInv'
  <2>1. Idle \in Thread /\ Idle # x
    BY <1>1, KernelAssumption DEF IInv, IdleInv
  <2>2. obj[Idle] \in Thread
    BY <1>2, <2>1
  <2> QED
    BY <1>1, <1>3, <1>5, <2>1, <2>2 DEF IInv, IdleInv
<1>12. CurrentInv'
  BY <1>1, <1>2, <1>3 DEF IInv, CurrentInv, KernelState
<1>13. DefunctClosed'
  <2>1. k.wait["defunct"] \in Seq(Thread)
    BY <1>2, SchedulerAssumption DEF KernelState
  <2>2. ToSet(k.wait["defunct"]) \subseteq Thread
    BY <2>1, ListEmpty
  <2> QED
    BY <1>1, <1>3, <2>2 DEF IInv, DefunctClosed
<1>14. NoneDying'
  BY <1>5 DEF IInv, NoneDying
<1> QED
  BY <1>4, <1>6, <1>7, <1>8, <1>9, <1>10, <1>11, <1>12, <1>13, <1>14 DEF IInv

(* A closed thread is taken out of the defunct list. *)
LEMMA ReapFacts ==
  ASSUME NEW kk \in KernelState, Coherent(kk, {}), NEW x \in Thread,
         kk.stat[x] \notin {"READY", "RUNNING"}, ~kk.timer[x]
  PROVE  LET u == Unlink(kk, x)
         IN  /\ u \in KernelState /\ Coherent(u, {}) /\ SameThreads(kk, u)
             /\ u.stat = kk.stat /\ u.timer = kk.timer
             /\ \A q \in Queue : ToSet(u.wait[q]) = ToSet(kk.wait[q]) \ {x}
<1> DEFINE u == Unlink(kk, x)
           v == ResumeUnlink(kk, x)
<1>0. SingleLinkage(kk)
  BY DEF Coherent
<1>1. /\ v \in KernelState /\ SameThreads(kk, v) /\ v.stat = kk.stat
      /\ Coherent(v, {})
  BY ResumeUnlinkFacts
<1>2. /\ u \in KernelState /\ u.timer = kk.timer
      /\ \A q \in Queue : ToSet(u.wait[q]) = ToSet(kk.wait[q]) \ {x}
  BY <1>0, UnlinkFacts
<1>3. v = [u EXCEPT !.timer[x] = FALSE]
  BY DEF ResumeUnlink
<1> HIDE DEF u, v
<1>4. u.timer = [u.timer EXCEPT ![x] = FALSE]
  <2>1. u.timer \in [Thread -> BOOLEAN] /\ ~u.timer[x]
    BY <1>2 DEF KernelState
  <2> QED
    BY <2>1
<1>5. v = [u EXCEPT !.timer = [u.timer EXCEPT ![x] = FALSE]]
  BY <1>3
<1>6. u = v
  BY <1>2, <1>4, <1>5 DEF KernelState
<1> QED
  BY <1>1, <1>2, <1>6 DEF u

(* The idle thread takes an exited thread out of the defunct list. *)
LEMMA IdleReapKeeps ==
  ASSUME IInv, IdleReap
  PROVE  IInv'
<1> USE Stays, KernelAssumption
<1> DEFINE x == Head(k.wait["defunct"])
           u == Unlink(k, x)
<1>1. /\ Idle = k.current /\ pc[Idle] = "user" /\ k.wait["defunct"] # << >>
      /\ k' = Schedule(u)
      /\ \/ pc' = pc /\ obj' = obj
         \/ pc' = [pc EXCEPT ![Idle] = "free"] /\ obj' = [obj EXCEPT ![Idle] = x]
      /\ then' = then /\ slice' = slice /\ isr' = isr
  BY DEF IdleReap, At, Goto, About
<1>2. k \in KernelState /\ Coherent(k, {})
  BY DEF IInv, TypeOK
<1>3. x \in ToSet(k.wait["defunct"]) /\ x \in Thread
  <2>1. k.wait["defunct"] \in Seq(Thread)
    BY <1>2, SchedulerAssumption DEF KernelState
  <2> QED
    BY <1>1, <2>1, ListEmpty
<1>4. k.stat[x] = "CLOSE" /\ ~k.timer[x]
  BY <1>3 DEF IInv, DefunctClosed, TimedSuspended
<1> HIDE DEF x
<1>5. k.stat[x] \notin {"READY", "RUNNING"}
  BY <1>4
<1>6. u \in KernelState /\ Coherent(u, {}) /\ SameThreads(k, u) /\ u.stat = k.stat
  BY <1>2, <1>3, <1>4, <1>5, ReapFacts
<1>7. u.timer = k.timer /\ \A q \in Queue : ToSet(u.wait[q]) = ToSet(k.wait[q]) \ {x}
  BY <1>2, <1>3, <1>4, <1>5, ReapFacts
<1> HIDE DEF u
<1>8. /\ k' \in KernelState
      /\ k'.timer = k.timer
      /\ ToSet(k'.wait["defunct"]) = ToSet(k.wait["defunct"]) \ {x}
      /\ Coherent(k', {})
      /\ Moves(k, k')
      /\ k'.current # k.current => k'.stat[k'.current] = "RUNNING"
  <2> DEFINE s == Schedule(u)
  <2>1. /\ s \in KernelState
        /\ s.timer = u.timer /\ s.wait = u.wait
        /\ Coherent(s, {})
        /\ Moves(u, s)
        /\ s.current # u.current => s.stat[s.current] = "RUNNING"
    BY <1>6, ScheduleFacts
  <2>2. k' = s
    BY <1>1
  <2> HIDE DEF s
  <2> QED
    BY <1>6, <1>7, <2>1, <2>2, SchedulerAssumption DEF Moves, SameThreads
<1>9. Affects(k, k', {})
  <2>1. \A y \in Thread : k.timer[y] => k'.stat[y] = "SUSPEND"
    BY <1>8 DEF IInv, TimedSuspended, Moves
  <2> QED
    BY <1>8, <2>1 DEF Affects, Moves
<1>10. k.stat[Idle] # "CLOSE" /\ k'.stat[x] = "CLOSE"
  BY <1>1, <1>3, <1>4, <1>8 DEF Moves
<1>11. CASE pc' = pc /\ obj' = obj
  <2>1. GoesOn(Idle, pc[Idle], then[Idle], {})
    BY <1>1, <1>10, <1>11 DEF GoesOn
  <2> QED
    BY <1>8, <1>9, <2>1, AffectsKeepsIInv
<1>12. CASE pc' = [pc EXCEPT ![Idle] = "free"] /\ obj' = [obj EXCEPT ![Idle] = x]
  <2>1. TakesOut(Idle)
    BY <1>3, <1>8, <1>10, <1>12 DEF TakesOut
  <2>2. GoesOn(Idle, "free", then[Idle], {})
    BY <1>1, <1>10, <1>12, <2>1 DEF GoesOn, Location, InStart
  <2> QED
    BY <1>8, <1>9, <2>2, AffectsKeepsIInv
<1> QED
  BY <1>1, <1>11, <1>12

LEMMA IdleFreeKeeps ==
  ASSUME IInv, IdleFree
  PROVE  IInv'
<1> USE Stays, KernelAssumption
<1> DEFINE x == obj[Idle]
<1>1. /\ Idle = k.current /\ pc[Idle] = "free" /\ k' = SetStat(k, x, "FREED")
      /\ pc' = [pc EXCEPT ![Idle] = "user"]
      /\ then' = then /\ slice' = slice /\ isr' = isr /\ obj' = obj
  BY DEF IdleFree, At, Goto
<1>2. k \in KernelState /\ Coherent(k, {}) /\ x \in Thread
  BY DEF IInv, TypeOK
<1>3. k.stat[x] = "CLOSE" /\ x \notin ToSet(k.wait["defunct"]) /\ x # k.current
  BY <1>1 DEF IInv, IdleInv
<1> HIDE DEF x
<1>4. ~Linked(k, x)
  <2>1. \A p \in Prio : x \notin ToSet(k.ready[p])
    BY <1>2, <1>3 DEF Coherent, ReadyListed
  <2> QED
    BY <1>3, <2>1, SchedulerAssumption DEF Linked
<1>5. Coherent(k, {x})
  BY <1>2, <1>3, CoherentWeaken
<1>6. "FREED" \in Stat
  BY DEF Stat
<1>7. /\ k' \in KernelState
      /\ SameThreads(k, k')
      /\ k'.stat = [k.stat EXCEPT ![x] = "FREED"]
      /\ k'.timer = k.timer /\ k'.wait = k.wait
      /\ Coherent(k', {})
  BY <1>1, <1>2, <1>4, <1>5, <1>6, SetStatFacts
<1>8. Affects(k, k', {})
  <2>1. \A y \in Thread : k'.stat[y] = IF y = x THEN "FREED" ELSE k.stat[y]
    BY <1>2, <1>7 DEF KernelState
  <2>2. pc'[Idle] # "free"
    BY <1>1 DEF IInv, TypeOK
  <2>3. \A y \in Thread : k.timer[y] => k'.stat[y] = "SUSPEND"
    BY <1>3, <2>1 DEF IInv, TimedSuspended
  <2> QED
    BY <1>3, <1>7, <2>1, <2>2, <2>3 DEF Affects, SameThreads
<1>9. GoesOn(Idle, "user", then[Idle], {})
  BY <1>1 DEF GoesOn, Location, InStart
<1> QED
  BY <1>7, <1>8, <1>9, AffectsKeepsIInv

-----------------------------------------------------------------------------
LEMMA InitIInv == ASSUME Init PROVE IInv
<1> USE KernelAssumption, ThreadsAssumption, SchedulerAssumption
<1>1. InitPrio[Idle] \in Prio /\ Idle \in Thread /\ Main \in Thread /\ Main # Idle
  OBVIOUS
<1>2. \A p \in Prio : k.ready[p] = IF p = InitPrio[Idle] THEN <<Idle>> ELSE << >>
  BY DEF Init
<1>3. \A q \in Queue : k.wait[q] = << >>
  BY DEF Init
<1>4. /\ k.stat = [t \in Thread |-> CASE t = Main -> "RUNNING"
                                     [] t = Idle -> "READY"
                                     [] OTHER    -> "INIT"]
      /\ k.prio = InitPrio /\ k.group = {InitPrio[Idle]} /\ k.current = Main
      /\ k.timer = [t \in Thread |-> FALSE]
      /\ pc = [t \in Thread |-> "user"] /\ then = [t \in Thread |-> "user"]
      /\ obj = [t \in Thread |-> t] /\ slice = InitTick /\ isr = "none"
  BY DEF Init
<1>5. \A t \in Thread : k.stat[t] = IF t = Main THEN "RUNNING"
                                   ELSE IF t = Idle THEN "READY" ELSE "INIT"
  BY <1>1, <1>4
<1>6. TypeOK
  <2>1. k.stat \in [Thread -> Stat]
    BY <1>4, <1>5 DEF Stat
  <2>2. k.ready \in [Prio -> Seq(Thread)]
    BY <1>1 DEF Init
  <2>3. k.wait \in [Queue -> Seq(Thread)]
    BY DEF Init
  <2>4. k.lock \in Nat /\ k.error \in [Thread -> Errno] /\ k.timer \in [Thread -> BOOLEAN]
    BY DEF Init, Errno
  <2>5. k = [stat |-> k.stat, prio |-> k.prio, ready |-> k.ready, group |-> k.group,
             wait |-> k.wait, current |-> k.current, lock |-> k.lock,
             timer |-> k.timer, error |-> k.error]
    BY DEF Init
  <2>6. k \in KernelState
    BY <1>1, <1>4, <2>1, <2>2, <2>3, <2>4, <2>5 DEF KernelState
  <2> QED
    BY <1>4, <2>6 DEF TypeOK, Location
<1>7. Coherent(k, {})
  <2>1. ASSUME NEW p \in Prio
        PROVE  /\ ToSet(k.ready[p]) = IF p = InitPrio[Idle] THEN {Idle} ELSE {}
               /\ IsInjective(k.ready[p])
    <3>1. CASE p = InitPrio[Idle]
      <4>1. k.ready[p] = <<Idle>> /\ DOMAIN <<Idle>> = {1} /\ <<Idle>>[1] = Idle
        BY <1>2, <3>1
      <4>2. ToSet(<<Idle>>) = {Idle} /\ IsInjective(<<Idle>>)
        BY <4>1 DEF ToSet, IsInjective
      <4> QED
        BY <3>1, <4>1, <4>2
    <3>2. CASE p # InitPrio[Idle]
      <4>1. k.ready[p] = << >> /\ DOMAIN << >> = {}
        BY <1>2, <3>2
      <4>2. ToSet(<< >>) = {} /\ IsInjective(<< >>)
        BY <4>1 DEF ToSet, IsInjective
      <4> QED
        BY <3>2, <4>1, <4>2
    <3> QED
      BY <3>1, <3>2
  <2>2. \A q \in Queue : ToSet(k.wait[q]) = {} /\ IsInjective(k.wait[q])
    BY <1>3 DEF ToSet, IsInjective
  <2>3. SingleLinkage(k)
    BY <2>1, <2>2 DEF SingleLinkage
  <2>4. ReadyListed(k, {})
    BY <1>1, <1>4, <1>5, <2>1 DEF ReadyListed
  <2>5. BitmapExact(k)
    <3>1. <<Idle>> # << >>
      OBVIOUS
    <3>2. \A p \in Prio : k.ready[p] # << >> <=> p = InitPrio[Idle]
      BY <3>1, <1>2
    <3>3. InitPrio[Idle] \in Prio
      BY <1>1
    <3>4. {p \in Prio : k.ready[p] # << >>} = {InitPrio[Idle]}
      BY <3>2, <3>3
    <3> QED
      BY <3>2, <3>3, <3>4, <1>4 DEF BitmapExact
  <2>6. RunningUnlinkedBut(k, {})
    BY <1>1, <1>4, <1>5, <2>1, <2>2 DEF RunningUnlinkedBut, Linked
  <2> QED
    BY <2>3, <2>4, <2>5, <2>6 DEF Coherent
<1>8. TimedSuspended(k) /\ StartInv /\ FreshInv /\ ClosedInv /\ NoneDying
  BY <1>4, <1>5 DEF TimedSuspended, StartInv, Starting, InStart, FreshInv,
                    ClosedInv, NoneDying
<1>9. IdleInv /\ CurrentInv
  BY <1>1, <1>4, <1>5 DEF IdleInv, CurrentInv
<1>10. DefunctClosed
  BY <1>3 DEF DefunctClosed, ToSet
<1> QED
  BY <1>6, <1>7, <1>8, <1>9, <1>10 DEF IInv

(* Every step.  The calls OwnCalls excludes do not happen. *)
LEMMA StepIInv ==
  ASSUME OwnCalls, IInv, [Next]_vars
  PROVE  IInv'
<1>1. CASE UNCHANGED vars
  BY <1>1 DEF vars, IInv, TypeOK, TimedSuspended, StartInv, Starting, FreshInv,
              ClosedInv, IdleInv, CurrentInv, DefunctClosed, NoneDying
<1>2. ASSUME NEW t \in Thread, ThreadStep(t)
      PROVE  IInv'
  <2>1. \A c \in API, x \in Thread : Call(t, c, x) => t # Idle
    BY SchedulerAssumption DEF Call
  <2>2. ~Resume(t) /\ ~SuspendCheck(t) /\ ~Delete(t)
    BY DEF Resume, SuspendCheck, Delete, Names, Call, OwnCalls
  <2>3. ~SuspendOther(t) /\ ~DeleteTimer(t) /\ ~DeleteStat(t) /\ ~DeleteBury(t)
    BY DEF SuspendOther, DeleteTimer, DeleteStat, DeleteBury, At, IInv, NoneDying
  <2>4. CASE Startup(t)
    BY <2>4, StartupKeeps
  <2>5. CASE ResumeCheck(t) \/ ResumeTake(t) \/ ResumeInsert(t)
    BY <2>5, ResumeKeeps
  <2>6. CASE SuspendSelf(t)
    <3>1. t # Idle
      BY <2>6, SchedulerAssumption DEF SuspendSelf, Call
    <3> QED
      BY <2>6, <3>1, SuspendSelfKeeps
  <2>7. CASE Control(t)
    BY <2>7, ControlKeeps
  <2>8. CASE EnterCritical(t) \/ ExitCritical(t)
    BY <2>8, CriticalKeeps
  <2>9. CASE Exit(t)
    <3>1. t # Idle
      BY <2>9, SchedulerAssumption DEF Exit, Call
    <3> QED
      BY <2>9, <3>1, ExitKeeps
  <2>10. CASE Create(t)
    BY <2>10, CreateKeeps
  <2>11. CASE Reschedule(t) /\ UNCHANGED obj
    BY <2>11, RescheduleKeeps
  <2>12. CASE SleepReturn(t) /\ UNCHANGED obj
    BY <2>12, SleepReturnKeeps
  <2>13. CASE Yield(t) /\ UNCHANGED obj
    BY <2>13, YieldKeeps
  <2>14. CASE <<"sleep", t>> \in Calls[t] /\ Sleep(t) /\ UNCHANGED obj
    <3>1. t # Idle
      BY <2>14, SchedulerAssumption
    <3> QED
      BY <2>14, <3>1, SuspendSelfKeeps
  <2> QED
    BY <1>2, <2>2, <2>3, <2>4, <2>5, <2>6, <2>7, <2>8, <2>9, <2>10, <2>11,
       <2>12, <2>13, <2>14 DEF ThreadStep
<1>3. CASE IdleReap
  BY <1>3, IdleReapKeeps
<1>4. CASE IdleFree
  BY <1>4, IdleFreeKeeps
<1>5. CASE Interrupt
  <2>1. CASE (Tick \/ TickEnd) /\ UNCHANGED obj
    BY <2>1, TickKeeps
  <2>2. CASE \E t \in Thread : TimerExpire(t) /\ UNCHANGED obj
    BY <2>2, TimerExpireKeeps
  <2>3. CASE \E t \in Thread : IsrWake(t)
    BY <2>3, IsrWakeKeeps
  <2> QED
    BY <1>5, <2>1, <2>2, <2>3 DEF Interrupt
<1> QED
  BY <1>1, <1>2, <1>3, <1>4, <1>5 DEF Next

-----------------------------------------------------------------------------
(* The invariant holds of every behaviour. *)
THEOREM Invariant == ASSUME OwnCalls PROVE Spec => []IInv
<1>1. Init => IInv
  BY InitIInv
<1>2. IInv /\ [Next]_vars => IInv'
  BY StepIInv
<1> QED
  BY <1>1, <1>2, PTL DEF Spec

(* Every variable of the scheduler keeps its type: in particular           *)
(* rt_schedule always takes a thread from the list the bitmap names.       *)
THEOREM Types == ASSUME OwnCalls PROVE Spec => []TypeOK
<1>1. IInv => TypeOK
  BY DEF IInv
<1> QED
  BY <1>1, Invariant, PTL

(* The ready lists, the bitmap and the thread states agree. *)
THEOREM QueueCoherent == ASSUME OwnCalls PROVE Spec => []ReadyQueue
<1>1. IInv => ReadyQueue
  <2> SUFFICES ASSUME IInv PROVE ReadyQueue
    OBVIOUS
  <2>1. Dying = {}
    BY DEF IInv, NoneDying, Dying
  <2> QED
    BY <2>1 DEF IInv, Coherent, ReadyQueue, RunningUnlinkedBut, RunningUnlinked
<1> QED
  BY <1>1, Invariant, PTL

(* The assertion of rt_thread_timeout: only suspended threads have a timer *)
(* that runs.                                                              *)
THEOREM TimersSuspended == ASSUME OwnCalls PROVE Spec => []TimersOfSuspended
<1>1. IInv => TimersOfSuspended
  BY DEF IInv, TimersOfSuspended
<1> QED
  BY <1>1, Invariant, PTL

(* The idle thread frees nothing that is still in use. *)
THEOREM FreedSafe == ASSUME OwnCalls PROVE Spec => []FreedUnreferenced
<1>1. IInv => FreedUnreferenced
  <2> SUFFICES ASSUME IInv PROVE FreedUnreferenced
    OBVIOUS
  <2>1. ToSet(k.wait["defunct"]) \subseteq {t \in Thread : k.stat[t] = "CLOSE"}
    <3>1. k.wait["defunct"] \in Seq(Thread)
      BY SchedulerAssumption DEF IInv, TypeOK, KernelState
    <3>2. ToSet(k.wait["defunct"]) \subseteq Thread
      BY <3>1, ListEmpty
    <3> QED
      BY <3>2 DEF IInv, DefunctClosed
  <2>2. ASSUME NEW t \in Thread, k.stat[t] = "FREED"
        PROVE  ~Linked(k, t) /\ ~k.timer[t] /\ t # k.current
    <3>1. \A p \in Prio : t \notin ToSet(k.ready[p])
      BY <2>2 DEF IInv, Coherent, ReadyListed
    <3>2. t \notin ToSet(k.wait["defunct"])
      BY <2>1, <2>2
    <3>3. ~Linked(k, t)
      BY <3>1, <3>2, SchedulerAssumption DEF Linked
    <3>4. ~k.timer[t] /\ t # k.current
      BY <2>2 DEF IInv, TimedSuspended, CurrentInv
    <3> QED
      BY <3>3, <3>4
  <2> QED
    BY <2>1, <2>2 DEF FreedUnreferenced
<1> QED
  BY <1>1, Invariant, PTL

-----------------------------------------------------------------------------
(* Only Schedule switches threads, and not while the scheduler is locked:  *)
(* the other operators frame both fields.                                  *)
Framed(kk, u) ==
  DOMAIN u = DOMAIN kk /\ u.lock = kk.lock /\ u.current = kk.current

HasLock(kk) == {"lock", "current"} \subseteq DOMAIN kk

LEMMA FrameFacts ==
  ASSUME NEW kk, HasLock(kk), NEW t
  PROVE  /\ Framed(kk, Unlink(kk, t)) /\ Framed(kk, ScheduleInsert(kk, t))
         /\ Framed(kk, ResumeUnlink(kk, t))
<1>1. Framed(kk, Unlink(kk, t))
  BY DEF Framed, HasLock, Unlink
<1>2. Framed(kk, ScheduleInsert(kk, t))
  BY DEF Framed, HasLock, ScheduleInsert, SetStat
<1>3. Framed(kk, ResumeUnlink(kk, t))
  BY <1>1 DEF Framed, HasLock, ResumeUnlink
<1> QED
  BY <1>1, <1>2, <1>3

LEMMA ScheduleFrame ==
  ASSUME NEW kk, HasLock(kk)
  PROVE  /\ DOMAIN Schedule(kk) = DOMAIN kk /\ Schedule(kk).lock = kk.lock
         /\ kk.lock # 0 => Schedule(kk) = kk
<1> DEFINE cur  == kk.current
           to   == Head(kk.ready[HighestReady(kk.group)])
           at   == [kk EXCEPT !.current = to]
           from == IF kk.stat[cur] = "RUNNING" THEN ScheduleInsert(at, cur) ELSE at
<1>1. HasLock(at) /\ DOMAIN at = DOMAIN kk /\ at.lock = kk.lock
  BY DEF HasLock
<1>2. HasLock(from) /\ DOMAIN from = DOMAIN kk /\ from.lock = kk.lock
  BY <1>1, FrameFacts DEF Framed, HasLock
<1>3. ASSUME NEW u, NEW t, HasLock(u)
      PROVE  LET v == SetStat(ScheduleRemove(u, t), t, "RUNNING")
             IN  DOMAIN v = DOMAIN u /\ v.lock = u.lock
  BY <1>3, FrameFacts DEF SetStat, ScheduleRemove, Framed, HasLock
<1> HIDE DEF at, from
<1>4. \/ Schedule(kk) = kk
      \/ Schedule(kk) = SetStat(ScheduleRemove(kk, cur), cur, "RUNNING")
      \/ Schedule(kk) = SetStat(ScheduleRemove(from, to), to, "RUNNING")
  BY DEF Schedule, from, at
<1>5. kk.lock # 0 => Schedule(kk) = kk
  BY DEF Schedule
<1> QED
  BY <1>2, <1>3, <1>4, <1>5

(* The scheduler lock of a step, whatever the threads call. *)
LockInv == HasLock(k) /\ k.lock \in Nat

LEMMA StepLock ==
  ASSUME LockInv, Next
  PROVE  LockInv' /\ (k.lock > 0 => k'.current = k.current)
<1> USE DEF LockInv
<1>1. ASSUME NEW u, u = k \/ Framed(k, u), k' = u \/ k' = Schedule(u)
      PROVE  LockInv' /\ (k.lock > 0 => k'.current = k.current)
  <2>1. HasLock(u) /\ u.lock = k.lock /\ u.current = k.current
    BY <1>1 DEF Framed, HasLock
  <2> QED
    BY <1>1, <2>1, ScheduleFrame DEF HasLock
<1> USE DEF Framed
<1>2. ASSUME NEW t \in Thread, ThreadStep(t)
      PROVE  LockInv' /\ (k.lock > 0 => k'.current = k.current)
  <2>1. CASE Resume(t) \/ ResumeCheck(t) \/ SuspendCheck(t) \/ Yield(t)
    BY <1>1, <2>1 DEF Resume, ResumeCheck, SuspendCheck, Yield
  <2>2. CASE Startup(t) \/ DeleteTimer(t) \/ DeleteStat(t) \/ Create(t) \/ SleepReturn(t)
    <3>1. Framed(k, k')
      <4>1. CASE Startup(t)
        BY <4>1 DEF Startup, HasLock
      <4>2. CASE DeleteTimer(t) \/ DeleteStat(t)
        BY <4>2 DEF DeleteTimer, DeleteStat, SetStat, HasLock
      <4>3. CASE Create(t)
        BY <4>3 DEF Create, HasLock
      <4>4. CASE SleepReturn(t)
        BY <4>4 DEF SleepReturn, HasLock
      <4> QED
        BY <2>2, <4>1, <4>2, <4>3, <4>4
    <3> QED
      BY <1>1, <3>1
  <2>3. CASE ResumeTake(t) \/ ResumeInsert(t)
    BY <1>1, <2>3, FrameFacts DEF ResumeTake, ResumeInsert
  <2>4. CASE SuspendSelf(t) \/ Sleep(t)
    <3>1. Framed(k, ThreadSuspend(k, t))
      BY FrameFacts DEF ThreadSuspend, SuspendNow, ScheduleRemove, HasLock
    <3>2. Framed(k, TimerStart(ThreadSuspend(k, t), t))
      BY <3>1 DEF TimerStart, HasLock
    <3> QED
      BY <1>1, <2>4, <3>1, <3>2 DEF SuspendSelf, Sleep
  <2>5. CASE SuspendOther(t)
    <3>1. Framed(k, SuspendNow(k, obj[t]))
      BY FrameFacts DEF SuspendNow, ScheduleRemove, HasLock
    <3> QED
      BY <1>1, <2>5, <3>1 DEF SuspendOther
  <2>6. CASE Control(t)
    <3>1. PICK x \in Thread, p \in Prio : k' = ChangePriority(k, x, p)
      BY <2>6 DEF Control
    <3>2. Framed(k, [ScheduleRemove(k, x) EXCEPT !.prio[x] = p])
      BY FrameFacts DEF ScheduleRemove, HasLock
    <3>3. Framed(k, ScheduleInsert([ScheduleRemove(k, x) EXCEPT !.prio[x] = p], x))
      BY <3>2, FrameFacts DEF HasLock
    <3>4. Framed(k, ChangePriority(k, x, p))
      BY <3>3 DEF ChangePriority, HasLock
    <3> QED
      BY <1>1, <3>1, <3>4
  <2>7. CASE EnterCritical(t) \/ ExitCritical(t)
    BY <2>7 DEF EnterCritical, ExitCritical, HasLock
  <2>8. CASE Exit(t)
    <3>1. Framed(k, [ScheduleRemove(k, t) EXCEPT !.stat[t] = "CLOSE", !.timer[t] = FALSE])
      BY FrameFacts DEF ScheduleRemove, HasLock
    <3> QED
      BY <1>1, <2>8, <3>1 DEF Exit, Bury, HasLock
  <2>9. CASE Delete(t)
    <3>1. \A x \in Thread : Framed(k, ScheduleRemove(k, x))
      BY FrameFacts DEF ScheduleRemove, HasLock
    <3> QED
      BY <1>1, <2>9, <3>1 DEF Delete
  <2>10. CASE DeleteBury(t)
    <3>1. k' = k \/ Framed(k, k')
      BY <2>10 DEF DeleteBury, Bury, HasLock
    <3> QED
      BY <1>1, <3>1
  <2>11. CASE Reschedule(t)
    BY <1>1, <2>11 DEF Reschedule
  <2> QED
    BY <1>2, <2>1, <2>2, <2>3, <2>4, <2>5, <2>6, <2>7, <2>8, <2>9, <2>10, <2>11
    DEF ThreadStep
<1>3. CASE IdleReap
  BY <1>1, <1>3, FrameFacts DEF IdleReap
<1>4. CASE IdleFree
  BY <1>1, <1>4 DEF IdleFree, SetStat, HasLock
<1>5. CASE Interrupt
  <2>1. CASE Tick \/ TickEnd
    BY <1>1, <2>1 DEF Tick, TickEnd
  <2>2. ASSUME NEW t \in Thread, TimerExpire(t)
        PROVE  LockInv' /\ (k.lock > 0 => k'.current = k.current)
    <3> DEFINE u == [Unlink(k, t) EXCEPT !.timer[t] = FALSE, !.error[t] = "ETIMEOUT"]
    <3>1. HasLock(k) /\ Framed(k, Unlink(k, t))
      BY FrameFacts
    <3>2. Framed(k, u) /\ HasLock(u)
      BY <3>1 DEF Framed, HasLock
    <3> HIDE DEF u
    <3>3. Framed(u, ScheduleInsert(u, t))
      BY <3>2, FrameFacts
    <3>4. Framed(k, ScheduleInsert(u, t))
      BY <3>2, <3>3 DEF Framed
    <3> USE DEF u
    <3>5. k' = Schedule(ScheduleInsert(u, t))
      BY <2>2 DEF TimerExpire, ThreadTimeout
    <3> HIDE DEF u
    <3> QED
      BY <1>1, <3>4, <3>5
  <2>3. ASSUME NEW t \in Thread, IsrWake(t)
        PROVE  LockInv' /\ (k.lock > 0 => k'.current = k.current)
    <3>1. Framed(k, ThreadResume(k, t))
      BY FrameFacts DEF ThreadResume, HasLock
    <3> QED
      BY <1>1, <2>3, <3>1 DEF IsrWake
  <2> QED
    BY <1>5, <2>1, <2>2, <2>3 DEF Interrupt
<1> QED
  BY <1>2, <1>3, <1>4, <1>5 DEF Next

(* While a thread holds the scheduler lock it keeps the processor, for     *)
(* every workload: no call, however interrupted, switches threads then.    *)
THEOREM LockHolds == Spec => LockKeepsCurrent
<1>1. Init => LockInv
  BY DEF Init, LockInv, HasLock
<1>2. LockInv /\ [Next]_vars => LockInv'
  BY StepLock DEF vars, LockInv, HasLock
<1>3. LockInv /\ [Next]_vars => [k.lock > 0 => k'.current = k.current]_vars
  BY StepLock
<1> QED
  BY <1>1, <1>2, <1>3, PTL DEF Spec, LockKeepsCurrent
-----------------------------------------------------------------------------
(* Preemption: a thread that is not on its way to rt_schedule is RUNNING,  *)
(* and the most urgent one unless it holds the scheduler lock.             *)
Fit(kk) == /\ kk.stat[kk.current] = "RUNNING"
           /\ kk.lock = 0 => MostUrgentRuns(kk)

Prompt == /\ pc[k.current] # "sched" => Fit(k)
          /\ k.lock # 0 => k.stat[k.current] = "RUNNING"

(* rt_thread_startup reschedules when rt_thread_resume returns. *)
StarterInv == \A t \in Starting : then[t] = "sched"

(* The workloads without rt_thread_control, which changes a priority and   *)
(* does not reschedule: MutexPreempt.cfg shows what that does.             *)
FixedPriorities == \A t \in Thread : \A c \in Calls[t] : c[1] # "control"

ClosedLasts ==
  \A x \in Thread : /\ k.stat[x] = "CLOSE" => k'.stat[x] \in {"CLOSE", "FREED"}
                    /\ k.stat[x] = "FREED" => k'.stat[x] \in {"FREED", "INIT"}

Good == (FixedPriorities /\ Prompt => Prompt') /\ ClosedLasts

(* rt_schedule leaves the processor to the most urgent thread: the head of *)
(* the list the bitmap names, or the caller if it is more urgent.          *)
LEMMA ScheduleChooses ==
  ASSUME NEW kk \in KernelState, Coherent(kk, {}),
         kk.stat[Idle] \in {"READY", "RUNNING"},
         kk.lock # 0 => kk.stat[kk.current] = "RUNNING"
  PROVE  Fit(Schedule(kk))
<1> DEFINE cur     == kk.current
           hp      == HighestReady(kk.group)
           to      == Head(kk.ready[hp])
           running == kk.stat[cur] = "RUNNING"
           at      == [kk EXCEPT !.current = to]
           from    == IF running THEN ScheduleInsert(at, cur) ELSE at
           s       == Schedule(kk)
<1>1. /\ s \in KernelState /\ Coherent(s, {})
      /\ s.prio = kk.prio /\ s.lock = kk.lock
      /\ Moves(kk, s)
      /\ s.current # cur => s.stat[s.current] = "RUNNING"
  BY ScheduleFacts
<1>2. /\ cur \in Thread /\ kk.group \in SUBSET Prio /\ Prio \subseteq Nat
      /\ kk.prio \in [Thread -> Prio]
  BY KernelAssumption DEF KernelState, Prio
<1>3. ASSUME NEW t \in Thread, kk.stat[t] = "READY"
      PROVE  kk.prio[t] \in kk.group /\ t \in ToSet(kk.ready[kk.prio[t]])
  <2>1. kk.prio[t] \in Prio /\ t \in ToSet(kk.ready[kk.prio[t]])
    BY <1>2, <1>3 DEF Coherent, ReadyListed
  <2>2. kk.ready[kk.prio[t]] # << >>
    BY <2>1, ListEmpty DEF KernelState
  <2> QED
    BY <2>1, <2>2 DEF Coherent, BitmapExact
<1>4. CASE kk.lock # 0
  <2>1. s = kk
    BY <1>4 DEF Schedule
  <2> QED
    BY <1>4, <2>1 DEF Fit
<1>5. CASE kk.lock = 0 /\ kk.group = {}
  <2>1. s = kk
    BY <1>5 DEF Schedule
  <2>2. kk.stat[Idle] = "RUNNING"
    BY <1>3, <1>5, KernelAssumption
  <2>3. Idle = cur
    BY <2>2, KernelAssumption DEF Coherent, RunningUnlinkedBut
  <2> HIDE DEF s
  <2> QED
    BY <1>5, <2>1, <2>2, <2>3 DEF Fit, MostUrgentRuns, s
<1>6. CASE kk.lock = 0 /\ kk.group # {}
  <2>1. hp \in kk.group /\ hp \in Prio /\ \A p \in kk.group : hp <= p
    BY <1>2, <1>6, HighestReadyFacts
  <2>2. kk.ready[hp] \in Seq(Thread) /\ kk.ready[hp] # << >>
    BY <2>1 DEF KernelState, Coherent, BitmapExact
  <2>3. to \in ToSet(kk.ready[hp]) /\ to \in Thread
    BY <2>2, ListEmpty
  <2>4. kk.prio[to] = hp
    BY <2>1, <2>3 DEF Coherent, ReadyListed
  <2> HIDE DEF hp
  <2>5. \/ /\ to = cur \/ (running /\ kk.prio[cur] < hp)
           /\ s = SetStat(ScheduleRemove(kk, cur), cur, "RUNNING")
        \/ /\ ~(to = cur \/ (running /\ kk.prio[cur] < hp))
           /\ s = SetStat(ScheduleRemove(from, to), to, "RUNNING")
    BY <1>6 DEF Schedule, hp
  <2> HIDE DEF to
  <2>6. \A t : HasLock(kk) /\ Framed(kk, ScheduleRemove(kk, t))
    BY FrameFacts DEF ScheduleRemove, Framed, HasLock, KernelState
  <2> DEFINE Chosen == /\ s.stat[s.current] = "RUNNING" /\ s.prio[s.current] <= hp
                       /\ running /\ s.current # cur => hp <= kk.prio[cur]
  <2>7. ASSUME to = cur \/ (running /\ kk.prio[cur] < hp)
        PROVE  Chosen
    <3> DEFINE v == ScheduleRemove(kk, cur)
    <3>1. v.current = cur /\ s = SetStat(v, cur, "RUNNING") /\ v \in KernelState
      BY <1>2, <2>5, <2>6, <2>7, ScheduleRemoveFacts DEF Framed
    <3> HIDE DEF v, s
    <3>2. s.current = cur /\ s.stat[cur] = "RUNNING"
      BY <1>2, <3>1 DEF SetStat, KernelState
    <3>3. kk.prio[cur] \in Nat /\ hp \in Nat
      BY <1>2, <2>1
    <3>4. kk.prio[cur] <= hp
      BY <2>4, <2>7, <3>3
    <3> QED
      BY <1>1, <3>2, <3>4
  <2>8. ASSUME ~(to = cur \/ (running /\ kk.prio[cur] < hp))
        PROVE  Chosen
    <3>1. HasLock(at) /\ at.current = to
      BY DEF HasLock, KernelState
    <3> HIDE DEF at
    <3>2. HasLock(from) /\ from.current = to
      BY <3>1, FrameFacts DEF Framed, HasLock
    <3> HIDE DEF from
    <3> DEFINE v == ScheduleRemove(from, to)
    <3>3. HasLock(v) /\ v.current = to
      BY <3>2, FrameFacts DEF ScheduleRemove, Framed, HasLock
    <3>4. s = SetStat(v, to, "RUNNING")
      BY <2>5, <2>8
    <3> HIDE DEF v, s
    <3>5. s.current = to
      BY <3>3, <3>4 DEF SetStat, HasLock
    <3>6. kk.prio[cur] \in Nat /\ hp \in Nat
      BY <1>2, <2>1
    <3>7. running => hp <= kk.prio[cur]
      BY <2>8, <3>6
    <3> QED
      BY <1>1, <2>4, <2>8, <3>5, <3>6, <3>7
  <2>9. Chosen
    BY <2>7, <2>8
  <2> HIDE DEF s, to
  <2>10. ASSUME NEW p \in s.group
         PROVE  s.prio[s.current] <= p
    <3>1. PICK t \in Thread : s.stat[t] = "READY" /\ s.prio[t] = p
      <4>1. p \in Prio /\ s.ready[p] # << >> /\ s.ready[p] \in Seq(Thread)
        BY <1>1 DEF Coherent, BitmapExact, KernelState
      <4>2. Head(s.ready[p]) \in ToSet(s.ready[p])
        BY <4>1, ListEmpty
      <4> QED
        BY <1>1, <4>1, <4>2 DEF Coherent, ReadyListed
    <3>2. hp <= p
      <4>1. CASE kk.stat[t] = "READY"
        BY <1>1, <1>3, <2>1, <3>1, <4>1
      <4>2. CASE kk.stat[t] = "RUNNING"
        <5>1. t = cur /\ s.current # cur
          BY <2>9, <3>1, <4>2 DEF Coherent, RunningUnlinkedBut
        <5> QED
          BY <1>1, <2>9, <3>1, <4>2, <5>1
      <4>3. kk.stat[t] \in {"READY", "RUNNING"}
        BY <1>1, <3>1 DEF Moves
      <4> QED
        BY <4>1, <4>2, <4>3
    <3>3. s.prio[s.current] \in Nat /\ hp \in Nat /\ p \in Nat
      BY <1>1, <1>2, <2>1, <3>1 DEF KernelState
    <3> QED
      BY <2>9, <3>2, <3>3
  <2> QED
    BY <2>9, <2>10 DEF Fit, MostUrgentRuns, s
<1> QED
  BY <1>4, <1>5, <1>6

(* The sections that end with rt_schedule. *)
Lives(kk, u) ==
  /\ \A y \in Thread : kk.stat[y] \in {"CLOSE", "FREED"} => u.stat[y] = kk.stat[y]
  /\ u.stat[Idle] \in {"READY", "RUNNING"}
  /\ kk.stat[kk.current] = "RUNNING" => u.stat[kk.current] = "RUNNING"

LEMMA ReschedulesGood ==
  ASSUME IInv, NEW u \in KernelState, Coherent(u, {}), SameThreads(k, u), Lives(k, u),
         k' = Schedule(u)
  PROVE  Good
<1>1. Moves(u, k') /\ k'.lock = u.lock
  BY ScheduleFacts
<1>2. ClosedLasts
  BY <1>1 DEF Moves, Lives, ClosedLasts
<1>3. ASSUME Prompt PROVE Prompt'
  <2>1. u.lock # 0 => u.stat[u.current] = "RUNNING"
    BY <1>3 DEF Prompt, SameThreads, Lives
  <2>2. Fit(k')
    BY <2>1, ScheduleChooses DEF Lives
  <2> QED
    BY <2>2 DEF Prompt, Fit
<1> QED
  BY <1>2, <1>3 DEF Good

(* The sections after which the caller goes to rt_schedule: it gave up the *)
(* processor without holding the scheduler lock, or woke somebody.         *)
LEMMA AwaitsGood ==
  ASSUME IInv, ClosedLasts, k'.current = k.current, k'.lock = k.lock,
         \/ k.lock = 0
         \/ k'.stat[k.current] = k.stat[k.current],
         pc'[k.current] = "sched"
  PROVE  Good
BY DEF Good, Prompt

(* The sections that leave the bitmap and the thread that runs alone. *)
LEMMA LeavesGood ==
  ASSUME IInv, ClosedLasts, k'.current = k.current, k'.lock = k.lock,
         k'.group = k.group, k'.stat[k.current] = k.stat[k.current],
         k'.prio[k.current] = k.prio[k.current],
         pc[k.current] # "sched"
  PROVE  Good
BY DEF Good, Prompt, Fit, MostUrgentRuns

(* How the operators change the states. *)
LEMMA StatFacts ==
  ASSUME NEW kk \in KernelState, NEW x \in Thread
  PROVE  /\ Unlink(kk, x).stat = kk.stat /\ Unlink(kk, x).group = kk.group
         /\ Unlink(kk, x).prio = kk.prio
         /\ ResumeUnlink(kk, x).stat = kk.stat
         /\ ResumeUnlink(kk, x).group = kk.group
         /\ ResumeUnlink(kk, x).prio = kk.prio
         /\ \A y \in Thread \ {x} : ScheduleInsert(kk, x).stat[y] = kk.stat[y]
         /\ ScheduleInsert(kk, x).stat[x] \in {"READY", "RUNNING"}
<1>1. /\ Unlink(kk, x).stat = kk.stat /\ Unlink(kk, x).group = kk.group
      /\ Unlink(kk, x).prio = kk.prio /\ DOMAIN Unlink(kk, x) = DOMAIN kk
  BY DEF Unlink, KernelState
<1>2. /\ ResumeUnlink(kk, x).stat = kk.stat
      /\ ResumeUnlink(kk, x).group = kk.group
      /\ ResumeUnlink(kk, x).prio = kk.prio
  BY <1>1 DEF ResumeUnlink, KernelState
<1>3. /\ \A y \in Thread \ {x} : ScheduleInsert(kk, x).stat[y] = kk.stat[y]
      /\ ScheduleInsert(kk, x).stat[x] \in {"READY", "RUNNING"}
  <2>1. kk.stat \in [Thread -> Stat]
    BY DEF KernelState
  <2>2. \/ ScheduleInsert(kk, x).stat = [kk.stat EXCEPT ![x] = "RUNNING"]
        \/ ScheduleInsert(kk, x).stat = [kk.stat EXCEPT ![x] = "READY"]
    BY DEF ScheduleInsert, SetStat, KernelState
  <2> QED
    BY <2>1, <2>2
<1> QED
  BY <1>1, <1>2, <1>3

(* A suspended thread is woken by an interrupt, which then reschedules. *)
LEMMA WakesGood ==
  ASSUME IInv, NEW x \in Thread, k.stat[x] = "SUSPEND",
         \/ k' = ThreadTimeout(k, x)
         \/ k' = Schedule(ThreadResume(k, x))
  PROVE  Good
<1>1. k \in KernelState /\ Coherent(k, {})
  BY DEF IInv, TypeOK
<1>2. PICK e \in Errno : k' = Schedule(ScheduleInsert(Released(k, x, e), x))
  <2>1. "ETIMEOUT" \in Errno /\ k.error[x] \in Errno
    BY <1>1 DEF Errno, KernelState
  <2>2. CASE k' = ThreadTimeout(k, x)
    BY <2>1, <2>2 DEF ThreadTimeout, Released
  <2>3. CASE k' = Schedule(ThreadResume(k, x))
    <3>1. Unlink(k, x) \in KernelState /\ Unlink(k, x).error = k.error
      BY <1>1, UnlinkFacts DEF Coherent
    <3>2. ResumeUnlink(k, x) = Released(k, x, k.error[x])
      BY <3>1 DEF ResumeUnlink, Released, KernelState
    <3> QED
      BY <2>1, <2>3, <3>2 DEF ThreadResume
  <2> QED
    BY <2>2, <2>3
<1> DEFINE r == Released(k, x, e)
           u == ScheduleInsert(r, x)
<1>3. Releases(k, r, x, e)
  BY <1>1, ReleasedFacts
<1> HIDE DEF r
<1>4. /\ r \in KernelState /\ Coherent(r, {}) /\ ~Linked(r, x)
      /\ SameThreads(k, r) /\ r.stat = k.stat
      /\ r.timer = [k.timer EXCEPT ![x] = FALSE]
      /\ \A q \in Queue : ToSet(r.wait[q]) = ToSet(k.wait[q]) \ {x}
  BY <1>3 DEF Releases
<1>5. u \in KernelState /\ Coherent(u, {}) /\ SameThreads(k, u)
  BY <1>1, <1>4, InsertWakes
<1>6. Lives(k, u)
  <2>1. /\ \A y \in Thread \ {x} : u.stat[y] = k.stat[y]
        /\ u.stat[x] \in {"READY", "RUNNING"}
    BY <1>4, StatFacts
  <2> HIDE DEF u
  <2>2. k.current \in Thread /\ Idle \in Thread
    BY <1>1, KernelAssumption DEF KernelState
  <2> QED
    BY <2>1, <2>2 DEF Lives, IInv, IdleInv
<1>7. k' = Schedule(u)
  BY <1>2 DEF r
<1> HIDE DEF u
<1> QED
  BY <1>5, <1>6, <1>7, ReschedulesGood

(* rt_thread_startup, and rt_thread_resume for it. *)
LEMMA StartupGood ==
  ASSUME IInv, StarterInv, NEW t \in Thread,
         Startup(t) \/ ResumeCheck(t) \/ ResumeTake(t) \/ ResumeInsert(t)
  PROVE  Good
<1>1. /\ t = k.current /\ k \in KernelState /\ pc \in [Thread -> Location]
      /\ pc[t] # "sched"
  BY DEF Startup, Names, Call, ResumeCheck, ResumeTake, ResumeInsert, At, IInv, TypeOK
<1>2. CASE Startup(t)
  <2>1. PICK x \in Thread :
          /\ x # t /\ k.stat[x] = "INIT"
          /\ k' = [k EXCEPT !.prio[x] = InitPrio[x], !.stat[x] = "SUSPEND"]
    BY <1>2 DEF Startup, Names, Call
  <2>2. /\ \A y \in Thread \ {x} : k'.stat[y] = k.stat[y] /\ k'.prio[y] = k.prio[y]
        /\ k'.group = k.group /\ k'.current = k.current /\ k'.lock = k.lock
    BY <1>1, <2>1 DEF KernelState
  <2>3. ClosedLasts
    BY <2>1, <2>2 DEF ClosedLasts
  <2> QED
    BY <1>1, <2>1, <2>2, <2>3, LeavesGood
<1>3. CASE ResumeCheck(t)
  BY <1>1, <1>3, LeavesGood DEF ResumeCheck, ClosedLasts
<1>4. CASE ResumeTake(t)
  <2>1. obj[t] \in Thread /\ k' = ResumeUnlink(k, obj[t])
    BY <1>4 DEF ResumeTake, IInv, TypeOK
  <2>2. k'.stat = k.stat /\ k'.group = k.group /\ k'.prio = k.prio
    BY <1>1, <2>1, StatFacts
  <2>3. k'.current = k.current /\ k'.lock = k.lock
    BY <1>1, <2>1, FrameFacts DEF Framed, HasLock, KernelState
  <2>4. ClosedLasts
    BY <2>2 DEF ClosedLasts
  <2> QED
    BY <1>1, <2>2, <2>3, <2>4, LeavesGood
<1>5. CASE ResumeInsert(t)
  <2>1. obj[t] \in Thread /\ obj[t] # t /\ k.stat[obj[t]] = "SUSPEND"
    <3>1. pc[t] = "insert" /\ obj[t] \in Thread
      BY <1>5 DEF ResumeInsert, At, IInv, TypeOK
    <3> QED
      BY <1>1, <3>1 DEF IInv, StartInv, Starting, InStart
  <2>2. k' = ScheduleInsert(k, obj[t]) /\ pc' = [pc EXCEPT ![t] = then[t]]
    BY <1>5 DEF ResumeInsert, Goto
  <2>3. \A y \in Thread \ {obj[t]} : k'.stat[y] = k.stat[y]
    BY <1>1, <2>1, <2>2, StatFacts
  <2>4. k'.current = k.current /\ k'.lock = k.lock
    BY <1>1, <2>2, FrameFacts DEF Framed, HasLock, KernelState
  <2>5. ClosedLasts
    BY <2>1, <2>3 DEF ClosedLasts
  <2>6. then[t] = "sched"
    BY <1>1, <1>5 DEF ResumeInsert, At, InStart, StarterInv, Starting
  <2> QED
    BY <1>1, <2>1, <2>2, <2>3, <2>4, <2>5, <2>6, AwaitsGood
<1> QED
  BY <1>2, <1>3, <1>4, <1>5

(* The calls a thread makes about itself. *)
LEMMA OwnGood ==
  ASSUME IInv, NEW t \in Thread,
         \/ SuspendSelf(t) \/ Sleep(t) \/ Yield(t) \/ SleepReturn(t)
         \/ EnterCritical(t) \/ ExitCritical(t) \/ Exit(t)
  PROVE  Good
<1>1. /\ t = k.current /\ k \in KernelState /\ Coherent(k, {})
      /\ pc \in [Thread -> Location] /\ pc[t] # "sched"
  BY DEF SuspendSelf, Sleep, Yield, SleepReturn, EnterCritical, ExitCritical,
     Exit, Call, At, IInv, TypeOK
<1>2. CASE SuspendSelf(t) \/ Sleep(t)
  <2> DEFINE u == ThreadSuspend(k, t)
  <2>1. k.lock = 0 /\ (k' = u \/ k' = TimerStart(u, t)) /\ pc'[t] = "sched"
    BY <1>1, <1>2 DEF SuspendSelf, Sleep, Call, At, Goto
  <2>2. /\ u.current = k.current /\ u.lock = k.lock /\ u \in KernelState
        /\ \A y \in Thread : u.stat[y] # k.stat[y] => k.stat[y] \in {"READY", "RUNNING"}
    <3>1. CASE k.stat[t] \in {"READY", "RUNNING"}
      <4> DEFINE v == [ScheduleRemove(k, t) EXCEPT !.stat[t] = "SUSPEND",
                                                   !.timer[t] = FALSE]
      <4>1. v \in KernelState /\ SameThreads(k, v)
            /\ v.stat = [k.stat EXCEPT ![t] = "SUSPEND"]
        BY <1>1, RetireFacts
      <4>2. u = v
        BY <3>1 DEF ThreadSuspend, SuspendNow
      <4> HIDE DEF u, v
      <4> QED
        BY <1>1, <3>1, <4>1, <4>2, SMTT(30) DEF SameThreads, KernelState
    <3>2. CASE k.stat[t] \notin {"READY", "RUNNING"}
      BY <1>1, <3>2 DEF ThreadSuspend
    <3> QED
      BY <3>1, <3>2
  <2> HIDE DEF u
  <2>3. k'.stat = u.stat /\ k'.current = u.current /\ k'.lock = u.lock
    BY <2>1, <2>2 DEF TimerStart, KernelState
  <2>4. ClosedLasts
    BY <2>2, <2>3 DEF ClosedLasts
  <2> QED
    BY <1>1, <2>1, <2>2, <2>3, <2>4, AwaitsGood
<1>3. CASE Yield(t)
  BY <1>1, <1>3, AwaitsGood DEF Yield, Goto, ClosedLasts
<1>4. CASE SleepReturn(t)
  <2>1. /\ k'.stat = k.stat /\ k'.group = k.group /\ k'.prio = k.prio
        /\ k'.current = k.current /\ k'.lock = k.lock
    BY <1>1, <1>4 DEF SleepReturn, KernelState
  <2> QED
    BY <1>1, <2>1, LeavesGood DEF ClosedLasts
<1>5. CASE EnterCritical(t) \/ ExitCritical(t)
  <2>1. PICK n \in Nat : /\ k' = [k EXCEPT !.lock = n]
                         /\ n # 0 /\ k.lock = 0 => EnterCritical(t)
                         /\ n = 0 => pc'[t] = "sched"
    <3>1. k.lock \in Nat
      BY <1>1 DEF KernelState
    <3>2. CASE EnterCritical(t)
      <4>1. k.lock + 1 \in Nat /\ k.lock + 1 # 0
        BY <3>1
      <4> QED
        BY <3>2, <4>1 DEF EnterCritical
    <3>3. CASE ExitCritical(t)
      <4>1. PICK n \in Nat : n = IF k.lock > 0 THEN k.lock - 1 ELSE 0
        BY <3>1
      <4>2. n # 0 => k.lock # 0
        BY <3>1, <4>1
      <4>3. k' = [k EXCEPT !.lock = n] /\ k'.lock = n
        BY <1>1, <3>3, <4>1 DEF ExitCritical, KernelState
      <4>4. n = 0 => pc'[t] = "sched"
        BY <1>1, <3>3, <4>3 DEF ExitCritical, Goto
      <4> QED
        BY <4>2, <4>3, <4>4
    <3> QED
      BY <1>5, <3>2, <3>3
  <2>2. /\ k'.stat = k.stat /\ k'.group = k.group /\ k'.prio = k.prio
        /\ k'.current = k.current /\ k'.lock = n
    BY <1>1, <2>1 DEF KernelState
  <2>3. ASSUME Prompt PROVE Prompt'
    BY <1>1, <2>1, <2>2, <2>3 DEF Prompt, Fit
  <2> QED
    BY <2>2, <2>3 DEF Good, ClosedLasts
<1>6. CASE Exit(t)
  <2> DEFINE u == [ScheduleRemove(k, t) EXCEPT !.stat[t] = "CLOSE", !.timer[t] = FALSE]
  <2>1. k.lock = 0 /\ k' = Bury(u, t) /\ pc'[t] = "sched" /\ pc[t] = "user"
    BY <1>1, <1>6, SMTT(30) DEF Exit, Call, At, Goto
  <2>2. u \in KernelState /\ SameThreads(k, u) /\ u.stat = [k.stat EXCEPT ![t] = "CLOSE"]
    BY <1>1, RetireFacts
  <2> HIDE DEF u
  <2>3. k'.stat = u.stat /\ k'.current = u.current /\ k'.lock = u.lock
    BY <2>1, <2>2 DEF Bury, KernelState
  <2>4. k.stat[t] # "FREED"
    BY <1>1, <2>1 DEF IInv, CurrentInv
  <2>5. ClosedLasts
    BY <1>1, <2>2, <2>3, <2>4 DEF ClosedLasts, KernelState
  <2> QED
    BY <1>1, <2>1, <2>2, <2>3, <2>5, AwaitsGood DEF SameThreads
<1> QED
  BY <1>2, <1>3, <1>4, <1>5, <1>6

(* rt_thread_create, and the idle thread that frees. *)
LEMMA MemoryGood ==
  ASSUME IInv, IdleReap \/ IdleFree \/ \E t \in Thread : Create(t)
  PROVE  Good
<1>1. /\ k \in KernelState /\ Coherent(k, {}) /\ k.current \in Thread
      /\ pc \in [Thread -> Location] /\ Idle \in Thread
  BY KernelAssumption DEF IInv, TypeOK, KernelState
<1>2. CASE \E t \in Thread : Create(t)
  <2>1. PICK x \in Thread :
        /\ k.stat[x] = "FREED" /\ pc[k.current] = "user"
        /\ k' = [k EXCEPT !.stat[x] = "INIT", !.prio[x] = InitPrio[x],
                          !.error[x] = "EOK", !.timer[x] = FALSE]
    BY <1>2 DEF Create, Call, At
  <2>2. x # k.current
    BY <2>1 DEF IInv, CurrentInv
  <2>3. /\ k'.group = k.group /\ k'.current = k.current /\ k'.lock = k.lock
        /\ k'.stat = [k.stat EXCEPT ![x] = "INIT"]
        /\ k'.prio = [k.prio EXCEPT ![x] = InitPrio[x]]
    BY <1>1, <2>1 DEF KernelState
  <2>4. /\ \A y \in Thread : k'.stat[y] = IF y = x THEN "INIT" ELSE k.stat[y]
        /\ \A y \in Thread \ {x} : k'.prio[y] = k.prio[y]
    BY <1>1, <2>3 DEF KernelState
  <2>5. ClosedLasts
    BY <2>1, <2>4 DEF ClosedLasts
  <2> QED
    BY <1>1, <2>1, <2>2, <2>3, <2>4, <2>5, LeavesGood
<1>3. CASE IdleFree
  <2>1. /\ Idle = k.current /\ pc[Idle] = "free" /\ obj[Idle] \in Thread
        /\ k' = SetStat(k, obj[Idle], "FREED")
    BY <1>1, <1>3 DEF IdleFree, At, IInv, TypeOK
  <2>2. k.stat[obj[Idle]] = "CLOSE"
    BY <2>1 DEF IInv, IdleInv
  <2>3. k.stat[Idle] # "CLOSE"
    BY DEF IInv, IdleInv
  <2>4. /\ k'.group = k.group /\ k'.current = k.current /\ k'.lock = k.lock
        /\ k'.prio = k.prio /\ k'.stat = [k.stat EXCEPT ![obj[Idle]] = "FREED"]
    BY <1>1, <2>1 DEF SetStat, KernelState
  <2>5. \A y \in Thread : k'.stat[y] = IF y = obj[Idle] THEN "FREED" ELSE k.stat[y]
    BY <1>1, <2>1, <2>4 DEF KernelState
  <2>6. ClosedLasts
    BY <2>2, <2>5 DEF ClosedLasts
  <2> QED
    BY <1>1, <2>1, <2>2, <2>3, <2>4, <2>5, <2>6, LeavesGood
<1>4. CASE IdleReap
  <2> DEFINE x == Head(k.wait["defunct"])
             u == Unlink(k, x)
  <2>1. k' = Schedule(u) /\ k.wait["defunct"] # << >>
    BY <1>4 DEF IdleReap
  <2>2. k.wait["defunct"] \in Seq(Thread)
    BY <1>1, SchedulerAssumption DEF KernelState
  <2>3. x \in ToSet(k.wait["defunct"]) /\ x \in Thread
    BY <2>1, <2>2, ListEmpty
  <2>4. k.stat[x] = "CLOSE" /\ ~k.timer[x]
    BY <2>3 DEF IInv, DefunctClosed, TimedSuspended
  <2> HIDE DEF x
  <2>5. u \in KernelState /\ Coherent(u, {}) /\ SameThreads(k, u) /\ u.stat = k.stat
    BY <1>1, <2>3, <2>4, ReapFacts
  <2> HIDE DEF u
  <2>6. Lives(k, u)
    BY <1>1, <2>5 DEF Lives, IInv, IdleInv
  <2> QED
    BY <2>1, <2>5, <2>6, ReschedulesGood
<1> QED
  BY <1>2, <1>3, <1>4

(* rt_thread_control moves no closed thread. *)
LEMMA ControlGood ==
  ASSUME IInv, NEW t \in Thread, Control(t)
  PROVE  ClosedLasts /\ ~FixedPriorities
<1>1. PICK x \in Thread, p \in Prio : <<"control", x>> \in Calls[t] /\ k' = ChangePriority(k, x, p)
  BY DEF Control, Call
<1>2. Moves(k, k')
  BY <1>1, ChangePriorityFacts DEF IInv, TypeOK
<1>3. ClosedLasts
  BY <1>2 DEF Moves, ClosedLasts
<1> QED
  BY <1>1, <1>3 DEF FixedPriorities

LEMMA TickGood ==
  ASSUME IInv, Tick \/ TickEnd
  PROVE  Good
<1>1. /\ k \in KernelState /\ Coherent(k, {}) /\ SameThreads(k, k) /\ Lives(k, k)
      /\ pc' = pc
  BY DEF IInv, TypeOK, SameThreads, Lives, IdleInv, Tick, TickEnd
<1>2. CASE k' = k
  BY <1>1, <1>2 DEF Good, Prompt, Fit, MostUrgentRuns, ClosedLasts
<1>3. CASE k' = Schedule(k)
  BY <1>1, <1>3, ReschedulesGood
<1> QED
  BY <1>2, <1>3 DEF Tick, TickEnd

(* Each step. *)
LEMMA StepGood ==
  ASSUME OwnCalls, IInv, StarterInv, [Next]_vars
  PROVE  Good
<1>1. CASE UNCHANGED vars
  BY <1>1 DEF vars, Good, Prompt, Fit, MostUrgentRuns, ClosedLasts
<1>2. ASSUME NEW t \in Thread, ThreadStep(t)
      PROVE  Good
  <2>1. /\ ~Resume(t) /\ ~SuspendCheck(t) /\ ~SuspendOther(t) /\ ~Delete(t)
        /\ ~DeleteTimer(t) /\ ~DeleteStat(t) /\ ~DeleteBury(t)
    <3>1. ~Resume(t) /\ ~SuspendCheck(t) /\ ~Delete(t)
      BY DEF OwnCalls, Resume, SuspendCheck, Delete, Names, Call
    <3>2. ~SuspendOther(t) /\ ~DeleteTimer(t) /\ ~DeleteStat(t) /\ ~DeleteBury(t)
      BY DEF SuspendOther, DeleteTimer, DeleteStat, DeleteBury, At, IInv, NoneDying
    <3> QED
      BY <3>1, <3>2
  <2>2. CASE Startup(t) \/ ResumeCheck(t) \/ ResumeTake(t) \/ ResumeInsert(t)
    BY <2>2, StartupGood
  <2>3. CASE \/ SuspendSelf(t) \/ Sleep(t) \/ Yield(t) \/ SleepReturn(t)
             \/ EnterCritical(t) \/ ExitCritical(t) \/ Exit(t)
    BY <2>3, OwnGood
  <2>4. CASE Control(t)
    BY <2>4, ControlGood DEF Good
  <2>5. CASE Create(t)
    BY <2>5, MemoryGood
  <2>6. CASE Reschedule(t)
    <3>1. k \in KernelState /\ Coherent(k, {}) /\ SameThreads(k, k) /\ Lives(k, k)
      BY DEF IInv, TypeOK, SameThreads, Lives, IdleInv
    <3>2. k' = Schedule(k)
      BY <2>6 DEF Reschedule
    <3> QED
      BY <3>1, <3>2, ReschedulesGood
  <2> QED
    BY <1>2, <2>1, <2>2, <2>3, <2>4, <2>5, <2>6 DEF ThreadStep
<1>3. CASE IdleReap \/ IdleFree
  BY <1>3, MemoryGood
<1>4. CASE Interrupt
  <2>1. CASE Tick \/ TickEnd
    BY <2>1, TickGood
  <2>2. ASSUME NEW x \in Thread, TimerExpire(x) \/ IsrWake(x)
        PROVE  Good
    <3>1. k.stat[x] = "SUSPEND"
      BY <2>2 DEF TimerExpire, IsrWake, IInv, TimedSuspended
    <3> QED
      BY <2>2, <3>1, WakesGood DEF TimerExpire, IsrWake
  <2> QED
    BY <1>4, <2>1, <2>2 DEF Interrupt
<1> QED
  BY <1>1, <1>2, <1>3, <1>4 DEF Next

LEMMA StepStarter ==
  ASSUME OwnCalls, IInv, StarterInv, [Next]_vars
  PROVE  StarterInv'
<1> SUFFICES ASSUME NEW u \in Thread, pc'[u] \in InStart
             PROVE  then'[u] = "sched"
  BY DEF StarterInv, Starting
<1>1. /\ pc \in [Thread -> Location] /\ then \in [Thread -> {"user", "sched", "woken", "dead"}]
      /\ pc[u] \in InStart => then[u] = "sched"
  BY DEF IInv, TypeOK, StarterInv, Starting
<1>2. CASE UNCHANGED <<pc, then>>
  BY <1>1, <1>2
<1>3. CASE UNCHANGED vars \/ Interrupt
  BY <1>2, <1>3 DEF vars, Interrupt, Tick, TickEnd, TimerExpire, IsrWake
<1>4. CASE IdleReap \/ IdleFree
  <2>1. \/ UNCHANGED <<pc, then>>
        \/ (pc' = [pc EXCEPT ![Idle] = "free"] \/ pc' = [pc EXCEPT ![Idle] = "user"])
           /\ then' = then
    BY <1>4 DEF IdleReap, IdleFree, Goto
  <2> QED
    BY <1>1, <1>2, <2>1 DEF InStart
<1>5. ASSUME NEW t \in Thread, ThreadStep(t)
      PROVE  then'[u] = "sched"
  <2>1. /\ ~Resume(t) /\ ~SuspendCheck(t) /\ ~SuspendOther(t) /\ ~Delete(t)
        /\ ~DeleteTimer(t) /\ ~DeleteStat(t) /\ ~DeleteBury(t)
    <3>1. ~Resume(t) /\ ~SuspendCheck(t) /\ ~Delete(t)
      BY DEF OwnCalls, Resume, SuspendCheck, Delete, Names, Call
    <3>2. ~SuspendOther(t) /\ ~DeleteTimer(t) /\ ~DeleteStat(t) /\ ~DeleteBury(t)
      BY DEF SuspendOther, DeleteTimer, DeleteStat, DeleteBury, At, IInv, NoneDying
    <3> QED
      BY <3>1, <3>2
  <2>2. CASE Startup(t)
    BY <1>1, <2>2 DEF Startup, Goto, Then
  <2>3. CASE ResumeCheck(t) \/ ResumeTake(t) \/ ResumeInsert(t)
    <3>1. pc[t] \in InStart /\ then[t] = "sched"
      BY <2>3 DEF ResumeCheck, ResumeTake, ResumeInsert, At, InStart, StarterInv, Starting
    <3>2. \/ then' = then
          \/ pc' = [pc EXCEPT ![t] = "sched"] /\ then' = [then EXCEPT ![t] = "user"]
      BY <2>3, <3>1 DEF ResumeCheck, ResumeTake, ResumeInsert, Goto, Then
    <3>3. \A v \in Thread \ {t} : pc'[v] = pc[v] /\ then'[v] = then[v]
      BY <1>1, <2>3 DEF ResumeCheck, ResumeTake, ResumeInsert, Goto, Then
    <3> QED
      BY <1>1, <3>1, <3>2, <3>3 DEF InStart
  <2>4. CASE SuspendSelf(t) \/ Sleep(t) \/ Exit(t)
    BY <1>1, <2>4 DEF SuspendSelf, Sleep, Exit, Goto, Then, InStart
  <2>5. CASE Yield(t) \/ SleepReturn(t)
    BY <1>1, <2>5 DEF Yield, SleepReturn, Goto, InStart
  <2>6. CASE Control(t) \/ EnterCritical(t) \/ ExitCritical(t)
    BY <1>1, <2>6 DEF Control, EnterCritical, ExitCritical, Goto, InStart
  <2>7. CASE Create(t)
    <3>1. PICK x \in Thread : /\ pc' = [pc EXCEPT ![x] = "user"]
                              /\ then' = [then EXCEPT ![x] = "user"]
      BY <2>7 DEF Create
    <3> QED
      BY <1>1, <3>1 DEF InStart
  <2>8. CASE Reschedule(t)
    <3>1. then[t] \notin InStart
      BY <1>1 DEF InStart
    <3> QED
      BY <1>1, <2>8, <3>1 DEF Reschedule, Goto, Then
  <2> QED
    BY <1>5, <2>1, <2>2, <2>3, <2>4, <2>5, <2>6, <2>7, <2>8 DEF ThreadStep
<1> QED
  BY <1>3, <1>4, <1>5 DEF Next

LEMMA InitPrompt == Init => Prompt /\ StarterInv
<1> SUFFICES ASSUME Init PROVE Prompt /\ StarterInv
  OBVIOUS
<1>1. /\ k.current = Main /\ k.stat[Main] = "RUNNING" /\ k.lock = 0
      /\ k.group = {InitPrio[Idle]} /\ k.prio = InitPrio
      /\ pc = [t \in Thread |-> "user"]
  BY SchedulerAssumption DEF Init
<1> QED
  BY <1>1, SchedulerAssumption DEF Prompt, StarterInv, Starting, InStart, Fit, MostUrgentRuns

LEMMA Preemption == ASSUME OwnCalls, FixedPriorities PROVE Spec => []Prompt
<1>1. Init => Prompt /\ StarterInv
  BY InitPrompt
<1>2. IInv /\ StarterInv /\ [Next]_vars => StarterInv'
  BY StepStarter
<1>3. IInv /\ StarterInv /\ Prompt /\ [Next]_vars => Prompt'
  BY StepGood DEF Good
<1> QED
  BY <1>1, <1>2, <1>3, Invariant, PTL DEF Spec

(* The scheduling is preemptive: user code runs in no thread while a more  *)
(* urgent one is ready, unless it holds the scheduler lock.  Interrupts,   *)
(* rt_thread_startup, rt_exit_critical and every call that blocks or exits *)
(* reschedule in time.                                                     *)
THEOREM Preemptive ==
  ASSUME OwnCalls, FixedPriorities PROVE Spec => []HighestPriorityRuns
<1>1. Prompt => HighestPriorityRuns
  BY DEF Prompt, Fit, HighestPriorityRuns
<1> QED
  BY <1>1, Preemption, PTL

(* A thread that exited stays closed until the idle thread frees it, and   *)
(* is freed until it is created anew: no interrupt, timer or reschedule    *)
(* makes it ready again.                                                   *)
THEOREM Closed == ASSUME OwnCalls PROVE Spec => ClosedStaysClosed
<1>1. Init => StarterInv
  BY InitPrompt
<1>2. IInv /\ StarterInv /\ [Next]_vars => StarterInv'
  BY StepStarter
<1>3. IInv /\ StarterInv /\ [Next]_vars =>
        [\A t \in Thread :
           /\ k.stat[t] = "CLOSE" => k'.stat[t] \in {"CLOSE", "FREED"}
           /\ k.stat[t] = "FREED" => k'.stat[t] \in {"FREED", "INIT"}]_vars
  BY StepGood DEF Good, ClosedLasts
<1> QED
  BY <1>1, <1>2, <1>3, Invariant, PTL DEF Spec, ClosedStaysClosed
=============================================================================
