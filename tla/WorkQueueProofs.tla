-------------------------- MODULE WorkQueueProofs --------------------------
(***************************************************************************)
(* The list, the flags and the timers of a work queue agree, and who waits *)
(* for a work is told when it is over, for any number of threads and       *)
(* works, any priorities and any workload: none of it depends on who is    *)
(* scheduled when.                                                         *)
(***************************************************************************)
EXTENDS WorkQueue, KernelProofs

-----------------------------------------------------------------------------
NoCancelAll == \A t \in Thread : "all" \notin Calls[t]

Queued == [list : Seq(Work), current : Work \cup {None}, pending : SUBSET Work,
           submitting : SUBSET Work, armed : SUBSET Work, attached : SUBSET Work]

(* A delayed work has a timer only while it is attached.  It may be        *)
(* pending at any time: rt_workqueue_dowork looks at neither.              *)
DelayedInv == /\ w.attached \subseteq Delayed
              /\ w.armed \subseteq w.submitting \cap w.attached

QueueInv == /\ w \in Queued
            /\ QueuedOnce
            /\ NoCancelAll => PendingListed
            /\ DelayedInv

(* The thread t in the middle of a cancellation, or of a submission, is    *)
(* the owner of the work; behind the test of the timer the work has none,  *)
(* and none is started while the calls this one is nested in return.       *)
CancelLoc == {"cancel", "timer", "stop", "detach"}
Walking   == {"first", "walk", "unlink"}
Outside   == Location \ (CancelLoc \cup Walking \cup {"attach"})
Resting   == {"user", "woken", "fetch", "check"}
Args      == [work : Work \cup {None}, next : Work \cup {None}, depth : 0 .. MaxDepth]

Local(t) ==
  /\ pc[t] \in CancelLoc => then[t] \in {"user", "attach"}
  /\ pc[t] = "sched" => then[t] \in Resting
  /\ pc[t] \notin CancelLoc \cup {"sched"} => then[t] = "user"
  /\ pc[t] \in CancelLoc \cup {"attach"} =>
       arg[t].work \in Delayed /\ Owner[arg[t].work] = t
  /\ pc[t] = "detach" => arg[t].work \notin w.armed
  /\ pc[t] = "attach" => arg[t].work \notin w.attached
  /\ pc[t] \in Walking => "all" \in Calls[t]

ControlInv == /\ pc \in [Thread -> Location] /\ then \in [Thread -> Location]
              /\ arg \in [Thread -> Args]
              /\ \A t \in Thread : Local(t)

IInv == QueueInv /\ ControlInv /\ astray # "queue"
-----------------------------------------------------------------------------
(* The first work leaves the list. *)
LEMMA ListTail ==
  ASSUME NEW S, NEW s \in Seq(S), s # << >>, IsInjective(s)
  PROVE  /\ Tail(s) \in Seq(S)
         /\ Head(s) \in S
         /\ ToSet(Tail(s)) = ToSet(s) \ {Head(s)}
         /\ IsInjective(Tail(s))
<1> DEFINE r == Tail(s)
<1>1. /\ Head(s) \in S /\ Head(s) = s[1]
      /\ r \in Seq(S) /\ Len(r) = Len(s) - 1
      /\ \A i \in 1 .. Len(r) : r[i] = s[i + 1]
  BY HeadTailProperties
<1>2. Len(s) \in Nat /\ Len(s) > 0 /\ DOMAIN s = 1 .. Len(s) /\ DOMAIN r = 1 .. Len(r)
  BY <1>1, LenProperties, EmptySeq
<1> HIDE DEF r
<1>3. \A i, j \in 1 .. Len(s) : s[i] = s[j] => i = j
  BY <1>2 DEF IsInjective
<1>4. IsInjective(r)
  BY <1>1, <1>2, <1>3 DEF IsInjective
<1>5. ToSet(r) \subseteq ToSet(s) \ {Head(s)}
  <2> SUFFICES ASSUME NEW i \in 1 .. Len(r)
               PROVE  r[i] \in ToSet(s) /\ r[i] # Head(s)
    BY <1>2 DEF ToSet
  <2>1. r[i] = s[i + 1] /\ i + 1 \in 1 .. Len(s) /\ i + 1 # 1
    BY <1>1, <1>2
  <2>2. r[i] # Head(s)
    BY <1>1, <1>2, <1>3, <2>1
  <2> QED
    BY <1>2, <2>1, <2>2 DEF ToSet
<1>6. ToSet(s) \ {Head(s)} \subseteq ToSet(r)
  <2> SUFFICES ASSUME NEW i \in 1 .. Len(s), s[i] # Head(s)
               PROVE  s[i] \in ToSet(r)
    BY <1>2 DEF ToSet
  <2>1. i # 1
    BY <1>1
  <2>2. i - 1 \in 1 .. Len(r) /\ (i - 1) + 1 = i
    BY <1>1, <1>2, <2>1
  <2>3. r[i - 1] = s[i]
    BY <1>1, <2>2
  <2> QED
    BY <1>2, <2>2, <2>3 DEF ToSet
<1> QED
  BY <1>1, <1>4, <1>5, <1>6 DEF r

(* What InsertWork and RemoveWork do to the list. *)
LEMMA InsertWorkFacts ==
  ASSUME NEW u \in Queued, IsInjective(u.list), NEW x \in Work
  PROVE  \E l \in Seq(Work) : /\ InsertWork(u, x) = [u EXCEPT !.list = l]
                             /\ ToSet(l) = ToSet(u.list) \cup {x} /\ IsInjective(l)
<1>1. PICK s : s = Without(u.list, x)
  OBVIOUS
<1>2. u.list \in Seq(Work) /\ InsertWork(u, x) = [u EXCEPT !.list = Append(s, x)]
  BY <1>1 DEF Queued, InsertWork
<1>3. s \in Seq(Work) /\ ToSet(s) = ToSet(u.list) \ {x} /\ IsInjective(s)
  BY <1>1, <1>2, ListWithout
<1>4. /\ Append(s, x) \in Seq(Work) /\ ToSet(Append(s, x)) = ToSet(s) \cup {x}
      /\ x \notin ToSet(s) => IsInjective(Append(s, x))
  BY <1>3, ListAppend
<1> QED
  BY <1>2, <1>3, <1>4

LEMMA RemoveWorkFacts ==
  ASSUME NEW u \in Queued, IsInjective(u.list), NEW x
  PROVE  \E l \in Seq(Work) :
           /\ RemoveWork(u, x) = [u EXCEPT !.list = l, !.pending = u.pending \ {x}]
           /\ ToSet(l) = ToSet(u.list) \ {x} /\ IsInjective(l)
<1>1. PICK s : s = Without(u.list, x)
  OBVIOUS
<1>2. /\ u.list \in Seq(Work)
      /\ RemoveWork(u, x) = [u EXCEPT !.list = s, !.pending = u.pending \ {x}]
  BY <1>1 DEF Queued, RemoveWork
<1>3. s \in Seq(Work) /\ ToSet(s) = ToSet(u.list) \ {x} /\ IsInjective(s)
  BY <1>1, <1>2, ListWithout
<1> QED
  BY <1>2, <1>3
-----------------------------------------------------------------------------
(* A step of t leaves the other threads where they are. *)
Others(t) == \A u \in Thread \ {t} : pc'[u] = pc[u] /\ then'[u] = then[u] /\ arg'[u] = arg[u]

(* No timer is armed and no work attached but by the work's owner. *)
OwnerOnly(t) == \A x \in Delayed : Owner[x] # t =>
                  (x \in w'.armed => x \in w.armed) /\ (x \in w'.attached => x \in w.attached)

LEMMA ControlKeeps ==
  ASSUME ControlInv, NEW t \in Thread, Others(t), OwnerOnly(t),
         pc' \in [Thread -> Location], then' \in [Thread -> Location],
         arg' \in [Thread -> Args], Local(t)'
  PROVE  ControlInv'
<1> SUFFICES ASSUME NEW u \in Thread \ {t} PROVE Local(u)'
  BY DEF ControlInv
<1>1. Local(u) /\ pc'[u] = pc[u] /\ then'[u] = then[u] /\ arg'[u] = arg[u]
  BY DEF ControlInv, Others
<1>2. CASE pc[u] \in CancelLoc \cup {"attach"}
  <2>1. arg[u].work \in Delayed /\ Owner[arg[u].work] # t
    BY <1>1, <1>2 DEF Local
  <2>2. /\ arg[u].work \in w'.armed => arg[u].work \in w.armed
        /\ arg[u].work \in w'.attached => arg[u].work \in w.attached
    BY <2>1 DEF OwnerOnly
  <2> QED
    BY <1>1, <2>2 DEF Local
<1>3. CASE pc[u] \notin CancelLoc \cup {"attach"}
  BY <1>1, <1>3 DEF Local, CancelLoc
<1> QED
  BY <1>2, <1>3

(* A thread that goes to a place outside the cancellation of a work. *)
LEMMA GoesOn ==
  ASSUME ControlInv, NEW t \in Thread, NEW l \in Outside,
         NEW m \in Resting, l # "sched" => m = "user",
         pc' = [pc EXCEPT ![t] = l], then' = [then EXCEPT ![t] = m],
         arg' = arg, OwnerOnly(t)
  PROVE  ControlInv'
<1>1. Others(t) /\ pc'[t] = l /\ then'[t] = m
  BY DEF ControlInv, Others
<1>2. pc' \in [Thread -> Location] /\ then' \in [Thread -> Location]
  BY DEF ControlInv, Resting, Location, Outside
<1>3. Local(t)'
  BY <1>1 DEF Local, CancelLoc, Outside
<1> QED
  BY <1>1, <1>2, <1>3, ControlKeeps DEF ControlInv

(* One that keeps then, as a thread in no cancellation may. *)
LEMMA GoesTo ==
  ASSUME ControlInv, NEW t \in Thread, NEW l \in Outside,
         pc[t] \notin CancelLoc \cup {"sched"},
         pc' = [pc EXCEPT ![t] = l], then' = then, arg' = arg, OwnerOnly(t)
  PROVE  ControlInv'
<1>1. then[t] = "user" /\ then' = [then EXCEPT ![t] = "user"]
  BY DEF ControlInv, Local
<1> QED
  BY <1>1, GoesOn DEF Resting

(* Nobody moves. *)
LEMMA StandsStill ==
  ASSUME ControlInv, pc' = pc, then' = then,
         arg' = arg, w'.armed \subseteq w.armed, w'.attached \subseteq w.attached
  PROVE  ControlInv'
BY DEF ControlInv, Local
-----------------------------------------------------------------------------
(* What keeps QueueInv: a work put in the list and marked as pending or    *)
(* not, a work taken out.                                                  *)
LEMMA InsertKeeps ==
  ASSUME NEW u \in Queued, NEW x \in Work,
         IsInjective(u.list), u.current \notin ToSet(u.list), x # u.current,
         NoCancelAll => u.pending \subseteq ToSet(u.list),
         NEW p \in {u.pending, u.pending \cup {x}},
         w' = [InsertWork(u, x) EXCEPT !.pending = p]
  PROVE  /\ w' \in Queued /\ QueuedOnce'
         /\ NoCancelAll => PendingListed'
         /\ w'.armed = u.armed /\ w'.submitting = u.submitting
         /\ w'.attached = u.attached /\ w'.pending = p
<1>1. PICK l \in Seq(Work) : /\ InsertWork(u, x) = [u EXCEPT !.list = l]
                             /\ ToSet(l) = ToSet(u.list) \cup {x} /\ IsInjective(l)
  BY InsertWorkFacts
<1>2. w' = [[u EXCEPT !.list = l] EXCEPT !.pending = p]
  BY <1>1
<1>3. /\ w'.list = l /\ w'.current = u.current /\ w'.pending = p
      /\ w'.armed = u.armed /\ w'.submitting = u.submitting
      /\ w'.attached = u.attached /\ w' \in Queued
  <2>1. PICK v : v = [u EXCEPT !.list = l]
    OBVIOUS
  <2>2. /\ v \in Queued /\ v.list = l /\ v.current = u.current
        /\ v.armed = u.armed /\ v.submitting = u.submitting /\ v.attached = u.attached
    BY <2>1 DEF Queued
  <2>3. w' = [v EXCEPT !.pending = p] /\ p \in SUBSET Work
    BY <1>2, <2>1 DEF Queued
  <2> QED
    BY <2>2, <2>3 DEF Queued
<1>4. QueuedOnce'
  BY <1>1, <1>3 DEF QueuedOnce
<1>5. NoCancelAll => PendingListed'
  BY <1>1, <1>3 DEF PendingListed
<1> QED
  BY <1>3, <1>4, <1>5

LEMMA RemoveKeeps ==
  ASSUME QueueInv, NEW x \in Work, w' = RemoveWork(w, x)
  PROVE  QueueInv' /\ w'.armed = w.armed /\ w'.attached = w.attached
<1>1. PICK l \in Seq(Work) :
        /\ RemoveWork(w, x) = [w EXCEPT !.list = l, !.pending = w.pending \ {x}]
        /\ ToSet(l) = ToSet(w.list) \ {x} /\ IsInjective(l)
  BY RemoveWorkFacts DEF QueueInv, QueuedOnce
<1>2. /\ w'.list = l /\ w'.current = w.current /\ w'.pending = w.pending \ {x}
      /\ w'.armed = w.armed /\ w'.submitting = w.submitting
      /\ w'.attached = w.attached /\ w' \in Queued
  BY <1>1 DEF QueueInv, Queued
<1>3. QueuedOnce'
  BY <1>1, <1>2 DEF QueueInv, QueuedOnce
<1>4. NoCancelAll => PendingListed'
  BY <1>1, <1>2 DEF QueueInv, PendingListed
<1>5. DelayedInv'
  BY <1>2 DEF QueueInv, DelayedInv
<1> QED
  BY <1>2, <1>3, <1>4, <1>5 DEF QueueInv

(* A work is submitted at once. *)
LEMMA PutKeeps ==
  ASSUME QueueInv, NEW x \in Work, x # w.current,
         NEW p \in {w.pending, w.pending \cup {x}},
         w' = [InsertWork(w, x) EXCEPT !.pending = p]
  PROVE  QueueInv' /\ w'.armed = w.armed /\ w'.attached = w.attached
<1>1. w \in Queued
  BY DEF QueueInv
<1>2. /\ w' \in Queued /\ QueuedOnce' /\ (NoCancelAll => PendingListed')
      /\ w'.armed = w.armed /\ w'.submitting = w.submitting
      /\ w'.attached = w.attached /\ w'.pending = p
  BY <1>1, InsertKeeps DEF QueueInv, QueuedOnce, PendingListed
<1>3. DelayedInv'
  BY <1>1, <1>2 DEF QueueInv, DelayedInv
<1> QED
  BY <1>2, <1>3 DEF QueueInv

(* Only flags change, and no work becomes pending. *)
LEMMA FlagsKeep ==
  ASSUME QueueInv, w' \in Queued, w'.list = w.list, w'.current = w.current,
         w'.pending \subseteq w.pending, DelayedInv'
  PROVE  QueueInv'
BY DEF QueueInv, QueuedOnce, PendingListed
-----------------------------------------------------------------------------
(* Where the thread that steps is. *)
LEMMA AtWork ==
  ASSUME IInv, NEW t \in Thread, NEW l, At(t, l)
  PROVE  /\ pc[t] = l /\ Local(t) /\ l \in Location
         /\ w \in Queued /\ w.list \in Seq(Work)
         /\ l = "sched" => then[t] \in Resting
         /\ l \notin CancelLoc \cup {"sched"} => then[t] = "user"
BY DEF IInv, QueueInv, Queued, ControlInv, Local, At

(* A step that touches nothing the queue has. *)
LEMMA QueueSame == QueueInv /\ w' = w => QueueInv'
BY DEF QueueInv, QueuedOnce, PendingListed, DelayedInv

(* The threads' own steps: rt_schedule, sleeping, and the clock.           *)
LEMMA RescheduleKeeps ==
  ASSUME IInv, NEW t \in Thread, Reschedule(t), UNCHANGED <<w, arg, astray>>
  PROVE  IInv'
<1>1. At(t, "sched") /\ pc' = [pc EXCEPT ![t] = then[t]] /\ then' = [then EXCEPT ![t] = "user"]
  BY DEF Reschedule, Goto, Then
<1>2. then[t] \in Resting
  BY <1>1, AtWork DEF CancelLoc
<1>3. then[t] \in Outside /\ "user" \in Resting
  BY <1>2 DEF Resting, Location, CancelLoc, Walking, Outside
<1>4. ControlInv'
  BY <1>1, <1>3, GoesOn DEF IInv, OwnerOnly
<1> QED
  BY <1>4, QueueSame DEF IInv

LEMMA SleepKeeps ==
  ASSUME IInv, NEW t \in Thread, Sleep(t) \/ SleepReturn(t), UNCHANGED <<w, arg, astray>>
  PROVE  IInv'
<1>1. CASE Sleep(t)
  <2>1. pc' = [pc EXCEPT ![t] = "sched"] /\ then' = [then EXCEPT ![t] = "woken"]
    BY <1>1 DEF Sleep, Goto, Then
  <2>2. ControlInv'
    BY <2>1, GoesOn DEF IInv, OwnerOnly, Location, Outside, CancelLoc, Walking, Resting
  <2> QED
    BY <2>2, QueueSame DEF IInv
<1>2. CASE SleepReturn(t)
  <2>1. At(t, "woken") /\ pc' = [pc EXCEPT ![t] = "user"] /\ then' = then
    BY <1>2 DEF SleepReturn, Goto
  <2>2. pc[t] = "woken"
    BY <2>1, AtWork
  <2>3. ControlInv'
    BY <2>1, <2>2, GoesTo DEF IInv, OwnerOnly, Location, Outside, CancelLoc, Walking
  <2> QED
    BY <2>3, QueueSame DEF IInv
<1> QED
  BY <1>1, <1>2

LEMMA ClockKeeps ==
  ASSUME IInv, Clock \/ \E t \in Thread : Expire(t)
  PROVE  IInv'
<1>1. w' = w /\ arg' = arg /\ astray' = astray /\ pc' = pc /\ then' = then
  BY DEF Clock, Expire, Tick, TickEnd, TimerExpire
<1>2. ControlInv'
  BY <1>1, StandsStill DEF IInv
<1> QED
  BY <1>1, <1>2, QueueSame DEF IInv
-----------------------------------------------------------------------------
(* Where WakeOrReturn sends a thread. *)
LEMMA WakeFacts ==
  ASSUME NEW t, WakeOrReturn(t)
  PROVE  \E l \in {"resume", "user"} : pc' = [pc EXCEPT ![t] = l]
BY DEF WakeOrReturn, Goto

(* _workqueue_submit_work and rt_workqueue_critical_work. *)
LEMMA SubmitKeeps ==
  ASSUME IInv, NEW t \in Thread, NEW x \in Work, Submit(t, x) \/ CriticalWork(t, x)
  PROVE  IInv'
<1>1. /\ At(t, "user") /\ x # w.current /\ WakeOrReturn(t)
      /\ then' = then /\ arg' = arg /\ astray' = astray
  BY DEF Submit, CriticalWork, MaySubmit, May, Refused
<1>2. w \in Queued /\ pc[t] = "user"
  BY <1>1, AtWork DEF CancelLoc
<1>3. \E p \in {w.pending, w.pending \cup {x}} : w' = [InsertWork(w, x) EXCEPT !.pending = p]
  <2>1. InsertWork(w, x) = [InsertWork(w, x) EXCEPT !.pending = w.pending]
    BY <1>2 DEF InsertWork, Queued
  <2>2. InsertWork(w, x).pending = w.pending
    BY <1>2 DEF InsertWork, Queued
  <2>3. CASE Submit(t, x)
    BY <2>2, <2>3 DEF Submit
  <2>4. CASE CriticalWork(t, x)
    BY <2>1, <2>4 DEF CriticalWork
  <2> QED
    BY <2>3, <2>4
<1>4. QueueInv' /\ w'.armed = w.armed /\ w'.attached = w.attached
  BY <1>1, <1>3, PutKeeps DEF IInv
<1>5. PICK l \in {"resume", "user"} : pc' = [pc EXCEPT ![t] = l]
  BY <1>1, WakeFacts
<1>6. ControlInv'
  BY <1>1, <1>2, <1>4, <1>5, GoesTo DEF IInv, OwnerOnly, Location, Outside, CancelLoc, Walking
<1> QED
  BY <1>1, <1>4, <1>6 DEF IInv

(* rt_thread_resume of the worker. *)
LEMMA ResumeKeeps ==
  ASSUME IInv, NEW t \in Thread, ResumeCheck(t) \/ ResumeTake(t) \/ ResumeInsert(t)
  PROVE  IInv'
<1>1. /\ w' = w /\ arg' = arg /\ then' = then
      /\ astray' = astray \/ astray' = "thread"
      /\ pc[t] \in {"resume", "take", "insert"}
      /\ \/ pc' = pc
         \/ \E l \in {"take", "insert", "sched"} : pc' = [pc EXCEPT ![t] = l]
  BY DEF ResumeCheck, ResumeTake, ResumeInsert, Goto, At
<1>2. ControlInv'
  BY <1>1, StandsStill, GoesTo DEF IInv, OwnerOnly, Location, Outside, CancelLoc, Walking
<1> QED
  BY <1>1, <1>2, QueueSame DEF IInv

(* The cancellations that take the work out of the list. *)
LEMMA CancelKeeps ==
  ASSUME IInv, NEW t \in Thread, NEW x \in Work, CancelWork(t, x) \/ CancelSync(t, x)
  PROVE  IInv'
<1>1. /\ At(t, "user") /\ w' = RemoveWork(w, x) /\ astray' = astray
      /\ pc' = pc /\ then' = then
      /\ arg' = arg \/ arg' = [arg EXCEPT ![t].work = x]
  BY DEF CancelWork, CancelSync, May, About
<1>2. QueueInv' /\ w'.armed = w.armed /\ w'.attached = w.attached
  BY <1>1, RemoveKeeps DEF IInv
<1>3. pc[t] = "user"
  BY <1>1, AtWork
<1>4. ControlInv'
  <2>1. CASE arg' = arg
    BY <1>1, <1>2, <2>1, StandsStill DEF IInv
  <2>2. CASE arg' = [arg EXCEPT ![t].work = x]
    <3>1. Others(t) /\ OwnerOnly(t) /\ arg' \in [Thread -> Args]
      BY <1>1, <1>2, <2>2 DEF IInv, ControlInv, Others, OwnerOnly, Args
    <3>2. Local(t)'
      BY <1>1, <1>3 DEF IInv, ControlInv, Local, CancelLoc, Walking
    <3> QED
      BY <1>1, <3>1, <3>2, ControlKeeps DEF IInv, ControlInv
  <2> QED
    BY <1>1, <2>1, <2>2
<1> QED
  BY <1>1, <1>2, <1>4 DEF IInv

(* What follows a node in the list. *)
LEMMA NextInFacts ==
  ASSUME NEW s \in Seq(Work), NEW x \in Work \cup {None}
  PROVE  /\ NextIn(s, x) \in Work \cup {None}
         /\ x \in ToSet(s) => NextIn(s, x) \in ToSet(s) \cup {None}
         /\ x \in ToSet(s) /\ IsInjective(s) => NextIn(s, x) # x
<1>1. CASE x \notin ToSet(s)
  BY <1>1 DEF NextIn
<1>2. CASE x \in ToSet(s) /\ x = Last(s)
  <2>1. x \in Work
    BY <1>2, ElementOfSeq, LenProperties DEF ToSet
  <2> QED
    BY <1>2, <2>1, WorkQueueAssumption DEF NextIn
<1>3. CASE x \in ToSet(s) /\ x # Last(s)
  <2> DEFINE P(i) == s[i] = x
  <2>1. Len(s) \in Nat /\ DOMAIN s = 1 .. Len(s) /\ \A i \in 1 .. Len(s) : s[i] \in Work
    BY LenProperties, ElementOfSeq
  <2>2. PICK i \in 1 .. Len(s) : P(i)
    BY <1>3, <2>1 DEF ToSet
  <2>3. i \in 1 .. Len(s) - 1
    BY <1>3, <2>1, <2>2 DEF Last
  <2>4. PICK n : n = CHOOSE j \in 1 .. Len(s) - 1 : P(j)
    OBVIOUS
  <2>5. n \in 1 .. Len(s) - 1 /\ P(n)
    BY <2>2, <2>3, <2>4
  <2>6. NextIn(s, x) = s[1 + n]
    BY <1>3, <2>4 DEF NextIn
  <2>7. 1 + n \in 1 .. Len(s) /\ n \in 1 .. Len(s) /\ 1 + n # n
    BY <2>1, <2>5
  <2>8. s[1 + n] \in Work /\ s[1 + n] \in ToSet(s)
    BY <2>1, <2>7 DEF ToSet
  <2>9. IsInjective(s) => s[1 + n] # s[n]
    BY <2>1, <2>7 DEF IsInjective
  <2> QED
    BY <2>5, <2>6, <2>8, <2>9
<1> QED
  BY <1>1, <1>2, <1>3

(* The walk of rt_workqueue_cancel_all_work goes on to another place. *)
LEMMA WalkGoes ==
  ASSUME ControlInv, NEW t \in Thread, NEW l \in Walking, then[t] = "user",
         "all" \in Calls[t], pc' = [pc EXCEPT ![t] = l], then' = then,
         NEW x \in Args, arg' = [arg EXCEPT ![t] = x], OwnerOnly(t)
  PROVE  ControlInv'
<1>1. Others(t) /\ pc'[t] = l /\ then'[t] = "user"
  BY DEF ControlInv, Others
<1>2. /\ pc' \in [Thread -> Location] /\ then' \in [Thread -> Location]
      /\ arg' \in [Thread -> Args]
  BY DEF ControlInv, Walking, Location
<1>3. Local(t)'
  BY <1>1 DEF Local, CancelLoc, Walking
<1> QED
  BY <1>1, <1>2, <1>3, ControlKeeps

LEMMA CancelAllKeeps ==
  ASSUME IInv, NEW t \in Thread, CancelAll(t)
  PROVE  IInv'
<1>1. /\ At(t, "user") /\ "all" \in Calls[t] /\ w' = w
      /\ pc' = [pc EXCEPT ![t] = "first"]
      /\ then' = then /\ arg' = arg /\ astray' = astray
  BY DEF CancelAll, May, Goto
<1>2. then[t] = "user"
  BY <1>1, AtWork DEF CancelLoc
<1>3. arg' = [arg EXCEPT ![t] = arg[t]] /\ arg[t] \in Args
  BY <1>1 DEF IInv, ControlInv
<1>4. ControlInv'
  BY <1>1, <1>2, <1>3, WalkGoes DEF IInv, OwnerOnly, Walking
<1> QED
  BY <1>1, <1>4, QueueSame DEF IInv

(* The steps that read the list, and the end of the walk. *)
LEMMA WalkReadsKeep ==
  ASSUME IInv, NEW t \in Thread, WalkFirst(t) \/ WalkNext(t) \/ WalkEnd(t)
  PROVE  IInv'
<1>1. /\ w' = w /\ then' = then /\ astray' = astray
      /\ \E l \in {"first", "walk"} : At(t, l)
  BY DEF WalkFirst, WalkNext, WalkEnd
<1>2. /\ pc[t] \in Walking /\ then[t] = "user" /\ "all" \in Calls[t]
      /\ w.list \in Seq(Work) /\ arg \in [Thread -> Args] /\ OwnerOnly(t)
  <2>1. PICK l \in {"first", "walk"} : At(t, l)
    BY <1>1
  <2>2. pc[t] = l /\ Local(t) /\ w.list \in Seq(Work) /\ then[t] = "user"
    BY <2>1, AtWork DEF CancelLoc
  <2> QED
    BY <1>1, <2>2 DEF Local, Walking, IInv, ControlInv, OwnerOnly
<1>3. CASE WalkEnd(t)
  <2>1. arg' = arg /\ pc' = [pc EXCEPT ![t] = "sched"]
    BY <1>3 DEF WalkEnd, Goto
  <2>2. "user" \in Resting /\ "sched" \in Outside /\ then' = [then EXCEPT ![t] = "user"]
    BY <1>1, <1>2 DEF Resting, Outside, Location, CancelLoc, Walking, IInv, ControlInv
  <2>3. ControlInv'
    BY <1>1, <1>2, <2>1, <2>2, GoesOn DEF IInv
  <2> QED
    BY <1>1, <2>3, QueueSame DEF IInv
<1>4. CASE WalkFirst(t)
  <2> DEFINE h == IF w.list = << >> THEN None ELSE Head(w.list)
  <2>1. arg' = [arg EXCEPT ![t] = [arg[t] EXCEPT !.work = h]] /\ pc' = [pc EXCEPT ![t] = "walk"]
    BY <1>4 DEF WalkFirst, About, Goto
  <2>2. h \in Work \cup {None}
    BY <1>2
  <2> HIDE DEF h
  <2>3. [arg[t] EXCEPT !.work = h] \in Args
    BY <1>2, <2>2 DEF Args
  <2>4. ControlInv'
    BY <1>1, <1>2, <2>1, <2>3, WalkGoes DEF IInv, Walking
  <2> QED
    BY <1>1, <2>4, QueueSame DEF IInv
<1>5. CASE WalkNext(t)
  <2>1. PICK n : n = NextIn(w.list, arg[t].work)
    OBVIOUS
  <2>2. arg' = [arg EXCEPT ![t] = [arg[t] EXCEPT !.next = n]] /\ pc' = [pc EXCEPT ![t] = "unlink"]
    BY <1>5, <2>1 DEF WalkNext, Goto
  <2>3. n \in Work \cup {None}
    <3>1. arg[t].work \in Work \cup {None}
      BY <1>2 DEF Args
    <3> QED
      BY <1>2, <2>1, <3>1, NextInFacts
  <2>4. [arg[t] EXCEPT !.next = n] \in Args
    BY <1>2, <2>3 DEF Args
  <2>5. ControlInv'
    BY <1>1, <1>2, <2>2, <2>4, WalkGoes DEF IInv, Walking
  <2> QED
    BY <1>1, <2>5, QueueSame DEF IInv
<1> QED
  BY <1>3, <1>4, <1>5

(* The one that unlinks a work: its flag stays. *)
LEMMA WalkUnlinkKeeps ==
  ASSUME IInv, NEW t \in Thread, WalkUnlink(t)
  PROVE  IInv'
<1> DEFINE x == arg[t].work
<1>1. /\ At(t, "unlink") /\ then' = then /\ astray' = astray
      /\ w' = [w EXCEPT !.list = Without(w.list, x)]
      /\ arg' = [arg EXCEPT ![t].work = arg[t].next, ![t].next = None]
      /\ pc' = [pc EXCEPT ![t] = "walk"]
  BY DEF WalkUnlink, Goto
<1>2. /\ w \in Queued /\ w.list \in Seq(Work) /\ IsInjective(w.list)
      /\ then[t] = "user" /\ "all" \in Calls[t] /\ arg \in [Thread -> Args]
  <2>1. pc[t] = "unlink" /\ Local(t) /\ w \in Queued /\ w.list \in Seq(Work) /\ then[t] = "user"
    BY <1>1, AtWork DEF CancelLoc
  <2> QED
    BY <2>1 DEF Local, Walking, IInv, ControlInv, QueueInv, QueuedOnce
<1>3. PICK l : l = Without(w.list, x)
  OBVIOUS
<1>4. l \in Seq(Work) /\ ToSet(l) = ToSet(w.list) \ {x} /\ IsInjective(l)
  BY <1>2, <1>3, ListWithout
<1>5. /\ w'.list = l /\ w'.current = w.current /\ w'.pending = w.pending
      /\ w'.armed = w.armed /\ w'.submitting = w.submitting
      /\ w'.attached = w.attached /\ w' \in Queued
  BY <1>1, <1>2, <1>3, <1>4 DEF Queued
<1>6. QueueInv'
  BY <1>2, <1>4, <1>5 DEF IInv, QueueInv, QueuedOnce, DelayedInv, NoCancelAll
<1>7. PICK r \in Args : arg' = [arg EXCEPT ![t] = r]
  <2>1. [arg[t] EXCEPT !.work = arg[t].next, !.next = None] \in Args
    BY <1>2 DEF Args
  <2>2. arg' = [arg EXCEPT ![t] = [arg[t] EXCEPT !.work = arg[t].next, !.next = None]]
    BY <1>1, <1>2 DEF Args
  <2> QED
    BY <2>1, <2>2
<1>8. ControlInv'
  BY <1>1, <1>2, <1>5, <1>7, WalkGoes DEF IInv, OwnerOnly, Walking
<1> QED
  BY <1>1, <1>6, <1>8 DEF IInv
-----------------------------------------------------------------------------
(* The calls about delayed works.  A step of their owner in the middle of  *)
(* one: it goes to l, then[t] becomes m, its local variables r.            *)
LEMMA OwnerGoes ==
  ASSUME ControlInv, NEW t \in Thread, NEW l \in CancelLoc \cup {"attach", "user"},
         NEW m \in Location, NEW r \in Args,
         pc' = [pc EXCEPT ![t] = l], then' = [then EXCEPT ![t] = m],
         arg' = [arg EXCEPT ![t] = r], OwnerOnly(t),
         l \in CancelLoc => m \in {"user", "attach"},
         l \notin CancelLoc => m = "user",
         r.work \in Delayed, Owner[r.work] = t,
         l = "detach" => r.work \notin w'.armed,
         l = "attach" => r.work \notin w'.attached
  PROVE  ControlInv'
<1>1. Others(t) /\ pc'[t] = l /\ then'[t] = m /\ arg'[t] = r
  BY DEF ControlInv, Others
<1>2. l \in Location \ (Walking \cup {"sched"})
  BY DEF Location, CancelLoc, Walking
<1>3. /\ pc' \in [Thread -> Location] /\ then' \in [Thread -> Location]
      /\ arg' \in [Thread -> Args]
  BY <1>2 DEF ControlInv
<1>4. Local(t)'
  BY <1>1, <1>2 DEF Local
<1> QED
  BY <1>1, <1>3, <1>4, ControlKeeps

(* The thread in the middle of such a call. *)
LEMMA AtCancel ==
  ASSUME IInv, NEW t \in Thread, NEW l \in CancelLoc \cup {"attach"}, At(t, l)
  PROVE  /\ pc[t] = l /\ arg[t] \in Args
         /\ arg[t].work \in Delayed /\ Owner[arg[t].work] = t /\ arg[t].work \in Work
         /\ l \in CancelLoc => then[t] \in {"user", "attach"}
         /\ l = "attach" => arg[t].work \notin w.attached /\ then[t] = "user"
         /\ l = "detach" => arg[t].work \notin w.armed
         /\ pc = [pc EXCEPT ![t] = pc[t]] /\ then = [then EXCEPT ![t] = then[t]]
         /\ arg = [arg EXCEPT ![t] = arg[t]]
         /\ then[t] \in Location /\ w \in Queued /\ DelayedInv
<1>1. pc[t] = l /\ Local(t) /\ w \in Queued
  BY AtWork
<1>2. /\ pc \in [Thread -> Location] /\ then \in [Thread -> Location]
      /\ arg \in [Thread -> Args] /\ DelayedInv
  BY DEF IInv, ControlInv, QueueInv
<1> QED
  BY <1>1, <1>2, WorkQueueAssumption DEF Local, CancelLoc

(* A call about a delayed work begins. *)
LEMMA BeginKeeps ==
  ASSUME IInv, NEW t \in Thread, NEW x \in Work, SubmitDelayed(t, x) \/ CancelDelayed(t, x)
  PROVE  IInv'
<1>1. PICK r : r = [arg[t] EXCEPT !.work = x]
  OBVIOUS
<1>2. /\ At(t, "user") /\ x \in Delayed /\ t = Owner[x] /\ arg' = [arg EXCEPT ![t] = r]
      /\ w' = w /\ astray' = astray
      /\ \/ /\ pc' = [pc EXCEPT ![t] = "cancel"] /\ then' = [then EXCEPT ![t] = "attach"]
         \/ /\ pc' = [pc EXCEPT ![t] = "attach"] /\ then' = then /\ x \notin w.attached
         \/ /\ pc' = [pc EXCEPT ![t] = "cancel"] /\ then' = then
  BY <1>1 DEF SubmitDelayed, CancelDelayed, May, About, Goto, Then, IInv, QueueInv, DelayedInv
<1>3. /\ then[t] = "user" /\ "user" \in Location /\ "attach" \in Location
      /\ then = [then EXCEPT ![t] = "user"]
  BY <1>2, AtWork DEF IInv, ControlInv, CancelLoc, Location
<1>4. r \in Args /\ r.work = x
  BY <1>1 DEF IInv, ControlInv, Args
<1>5. OwnerOnly(t)
  BY <1>2 DEF OwnerOnly
<1>6. "cancel" \in CancelLoc /\ "attach" \notin CancelLoc
  BY DEF CancelLoc
<1>7. ControlInv'
  <2>1. CASE pc' = [pc EXCEPT ![t] = "cancel"] /\ then' = [then EXCEPT ![t] = "attach"]
    BY <1>2, <1>3, <1>4, <1>5, <1>6, <2>1, OwnerGoes DEF IInv
  <2>2. CASE pc' = [pc EXCEPT ![t] = "attach"] /\ then' = then /\ x \notin w.attached
    BY <1>2, <1>3, <1>4, <1>5, <1>6, <2>2, OwnerGoes DEF IInv
  <2>3. CASE pc' = [pc EXCEPT ![t] = "cancel"] /\ then' = then
    BY <1>2, <1>3, <1>4, <1>5, <1>6, <2>3, OwnerGoes DEF IInv
  <2> QED
    BY <1>2, <2>1, <2>2, <2>3
<1> QED
  BY <1>2, <1>7, QueueSame DEF IInv

(* The tests of the two flags; a pending work makes the call nest. *)
LEMMA TestKeeps ==
  ASSUME IInv, NEW t \in Thread, PendingTest(t) \/ TimerTest(t)
  PROVE  IInv'
<1>1. /\ w' = w /\ then' = then /\ astray' \in {astray, "stack"}
      /\ \E j \in {"cancel", "timer"} : At(t, j)
      /\ \/ /\ pc' = [pc EXCEPT ![t] = "timer"] /\ arg' = arg
         \/ /\ pc' = [pc EXCEPT ![t] = "stop"] /\ arg' = arg
         \/ /\ pc' = [pc EXCEPT ![t] = "detach"] /\ arg' = arg
            /\ arg[t].work \notin w.submitting
         \/ pc' = pc /\ arg' = arg /\ pc[t] = "cancel"
         \/ /\ pc' = pc /\ pc[t] = "cancel" /\ arg[t].depth < MaxDepth
            /\ arg' = [arg EXCEPT ![t] = [arg[t] EXCEPT !.depth = arg[t].depth + 1]]
  BY DEF PendingTest, TimerTest, Goto, At
<1>2. OwnerOnly(t)
  BY <1>1 DEF OwnerOnly
<1>3. /\ arg[t] \in Args
      /\ arg[t].work \in Delayed /\ Owner[arg[t].work] = t /\ then[t] \in {"user", "attach"}
      /\ pc = [pc EXCEPT ![t] = pc[t]] /\ then = [then EXCEPT ![t] = then[t]]
      /\ arg = [arg EXCEPT ![t] = arg[t]] /\ then[t] \in Location /\ DelayedInv
  BY <1>1, AtCancel DEF CancelLoc
<1>4. PICK r \in Args : arg' = [arg EXCEPT ![t] = r] /\ r.work = arg[t].work
  <2>1. CASE arg' = arg
    BY <1>3, <2>1
  <2>2. CASE /\ arg[t].depth < MaxDepth
             /\ arg' = [arg EXCEPT ![t] = [arg[t] EXCEPT !.depth = arg[t].depth + 1]]
    <3>1. arg[t].depth + 1 \in 0 .. MaxDepth
      BY <1>3, <2>2, WorkQueueAssumption DEF Args
    <3>2. PICK n : n = arg[t].depth + 1
      OBVIOUS
    <3>3. [arg[t] EXCEPT !.depth = n] \in Args /\ [arg[t] EXCEPT !.depth = n].work = arg[t].work
      BY <1>3, <3>1, <3>2 DEF Args
    <3> QED
      BY <2>2, <3>2, <3>3
  <2> QED
    BY <1>1, <2>1, <2>2
<1>5. PICK l \in CancelLoc : /\ pc' = [pc EXCEPT ![t] = l]
                             /\ l = "detach" => arg[t].work \notin w.armed
  BY <1>1, <1>3 DEF DelayedInv, CancelLoc
<1>6. ControlInv'
  <2>1. l # "attach"
    BY DEF CancelLoc
  <2> QED
    BY <1>1, <1>2, <1>3, <1>4, <1>5, <2>1, OwnerGoes DEF IInv
<1> QED
  BY <1>1, <1>6, QueueSame DEF IInv

LEMMA StopTimerKeeps ==
  ASSUME IInv, NEW t \in Thread, StopTimer(t)
  PROVE  IInv'
<1> DEFINE x == arg[t].work
<1>1. /\ At(t, "stop") /\ arg' = arg /\ then' = then /\ astray' = astray
      /\ pc' = [pc EXCEPT ![t] = "detach"]
      /\ w' = [w EXCEPT !.armed = w.armed \ {x}, !.submitting = w.submitting \ {x}]
  BY DEF StopTimer, Goto
<1>2. /\ arg[t] \in Args /\ x \in Delayed /\ Owner[x] = t /\ then[t] \in {"user", "attach"}
      /\ then = [then EXCEPT ![t] = then[t]] /\ arg = [arg EXCEPT ![t] = arg[t]]
      /\ then[t] \in Location /\ w \in Queued /\ DelayedInv
  BY <1>1, AtCancel DEF CancelLoc
<1>3. /\ w' \in Queued /\ w'.list = w.list /\ w'.current = w.current
      /\ w'.pending = w.pending /\ w'.attached = w.attached
      /\ w'.armed = w.armed \ {x} /\ w'.submitting = w.submitting \ {x}
  BY <1>1, <1>2 DEF Queued
<1>4. QueueInv'
  BY <1>2, <1>3, FlagsKeep DEF IInv, DelayedInv
<1>5. "detach" \in CancelLoc
  BY DEF CancelLoc
<1>6. ControlInv'
  BY <1>1, <1>2, <1>3, <1>5, OwnerGoes DEF IInv, OwnerOnly
<1> QED
  BY <1>1, <1>4, <1>6 DEF IInv

(* The work loses its queue: it has no timer any more. *)
LEMMA DetachKeeps ==
  ASSUME IInv, NEW t \in Thread, Detach(t)
  PROVE  IInv'
<1> DEFINE x == arg[t].work
<1>1. /\ At(t, "detach") /\ astray' = astray
      /\ w' = [w EXCEPT !.attached = w.attached \ {x}, !.pending = w.pending \ {x}]
      /\ \/ /\ arg[t].depth > 0 /\ pc' = pc /\ then' = then
            /\ arg' = [arg EXCEPT ![t] = [arg[t] EXCEPT !.depth = arg[t].depth - 1]]
         \/ /\ arg' = arg
            /\ pc' = [pc EXCEPT ![t] = then[t]] /\ then' = [then EXCEPT ![t] = "user"]
  BY DEF Detach, Goto, Then
<1>2. /\ arg[t] \in Args /\ x \in Delayed /\ Owner[x] = t /\ x \notin w.armed
      /\ pc = [pc EXCEPT ![t] = "detach"] /\ then = [then EXCEPT ![t] = then[t]]
      /\ arg = [arg EXCEPT ![t] = arg[t]] /\ then[t] \in {"user", "attach"}
      /\ then[t] \in Location /\ "user" \in Location /\ w \in Queued /\ DelayedInv
  BY <1>1, AtCancel DEF CancelLoc, Location
<1>3. /\ w' \in Queued /\ w'.list = w.list /\ w'.current = w.current
      /\ w'.pending = w.pending \ {x} /\ w'.attached = w.attached \ {x}
      /\ w'.armed = w.armed /\ w'.submitting = w.submitting
  BY <1>1, <1>2 DEF Queued
<1>4. QueueInv'
  BY <1>2, <1>3, FlagsKeep DEF IInv, DelayedInv
<1>5. "detach" \in CancelLoc /\ then[t] \notin CancelLoc
  BY <1>2 DEF CancelLoc
<1>6. OwnerOnly(t)
  BY <1>3 DEF OwnerOnly
<1>7. PICK r \in Args : arg' = [arg EXCEPT ![t] = r] /\ r.work = x
  <2>1. CASE /\ arg[t].depth > 0
             /\ arg' = [arg EXCEPT ![t] = [arg[t] EXCEPT !.depth = arg[t].depth - 1]]
    <3>1. PICK n : n = arg[t].depth - 1
      OBVIOUS
    <3>2. n \in 0 .. MaxDepth
      BY <1>2, <2>1, <3>1, WorkQueueAssumption DEF Args
    <3>3. [arg[t] EXCEPT !.depth = n] \in Args /\ [arg[t] EXCEPT !.depth = n].work = x
      BY <1>2, <3>2 DEF Args
    <3> QED
      BY <2>1, <3>1, <3>3
  <2>2. CASE arg' = arg
    BY <1>2, <2>2
  <2> QED
    BY <1>1, <2>1, <2>2
<1> HIDE DEF x
<1>8. ControlInv'
  <2>1. CASE pc' = pc /\ then' = then
    BY <1>2, <1>3, <1>5, <1>6, <1>7, <2>1, OwnerGoes DEF IInv
  <2>2. CASE pc' = [pc EXCEPT ![t] = then[t]] /\ then' = [then EXCEPT ![t] = "user"]
    BY <1>2, <1>3, <1>5, <1>6, <1>7, <2>2, OwnerGoes DEF IInv
  <2> QED
    BY <1>1, <2>1, <2>2
<1> QED
  BY <1>1, <1>4, <1>8 DEF IInv

(* The work gets its queue: it enters the list or its timer is started. *)
LEMMA AttachKeeps ==
  ASSUME IInv, NEW t \in Thread, Attach(t)
  PROVE  IInv'
<1> DEFINE x == arg[t].work
           u == [w EXCEPT !.attached = w.attached \cup {x}]
<1>1. /\ At(t, "attach") /\ arg' = arg /\ then' = then /\ astray' = astray
      /\ \E l \in {"resume", "user"} : pc' = [pc EXCEPT ![t] = l]
      /\ \/ w' = u
         \/ /\ ~Refused(x)
            /\ w' = [InsertWork(u, x) EXCEPT !.pending = InsertWork(u, x).pending \cup {x}]
         \/ w' = [u EXCEPT !.submitting = u.submitting \cup {x},
                           !.armed = u.armed \cup {x}]
  BY DEF Attach, Goto
<1>2. /\ pc[t] = "attach" /\ x \in Delayed /\ Owner[x] = t /\ x \in Work
      /\ x \notin w.attached /\ then[t] = "user"
      /\ w \in Queued /\ DelayedInv
  BY <1>1, AtCancel DEF CancelLoc
<1> HIDE DEF x
<1>3. x \notin w.armed
  BY <1>2 DEF DelayedInv
<1>4. /\ u \in Queued /\ u.list = w.list /\ u.current = w.current
      /\ u.pending = w.pending /\ u.attached = w.attached \cup {x}
      /\ u.armed = w.armed /\ u.submitting = w.submitting
  BY <1>2 DEF Queued
<1>5. QueueInv' /\ w'.armed \subseteq w.armed \cup {x} /\ w'.attached = w.attached \cup {x}
  <2>1. CASE w' = u
    BY <1>2, <1>3, <1>4, <2>1, FlagsKeep DEF IInv, DelayedInv
  <2>2. CASE /\ ~Refused(x)
             /\ w' = [InsertWork(u, x) EXCEPT !.pending = InsertWork(u, x).pending \cup {x}]
    <3>1. InsertWork(u, x).pending = u.pending
      BY <1>4 DEF InsertWork, Queued
    <3>2. w' = [InsertWork(u, x) EXCEPT !.pending = u.pending \cup {x}]
      BY <2>2, <3>1
    <3>3. /\ IsInjective(u.list) /\ u.current \notin ToSet(u.list) /\ x # u.current
          /\ NoCancelAll => u.pending \subseteq ToSet(u.list)
      BY <1>4, <2>2 DEF Refused, IInv, QueueInv, QueuedOnce, PendingListed
    <3> HIDE DEF u
    <3>4. /\ w' \in Queued /\ QueuedOnce' /\ (NoCancelAll => PendingListed')
          /\ w'.armed = u.armed /\ w'.submitting = u.submitting
          /\ w'.attached = u.attached /\ w'.pending = u.pending \cup {x}
      BY <1>2, <1>4, <3>2, <3>3, InsertKeeps
    <3>5. DelayedInv'
      BY <1>2, <1>3, <1>4, <3>4 DEF DelayedInv
    <3> QED
      BY <1>4, <3>4, <3>5 DEF QueueInv
  <2>3. CASE w' = [u EXCEPT !.submitting = u.submitting \cup {x}, !.armed = u.armed \cup {x}]
    <3> HIDE DEF u
    <3>1. /\ w' \in Queued /\ w'.list = w.list /\ w'.current = w.current
          /\ w'.pending = w.pending /\ w'.attached = w.attached \cup {x}
          /\ w'.armed = w.armed \cup {x} /\ w'.submitting = w.submitting \cup {x}
      BY <1>2, <1>4, <2>3 DEF Queued
    <3>2. DelayedInv'
      BY <1>2, <1>3, <3>1 DEF DelayedInv
    <3> QED
      BY <3>1, <3>2, FlagsKeep DEF IInv
  <2> QED
    BY <1>1, <2>1, <2>2, <2>3
<1>6. OwnerOnly(t)
  BY <1>2, <1>5 DEF OwnerOnly
<1>7. ControlInv'
  BY <1>1, <1>2, <1>6, GoesTo DEF IInv, Location, Outside, CancelLoc, Walking
<1> QED
  BY <1>1, <1>5, <1>7 DEF IInv

(* The timer function: the work it submits is attached. *)
LEMMA WorkTimeoutKeeps ==
  ASSUME IInv, NEW x \in Delayed, WorkTimeout(x)
  PROVE  IInv'
<1> DEFINE u == [w EXCEPT !.armed = w.armed \ {x}, !.submitting = w.submitting \ {x}]
<1>1. /\ x \in w.armed /\ pc' = pc /\ then' = then /\ arg' = arg
      /\ \/ w' = u
         \/ /\ ~Refused(x)
            /\ w' = [InsertWork(u, x) EXCEPT !.pending = InsertWork(u, x).pending \cup {x}]
      /\ astray' \in {IF x \in w.attached THEN "no" ELSE "queue", "list"}
  BY DEF WorkTimeout
<1>2. w \in Queued /\ DelayedInv /\ x \in Work /\ x \in w.attached
  BY <1>1, WorkQueueAssumption DEF IInv, QueueInv, DelayedInv
<1>3. /\ u \in Queued /\ u.list = w.list /\ u.current = w.current
      /\ u.pending = w.pending /\ u.attached = w.attached
      /\ u.armed = w.armed \ {x} /\ u.submitting = w.submitting \ {x}
  BY <1>2 DEF Queued
<1> HIDE DEF u
<1>4. QueueInv' /\ w'.armed \subseteq w.armed /\ w'.attached = w.attached
  <2>1. CASE w' = u
    BY <1>2, <1>3, <2>1, FlagsKeep DEF IInv, DelayedInv
  <2>2. CASE /\ ~Refused(x)
             /\ w' = [InsertWork(u, x) EXCEPT !.pending = InsertWork(u, x).pending \cup {x}]
    <3>1. InsertWork(u, x).pending = u.pending
      BY <1>3 DEF InsertWork, Queued
    <3>2. w' = [InsertWork(u, x) EXCEPT !.pending = u.pending \cup {x}]
      BY <2>2, <3>1
    <3>3. /\ IsInjective(u.list) /\ u.current \notin ToSet(u.list) /\ x # u.current
          /\ NoCancelAll => u.pending \subseteq ToSet(u.list)
      BY <1>3, <2>2 DEF Refused, IInv, QueueInv, QueuedOnce, PendingListed
    <3>4. /\ w' \in Queued /\ QueuedOnce' /\ (NoCancelAll => PendingListed')
          /\ w'.armed = u.armed /\ w'.submitting = u.submitting
          /\ w'.attached = u.attached /\ w'.pending = u.pending \cup {x}
      BY <1>2, <1>3, <3>2, <3>3, InsertKeeps
    <3>5. DelayedInv'
      BY <1>2, <1>3, <3>4 DEF DelayedInv
    <3> QED
      BY <1>3, <3>4, <3>5 DEF QueueInv
  <2> QED
    BY <1>1, <2>1, <2>2
<1>5. ControlInv'
  BY <1>1, <1>4, StandsStill DEF IInv
<1> QED
  BY <1>1, <1>2, <1>4, <1>5 DEF IInv
-----------------------------------------------------------------------------
(* The loop of the worker, but for the list it takes a work from. *)
LEMMA WorkerKeeps ==
  ASSUME IInv, WorkerTest \/ WorkerSuspend \/ Acknowledge
  PROVE  IInv'
<1>1. /\ w' = w /\ arg' = arg /\ astray' = astray
      /\ pc[Worker] \in {"check", "suspend", "ack"}
      /\ \/ then' = then /\ \E l \in {"suspend", "fetch"} : pc' = [pc EXCEPT ![Worker] = l]
         \/ /\ pc' = [pc EXCEPT ![Worker] = "sched"]
            /\ \E m \in {"fetch", "check"} : then' = [then EXCEPT ![Worker] = m]
  BY DEF WorkerTest, WorkerSuspend, Acknowledge, Goto, Then, At
<1>2. Worker \in Thread
  BY WorkQueueAssumption
<1>3. OwnerOnly(Worker)
  BY <1>1 DEF OwnerOnly
<1>4. CASE then' = then /\ \E l \in {"suspend", "fetch"} : pc' = [pc EXCEPT ![Worker] = l]
  <2>1. ControlInv'
    BY <1>1, <1>2, <1>3, <1>4, GoesTo DEF IInv, Location, Outside, CancelLoc, Walking
  <2> QED
    BY <1>1, <2>1, QueueSame DEF IInv
<1>5. CASE /\ pc' = [pc EXCEPT ![Worker] = "sched"]
           /\ \E m \in {"fetch", "check"} : then' = [then EXCEPT ![Worker] = m]
  <2>1. ControlInv'
    BY <1>1, <1>2, <1>3, <1>5, GoesOn DEF IInv, Location, Outside, CancelLoc, Walking, Resting
  <2> QED
    BY <1>1, <2>1, QueueSame DEF IInv
<1> QED
  BY <1>1, <1>4, <1>5

(* The first work leaves the list, loses its flag and runs. *)
LEMMA FetchKeeps ==
  ASSUME IInv, Fetch
  PROVE  IInv'
<1>1. Worker \in Thread /\ At(Worker, "fetch") /\ arg' = arg /\ then' = then
  BY WorkQueueAssumption DEF Fetch
<1>2. /\ w \in Queued /\ w.list \in Seq(Work) /\ IsInjective(w.list)
      /\ DelayedInv /\ pc[Worker] = "fetch"
  BY <1>1, AtWork DEF IInv, QueueInv, QueuedOnce
<1>3. CASE astray' = "work" /\ pc' = pc /\ w' = w
  <2>1. ControlInv'
    BY <1>1, <1>3, StandsStill DEF IInv
  <2> QED
    BY <1>3, <2>1, QueueSame DEF IInv
<1>4. CASE /\ w.list # << >> /\ astray' = astray /\ pc' = [pc EXCEPT ![Worker] = "user"]
           /\ w' = [w EXCEPT !.list = Tail(w.list), !.current = Head(w.list),
                             !.pending = w.pending \ {Head(w.list)}]
  <2>1. PICK l, x : l = Tail(w.list) /\ x = Head(w.list)
    OBVIOUS
  <2>2. /\ l \in Seq(Work) /\ x \in Work /\ ToSet(l) = ToSet(w.list) \ {x}
        /\ IsInjective(l)
    BY <1>2, <1>4, <2>1, ListTail
  <2>3. w' = [w EXCEPT !.list = l, !.current = x, !.pending = w.pending \ {x}]
    BY <1>4, <2>1
  <2>4. /\ w' \in Queued /\ w'.list = l /\ w'.current = x
        /\ w'.pending = w.pending \ {x} /\ w'.armed = w.armed
        /\ w'.submitting = w.submitting /\ w'.attached = w.attached
    BY <1>2, <2>2, <2>3 DEF Queued
  <2>5. QueuedOnce' /\ (NoCancelAll => PendingListed') /\ DelayedInv'
    BY <1>2, <2>2, <2>4 DEF IInv, QueueInv, QueuedOnce, PendingListed, DelayedInv
  <2>6. ControlInv'
    BY <1>1, <1>2, <1>4, <2>4, GoesTo DEF IInv, OwnerOnly, Location, Outside, CancelLoc, Walking
  <2> QED
    BY <1>4, <2>4, <2>5, <2>6 DEF IInv, QueueInv
<1> QED
  BY <1>3, <1>4 DEF Fetch, Goto

(* The work function has returned. *)
LEMMA ReturnKeeps ==
  ASSUME IInv, WorkReturn
  PROVE  IInv'
<1>1. /\ Worker \in Thread /\ At(Worker, "user") /\ arg' = arg /\ then' = then
      /\ astray' = astray /\ pc' = [pc EXCEPT ![Worker] = "ack"]
      /\ w' = [w EXCEPT !.current = None]
  BY WorkQueueAssumption DEF WorkReturn, Goto
<1>2. w \in Queued /\ w.list \in Seq(Work) /\ pc[Worker] = "user"
  BY <1>1, AtWork
<1>3. None \notin ToSet(w.list)
  <2>1. ToSet(w.list) \subseteq Work
    BY <1>2 DEF ToSet
  <2> QED
    BY <2>1, WorkQueueAssumption
<1>4. /\ w' \in Queued /\ w'.list = w.list /\ w'.current = None
      /\ w'.pending = w.pending /\ w'.armed = w.armed
      /\ w'.submitting = w.submitting /\ w'.attached = w.attached
  BY <1>1, <1>2 DEF Queued
<1>5. QueueInv'
  BY <1>3, <1>4 DEF IInv, QueueInv, QueuedOnce, PendingListed, DelayedInv
<1>6. ControlInv'
  BY <1>1, <1>2, <1>4, GoesTo DEF IInv, OwnerOnly, Location, Outside, CancelLoc, Walking
<1> QED
  BY <1>1, <1>5, <1>6 DEF IInv
-----------------------------------------------------------------------------
LEMMA InitIInv == Init => IInv
<1> SUFFICES ASSUME Init PROVE IInv
  OBVIOUS
<1>1. PICK x \in Work :
        w = [list |-> << >>, current |-> x, pending |-> {}, submitting |-> {},
             armed |-> {}, attached |-> Delayed \cap {x}]
  BY DEF Init
<1>2. << >> \in Seq(Work) /\ IsInjective(<< >>) /\ ToSet(<< >>) = {}
  BY EmptySeq DEF IsInjective, ToSet
<1>3. QueueInv
  BY <1>1, <1>2, WorkQueueAssumption
     DEF QueueInv, Queued, QueuedOnce, PendingListed, DelayedInv
<1>4. ControlInv
  BY <1>1, WorkQueueAssumption
     DEF Init, AllAsleep, ControlInv, Local, Location, CancelLoc, Walking, Args
<1> QED
  BY <1>3, <1>4 DEF Init, IInv

LEMMA StepIInv == IInv /\ [Next]_vars => IInv'
<1> SUFFICES ASSUME IInv, [Next]_vars PROVE IInv'
  OBVIOUS
<1>1. CASE UNCHANGED vars
  BY <1>1 DEF vars, IInv, QueueInv, QueuedOnce, PendingListed, DelayedInv,
              ControlInv, Local
<1>2. ASSUME NEW t \in Thread, KernelCode(t) PROVE IInv'
  <2>1. CASE t = Worker /\ WorkerStep
    BY <2>1, WorkerKeeps, FetchKeeps DEF WorkerStep
  <2>2. CASE ResumeCheck(t) \/ ResumeTake(t) \/ ResumeInsert(t)
    BY <2>2, ResumeKeeps
  <2>3. CASE PendingTest(t) \/ TimerTest(t)
    BY <2>3, TestKeeps
  <2>4. CASE Attach(t)
    BY <2>4, AttachKeeps
  <2>5. CASE WalkFirst(t) \/ WalkNext(t) \/ WalkUnlink(t) \/ WalkEnd(t)
    BY <2>5, WalkReadsKeep, WalkUnlinkKeeps
  <2>6. CASE StopTimer(t)
    BY <2>6, StopTimerKeeps
  <2>7. CASE Detach(t)
    BY <2>7, DetachKeeps
  <2>8. CASE (Reschedule(t) \/ SleepReturn(t)) /\ UNCHANGED <<w, arg, astray>>
    BY <2>8, RescheduleKeeps, SleepKeeps
  <2> QED
    BY <1>2, <2>1, <2>2, <2>3, <2>4, <2>5, <2>6, <2>7, <2>8 DEF KernelCode
<1>3. ASSUME NEW t \in Thread, CallStep(t) PROVE IInv'
  <2>1. ASSUME NEW x \in Work, Submit(t, x) \/ CriticalWork(t, x) PROVE IInv'
    BY <2>1, SubmitKeeps
  <2>2. ASSUME NEW x \in Work, CancelWork(t, x) \/ CancelSync(t, x) PROVE IInv'
    BY <2>2, CancelKeeps
  <2>3. ASSUME NEW x \in Work, SubmitDelayed(t, x) \/ CancelDelayed(t, x) PROVE IInv'
    BY <2>3, BeginKeeps
  <2>4. CASE CancelAll(t)
    BY <2>4, CancelAllKeeps
  <2>5. CASE Sleep(t) /\ UNCHANGED <<w, arg, astray>>
    BY <2>5, SleepKeeps
  <2> QED
    BY <1>3, <2>1, <2>2, <2>3, <2>4, <2>5 DEF CallStep
<1>4. CASE Clock \/ \E t \in Thread : Expire(t)
  BY <1>4, ClockKeeps
<1>5. ASSUME NEW x \in Delayed, WorkTimeout(x) PROVE IInv'
  BY <1>5, WorkTimeoutKeeps
<1> QED
  BY <1>1, <1>2, <1>3, <1>4, <1>5, ReturnKeeps DEF Next

(* What holds of a work queue in every reachable state. *)
LEMMA Invariance == Spec => []IInv
BY InitIInv, StepIInv, PTL DEF Spec

(* However submissions, cancellations, timers and the worker interleave,   *)
(* InsertWork never links a work twice, nor one that runs: the guards of   *)
(* _workqueue_submit_work and rt_workqueue_critical_work are enough.       *)
THEOREM OnceQueued == Spec => []QueuedOnce
<1>1. IInv => QueuedOnce
  BY DEF IInv, QueueInv
<1> QED
  BY <1>1, Invariance, PTL

(* If nobody calls rt_workqueue_cancel_all_work, a work with the flag      *)
(* RT_WORK_STATE_PENDING is in the list: a submission is refused only for  *)
(* a work that will be run, or that runs.                                  *)
THEOREM FlagsListed ==
  ASSUME NoCancelAll
  PROVE  Spec => []PendingListed
<1>1. IInv => PendingListed
  BY NoCancelAll DEF IInv, QueueInv
<1> QED
  BY <1>1, Invariance, PTL

(* A delayed work whose timer runs has its queue: the timer function never *)
(* submits to RT_NULL, wherever its owner is in _workqueue_cancel_delayed_ *)
(* work or in a new submission.                                            *)
THEOREM TimersHaveQueue == Spec => []TimerFindsQueue
<1>1. IInv => TimerFindsQueue
  BY DEF IInv, QueueInv, DelayedInv, TimerFindsQueue
<1> QED
  BY <1>1, Invariance, PTL
-----------------------------------------------------------------------------
(* The works whose flag has outlived their place in the list.              *)
Forgotten(u) == u.pending \ ToSet(u.list)

LEMMA InsertForgets ==
  ASSUME NEW u \in Queued, IsInjective(u.list), NEW x \in Work,
         NEW p \in {u.pending, u.pending \cup {x}}, NEW v,
         v = [InsertWork(u, x) EXCEPT !.pending = p]
  PROVE  Forgotten(v) \subseteq Forgotten(u)
<1>1. PICK l \in Seq(Work) : /\ InsertWork(u, x) = [u EXCEPT !.list = l]
                             /\ ToSet(l) = ToSet(u.list) \cup {x}
  BY InsertWorkFacts
<1>2. PICK r : r = [u EXCEPT !.list = l]
  OBVIOUS
<1>3. r \in Queued /\ r.list = l
  BY <1>2 DEF Queued
<1>4. v = [r EXCEPT !.pending = p]
  BY <1>1, <1>2
<1>5. v.list = l /\ v.pending = p
  BY <1>3, <1>4 DEF Queued
<1> QED
  BY <1>1, <1>5 DEF Forgotten

(* The one for submissions, as the actions write them. *)
LEMMA SubmitForgets ==
  ASSUME NEW u \in Queued, IsInjective(u.list), NEW x \in Work, NEW v,
         v = [InsertWork(u, x) EXCEPT !.pending = @ \cup {x}]
  PROVE  Forgotten(v) \subseteq Forgotten(u)
<1>1. InsertWork(u, x).pending = u.pending
  BY DEF InsertWork, Queued
<1>2. v = [InsertWork(u, x) EXCEPT !.pending = u.pending \cup {x}]
  BY <1>1
<1> QED
  BY <1>2, InsertForgets

LEMMA RemoveForgets ==
  ASSUME NEW u \in Queued, IsInjective(u.list), NEW x
  PROVE  Forgotten(RemoveWork(u, x)) \subseteq Forgotten(u)
<1>1. PICK l \in Seq(Work) :
        /\ RemoveWork(u, x) = [u EXCEPT !.list = l, !.pending = u.pending \ {x}]
        /\ ToSet(l) = ToSet(u.list) \ {x} /\ IsInjective(l)
  BY RemoveWorkFacts, Zenon
<1>2. PICK v : v = RemoveWork(u, x)
  OBVIOUS
<1>3. v.list = l /\ v.pending = u.pending \ {x}
  BY <1>1, <1>2 DEF Queued
<1> QED
  BY <1>1, <1>2, <1>3 DEF Forgotten

LEMMA FetchForgets ==
  ASSUME NEW u \in Queued, IsInjective(u.list), u.list # << >>, NEW v,
         v = [u EXCEPT !.list = Tail(@), !.current = Head(u.list),
                       !.pending = @ \ {Head(u.list)}]
  PROVE  Forgotten(v) \subseteq Forgotten(u)
<1>1. PICK l, x : l = Tail(u.list) /\ x = Head(u.list)
  OBVIOUS
<1>2. u.list \in Seq(Work)
  BY DEF Queued
<1>3. ToSet(l) = ToSet(u.list) \ {x}
  BY <1>1, <1>2, ListTail
<1>4. v = [u EXCEPT !.list = l, !.current = x, !.pending = u.pending \ {x}]
  BY <1>1
<1>5. v.list = l /\ v.pending = u.pending \ {x}
  BY <1>4 DEF Queued
<1> QED
  BY <1>3, <1>5 DEF Forgotten

(* What a thread does, but for the walk's own step. *)
LEMMA KernelForgets ==
  ASSUME IInv, NEW t \in Thread, KernelCode(t), ~WalkUnlink(t)
  PROVE  Forgotten(w') \subseteq Forgotten(w)
<1> DEFINE x == arg[t].work
<1>1. w \in Queued /\ IsInjective(w.list)
  BY DEF IInv, QueueInv, QueuedOnce
<1>2. CASE w' = w
  BY <1>2
<1>3. CASE Fetch
  <2>1. \/ w' = w
        \/ /\ w.list # << >>
           /\ w' = [w EXCEPT !.list = Tail(@), !.current = Head(w.list),
                             !.pending = @ \ {Head(w.list)}]
    BY <1>3, Zenon DEF Fetch
  <2>2. CASE w' # w
    BY <1>1, <2>1, <2>2, FetchForgets, Zenon
  <2> QED
    BY <2>2
<1>4. CASE Attach(t)
  <2>1. x \in Work
    BY <1>4, WorkQueueAssumption DEF IInv, ControlInv, Local, Attach, At
  <2> DEFINE u == [w EXCEPT !.attached = @ \cup {x}]
  <2>2. /\ u \in Queued /\ u.list = w.list /\ u.pending = w.pending
    BY <1>1, <2>1 DEF Queued
  <2>3. \/ w' = u
        \/ w' = [InsertWork(u, x) EXCEPT !.pending = @ \cup {x}]
        \/ w' = [u EXCEPT !.submitting = @ \cup {x}, !.armed = @ \cup {x}]
    BY <1>4 DEF Attach
  <2> HIDE DEF u, x
  <2>4. CASE w' = [u EXCEPT !.submitting = @ \cup {x}, !.armed = @ \cup {x}]
    <3>1. w'.list = u.list /\ w'.pending = u.pending
      BY <2>2, <2>4 DEF Queued
    <3> QED
      BY <2>2, <3>1 DEF Forgotten
  <2>5. CASE w' = [InsertWork(u, x) EXCEPT !.pending = @ \cup {x}]
    <3>1. Forgotten(w') \subseteq Forgotten(u)
      BY <1>1, <2>1, <2>2, <2>5, SubmitForgets
    <3> QED
      BY <2>2, <3>1 DEF Forgotten
  <2> QED
    BY <2>2, <2>3, <2>4, <2>5 DEF Forgotten
<1>5. CASE StopTimer(t) \/ Detach(t)
  <2>1. w'.list = w.list /\ w'.pending \subseteq w.pending
    BY <1>1, <1>5 DEF StopTimer, Detach, Queued
  <2> QED
    BY <2>1 DEF Forgotten
<1> QED
  BY <1>2, <1>3, <1>4, <1>5
     DEF KernelCode, WorkerStep, WorkerTest, WorkerSuspend, Acknowledge, ResumeCheck,
         ResumeTake, ResumeInsert, WalkFirst, WalkNext, WalkEnd, PendingTest, TimerTest

LEMMA CallForgets ==
  ASSUME IInv, NEW t \in Thread, CallStep(t)
  PROVE  Forgotten(w') \subseteq Forgotten(w)
<1>1. w \in Queued /\ IsInjective(w.list)
  BY DEF IInv, QueueInv, QueuedOnce
<1>2. CASE w' = w
  BY <1>2
<1>3. ASSUME NEW x \in Work, Submit(t, x) PROVE Forgotten(w') \subseteq Forgotten(w)
  BY <1>1, <1>3, SubmitForgets DEF Submit
<1>4. ASSUME NEW x \in Work, CriticalWork(t, x) PROVE Forgotten(w') \subseteq Forgotten(w)
  <2>1. w' = InsertWork(w, x)
    BY <1>4 DEF CriticalWork
  <2>2. InsertWork(w, x) = [InsertWork(w, x) EXCEPT !.pending = w.pending]
    BY <1>1 DEF InsertWork, Queued
  <2> QED
    BY <1>1, <2>1, <2>2, InsertForgets
<1>5. ASSUME NEW x \in Work, CancelWork(t, x) \/ CancelSync(t, x)
      PROVE  Forgotten(w') \subseteq Forgotten(w)
  BY <1>1, <1>5, RemoveForgets DEF CancelWork, CancelSync
<1> QED
  BY <1>2, <1>3, <1>4, <1>5 DEF CallStep, SubmitDelayed, CancelDelayed, CancelAll

LEMMA TimeoutForgets ==
  ASSUME IInv, NEW x \in Delayed, WorkTimeout(x)
  PROVE  Forgotten(w') \subseteq Forgotten(w)
<1> DEFINE u == [w EXCEPT !.armed = @ \ {x}, !.submitting = @ \ {x}]
<1>1. w \in Queued /\ IsInjective(w.list) /\ x \in Work
  BY WorkQueueAssumption DEF IInv, QueueInv, QueuedOnce
<1>2. u \in Queued /\ u.list = w.list /\ u.pending = w.pending
  BY <1>1 DEF Queued
<1>3. w' = u \/ w' = [InsertWork(u, x) EXCEPT !.pending = @ \cup {x}]
  BY DEF WorkTimeout
<1> HIDE DEF u
<1>4. Forgotten(w') \subseteq Forgotten(u)
  BY <1>1, <1>2, <1>3, SubmitForgets
<1> QED
  BY <1>2, <1>4 DEF Forgotten

(* A pending work never leaves the list and keeps its flag, whatever calls,*)
(* timers and worker do, but for the walk of rt_workqueue_cancel_all_work. *)
THEOREM FlagsHonest == Spec => FlagFollows
<1> DEFINE Unlinks(x) == \E t \in Thread : At(t, "unlink") /\ arg[t].work = x
           Kept == \A x \in w'.pending \ ToSet(w'.list) :
                     x \in w.pending \ ToSet(w.list) \/ Unlinks(x)
<1>1. IInv /\ [Next]_vars => [Kept]_vars
  <2> SUFFICES ASSUME IInv, Next PROVE Kept
    OBVIOUS
  <2>1. CASE Forgotten(w') \subseteq Forgotten(w)
    BY <2>1 DEF Forgotten
  <2>2. ASSUME NEW t \in Thread, WalkUnlink(t) PROVE Kept
    <3> DEFINE n == arg[t].work
    <3>1. At(t, "unlink") /\ w' = [w EXCEPT !.list = Without(w.list, n)]
      BY <2>2 DEF WalkUnlink
    <3>2. w \in Queued /\ w.list \in Seq(Work) /\ IsInjective(w.list)
      BY DEF IInv, QueueInv, QueuedOnce, Queued
    <3>3. PICK l : l = Without(w.list, n)
      OBVIOUS
    <3>4. ToSet(l) = ToSet(w.list) \ {n}
      BY <3>2, <3>3, ListWithout
    <3>5. w'.list = l /\ w'.pending = w.pending
      BY <3>1, <3>2, <3>3 DEF Queued
    <3> QED
      BY <3>1, <3>4, <3>5
  <2>3. CASE WorkReturn
    <3>1. w'.list = w.list /\ w'.pending = w.pending
      BY <2>3 DEF WorkReturn, IInv, QueueInv, Queued
    <3> QED
      BY <3>1
  <2>4. CASE Clock \/ \E t \in Thread : Expire(t)
    BY <2>4 DEF Clock, Expire
  <2> QED
    BY <2>1, <2>2, <2>3, <2>4, KernelForgets, CallForgets, TimeoutForgets DEF Next
<1>2. [Kept]_vars => [\A x \in w'.pending \ ToSet(w'.list) :
                        \/ x \in w.pending \ ToSet(w.list)
                        \/ \E t \in Thread : At(t, "unlink") /\ arg[t].work = x]_vars
  OBVIOUS
<1> QED
  BY <1>1, <1>2, Invariance, PTL DEF Spec, FlagFollows
-----------------------------------------------------------------------------
(* The threads.  Waiters of queue->sem are suspended in the middle of      *)
(* rt_workqueue_cancel_work_sync; the worker runs no work between the end  *)
(* of one and the beginning of the next.                                   *)
Waits(t) == /\ t \in Thread \ {Worker} /\ k.stat[t] = "SUSPEND" /\ pc[t] = "user"
            /\ arg[t].work \in Work
            /\ arg[t].work = w.current \/ pc[Worker] = "ack"

BetweenWorks == \/ pc[Worker] \in {"check", "suspend", "fetch", "ack"}
                \/ pc[Worker] = "sched" /\ then[Worker] \in {"check", "fetch"}

(* The current thread is suspended only until it reaches rt_schedule. *)
CurrentInv == k.stat[k.current] = "SUSPEND" => pc[k.current] = "sched"

WorkerInv == /\ BetweenWorks => w.current = None
             /\ \A q \in Queue : Worker \notin ToSet(k.wait[q])

SyncInv == \A t \in ToSet(k.wait[Sem]) : Waits(t)

(* The threads are sound but for the scheduler lock.  It is held during a  *)
(* walk through the list, and only then: the walk is the current thread's, *)
(* and what it has read of the list is still there, each node once.        *)
Steady(kk) == /\ kk \in KernelState
              /\ Coherent(kk, {}) /\ TimedSuspended(kk)
              /\ \A t \in Thread : kk.stat[t] \in {"READY", "RUNNING", "SUSPEND"}
              /\ kk.stat[Idle] # "SUSPEND"

HasRead(t) ==
  /\ pc[t] = "walk" => arg[t].work \in ToSet(w.list) \cup {None}
  /\ pc[t] = "unlink" => /\ arg[t].work \in ToSet(w.list)
                         /\ arg[t].next \in (ToSet(w.list) \cup {None}) \ {arg[t].work}

WalkInv == /\ k.lock # 0 => k.lock = 1 /\ pc[k.current] \in Walking
           /\ \A t \in Thread : pc[t] \in Walking => t = k.current /\ k.lock = 1
           /\ \A t \in Thread : HasRead(t)

ThreadInv == /\ Steady(k) /\ WalkInv /\ CurrentInv /\ WorkerInv /\ SyncInv
             /\ slice \in [Thread -> Nat \ {0}] /\ isr \in {"none", "timers"}
             /\ astray \in {"no", "work", "thread", "queue", "stack", "list"}

(* What holds in every reachable state. *)
Whole == IInv /\ ThreadInv
-----------------------------------------------------------------------------
(* A section of code that suspends nobody, whether or not the scheduler is *)
(* locked: Settles without the lock.                                       *)
Steps(kk, s, S) ==
  /\ Steady(s)
  /\ \A q \in Queue : ToSet(s.wait[q]) = ToSet(kk.wait[q]) \ S
  /\ \A y \in Thread : s.stat[y] = "SUSPEND" <=> kk.stat[y] = "SUSPEND" /\ y \notin S
  /\ s.current # kk.current => s.stat[s.current] # "SUSPEND"

LEMMA SoundSteady ==
  ASSUME NEW kk
  PROVE  Sound(kk) <=> Steady(kk) /\ kk.lock = 0
BY DEF Sound, Steady

LEMMA SettlesSteps ==
  ASSUME NEW kk, NEW s, NEW S, Settles(kk, s, S)
  PROVE  Steps(kk, s, S) /\ s.lock = 0
BY DEF Settles, Steps, Sound, Steady

LEMMA StepsTrans ==
  ASSUME NEW kk, NEW s, NEW r, NEW S, NEW R, Steps(kk, s, S), Steps(s, r, R)
  PROVE  Steps(kk, r, S \cup R)
<1>1. s.current \in Thread /\ r.current \in Thread
  BY DEF Steps, Steady, KernelState
<1>2. r.current # kk.current => r.stat[r.current] # "SUSPEND"
  BY <1>1 DEF Steps
<1> QED
  BY <1>1, <1>2 DEF Steps

LEMMA WokenSteps ==
  ASSUME NEW kk, Steady(kk), NEW t \in Thread, NEW s \in KernelState,
         Coherent(s, {}), Woken(kk, s, t)
  PROVE  Steps(kk, s, {t}) /\ s.lock = kk.lock
<1>1. \A y \in Thread \ {t} : s.stat[y] = "SUSPEND" <=> kk.stat[y] = "SUSPEND"
  BY DEF Woken
<1>2. \A y \in Thread : s.stat[y] \in {"READY", "RUNNING", "SUSPEND"}
  BY DEF Steady, Woken
<1>3. kk.timer \in [Thread -> BOOLEAN]
  BY DEF Steady, KernelState
<1>4. \A y \in Thread : s.timer[y] => y # t /\ kk.timer[y]
  BY <1>3 DEF Woken
<1>5. TimedSuspended(s)
  BY <1>1, <1>4 DEF Steady, TimedSuspended
<1>6. s.stat[Idle] # "SUSPEND"
  BY <1>1, KernelAssumption DEF Steady, Woken
<1> QED
  BY <1>1, <1>2, <1>5, <1>6 DEF Steady, Steps, Woken

(* rt_schedule, which does nothing while the scheduler is locked.          *)
LEMMA ScheduleSteps ==
  ASSUME NEW kk, Steady(kk)
  PROVE  /\ Steps(kk, Schedule(kk), {}) /\ Schedule(kk).lock = kk.lock
         /\ kk.lock # 0 => Schedule(kk) = kk
<1>1. kk \in KernelState /\ Coherent(kk, {})
  BY DEF Steady
<1>2. kk.lock # 0 => Schedule(kk) = kk
  BY <1>1, ScheduleFacts
<1>3. CASE kk.lock = 0
  <2>1. Sound(kk)
    BY <1>3, SoundSteady
  <2>2. Settles(kk, Schedule(kk), {})
    BY <1>1, <2>1, ScheduleCalm, CalmSettles
  <2> QED
    BY <1>3, <2>2, SettlesSteps
<1>4. CASE kk.lock # 0
  <2>1. Steps(kk, kk, {})
    BY DEF Steps
  <2> QED
    BY <1>2, <1>4, <2>1
<1> QED
  BY <1>2, <1>3, <1>4

(* rt_thread_resume of the worker by the timer function.                   *)
LEMMA ResumeSteps ==
  ASSUME NEW kk, Steady(kk), NEW t \in Thread, NEW s, s = ThreadResume(kk, t)
  PROVE  \E S : Steps(kk, s, S) /\ s.lock = kk.lock /\ s.current = kk.current
<1>1. kk \in KernelState /\ Coherent(kk, {})
  BY DEF Steady
<1>2. CASE kk.stat[t] = "SUSPEND"
  <2>1. /\ s \in KernelState /\ Coherent(s, {}) /\ Woken(kk, s, t)
        /\ SameThreads(kk, s)
    BY <1>1, <1>2, ThreadResumeFacts
  <2> QED
    BY <2>1, WokenSteps DEF SameThreads
<1>3. CASE kk.stat[t] # "SUSPEND"
  <2>1. s = kk
    BY <1>3 DEF ThreadResume
  <2>2. Steps(kk, s, {})
    BY <2>1 DEF Steps
  <2> QED
    BY <2>1, <2>2
<1> QED
  BY <1>2, <1>3

(* rt_thread_timeout. *)
LEMMA TimeoutSteps ==
  ASSUME NEW kk, Steady(kk), NEW t \in Thread, kk.stat[t] = "SUSPEND",
         NEW s, s = ThreadTimeout(kk, t)
  PROVE  /\ Steps(kk, s, {t}) /\ s.lock = kk.lock
         /\ kk.lock # 0 => s.current = kk.current
<1>1. kk \in KernelState /\ Coherent(kk, {})
  BY DEF Steady
<1>2. Steps(kk, s, {t}) /\ s.lock = kk.lock
  <2>1. s \in KernelState /\ Coherent(s, {}) /\ Woken(kk, s, t)
    BY <1>1, ThreadTimeoutFacts
  <2> QED
    BY <2>1, WokenSteps
<1>3. kk.lock # 0 => s.current = kk.current
  <2> DEFINE u == Released(kk, t, "ETIMEOUT")
             v == ScheduleInsert(u, t)
  <2>1. s = Schedule(v)
    BY DEF ThreadTimeout, Released
  <2>2. Releases(kk, u, t, "ETIMEOUT")
    BY <1>1, ReleasedFacts DEF Errno
  <2> HIDE DEF u
  <2>3. /\ u \in KernelState /\ Coherent(u, {}) /\ ~Linked(u, t)
        /\ u.current = kk.current /\ u.lock = kk.lock /\ u.stat[t] # "READY"
    BY <2>2 DEF Releases, SameThreads
  <2>4. Coherent(u, {t})
    BY <2>3, CoherentWeaken
  <2>5. v \in KernelState /\ Coherent(v, {}) /\ v.current = u.current /\ v.lock = u.lock
    BY <2>3, <2>4, ScheduleInsertFacts DEF SameThreads
  <2> HIDE DEF v
  <2>6. v.lock # 0 => Schedule(v) = v
    BY <2>5, ScheduleFacts
  <2> QED
    BY <2>1, <2>3, <2>5, <2>6
<1> QED
  BY <1>2, <1>3
-----------------------------------------------------------------------------

(* _workqueue_work_completion wakes everybody in the list. *)
LEMMA ResumeOne ==
  ASSUME NEW kk \in KernelState, Sound(kk), NEW t \in Thread
  PROVE  /\ ThreadResume(kk, t) \in KernelState /\ Sound(ThreadResume(kk, t))
         /\ kk.stat[t] = "SUSPEND" => Settles(kk, ThreadResume(kk, t), {t})
<1>1. CASE kk.stat[t] # "SUSPEND"
  BY <1>1 DEF ThreadResume
<1>2. CASE kk.stat[t] = "SUSPEND"
  <2> DEFINE s == ThreadResume(kk, t)
  <2>1. Sound(s) /\ Wakes(kk, s, t)
    BY <1>2, ResumeWakes
  <2> HIDE DEF s
  <2>2. s \in KernelState /\ Settles(kk, s, {t})
    BY <2>1, WakesSettles DEF Sound
  <2> QED
    BY <2>1, <2>2 DEF s
<1> QED
  BY <1>1, <1>2

LEMMA ResumeOneMore ==
  ASSUME NEW kk, NEW s, NEW S, Settles(kk, s, S),
         NEW t \in Thread, kk.stat[t] = "SUSPEND", t \notin S
  PROVE  Settles(kk, ThreadResume(s, t), S \cup {t})
<1>1. s \in KernelState /\ Sound(s) /\ s.stat[t] = "SUSPEND"
  BY DEF Settles
<1>2. Settles(s, ThreadResume(s, t), {t})
  BY <1>1, ResumeOne
<1> QED
  BY <1>2, SettlesTrans

LEMMA ResumeEach ==
  ASSUME NEW kk \in KernelState, Sound(kk), NEW q \in Queue,
         \A t \in ToSet(kk.wait[q]) : kk.stat[t] = "SUSPEND"
  PROVE  Settles(kk, FoldLeft(ThreadResume, kk, kk.wait[q]), ToSet(kk.wait[q]))
<1> DEFINE s == kk.wait[q]
           D == SUBSET (1 .. Len(s))
           K == {x \in KernelState : Sound(x)}
           F == [x \in K \X Thread |-> ThreadResume(x[1], x[2])]
           Unfolds(g) == g = [x \in D |-> IF x = {} THEN kk
                                ELSE ThreadResume(g[x \ {Max(x)}], s[Max(x)])]
<1>1. /\ s \in Seq(Thread) /\ Len(s) \in Nat /\ DOMAIN s = 1 .. Len(s)
      /\ \A i \in 1 .. Len(s) : s[i] \in Thread
      /\ IsInjective(s)
  <2>1. s \in Seq(Thread) /\ IsInjective(s)
    BY DEF KernelState, Sound, Coherent, SingleLinkage
  <2> QED
    BY <2>1, LenProperties, ElementOfSeq
<1>2. \E g : Unfolds(g)
  <2>1. F \in [K \X Thread -> K] /\ kk \in K
    BY ResumeOne
  <2> HIDE DEF F, K
  <2>2. PICK f \in [D -> K] : \A x \in D : FoldStep(F, kk, s, f, x)
    BY <1>1, <2>1, FoldDefined
  <2>3. ASSUME NEW x \in D, x # {}
        PROVE  F[<<f[x \ {Max(x)}], s[Max(x)]>>] = ThreadResume(f[x \ {Max(x)}], s[Max(x)])
    <3>1. Max(x) \in 1 .. Len(s)
      BY <1>1, <2>3, GreatestFacts
    <3>2. f[x \ {Max(x)}] \in K /\ s[Max(x)] \in Thread
      BY <1>1, <2>2, <3>1
    <3> QED
      BY <3>2 DEF F
  <2>4. Unfolds(f)
    BY <2>2, <2>3 DEF FoldStep
  <2> QED
    BY <2>4
<1>3. PICK g : Unfolds(g) /\ FoldLeft(ThreadResume, kk, s) = g[1 .. Len(s)]
  <2>1. FoldLeft(ThreadResume, kk, s) = (CHOOSE g : Unfolds(g))[1 .. Len(s)]
    BY <1>1 DEF FoldLeft, MapThenFoldSet
  <2> QED
    BY <1>2, <2>1
<1> DEFINE Done(i) == {s[j] : j \in 1 .. i}
           S == {i \in 0 .. Len(s) : Settles(kk, g[1 .. i], Done(i))}
<1>4. 0 \in S
  <2>1. g[1 .. 0] = kk /\ Done(0) = {}
    BY <1>1, <1>3
  <2>2. Settles(kk, kk, {})
    BY DEF Settles
  <2>3. 0 \in 0 .. Len(s)
    BY <1>1
  <2> HIDE DEF Done, Unfolds, s, F, K
  <2> QED
    BY <2>1, <2>2, <2>3
<1>5. ASSUME NEW i \in 1 .. Len(s), i - 1 \in S
      PROVE  i \in S
  <2>1. g[1 .. i] = ThreadResume(g[1 .. i - 1], s[i])
    <3>1. 1 .. i \in D /\ 1 .. i # {}
      <4>1. 1 \in 1 .. i /\ \A x \in 1 .. i : x \in 1 .. Len(s)
        BY <1>1
      <4> QED
        BY <4>1
    <3>2. Max(1 .. i) = i
      <4>1. i \in Nat /\ 1 .. i \in SUBSET (1 .. i)
        OBVIOUS
      <4>2. Max(1 .. i) \in 1 .. i /\ \A p \in 1 .. i : p <= Max(1 .. i)
        BY <3>1, <4>1, GreatestFacts
      <4> QED
        BY <4>2
    <3>3. (1 .. i) \ {i} = 1 .. i - 1
      OBVIOUS
    <3> QED
      BY <1>3, <3>1, <3>2, <3>3
  <2>2. s[i] \notin Done(i - 1)
    <3>1. ASSUME NEW j \in 1 .. i - 1
          PROVE  s[j] # s[i]
      <4>1. j \in DOMAIN s /\ i \in DOMAIN s /\ j # i
        BY <1>1
      <4> HIDE DEF s
      <4> QED
        BY <1>1, <4>1 DEF IsInjective
    <3> QED
      BY <3>1
  <2>3. Done(i) = Done(i - 1) \cup {s[i]}
    OBVIOUS
  <2>4. kk.stat[s[i]] = "SUSPEND" /\ s[i] \in Thread
    BY <1>1 DEF ToSet
  <2> HIDE DEF Done, s
  <2> QED
    BY <1>5, <2>1, <2>2, <2>3, <2>4, ResumeOneMore
<1>6. Len(s) \in S
  <2> HIDE DEF S
  <2> QED
    BY <1>1, <1>4, <1>5, UpTo
<1>7. Done(Len(s)) = ToSet(s)
  BY <1>1 DEF ToSet
<1> QED
  BY <1>3, <1>6, <1>7
-----------------------------------------------------------------------------
(* The current thread at a place other than the way to rt_schedule is      *)
(* neither suspended nor a waiter.                                         *)
LEMMA AtThread ==
  ASSUME Whole, NEW t, NEW l, l # "sched", At(t, l)
  PROVE  /\ t \in Thread /\ t = k.current /\ isr = "none" /\ pc[t] = l
         /\ k \in KernelState /\ k.stat[t] # "SUSPEND"
         /\ t \notin ToSet(k.wait[Sem])
         /\ l \notin Walking => k.lock = 0 /\ Sound(k)
<1>1. t = k.current /\ isr = "none" /\ pc[t] = l
  BY DEF At
<1>2. k \in KernelState /\ t \in Thread
  BY <1>1 DEF Whole, ThreadInv, Steady, KernelState
<1>3. k.stat[t] # "SUSPEND"
  BY <1>1 DEF Whole, ThreadInv, CurrentInv
<1>4. l \notin Walking => k.lock = 0 /\ Sound(k)
  BY <1>1, SoundSteady DEF Whole, ThreadInv, WalkInv
<1> QED
  BY <1>1, <1>2, <1>3, <1>4 DEF Whole, ThreadInv, SyncInv, Waits

LEMMA WaitersThreads ==
  ASSUME NEW kk \in KernelState, NEW q \in Queue
  PROVE  ToSet(kk.wait[q]) \subseteq Thread
<1>1. kk.wait[q] \in Seq(Thread)
  BY DEF KernelState
<1> QED
  BY <1>1, ElementOfSeq, LenProperties DEF ToSet

(* Nobody enters a list, and who stays in the worker's stays suspended.    *)
NoneEnters ==
  /\ \A q \in Queue : ToSet(k'.wait[q]) \subseteq ToSet(k.wait[q])
  /\ \A y \in ToSet(k'.wait[Sem]) : k'.stat[y] = "SUSPEND"

(* The waiters do nothing. *)
WaitersStay == \A y \in ToSet(k.wait[Sem]) : pc'[y] = pc[y] /\ arg'[y] = arg[y]

(* The work they wait for still runs, or has just returned.                *)
StillRuns == \/ w'.current = w.current /\ (pc[Worker] = "ack" => pc'[Worker] = "ack")
             \/ pc'[Worker] = "ack"
             \/ ToSet(k'.wait[Sem]) = {}

Typed == /\ slice' \in [Thread -> Nat \ {0}] /\ isr' \in {"none", "timers"}
         /\ astray' \in {"no", "work", "thread", "queue", "stack", "list"}

(* Nobody begins or is in the middle of a walk. *)
LEMMA NoWalk ==
  ASSUME Whole, k.lock = 0, Sound(k'),
         \A y \in Thread : pc'[y] \in Walking => pc[y] \in Walking
  PROVE  Steady(k') /\ WalkInv'
<1>1. k'.lock = 0 /\ Steady(k')
  BY SoundSteady
<1>2. \A y \in Thread : pc[y] \notin Walking
  BY DEF Whole, ThreadInv, WalkInv
<1>3. \A y \in Thread : pc'[y] \notin Walking
  BY <1>2
<1>4. \A y \in Thread : HasRead(y)'
  BY <1>3 DEF HasRead, Walking
<1> QED
  BY <1>1, <1>3, <1>4 DEF WalkInv

LEMMA ThreadsKeep ==
  ASSUME Whole, IInv', Steady(k'), WalkInv', NoneEnters, WaitersStay, StillRuns, Typed,
         CurrentInv', (BetweenWorks => w.current = None)'
  PROVE  Whole'
<1>1. Sem \in Queue
  BY WorkQueueAssumption
<1>2. WorkerInv'
  BY DEF Whole, ThreadInv, WorkerInv, NoneEnters
<1>3. SyncInv'
  <2> SUFFICES ASSUME NEW y \in ToSet(k'.wait[Sem]) PROVE Waits(y)'
    BY DEF SyncInv
  <2>1. y \in ToSet(k.wait[Sem]) /\ k'.stat[y] = "SUSPEND"
    BY <1>1 DEF NoneEnters
  <2>2. Waits(y) /\ pc'[y] = pc[y] /\ arg'[y] = arg[y]
    BY <2>1 DEF Whole, ThreadInv, SyncInv, WaitersStay
  <2> QED
    BY <2>1, <2>2 DEF Waits, StillRuns
<1> QED
  BY <1>2, <1>3 DEF Whole, ThreadInv, Typed

(* A step that suspends nobody. *)
LEMMA StepsEnters ==
  ASSUME Whole, NEW S, Steps(k, k', S)
  PROVE  Steady(k') /\ NoneEnters
<1>1. /\ k \in KernelState /\ k' \in KernelState /\ Steady(k') /\ Sem \in Queue
      /\ \A q \in Queue : ToSet(k'.wait[q]) = ToSet(k.wait[q]) \ S
      /\ \A y \in Thread : k'.stat[y] = "SUSPEND" <=> k.stat[y] = "SUSPEND" /\ y \notin S
  BY WorkQueueAssumption DEF Whole, ThreadInv, Steady, Steps
<1>2. ASSUME NEW y \in ToSet(k'.wait[Sem])
      PROVE  k'.stat[y] = "SUSPEND"
  <2>1. y \in ToSet(k.wait[Sem]) /\ y \notin S
    BY <1>1
  <2>2. y \in Thread /\ k.stat[y] = "SUSPEND"
    BY <2>1 DEF Whole, ThreadInv, SyncInv, Waits
  <2> QED
    BY <1>1, <2>1, <2>2
<1> QED
  BY <1>1, <1>2 DEF NoneEnters

LEMMA StepsCurrent ==
  ASSUME Whole, NEW S, Steps(k, k', S),
         k.stat[k.current] = "SUSPEND" /\ k'.current = k.current => pc'[k.current] = "sched"
  PROVE  CurrentInv'
<1>1. k'.current \in Thread
  BY DEF Steps, Steady, KernelState
<1> QED
  BY <1>1 DEF Steps, CurrentInv

(* A step of t at l, behind which it is at no place of the worker's loop,  *)
(* and in no walk.                                                         *)
Elsewhere(t) == /\ pc'[t] \notin {"check", "suspend", "fetch", "ack"} \cup Walking
                /\ pc'[t] = "sched" => then'[t] \notin {"check", "fetch"}

LEMMA ThreadGoes ==
  ASSUME Whole, IInv', NEW t, NEW l, l \notin {"sched", "ack"} \cup Walking, At(t, l),
         Others(t), Elsewhere(t), NEW S, Settles(k, k', S),
         w'.current = w.current, Typed
  PROVE  Whole'
<1>1. /\ t \in Thread /\ t = k.current /\ pc[t] = l /\ k \in KernelState
      /\ k.stat[t] # "SUSPEND" /\ t \notin ToSet(k.wait[Sem]) /\ k.lock = 0
  BY AtThread
<1>2. Worker \in Thread /\ Sem \in Queue
  BY WorkQueueAssumption
<1>3. Steady(k') /\ WalkInv' /\ NoneEnters /\ CurrentInv'
  <2>1. Steps(k, k', S) /\ Sound(k')
    BY SettlesSteps DEF Settles
  <2>2. \A y \in Thread : pc'[y] \in Walking => pc[y] \in Walking
    BY DEF Others, Elsewhere
  <2> QED
    BY <1>1, <2>1, <2>2, StepsEnters, StepsCurrent, NoWalk
<1>4. WaitersStay
  BY <1>1, <1>2, WaitersThreads DEF WaitersStay, Others
<1>5. StillRuns
  BY <1>1, <1>2 DEF StillRuns, Others
<1>6. (BetweenWorks => w.current = None)'
  <2>1. CASE t = Worker
    BY <2>1 DEF Elsewhere, BetweenWorks
  <2>2. CASE t # Worker
    BY <1>2, <2>2 DEF Others, BetweenWorks, Whole, ThreadInv, WorkerInv
  <2> QED
    BY <2>1, <2>2
<1> QED
  BY <1>3, <1>4, <1>5, <1>6, ThreadsKeep

(* One that changes nothing of the kernel's. *)
LEMMA SameSteps ==
  ASSUME Whole, k' = k
  PROVE  Steps(k, k', {}) /\ (k.lock = 0 => Settles(k, k', {}))
BY SoundSteady DEF Steps, Settles, Whole, ThreadInv, Sound

LEMMA StatesTyped ==
  ASSUME Whole, slice' = slice, isr' = isr,
         astray' \in {astray, "work", "thread", "queue", "stack", "list"}
  PROVE  Typed
BY DEF Whole, ThreadInv, Typed
-----------------------------------------------------------------------------
(* Steps of a call that leave the kernel alone. *)
Changes(t, l, m, x) == /\ pc' = [pc EXCEPT ![t] = l] /\ then' = [then EXCEPT ![t] = m]
                       /\ arg' = [arg EXCEPT ![t] = x]

LEMMA ChangesOthers ==
  ASSUME ControlInv, NEW t \in Thread, NEW l, NEW m, NEW x, Changes(t, l, m, x)
  PROVE  Others(t) /\ pc'[t] = l /\ then'[t] = m
BY DEF ControlInv, Changes, Others

LEMMA Unmoved ==
  ASSUME ControlInv, NEW t \in Thread
  PROVE  /\ pc = [pc EXCEPT ![t] = pc[t]] /\ then = [then EXCEPT ![t] = then[t]]
         /\ arg = [arg EXCEPT ![t] = arg[t]]
BY DEF ControlInv

(* Where a step of a call leads: to places outside the worker's loop. *)
LEMMA CallKeeps ==
  ASSUME Whole, IInv', NEW t, NEW j, j \notin {"sched", "ack"} \cup Walking, At(t, j),
         NEW l, NEW m, NEW x, Changes(t, l, m, x),
         l \notin {"check", "suspend", "fetch", "ack"} \cup Walking,
         l = "sched" => m \notin {"check", "fetch"},
         k' = k, w'.current = w.current, slice' = slice, isr' = isr,
         astray' \in {astray, "work", "thread", "queue", "stack", "list"}
  PROVE  Whole'
<1>1. t \in Thread /\ k.lock = 0
  BY AtThread
<1>2. Others(t) /\ Elsewhere(t)
  BY <1>1, ChangesOthers DEF Whole, IInv, Elsewhere
<1>3. Settles(k, k', {}) /\ Typed
  BY <1>1, SameSteps, StatesTyped
<1> QED
  BY <1>2, <1>3, ThreadGoes

(* The work that runs is none of a list's business. *)
LEMMA SameCurrent ==
  ASSUME NEW u \in Queued, NEW x
  PROVE  /\ InsertWork(u, x).current = u.current
         /\ \A p : [InsertWork(u, x) EXCEPT !.pending = p].current = u.current
         /\ RemoveWork(u, x).current = u.current
BY DEF Queued, InsertWork, RemoveWork

LEMMA SubmitThreads ==
  ASSUME Whole, IInv', NEW t \in Thread, NEW x \in Work,
         Submit(t, x) \/ CriticalWork(t, x) \/ CancelWork(t, x)
  PROVE  Whole'
<1>1. /\ At(t, "user") /\ k' = k /\ then' = then /\ arg' = arg /\ astray' = astray
      /\ slice' = slice /\ isr' = isr
      /\ pc' = pc \/ WakeOrReturn(t)
      /\ \/ \E p : w' = [InsertWork(w, x) EXCEPT !.pending = p]
         \/ w' = InsertWork(w, x) \/ w' = RemoveWork(w, x)
  BY DEF Submit, CriticalWork, CancelWork, MaySubmit, May
<1>2. w'.current = w.current
  <2>1. w \in Queued
    BY DEF Whole, IInv, QueueInv
  <2>2. /\ InsertWork(w, x).current = w.current
        /\ \A p : [InsertWork(w, x) EXCEPT !.pending = p].current = w.current
        /\ RemoveWork(w, x).current = w.current
    BY <2>1, SameCurrent
  <2> QED
    BY <1>1, <2>2
<1>3. \E l \in {"user", "resume"} : pc' = [pc EXCEPT ![t] = l]
  BY <1>1, Unmoved DEF Whole, IInv, WakeOrReturn, Goto, At
<1>4. PICK l \in {"user", "resume"} : Changes(t, l, then[t], arg[t])
  BY <1>1, <1>3, Unmoved DEF Whole, IInv, Changes
<1> QED
  BY <1>1, <1>2, <1>4, CallKeeps DEF Walking

(* rt_thread_resume of the worker, before it touches it. *)
LEMMA ResumeCheckThreads ==
  ASSUME Whole, IInv', NEW t \in Thread, ResumeCheck(t)
  PROVE  Whole'
<1>1. /\ At(t, "resume") /\ k' = k /\ then' = then /\ arg' = arg /\ astray' = astray
      /\ slice' = slice /\ isr' = isr /\ w' = w
      /\ \E l \in {"take", "sched"} : pc' = [pc EXCEPT ![t] = l]
  BY DEF ResumeCheck, Goto
<1>2. then[t] = "user"
  BY <1>1, AtWork DEF Whole, CancelLoc
<1>3. PICK l \in {"take", "sched"} : Changes(t, l, "user", arg[t])
  BY <1>1, <1>2, Unmoved DEF Whole, IInv, Changes
<1> QED
  BY <1>1, <1>3, CallKeeps DEF Walking

(* The calls about delayed works. *)
LEMMA DelayedThreads ==
  ASSUME Whole, IInv', NEW t \in Thread,
         \/ \E x \in Work : SubmitDelayed(t, x) \/ CancelDelayed(t, x)
         \/ PendingTest(t) \/ TimerTest(t) \/ StopTimer(t) \/ Detach(t) \/ Attach(t)
  PROVE  Whole'
<1> DEFINE calls == {"user", "cancel", "timer", "stop", "detach", "attach", "resume"}
           y     == arg[t].work
<1>1. \E j \in {"user", "cancel", "timer", "stop", "detach", "attach"} : At(t, j)
  BY DEF SubmitDelayed, CancelDelayed, May, PendingTest, TimerTest, StopTimer, Detach, Attach
<1>2. k' = k /\ slice' = slice /\ isr' = isr /\ astray' \in {astray, "stack"}
  BY DEF SubmitDelayed, CancelDelayed, PendingTest, TimerTest, StopTimer, Detach, Attach
<1>3. w'.current = w.current
  <2>1. w \in Queued
    BY DEF Whole, IInv, QueueInv
  <2>2. CASE w' = w
    BY <2>2
  <2>3. CASE StopTimer(t) \/ Detach(t)
    BY <2>1, <2>3 DEF StopTimer, Detach, Queued
  <2>4. CASE Attach(t)
    <3>1. PICK u : u = [w EXCEPT !.attached = w.attached \cup {y}]
      OBVIOUS
    <3>2. u.current = w.current /\ [u EXCEPT !.submitting = u.submitting \cup {y},
                                             !.armed = u.armed \cup {y}].current = u.current
      BY <2>1, <3>1 DEF Queued
    <3>3. \A p : [InsertWork(u, y) EXCEPT !.pending = p].current = w.current
      BY <2>1, <3>1 DEF InsertWork, Queued
    <3>4. \/ w' = u \/ w' = [u EXCEPT !.submitting = u.submitting \cup {y},
                                      !.armed = u.armed \cup {y}]
          \/ \E p : w' = [InsertWork(u, y) EXCEPT !.pending = p]
      BY <2>4, <3>1 DEF Attach
    <3> QED
      BY <3>2, <3>3, <3>4
  <2> QED
    BY <2>2, <2>3, <2>4 DEF SubmitDelayed, CancelDelayed, PendingTest, TimerTest
<1>4. \E l \in calls : \E m, x : Changes(t, l, m, x)
  <2>1. /\ pc = [pc EXCEPT ![t] = pc[t]] /\ then = [then EXCEPT ![t] = then[t]]
        /\ arg = [arg EXCEPT ![t] = arg[t]]
    BY Unmoved DEF Whole, IInv
  <2>2. ASSUME NEW x \in Work, SubmitDelayed(t, x) \/ CancelDelayed(t, x)
        PROVE  \E l \in calls : \E m, r : Changes(t, l, m, r)
    <3>1. PICK r : r = [arg[t] EXCEPT !.work = x]
      OBVIOUS
    <3>2. arg' = [arg EXCEPT ![t] = r]
      BY <2>2, <3>1 DEF SubmitDelayed, CancelDelayed, About
    <3>3. \E l \in calls : pc' = [pc EXCEPT ![t] = l]
      BY <2>2 DEF SubmitDelayed, CancelDelayed, Goto
    <3>4. \E m : then' = [then EXCEPT ![t] = m]
      BY <2>1, <2>2 DEF SubmitDelayed, CancelDelayed, Then
    <3> QED
      BY <3>2, <3>3, <3>4 DEF Changes
  <2>3. CASE TimerTest(t) \/ StopTimer(t)
    BY <2>1, <2>3 DEF TimerTest, StopTimer, Goto, Changes
  <2>4. CASE PendingTest(t) \/ Detach(t)
    <3>1. /\ \E m : then' = [then EXCEPT ![t] = m]
          /\ \E l \in calls : pc' = [pc EXCEPT ![t] = l]
      <4>1. CASE PendingTest(t)
        BY <2>1, <4>1 DEF PendingTest, Goto, At
      <4>2. CASE Detach(t)
        <5>1. then[t] \in {"user", "attach"}
          BY <4>2, AtCancel DEF Detach, Whole, CancelLoc
        <5> QED
          BY <2>1, <4>2, <5>1 DEF Detach, Goto, Then, At
      <4> QED
        BY <2>4, <4>1, <4>2
    <3>2. \/ arg' = arg
          \/ \E n : arg' = [arg EXCEPT ![t] = [arg[t] EXCEPT !.depth = n]]
      BY <2>4 DEF PendingTest, Detach
    <3>3. \E r : arg' = [arg EXCEPT ![t] = r]
      BY <2>1, <3>2
    <3> QED
      BY <3>1, <3>3 DEF Changes
  <2>5. CASE Attach(t)
    BY <2>1, <2>5 DEF Attach, Goto, Changes
  <2> QED
    BY <2>2, <2>3, <2>4, <2>5
<1>5. PICK j \in {"user", "cancel", "timer", "stop", "detach", "attach"} : At(t, j)
  BY <1>1
<1>6. PICK l \in calls : \E m, x : Changes(t, l, m, x)
  BY <1>4
<1>7. PICK m, x : Changes(t, l, m, x)
  BY <1>6
<1>8. /\ l \notin {"check", "suspend", "fetch", "ack"} \cup Walking /\ l # "sched"
      /\ j \notin {"sched", "ack"} \cup Walking
  BY <1>5, <1>6 DEF Walking
<1> QED
  BY <1>2, <1>3, <1>5, <1>7, <1>8, CallKeeps
-----------------------------------------------------------------------------
(* rt_thread_resume takes the sleeping worker out of its timer, and makes  *)
(* it ready; it is in no list.                                             *)
LEMMA ResumeThreads ==
  ASSUME Whole, IInv', NEW t \in Thread, ResumeTake(t) \/ ResumeInsert(t)
  PROVE  Whole'
<1>1. /\ w' = w /\ arg' = arg /\ then' = then /\ slice' = slice /\ isr' = isr
      /\ \/ At(t, "take") /\ pc' \in {pc, [pc EXCEPT ![t] = "insert"]}
         \/ At(t, "insert") /\ pc' \in {pc, [pc EXCEPT ![t] = "sched"]}
      /\ \/ k' = k /\ astray' = "thread"
         \/ k.stat[Worker] = "SUSPEND" /\ k' = ResumeUnlink(k, Worker) /\ astray' = astray
         \/ /\ k.stat[Worker] = "SUSPEND" /\ ~k.timer[Worker]
            /\ k' = ScheduleInsert(k, Worker) /\ astray' = astray
  BY DEF ResumeTake, ResumeInsert, Goto
<1>2. /\ k \in KernelState /\ Sound(k) /\ Worker \in Thread
      /\ \A q \in Queue : Worker \notin ToSet(k.wait[q])
  BY <1>1, AtThread, WorkQueueAssumption DEF Whole, ThreadInv, WorkerInv, Walking
<1>3. \E S : Settles(k, k', S)
  <2>1. CASE k' = k
    BY <1>2, <2>1, SameSteps DEF Sound
  <2>2. CASE k.stat[Worker] = "SUSPEND" /\ k' = ResumeUnlink(k, Worker)
    <3>1. k.stat[Worker] \notin {"READY", "RUNNING"} /\ Coherent(k, {})
      BY <1>2, <2>2 DEF Sound
    <3>2. /\ k' \in KernelState /\ SameThreads(k, k') /\ k'.stat = k.stat
          /\ k'.timer = [k.timer EXCEPT ![Worker] = FALSE]
          /\ \A q \in Queue : ToSet(k'.wait[q]) = ToSet(k.wait[q]) \ {Worker}
          /\ Coherent(k', {})
      BY <1>2, <2>2, <3>1, ResumeUnlinkFacts
    <3>3. \A y \in Thread : k'.timer[y] => k.timer[y]
      BY <1>2, <3>2 DEF KernelState
    <3>4. Sound(k')
      BY <1>2, <3>2, <3>3 DEF Sound, SameThreads, TimedSuspended
    <3>5. Settles(k, k', {})
      BY <1>2, <3>2, <3>3, <3>4 DEF Settles, SameThreads
    <3> QED
      BY <3>5
  <2>3. CASE /\ k.stat[Worker] = "SUSPEND" /\ ~k.timer[Worker]
             /\ k' = ScheduleInsert(k, Worker)
    <3>1. Coherent(k, {}) /\ k.stat[Worker] # "READY"
      BY <1>2, <2>3 DEF Sound
    <3>2. ~Linked(k, Worker) /\ Coherent(k, {Worker})
      <4>1. \A p \in Prio : Worker \notin ToSet(k.ready[p])
        BY <1>2, <3>1, ReadyOnlyThere
      <4> QED
        BY <1>2, <3>1, <4>1, CoherentWeaken DEF Linked
    <3>3. /\ k' \in KernelState /\ SameThreads(k, k')
          /\ k'.stat = [k.stat EXCEPT ![Worker] = IF Worker = k.current THEN "RUNNING"
                                                                       ELSE "READY"]
          /\ k'.timer = k.timer /\ k'.wait = k.wait
          /\ Coherent(k', {})
      BY <1>2, <2>3, <3>2, ScheduleInsertFacts
    <3>4. \A y \in Thread : k'.stat[y] = IF y # Worker THEN k.stat[y]
                                        ELSE IF Worker = k.current THEN "RUNNING" ELSE "READY"
      BY <1>2, <3>3 DEF KernelState
    <3>5. Sound(k')
      BY <1>2, <2>3, <3>3, <3>4, KernelAssumption DEF Sound, SameThreads, TimedSuspended
    <3>6. Settles(k, k', {Worker})
      BY <1>2, <3>3, <3>4, <3>5 DEF Settles, SameThreads
    <3> QED
      BY <3>6
  <2> QED
    BY <1>1, <2>1, <2>2, <2>3
<1>4. PICK j \in {"take", "insert"} : At(t, j) /\ pc' \in {pc, [pc EXCEPT ![t] = "insert"],
                                                          [pc EXCEPT ![t] = "sched"]}
  BY <1>1
<1>5. Typed
  BY <1>1, StatesTyped
<1>6. pc[t] = j /\ then[t] = "user"
  BY <1>4, AtWork DEF Whole, CancelLoc
<1>7. Others(t) /\ Elsewhere(t)
  BY <1>1, <1>4, <1>6 DEF Whole, IInv, ControlInv, Others, Elsewhere, Walking
<1> QED
  BY <1>1, <1>3, <1>4, <1>5, <1>7, ThreadGoes DEF Walking

(* The way to rt_schedule. *)
LEMMA RescheduleThreads ==
  ASSUME Whole, IInv', NEW t \in Thread, Reschedule(t), UNCHANGED <<w, arg, astray>>
  PROVE  Whole'
<1>1. /\ t = k.current /\ pc[t] = "sched" /\ k' = Schedule(k) /\ w' = w
      /\ pc' = [pc EXCEPT ![t] = then[t]] /\ then' = [then EXCEPT ![t] = "user"]
      /\ arg' = arg /\ slice' = slice /\ isr' = isr /\ astray' = astray
  BY DEF Reschedule, At, Goto, Then
<1>2. /\ k \in KernelState /\ Sound(k) /\ Worker \in Thread /\ Sem \in Queue
      /\ then[t] \in Resting /\ k.lock = 0
  BY <1>1, SoundSteady, WorkQueueAssumption
     DEF Whole, IInv, ControlInv, Local, ThreadInv, WalkInv, Walking, Steady
<1>3. /\ Sound(k') /\ Calm(k, k')
      /\ k.stat[k.current] = "SUSPEND" => k'.current # k.current
  BY <1>1, <1>2, ScheduleCalm
<1>4. Settles(k, k', {})
  BY <1>3, CalmSettles
<1>5. /\ \A y \in Thread : pc'[y] = IF y = t THEN then[t] ELSE pc[y]
      /\ \A y \in Thread : then'[y] = IF y = t THEN "user" ELSE then[y]
  BY <1>1 DEF Whole, IInv, ControlInv
<1>6. WaitersStay
  BY <1>1, <1>5 DEF WaitersStay, Whole, ThreadInv, SyncInv, Waits
<1>7. (BetweenWorks => w.current = None)'
  BY <1>1, <1>2, <1>5 DEF BetweenWorks, Whole, ThreadInv, WorkerInv, Resting
<1>8. StillRuns
  BY <1>1, <1>2, <1>5 DEF StillRuns
<1>9. NoneEnters /\ CurrentInv' /\ Typed
  BY <1>1, <1>3, <1>4, SettlesSteps, StepsEnters, StepsCurrent, StatesTyped
<1>10. Steady(k') /\ WalkInv'
  <2>1. \A y \in Thread : pc'[y] \in Walking => pc[y] \in Walking
    BY <1>2, <1>5 DEF Resting, Walking
  <2> QED
    BY <1>2, <1>3, <2>1, NoWalk
<1> QED
  BY <1>6, <1>7, <1>8, <1>9, <1>10, ThreadsKeep

(* rt_thread_mdelay returns. *)
LEMMA SleepReturnThreads ==
  ASSUME Whole, IInv', NEW t \in Thread, SleepReturn(t), UNCHANGED <<w, arg, astray>>
  PROVE  Whole'
<1>1. /\ At(t, "woken") /\ w' = w /\ arg' = arg /\ then' = then
      /\ pc' = [pc EXCEPT ![t] = "user"]
      /\ slice' = slice /\ isr' = isr /\ astray' = astray
      /\ k' = [k EXCEPT !.error[t] = IF @ = "ETIMEOUT" THEN "EOK" ELSE @]
  BY DEF SleepReturn, Goto
<1>2. k \in KernelState /\ Sound(k)
  BY <1>1, AtThread DEF Walking
<1>3. PICK e \in Errno : k' = [k EXCEPT !.error[t] = e]
  <2>1. k.error[t] \in Errno
    BY <1>2 DEF KernelState
  <2>2. k' = [k EXCEPT !.error[t] = IF k.error[t] = "ETIMEOUT" THEN "EOK" ELSE k.error[t]]
    BY <1>1
  <2>3. (IF k.error[t] = "ETIMEOUT" THEN "EOK" ELSE k.error[t]) \in Errno
    BY <2>1 DEF Errno
  <2> QED
    BY <2>2, <2>3
<1>4. Sound(k') /\ Calm(k, k')
  BY <1>2, <1>3, ErrorFacts
<1>5. Settles(k, k', {}) /\ Typed
  BY <1>1, <1>4, CalmSettles, StatesTyped
<1>6. Others(t) /\ Elsewhere(t)
  BY <1>1 DEF Whole, IInv, ControlInv, Others, Elsewhere, Walking
<1> QED
  BY <1>1, <1>5, <1>6, ThreadGoes DEF Walking

(* The clock and the timers: a walk they interrupt stays where it is.      *)
LEMMA NobodySteps ==
  ASSUME Whole, IInv', NEW S, Steps(k, k', S), k'.lock = k.lock,
         k.lock # 0 => k'.current = k.current,
         pc' = pc, then' = then, arg' = arg, w'.current = w.current,
         ToSet(w.list) \subseteq ToSet(w'.list), Typed
  PROVE  Whole'
<1>1. Steady(k') /\ NoneEnters
  BY StepsEnters
<1>2. CurrentInv'
  BY StepsCurrent DEF Whole, ThreadInv, CurrentInv
<1>3. WaitersStay /\ StillRuns /\ (BetweenWorks => w.current = None)'
  BY DEF WaitersStay, StillRuns, BetweenWorks, Whole, ThreadInv, WorkerInv
<1>4. WalkInv'
  <2>1. /\ k.lock # 0 => k.lock = 1 /\ pc[k.current] \in Walking
        /\ \A t \in Thread : pc[t] \in Walking => t = k.current /\ k.lock = 1
    BY DEF Whole, ThreadInv, WalkInv
  <2>2. ASSUME NEW t \in Thread PROVE HasRead(t)'
    <3>1. HasRead(t)
      BY DEF Whole, ThreadInv, WalkInv
    <3> QED
      BY <3>1 DEF HasRead
  <2> QED
    BY <2>1, <2>2 DEF WalkInv
<1> QED
  BY <1>1, <1>2, <1>3, <1>4, ThreadsKeep

LEMMA ClockThreads ==
  ASSUME Whole, IInv', Clock
  PROVE  Whole'
<1>1. pc' = pc /\ then' = then /\ arg' = arg /\ w' = w /\ astray' = astray
  BY DEF Clock, Tick, TickEnd
<1>2. Steady(k) /\ k.current \in Thread
  BY DEF Whole, ThreadInv, Steady, KernelState
<1>3. Steps(k, k', {}) /\ k'.lock = k.lock /\ (k.lock # 0 => k'.current = k.current)
  <2>1. CASE k' = k
    BY <2>1, SameSteps
  <2>2. CASE k' = Schedule(k)
    BY <1>2, <2>2, ScheduleSteps
  <2> QED
    BY <2>1, <2>2 DEF Clock, Tick, TickEnd
<1>4. Typed
  <2>1. CASE Tick
    <3>1. slice[k.current] \in Nat \ {0} /\ InitTick[k.current] \in Nat \ {0}
      BY <1>2, ThreadsAssumption DEF Whole, ThreadInv
    <3>2. PICK n : /\ n = IF slice[k.current] - 1 = 0 THEN InitTick[k.current]
                                                    ELSE slice[k.current] - 1
                   /\ slice' = [slice EXCEPT ![k.current] = n] /\ isr' = "timers"
      BY <2>1 DEF Tick
    <3>3. n \in Nat \ {0}
      BY <3>1, <3>2
    <3> QED
      BY <1>1, <3>2, <3>3 DEF Whole, ThreadInv, Typed
  <2>2. CASE TickEnd
    BY <1>1, <2>2 DEF TickEnd, Whole, ThreadInv, Typed
  <2> QED
    BY <2>1, <2>2 DEF Clock
<1> QED
  BY <1>1, <1>3, <1>4, NobodySteps

LEMMA ExpireThreads ==
  ASSUME Whole, IInv', NEW t \in Thread, Expire(t)
  PROVE  Whole'
<1>1. /\ pc' = pc /\ then' = then /\ arg' = arg /\ w' = w /\ astray' = astray
      /\ slice' = slice /\ isr' = isr
      /\ k.timer[t] /\ k' = ThreadTimeout(k, t)
  BY DEF Expire, TimerExpire
<1>2. Steady(k) /\ k.stat[t] = "SUSPEND"
  BY <1>1 DEF Whole, ThreadInv, Steady, TimedSuspended
<1>3. /\ Steps(k, k', {t}) /\ k'.lock = k.lock
      /\ k.lock # 0 => k'.current = k.current
  BY <1>1, <1>2, TimeoutSteps
<1>4. Typed
  BY <1>1, StatesTyped
<1> QED
  BY <1>1, <1>3, <1>4, NobodySteps

(* The timer function of a delayed work: it may resume the worker, and it  *)
(* takes nothing out of the list.                                          *)
LEMMA WorkTimeoutThreads ==
  ASSUME Whole, IInv', NEW x \in Delayed, WorkTimeout(x)
  PROVE  Whole'
<1>1. PICK u : u = [w EXCEPT !.armed = w.armed \ {x}, !.submitting = w.submitting \ {x}]
  OBVIOUS
<1>2. /\ pc' = pc /\ then' = then /\ arg' = arg /\ slice' = slice /\ isr' = isr
      /\ w' = u \/ \E p : w' = [InsertWork(u, x) EXCEPT !.pending = p]
      /\ k' = k \/ k' = Schedule(ThreadResume(k, Worker))
      /\ astray' \in {"no", "queue", "list"}
  BY <1>1 DEF WorkTimeout
<1>3. w'.current = w.current /\ ToSet(w.list) \subseteq ToSet(w'.list)
  <2>1. w \in Queued /\ IsInjective(w.list) /\ x \in Work
    BY WorkQueueAssumption DEF Whole, IInv, QueueInv, QueuedOnce
  <2>2. u.current = w.current /\ u \in Queued /\ u.list = w.list
    BY <1>1, <2>1 DEF Queued
  <2>3. \A p : [InsertWork(u, x) EXCEPT !.pending = p].current = u.current
    BY <2>2, SameCurrent
  <2>4. PICK l \in Seq(Work) : /\ InsertWork(u, x) = [u EXCEPT !.list = l]
                               /\ ToSet(l) = ToSet(u.list) \cup {x}
    BY <2>1, <2>2, InsertWorkFacts
  <2>5. \A p : [InsertWork(u, x) EXCEPT !.pending = p].list = l
    BY <2>2, <2>4 DEF Queued
  <2> QED
    BY <1>2, <2>2, <2>3, <2>4, <2>5
<1>4. \E S : Steps(k, k', S) /\ k'.lock = k.lock /\ (k.lock # 0 => k'.current = k.current)
  <2>1. CASE k' = k
    BY <2>1, SameSteps
  <2>2. CASE k' = Schedule(ThreadResume(k, Worker))
    <3>1. Steady(k) /\ Worker \in Thread
      BY WorkQueueAssumption DEF Whole, ThreadInv
    <3>2. PICK v : v = ThreadResume(k, Worker)
      OBVIOUS
    <3>3. PICK S : Steps(k, v, S) /\ v.lock = k.lock /\ v.current = k.current
      BY <3>1, <3>2, ResumeSteps
    <3>4. /\ Steps(v, k', {}) /\ k'.lock = v.lock
          /\ v.lock # 0 => k' = v
      BY <2>2, <3>2, <3>3, ScheduleSteps DEF Steps
    <3>5. Steps(k, k', S \cup {})
      BY <3>3, <3>4, StepsTrans
    <3> QED
      BY <3>3, <3>4, <3>5
  <2> QED
    BY <1>2, <2>1, <2>2
<1>5. Typed
  BY <1>2 DEF Whole, ThreadInv, Typed
<1> QED
  BY <1>2, <1>3, <1>4, <1>5, NobodySteps
-----------------------------------------------------------------------------
(* The scheduler is locked or unlocked. *)
LEMMA LockSteps ==
  ASSUME NEW kk, Steady(kk), NEW n \in Nat, NEW s, s = [kk EXCEPT !.lock = n]
  PROVE  Steps(kk, s, {}) /\ s.lock = n /\ s.current = kk.current
<1>1. /\ kk \in KernelState /\ s \in KernelState
      /\ s.stat = kk.stat /\ s.prio = kk.prio /\ s.current = kk.current
      /\ s.ready = kk.ready /\ s.wait = kk.wait /\ s.group = kk.group
      /\ s.timer = kk.timer /\ s.lock = n
  <2>1. kk \in KernelState
    BY DEF Steady
  <2> QED
    BY <2>1 DEF KernelState
<1>2. Coherent(s, {})
  BY <1>1, CoherentFrame DEF Steady
<1>3. TimedSuspended(s)
  BY <1>1 DEF Steady, TimedSuspended
<1> QED
  BY <1>1, <1>2, <1>3 DEF Steady, Steps

(* A step of the thread t that begins, goes on with or ends a walk.        *)
LEMMA WalkerKeeps ==
  ASSUME Whole, IInv', NEW t \in Thread, NEW j \in Walking \cup {"user"}, At(t, j),
         NEW l \in Walking \cup {"sched"}, NEW x, Changes(t, l, "user", x),
         NEW n \in {0, 1}, k' = [k EXCEPT !.lock = n], n = 1 <=> l \in Walking,
         HasRead(t)', w'.current = w.current,
         slice' = slice, isr' = isr, astray' = astray
  PROVE  Whole'
<1>1. /\ t = k.current /\ pc[t] = j /\ k.stat[t] # "SUSPEND"
      /\ t \notin ToSet(k.wait[Sem]) /\ j # "sched" /\ k \in KernelState
  BY AtThread DEF Walking
<1>2. Worker \in Thread /\ Sem \in Queue
  BY WorkQueueAssumption
<1>3. Others(t) /\ pc'[t] = l /\ then'[t] = "user"
  BY ChangesOthers DEF Whole, IInv
<1>4. Steps(k, k', {}) /\ k'.lock = n /\ k'.current = t
  BY <1>1, LockSteps DEF Whole, ThreadInv
<1>5. Steady(k') /\ NoneEnters /\ CurrentInv'
  BY <1>1, <1>4, StepsEnters, StepsCurrent
<1>6. WaitersStay
  BY <1>1, <1>2, <1>3, WaitersThreads DEF WaitersStay, Others
<1>7. StillRuns
  BY <1>1, <1>2, <1>3 DEF StillRuns, Others, Walking
<1>8. (BetweenWorks => w.current = None)'
  <2>1. CASE t = Worker
    BY <1>3, <2>1 DEF BetweenWorks, Walking
  <2>2. CASE t # Worker
    BY <1>2, <1>3, <2>2 DEF Others, BetweenWorks, Whole, ThreadInv, WorkerInv
  <2> QED
    BY <2>1, <2>2
<1>9. WalkInv'
  <2>1. \A y \in Thread \ {t} : pc'[y] \notin Walking
    BY <1>1, <1>3 DEF Others, Whole, ThreadInv, WalkInv
  <2>2. \A y \in Thread : HasRead(y)'
    BY <2>1 DEF HasRead, Walking
  <2>3. l \in Walking => n = 1
    OBVIOUS
  <2>4. n = 0 \/ (n = 1 /\ l \in Walking)
    OBVIOUS
  <2> QED
    BY <1>3, <1>4, <2>1, <2>2, <2>3, <2>4 DEF WalkInv
<1>10. Typed
  BY StatesTyped
<1> QED
  BY <1>5, <1>6, <1>7, <1>8, <1>9, <1>10, ThreadsKeep

LEMMA CancelAllThreads ==
  ASSUME Whole, IInv', NEW t \in Thread, CancelAll(t) \/ WalkEnd(t)
  PROVE  Whole'
<1>1. PICK j \in {"user", "walk"}, l \in {"first", "sched"}, n \in {0, 1} :
        /\ At(t, j) /\ pc' = [pc EXCEPT ![t] = l] /\ k' = [k EXCEPT !.lock = n]
        /\ n = 1 <=> l = "first"
  <2>1. CASE CancelAll(t)
    <3>1. At(t, "user") /\ pc' = [pc EXCEPT ![t] = "first"] /\ k' = [k EXCEPT !.lock = k.lock + 1]
      BY <2>1 DEF CancelAll, May, Goto
    <3>2. k.lock = 0
      BY <3>1, AtThread DEF Walking
    <3>3. k' = [k EXCEPT !.lock = 1]
      BY <3>1, <3>2
    <3> QED
      BY <3>1, <3>3
  <2>2. CASE WalkEnd(t)
    <3>1. /\ At(t, "walk") /\ pc' = [pc EXCEPT ![t] = "sched"]
          /\ k' = [k EXCEPT !.lock = IF k.lock > 0 THEN k.lock - 1 ELSE 0]
      BY <2>2 DEF WalkEnd, Goto
    <3>2. k.lock = 1
      BY <3>1, AtThread DEF Walking, Whole, ThreadInv, WalkInv
    <3>3. k' = [k EXCEPT !.lock = 0]
      BY <3>1, <3>2
    <3> QED
      BY <3>1, <3>3
  <2> QED
    BY <2>1, <2>2
<1>2. /\ w' = w /\ arg' = arg /\ then' = then
      /\ slice' = slice /\ isr' = isr /\ astray' = astray
  BY DEF CancelAll, WalkEnd
<1>3. then[t] = "user"
  BY <1>1, AtWork DEF Whole, CancelLoc
<1>4. Changes(t, l, "user", arg[t])
  BY <1>1, <1>2, <1>3, Unmoved DEF Whole, IInv, Changes
<1>5. HasRead(t)'
  <2>1. pc'[t] = l
    BY <1>4, ChangesOthers DEF Whole, IInv
  <2> QED
    BY <2>1 DEF HasRead
<1>6. /\ j \in Walking \cup {"user"} /\ l \in Walking \cup {"sched"}
      /\ n = 1 <=> l \in Walking
  BY <1>1 DEF Walking
<1> QED
  BY <1>1, <1>2, <1>4, <1>5, <1>6, WalkerKeeps

(* The walk: the next node is read before this one leaves the list, and is *)
(* another one, as no work is queued twice.                                *)
LEMMA WalkThreads ==
  ASSUME Whole, IInv', NEW t \in Thread, WalkFirst(t) \/ WalkNext(t) \/ WalkUnlink(t)
  PROVE  Whole'
<1>1. PICK j \in Walking, l \in Walking :
        At(t, j) /\ pc' = [pc EXCEPT ![t] = l]
  BY DEF WalkFirst, WalkNext, WalkUnlink, Goto, Walking
<1>2. k' = k /\ then' = then /\ slice' = slice /\ isr' = isr /\ astray' = astray
  BY DEF WalkFirst, WalkNext, WalkUnlink
<1>3. PICK r : arg' = [arg EXCEPT ![t] = r]
  BY DEF WalkFirst, WalkNext, WalkUnlink, About
<1>4. /\ w \in Queued /\ w.list \in Seq(Work) /\ IsInjective(w.list)
      /\ HasRead(t) /\ arg[t] \in Args /\ pc[t] = j /\ k.lock = 1 /\ k \in KernelState
  <2>1. w \in Queued /\ w.list \in Seq(Work) /\ IsInjective(w.list) /\ arg[t] \in Args
    BY DEF Whole, IInv, QueueInv, Queued, QueuedOnce, ControlInv
  <2>2. pc[t] = j /\ k \in KernelState
    BY <1>1, AtThread DEF Walking
  <2>3. HasRead(t) /\ k.lock = 1
    BY <2>2 DEF Whole, ThreadInv, WalkInv
  <2> QED
    BY <2>1, <2>2, <2>3
<1>5. then[t] = "user"
  BY <1>1, AtWork DEF Whole, CancelLoc, Walking
<1>6. Changes(t, l, "user", r)
  BY <1>1, <1>2, <1>3, <1>5, Unmoved DEF Whole, IInv, Changes
<1>7. pc'[t] = l /\ arg'[t] = r
  BY <1>1, <1>3 DEF Whole, IInv, ControlInv
<1>8. w'.current = w.current
  BY <1>4 DEF WalkFirst, WalkNext, WalkUnlink, Queued
<1>9. HasRead(t)'
  <2>1. CASE WalkFirst(t)
    <3>1. /\ w' = w /\ pc' = [pc EXCEPT ![t] = "walk"]
          /\ arg' = [arg EXCEPT ![t].work = IF w.list = << >> THEN None ELSE Head(w.list)]
      BY <2>1 DEF WalkFirst, About, Goto
    <3>2. /\ pc'[t] = "walk"
          /\ arg'[t].work = IF w.list = << >> THEN None ELSE Head(w.list)
      BY <3>1 DEF Whole, IInv, ControlInv, Args
    <3>3. w.list # << >> => Head(w.list) \in ToSet(w.list)
      BY <1>4, ListEmpty
    <3> QED
      BY <3>1, <3>2, <3>3 DEF HasRead
  <2>2. CASE WalkNext(t)
    <3>1. /\ w' = w /\ pc' = [pc EXCEPT ![t] = "unlink"] /\ pc[t] = "walk"
          /\ arg[t].work # None
          /\ arg' = [arg EXCEPT ![t].next = NextIn(w.list, arg[t].work)]
      BY <2>2 DEF WalkNext, Goto, At
    <3>2. /\ pc'[t] = "unlink" /\ arg'[t].work = arg[t].work
          /\ arg'[t].next = NextIn(w.list, arg[t].work)
      BY <3>1 DEF Whole, IInv, ControlInv, Args
    <3>3. arg[t].work \in ToSet(w.list) /\ arg[t].work \in Work \cup {None}
      BY <1>4, <3>1 DEF HasRead, Args
    <3>4. NextIn(w.list, arg[t].work) \in (ToSet(w.list) \cup {None}) \ {arg[t].work}
      BY <1>4, <3>3, NextInFacts
    <3> QED
      BY <3>1, <3>2, <3>3, <3>4 DEF HasRead
  <2>3. CASE WalkUnlink(t)
    <3>1. /\ w' = [w EXCEPT !.list = Without(w.list, arg[t].work)]
          /\ pc' = [pc EXCEPT ![t] = "walk"] /\ pc[t] = "unlink"
          /\ arg' = [arg EXCEPT ![t].work = arg[t].next, ![t].next = None]
      BY <2>3 DEF WalkUnlink, Goto, At
    <3>2. pc'[t] = "walk" /\ arg'[t].work = arg[t].next
      BY <3>1 DEF Whole, IInv, ControlInv, Args
    <3>3. ToSet(w'.list) = ToSet(w.list) \ {arg[t].work}
      BY <1>4, <3>1, ListWithout DEF Queued
    <3>4. arg[t].next \in (ToSet(w.list) \cup {None}) \ {arg[t].work}
      BY <1>4, <3>1 DEF HasRead
    <3> QED
      BY <3>2, <3>3, <3>4 DEF HasRead
  <2> QED
    BY <2>1, <2>2, <2>3
<1>10. k' = [k EXCEPT !.lock = 1]
  BY <1>2, <1>4 DEF KernelState
<1>11. 1 \in {0, 1} /\ (1 = 1 <=> l \in Walking)
  BY <1>1
<1> QED
  BY <1>1, <1>2, <1>6, <1>8, <1>9, <1>10, <1>11, WalkerKeeps
-----------------------------------------------------------------------------
(* A thread that suspends itself is on its way to rt_schedule. *)
LEMMA SuspendThreads ==
  ASSUME Whole, IInv', NEW t, NEW l, l \notin {"sched", "ack"} \cup Walking, At(t, l),
         Sound(k'), k'.current = k.current,
         \A q \in Queue : ToSet(k'.wait[q]) = ToSet(k.wait[q]) \ {t},
         \A y \in Thread \ {t} : k'.stat[y] = "SUSPEND" <=> k.stat[y] = "SUSPEND",
         NEW m, Changes(t, "sched", m, arg[t]),
         t = Worker => (l = "user" /\ m = "woken") \/ l = "suspend",
         w' = w, slice' = slice, isr' = isr, astray' = astray
  PROVE  Whole'
<1>1. /\ t \in Thread /\ t = k.current /\ pc[t] = l /\ k \in KernelState
      /\ t \notin ToSet(k.wait[Sem]) /\ k.lock = 0
  BY AtThread
<1>2. Worker \in Thread /\ Sem \in Queue
  BY WorkQueueAssumption
<1>3. Others(t) /\ pc'[t] = "sched" /\ then'[t] = m
  BY <1>1, ChangesOthers DEF Whole, IInv
<1>4. NoneEnters
  <2>1. ASSUME NEW y \in ToSet(k'.wait[Sem])
        PROVE  k'.stat[y] = "SUSPEND"
    <3>1. y \in ToSet(k.wait[Sem]) /\ y # t
      BY <1>2
    <3>2. y \in Thread /\ k.stat[y] = "SUSPEND"
      BY <3>1 DEF Whole, ThreadInv, SyncInv, Waits
    <3> QED
      BY <3>1, <3>2
  <2> QED
    BY <2>1 DEF NoneEnters
<1>5. WaitersStay
  BY <1>1, <1>2, <1>3, WaitersThreads DEF WaitersStay, Others
<1>6. StillRuns
  BY <1>1, <1>2, <1>3 DEF StillRuns, Others
<1>7. CurrentInv'
  BY <1>1, <1>3 DEF CurrentInv
<1>8. (BetweenWorks => w.current = None)'
  <2>1. CASE t # Worker
    BY <1>2, <1>3, <2>1 DEF Others, BetweenWorks, Whole, ThreadInv, WorkerInv
  <2>2. CASE t = Worker /\ m = "woken"
    BY <1>3, <2>2 DEF BetweenWorks
  <2>3. CASE t = Worker /\ l = "suspend"
    BY <1>1, <2>3 DEF BetweenWorks, Whole, ThreadInv, WorkerInv
  <2> QED
    BY <2>1, <2>2, <2>3
<1>9. Typed
  BY StatesTyped
<1>10. Steady(k') /\ WalkInv'
  <2>1. \A y \in Thread : pc'[y] \in Walking => pc[y] \in Walking
    BY <1>3 DEF Others, Walking
  <2> QED
    BY <1>1, <2>1, NoWalk
<1> QED
  BY <1>4, <1>5, <1>6, <1>7, <1>8, <1>9, <1>10, ThreadsKeep

LEMMA SleepThreads ==
  ASSUME Whole, IInv', NEW t \in Thread \ {Idle}, Sleep(t), UNCHANGED <<w, arg, astray>>
  PROVE  Whole'
<1> DEFINE s == ThreadSuspend(k, t)
<1>1. /\ At(t, "user") /\ k' = TimerStart(s, t)
      /\ pc' = [pc EXCEPT ![t] = "sched"] /\ then' = [then EXCEPT ![t] = "woken"]
      /\ w' = w /\ arg' = arg /\ slice' = slice /\ isr' = isr /\ astray' = astray
  BY DEF Sleep, Goto, Then
<1>2. k \in KernelState /\ Sound(k) /\ k.stat[t] # "SUSPEND"
  BY <1>1, AtThread DEF Walking
<1>3. /\ Sound(s) /\ Suspends(k, s, t)
      /\ \A q \in Queue : ToSet(s.wait[q]) = ToSet(k.wait[q]) \ {t}
  BY <1>2, SuspendFacts
<1> HIDE DEF s
<1>4. s \in KernelState /\ s.stat[t] = "SUSPEND" /\ s.current = k.current
  BY <1>3 DEF Sound, Suspends
<1>5. Sound(k') /\ k'.current = s.current /\ k'.stat = s.stat /\ k'.wait = s.wait
  BY <1>1, <1>3, <1>4, TimerStartFacts
<1>6. Changes(t, "sched", "woken", arg[t])
  BY <1>1, Unmoved DEF Whole, IInv, Changes
<1> QED
  BY <1>1, <1>3, <1>4, <1>5, <1>6, SuspendThreads DEF Suspends, Walking

LEMMA WorkerSuspendThreads ==
  ASSUME Whole, IInv', WorkerSuspend
  PROVE  Whole'
<1>1. /\ At(Worker, "suspend") /\ k' = ThreadSuspend(k, Worker)
      /\ pc' = [pc EXCEPT ![Worker] = "sched"] /\ then' = [then EXCEPT ![Worker] = "fetch"]
      /\ w' = w /\ arg' = arg /\ slice' = slice /\ isr' = isr /\ astray' = astray
  BY DEF WorkerSuspend, Goto, Then
<1>2. /\ k \in KernelState /\ Sound(k) /\ k.stat[Worker] # "SUSPEND"
      /\ Worker \in Thread \ {Idle}
  BY <1>1, AtThread, WorkQueueAssumption DEF Walking
<1>3. /\ Sound(k') /\ Suspends(k, k', Worker)
      /\ \A q \in Queue : ToSet(k'.wait[q]) = ToSet(k.wait[q]) \ {Worker}
  BY <1>1, <1>2, SuspendFacts
<1>4. Changes(Worker, "sched", "fetch", arg[Worker])
  BY <1>1, <1>2, Unmoved DEF Whole, IInv, Changes
<1> QED
  BY <1>1, <1>3, <1>4, SuspendThreads DEF Suspends, Walking

(* rt_workqueue_cancel_work_sync of the work that runs: the thread waits.  *)
LEMMA CancelSyncThreads ==
  ASSUME Whole, IInv', NEW t \in Thread \ {Idle}, NEW x \in Work, CancelSync(t, x)
  PROVE  Whole'
<1> DEFINE e == [k EXCEPT !.error[t] = "EOK"]
           s == IpcSuspend(e, Sem, t, "FIFO")
<1> DEFINE r == [arg[t] EXCEPT !.work = x]
<1>1. /\ At(t, "user") /\ (x = w.current => t # Worker) /\ w' = RemoveWork(w, x)
      /\ arg' = [arg EXCEPT ![t] = r] /\ pc' = pc /\ then' = then
      /\ slice' = slice /\ isr' = isr /\ astray' = astray
      /\ k' = IF x # w.current THEN k ELSE Schedule(s)
  BY DEF CancelSync, May, About
<1>2. /\ k \in KernelState /\ Sound(k) /\ k.stat[t] # "SUSPEND" /\ t = k.current
      /\ pc[t] = "user" /\ t \notin ToSet(k.wait[Sem]) /\ k.lock = 0
      /\ Sem \in Queue /\ Worker \in Thread
  BY <1>1, AtThread, WorkQueueAssumption DEF Walking
<1>3. w'.current = w.current
  <2>1. w \in Queued
    BY DEF Whole, IInv, QueueInv
  <2>2. RemoveWork(w, x).current = w.current
    BY <2>1, SameCurrent
  <2> QED
    BY <1>1, <2>2
<1>4. /\ arg'[t].work = x /\ x \in Work
      /\ \A y \in Thread \ {t} : arg'[y] = arg[y]
  BY <1>1 DEF Whole, IInv, ControlInv, Args
<1>5. Typed
  BY <1>1, StatesTyped
<1> HIDE DEF s, r
<1>6. CASE x # w.current
  <2>1. k' = k /\ Changes(t, "user", then[t], r)
    BY <1>1, <1>2, <1>6, Unmoved DEF Whole, IInv, Changes
  <2> QED
    BY <1>1, <1>3, <2>1, CallKeeps DEF Walking
<1>7. CASE x = w.current
  <2>1. /\ Sound(e) /\ Calm(k, e) /\ e.current = k.current /\ e.stat = k.stat
    BY <1>2, ErrorFacts DEF Errno
  <2> HIDE DEF e
  <2>2. e \in KernelState /\ e.stat[t] # "SUSPEND" /\ e.wait = k.wait
    BY <1>2, <2>1 DEF Sound, Calm
  <2>3. s = IpcSuspend(e, Sem, t, "FIFO")
    BY DEF s
  <2>4. Sound(s) /\ Suspends(e, s, t) /\ Joins(e, s, t, Sem)
    BY <1>2, <2>1, <2>2, <2>3, IpcSuspendFacts
  <2>5. /\ s \in KernelState /\ s.current = t /\ s.stat[t] = "SUSPEND"
        /\ \A y \in Thread \ {t} : s.stat[y] = "SUSPEND" <=> k.stat[y] = "SUSPEND"
        /\ ToSet(s.wait[Sem]) = ToSet(k.wait[Sem]) \cup {t}
        /\ \A q \in Queue \ {Sem} : ToSet(s.wait[q]) = ToSet(k.wait[q]) \ {t}
    BY <1>2, <2>1, <2>2, <2>4 DEF Sound, Suspends, Joins
  <2>6. k' = Schedule(s)
    BY <1>1, <1>7
  <2>7. Sound(k') /\ Calm(s, k') /\ k'.current # s.current
    BY <2>4, <2>5, <2>6, ScheduleCalm
  <2>8. /\ k'.wait = s.wait /\ k'.stat[k'.current] # "SUSPEND"
        /\ \A y \in Thread : k'.stat[y] = "SUSPEND" <=> s.stat[y] = "SUSPEND"
    BY <2>7 DEF Calm
  <2>9. CurrentInv'
    BY <2>8 DEF CurrentInv
  <2>10. WorkerInv'
    <3>1. \A q \in Queue : Worker \notin ToSet(k'.wait[q])
      BY <1>1, <1>7, <2>5, <2>8 DEF Whole, ThreadInv, WorkerInv
    <3> QED
      BY <1>1, <1>3, <3>1 DEF Whole, ThreadInv, WorkerInv, BetweenWorks
  <2>11. SyncInv'
    <3> SUFFICES ASSUME NEW y \in ToSet(k'.wait[Sem]) PROVE Waits(y)'
      BY DEF SyncInv
    <3>1. CASE y = t
      BY <1>1, <1>2, <1>3, <1>4, <1>7, <2>5, <2>8, <3>1 DEF Waits
    <3>2. CASE y # t
      <4>1. y \in ToSet(k.wait[Sem])
        BY <2>5, <2>8, <3>2
      <4>2. Waits(y)
        BY <4>1 DEF Whole, ThreadInv, SyncInv
      <4> QED
        BY <1>1, <1>3, <1>4, <2>5, <2>8, <3>2, <4>2 DEF Waits
    <3> QED
      BY <3>1, <3>2
  <2>12. Steady(k') /\ WalkInv'
    BY <1>1, <1>2, <2>7, NoWalk
  <2> QED
    BY <1>5, <2>9, <2>10, <2>11, <2>12 DEF Whole, ThreadInv, Typed
<1> QED
  BY <1>6, <1>7
-----------------------------------------------------------------------------
(* The worker's loop. *)
LEMMA WorkerChanges ==
  ASSUME Whole, NEW l, NEW m, At(Worker, l), NEW j, Changes(Worker, j, m, arg[Worker])
  PROVE  /\ Worker \in Thread /\ Sem \in Queue /\ k.current = Worker /\ pc[Worker] = l
         /\ pc'[Worker] = j /\ then'[Worker] = m /\ WaitersStay
<1>1. /\ Worker \in Thread /\ Sem \in Queue /\ k.current = Worker /\ pc[Worker] = l
      /\ k \in KernelState
  BY WorkQueueAssumption DEF At, Whole, ThreadInv, Steady
<1>2. Others(Worker) /\ pc'[Worker] = j /\ then'[Worker] = m
  BY <1>1, ChangesOthers DEF Whole, IInv
<1>3. Worker \notin ToSet(k.wait[Sem])
  BY <1>1 DEF Whole, ThreadInv, WorkerInv
<1>4. WaitersStay
  BY <1>1, <1>2, <1>3, WaitersThreads DEF Others, WaitersStay
<1> QED
  BY <1>1, <1>2, <1>4

LEMMA WorkerSteps ==
  ASSUME Whole, NEW l, l \notin {"sched"} \cup Walking, At(Worker, l),
         NEW j, j \notin Walking, NEW m, Changes(Worker, j, m, arg[Worker]),
         NEW S, Settles(k, k', S)
  PROVE  Steady(k') /\ WalkInv' /\ NoneEnters /\ CurrentInv'
<1>1. k.lock = 0 /\ k.stat[k.current] # "SUSPEND" /\ Worker \in Thread
  BY AtThread
<1>2. Others(Worker) /\ pc'[Worker] = j
  BY <1>1, ChangesOthers DEF Whole, IInv
<1>3. Steps(k, k', S) /\ Sound(k')
  BY SettlesSteps DEF Settles
<1>4. \A y \in Thread : pc'[y] \in Walking => pc[y] \in Walking
  BY <1>2 DEF Others
<1> QED
  BY <1>1, <1>3, <1>4, StepsEnters, StepsCurrent, NoWalk

(* Between two works nobody waits for one. *)
LEMMA NobodyWaits ==
  ASSUME Whole, BetweenWorks, pc[Worker] # "ack"
  PROVE  ToSet(k.wait[Sem]) = {}
<1>1. w.current = None /\ None \notin Work
  BY WorkQueueAssumption DEF Whole, ThreadInv, WorkerInv
<1> QED
  BY <1>1 DEF Whole, ThreadInv, SyncInv, Waits

LEMMA WorkerTestThreads ==
  ASSUME Whole, IInv', WorkerTest
  PROVE  Whole'
<1>1. /\ At(Worker, "check") /\ w' = w /\ k' = k
      /\ slice' = slice /\ isr' = isr /\ astray' = astray
      /\ \E j \in {"suspend", "fetch"} : pc' = [pc EXCEPT ![Worker] = j]
      /\ then' = then /\ arg' = arg
  BY DEF WorkerTest, Goto
<1>2. PICK j \in {"suspend", "fetch"} : Changes(Worker, j, then[Worker], arg[Worker])
  BY <1>1, Unmoved, WorkQueueAssumption DEF Whole, IInv, Changes
<1>3. /\ k.current = Worker /\ pc[Worker] = "check" /\ pc'[Worker] = j /\ WaitersStay
      /\ Worker \in Thread
  BY <1>1, <1>2, WorkerChanges
<1>4. Settles(k, k', {}) /\ Typed
  BY <1>1, AtThread, SameSteps, StatesTyped DEF Walking
<1>5. Steady(k') /\ WalkInv' /\ NoneEnters /\ CurrentInv'
  BY <1>1, <1>2, <1>4, WorkerSteps DEF Walking
<1>6. StillRuns /\ (BetweenWorks => w.current = None)'
  BY <1>1, <1>3 DEF StillRuns, BetweenWorks, Whole, ThreadInv, WorkerInv
<1> QED
  BY <1>3, <1>4, <1>5, <1>6, ThreadsKeep

(* A work begins: nobody waits. *)
LEMMA FetchThreads ==
  ASSUME Whole, IInv', Fetch
  PROVE  Whole'
<1>1. /\ At(Worker, "fetch") /\ k' = k /\ slice' = slice /\ isr' = isr
      /\ astray' \in {astray, "work"} /\ then' = then /\ arg' = arg
      /\ (pc' = pc /\ w' = w) \/ pc' = [pc EXCEPT ![Worker] = "user"]
  BY DEF Fetch, Goto
<1>2. PICK j \in {"fetch", "user"} : /\ Changes(Worker, j, then[Worker], arg[Worker])
                                     /\ j = "fetch" => w' = w
  BY <1>1, Unmoved, WorkQueueAssumption DEF Whole, IInv, Changes, At
<1>3. /\ k.current = Worker /\ pc[Worker] = "fetch" /\ pc'[Worker] = j /\ WaitersStay
      /\ Worker \in Thread
  BY <1>1, <1>2, WorkerChanges
<1>4. Settles(k, k', {}) /\ Typed
  BY <1>1, AtThread, SameSteps, StatesTyped DEF Walking
<1>5. Steady(k') /\ WalkInv' /\ NoneEnters /\ CurrentInv'
  BY <1>1, <1>2, <1>4, WorkerSteps DEF Walking
<1>6. StillRuns
  <2>1. ToSet(k.wait[Sem]) = {}
    BY <1>3, NobodyWaits DEF BetweenWorks
  <2> QED
    BY <1>1, <2>1 DEF StillRuns
<1>7. (BetweenWorks => w.current = None)'
  BY <1>2, <1>3 DEF BetweenWorks, Whole, ThreadInv, WorkerInv
<1> QED
  BY <1>3, <1>4, <1>5, <1>6, <1>7, ThreadsKeep

(* A work ends: who waits will be told. *)
LEMMA ReturnThreads ==
  ASSUME Whole, IInv', WorkReturn
  PROVE  Whole'
<1>1. /\ At(Worker, "user") /\ k' = k /\ slice' = slice /\ isr' = isr
      /\ astray' = astray /\ then' = then /\ arg' = arg
      /\ pc' = [pc EXCEPT ![Worker] = "ack"] /\ w' = [w EXCEPT !.current = None]
  BY DEF WorkReturn, Goto
<1>2. Changes(Worker, "ack", then[Worker], arg[Worker])
  BY <1>1, Unmoved, WorkQueueAssumption DEF Whole, IInv, Changes
<1>3. /\ k.current = Worker /\ pc[Worker] = "user" /\ pc'[Worker] = "ack" /\ WaitersStay
      /\ Worker \in Thread
  BY <1>1, <1>2, WorkerChanges
<1>4. Settles(k, k', {}) /\ Typed
  BY <1>1, AtThread, SameSteps, StatesTyped DEF Walking
<1>5. Steady(k') /\ WalkInv' /\ NoneEnters /\ CurrentInv'
  BY <1>1, <1>2, <1>4, WorkerSteps DEF Walking
<1>6. w'.current = None
  BY <1>1 DEF Whole, IInv, QueueInv, Queued
<1>7. StillRuns /\ (BetweenWorks => w.current = None)'
  BY <1>3, <1>6 DEF StillRuns
<1> QED
  BY <1>3, <1>4, <1>5, <1>7, ThreadsKeep

(* Everybody is told before the worker goes on. *)
LEMMA AcknowledgeThreads ==
  ASSUME Whole, IInv', Acknowledge
  PROVE  Whole'
<1>1. /\ At(Worker, "ack") /\ k' = FoldLeft(ThreadResume, k, k.wait[Sem])
      /\ slice' = slice /\ isr' = isr /\ astray' = astray /\ w' = w /\ arg' = arg
      /\ pc' = [pc EXCEPT ![Worker] = "sched"] /\ then' = [then EXCEPT ![Worker] = "check"]
  BY DEF Acknowledge, Goto, Then
<1>2. Changes(Worker, "sched", "check", arg[Worker])
  BY <1>1, Unmoved, WorkQueueAssumption DEF Whole, IInv, Changes
<1>3. /\ k.current = Worker /\ pc[Worker] = "ack" /\ pc'[Worker] = "sched" /\ WaitersStay
      /\ then'[Worker] = "check" /\ Worker \in Thread /\ Sem \in Queue
  BY <1>1, <1>2, WorkerChanges
<1>4. Settles(k, k', ToSet(k.wait[Sem]))
  <2>1. k \in KernelState /\ Sound(k)
    BY <1>1, AtThread DEF Walking
  <2>2. \A t \in ToSet(k.wait[Sem]) : k.stat[t] = "SUSPEND"
    BY DEF Whole, ThreadInv, SyncInv, Waits
  <2>3. Settles(k, FoldLeft(ThreadResume, k, k.wait[Sem]), ToSet(k.wait[Sem]))
    BY <1>3, <2>1, <2>2, ResumeEach
  <2> QED
    BY <1>1, <2>3
<1>5. Typed
  BY <1>1, StatesTyped
<1>6. Steady(k') /\ WalkInv' /\ NoneEnters /\ CurrentInv'
  BY <1>1, <1>2, <1>4, WorkerSteps DEF Walking
<1>7. StillRuns
  <2>1. ToSet(k'.wait[Sem]) = {}
    BY <1>3, <1>4 DEF Settles
  <2> QED
    BY <2>1 DEF StillRuns
<1>8. (BetweenWorks => w.current = None)'
  BY <1>1, <1>3 DEF BetweenWorks, Whole, ThreadInv, WorkerInv
<1> QED
  BY <1>3, <1>5, <1>6, <1>7, <1>8, ThreadsKeep
-----------------------------------------------------------------------------
LEMMA InitWhole == Init => Whole
<1> SUFFICES ASSUME Init PROVE Whole
  OBVIOUS
<1>1. IInv
  BY InitIInv
<1>2. k = Asleep(InitPrio) /\ pc = [t \in Thread |-> IF t = Idle THEN "user" ELSE "woken"]
  BY DEF Init, AllAsleep, Asleep
<1>3. /\ Sound(k) /\ k.current = Idle /\ k.stat[Idle] = "RUNNING"
      /\ \A q \in Queue : ToSet(k.wait[q]) = {}
  BY <1>2, ThreadsAssumption, AsleepSound
<1>4. Worker \in Thread \ {Idle} /\ Sem \in Queue
  BY WorkQueueAssumption
<1>5. CurrentInv /\ WorkerInv /\ SyncInv
  BY <1>2, <1>3, <1>4 DEF CurrentInv, WorkerInv, SyncInv, BetweenWorks
<1>6. Steady(k) /\ WalkInv
  BY <1>2, <1>3, SoundSteady DEF WalkInv, HasRead, Walking
<1> QED
  BY <1>1, <1>5, <1>6, ThreadsAssumption DEF Init, AllAsleep, Whole, ThreadInv

LEMMA StepWhole == Whole /\ [Next]_vars => Whole'
<1> SUFFICES ASSUME Whole, [Next]_vars PROVE Whole'
  OBVIOUS
<1>1. IInv'
  BY StepIInv DEF Whole
<1>2. CASE UNCHANGED vars
  BY <1>1, <1>2 DEF vars, Whole, ThreadInv, WalkInv, HasRead, CurrentInv, WorkerInv,
                    SyncInv, Waits, BetweenWorks
<1>3. ASSUME NEW t \in Thread \ {Idle}, KernelCode(t) PROVE Whole'
  <2>1. CASE t = Worker /\ WorkerStep
    BY <1>1, <2>1, WorkerTestThreads, WorkerSuspendThreads, FetchThreads,
       AcknowledgeThreads DEF WorkerStep
  <2>2. CASE ResumeCheck(t) \/ ResumeTake(t) \/ ResumeInsert(t)
    BY <1>1, <2>2, ResumeCheckThreads, ResumeThreads
  <2>3. CASE Attach(t) \/ PendingTest(t) \/ TimerTest(t) \/ StopTimer(t) \/ Detach(t)
    BY <1>1, <2>3, DelayedThreads
  <2>4. CASE (Reschedule(t) \/ SleepReturn(t)) /\ UNCHANGED <<w, arg, astray>>
    BY <1>1, <2>4, RescheduleThreads, SleepReturnThreads
  <2>5. CASE WalkFirst(t) \/ WalkNext(t) \/ WalkUnlink(t) \/ WalkEnd(t)
    BY <1>1, <2>5, WalkThreads, CancelAllThreads
  <2> QED
    BY <1>3, <2>1, <2>2, <2>3, <2>4, <2>5 DEF KernelCode
<1>4. ASSUME NEW t \in Thread \ {Idle}, CallStep(t) PROVE Whole'
  <2>1. ASSUME NEW x \in Work, Submit(t, x) \/ CriticalWork(t, x) \/ CancelWork(t, x)
        PROVE  Whole'
    BY <1>1, <2>1, SubmitThreads
  <2>2. ASSUME NEW x \in Work, CancelSync(t, x) PROVE Whole'
    BY <1>1, <2>2, CancelSyncThreads
  <2>3. ASSUME NEW x \in Work, SubmitDelayed(t, x) \/ CancelDelayed(t, x) PROVE Whole'
    BY <1>1, <2>3, DelayedThreads
  <2>4. CASE CancelAll(t)
    BY <1>1, <2>4, CancelAllThreads
  <2>5. CASE Sleep(t) /\ UNCHANGED <<w, arg, astray>>
    BY <1>1, <2>5, SleepThreads
  <2> QED
    BY <1>4, <2>1, <2>2, <2>3, <2>4, <2>5 DEF CallStep
<1>5. ASSUME NEW t \in Thread, Expire(t) PROVE Whole'
  BY <1>1, <1>5, ExpireThreads
<1>6. ASSUME NEW x \in Delayed, WorkTimeout(x) PROVE Whole'
  BY <1>1, <1>6, WorkTimeoutThreads
<1>7. CASE WorkReturn
  BY <1>1, <1>7, ReturnThreads
<1>8. CASE Clock
  BY <1>1, <1>8, ClockThreads
<1> QED
  BY <1>2, <1>3, <1>4, <1>5, <1>6, <1>7, <1>8 DEF Next

LEMMA WholeInvariance == Spec => []Whole
BY InitWhole, StepWhole, PTL DEF Spec

(* The threads, the queue, its works' flags and the places of the calls    *)
(* keep their types, whatever the workload.                                *)
THEOREM Types == Spec => []TypeOK
<1>1. Whole => TypeOK
  <2> SUFFICES ASSUME Whole PROVE TypeOK
    OBVIOUS
  <2>1. k \in KernelState /\ slice \in [Thread -> Nat \ {0}] /\ isr \in {"none", "timers"}
        /\ astray \in {"no", "work", "thread", "queue", "stack", "list"}
    BY DEF Whole, ThreadInv, Steady
  <2>2. /\ pc \in [Thread -> Location] /\ then \in [Thread -> Location]
        /\ w \in Queued /\ arg \in [Thread -> Args]
    BY DEF Whole, IInv, QueueInv, ControlInv
  <2> QED
    BY <2>1, <2>2 DEF TypeOK, Queued, Args
<1> QED
  BY <1>1, WholeInvariance, PTL

(* rt_workqueue_cancel_work_sync waits for the work that runs, and for no  *)
(* later one: _workqueue_work_completion releases everybody who waits      *)
(* before the worker takes another work, however many they are.            *)
THEOREM Answered == Spec => []SyncAnswered
<1>1. Whole => SyncAnswered
  BY DEF Whole, ThreadInv, SyncInv, Waits, SyncAnswered
<1> QED
  BY <1>1, WholeInvariance, PTL

(* The scheduler lock is enough for rt_workqueue_cancel_all_work: timer    *)
(* functions may put works in the list between any two steps of its walk,  *)
(* but nobody takes out a node it has read, or walks at the same time.     *)
THEOREM WalkSafe == Spec => []WalkInList
<1>1. Whole => WalkInList
  BY DEF Whole, ThreadInv, WalkInv, HasRead, WalkInList
<1> QED
  BY <1>1, WholeInvariance, PTL
=============================================================================
