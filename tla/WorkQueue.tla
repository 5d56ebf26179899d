----------------------------- MODULE WorkQueue -----------------------------
(***************************************************************************)
(* A work queue of workqueue.c: clients submit works, a worker thread runs *)
(* their functions one after the other, delayed works are submitted by a   *)
(* timer function.  No project defines RT_USING_TIMER_SOFT, so that        *)
(* function runs in the tick interrupt.                                    *)
(*                                                                         *)
(*   w.list        queue->work_list                                        *)
(*   w.current     queue->work_current                                     *)
(*   w.pending     the works with RT_WORK_STATE_PENDING                    *)
(*   w.submitting  those with RT_WORK_STATE_SUBMITTING                     *)
(*   w.armed       the delayed works whose timer runs                      *)
(*   w.attached    those whose workqueue pointer is not RT_NULL            *)
(*   arg[t]        the local variables of t's call: the work it is about   *)
(*                 (in a walk through the list, node), next, and how many  *)
(*                 calls of itself a cancellation is inside of             *)
(*   astray        what went wrong: the head of an empty list taken for a  *)
(*                 "work", a worker that is not suspended made ready       *)
(*                 ("thread"), RT_NULL taken for a "queue", no "stack"     *)
(*                 left, a "list" changed in the middle of another change. *)
(*                 The model stops there: what follows is undefined        *)
(*                                                                         *)
(* The worker is at "user" inside a work function, which may submit works, *)
(* sleep and return.  k.wait[Sem] are the waiters of queue->sem, whose     *)
(* value is 0 between two sections.  In the middle of a cancellation that  *)
(* is part of a submission then[t] is "attach".  A delayed work is         *)
(* submitted with a delay and cancelled by one thread, its owner; as no    *)
(* type is tested there, every thread may queue it by rt_workqueue_dowork  *)
(* or rt_workqueue_critical_work and take it out by the synchronous        *)
(* cancellation.                                                           *)
(***************************************************************************)
EXTENDS Threads

CONSTANTS Worker,    \* queue->work_thread
          Sem,       \* the wait list of queue->sem
          Work, None,
          Delayed,   \* the works of RT_WORK_TYPE_DELAYED
          Owner,     \* the thread that submits and cancels a delayed work
          Calls,     \* what each thread calls
          MaxDepth   \* calls inside each other that a stack has room for

Operation == {"submit", "dowork", "critical", "cancel", "sync", "all", "sleep"}

ASSUME WorkQueueAssumption ==
  /\ Worker \in Thread \ {Idle} /\ Sem \in Queue
  /\ Work # {} /\ None \notin Work /\ Delayed \subseteq Work
  /\ Owner \in [Delayed -> Thread \ {Worker, Idle}]
  /\ Calls \in [Thread -> SUBSET Operation] /\ MaxDepth \in Nat

VARIABLES w, arg, astray
vars == <<k, pc, then, slice, isr, w, arg, astray>>

May(t, op)  == At(t, "user") /\ op \in Calls[t]
About(t, x) == arg' = [arg EXCEPT ![t].work = x]
Plain       == Work \ Delayed

(* A system whose worker sleeps in the function of some work. *)
Init == /\ AllAsleep
        /\ \E x \in Work :
             w = [list |-> << >>, current |-> x, pending |-> {}, submitting |-> {},
                  armed |-> {}, attached |-> Delayed \cap {x}]
        /\ arg = [t \in Thread |-> [work |-> w.current, next |-> None, depth |-> 0]]
        /\ astray = "no"
-----------------------------------------------------------------------------
(* Slip: the work that runs may be submitted. *)
RefusedPending(x) == x \in w.pending

(* Submissions answered -RT_EBUSY, which change nothing. *)
Refused(x) == x \in w.pending \/ x = w.current

(* rt_list_remove and rt_list_insert_after(queue->work_list.prev). *)
InsertWork(u, x) == [u EXCEPT !.list = Append(Without(@, x), x)]

(* rt_list_remove and the flag. *)
RemoveWork(u, x) == [u EXCEPT !.list = Without(@, x), !.pending = @ \ {x}]

(* node->next; a node in no list is linked with itself. *)
NextIn(s, x) ==
  IF x \notin ToSet(s) THEN x
  ELSE IF x = Last(s) THEN None
       ELSE s[1 + CHOOSE i \in 1 .. Len(s) - 1 : s[i] = x]

(* rt_workqueue_submit_work dispatches on the type, rt_workqueue_dowork    *)
(* does not.                                                               *)
MaySubmit(t, x) == May(t, IF x \in Delayed THEN "dowork" ELSE "submit")

(* The worker is resumed only if it runs no work. *)
WakeOrReturn(t) == Goto(t, IF w.current = None THEN "resume" ELSE "user")

(* Slip: the worker is not resumed. *)
SubmitQuiet(t, x) ==
  /\ MaySubmit(t, x) /\ ~Refused(x)
  /\ w' = [InsertWork(w, x) EXCEPT !.pending = @ \cup {x}]
  /\ UNCHANGED <<k, pc, then, slice, isr, arg, astray>>

(* _workqueue_submit_work up to its rt_thread_resume. *)
Submit(t, x) ==
  /\ MaySubmit(t, x) /\ ~Refused(x)
  /\ w' = [InsertWork(w, x) EXCEPT !.pending = @ \cup {x}]
  /\ WakeOrReturn(t)
  /\ UNCHANGED <<k, then, slice, isr, arg, astray>>

(* rt_workqueue_critical_work: the same, without the flag. *)
CriticalWork(t, x) ==
  /\ May(t, "critical") /\ x # w.current
  /\ w' = InsertWork(w, x)
  /\ WakeOrReturn(t)
  /\ UNCHANGED <<k, then, slice, isr, arg, astray>>

(* rt_thread_resume looks at the state with interrupts enabled. *)
ResumeCheck(t) ==
  /\ At(t, "resume")
  /\ Goto(t, IF k.stat[Worker] = "SUSPEND" THEN "take" ELSE "sched")
  /\ UNCHANGED <<k, then, slice, isr, w, arg, astray>>

(* Its two sections.  Interrupts were enabled before each: the worker may  *)
(* be ready by now, or sleep again.                                        *)
ResumeTake(t) ==
  /\ At(t, "take")
  /\ \/ /\ k.stat[Worker] = "SUSPEND"
        /\ k' = ResumeUnlink(k, Worker)
        /\ Goto(t, "insert") /\ UNCHANGED astray
     \/ /\ k.stat[Worker] # "SUSPEND"
        /\ astray' = "thread" /\ UNCHANGED <<k, pc>>
  /\ UNCHANGED <<then, slice, isr, w, arg>>

ResumeInsert(t) ==
  /\ At(t, "insert")
  /\ \/ /\ k.stat[Worker] = "SUSPEND" /\ ~k.timer[Worker]
        /\ k' = ScheduleInsert(k, Worker)
        /\ Goto(t, "sched") /\ UNCHANGED astray
     \/ /\ k.stat[Worker] # "SUSPEND" \/ k.timer[Worker]
        /\ astray' = "thread" /\ UNCHANGED <<k, pc>>
  /\ UNCHANGED <<then, slice, isr, w, arg>>
-----------------------------------------------------------------------------
(* _workqueue_cancel_work: -RT_EBUSY for the work that runs. *)
CancelWork(t, x) ==
  /\ May(t, "cancel") /\ x \in Plain /\ x # w.current
  /\ w' = RemoveWork(w, x)
  /\ UNCHANGED <<k, pc, then, slice, isr, arg, astray>>

(* rt_workqueue_cancel_work_sync: if the work runs, rt_sem_take waits with *)
(* interrupts disabled: the switch is pending until the call enables them, *)
(* after it cleared the flag.  A work does not wait for its own end.       *)
CancelSync(t, x) ==
  /\ May(t, "sync") /\ (t = Worker => x # w.current)
  /\ About(t, x)
  /\ w' = RemoveWork(w, x)
  /\ k' = IF x # w.current THEN k
          ELSE Schedule(IpcSuspend([k EXCEPT !.error[t] = "EOK"], Sem, t, "FIFO"))
  /\ UNCHANGED <<pc, then, slice, isr, astray>>

(* Slip: the scheduler is not locked. *)
CancelAllUnlocked(t) ==
  /\ May(t, "all")
  /\ Goto(t, "first")
  /\ UNCHANGED <<k, then, slice, isr, w, arg, astray>>

(* rt_workqueue_cancel_all_work walks through the list with the scheduler  *)
(* locked but interrupts enabled.                                          *)
CancelAll(t) ==
  /\ May(t, "all")
  /\ k' = [k EXCEPT !.lock = @ + 1]
  /\ Goto(t, "first")
  /\ UNCHANGED <<then, slice, isr, w, arg, astray>>

WalkFirst(t) ==
  /\ At(t, "first")
  /\ About(t, IF w.list = << >> THEN None ELSE Head(w.list))
  /\ Goto(t, "walk")
  /\ UNCHANGED <<k, then, slice, isr, w, astray>>

(* It reads the next node before it unlinks this one. *)
WalkNext(t) ==
  /\ At(t, "walk") /\ arg[t].work # None
  /\ arg' = [arg EXCEPT ![t].next = NextIn(w.list, arg[t].work)]
  /\ Goto(t, "unlink")
  /\ UNCHANGED <<k, then, slice, isr, w, astray>>

(* The flags stay. *)
WalkUnlink(t) ==
  /\ At(t, "unlink")
  /\ w' = [w EXCEPT !.list = Without(@, arg[t].work)]
  /\ arg' = [arg EXCEPT ![t].work = arg[t].next, ![t].next = None]
  /\ Goto(t, "walk")
  /\ UNCHANGED <<k, then, slice, isr, astray>>

WalkEnd(t) ==
  /\ At(t, "walk") /\ arg[t].work = None
  /\ k' = [k EXCEPT !.lock = IF @ > 0 THEN @ - 1 ELSE 0]
  /\ Goto(t, "sched")
  /\ UNCHANGED <<then, slice, isr, w, arg, astray>>
-----------------------------------------------------------------------------
(* _workqueue_submit_delayed_work: one that was submitted is cancelled.    *)
SubmitDelayed(t, x) ==
  /\ May(t, "submit") /\ x \in Delayed /\ t = Owner[x]
  /\ About(t, x)
  /\ \/ /\ x \in w.attached
        /\ Goto(t, "cancel") /\ Then(t, "attach")
     \/ /\ x \notin w.attached
        /\ Goto(t, "attach") /\ UNCHANGED then
  /\ UNCHANGED <<k, slice, isr, w, astray>>

(* Its rest: the work is submitted at once, or its timer is started.  The  *)
(* sections are one step: what they write nobody else reads before the     *)
(* timer runs.                                                             *)
Attach(t) ==
  LET x == arg[t].work
      u == [w EXCEPT !.attached = @ \cup {x}]
  IN  /\ At(t, "attach")
      /\ \/ /\ w' = IF Refused(x) THEN u
                    ELSE [InsertWork(u, x) EXCEPT !.pending = @ \cup {x}]
            /\ Goto(t, IF ~Refused(x) /\ w.current = None THEN "resume" ELSE "user")
         \/ /\ w' = [u EXCEPT !.submitting = @ \cup {x}, !.armed = @ \cup {x}]
            /\ Goto(t, "user")
      /\ UNCHANGED <<k, then, slice, isr, arg, astray>>

(* _workqueue_cancel_delayed_work: -EINVAL for one that is not attached.   *)
CancelDelayed(t, x) ==
  /\ May(t, "cancel") /\ x \in w.attached /\ t = Owner[x]
  /\ About(t, x)
  /\ Goto(t, "cancel")
  /\ UNCHANGED <<k, then, slice, isr, w, astray>>

(* It reads the flags one after the other with interrupts enabled.  For a  *)
(* pending work it calls rt_workqueue_cancel_work, which calls it again,   *)
(* as the work is a delayed one: until somebody else clears the flag, or   *)
(* the stack is full.                                                      *)
PendingTest(t) ==
  /\ At(t, "cancel")
  /\ \/ /\ arg[t].work \notin w.pending
        /\ Goto(t, "timer") /\ UNCHANGED <<arg, astray>>
     \/ /\ arg[t].work \in w.pending /\ arg[t].depth < MaxDepth
        /\ arg' = [arg EXCEPT ![t].depth = @ + 1]
        /\ UNCHANGED <<pc, astray>>
     \/ /\ arg[t].work \in w.pending /\ arg[t].depth >= MaxDepth
        /\ astray' = "stack" /\ UNCHANGED <<pc, arg>>
  /\ UNCHANGED <<k, then, slice, isr, w>>

(* Slip: a timer that runs is left alone. *)
TimerTestNever(t) ==
  /\ At(t, "timer")
  /\ Goto(t, "detach")
  /\ UNCHANGED <<k, then, slice, isr, w, arg, astray>>

TimerTest(t) ==
  /\ At(t, "timer")
  /\ Goto(t, IF arg[t].work \in w.submitting THEN "stop" ELSE "detach")
  /\ UNCHANGED <<k, then, slice, isr, w, arg, astray>>

StopTimer(t) ==
  /\ At(t, "stop")
  /\ w' = [w EXCEPT !.armed = @ \ {arg[t].work},
                    !.submitting = @ \ {arg[t].work}]
  /\ Goto(t, "detach")
  /\ UNCHANGED <<k, then, slice, isr, arg, astray>>

(* The call returns to the one it is nested in, which does the same. *)
Detach(t) ==
  /\ At(t, "detach")
  /\ w' = [w EXCEPT !.attached = @ \ {arg[t].work},
                    !.pending = @ \ {arg[t].work}]
  /\ \/ /\ arg[t].depth > 0
        /\ arg' = [arg EXCEPT ![t].depth = @ - 1]
        /\ UNCHANGED <<pc, then>>
     \/ /\ arg[t].depth = 0
        /\ Goto(t, then[t]) /\ Then(t, "user") /\ UNCHANGED arg
  /\ UNCHANGED <<k, slice, isr, astray>>

(* Inserting x at the end changes a link that t changes in the same list:  *)
(* an interrupt in the middle of t's rt_list_remove leaves the list torn.  *)
Tears(t, x) ==
  LET n == arg[t].work
  IN  /\ pc[t] = "unlink"
      /\ \/ x = n \/ x = NextIn(w.list, n) \/ n = NextIn(w.list, x)
         \/ NextIn(w.list, n) = None

(* _delayed_work_timeout_handler in the tick interrupt. *)
WorkTimeout(x) ==
  LET u == [w EXCEPT !.armed = @ \ {x}, !.submitting = @ \ {x}]
  IN  /\ isr = "timers" /\ x \in w.armed
      /\ \/ /\ w' = IF Refused(x) THEN u
                    ELSE [InsertWork(u, x) EXCEPT !.pending = @ \cup {x}]
            /\ astray' = IF x \in w.attached THEN "no" ELSE "queue"
         \/ /\ ~Refused(x) /\ \E t \in Thread : Tears(t, x)
            /\ w' = u /\ astray' = "list"
      /\ k' = IF Refused(x) \/ w.current # None THEN k
              ELSE Schedule(ThreadResume(k, Worker))
      /\ UNCHANGED <<pc, then, slice, isr, arg>>
-----------------------------------------------------------------------------
(* _workqueue_thread_entry looks for work with interrupts enabled. *)
WorkerTest ==
  /\ At(Worker, "check")
  /\ Goto(Worker, IF w.list = << >> THEN "suspend" ELSE "fetch")
  /\ UNCHANGED <<k, then, slice, isr, w, arg, astray>>

WorkerSuspend ==
  /\ At(Worker, "suspend")
  /\ k' = ThreadSuspend(k, Worker)
  /\ Goto(Worker, "sched") /\ Then(Worker, "fetch")
  /\ UNCHANGED <<slice, isr, w, arg, astray>>

(* Slip: the flag stays set. *)
FetchPending ==
  /\ At(Worker, "fetch") /\ w.list # << >>
  /\ w' = [w EXCEPT !.list = Tail(@), !.current = Head(w.list)]
  /\ Goto(Worker, "user")
  /\ UNCHANGED <<k, then, slice, isr, arg, astray>>

(* It takes what follows the head of the list, without another look. *)
Fetch ==
  /\ At(Worker, "fetch")
  /\ \/ /\ w.list # << >>
        /\ w' = [w EXCEPT !.list = Tail(@), !.current = Head(w.list),
                          !.pending = @ \ {Head(w.list)}]
        /\ Goto(Worker, "user")
        /\ UNCHANGED astray
     \/ /\ w.list = << >>
        /\ astray' = "work"
        /\ UNCHANGED <<pc, w>>
  /\ UNCHANGED <<k, then, slice, isr, arg>>

(* The work function has returned. *)
WorkReturn ==
  /\ At(Worker, "user")
  /\ w' = [w EXCEPT !.current = None]
  /\ Goto(Worker, "ack")
  /\ UNCHANGED <<k, then, slice, isr, arg, astray>>

(* Slip: the semaphore is released once. *)
AcknowledgeOne ==
  /\ At(Worker, "ack")
  /\ k' = IF k.wait[Sem] = << >> THEN k ELSE IpcResume(k, Sem)
  /\ Goto(Worker, "sched") /\ Then(Worker, "check")
  /\ UNCHANGED <<slice, isr, w, arg, astray>>

(* Slip: the worker goes on to the next work at once. *)
AcknowledgeOnward ==
  /\ At(Worker, "ack")
  /\ k' = FoldLeft(ThreadResume, k, k.wait[Sem])
  /\ Goto(Worker, "sched") /\ Then(Worker, "fetch")
  /\ UNCHANGED <<slice, isr, w, arg, astray>>

(* _workqueue_work_completion: with the scheduler locked the semaphore is  *)
(* released until nobody waits and a token is left, which is taken.        *)
Acknowledge ==
  /\ At(Worker, "ack")
  /\ k' = FoldLeft(ThreadResume, k, k.wait[Sem])
  /\ Goto(Worker, "sched") /\ Then(Worker, "check")
  /\ UNCHANGED <<slice, isr, w, arg, astray>>
-----------------------------------------------------------------------------
WorkerStep == WorkerTest \/ WorkerSuspend \/ Fetch \/ Acknowledge

(* The steps inside a call or in the worker's loop. *)
KernelCode(t) ==
  \/ t = Worker /\ WorkerStep
  \/ ResumeCheck(t) \/ ResumeTake(t) \/ ResumeInsert(t)
  \/ WalkFirst(t) \/ WalkNext(t) \/ WalkUnlink(t) \/ WalkEnd(t)
  \/ Attach(t) \/ PendingTest(t) \/ TimerTest(t) \/ StopTimer(t) \/ Detach(t)
  \/ (Reschedule(t) \/ SleepReturn(t)) /\ UNCHANGED <<w, arg, astray>>

CallStep(t) ==
  \/ \E x \in Work : \/ Submit(t, x) \/ CriticalWork(t, x) \/ CancelWork(t, x)
                     \/ CancelSync(t, x) \/ SubmitDelayed(t, x) \/ CancelDelayed(t, x)
  \/ CancelAll(t)
  \/ "sleep" \in Calls[t] /\ Sleep(t) /\ UNCHANGED <<w, arg, astray>>

Clock == (Tick \/ TickEnd) /\ UNCHANGED <<w, arg, astray>>
Expire(t) == TimerExpire(t) /\ UNCHANGED <<w, arg, astray>>

Sane == astray = "no"

Next == /\ Sane
        /\ \/ \E t \in Thread \ {Idle} : KernelCode(t) \/ CallStep(t) \/ Expire(t)
           \/ WorkReturn
           \/ \E x \in Delayed : WorkTimeout(x)
           \/ Clock

Spec == Init /\ [][Next]_vars

(* A thread in the kernel goes on, a work function returns, the tick comes *)
(* and ends, and an expired timer is not passed over for ever.             *)
Fairness == /\ \A t \in Thread \ {Idle} : /\ SF_vars(Sane /\ KernelCode(t))
                                          /\ SF_vars(Sane /\ Expire(t))
            /\ SF_vars(Sane /\ WorkReturn)
            /\ WF_vars(Sane /\ Clock)

FairSpec == Spec /\ Fairness
-----------------------------------------------------------------------------
Location == {"user", "sched", "woken", "resume", "take", "insert",
             "first", "walk", "unlink", "cancel", "timer", "stop", "detach",
             "attach", "check", "suspend", "fetch", "ack"}

TypeOK ==
  /\ k \in KernelState
  /\ pc \in [Thread -> Location] /\ then \in [Thread -> Location]
  /\ slice \in [Thread -> Nat \ {0}] /\ isr \in {"none", "timers"}
  /\ w \in [list : Seq(Work), current : Work \cup {None}, pending : SUBSET Work,
            submitting : SUBSET Work, armed : SUBSET Work, attached : SUBSET Work]
  /\ arg \in [Thread -> [work : Work \cup {None}, next : Work \cup {None},
                         depth : 0 .. MaxDepth]]
  /\ astray \in {"no", "work", "thread", "queue", "stack", "list"}

(* "fix the re-work issue": a work is queued once, and not while it runs,  *)
(* however submissions, cancellations and the worker interleave.           *)
QueuedOnce == IsInjective(w.list) /\ w.current \notin ToSet(w.list)

(* workqueue.h: "Work item pending state".  The flag that makes a          *)
(* submission be refused belongs to a work that is in the list.            *)
PendingListed == w.pending \subseteq ToSet(w.list)

(* workqueue.h: "Work item pending state".  No step takes a pending work   *)
(* out of the list and leaves its flag behind, but the walk of             *)
(* rt_workqueue_cancel_all_work, which clears no flags.                    *)
FlagFollows ==
  [][\A x \in w'.pending \ ToSet(w'.list) :
       \/ x \in w.pending \ ToSet(w.list)
       \/ \E t \in Thread : At(t, "unlink") /\ arg[t].work = x]_vars

(* rt_workqueue_cancel_work_sync: "wait for work completion".  Who waits,  *)
(* waits for the work that runs, or is about to be told that it is over:   *)
(* the worker does not begin another before.                               *)
SyncAnswered ==
  \A t \in ToSet(k.wait[Sem]) : arg[t].work = w.current \/ pc[Worker] = "ack"

(* "resume work thread": while works are queued the worker does not sleep  *)
(* for lack of work, unless a submission is about to resume it.            *)
NoForgottenWork ==
  w.list # << >> /\ k.stat[Worker] = "SUSPEND" /\ then[Worker] # "woken"
                /\ pc[Worker] = "fetch" =>
    \E t \in Thread : pc[t] \in {"resume", "take", "insert"}

(* "we have work to do with": the worker takes a work from the list.       *)
WorkToDo == astray # "work"

(* _delayed_work_timeout_handler submits to the queue its work points to:  *)
(* no cancellation leaves a timer behind that finds RT_NULL there.         *)
TimerFindsQueue == w.armed \subseteq w.attached /\ astray # "queue"

(* rt_workqueue_cancel_all_work: the nodes its walk has read stay in the   *)
(* list until it unlinks them, whatever the timer functions insert; a      *)
(* node taken out by somebody else is linked with itself and would keep    *)
(* the walk going for ever.                                                *)
WalkInList ==
  \A t \in Thread :
    /\ pc[t] \in {"walk", "unlink"} => arg[t].work \in ToSet(w.list) \cup {None}
    /\ pc[t] = "unlink" => arg[t].next \in ToSet(w.list) \cup {None}

(* _workqueue_cancel_delayed_work: "Remove from the queue if already       *)
(* submitted".  A cancellation ends whatever the work's state is.          *)
CancelReturns == astray # "stack"

(* _workqueue_cancel_delayed_work: "Remove from the queue if already       *)
(* submitted" and "Detach from workqueue".  A delayed work its owner has   *)
(* cancelled is not in the queue when the call is over.                    *)
CancelledStays ==
  \A x \in Delayed \ w.attached : pc[Owner[x]] = "user" => x \notin ToSet(w.list)

(* A queued work does not stay there: it is run or taken out. *)
WorkGetsDone == \A x \in Work : x \in ToSet(w.list) ~> x \notin ToSet(w.list)
=============================================================================
