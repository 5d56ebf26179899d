----------------------------- MODULE WaitQueue -----------------------------
(***************************************************************************)
(* The wait queues of waitqueue.c, on which pipes and serial devices wait: *)
(* a waiter is not linked by its tlist node but by one on its stack, which *)
(* stays in the queue when the waiter times out.                           *)
(*                                                                         *)
(*   wq[q].flag   queue->flag is RT_WQ_FLAG_WAKEUP                         *)
(*   wq[q].nodes  the threads whose nodes are in queue->waiting_list       *)
(*                                                                         *)
(* The condition of a wait is 0, as in all its calls, and the function of  *)
(* a node is __wqueue_default_wake; dfs/src/poll.c has its own.            *)
(***************************************************************************)
EXTENDS Ipc

CONSTANTS WaitQueues,  \* the wait queues; k.wait has nothing of them
          OneUser      \* those only one thread at a time waits in

ASSUME WaitQueueAssumption == OneUser \subseteq WaitQueues /\ WaitQueues \subseteq Queue

VARIABLE wq

WqLocation == {"wqueue", "wqnode"}

(* rt_wqueue_init *)
WqInit == wq = [q \in WaitQueues |-> [flag |-> FALSE, nodes |-> << >>]]

Waits(t, q) == arg[t] = q /\ {pc[t], then[t]} \cap WqLocation # {}

(* rt_wqueue_wait up to its rt_schedule; with the flag set it takes the    *)
(* flag and returns.  thread->error is not reset.                          *)
WqWait(t, q) ==
  /\ Call(t, q) /\ (q \in OneUser => \A u \in Thread : ~Waits(u, q))
  /\ \/ /\ wq[q].flag
        /\ wq' = [wq EXCEPT ![q].flag = FALSE]
        /\ UNCHANGED <<k, pc, then, arg>>
     \/ /\ ~wq[q].flag /\ k.lock = 0
        /\ wq' = [wq EXCEPT ![q].nodes = Append(@, t)]
        /\ \E timed \in BOOLEAN :
             /\ timed => q \in Timed
             /\ k' = IF timed THEN TimerStart(ThreadSuspend(k, t), t)
                              ELSE ThreadSuspend(k, t)
        /\ Goto(t, "sched") /\ Then(t, "wqueue") /\ About(t, q)
  /\ UNCHANGED <<slice, isr, alive, lists, wild>>

(* After rt_schedule the flag is cleared, whatever ended the wait; the     *)
(* node leaves the queue in a second section.                              *)
WqReturn(t) ==
  /\ At(t, "wqueue")
  /\ wq' = [wq EXCEPT ![arg[t]].flag = FALSE]
  /\ Goto(t, "wqnode")
  /\ UNCHANGED <<k, then, slice, isr, ipcVars>>

WqRemove(t) ==
  /\ At(t, "wqnode")
  /\ wq' = [wq EXCEPT ![arg[t]].nodes = Without(@, t)]
  /\ Goto(t, "user")
  /\ UNCHANGED <<k, then, slice, isr, ipcVars>>
-----------------------------------------------------------------------------
(* rt_wqueue_wakeup: the flag is set, the first node leaves the queue. *)
Signalled(q) == [wq EXCEPT ![q].flag = TRUE, ![q].nodes = IF @ = << >> THEN @ ELSE Tail(@)]

(* Its thread is resumed if it still sleeps. *)
WokenThread(q) == ThreadResume(k, Head(wq[q].nodes))

WqWakeup(t, q) ==
  /\ Call(t, q)
  /\ wq' = Signalled(q)
  /\ \/ wq[q].nodes = << >> /\ UNCHANGED <<k, pc>>
     \/ wq[q].nodes # << >> /\ k' = WokenThread(q) /\ Goto(t, "sched")
  /\ UNCHANGED <<then, slice, isr, ipcVars>>

(* The same in an interrupt. *)
IsrWqWakeup(q) ==
  /\ isr = "none" /\ alive[q]
  /\ wq' = Signalled(q)
  /\ k' = IF wq[q].nodes = << >> THEN k ELSE Schedule(WokenThread(q))
  /\ UNCHANGED <<pc, then, slice, isr, ipcVars>>

WqStep(t) == \/ \E q \in WaitQueues : WqWait(t, q) \/ WqWakeup(t, q)
             \/ WqReturn(t) \/ WqRemove(t)

WqInterrupt == \E q \in WaitQueues : IsrWqWakeup(q)
-----------------------------------------------------------------------------
WqTypeOK == wq \in [WaitQueues -> [flag : BOOLEAN, nodes : Seq(Thread)]]

(* "Fix the wait queue issue when wakeup a soon to blocked thread": nobody *)
(* sleeps through a wake-up but for a thread that is on its way out of the *)
(* queue, and no sleeper's node is missing, whatever timeouts, late        *)
(* wake-ups and the two sections of the return do.                         *)
WakeupsAnswered ==
  \A q \in WaitQueues, t \in Thread :
    Waits(t, q) /\ k.stat[t] = "SUSPEND" =>
      /\ t \in ToSet(wq[q].nodes)
      /\ wq[q].flag => \E u \in Thread : Waits(u, q) /\ k.stat[u] # "SUSPEND"
=============================================================================
