----------------------------- MODULE Messaging -----------------------------
(***************************************************************************)
(* A system with all the other objects threads wait for: the same threads  *)
(* use the events, mailboxes, message queues, memory pools, completions,   *)
(* data queues and wait queues that exist, under the same scheduler and    *)
(* the same tick.                                                          *)
(***************************************************************************)
EXTENDS Event, Mailbox, MessageQueue, MemPool, Completion, DataQueue, WaitQueue

vars == <<k, pc, then, slice, isr, arg, alive, lists, wild, set, info, owed,
          left, run, waited, hand, mb, mq, blk, pool, done, due, dq, wq>>

(* A list belongs to one object. *)
Kinds == <<Events, Mailboxes, MqQueues, MemPools, Completions, DataQueues, WaitQueues>>

With(S) == S \cup {Private[q] : q \in S}

ASSUME MessagingAssumption ==
  \A i, j \in DOMAIN Kinds : i # j => With(Kinds[i]) \cap With(Kinds[j]) = {}

Init == /\ IpcInit /\ RetryInit
        /\ EventInit /\ MailInit /\ MqInit /\ PoolInit /\ CompletionInit /\ DqInit
        /\ WqInit

(* Steps that know nothing of the objects. *)
Common(t) ==
  \/ arg[t] \notin MemPools \cup DqLists /\ Removal(t)
  \/ (Reschedule(t) \/ Sleep(t) \/ SleepReturn(t)) /\ UNCHANGED ipcVars

ThreadStep(t) ==
  \/ /\ EventStep(t)
     /\ UNCHANGED <<retryVars, mb, mqVars, pool, completionVars, dq, wq>>
  \/ /\ MailStep(t)
     /\ UNCHANGED <<eventVars, mqVars, pool, completionVars, dq, wq>>
  \/ /\ MqStep(t)
     /\ UNCHANGED <<eventVars, mb, pool, completionVars, dq, wq>>
  \/ /\ MpStep(t)
     /\ UNCHANGED <<eventVars, mb, mqVars, completionVars, dq, wq>>
  \/ /\ CompletionStep(t)
     /\ UNCHANGED <<eventVars, retryVars, mb, mqVars, pool, dq, wq>>
  \/ /\ DqStep(t)
     /\ UNCHANGED <<eventVars, mb, mqVars, pool, completionVars, wq>>
  \/ /\ WqStep(t)
     /\ UNCHANGED <<eventVars, retryVars, mb, mqVars, pool, completionVars, dq>>
  \/ /\ Common(t)
     /\ UNCHANGED <<eventVars, retryVars, mb, mqVars, pool, completionVars, dq, wq>>

Interrupt ==
  \/ /\ EventInterrupt
     /\ UNCHANGED <<retryVars, mb, mqVars, pool, completionVars, dq, wq>>
  \/ /\ MailInterrupt
     /\ UNCHANGED <<eventVars, mqVars, pool, completionVars, dq, wq>>
  \/ /\ MqInterrupt
     /\ UNCHANGED <<eventVars, mb, pool, completionVars, dq, wq>>
  \/ /\ MpInterrupt
     /\ UNCHANGED <<eventVars, mb, mqVars, completionVars, dq, wq>>
  \/ /\ CompletionInterrupt
     /\ UNCHANGED <<eventVars, retryVars, mb, mqVars, pool, dq, wq>>
  \/ /\ DqInterrupt
     /\ UNCHANGED <<eventVars, mb, mqVars, pool, completionVars, wq>>
  \/ /\ WqInterrupt
     /\ UNCHANGED <<eventVars, retryVars, mb, mqVars, pool, completionVars, dq>>
  \/ /\ RetryTick \/ RetryTickEnd \/ \E t \in Thread : RetryExpire(t)
     /\ UNCHANGED <<eventVars, mb, mqVars, pool, completionVars, dq, wq>>

Next == (\E t \in Thread \ {Idle} : ThreadStep(t)) \/ Interrupt

Spec == Init /\ [][Next]_vars
-----------------------------------------------------------------------------
Location == {"user", "sched", "woken", "drain", "resume", "gone", "flagged",
             "complete", "completed"}
            \cup MpLocation \cup MailLocation \cup MqLocation \cup DqLocation
            \cup WqLocation

TypeOK ==
  /\ k \in KernelState
  /\ pc \in [Thread -> Location] /\ then \in [Thread -> Location]
  /\ slice \in [Thread -> Nat \ {0}] /\ isr \in {"none", "timers"}
  /\ IpcTypeOK /\ RetryTypeOK
  /\ EventTypeOK /\ MailTypeOK /\ MqTypeOK /\ PoolTypeOK /\ CompletionTypeOK /\ DqTypeOK
  /\ WqTypeOK

(* What a thread waits for in a mailbox, a message queue, a memory pool, a *)
(* completion, a data queue or a wait queue is not there: no send, receive,*)
(* free, done, push, pop, reset or wake-up is lost on a waiter.            *)
NoStrandedUser ==
  NoLostMail /\ NoLostMessage /\ NoLostBlock /\ DonesAnswered /\ DataQueueMoves
  /\ WakeupsAnswered

(* What goes into a mailbox, a message queue or a data queue comes out     *)
(* once and in order, through hands, retries, resets and the wrap of the   *)
(* offsets: each implements the abstract buffer.                           *)
BuffersAreChannels ==
  MailboxesAreChannels /\ QueuesAreChannels /\ DataQueuesAreChannels
=============================================================================
