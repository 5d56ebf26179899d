----------------------------- MODULE DataQueue -----------------------------
(***************************************************************************)
(* The data queues of dataqueue.c: a ring addressed by two running 16-bit  *)
(* indices, poppers in k.wait[d] and pushers in k.wait[Private[d]].  A     *)
(* pusher is resumed only when a pop reaches the low-water mark, and each  *)
(* wait of one call has the whole timeout.                                 *)
(*                                                                         *)
(*   dq[d]    queue->queue (item), put_index and get_index                 *)
(*                                                                         *)
(* MaxPut bounds put_index: the model ends before the indices wrap.        *)
(***************************************************************************)
EXTENDS Retry

CONSTANTS DataQueues,  \* the lists of poppers
          DqSize,      \* queue->size
          Lwm,         \* queue->lwm
          IndexMod,    \* 2^16: both indices are rt_uint16_t
          MaxPut

ASSUME DataQueueAssumption ==
  /\ DataQueues \subseteq Queue
  /\ DqSize \in Nat \ {0} /\ Lwm \in 0 .. DqSize - 1
  /\ IndexMod \in Nat \ {0} /\ MaxPut \in 0 .. IndexMod - 1

VARIABLE dq

DqLocation == {"pushing", "popping", "popped"}

(* rt_data_queue_init *)
DqInit == dq = [d \in DataQueues |->
                  [item |-> [i \in 0 .. DqSize - 1 |-> None], put |-> 0, get |-> 0]]

(* The difference of the indices, as an int. *)
Count(q) == q.put - q.get

Pushed(q, v) == [q EXCEPT !.item[q.put % DqSize] = v, !.put = (@ + 1) % IndexMod]
Popped(q)    == [q EXCEPT !.get = (@ + 1) % IndexMod]

-----------------------------------------------------------------------------
IsFull(q) == Count(q) = DqSize

(* rt_data_queue_push from the test of its loop. *)
DqPushLoop(t, d, v, n) ==
  \/ /\ ~IsFull(dq[d])
     /\ dq' = [dq EXCEPT ![d] = Pushed(@, v)]
     /\ ResumeFirst(t, d, "user")
     /\ Hold(t, None) /\ Done(t)
  \/ /\ IsFull(dq[d])
     /\ WaitFor(t, Private[d], n, "pushing")
     /\ Hold(t, v)
     /\ UNCHANGED <<dq, waited>>

(* rt_data_queue_push; with timeout = 0 and a full queue it changes        *)
(* nothing.                                                                *)
DqPush(t, d) ==
  /\ Call(t, d) /\ dq[d].put < MaxPut
  /\ \E v \in Message, n \in Timeouts(Private[d]) : DqPushLoop(t, d, v, n)
  /\ About(t, d)
  /\ UNCHANGED <<alive, lists, wild>>

DqPushAgain(t) ==
  /\ At(t, "pushing")
  /\ \/ k.error[t] # "EOK" /\ GiveUp(t) /\ UNCHANGED dq
     \/ /\ k.error[t] = "EOK" /\ dq[arg[t]].put < MaxPut
        /\ DqPushLoop(t, arg[t], hand[t], left[t])
  /\ UNCHANGED ipcVars

(* rt_data_queue_push in an interrupt. *)
IsrDqPush(d) ==
  /\ isr = "none" /\ alive[d] /\ dq[d].put < MaxPut /\ ~IsFull(dq[d])
  /\ \E v \in Message : dq' = [dq EXCEPT ![d] = Pushed(@, v)]
  /\ IsrResumeFirst(d)
  /\ UNCHANGED <<ipcVars, retryVars>>
-----------------------------------------------------------------------------
(* Slip: a pusher is resumed only by the pop that reaches the mark. *)
LowWaterReached(q) == Count(q) = Lwm

(* Whether a pop that leaves q resumes a pusher. *)
LowWater(q) == Count(q) <= Lwm

(* rt_data_queue_pop from the test of its loop. *)
DqPopLoop(t, d, n) ==
  \/ /\ dq[d].get # dq[d].put
     /\ dq' = [dq EXCEPT ![d] = Popped(@)]
     /\ IF LowWater(Popped(dq[d]))
        THEN ResumeFirst(t, Private[d], "popped")
        ELSE Goto(t, "popped") /\ UNCHANGED <<k, then, slice, isr>>
     /\ Hold(t, dq[d].item[dq[d].get % DqSize]) /\ Done(t)
  \/ /\ dq[d].get = dq[d].put
     /\ WaitFor(t, d, n, "popping")
     /\ UNCHANGED <<dq, hand, waited>>

(* rt_data_queue_pop; with timeout = 0 and an empty queue it changes       *)
(* nothing.                                                                *)
DqPop(t, d) ==
  /\ Call(t, d)
  /\ \E n \in Timeouts(d) : DqPopLoop(t, d, n)
  /\ About(t, d)
  /\ UNCHANGED <<alive, lists, wild>>

DqPopAgain(t) ==
  /\ At(t, "popping")
  /\ \/ k.error[t] # "EOK" /\ GiveUp(t) /\ UNCHANGED dq
     \/ k.error[t] = "EOK" /\ DqPopLoop(t, arg[t], left[t])
  /\ UNCHANGED ipcVars

(* rt_data_queue_pop in an interrupt. *)
IsrDqPop(d) ==
  /\ isr = "none" /\ alive[d] /\ dq[d].get # dq[d].put
  /\ dq' = [dq EXCEPT ![d] = Popped(@)]
  /\ IF LowWater(Popped(dq[d])) THEN IsrResumeFirst(Private[d])
     ELSE UNCHANGED <<k, pc, then, slice, isr>>
  /\ UNCHANGED <<ipcVars, retryVars>>

(* The popper has its item. *)
DqReturn(t) ==
  /\ At(t, "popped")
  /\ Hold(t, None)
  /\ Goto(t, "user")
  /\ UNCHANGED <<k, then, slice, isr, ipcVars, left, run, waited, dq>>
-----------------------------------------------------------------------------
(* rt_data_queue_reset: with the scheduler locked the poppers, then the    *)
(* pushers leave with -RT_ERROR, one at a time; each list is looked at     *)
(* with interrupts enabled.  The items and the indices stay.               *)
DqReset(t, d) ==
  /\ Call(t, d)
  /\ k' = [k EXCEPT !.lock = @ + 1]
  /\ About(t, d)
  /\ Goto(t, "drain")
  /\ UNCHANGED <<then, slice, isr, alive, lists, wild>>

(* The other list; then the scheduler is unlocked, which calls             *)
(* rt_schedule, and it is called once more.                                *)
DqDrained(t) ==
  /\ At(t, "gone")
  /\ \/ /\ arg[t] # Private[arg[t]]
        /\ About(t, Private[arg[t]])
        /\ Goto(t, "drain")
        /\ UNCHANGED <<k, then>>
     \/ /\ arg[t] = Private[arg[t]]
        /\ k' = [k EXCEPT !.lock = @ - 1]
        /\ Goto(t, "sched") /\ Then(t, "sched")
        /\ UNCHANGED arg
  /\ UNCHANGED <<slice, isr, alive, lists, wild>>

DqLists == DataQueues \cup {Private[d] : d \in DataQueues}

DqStep(t) ==
  \/ \E d \in DataQueues : \/ DqPush(t, d) \/ DqPop(t, d)
                           \/ DqReset(t, d) /\ UNCHANGED <<retryVars, dq>>
  \/ DqPushAgain(t) \/ DqPopAgain(t) \/ DqReturn(t)
  \/ /\ arg[t] \in DqLists
     /\ DrainCheck(t) \/ DrainOne(t) \/ DqDrained(t)
     /\ UNCHANGED <<retryVars, dq>>

DqInterrupt == \E d \in DataQueues : IsrDqPush(d) \/ IsrDqPop(d)
-----------------------------------------------------------------------------
DqTypeOK == dq \in [DataQueues ->
              [item : [0 .. DqSize - 1 -> Message \cup {None}],
               put : 0 .. IndexMod - 1, get : 0 .. IndexMod - 1]]

(* A popper waits for an item, a pusher for the low-water mark, and for    *)
(* nothing that is there, unless enough threads that were woken for it     *)
(* have not run yet.                                                       *)
DataQueueMoves ==
  \A d \in DataQueues :
    /\ k.wait[d] # << >> => Count(dq[d]) <= Cardinality(WokenFrom(d, "popping"))
    /\ k.wait[Private[d]] # << >> =>
         Count(dq[d]) + Cardinality(WokenFrom(d, "pushing")) > Lwm

(* As long as the indices have not wrapped, the ring with its pushers and  *)
(* poppers is a bounded buffer.                                            *)
DqChannel(d) ==
  INSTANCE Channel WITH
    User <- Thread, Size <- DqSize,
    buf  <- [i \in 1 .. Count(dq[d]) |-> dq[d].item[(dq[d].get + i - 1) % DqSize]],
    hand <- [t \in Thread |-> IF arg[t] = d THEN hand[t] ELSE None]

DataQueuesAreChannels ==
  /\ \A d \in DataQueues : DqChannel(d)!Init
  /\ [][\A d \in DataQueues : \/ UNCHANGED DqChannel(d)!vars
                              \/ DqChannel(d)!Next]_<<k, pc, arg, retryVars, dq>>
=============================================================================
