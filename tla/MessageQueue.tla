---------------------------- MODULE MessageQueue ----------------------------
(***************************************************************************)
(* The message queues of ipc.c: blocks linked in a queue and in a list of  *)
(* free blocks.  A sender takes a free block in one section, fills it with *)
(* interrupts enabled and links it in a second one; a receiver unlinks a   *)
(* block, copies it with interrupts enabled and gives it back.             *)
(*                                                                         *)
(*   mq[q]    next and data of each block; msg_queue_head, msg_queue_tail, *)
(*            msg_queue_free and entry                                     *)
(*   blk[t]   the block t's call has in its hands                          *)
(***************************************************************************)
EXTENDS Retry

CONSTANTS MqQueues,   \* the lists that belong to message queues
          MaxMsgs     \* mq->max_msgs

ASSUME QueueAssumption == MqQueues \subseteq Queue /\ MaxMsgs \in Nat \ {0}

VARIABLES mq, blk
mqVars == <<mq, blk>>

Block == 1 .. MaxMsgs
Null  == 0

MqLocation == {"copy", "copyfront", "link", "linkfront",
               "dequeue", "copyout", "giveback"}

(* rt_mq_init: every block goes to the front of the free list. *)
EmptyMq == [next |-> [b \in Block |-> b - 1], data |-> [b \in Block |-> None],
            head |-> Null, tail |-> Null, free |-> MaxMsgs, entry |-> 0]

MqInit == /\ mq  = [q \in MqQueues |-> EmptyMq]
          /\ blk = [t \in Thread |-> Null]

InHand(t, b) == blk' = [blk EXCEPT ![t] = b]

(* The blocks a chain of next pointers goes through from b. *)
Chain(m, b) ==
  LET at[i \in 0 .. MaxMsgs] ==
        IF i = 0 THEN b ELSE IF at[i-1] = Null THEN Null ELSE m.next[at[i-1]]
  IN  [i \in {j \in 1 .. MaxMsgs + 1 : at[j-1] # Null} |-> at[i-1]]
-----------------------------------------------------------------------------
TakeFree(m) == [m EXCEPT !.free = m.next[@]]

LinkTail(m, b) ==
  LET n == IF m.tail = Null THEN m.next ELSE [m.next EXCEPT ![m.tail] = b]
  IN  [m EXCEPT !.next = n, !.tail = b,
                !.head = IF @ = Null THEN b ELSE @, !.entry = @ + 1]

LinkHead(m, b) ==
  [m EXCEPT !.next[b] = m.head, !.head = b,
            !.tail = IF @ = Null THEN b ELSE @, !.entry = @ + 1]

(* Slip: the tail goes on naming the block that was last. *)
UnlinkHeadOnly(m) == [m EXCEPT !.head = m.next[@], !.entry = @ - 1]

UnlinkHead(m) ==
  [m EXCEPT !.head = m.next[@], !.tail = IF @ = m.head THEN Null ELSE @,
            !.entry = @ - 1]

GiveBack(m, b) == [m EXCEPT !.next[b] = m.free, !.free = b]

(* A round of the loop of rt_mq_control, behind which entry is reset: the  *)
(* first block is free.                                                    *)
Recycle(m) == IF m.head = Null THEN m ELSE GiveBack(UnlinkHead(m), m.head)

Emptied(m) ==
  LET at[i \in 0 .. MaxMsgs] == IF i = 0 THEN m ELSE Recycle(at[i-1])
  IN  [at[MaxMsgs] EXCEPT !.entry = 0]
-----------------------------------------------------------------------------
(* rt_mq_send and rt_mq_urgent to their first interrupt enable; a send     *)
(* that finds no free block changes nothing.                               *)
MqSend(t, q) ==
  /\ Call(t, q) /\ mq[q].free # Null
  /\ InHand(t, mq[q].free)
  /\ mq' = [mq EXCEPT ![q] = TakeFree(@)]
  /\ \E v \in Message : Hold(t, v)
  /\ \E l \in {"copy", "copyfront"} : Goto(t, l)
  /\ About(t, q)
  /\ UNCHANGED <<k, then, slice, isr, alive, lists, wild, left, run, waited>>

MqCopy(t) ==
  /\ \/ /\ At(t, "copy") /\ Goto(t, "link")
        /\ mq' = [mq EXCEPT ![arg[t]].next[blk[t]] = Null,
                            ![arg[t]].data[blk[t]] = hand[t]]
     \/ /\ At(t, "copyfront") /\ Goto(t, "linkfront")
        /\ mq' = [mq EXCEPT ![arg[t]].data[blk[t]] = hand[t]]
  /\ UNCHANGED <<k, then, slice, isr, ipcVars, retryVars, blk>>

(* The second section of both. *)
MqLink(t) ==
  /\ \/ At(t, "link") /\ mq' = [mq EXCEPT ![arg[t]] = LinkTail(@, blk[t])]
     \/ At(t, "linkfront") /\ mq' = [mq EXCEPT ![arg[t]] = LinkHead(@, blk[t])]
  /\ ResumeFirst(t, arg[t], "user")
  /\ InHand(t, Null) /\ Hold(t, None)
  /\ UNCHANGED <<ipcVars, left, run, waited>>

(* Both in an interrupt, which no thread splits. *)
IsrMqSend(q) ==
  LET msg == mq[q].free
  IN  /\ isr = "none" /\ alive[q] /\ msg # Null
      /\ \E v \in Message :
           LET m == [TakeFree(mq[q]) EXCEPT !.next[msg] = Null, !.data[msg] = v]
           IN  \/ mq' = [mq EXCEPT ![q] = LinkTail(m, msg)]
               \/ mq' = [mq EXCEPT ![q] = LinkHead(m, msg)]
      /\ IsrResumeFirst(q)
      /\ UNCHANGED <<ipcVars, retryVars, blk>>
-----------------------------------------------------------------------------
(* rt_mq_recv from the test of its loop to the end of its first section. *)
MqRecvLoop(t, q, n) ==
  \/ /\ mq[q].entry # 0
     /\ InHand(t, mq[q].head)
     /\ mq' = [mq EXCEPT ![q] = UnlinkHead(@)]
     /\ Goto(t, "copyout") /\ Done(t)
     /\ UNCHANGED <<k, then, slice, isr, hand>>
  \/ /\ mq[q].entry = 0
     /\ WaitAgain(t, q, n, "dequeue")
     /\ UNCHANGED <<mqVars, hand>>
  \/ /\ mq[q].entry = 0 /\ n = 0
     /\ GiveUp(t)
     /\ UNCHANGED mqVars

(* rt_mq_recv; when the queue is empty and it has no timeout it changes    *)
(* nothing.                                                                *)
MqRecv(t, q) ==
  /\ Call(t, q)
  /\ \E n \in Timeouts(q) : MqRecvLoop(t, q, n)
  /\ About(t, q)
  /\ UNCHANGED <<alive, lists, wild>>

MqRecvAgain(t) ==
  /\ At(t, "dequeue")
  /\ \/ k.error[t] # "EOK" /\ GiveUp(t) /\ UNCHANGED mqVars
     \/ k.error[t] = "EOK" /\ MqRecvLoop(t, arg[t], Remaining(t))
  /\ UNCHANGED ipcVars

(* Slip: the message is read through msg_queue_head. *)
MqCopyOutHead(t) ==
  LET m == mq[arg[t]]
  IN  /\ At(t, "copyout") /\ Goto(t, "giveback")
      /\ Hold(t, m.data[IF m.head = Null THEN blk[t] ELSE m.head])
      /\ UNCHANGED <<k, then, slice, isr, ipcVars, left, run, waited, mqVars>>

MqCopyOut(t) ==
  /\ At(t, "copyout") /\ Goto(t, "giveback")
  /\ Hold(t, mq[arg[t]].data[blk[t]])
  /\ UNCHANGED <<k, then, slice, isr, ipcVars, left, run, waited, mqVars>>

MqGiveBack(t) ==
  /\ At(t, "giveback") /\ Goto(t, "user")
  /\ mq' = [mq EXCEPT ![arg[t]] = GiveBack(@, blk[t])]
  /\ InHand(t, Null) /\ Hold(t, None)
  /\ UNCHANGED <<k, then, slice, isr, ipcVars, left, run, waited>>
-----------------------------------------------------------------------------
(* rt_mq_control(RT_IPC_CMD_RESET) *)
MqReset(t, q) ==
  /\ Call(t, q)
  /\ k'  = IpcResumeAll(k, q)
  /\ mq' = [mq EXCEPT ![q] = Emptied(@)]
  /\ Goto(t, "sched")
  /\ UNCHANGED <<then, slice, isr, ipcVars, retryVars, blk>>

MqDelete(t, q) == /\ Unused(q, MqLocation) /\ Delete(t, q)
                  /\ UNCHANGED <<retryVars, mqVars>>

(* rt_mq_init, rt_mq_create *)
MqCreate(t, q) == /\ Revive(t, q, MqLocation)
                  /\ mq' = [mq EXCEPT ![q] = EmptyMq]
                  /\ UNCHANGED <<retryVars, blk>>

MqStep(t) ==
  \/ \E q \in MqQueues : \/ MqSend(t, q) \/ MqRecv(t, q) \/ MqReset(t, q)
                         \/ MqDelete(t, q) \/ MqCreate(t, q)
  \/ MqCopy(t) \/ MqLink(t)
  \/ MqRecvAgain(t) \/ MqCopyOut(t) \/ MqGiveBack(t)

MqInterrupt == \E q \in MqQueues : IsrMqSend(q)
-----------------------------------------------------------------------------
MqTypeOK ==
  /\ mq \in [MqQueues -> [next : [Block -> 0 .. MaxMsgs],
                          data : [Block -> Message \cup {None}],
                          head : 0 .. MaxMsgs, tail : 0 .. MaxMsgs,
                          free : 0 .. MaxMsgs, entry : 0 .. MaxMsgs]]
  /\ blk \in [Thread -> 0 .. MaxMsgs]

(* Every block is in the queue, in the free list or in the hands of one    *)
(* thread, once; the tail is the queue's last block, and entry counts it.  *)
BlocksConserved ==
  \A q \in MqQueues :
    LET m      == mq[q]
        queued == Chain(m, m.head)
        free   == Chain(m, m.free)
        held   == {t \in Thread : arg[t] = q /\ blk[t] # Null}
        all    == queued \o free
    IN  /\ IsInjective(all) /\ Len(queued) = m.entry
        /\ m.tail = IF queued = << >> THEN Null ELSE Last(queued)
        /\ \A t, u \in held : t # u => blk[t] # blk[u]
        /\ {blk[t] : t \in held} = Block \ ToSet(all)

(* Nobody waits for a message that is there, unless enough threads that    *)
(* were woken for one have not run yet.                                    *)
NoLostMessage ==
  \A q \in MqQueues : alive[q] /\ k.wait[q] # << >> =>
    mq[q].entry <= Cardinality(WokenFrom(q, "dequeue"))

(* The messages of the linked blocks. *)
Queued(m) == LET c == Chain(m, m.head) IN [i \in DOMAIN c |-> m.data[c[i]]]

(* They are a bounded buffer; until it is copied, the message a receiver   *)
(* took is in its block.                                                   *)
MqChannel(q) ==
  INSTANCE Channel WITH
    User <- Thread, Size <- MaxMsgs,
    buf  <- Queued(mq[q]),
    hand <- [t \in Thread |-> IF arg[t] # q THEN None
                              ELSE IF pc[t] = "copyout" THEN mq[q].data[blk[t]]
                              ELSE hand[t]]

QueuesAreChannels ==
  /\ \A q \in MqQueues : MqChannel(q)!Init
  /\ [][\A q \in MqQueues : \/ UNCHANGED MqChannel(q)!vars
                            \/ MqChannel(q)!Next]_<<k, pc, arg, retryVars, mqVars>>
=============================================================================
