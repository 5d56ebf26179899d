------------------------------ MODULE Mailbox ------------------------------
(***************************************************************************)
(* The mailboxes of ipc.c: a ring of words with two lists of waiters,      *)
(* receivers in k.wait[m] and senders in k.wait[Private[m]].               *)
(*                                                                         *)
(*   mb[m]    mb->msg_pool, in_offset, out_offset and entry                *)
(***************************************************************************)
EXTENDS Retry

CONSTANTS Mailboxes,  \* the receiver lists of mailboxes
          MbSize      \* mb->size

ASSUME MailboxAssumption == Mailboxes \subseteq Queue /\ MbSize \in Nat \ {0}

VARIABLE mb

MailLocation == {"sending", "receiving", "mailed"}

EmptyMb == [pool |-> [i \in 0 .. MbSize - 1 |-> None],
            in   |-> 0, out |-> 0, entry |-> 0]

MailInit == mb = [m \in Mailboxes |-> EmptyMb]

(* Slip: the offset may reach the size. *)
AdvanceLate(i) == IF i + 1 > MbSize THEN 0 ELSE i + 1

(* in_offset and out_offset go round. *)
Advance(i) == IF i + 1 >= MbSize THEN 0 ELSE i + 1

Stored(b, v) == [b EXCEPT !.pool[b.in] = v, !.in = Advance(@), !.entry = @ + 1]
Fetched(b)   == [b EXCEPT !.out = Advance(@), !.entry = @ - 1]
-----------------------------------------------------------------------------
(* rt_mb_send_wait from the test of its loop: the value v goes into the    *)
(* ring, or t waits among the senders, or its time is over.                *)
MailSendLoop(t, m, v, n) ==
  \/ /\ mb[m].entry # MbSize
     /\ mb' = [mb EXCEPT ![m] = Stored(@, v)]
     /\ ResumeFirst(t, m, "user")
     /\ Hold(t, None) /\ Done(t)
  \/ /\ mb[m].entry = MbSize
     /\ WaitAgain(t, Private[m], n, "sending")
     /\ Hold(t, v)
     /\ UNCHANGED mb
  \/ /\ mb[m].entry = MbSize /\ n = 0
     /\ GiveUp(t)
     /\ UNCHANGED mb

(* rt_mb_send_wait, rt_mb_send; a send that finds the mailbox full and has *)
(* no timeout changes nothing.                                             *)
MailSend(t, m) ==
  /\ Call(t, m)
  /\ \E v \in Message, n \in Timeouts(Private[m]) : MailSendLoop(t, m, v, n)
  /\ About(t, m)
  /\ UNCHANGED <<alive, lists, wild>>

MailSendAgain(t) ==
  /\ At(t, "sending")
  /\ \/ k.error[t] # "EOK" /\ GiveUp(t) /\ UNCHANGED mb
     \/ /\ k.error[t] = "EOK"
        /\ MailSendLoop(t, arg[t], hand[t], Remaining(t))
  /\ UNCHANGED ipcVars

(* rt_mb_send in an interrupt. *)
IsrMailSend(m) ==
  /\ isr = "none" /\ alive[m] /\ mb[m].entry # MbSize
  /\ \E v \in Message : mb' = [mb EXCEPT ![m] = Stored(@, v)]
  /\ IsrResumeFirst(m)
  /\ UNCHANGED <<ipcVars, retryVars>>
-----------------------------------------------------------------------------
(* rt_mb_recv from the test of its loop. *)
MailRecvLoop(t, m, n) ==
  \/ /\ mb[m].entry # 0
     /\ mb' = [mb EXCEPT ![m] = Fetched(@)]
     /\ ResumeFirst(t, Private[m], "mailed")
     /\ Hold(t, mb[m].pool[mb[m].out]) /\ Done(t)
  \/ /\ mb[m].entry = 0
     /\ WaitAgain(t, m, n, "receiving")
     /\ UNCHANGED <<mb, hand>>
  \/ /\ mb[m].entry = 0 /\ n = 0
     /\ GiveUp(t)
     /\ UNCHANGED mb

(* rt_mb_recv; when the mailbox is empty and it has no timeout it changes  *)
(* nothing.                                                                *)
MailRecv(t, m) ==
  /\ Call(t, m)
  /\ \E n \in Timeouts(m) : MailRecvLoop(t, m, n)
  /\ About(t, m)
  /\ UNCHANGED <<alive, lists, wild>>

MailRecvAgain(t) ==
  /\ At(t, "receiving")
  /\ \/ k.error[t] # "EOK" /\ GiveUp(t) /\ UNCHANGED mb
     \/ k.error[t] = "EOK" /\ MailRecvLoop(t, arg[t], Remaining(t))
  /\ UNCHANGED ipcVars

(* rt_mb_recv without a timeout in an interrupt. *)
IsrMailRecv(m) ==
  /\ isr = "none" /\ alive[m] /\ mb[m].entry # 0
  /\ mb' = [mb EXCEPT ![m] = Fetched(@)]
  /\ IsrResumeFirst(Private[m])
  /\ UNCHANGED <<ipcVars, retryVars>>

(* The receiver has its value. *)
MailReturn(t) ==
  /\ At(t, "mailed")
  /\ Hold(t, None)
  /\ Goto(t, "user")
  /\ UNCHANGED <<k, then, slice, isr, ipcVars, left, run, waited, mb>>
-----------------------------------------------------------------------------
(* rt_mb_control(RT_IPC_CMD_RESET): the values stay in the pool. *)
MailReset(t, m) ==
  /\ Call(t, m)
  /\ k'  = IpcResumeAll(IpcResumeAll(k, m), Private[m])
  /\ mb' = [mb EXCEPT ![m].entry = 0, ![m].in = 0, ![m].out = 0]
  /\ Goto(t, "sched")
  /\ UNCHANGED <<then, slice, isr, ipcVars, retryVars>>

MailDelete(t, m) == /\ Unused(m, MailLocation) /\ Delete(t, m)
                    /\ UNCHANGED <<retryVars, mb>>

(* rt_mb_init, rt_mb_create *)
MailCreate(t, m) == /\ Revive(t, m, MailLocation)
                    /\ mb' = [mb EXCEPT ![m] = EmptyMb]
                    /\ UNCHANGED retryVars

MailStep(t) ==
  \/ \E m \in Mailboxes : \/ MailSend(t, m) \/ MailRecv(t, m) \/ MailReset(t, m)
                          \/ MailDelete(t, m) \/ MailCreate(t, m)
  \/ MailSendAgain(t) \/ MailRecvAgain(t) \/ MailReturn(t)

MailInterrupt == \E m \in Mailboxes : IsrMailSend(m) \/ IsrMailRecv(m)
-----------------------------------------------------------------------------
MailTypeOK == mb \in [Mailboxes ->
                [pool : [0 .. MbSize - 1 -> Message \cup {None}],
                 in : 0 .. MbSize - 1, out : 0 .. MbSize - 1, entry : 0 .. MbSize]]

(* Nobody waits for a value, or for room, that is there, unless enough     *)
(* threads that were woken for it have not run yet.                        *)
NoLostMail ==
  \A m \in Mailboxes : alive[m] =>
    /\ k.wait[m] # << >> =>
         mb[m].entry <= Cardinality(WokenFrom(m, "receiving"))
    /\ k.wait[Private[m]] # << >> =>
         MbSize - mb[m].entry <= Cardinality(WokenFrom(m, "sending"))

(* The ring, with its senders and receivers, is a bounded buffer. *)
MailChannel(m) ==
  INSTANCE Channel WITH
    User <- Thread, Size <- MbSize,
    buf  <- [i \in 1 .. mb[m].entry |-> mb[m].pool[(mb[m].out + i - 1) % MbSize]],
    hand <- [t \in Thread |-> IF arg[t] = m THEN hand[t] ELSE None]

MailboxesAreChannels ==
  /\ \A m \in Mailboxes : MailChannel(m)!Init
  /\ [][\A m \in Mailboxes : \/ UNCHANGED MailChannel(m)!vars
                             \/ MailChannel(m)!Next]_<<k, pc, arg, retryVars, mb>>
=============================================================================
