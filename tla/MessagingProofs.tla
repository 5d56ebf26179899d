-------------------------- MODULE MessagingProofs --------------------------
(***************************************************************************)
(* What Messaging keeps, for any number of objects of each kind, of        *)
(* threads, messages, blocks and cells: no block of a message queue is     *)
(* lost or in two places, and each buffer is an abstract one.              *)
(***************************************************************************)
EXTENDS Messaging, IpcProofs, FiniteSetTheorems

(* The function an iteration is defined with exists, whatever is iterated. *)
Iterates(f, V, G, v, n) ==
  f \in [0 .. n -> V] /\ f[0] = v /\ \A i \in 1 .. n : f[i] = G[f[i-1]]

LEMMA IterationDefined ==
  ASSUME NEW V, NEW G \in [V -> V], NEW v \in V, NEW n \in Nat
  PROVE  \E f : Iterates(f, V, G, v, n)
<1> DEFINE Good(m) == \E f \in [0 .. m -> V] :
                        f[0] = v /\ \A i \in 1 .. m : f[i] = G[f[i-1]]
           S == {m \in 0 .. n : Good(m)}
<1>1. 0 \in S
  <2> DEFINE f == [i \in 0 .. 0 |-> v]
  <2>1. f \in [0 .. 0 -> V] /\ f[0] = v
    OBVIOUS
  <2>2. \A i \in 1 .. 0 : f[i] = G[f[i-1]]
    OBVIOUS
  <2> HIDE DEF f
  <2>3. Good(0)
    BY <2>1, <2>2
  <2> HIDE DEF Good
  <2> QED
    BY <2>3
<1>2. ASSUME NEW m \in 1 .. n, m - 1 \in S
      PROVE  m \in S
  <2>1. PICK f \in [0 .. m - 1 -> V] :
          f[0] = v /\ \A i \in 1 .. m - 1 : f[i] = G[f[i-1]]
    BY <1>2
  <2> DEFINE g == [i \in 0 .. m |-> IF i = m THEN G[f[m-1]] ELSE f[i]]
  <2>2. m - 1 \in 0 .. m - 1 /\ f[m-1] \in V
    BY <2>1
  <2>3. g \in [0 .. m -> V]
    <3>1. \A i \in 0 .. m : i # m => i \in 0 .. m - 1
      OBVIOUS
    <3>2. \A i \in 0 .. m : (IF i = m THEN G[f[m-1]] ELSE f[i]) \in V
      BY <2>1, <2>2, <3>1
    <3> QED
      BY <3>2
  <2>4. g[0] = v
    BY <2>1
  <2>5. ASSUME NEW i \in 1 .. m
        PROVE  g[i] = G[g[i-1]]
    <3>1. i - 1 \in 0 .. m /\ i - 1 # m /\ i \in 0 .. m
      OBVIOUS
    <3>2. g[i-1] = f[i-1]
      BY <3>1
    <3>3. CASE i = m
      BY <3>1, <3>2, <3>3
    <3>4. CASE i # m
      <4>1. i \in 1 .. m - 1
        BY <3>4
      <4>2. g[i] = f[i]
        BY <3>1, <3>4
      <4> HIDE DEF g
      <4> QED
        BY <2>1, <3>2, <4>1, <4>2
    <3> QED
      BY <3>3, <3>4
  <2> HIDE DEF g
  <2>6. Good(m)
    BY <2>3, <2>4, <2>5
  <2> HIDE DEF Good
  <2> QED
    BY <2>6
<1> HIDE DEF S
<1>3. n \in S
  BY <1>1, <1>2, UpTo
<1> QED
  BY <1>3 DEF S, Iterates

(* A list without its first element. *)
LEMMA ListTail ==
  ASSUME NEW S, NEW s \in Seq(S), s # << >>
  PROVE  /\ Tail(s) \in Seq(S) /\ Len(s) > 0
         /\ Len(Tail(s)) = Len(s) - 1
         /\ \A i \in 1 .. Len(s) - 1 : Tail(s)[i] = s[i + 1]
         /\ Head(s) = s[1]
         /\ ToSet(s) = ToSet(Tail(s)) \cup {Head(s)}
         /\ IsInjective(s) => IsInjective(Tail(s)) /\ Head(s) \notin ToSet(Tail(s))
<1> DEFINE u == Tail(s)
<1>1. Len(s) \in Nat /\ DOMAIN s = 1 .. Len(s) /\ Len(s) > 0 /\ Head(s) = s[1]
  BY LenProperties, EmptySeq
<1>2. /\ u \in Seq(S) /\ Len(u) = Len(s) - 1
      /\ \A i \in 1 .. Len(s) - 1 : u[i] = s[i + 1]
  BY <1>1
<1> HIDE DEF u
<1>3. DOMAIN u = 1 .. Len(s) - 1
  BY <1>2, LenProperties
<1>4. ToSet(s) = ToSet(u) \cup {s[1]}
  <2>1. \A i \in 1 .. Len(s) - 1 : i + 1 \in 1 .. Len(s)
    BY <1>1
  <2>2. \A i \in 1 .. Len(s) : 
           i = 1 \/ (i - 1 \in 1 .. Len(s) - 1 /\ (i - 1) + 1 = i)
    BY <1>1
  <2>3. 1 \in 1 .. Len(s)
    BY <1>1
  <2>4. \A x \in ToSet(u) : x \in ToSet(s)
    BY <1>1, <1>2, <1>3, <2>1 DEF ToSet
  <2>5. ASSUME NEW i \in 1 .. Len(s)
        PROVE  s[i] \in ToSet(u) \cup {s[1]}
    <3>1. CASE i - 1 \in 1 .. Len(s) - 1
      <4>1. u[i-1] = s[i]
        BY <1>2, <2>2, <3>1
      <4> QED
        BY <1>3, <3>1, <4>1 DEF ToSet
    <3> QED
      BY <2>2, <3>1
  <2>6. s[1] \in ToSet(s)
    BY <1>1, <2>3 DEF ToSet
  <2> QED
    BY <1>1, <2>4, <2>5, <2>6 DEF ToSet
<1>5. IsInjective(s) => IsInjective(u) /\ s[1] \notin ToSet(u)
  <2> SUFFICES ASSUME IsInjective(s)
               PROVE  IsInjective(u) /\ s[1] \notin ToSet(u)
    OBVIOUS
  <2>1. \A i, j \in 1 .. Len(s) : s[i] = s[j] => i = j
    BY <1>1 DEF IsInjective
  <2>2. \A i \in 1 .. Len(s) - 1 : i + 1 \in 1 .. Len(s) /\ i + 1 # 1
    BY <1>1
  <2>3. \A i, j \in 1 .. Len(s) - 1 : u[i] = u[j] => i = j
    BY <1>1, <1>2, <2>1, <2>2
  <2>4. \A i \in 1 .. Len(s) - 1 : u[i] # s[1]
    BY <1>1, <1>2, <2>1, <2>2
  <2> QED
    BY <1>3, <2>3, <2>4 DEF IsInjective, ToSet
<1> QED
  BY <1>1, <1>2, <1>4, <1>5 DEF u
-----------------------------------------------------------------------------
(* Where a call has a message in its hands, and where it has a block.      *)
Hands == {"sending", "mailed", "copy", "copyfront", "link", "linkfront",
          "giveback", "pushing", "popped"}

WithBlock == {"copy", "copyfront", "link", "linkfront", "copyout", "giveback"}

(* A thread at l that goes on from h in a call about a: the call is of the *)
(* kind of a, and has the message v and the block b only where it should.  *)
Seated(l, h, a, v, b) ==
  /\ l # "sched" => h = "user"
  /\ h \notin WithBlock
  /\ IF {l, h} \cap Hands # {} THEN v \in Message ELSE v = None
  /\ IF l \in WithBlock THEN b \in Block ELSE b = Null
  /\ {l, h} \cap MailLocation # {} => a \in Mailboxes
  /\ {l, h} \cap MqLocation # {} => a \in MqQueues
  /\ {l, h} \cap DqLocation # {} => a \in DataQueues

ControlTypeOK ==
  /\ pc \in [Thread -> Location] /\ then \in [Thread -> Location]
  /\ arg \in [Thread -> Queue] /\ hand \in [Thread -> Message \cup {None}]
  /\ blk \in [Thread -> 0 .. MaxMsgs]

SeatInv == \A t \in Thread : Seated(pc[t], then[t], arg[t], hand[t], blk[t])

ControlInv == ControlTypeOK /\ SeatInv

(* A step of one thread. *)
OneMoves(t) ==
  /\ ControlTypeOK'
  /\ \A u \in Thread \ {t} : /\ pc'[u] = pc[u] /\ then'[u] = then[u]
                             /\ arg'[u] = arg[u] /\ hand'[u] = hand[u]
                             /\ blk'[u] = blk[u]

Sits(t) == Seated(pc'[t], then'[t], arg'[t], hand'[t], blk'[t])

LEMMA KindFacts ==
  /\ Mailboxes \cap MqQueues = {} /\ Mailboxes \cap DataQueues = {}
  /\ MqQueues \cap DataQueues = {}
  /\ Mailboxes \subseteq Queue /\ MqQueues \subseteq Queue
  /\ DataQueues \subseteq Queue
<1>1. DOMAIN Kinds = 1 .. 7 /\ Kinds[2] = Mailboxes /\ Kinds[3] = MqQueues
      /\ Kinds[6] = DataQueues
  BY DEF Kinds
<1>2. \A i, j \in 1 .. 7 : i # j => With(Kinds[i]) \cap With(Kinds[j]) = {}
  BY <1>1, MessagingAssumption
<1>3. /\ With(Mailboxes) \cap With(MqQueues) = {}
      /\ With(Mailboxes) \cap With(DataQueues) = {}
      /\ With(MqQueues) \cap With(DataQueues) = {}
  <2>1. 2 \in 1 .. 7 /\ 3 \in 1 .. 7 /\ 6 \in 1 .. 7
    OBVIOUS
  <2> QED
    BY <1>1, <1>2, <2>1
<1>4. \A S : S \subseteq With(S)
  BY DEF With
<1> QED
  BY <1>3, <1>4, MailboxAssumption, QueueAssumption, DataQueueAssumption

LEMMA ControlKeeps ==
  ASSUME ControlInv, NEW t \in Thread, OneMoves(t), Sits(t)
  PROVE  ControlInv'
<1>1. ASSUME NEW u \in Thread
      PROVE  Seated(pc'[u], then'[u], arg'[u], hand'[u], blk'[u])
  <2>1. CASE u = t
    BY <2>1 DEF Sits
  <2>2. CASE u # t
    BY <2>2 DEF OneMoves, ControlInv, SeatInv
  <2> QED
    BY <2>1, <2>2
<1> QED
  BY <1>1 DEF ControlInv, SeatInv, OneMoves
(* What the calls about no buffer do with a thread.                        *)
AsidePlace == {"user", "sched", "woken", "drain", "resume", "gone", "flagged",
               "complete", "completed", "allocating", "remaining", "wqueue", "wqnode"}
AsideThen  == {"user", "woken", "sched", "flagged", "completed", "allocating", "wqueue"}

Aside(t) ==
  /\ pc[t] \notin {"sched"} \cup MailLocation \cup MqLocation \cup DqLocation
  /\ UNCHANGED <<hand, blk>>
  /\ \/ pc' = pc /\ pc[t] \in AsidePlace
     \/ \E l \in AsidePlace : pc' = [pc EXCEPT ![t] = l]
  /\ \/ then' = then
     \/ \E h \in AsideThen : then' = [then EXCEPT ![t] = h] /\ (pc'[t] # "sched" => h = "user")
  /\ \/ arg' = arg
     \/ \E q \in Queue : arg' = [arg EXCEPT ![t] = q]

LEMMA AsideSits ==
  ASSUME ControlInv, NEW t \in Thread, Aside(t)
  PROVE  OneMoves(t) /\ Sits(t)
<1>1. /\ pc \in [Thread -> Location] /\ then \in [Thread -> Location]
      /\ arg \in [Thread -> Queue]
      /\ hand \in [Thread -> Message \cup {None}] /\ blk \in [Thread -> 0 .. MaxMsgs]
      /\ Seated(pc[t], then[t], arg[t], hand[t], blk[t])
  BY DEF ControlInv, SeatInv, ControlTypeOK
<1>2. then[t] = "user"
  BY <1>1 DEF Seated, Aside
<1>3. PICK l \in AsidePlace : pc' = [pc EXCEPT ![t] = l]
  <2>1. pc = [pc EXCEPT ![t] = pc[t]]
    BY <1>1
  <2> QED
    BY <2>1 DEF Aside
<1>4. PICK h \in AsideThen : then' = [then EXCEPT ![t] = h] /\ (l # "sched" => h = "user")
  <2>1. then = [then EXCEPT ![t] = "user"] /\ "user" \in AsideThen
    BY <1>1, <1>2 DEF AsideThen
  <2>2. pc'[t] = l
    BY <1>1, <1>3
  <2> QED
    BY <2>1, <2>2 DEF Aside
<1>6. PICK q \in Queue : arg' = [arg EXCEPT ![t] = q]
  <2>1. arg = [arg EXCEPT ![t] = arg[t]] /\ arg[t] \in Queue
    BY <1>1
  <2> QED
    BY <2>1 DEF Aside
<1>7. hand' = hand /\ blk' = blk
  BY DEF Aside
<1>8. l \in Location /\ h \in Location
  BY DEF Location, MpLocation, WqLocation, AsidePlace, AsideThen
<1>9. OneMoves(t)
  BY <1>1, <1>3, <1>4, <1>6, <1>7, <1>8 DEF OneMoves, ControlTypeOK
<1>10. hand[t] = None /\ blk[t] = Null
  BY <1>1, <1>2 DEF Aside, Seated, Hands, WithBlock, MailLocation, MqLocation, DqLocation
<1>11. pc'[t] = l /\ then'[t] = h /\ hand'[t] = None /\ blk'[t] = Null
  BY <1>1, <1>3, <1>4, <1>7, <1>10
<1>12. Seated(l, h, q, None, Null)
  BY <1>4 DEF Seated, Hands, WithBlock, MailLocation, MqLocation, DqLocation,
              AsidePlace, AsideThen
<1> QED
  BY <1>1, <1>6, <1>9, <1>11, <1>12 DEF Sits
LEMMA RemovalAside ==
  ASSUME ControlInv, NEW t \in Thread, UNCHANGED <<hand, blk>>,
         Removal(t) \/ DqDrained(t) \/ \E d \in DataQueues : DqReset(t, d)
  PROVE  Aside(t)
<1>1. arg[t] \in Queue /\ Private[arg[t]] \in Queue /\ DataQueues \subseteq Queue
  BY IpcAssumption, DataQueueAssumption DEF ControlInv, ControlTypeOK
<1> USE DEF AsidePlace, AsideThen, MailLocation, MqLocation, DqLocation, Aside,
            At, Goto, Then, About
<1>2. CASE DrainCheck(t)
  BY <1>1, <1>2 DEF DrainCheck
<1>3. CASE DrainOne(t)
  BY <1>1, <1>3 DEF DrainOne
<1>4. CASE Removed(t)
  BY <1>1, <1>4 DEF Removed
<1>5. CASE DqDrained(t) /\ arg[t] # Private[arg[t]]
  BY <1>1, <1>5 DEF DqDrained
<1>6. CASE DqDrained(t) /\ arg[t] = Private[arg[t]]
  <2>1. pc' = [pc EXCEPT ![t] = "sched"] /\ then' = [then EXCEPT ![t] = "sched"]
        /\ pc[t] = "gone" /\ arg' = arg /\ pc'[t] = "sched"
    BY <1>1, <1>6 DEF DqDrained, ControlInv, ControlTypeOK
  <2> QED
    BY <2>1
<1>7. CASE \E d \in DataQueues : DqReset(t, d)
  BY <1>1, <1>7 DEF DqReset, Call
<1> QED
  BY <1>2, <1>3, <1>4, <1>5, <1>6, <1>7 DEF Removal

LEMMA SleepAside ==
  ASSUME ControlInv, NEW t \in Thread, UNCHANGED <<hand, blk, arg>>,
         Sleep(t) \/ SleepReturn(t)
  PROVE  Aside(t)
<1> USE DEF AsidePlace, AsideThen, MailLocation, MqLocation, DqLocation, Aside,
            At, Goto, Then
<1>1. CASE Sleep(t)
  <2>1. pc' = [pc EXCEPT ![t] = "sched"] /\ then' = [then EXCEPT ![t] = "woken"]
        /\ pc[t] = "user" /\ arg' = arg /\ pc'[t] = "sched"
    BY <1>1 DEF Sleep, ControlInv, ControlTypeOK
  <2> QED
    BY <2>1
<1>2. CASE SleepReturn(t)
  BY <1>2 DEF SleepReturn
<1> QED
  BY <1>1, <1>2

LEMMA EventAside ==
  ASSUME ControlInv, NEW t \in Thread, UNCHANGED <<hand, blk>>, EventStep(t)
  PROVE  Aside(t)
<1>1. Events \subseteq Queue /\ pc \in [Thread -> Location]
  BY EventAssumption DEF ControlInv, ControlTypeOK
<1> USE DEF AsidePlace, AsideThen, MailLocation, MqLocation, DqLocation, Aside,
            At, Goto, Then, About, Call, ipcVars
<1>2. ASSUME NEW e \in Events, EventSend(t, e)
      PROVE  Aside(t)
  BY <1>1, <1>2 DEF EventSend
<1>3. ASSUME NEW e \in Events, EventTake(t, e)
      PROVE  Aside(t)
  BY <1>1, <1>3 DEF EventTake
<1>4. ASSUME NEW e \in Events, EventWait(t, e)
      PROVE  Aside(t)
  <2>1. pc' = [pc EXCEPT ![t] = "sched"] /\ then' = [then EXCEPT ![t] = "flagged"]
        /\ pc[t] = "user" /\ arg' = [arg EXCEPT ![t] = e] /\ pc'[t] = "sched"
    BY <1>1, <1>4 DEF EventWait, WaitIn
  <2> QED
    BY <1>1, <2>1
<1>5. ASSUME NEW e \in Events, EventReset(t, e) \/ EventCreate(t, e) \/ Delete(t, e)
      PROVE  Aside(t)
  BY <1>1, <1>5 DEF EventReset, EventCreate, Delete, Revive
<1>6. CASE EventReturn(t)
  BY <1>1, <1>6 DEF EventReturn
<1> QED
  BY <1>2, <1>3, <1>4, <1>5, <1>6 DEF EventStep
LEMMA CompletionAside ==
  ASSUME ControlInv, NEW t \in Thread, UNCHANGED <<hand, blk>>, CompletionStep(t)
  PROVE  Aside(t)
<1>1. Completions \subseteq Queue /\ pc \in [Thread -> Location]
  BY CompletionAssumption DEF ControlInv, ControlTypeOK
<1> USE DEF AsidePlace, AsideThen, MailLocation, MqLocation, DqLocation, Aside,
            At, Goto, Then, About, Call, ipcVars
<1>2. ASSUME NEW c \in Completions, CompletionTake(t, c) \/ DoneCheck(t, c)
      PROVE  Aside(t)
  BY <1>1, <1>2 DEF CompletionTake, DoneCheck
<1>3. ASSUME NEW c \in Completions, CompletionWait(t, c)
      PROVE  Aside(t)
  <2>1. pc' = [pc EXCEPT ![t] = "sched"] /\ then' = [then EXCEPT ![t] = "completed"]
        /\ pc[t] = "user" /\ arg' = [arg EXCEPT ![t] = c] /\ pc'[t] = "sched"
    BY <1>1, <1>3 DEF CompletionWait, WaitIn
  <2> QED
    BY <1>1, <2>1
<1>4. CASE CompletionReturn(t)
  BY <1>1, <1>4 DEF CompletionReturn
<1>5. CASE Complete(t)
  <2>1. pc[t] = "complete" /\ arg' = arg
        /\ \/ pc' = [pc EXCEPT ![t] = "user"] /\ then' = then
           \/ /\ pc' = [pc EXCEPT ![t] = "sched"] /\ then' = [then EXCEPT ![t] = "user"]
              /\ pc'[t] = "sched"
    BY <1>1, <1>5 DEF Complete, ResumeFirst
  <2> QED
    BY <1>1, <2>1
<1> QED
  BY <1>2, <1>3, <1>4, <1>5 DEF CompletionStep

LEMMA WqAside ==
  ASSUME ControlInv, NEW t \in Thread, UNCHANGED <<hand, blk>>, WqStep(t)
  PROVE  Aside(t)
<1>1. WaitQueues \subseteq Queue /\ pc \in [Thread -> Location]
  BY WaitQueueAssumption DEF ControlInv, ControlTypeOK
<1> USE DEF AsidePlace, AsideThen, MailLocation, MqLocation, DqLocation, Aside,
            At, Goto, Then, About, Call, ipcVars
<1>2. ASSUME NEW q \in WaitQueues, WqWait(t, q)
      PROVE  Aside(t)
  <2>1. \/ UNCHANGED <<pc, then, arg>> /\ pc[t] = "user"
        \/ /\ pc' = [pc EXCEPT ![t] = "sched"] /\ then' = [then EXCEPT ![t] = "wqueue"]
           /\ pc[t] = "user" /\ arg' = [arg EXCEPT ![t] = q] /\ pc'[t] = "sched"
    BY <1>1, <1>2 DEF WqWait
  <2> QED
    BY <1>1, <2>1
<1>3. ASSUME NEW q \in WaitQueues, WqWakeup(t, q)
      PROVE  Aside(t)
  BY <1>1, <1>3 DEF WqWakeup
<1>4. CASE WqReturn(t)
  BY <1>1, <1>4 DEF WqReturn
<1>5. CASE WqRemove(t)
  BY <1>1, <1>5 DEF WqRemove
<1> QED
  BY <1>2, <1>3, <1>4, <1>5 DEF WqStep

(* A thread at a place of Aside has nothing in its hands.                  *)
LEMMA AsideHolds ==
  ASSUME ControlInv, NEW t \in Thread, pc[t] \in AsidePlace \ {"sched"}
  PROVE  /\ hand[t] = None /\ blk[t] = Null /\ then[t] = "user"
         /\ hand \in [Thread -> Message \cup {None}] /\ hand = [hand EXCEPT ![t] = None]
         /\ pc \in [Thread -> Location] /\ blk \in [Thread -> 0 .. MaxMsgs]
<1>1. Seated(pc[t], then[t], arg[t], hand[t], blk[t])
  BY DEF ControlInv, SeatInv
<1>2. hand[t] = None /\ blk[t] = Null /\ then[t] = "user"
  BY <1>1 DEF Seated, AsidePlace, Hands, WithBlock
<1> QED
  BY <1>2 DEF ControlInv, ControlTypeOK

LEMMA PoolAside ==
  ASSUME ControlInv, NEW t \in Thread, blk' = blk, MpStep(t)
  PROVE  Aside(t)
<1>1. MemPools \subseteq Queue /\ pc \in [Thread -> Location]
  BY PoolAssumption DEF ControlInv, ControlTypeOK
<1> USE DEF AsidePlace, AsideThen, MailLocation, MqLocation, DqLocation, Aside,
            At, Goto, Then, About, Call, ipcVars
<1>2. ASSUME NEW p, NEW n, MpAllocLoop(t, p, n), pc[t] \in {"user", "remaining"}
      PROVE  /\ hand' = hand
             /\ \/ pc' = [pc EXCEPT ![t] = "user"] /\ then' = then
                \/ /\ pc' = [pc EXCEPT ![t] = "sched"] /\ pc'[t] = "sched"
                   /\ then' = [then EXCEPT ![t] = "allocating"]
  BY <1>1, <1>2, AsideHolds DEF MpAllocLoop, GiveUp, Hold, WaitFor, WaitIn
<1>3. ASSUME NEW p \in MemPools, MpAlloc(t, p)
      PROVE  Aside(t)
  <2>1. PICK n \in Timeouts(p) : MpAllocLoop(t, p, n)
    BY <1>3 DEF MpAlloc
  <2>2. pc[t] = "user" /\ arg' = [arg EXCEPT ![t] = p] /\ p \in Queue
    BY <1>1, <1>3 DEF MpAlloc
  <2> QED
    BY <1>2, <2>1, <2>2
<1>4. CASE MpAllocAgain(t)
  <2>1. pc[t] = "remaining" /\ arg' = arg /\ MpAllocLoop(t, arg[t], left[t])
    BY <1>4 DEF MpAllocAgain
  <2> QED
    BY <1>2, <2>1
<1>5. CASE MpAllocWoken(t)
  <2>1. pc[t] = "allocating" /\ arg' = arg /\ then' = then
        /\ hand' \in {hand, [hand EXCEPT ![t] = None]}
        /\ \E l \in {"user", "remaining"} : pc' = [pc EXCEPT ![t] = l]
    BY <1>5 DEF MpAllocWoken, GiveUp, Hold
  <2> QED
    BY <2>1, AsideHolds
<1>6. ASSUME NEW p \in MemPools, MpFree(t, p)
      PROVE  Aside(t)
  <2>1. pc[t] = "user" /\ arg' = arg /\ then' = then /\ hand' = hand
        /\ (pc' = pc \/ pc' = [pc EXCEPT ![t] = "sched"])
    BY <1>6 DEF MpFree, MpFreed, retryVars
  <2> QED
    BY <2>1
<1>7. ASSUME NEW p \in MemPools, MpDelete(t, p) \/ MpCreate(t, p)
      PROVE  Aside(t)
  BY <1>1, <1>7 DEF MpDelete, MpCreate, Delete, Revive, retryVars
<1>8. CASE MpRemoval(t)
  <2>1. Removal(t) /\ hand' = hand
    BY <1>8 DEF MpRemoval, Removal, retryVars
  <2> QED
    BY <2>1, RemovalAside
<1> QED
  BY <1>3, <1>4, <1>5, <1>6, <1>7, <1>8 DEF MpStep

(* The calls about a buffer that look at none of its threads' hands.       *)
LEMMA ControlAside ==
  ASSUME ControlInv, NEW t \in Thread, UNCHANGED <<hand, blk>>,
         \/ \E m \in Mailboxes : MailReset(t, m) \/ MailDelete(t, m) \/ MailCreate(t, m)
         \/ \E q \in MqQueues : MqReset(t, q) \/ MqDelete(t, q) \/ MqCreate(t, q)
  PROVE  Aside(t)
<1>1. Mailboxes \subseteq Queue /\ MqQueues \subseteq Queue
  BY KindFacts
<1> USE DEF AsidePlace, AsideThen, MailLocation, MqLocation, DqLocation, Aside,
            At, Goto, Then, About, Call, ipcVars
<1>2. ASSUME NEW m \in Mailboxes, MailReset(t, m) \/ MailDelete(t, m) \/ MailCreate(t, m)
      PROVE  Aside(t)
  BY <1>1, <1>2 DEF MailReset, MailDelete, MailCreate, Delete, Revive
<1>3. ASSUME NEW q \in MqQueues, MqReset(t, q) \/ MqDelete(t, q) \/ MqCreate(t, q)
      PROVE  Aside(t)
  BY <1>1, <1>3 DEF MqReset, MqDelete, MqCreate, Delete, Revive
<1> QED
  BY <1>2, <1>3
-----------------------------------------------------------------------------
(* Rings.  Of a ring of n cells the i-th behind the cell o is Cell(n, o, i);   *)
(* the c cells from o on hold RingOf(cells, n, o, c).                           *)
Cell(n, o, i) == IF o + i < n THEN o + i ELSE o + i - n

RingOf(cells, n, o, c) == [i \in 1 .. c |-> cells[Cell(n, o, i - 1)]]

LEMMA CellFacts ==
  ASSUME NEW n \in Nat \ {0}, NEW a \in Nat, NEW d \in 0 .. n
  PROVE  /\ a % n \in 0 .. n - 1
         /\ (a + d) % n = Cell(n, a % n, d)
         /\ a < n => a % n = a
<1> DEFINE q == a \div n
           r == a % n
<1>1. q \in Int /\ r \in 0 .. n - 1 /\ a = n * q + r
  OBVIOUS
<1>2. ASSUME NEW p \in Int, NEW s \in 0 .. n - 1
      PROVE  (n * p + s) % n = s
  OBVIOUS
<1> HIDE DEF q, r
<1>3. CASE r + d < n
  <2>1. a + d = n * q + (r + d) /\ r + d \in 0 .. n - 1
    BY <1>1, <1>3
  <2>2. (n * q + (r + d)) % n = r + d
    BY <1>1, <1>2, <2>1
  <2>3. Cell(n, r, d) = r + d
    BY <1>3 DEF Cell
  <2> QED
    BY <2>1, <2>2, <2>3 DEF r
<1>4. CASE ~(r + d < n)
  <2>1. a + d = n * (q + 1) + (r + d - n) /\ r + d - n \in 0 .. n - 1 /\ q + 1 \in Int
    BY <1>1, <1>4
  <2>2. (n * (q + 1) + (r + d - n)) % n = r + d - n
    BY <1>1, <1>2, <2>1
  <2>3. Cell(n, r, d) = r + d - n
    BY <1>4 DEF Cell
  <2> QED
    BY <2>1, <2>2, <2>3 DEF r
<1>5. a < n => a % n = a
  OBVIOUS
<1> QED
  BY <1>1, <1>3, <1>4, <1>5 DEF r

LEMMA CellApart ==
  ASSUME NEW n \in Nat \ {0}, NEW o \in 0 .. n - 1
  PROVE  /\ \A i \in 0 .. n : Cell(n, o, i) \in 0 .. n - 1
         /\ \A i, j \in 0 .. n - 1 : Cell(n, o, i) = Cell(n, o, j) => i = j
         /\ \A i \in 1 .. n : Cell(n, Cell(n, o, 1), i - 1) = Cell(n, o, i)
BY DEF Cell

LEMMA RingPut ==
  ASSUME NEW n \in Nat \ {0}, NEW o \in 0 .. n - 1, NEW c \in 0 .. n - 1,
         NEW cells, NEW M, NEW v \in M, RingOf(cells, n, o, c) \in Seq(M),
         NEW p, p[Cell(n, o, c)] = v,
         \A i \in 0 .. n - 1 : i # Cell(n, o, c) => p[i] = cells[i]
  PROVE  /\ RingOf(p, n, o, c + 1) = Append(RingOf(cells, n, o, c), v)
         /\ RingOf(p, n, o, c + 1) \in Seq(M)
         /\ Len(RingOf(cells, n, o, c)) = c
<1> DEFINE s == RingOf(cells, n, o, c)
           u == RingOf(p, n, o, c + 1)
<1>1. c \in 0 .. n /\ Cell(n, o, c) \in 0 .. n - 1
  BY CellApart
<1>3. ASSUME NEW i \in 1 .. c
      PROVE  p[Cell(n, o, i - 1)] = cells[Cell(n, o, i - 1)]
  <2>1. i - 1 \in 0 .. n - 1 /\ i - 1 # c /\ c \in 0 .. n - 1 /\ i - 1 \in 0 .. n
    OBVIOUS
  <2>2. \A j, l \in 0 .. n - 1 : Cell(n, o, j) = Cell(n, o, l) => j = l
    BY CellApart
  <2>3. Cell(n, o, i - 1) # Cell(n, o, c)
    BY <2>1, <2>2
  <2>4. Cell(n, o, i - 1) \in 0 .. n - 1
    BY <2>1, CellApart
  <2> QED
    BY <2>3, <2>4
<1>4. DOMAIN s = 1 .. c /\ DOMAIN u = 1 .. c + 1
  BY DEF RingOf
<1>5. \A i \in 1 .. c : u[i] = s[i]
  BY <1>3 DEF RingOf
<1>6. u[c + 1] = v
  <2>1. u[c + 1] = p[Cell(n, o, (c + 1) - 1)]
    BY DEF RingOf
  <2>2. (c + 1) - 1 = c
    OBVIOUS
  <2> QED
    BY <2>1, <2>2
<1> HIDE DEF s, u
<1>7. Len(s) = c /\ s \in Seq(M)
  BY <1>4, LenProperties DEF s
<1>8. /\ Append(s, v) \in Seq(M)
      /\ Len(Append(s, v)) = c + 1
      /\ \A i \in 1 .. c : Append(s, v)[i] = s[i]
      /\ Append(s, v)[c + 1] = v
  BY <1>7, AppendProperties
<1>9. DOMAIN Append(s, v) = 1 .. c + 1
  BY <1>8, LenProperties
<1>10. u = Append(s, v)
  <2>1. \A i \in 1 .. c + 1 : u[i] = Append(s, v)[i]
    <3>1. \A i \in 1 .. c + 1 : i \in 1 .. c \/ i = c + 1
      OBVIOUS
    <3> QED
      BY <1>5, <1>6, <1>8, <3>1
  <2>2. u = [i \in 1 .. c + 1 |-> u[i]]
    BY <1>4 DEF u, RingOf
  <2>3. Append(s, v) = [i \in 1 .. c + 1 |-> Append(s, v)[i]]
    BY <1>8, <1>9, LenProperties
  <2> QED
    BY <2>1, <2>2, <2>3
<1> QED
  BY <1>7, <1>8, <1>10 DEF s, u

LEMMA RingTake ==
  ASSUME NEW n \in Nat \ {0}, NEW o \in 0 .. n - 1, NEW c \in 1 .. n,
         NEW cells, NEW M, RingOf(cells, n, o, c) \in Seq(M)
  PROVE  LET s == RingOf(cells, n, o, c) IN
         /\ s # << >> /\ Head(s) = cells[o] /\ cells[o] \in M
         /\ Tail(s) = RingOf(cells, n, Cell(n, o, 1), c - 1)
         /\ Tail(s) \in Seq(M)
<1> DEFINE s == RingOf(cells, n, o, c)
           u == RingOf(cells, n, Cell(n, o, 1), c - 1)
<1>1. DOMAIN s = 1 .. c /\ DOMAIN u = 1 .. c - 1
  BY DEF RingOf
<1>2. \A i \in 1 .. c - 1 : u[i] = s[i + 1]
  <2> SUFFICES ASSUME NEW i \in 1 .. c - 1
               PROVE  u[i] = s[i + 1]
    OBVIOUS
  <2>1. i \in 1 .. n /\ i + 1 \in 1 .. c /\ (i + 1) - 1 = i
    OBVIOUS
  <2>2. u[i] = cells[Cell(n, Cell(n, o, 1), i - 1)]
    BY DEF RingOf
  <2>3. s[i + 1] = cells[Cell(n, o, i)]
    <3>1. s[i + 1] = cells[Cell(n, o, (i + 1) - 1)]
      BY <2>1 DEF RingOf
    <3> QED
      BY <2>1, <3>1
  <2>4. Cell(n, Cell(n, o, 1), i - 1) = Cell(n, o, i)
    BY <2>1, CellApart
  <2> QED
    BY <2>2, <2>3, <2>4
<1>3. s[1] = cells[o]
  <2>1. s[1] = cells[Cell(n, o, 0)]
    BY DEF RingOf
  <2>2. Cell(n, o, 0) = o
    BY DEF Cell
  <2> QED
    BY <2>1, <2>2
<1>4. u = [i \in 1 .. c - 1 |-> u[i]]
  BY DEF RingOf
<1> HIDE DEF s, u
<1>5. s \in Seq(M) /\ Len(s) = c /\ s # << >>
  BY <1>1, LenProperties, EmptySeq DEF s
<1>6. /\ Tail(s) \in Seq(M) /\ Len(Tail(s)) = c - 1 /\ Head(s) = s[1]
      /\ \A i \in 1 .. c - 1 : Tail(s)[i] = s[i + 1]
  BY <1>5, ListTail
<1>7. s[1] \in M
  BY <1>5, ElementOfSeq
<1>8. Tail(s) = [i \in 1 .. c - 1 |-> Tail(s)[i]]
  BY <1>6, LenProperties
<1>9. Tail(s) = u
  BY <1>2, <1>4, <1>6, <1>8
<1> QED
  BY <1>3, <1>5, <1>6, <1>7, <1>9 DEF s, u
-----------------------------------------------------------------------------
(* The ring of a mailbox.                                                  *)
Mb == [pool : [0 .. MbSize - 1 -> Message \cup {None}],
       in : 0 .. MbSize - 1, out : 0 .. MbSize - 1, entry : 0 .. MbSize]

MailBuf(b) == RingOf(b.pool, MbSize, b.out, b.entry)

MailRing(b) == /\ b \in Mb /\ b.in = Cell(MbSize, b.out, b.entry)
               /\ MailBuf(b) \in Seq(Message)

LEMMA StoredFacts ==
  ASSUME NEW b, MailRing(b), b.entry # MbSize, NEW v \in Message
  PROVE  /\ MailRing(Stored(b, v))
         /\ MailBuf(Stored(b, v)) = Append(MailBuf(b), v)
         /\ Len(MailBuf(b)) < MbSize
<1> DEFINE c == Stored(b, v)
<1>1. /\ MbSize \in Nat \ {0} /\ b \in Mb /\ b.out \in 0 .. MbSize - 1
      /\ b.in \in 0 .. MbSize - 1 /\ b.entry \in 0 .. MbSize - 1
      /\ b.pool \in [0 .. MbSize - 1 -> Message \cup {None}]
      /\ b.in = Cell(MbSize, b.out, b.entry)
      /\ RingOf(b.pool, MbSize, b.out, b.entry) \in Seq(Message)
  BY MailboxAssumption DEF MailRing, Mb, MailBuf
<1>2. /\ c.pool = [b.pool EXCEPT ![b.in] = v] /\ c.in = Advance(b.in)
      /\ c.out = b.out /\ c.entry = b.entry + 1
      /\ c = [pool |-> c.pool, in |-> c.in, out |-> c.out, entry |-> c.entry]
  <2> DEFINE p == [b.pool EXCEPT ![b.in] = v]
             i == Advance(b.in)
             e == b.entry + 1
  <2>1. c = [b EXCEPT !.pool = p, !.in = i, !.entry = e]
    BY DEF Stored
  <2> HIDE DEF c, p, i, e
  <2>2. /\ c.pool = p /\ c.in = i /\ c.out = b.out /\ c.entry = e
        /\ c = [pool |-> c.pool, in |-> c.in, out |-> c.out, entry |-> c.entry]
    BY <1>1, <2>1 DEF Mb
  <2> QED
    BY <2>2 DEF p, i, e
<1>3. Advance(b.in) \in 0 .. MbSize - 1 /\ b.entry + 1 \in 0 .. MbSize
  BY <1>1 DEF Advance
<1>4. Advance(b.in) = Cell(MbSize, b.out, b.entry + 1)
  <2>1. ASSUME NEW n \in Nat \ {0}, NEW o \in 0 .. n - 1, NEW e \in 0 .. n - 1, NEW j,
               j = Cell(n, o, e)
        PROVE  (IF j + 1 >= n THEN 0 ELSE j + 1) = Cell(n, o, e + 1)
    BY <2>1 DEF Cell
  <2> QED
    BY <1>1, <2>1 DEF Advance
<1>5. [b.pool EXCEPT ![b.in] = v] \in [0 .. MbSize - 1 -> Message \cup {None}]
  BY <1>1
<1> HIDE DEF c
<1>6. c \in Mb
  BY <1>1, <1>2, <1>3, <1>5 DEF Mb
<1>7. /\ RingOf(c.pool, MbSize, b.out, b.entry + 1) =
           Append(RingOf(b.pool, MbSize, b.out, b.entry), v)
      /\ RingOf(c.pool, MbSize, b.out, b.entry + 1) \in Seq(Message)
      /\ Len(RingOf(b.pool, MbSize, b.out, b.entry)) = b.entry
  <2> DEFINE n == MbSize
             o == b.out
             e == b.entry
             u == b.pool
             w == c.pool
  <2>1. /\ n \in Nat \ {0} /\ o \in 0 .. n - 1 /\ e \in 0 .. n - 1
        /\ u \in [0 .. n - 1 -> Message \cup {None}]
        /\ RingOf(u, n, o, e) \in Seq(Message)
    BY <1>1
  <2>2. /\ w[Cell(n, o, e)] = v
        /\ \A i \in 0 .. n - 1 : i # Cell(n, o, e) => w[i] = u[i]
    BY <1>1, <1>2
  <2> HIDE DEF n, o, e, u, w
  <2>3. /\ RingOf(w, n, o, e + 1) = Append(RingOf(u, n, o, e), v)
        /\ RingOf(w, n, o, e + 1) \in Seq(Message)
        /\ Len(RingOf(u, n, o, e)) = e
    BY <2>1, <2>2, RingPut
  <2> QED
    BY <2>3 DEF n, o, e, u, w
<1>8. b.entry < MbSize
  BY <1>1
<1> QED
  BY <1>2, <1>4, <1>6, <1>7, <1>8 DEF MailRing, MailBuf, c

LEMMA FetchedFacts ==
  ASSUME NEW b, MailRing(b), b.entry # 0
  PROVE  /\ MailRing(Fetched(b))
         /\ MailBuf(b) # << >> /\ Head(MailBuf(b)) = b.pool[b.out]
         /\ b.pool[b.out] \in Message
         /\ MailBuf(Fetched(b)) = Tail(MailBuf(b))
<1> DEFINE c == Fetched(b)
<1>1. /\ MbSize \in Nat \ {0} /\ b \in Mb /\ b.out \in 0 .. MbSize - 1
      /\ b.in \in 0 .. MbSize - 1 /\ b.entry \in 1 .. MbSize
      /\ b.pool \in [0 .. MbSize - 1 -> Message \cup {None}]
      /\ b.in = Cell(MbSize, b.out, b.entry)
      /\ RingOf(b.pool, MbSize, b.out, b.entry) \in Seq(Message)
  BY MailboxAssumption DEF MailRing, Mb, MailBuf
<1>2. /\ c.pool = b.pool /\ c.in = b.in
      /\ c.out = Advance(b.out) /\ c.entry = b.entry - 1
      /\ c = [pool |-> c.pool, in |-> c.in, out |-> c.out, entry |-> c.entry]
  <2> DEFINE i == Advance(b.out)
             e == b.entry - 1
  <2>1. c = [b EXCEPT !.out = i, !.entry = e]
    BY DEF Fetched
  <2> HIDE DEF c, i, e
  <2>2. /\ c.pool = b.pool /\ c.in = b.in /\ c.out = i /\ c.entry = e
        /\ c = [pool |-> c.pool, in |-> c.in, out |-> c.out, entry |-> c.entry]
    BY <1>1, <2>1 DEF Mb
  <2> QED
    BY <2>2 DEF i, e
<1>3. /\ Advance(b.out) \in 0 .. MbSize - 1 /\ b.entry - 1 \in 0 .. MbSize
      /\ Advance(b.out) = Cell(MbSize, b.out, 1)
      /\ b.in = Cell(MbSize, Advance(b.out), b.entry - 1)
  <2> DEFINE n == MbSize
             o == b.out
             e == b.entry
             i == b.in
  <2>1. n \in Nat \ {0} /\ o \in 0 .. n - 1 /\ e \in 1 .. n /\ i = Cell(n, o, e)
    BY <1>1
  <2> HIDE DEF n, o, e, i
  <2>2. /\ Cell(n, o, 1) \in 0 .. n - 1 /\ e - 1 \in 0 .. n
        /\ i = Cell(n, Cell(n, o, 1), e - 1)
    BY <2>1, CellApart
  <2>3. (IF o + 1 >= n THEN 0 ELSE o + 1) = Cell(n, o, 1)
    BY <2>1 DEF Cell
  <2> QED
    BY <2>2, <2>3 DEF Advance, n, o, e, i
<1> HIDE DEF c
<1>4. c \in Mb
  BY <1>1, <1>2, <1>3 DEF Mb
<1>5. LET s == RingOf(b.pool, MbSize, b.out, b.entry) IN
      /\ s # << >> /\ Head(s) = b.pool[b.out] /\ b.pool[b.out] \in Message
      /\ Tail(s) = RingOf(b.pool, MbSize, Cell(MbSize, b.out, 1), b.entry - 1)
      /\ Tail(s) \in Seq(Message)
  BY <1>1, RingTake
<1> QED
  BY <1>2, <1>3, <1>4, <1>5 DEF MailRing, MailBuf, c

LEMMA EmptyRing ==
  ASSUME NEW b \in Mb, b.entry = 0, b.in = 0, b.out = 0
  PROVE  MailRing(b) /\ MailBuf(b) = << >>
<1>1. MbSize \in Nat \ {0}
  BY MailboxAssumption
<1>2. Cell(MbSize, 0, 0) = 0
  BY <1>1 DEF Cell
<1>3. MailBuf(b) = << >>
  BY DEF MailBuf, RingOf
<1> QED
  BY <1>2, <1>3 DEF MailRing

(* What the channel of m sees of m's ring.                                 *)
LEMMA MailBufSeen ==
  ASSUME NEW b, MailRing(b)
  PROVE  [i \in 1 .. b.entry |-> b.pool[(b.out + i - 1) % MbSize]] = MailBuf(b)
<1>1. MbSize \in Nat \ {0} /\ b.out \in 0 .. MbSize - 1 /\ b.entry \in 0 .. MbSize
  BY MailboxAssumption DEF MailRing, Mb
<1>2. ASSUME NEW i \in 1 .. b.entry
      PROVE  (b.out + i - 1) % MbSize = Cell(MbSize, b.out, i - 1)
  <2>1. i - 1 \in 0 .. MbSize /\ b.out \in Nat /\ b.out < MbSize
        /\ b.out + i - 1 = b.out + (i - 1)
    BY <1>1
  <2> QED
    BY <1>1, <2>1, CellFacts
<1> QED
  BY <1>2 DEF MailBuf, RingOf
-----------------------------------------------------------------------------
(* A call of t about the buffer a of a mailbox or a data queue, which it   *)
(* leaves alone, puts a message into or takes one from.                    *)
HandOf(a) == [t \in Thread |-> IF arg[t] = a THEN hand[t] ELSE None]

Uses(t, a, b, c, size) ==
  /\ OneMoves(t) /\ arg'[t] = a /\ (arg[t] = a \/ hand[t] = None)
  /\ \/ c = b /\ hand'[t] = hand[t]
     \/ c = b /\ hand[t] = None /\ hand'[t] \in Message
     \/ c = b /\ hand[t] # None /\ hand'[t] = None
     \/ /\ \E v \in Message : c = Append(b, v) /\ hand[t] \in {None, v}
        /\ Len(b) < size /\ hand'[t] = None
     \/ b # << >> /\ c = Tail(b) /\ hand[t] = None /\ hand'[t] = Head(b)

LEMMA HandMoves ==
  ASSUME ControlTypeOK, NEW t \in Thread, OneMoves(t), NEW a,
         arg'[t] = a, arg[t] = a \/ hand[t] = None
  PROVE  /\ HandOf(a)' = [HandOf(a) EXCEPT ![t] = hand'[t]]
         /\ HandOf(a)[t] = hand[t]
         /\ hand'[t] = hand[t] => HandOf(a)' = HandOf(a)
<1>1. \A u \in Thread : HandOf(a)'[u] = IF u = t THEN hand'[t] ELSE HandOf(a)[u]
  BY DEF OneMoves, HandOf
<1>2. HandOf(a)[t] = hand[t]
  BY DEF HandOf
<1>3. HandOf(a)' = [HandOf(a) EXCEPT ![t] = hand'[t]]
  <2>1. HandOf(a)' = [u \in Thread |-> HandOf(a)'[u]]
    BY DEF HandOf
  <2>2. [HandOf(a) EXCEPT ![t] = hand'[t]] =
          [u \in Thread |-> IF u = t THEN hand'[t] ELSE HandOf(a)[u]]
    BY DEF HandOf
  <2> QED
    BY <1>1, <2>1, <2>2
<1>4. hand'[t] = hand[t] => HandOf(a)' = HandOf(a)
  BY <1>1, <1>2 DEF HandOf
<1> QED
  BY <1>2, <1>3, <1>4
(* t goes to l, to go on from h, in a call about a, with v and b.          *)
Sets(t, l, h, a, v, b) ==
  /\ pc' = [pc EXCEPT ![t] = l] /\ then' = [then EXCEPT ![t] = h]
  /\ arg' = [arg EXCEPT ![t] = a] /\ hand' = [hand EXCEPT ![t] = v]
  /\ blk' = [blk EXCEPT ![t] = b]

LEMMA SetsSits ==
  ASSUME ControlTypeOK, NEW t \in Thread, NEW l \in Location, NEW h \in Location,
         NEW a \in Queue, NEW v \in Message \cup {None}, NEW b \in 0 .. MaxMsgs,
         Sets(t, l, h, a, v, b), Seated(l, h, a, v, b)
  PROVE  OneMoves(t) /\ Sits(t) /\ hand'[t] = v /\ arg'[t] = a /\ blk'[t] = b
<1>1. /\ pc' \in [Thread -> Location] /\ then' \in [Thread -> Location]
      /\ arg' \in [Thread -> Queue] /\ hand' \in [Thread -> Message \cup {None}]
      /\ blk' \in [Thread -> 0 .. MaxMsgs]
  BY DEF ControlTypeOK, Sets
<1>2. OneMoves(t)
  BY <1>1 DEF OneMoves, ControlTypeOK, Sets
<1>3. pc'[t] = l /\ then'[t] = h /\ arg'[t] = a /\ hand'[t] = v /\ blk'[t] = b
  BY DEF ControlTypeOK, Sets
<1> QED
  BY <1>2, <1>3 DEF Sits

(* The variables of a thread that an action leaves alone.                  *)
LEMMA Unset ==
  ASSUME ControlTypeOK, NEW t \in Thread
  PROVE  /\ pc = [pc EXCEPT ![t] = pc[t]] /\ then = [then EXCEPT ![t] = then[t]]
         /\ arg = [arg EXCEPT ![t] = arg[t]] /\ hand = [hand EXCEPT ![t] = hand[t]]
         /\ blk = [blk EXCEPT ![t] = blk[t]]
BY DEF ControlTypeOK

LEMMA SeatFacts ==
  ASSUME ControlInv, NEW t \in Thread, pc[t] # "sched"
  PROVE  /\ ControlTypeOK /\ then[t] = "user"
         /\ pc[t] \in Hands => hand[t] \in Message
         /\ pc[t] \notin Hands => hand[t] = None
         /\ pc[t] \in WithBlock => blk[t] \in Block
         /\ pc[t] \notin WithBlock => blk[t] = Null
         /\ pc[t] \in MailLocation => arg[t] \in Mailboxes
         /\ pc[t] \in MqLocation => arg[t] \in MqQueues
         /\ pc[t] \in DqLocation => arg[t] \in DataQueues
<1>1. Seated(pc[t], then[t], arg[t], hand[t], blk[t]) /\ ControlTypeOK
  BY DEF ControlInv, SeatInv
<1>2. then[t] = "user" /\ "user" \notin Hands
  BY <1>1 DEF Seated, Hands
<1> QED
  BY <1>1, <1>2 DEF Seated

(* The end of a section, of a wait and of a call.                          *)
LEMMA ResumeSets ==
  ASSUME ControlInv, NEW t \in Thread, pc[t] # "sched", NEW q, NEW l, ResumeFirst(t, q, l)
  PROVE  \/ pc' = [pc EXCEPT ![t] = l] /\ then' = [then EXCEPT ![t] = "user"]
         \/ pc' = [pc EXCEPT ![t] = "sched"] /\ then' = [then EXCEPT ![t] = l]
BY SeatFacts, Unset DEF ResumeFirst, Goto, Then

MailInv == mb \in [Mailboxes -> Mb] /\ \A m \in Mailboxes : MailRing(mb[m])

(* What a call of t about m does.                                          *)
MailDoes(t, m) ==
  /\ Uses(t, m, MailBuf(mb[m]), MailBuf(mb'[m]), MbSize) /\ Sits(t)
  /\ blk' = blk /\ MailRing(mb'[m])
  /\ mb' = [mb EXCEPT ![m] = mb'[m]]

LEMMA MailSendDoes ==
  ASSUME ControlInv, MailInv, NEW t \in Thread, NEW m \in Mailboxes, NEW v \in Message,
         NEW n, MailSendLoop(t, m, v, n), pc[t] \in {"user", "sending"},
         hand[t] \in {None, v}, arg[t] = m \/ hand[t] = None,
         arg' = [arg EXCEPT ![t] = m], blk' = blk
  PROVE  MailDoes(t, m)
<1>1. /\ ControlTypeOK /\ then[t] = "user" /\ blk[t] = Null /\ m \in Queue
      /\ mb \in [Mailboxes -> Mb] /\ MailRing(mb[m]) /\ None \notin Message
      /\ Null \in 0 .. MaxMsgs
  BY SeatFacts, KindFacts, RetryAssumption, QueueAssumption DEF WithBlock, MailInv, Null
<1>2. blk' = [blk EXCEPT ![t] = Null]
  BY <1>1, Unset
<1> USE DEF Location, MailLocation, MqLocation, DqLocation, Hands, WithBlock
<1>3. CASE mb[m].entry # MbSize /\ mb' = [mb EXCEPT ![m] = Stored(@, v)]
           /\ ResumeFirst(t, m, "user") /\ Hold(t, None)
  <2>1. \E l \in {"user", "sched"} : Sets(t, l, "user", m, None, Null)
    <3>1. \/ pc' = [pc EXCEPT ![t] = "user"] /\ then' = [then EXCEPT ![t] = "user"]
          \/ pc' = [pc EXCEPT ![t] = "sched"] /\ then' = [then EXCEPT ![t] = "user"]
      BY <1>3, ResumeSets
    <3> QED
      BY <1>2, <1>3, <3>1 DEF Sets, Hold
  <2>2. PICK l \in {"user", "sched"} : Sets(t, l, "user", m, None, Null)
    BY <2>1
  <2>3. Seated(l, "user", m, None, Null)
    BY DEF Seated
  <2>4. OneMoves(t) /\ Sits(t) /\ hand'[t] = None /\ arg'[t] = m
    BY <1>1, <2>2, <2>3, SetsSits
  <2>5. mb'[m] = Stored(mb[m], v)
    BY <1>1, <1>3
  <2>6. /\ MailRing(mb'[m]) /\ MailBuf(mb'[m]) = Append(MailBuf(mb[m]), v)
        /\ Len(MailBuf(mb[m])) < MbSize
    BY <1>1, <1>3, <2>5, StoredFacts
  <2>7. mb' = [mb EXCEPT ![m] = mb'[m]]
    BY <1>3, <2>5
  <2> QED
    BY <1>1, <2>4, <2>6, <2>7 DEF MailDoes, Uses
<1>4. CASE WaitAgain(t, Private[m], n, "sending") /\ Hold(t, v) /\ mb' = mb
  <2>1. Sets(t, "sched", "sending", m, v, Null)
    BY <1>1, <1>2, <1>4 DEF WaitAgain, WaitFor, WaitIn, Sets, Hold, Goto, Then
  <2>2. Seated("sched", "sending", m, v, Null)
    BY DEF Seated
  <2>3. OneMoves(t) /\ Sits(t) /\ hand'[t] = v /\ arg'[t] = m
    BY <1>1, <2>1, <2>2, SetsSits
  <2>4. mb' = [mb EXCEPT ![m] = mb'[m]]
    BY <1>1, <1>4
  <2> QED
    BY <1>1, <1>4, <2>3, <2>4 DEF MailDoes, Uses
<1>5. CASE GiveUp(t) /\ mb' = mb
  <2>1. Sets(t, "user", "user", m, None, Null)
    BY <1>1, <1>2, <1>5, Unset DEF GiveUp, Sets, Hold, Goto
  <2>2. Seated("user", "user", m, None, Null)
    BY DEF Seated
  <2>3. OneMoves(t) /\ Sits(t) /\ hand'[t] = None /\ arg'[t] = m
    BY <1>1, <2>1, <2>2, SetsSits
  <2>4. mb' = [mb EXCEPT ![m] = mb'[m]]
    BY <1>1, <1>5
  <2> QED
    BY <1>1, <1>5, <2>3, <2>4 DEF MailDoes, Uses
<1> QED
  BY <1>3, <1>4, <1>5 DEF MailSendLoop
LEMMA MailRecvDoes ==
  ASSUME ControlInv, MailInv, NEW t \in Thread, NEW m \in Mailboxes,
         NEW n, MailRecvLoop(t, m, n), pc[t] \in {"user", "receiving"},
         arg' = [arg EXCEPT ![t] = m], blk' = blk
  PROVE  MailDoes(t, m)
<1>1. /\ ControlTypeOK /\ then[t] = "user" /\ blk[t] = Null /\ m \in Queue
      /\ hand[t] = None
      /\ mb \in [Mailboxes -> Mb] /\ MailRing(mb[m]) /\ None \notin Message
      /\ Null \in 0 .. MaxMsgs
  BY SeatFacts, KindFacts, RetryAssumption, QueueAssumption
     DEF WithBlock, Hands, MailInv, Null
<1>2. blk' = [blk EXCEPT ![t] = Null]
  BY <1>1, Unset
<1> USE DEF Location, MailLocation, MqLocation, DqLocation, Hands, WithBlock
<1>3. CASE mb[m].entry # 0 /\ mb' = [mb EXCEPT ![m] = Fetched(@)]
           /\ ResumeFirst(t, Private[m], "mailed") /\ Hold(t, mb[m].pool[mb[m].out])
  <2> DEFINE v == mb[m].pool[mb[m].out]
  <2>1. mb'[m] = Fetched(mb[m])
    BY <1>1, <1>3
  <2>2. /\ MailRing(mb'[m]) /\ MailBuf(mb[m]) # << >> /\ Head(MailBuf(mb[m])) = v
        /\ v \in Message /\ MailBuf(mb'[m]) = Tail(MailBuf(mb[m]))
    BY <1>1, <1>3, <2>1, FetchedFacts
  <2>3. mb' = [mb EXCEPT ![m] = mb'[m]]
    BY <1>3, <2>1
  <2>4. hand' = [hand EXCEPT ![t] = v]
    BY <1>3 DEF Hold
  <2> HIDE DEF v
  <2>5. \/ Sets(t, "mailed", "user", m, v, Null)
        \/ Sets(t, "sched", "mailed", m, v, Null)
    <3>1. \/ pc' = [pc EXCEPT ![t] = "mailed"] /\ then' = [then EXCEPT ![t] = "user"]
          \/ pc' = [pc EXCEPT ![t] = "sched"] /\ then' = [then EXCEPT ![t] = "mailed"]
      BY <1>3, ResumeSets
    <3> QED
      BY <1>2, <2>4, <3>1 DEF Sets
  <2>6. Seated("mailed", "user", m, v, Null) /\ Seated("sched", "mailed", m, v, Null)
    BY <2>2 DEF Seated
  <2>7. OneMoves(t) /\ Sits(t) /\ hand'[t] = v /\ arg'[t] = m
    BY <1>1, <2>2, <2>5, <2>6, SetsSits
  <2> QED
    BY <1>1, <2>2, <2>3, <2>7 DEF MailDoes, Uses
<1>4. CASE WaitAgain(t, m, n, "receiving") /\ UNCHANGED <<mb, hand>>
  <2>1. Sets(t, "sched", "receiving", m, None, Null)
    BY <1>1, <1>2, <1>4, Unset DEF WaitAgain, WaitFor, WaitIn, Sets, Goto, Then
  <2>2. Seated("sched", "receiving", m, None, Null)
    BY DEF Seated
  <2>3. OneMoves(t) /\ Sits(t) /\ hand'[t] = None /\ arg'[t] = m
    BY <1>1, <2>1, <2>2, SetsSits
  <2>4. mb' = [mb EXCEPT ![m] = mb'[m]]
    BY <1>1, <1>4
  <2> QED
    BY <1>1, <1>4, <2>3, <2>4 DEF MailDoes, Uses
<1>5. CASE GiveUp(t) /\ mb' = mb
  <2>1. Sets(t, "user", "user", m, None, Null)
    BY <1>1, <1>2, <1>5, Unset DEF GiveUp, Sets, Hold, Goto
  <2>2. Seated("user", "user", m, None, Null)
    BY DEF Seated
  <2>3. OneMoves(t) /\ Sits(t) /\ hand'[t] = None /\ arg'[t] = m
    BY <1>1, <2>1, <2>2, SetsSits
  <2>4. mb' = [mb EXCEPT ![m] = mb'[m]]
    BY <1>1, <1>5
  <2> QED
    BY <1>1, <1>5, <2>3, <2>4 DEF MailDoes, Uses
<1> QED
  BY <1>3, <1>4, <1>5 DEF MailRecvLoop

(* A call of a thread that gives up, or returns with what it received.     *)
LEMMA MailLeaves ==
  ASSUME ControlInv, MailInv, NEW t \in Thread,
         pc[t] \in {"sending", "receiving", "mailed"},
         hand' = [hand EXCEPT ![t] = None], pc' = [pc EXCEPT ![t] = "user"],
         UNCHANGED <<then, arg, blk, mb>>
  PROVE  MailDoes(t, arg[t])
<1>1. /\ ControlTypeOK /\ then[t] = "user" /\ blk[t] = Null /\ arg[t] \in Mailboxes
      /\ arg[t] \in Queue /\ hand[t] \in Message \cup {None}
      /\ mb \in [Mailboxes -> Mb] /\ MailRing(mb[arg[t]]) /\ Null \in 0 .. MaxMsgs
  BY SeatFacts, KindFacts, QueueAssumption DEF WithBlock, MailLocation, MailInv, Null, Hands
<1>2. Sets(t, "user", "user", arg[t], None, Null)
  BY <1>1, Unset DEF Sets
<1>3. Seated("user", "user", arg[t], None, Null)
  BY DEF Seated, Hands, WithBlock, MailLocation, MqLocation, DqLocation
<1>4. OneMoves(t) /\ Sits(t) /\ hand'[t] = None /\ arg'[t] = arg[t]
  <2>1. PICK l \in Location : l = "user"
    BY DEF Location
  <2>2. /\ Sets(t, l, l, arg[t], None, Null) /\ Seated(l, l, arg[t], None, Null)
        /\ ControlTypeOK /\ arg[t] \in Queue /\ None \in Message \cup {None}
        /\ Null \in 0 .. MaxMsgs
    BY <1>1, <1>2, <1>3, <2>1
  <2> QED
    BY <2>2, SetsSits
<1>5. mb' = [mb EXCEPT ![arg[t]] = mb'[arg[t]]]
  BY <1>1
<1> QED
  BY <1>1, <1>4, <1>5 DEF MailDoes, Uses

(* The calls of threads that neither reset, delete nor create.             *)
MailCall(t) ==
  \/ \E m \in Mailboxes : MailSend(t, m) \/ MailRecv(t, m)
  \/ MailSendAgain(t) \/ MailRecvAgain(t) \/ MailReturn(t)

LEMMA MailCallDoes ==
  ASSUME ControlInv, MailInv, NEW t \in Thread, blk' = blk, MailCall(t)
  PROVE  \E m \in Mailboxes : MailDoes(t, m)
<1>1. ASSUME NEW m \in Mailboxes, MailSend(t, m)
      PROVE  MailDoes(t, m)
  <2>1. PICK v \in Message : \E n \in Timeouts(Private[m]) : MailSendLoop(t, m, v, n)
    BY <1>1 DEF MailSend
  <2>2. PICK n \in Timeouts(Private[m]) : MailSendLoop(t, m, v, n)
    BY <2>1
  <2>3. pc[t] = "user" /\ arg' = [arg EXCEPT ![t] = m]
    BY <1>1 DEF MailSend, Call, At, About
  <2>4. hand[t] = None
    BY <2>3, SeatFacts DEF Hands
  <2> QED
    BY <2>2, <2>3, <2>4, MailSendDoes
<1>2. ASSUME NEW m \in Mailboxes, MailRecv(t, m)
      PROVE  MailDoes(t, m)
  <2>1. PICK n \in Timeouts(m) : MailRecvLoop(t, m, n)
    BY <1>2 DEF MailRecv
  <2>2. pc[t] = "user" /\ arg' = [arg EXCEPT ![t] = m]
    BY <1>2 DEF MailRecv, Call, At, About
  <2> QED
    BY <2>1, <2>2, MailRecvDoes
<1>3. CASE MailSendAgain(t)
  <2>1. pc[t] = "sending" /\ arg' = arg
    BY <1>3 DEF MailSendAgain, At, ipcVars
  <2>2. arg[t] \in Mailboxes /\ hand[t] \in Message /\ arg' = [arg EXCEPT ![t] = arg[t]]
    BY <2>1, SeatFacts, Unset DEF MailLocation, Hands
  <2>3. CASE GiveUp(t) /\ UNCHANGED mb
    <3>1. hand' = [hand EXCEPT ![t] = None] /\ pc' = [pc EXCEPT ![t] = "user"] /\ then' = then
      BY <2>3 DEF GiveUp, Hold, Goto
    <3> QED
      BY <2>1, <2>2, <2>3, <3>1, MailLeaves
  <2>4. CASE MailSendLoop(t, arg[t], hand[t], Remaining(t))
    BY <2>1, <2>2, <2>4, MailSendDoes
  <2> QED
    BY <1>3, <2>3, <2>4 DEF MailSendAgain
<1>4. CASE MailRecvAgain(t)
  <2>1. pc[t] = "receiving" /\ arg' = arg
    BY <1>4 DEF MailRecvAgain, At, ipcVars
  <2>2. arg[t] \in Mailboxes /\ arg' = [arg EXCEPT ![t] = arg[t]]
    BY <2>1, SeatFacts, Unset DEF MailLocation
  <2>3. CASE GiveUp(t) /\ UNCHANGED mb
    <3>1. hand' = [hand EXCEPT ![t] = None] /\ pc' = [pc EXCEPT ![t] = "user"] /\ then' = then
      BY <2>3 DEF GiveUp, Hold, Goto
    <3> QED
      BY <2>1, <2>2, <2>3, <3>1, MailLeaves
  <2>4. CASE MailRecvLoop(t, arg[t], Remaining(t))
    BY <2>1, <2>2, <2>4, MailRecvDoes
  <2> QED
    BY <1>4, <2>3, <2>4 DEF MailRecvAgain
<1>5. CASE MailReturn(t)
  <2>1. pc[t] = "mailed" /\ UNCHANGED <<then, arg, mb>>
        /\ hand' = [hand EXCEPT ![t] = None] /\ pc' = [pc EXCEPT ![t] = "user"]
    BY <1>5 DEF MailReturn, At, Hold, Goto, ipcVars
  <2>2. arg[t] \in Mailboxes
    BY <2>1, SeatFacts DEF MailLocation
  <2> QED
    BY <2>1, <2>2, MailLeaves
<1> QED
  BY <1>1, <1>2, <1>3, <1>4, <1>5 DEF MailCall
-----------------------------------------------------------------------------
(* A step, or none, of a channel from the buffer b and the hands g to c    *)
(* and h.                                                                  *)
Entered(b, c, v, size) == Len(b) < size /\ (c = Append(b, v) \/ c = <<v>> \o b)

ByOne(t, b, c, g, h, size) ==
  \/ c = b /\ g[t] = None /\ \E v \in Message : h = [g EXCEPT ![t] = v]
  \/ c = b /\ g[t] # None /\ h = [g EXCEPT ![t] = None]
  \/ g[t] # None /\ Entered(b, c, g[t], size) /\ h = [g EXCEPT ![t] = None]
  \/ g[t] = None /\ b # << >> /\ c = Tail(b) /\ h = [g EXCEPT ![t] = Head(b)]

AtOnce(b, c, size) ==
  \/ c = b
  \/ \E v \in Message : Entered(b, c, v, size)
  \/ b # << >> /\ c = Tail(b)
  \/ c = << >>

BufferStep(b, c, g, h, size) ==
  (\E t \in Thread : ByOne(t, b, c, g, h, size)) \/ (h = g /\ AtOnce(b, c, size))

LEMMA UsesSteps ==
  ASSUME ControlTypeOK, NEW t \in Thread, NEW a, NEW b, NEW c, NEW size, Uses(t, a, b, c, size)
  PROVE  BufferStep(b, c, HandOf(a), HandOf(a)', size)
<1> DEFINE g == HandOf(a)
           h == HandOf(a)'
<1>1. OneMoves(t) /\ arg'[t] = a /\ (arg[t] = a \/ hand[t] = None)
  BY DEF Uses
<1>2. h = [g EXCEPT ![t] = hand'[t]] /\ g[t] = hand[t] /\ (hand'[t] = hand[t] => h = g)
  BY <1>1, HandMoves
<1> SUFFICES BufferStep(b, c, g, h, size)
  OBVIOUS
<1> HIDE DEF g, h
<1>3. CASE c = b /\ hand'[t] = hand[t]
  BY <1>2, <1>3 DEF BufferStep, AtOnce
<1>4. CASE c = b /\ hand[t] = None /\ hand'[t] \in Message
  BY <1>2, <1>4 DEF BufferStep, ByOne
<1>5. CASE c = b /\ hand[t] # None /\ hand'[t] = None
  BY <1>2, <1>5 DEF BufferStep, ByOne
<1>6. ASSUME NEW v \in Message, c = Append(b, v), hand[t] \in {None, v},
             Len(b) < size, hand'[t] = None
      PROVE  BufferStep(b, c, g, h, size)
  <2>1. Entered(b, c, v, size)
    BY <1>6 DEF Entered
  <2>2. CASE hand[t] = None
    BY <1>2, <1>6, <2>1, <2>2 DEF BufferStep, AtOnce
  <2>3. CASE hand[t] = v /\ hand[t] # None
    BY <1>2, <1>6, <2>1, <2>3 DEF BufferStep, ByOne
  <2> QED
    BY <1>6, <2>2, <2>3
<1>7. CASE b # << >> /\ c = Tail(b) /\ hand[t] = None /\ hand'[t] = Head(b)
  BY <1>2, <1>7 DEF BufferStep, ByOne
<1> QED
  BY <1>3, <1>4, <1>5, <1>6, <1>7 DEF Uses

LEMMA MailChannelStep ==
  ASSUME NEW m \in Mailboxes, MailRing(mb[m]), MailRing(mb'[m]),
         BufferStep(MailBuf(mb[m]), MailBuf(mb'[m]), HandOf(m), HandOf(m)', MbSize)
  PROVE  UNCHANGED MailChannel(m)!vars \/ MailChannel(m)!Next
<1> DEFINE b == [i \in 1 .. mb[m].entry |-> mb[m].pool[(mb[m].out + i - 1) % MbSize]]
           c == [i \in 1 .. mb'[m].entry |-> mb'[m].pool[(mb'[m].out + i - 1) % MbSize]]
           g == [t \in Thread |-> IF arg[t] = m THEN hand[t] ELSE None]
           h == [t \in Thread |-> IF arg'[t] = m THEN hand'[t] ELSE None]
<1>1. b = MailBuf(mb[m]) /\ c = MailBuf(mb'[m])
  BY MailBufSeen
<1>2. g = HandOf(m) /\ h = HandOf(m)'
  BY DEF HandOf
<1>3. BufferStep(b, c, g, h, MbSize)
  BY <1>1, <1>2
<1>4. MailChannel(m)!vars = <<b, g>> /\ (MailChannel(m)!vars)' = <<c, h>>
  BY DEF MailChannel!vars
<1>5. ASSUME NEW t \in Thread, ByOne(t, b, c, g, h, MbSize)
      PROVE  MailChannel(m)!Next
  <2>1. \/ MailChannel(m)!Offer(t) \/ MailChannel(m)!Put(t)
        \/ MailChannel(m)!Take(t) \/ MailChannel(m)!Return(t)
    <3> HIDE DEF b, c, g, h
    <3>1. MailChannel(m)!Offer(t) <=> /\ g[t] = None /\ c = b
                                      /\ \E v \in Message : h = [g EXCEPT ![t] = v]
      BY DEF MailChannel!Offer, MailChannel!Hold, b, c, g, h
    <3>2. MailChannel(m)!Put(t) <=>
            g[t] # None /\ Entered(b, c, g[t], MbSize) /\ h = [g EXCEPT ![t] = None]
      BY DEF MailChannel!Put, MailChannel!Enter, MailChannel!Hold, Entered, b, c, g, h
    <3>3. MailChannel(m)!Take(t) <=>
            g[t] = None /\ b # << >> /\ h = [g EXCEPT ![t] = Head(b)] /\ c = Tail(b)
      BY DEF MailChannel!Take, MailChannel!Hold, b, c, g, h
    <3>4. MailChannel(m)!Return(t) <=> g[t] # None /\ h = [g EXCEPT ![t] = None] /\ c = b
      BY DEF MailChannel!Return, MailChannel!Hold, b, c, g, h
    <3> QED
      BY <1>5, <3>1, <3>2, <3>3, <3>4 DEF ByOne
  <2> QED
    BY <2>1 DEF MailChannel!Next
<1>6. CASE h = g /\ AtOnce(b, c, MbSize)
  <2> HIDE DEF b, c, g, h
  <2>1. MailChannel(m)!PutNow <=> h = g /\ \E v \in Message : Entered(b, c, v, MbSize)
    BY DEF MailChannel!PutNow, MailChannel!Enter, Entered, b, c, g, h
  <2>2. MailChannel(m)!TakeNow <=> b # << >> /\ c = Tail(b) /\ h = g
    BY DEF MailChannel!TakeNow, b, c, g, h
  <2>3. MailChannel(m)!Reset <=> c = << >> /\ h = g
    BY DEF MailChannel!Reset, b, c, g, h
  <2> QED
    BY <1>4, <1>6, <2>1, <2>2, <2>3, SMTT(30) DEF AtOnce, MailChannel!Next
<1> HIDE DEF b, c, g, h
<1> QED
  BY <1>3, <1>5, <1>6 DEF BufferStep
-----------------------------------------------------------------------------
(* The ring of a data queue, before its indices wrap.                      *)
Dq == [item : [0 .. DqSize - 1 -> Message \cup {None}],
       put : 0 .. MaxPut, get : 0 .. MaxPut]

DqBuf(b) == RingOf(b.item, DqSize, b.get % DqSize, Count(b))

DqRing(b) == b \in Dq /\ Count(b) \in 0 .. DqSize /\ DqBuf(b) \in Seq(Message)

LEMMA PushedFacts ==
  ASSUME NEW b, DqRing(b), ~IsFull(b), b.put < MaxPut, NEW v \in Message
  PROVE  /\ DqRing(Pushed(b, v))
         /\ DqBuf(Pushed(b, v)) = Append(DqBuf(b), v)
         /\ Len(DqBuf(b)) < DqSize
<1> DEFINE n == DqSize
           o == b.get % DqSize
           e == Count(b)
           u == b.item
           p == Pushed(b, v)
           w == p.item
<1>1. /\ n \in Nat \ {0} /\ MaxPut \in 0 .. IndexMod - 1 /\ IndexMod \in Nat
      /\ b \in Dq /\ b.get \in 0 .. MaxPut /\ b.put \in 0 .. MaxPut
      /\ u \in [0 .. n - 1 -> Message \cup {None}]
      /\ e \in 0 .. n /\ RingOf(u, n, o, e) \in Seq(Message)
  BY DataQueueAssumption DEF DqRing, Dq, DqBuf
<1>2. b.put = b.get + e /\ e # n /\ b.get \in Nat /\ b.put \in Nat
  BY <1>1 DEF Count, IsFull
<1>3. o \in 0 .. n - 1 /\ b.put % n = Cell(n, o, e)
  <2>1. (b.get + e) % n = Cell(n, o, e) /\ o \in 0 .. n - 1
    BY <1>1, <1>2, CellFacts
  <2> QED
    BY <1>2, <2>1
<1>4. (b.put + 1) % IndexMod = b.put + 1
  <2>1. b.put + 1 \in Nat /\ b.put + 1 < IndexMod /\ IndexMod \in Nat \ {0}
    BY <1>1, <1>2
  <2>2. 0 \in 0 .. IndexMod
    BY <2>1
  <2> QED
    BY <2>1, <2>2, CellFacts
<1>5. /\ w = [u EXCEPT ![b.put % n] = v]
      /\ p.put = b.put + 1 /\ p.get = b.get
      /\ p = [item |-> w, put |-> p.put, get |-> p.get]
  <2> DEFINE i == (b.put + 1) % IndexMod
             c == b.put % n
  <2>1. i = b.put + 1 /\ b \in Dq
    BY <1>1, <1>4
  <2>2. p = [b EXCEPT !.item[c] = v, !.put = i]
    BY DEF Pushed
  <2> HIDE DEF i, c, p, n
  <2>3. /\ p.item = [u EXCEPT ![c] = v] /\ p.put = i /\ p.get = b.get
        /\ p = [item |-> p.item, put |-> p.put, get |-> p.get]
    BY <2>1, <2>2 DEF Dq
  <2> QED
    BY <2>1, <2>3 DEF c
<1> HIDE DEF n, o, e, u, p, w
<1>6. w \in [0 .. n - 1 -> Message \cup {None}]
  BY <1>1, <1>5
<1>7. b.put + 1 \in 0 .. MaxPut
  BY <1>1, <1>2
<1>8. p \in Dq
  <2>1. p.put \in 0 .. MaxPut /\ p.get \in 0 .. MaxPut
    BY <1>1, <1>5, <1>7
  <2>2. w \in [0 .. DqSize - 1 -> Message \cup {None}]
    BY <1>6 DEF n
  <2>3. [item |-> w, put |-> p.put, get |-> p.get] \in Dq
    BY <2>1, <2>2 DEF Dq
  <2> QED
    BY <1>5, <2>3
<1>9. Count(p) = e + 1 /\ e + 1 \in 0 .. n /\ e \in 0 .. n - 1
  <2>1. n \in Nat \ {0} /\ e \in 0 .. n /\ e # n /\ b.put = b.get + e /\ b.get \in Nat
    BY <1>1, <1>2
  <2>2. p.put = b.get + e + 1 /\ p.get = b.get
    BY <1>5, <2>1
  <2> QED
    BY <2>1, <2>2 DEF Count
<1>10. /\ w[Cell(n, o, e)] = v
       /\ \A i \in 0 .. n - 1 : i # Cell(n, o, e) => w[i] = u[i]
  BY <1>1, <1>3, <1>5
<1>11. /\ RingOf(w, n, o, e + 1) = Append(RingOf(u, n, o, e), v)
       /\ RingOf(w, n, o, e + 1) \in Seq(Message)
       /\ Len(RingOf(u, n, o, e)) = e
  <2>1. /\ n \in Nat \ {0} /\ o \in 0 .. n - 1 /\ e \in 0 .. n - 1
        /\ v \in Message /\ RingOf(u, n, o, e) \in Seq(Message)
    BY <1>1, <1>3, <1>9
  <2> QED
    BY <1>10, <2>1, RingPut
<1>12. DqBuf(b) = RingOf(u, n, o, e)
  BY DEF DqBuf, n, o, e, u
<1>13. DqBuf(p) = RingOf(w, n, o, e + 1)
  BY <1>5, <1>9 DEF DqBuf, n, o, w
<1>14. e < n
  BY <1>1, <1>9
<1>15. Len(DqBuf(b)) < DqSize
  BY <1>11, <1>12, <1>14 DEF n
<1>16. Count(p) \in 0 .. DqSize
  BY <1>9 DEF n
<1>17. DqRing(p) /\ DqBuf(p) = Append(DqBuf(b), v)
  BY <1>8, <1>11, <1>12, <1>13, <1>16 DEF DqRing
<1> QED
  BY <1>15, <1>17 DEF p

LEMMA PoppedFacts ==
  ASSUME NEW b, DqRing(b), b.get # b.put
  PROVE  /\ DqRing(Popped(b))
         /\ DqBuf(b) # << >> /\ Head(DqBuf(b)) = b.item[b.get % DqSize]
         /\ b.item[b.get % DqSize] \in Message
         /\ DqBuf(Popped(b)) = Tail(DqBuf(b))
<1> DEFINE n == DqSize
           o == b.get % DqSize
           e == Count(b)
           u == b.item
           p == Popped(b)
<1>1. /\ n \in Nat \ {0} /\ MaxPut \in 0 .. IndexMod - 1 /\ IndexMod \in Nat
      /\ b \in Dq /\ b.get \in 0 .. MaxPut /\ b.put \in 0 .. MaxPut
      /\ u \in [0 .. n - 1 -> Message \cup {None}]
      /\ e \in 0 .. n /\ RingOf(u, n, o, e) \in Seq(Message)
  BY DataQueueAssumption DEF DqRing, Dq, DqBuf
<1>2. b.put = b.get + e /\ e # 0 /\ b.get \in Nat /\ b.put \in Nat
  BY <1>1 DEF Count
<1>3. o \in 0 .. n - 1 /\ (b.get + 1) % n = Cell(n, o, 1)
  <2>1. 1 \in 0 .. n
    BY <1>1
  <2> QED
    BY <1>1, <1>2, <2>1, CellFacts
<1>4. (b.get + 1) % IndexMod = b.get + 1
  <2>1. b.get + 1 \in Nat /\ b.get + 1 < IndexMod /\ IndexMod \in Nat \ {0}
    BY <1>1, <1>2
  <2>2. 0 \in 0 .. IndexMod
    BY <2>1
  <2> QED
    BY <2>1, <2>2, CellFacts
<1>5. /\ p.item = u /\ p.put = b.put /\ p.get = b.get + 1
      /\ p = [item |-> u, put |-> p.put, get |-> p.get]
  <2>1. b = [item |-> u, put |-> b.put, get |-> b.get]
    BY <1>1 DEF Dq
  <2>2. p = [b EXCEPT !.get = b.get + 1]
    BY <1>4 DEF Popped
  <2> QED
    BY <2>1, <2>2
<1> HIDE DEF n, o, e, u, p
<1>6. b.get + 1 \in 0 .. MaxPut /\ Count(p) = e - 1 /\ e - 1 \in 0 .. n /\ e \in 1 .. n
  <2>1. n \in Nat \ {0} /\ e \in 1 .. n /\ b.put = b.get + e /\ b.get \in Nat
        /\ b.put \in 0 .. MaxPut /\ MaxPut \in Nat
    BY <1>1, <1>2
  <2>2. p.put = b.get + e /\ p.get = b.get + 1
    BY <1>5, <2>1
  <2> QED
    BY <2>1, <2>2 DEF Count
<1>7. p \in Dq
  BY <1>1, <1>5, <1>6 DEF Dq, n
<1>8. LET s == RingOf(u, n, o, e) IN
      /\ s # << >> /\ Head(s) = u[o] /\ u[o] \in Message
      /\ Tail(s) = RingOf(u, n, Cell(n, o, 1), e - 1)
      /\ Tail(s) \in Seq(Message)
  BY <1>1, <1>3, <1>6, RingTake
<1>9. DqBuf(b) = RingOf(u, n, o, e)
  BY DEF DqBuf, n, o, e, u
<1>10. DqBuf(p) = RingOf(u, n, Cell(n, o, 1), e - 1)
  BY <1>3, <1>5, <1>6 DEF DqBuf, n, u
<1>11. Count(p) \in 0 .. DqSize
  BY <1>6 DEF n
<1>12. DqRing(p)
  BY <1>7, <1>8, <1>10, <1>11 DEF DqRing
<1> QED
  BY <1>8, <1>9, <1>10, <1>12 DEF p, u, o

(* What the channel of d sees of d's ring.                                 *)
LEMMA DqBufSeen ==
  ASSUME NEW b, DqRing(b)
  PROVE  [i \in 1 .. Count(b) |-> b.item[(b.get + i - 1) % DqSize]] = DqBuf(b)
<1>1. DqSize \in Nat \ {0} /\ b.get \in Nat /\ Count(b) \in 0 .. DqSize
  <2>1. b.get \in 0 .. MaxPut /\ MaxPut \in 0 .. IndexMod - 1 /\ IndexMod \in Nat
    BY DataQueueAssumption DEF DqRing, Dq
  <2>2. b.get \in Nat
    BY <2>1
  <2> QED
    BY <2>2, DataQueueAssumption DEF DqRing
<1>2. ASSUME NEW i \in 1 .. Count(b)
      PROVE  (b.get + i - 1) % DqSize = Cell(DqSize, b.get % DqSize, i - 1)
  <2>1. i - 1 \in 0 .. DqSize /\ b.get + i - 1 = b.get + (i - 1)
    BY <1>1
  <2> QED
    BY <1>1, <2>1, CellFacts
<1> QED
  BY <1>2 DEF DqBuf, RingOf

LEMMA DqChannelStep ==
  ASSUME NEW d \in DataQueues, DqRing(dq[d]), DqRing(dq'[d]),
         BufferStep(DqBuf(dq[d]), DqBuf(dq'[d]), HandOf(d), HandOf(d)', DqSize)
  PROVE  UNCHANGED DqChannel(d)!vars \/ DqChannel(d)!Next
<1> DEFINE b == [i \in 1 .. Count(dq[d]) |-> dq[d].item[(dq[d].get + i - 1) % DqSize]]
           c == [i \in 1 .. Count(dq'[d]) |-> dq'[d].item[(dq'[d].get + i - 1) % DqSize]]
           g == [t \in Thread |-> IF arg[t] = d THEN hand[t] ELSE None]
           h == [t \in Thread |-> IF arg'[t] = d THEN hand'[t] ELSE None]
<1>1. b = DqBuf(dq[d]) /\ c = DqBuf(dq'[d])
  BY DqBufSeen
<1>2. g = HandOf(d) /\ h = HandOf(d)'
  BY DEF HandOf
<1>3. BufferStep(b, c, g, h, DqSize)
  BY <1>1, <1>2
<1>4. DqChannel(d)!vars = <<b, g>> /\ (DqChannel(d)!vars)' = <<c, h>>
  BY DEF DqChannel!vars
<1>5. ASSUME NEW t \in Thread, ByOne(t, b, c, g, h, DqSize)
      PROVE  DqChannel(d)!Next
  <2>1. \/ DqChannel(d)!Offer(t) \/ DqChannel(d)!Put(t)
        \/ DqChannel(d)!Take(t) \/ DqChannel(d)!Return(t)
    <3> HIDE DEF b, c, g, h
    <3>1. DqChannel(d)!Offer(t) <=> /\ g[t] = None /\ c = b
                                    /\ \E v \in Message : h = [g EXCEPT ![t] = v]
      BY DEF DqChannel!Offer, DqChannel!Hold, b, c, g, h
    <3>2. DqChannel(d)!Put(t) <=>
            g[t] # None /\ Entered(b, c, g[t], DqSize) /\ h = [g EXCEPT ![t] = None]
      BY DEF DqChannel!Put, DqChannel!Enter, DqChannel!Hold, Entered, b, c, g, h
    <3>3. DqChannel(d)!Take(t) <=>
            g[t] = None /\ b # << >> /\ h = [g EXCEPT ![t] = Head(b)] /\ c = Tail(b)
      BY DEF DqChannel!Take, DqChannel!Hold, b, c, g, h
    <3>4. DqChannel(d)!Return(t) <=> g[t] # None /\ h = [g EXCEPT ![t] = None] /\ c = b
      BY DEF DqChannel!Return, DqChannel!Hold, b, c, g, h
    <3> QED
      BY <1>5, <3>1, <3>2, <3>3, <3>4 DEF ByOne
  <2> QED
    BY <2>1 DEF DqChannel!Next
<1>6. CASE h = g /\ AtOnce(b, c, DqSize)
  <2> HIDE DEF b, c, g, h
  <2>1. DqChannel(d)!PutNow <=> h = g /\ \E v \in Message : Entered(b, c, v, DqSize)
    BY DEF DqChannel!PutNow, DqChannel!Enter, Entered, b, c, g, h
  <2>2. DqChannel(d)!TakeNow <=> b # << >> /\ c = Tail(b) /\ h = g
    BY DEF DqChannel!TakeNow, b, c, g, h
  <2>3. DqChannel(d)!Reset <=> c = << >> /\ h = g
    BY DEF DqChannel!Reset, b, c, g, h
  <2> QED
    BY <1>4, <1>6, <2>1, <2>2, <2>3 DEF AtOnce, DqChannel!Next
<1> HIDE DEF b, c, g, h
<1> QED
  BY <1>3, <1>5, <1>6 DEF BufferStep
DqInv == dq \in [DataQueues -> Dq] /\ \A d \in DataQueues : DqRing(dq[d])

(* What a call of t about d does.                                          *)
DqDoes(t, d) ==
  /\ Uses(t, d, DqBuf(dq[d]), DqBuf(dq'[d]), DqSize) /\ Sits(t)
  /\ blk' = blk /\ DqRing(dq'[d])
  /\ dq' = [dq EXCEPT ![d] = dq'[d]]

LEMMA DqPushDoes ==
  ASSUME ControlInv, DqInv, NEW t \in Thread, NEW d \in DataQueues, NEW v \in Message,
         NEW n, DqPushLoop(t, d, v, n), pc[t] \in {"user", "pushing"},
         dq[d].put < MaxPut,
         hand[t] \in {None, v}, arg[t] = d \/ hand[t] = None,
         arg' = [arg EXCEPT ![t] = d], blk' = blk
  PROVE  DqDoes(t, d)
<1>1. /\ ControlTypeOK /\ then[t] = "user" /\ blk[t] = Null /\ d \in Queue
      /\ dq \in [DataQueues -> Dq] /\ DqRing(dq[d]) /\ None \notin Message
      /\ Null \in 0 .. MaxMsgs
  BY SeatFacts, KindFacts, RetryAssumption, QueueAssumption DEF WithBlock, DqInv, Null
<1>2. blk' = [blk EXCEPT ![t] = Null]
  BY <1>1, Unset
<1> USE DEF Location, MailLocation, MqLocation, DqLocation, Hands, WithBlock
<1>3. CASE ~IsFull(dq[d]) /\ dq' = [dq EXCEPT ![d] = Pushed(@, v)]
           /\ ResumeFirst(t, d, "user") /\ Hold(t, None)
  <2>1. \E l \in {"user", "sched"} : Sets(t, l, "user", d, None, Null)
    <3>1. \/ pc' = [pc EXCEPT ![t] = "user"] /\ then' = [then EXCEPT ![t] = "user"]
          \/ pc' = [pc EXCEPT ![t] = "sched"] /\ then' = [then EXCEPT ![t] = "user"]
      BY <1>3, ResumeSets
    <3> QED
      BY <1>2, <1>3, <3>1 DEF Sets, Hold
  <2>2. PICK l \in {"user", "sched"} : Sets(t, l, "user", d, None, Null)
    BY <2>1
  <2>3. Seated(l, "user", d, None, Null)
    BY DEF Seated
  <2>4. OneMoves(t) /\ Sits(t) /\ hand'[t] = None /\ arg'[t] = d
    BY <1>1, <2>2, <2>3, SetsSits
  <2>5. dq'[d] = Pushed(dq[d], v)
    BY <1>1, <1>3
  <2>6. /\ DqRing(dq'[d]) /\ DqBuf(dq'[d]) = Append(DqBuf(dq[d]), v)
        /\ Len(DqBuf(dq[d])) < DqSize
    BY <1>1, <1>3, <2>5, PushedFacts
  <2>7. dq' = [dq EXCEPT ![d] = dq'[d]]
    BY <1>3, <2>5
  <2> QED
    BY <1>1, <2>4, <2>6, <2>7 DEF DqDoes, Uses
<1>4. CASE WaitFor(t, Private[d], n, "pushing") /\ Hold(t, v) /\ dq' = dq
  <2>1. Sets(t, "sched", "pushing", d, v, Null)
    BY <1>1, <1>2, <1>4 DEF WaitFor, WaitIn, Sets, Hold, Goto, Then
  <2>2. Seated("sched", "pushing", d, v, Null)
    BY DEF Seated
  <2>3. OneMoves(t) /\ Sits(t) /\ hand'[t] = v /\ arg'[t] = d
    BY <1>1, <2>1, <2>2, SetsSits
  <2>4. dq' = [dq EXCEPT ![d] = dq'[d]]
    BY <1>1, <1>4
  <2> QED
    BY <1>1, <1>4, <2>3, <2>4 DEF DqDoes, Uses
<1> QED
  BY <1>3, <1>4 DEF DqPushLoop

LEMMA DqPopDoes ==
  ASSUME ControlInv, DqInv, NEW t \in Thread, NEW d \in DataQueues,
         NEW n, DqPopLoop(t, d, n), pc[t] \in {"user", "popping"},
         arg' = [arg EXCEPT ![t] = d], blk' = blk
  PROVE  DqDoes(t, d)
<1>1. /\ ControlTypeOK /\ then[t] = "user" /\ blk[t] = Null /\ d \in Queue
      /\ hand[t] = None
      /\ dq \in [DataQueues -> Dq] /\ DqRing(dq[d]) /\ None \notin Message
      /\ Null \in 0 .. MaxMsgs
  BY SeatFacts, KindFacts, RetryAssumption, QueueAssumption
     DEF WithBlock, Hands, DqInv, Null
<1>2. blk' = [blk EXCEPT ![t] = Null]
  BY <1>1, Unset
<1> USE DEF Location, MailLocation, MqLocation, DqLocation, Hands, WithBlock
<1>3. CASE /\ dq[d].get # dq[d].put /\ dq' = [dq EXCEPT ![d] = Popped(@)]
           /\ \/ ResumeFirst(t, Private[d], "popped")
              \/ Goto(t, "popped") /\ UNCHANGED <<k, then, slice, isr>>
           /\ Hold(t, dq[d].item[dq[d].get % DqSize])
  <2> DEFINE v == dq[d].item[dq[d].get % DqSize]
  <2>1. dq'[d] = Popped(dq[d])
    BY <1>1, <1>3
  <2>2. /\ DqRing(dq'[d]) /\ DqBuf(dq[d]) # << >> /\ Head(DqBuf(dq[d])) = v
        /\ v \in Message /\ DqBuf(dq'[d]) = Tail(DqBuf(dq[d]))
    BY <1>1, <1>3, <2>1, PoppedFacts
  <2>3. dq' = [dq EXCEPT ![d] = dq'[d]]
    BY <1>3, <2>1
  <2>4. hand' = [hand EXCEPT ![t] = v]
    BY <1>3 DEF Hold
  <2> HIDE DEF v
  <2>5. \/ Sets(t, "popped", "user", d, v, Null)
        \/ Sets(t, "sched", "popped", d, v, Null)
    <3>1. \/ pc' = [pc EXCEPT ![t] = "popped"] /\ then' = [then EXCEPT ![t] = "user"]
          \/ pc' = [pc EXCEPT ![t] = "sched"] /\ then' = [then EXCEPT ![t] = "popped"]
      <4>1. CASE ResumeFirst(t, Private[d], "popped")
        BY <1>1, <4>1, ResumeSets
      <4>2. CASE Goto(t, "popped") /\ UNCHANGED <<k, then, slice, isr>>
        BY <1>1, <4>2, Unset DEF Goto
      <4> QED
        BY <1>3, <4>1, <4>2
    <3> QED
      BY <1>2, <2>4, <3>1 DEF Sets
  <2>6. Seated("popped", "user", d, v, Null) /\ Seated("sched", "popped", d, v, Null)
    BY <2>2 DEF Seated
  <2>7. OneMoves(t) /\ Sits(t) /\ hand'[t] = v /\ arg'[t] = d
    BY <1>1, <2>2, <2>5, <2>6, SetsSits
  <2> QED
    BY <1>1, <2>2, <2>3, <2>7 DEF DqDoes, Uses
<1>4. CASE WaitFor(t, d, n, "popping") /\ UNCHANGED <<dq, hand>>
  <2>1. Sets(t, "sched", "popping", d, None, Null)
    BY <1>1, <1>2, <1>4, Unset DEF WaitFor, WaitIn, Sets, Goto, Then
  <2>2. Seated("sched", "popping", d, None, Null)
    BY DEF Seated
  <2>3. OneMoves(t) /\ Sits(t) /\ hand'[t] = None /\ arg'[t] = d
    BY <1>1, <2>1, <2>2, SetsSits
  <2>4. dq' = [dq EXCEPT ![d] = dq'[d]]
    BY <1>1, <1>4
  <2> QED
    BY <1>1, <1>4, <2>3, <2>4 DEF DqDoes, Uses
<1> QED
  BY <1>3, <1>4 DEF DqPopLoop

(* A call of a thread that gives up, or returns with what it received.     *)
LEMMA DqLeaves ==
  ASSUME ControlInv, DqInv, NEW t \in Thread,
         pc[t] \in {"pushing", "popping", "popped"},
         hand' = [hand EXCEPT ![t] = None], pc' = [pc EXCEPT ![t] = "user"],
         UNCHANGED <<then, arg, blk, dq>>
  PROVE  DqDoes(t, arg[t])
<1>1. /\ ControlTypeOK /\ then[t] = "user" /\ blk[t] = Null /\ arg[t] \in DataQueues
      /\ arg[t] \in Queue /\ hand[t] \in Message \cup {None}
      /\ dq \in [DataQueues -> Dq] /\ DqRing(dq[arg[t]]) /\ Null \in 0 .. MaxMsgs
  BY SeatFacts, KindFacts, QueueAssumption DEF WithBlock, DqLocation, DqInv, Null, Hands
<1>2. Sets(t, "user", "user", arg[t], None, Null)
  BY <1>1, Unset DEF Sets
<1>3. Seated("user", "user", arg[t], None, Null)
  BY DEF Seated, Hands, WithBlock, MailLocation, MqLocation, DqLocation
<1>4. OneMoves(t) /\ Sits(t) /\ hand'[t] = None /\ arg'[t] = arg[t]
  <2>1. PICK l \in Location : l = "user"
    BY DEF Location
  <2>2. /\ Sets(t, l, l, arg[t], None, Null) /\ Seated(l, l, arg[t], None, Null)
        /\ ControlTypeOK /\ arg[t] \in Queue /\ None \in Message \cup {None}
        /\ Null \in 0 .. MaxMsgs
    BY <1>1, <1>2, <1>3, <2>1
  <2> QED
    BY <2>2, SetsSits
<1>5. dq' = [dq EXCEPT ![arg[t]] = dq'[arg[t]]]
  BY <1>1
<1> QED
  BY <1>1, <1>4, <1>5 DEF DqDoes, Uses

(* The calls of threads but the reset.                                     *)
DqCall(t) ==
  \/ \E d \in DataQueues : DqPush(t, d) \/ DqPop(t, d)
  \/ DqPushAgain(t) \/ DqPopAgain(t) \/ DqReturn(t)

LEMMA DqCallDoes ==
  ASSUME ControlInv, DqInv, NEW t \in Thread, blk' = blk, DqCall(t)
  PROVE  \E d \in DataQueues : DqDoes(t, d)
<1>1. ASSUME NEW d \in DataQueues, DqPush(t, d)
      PROVE  DqDoes(t, d)
  <2>1. PICK v \in Message : \E n \in Timeouts(Private[d]) : DqPushLoop(t, d, v, n)
    BY <1>1 DEF DqPush
  <2>2. PICK n \in Timeouts(Private[d]) : DqPushLoop(t, d, v, n)
    BY <2>1
  <2>3. pc[t] = "user" /\ arg' = [arg EXCEPT ![t] = d] /\ dq[d].put < MaxPut
    BY <1>1 DEF DqPush, Call, At, About
  <2>4. hand[t] = None
    BY <2>3, SeatFacts DEF Hands
  <2> QED
    BY <2>2, <2>3, <2>4, DqPushDoes
<1>2. ASSUME NEW d \in DataQueues, DqPop(t, d)
      PROVE  DqDoes(t, d)
  <2>1. PICK n \in Timeouts(d) : DqPopLoop(t, d, n)
    BY <1>2 DEF DqPop
  <2>2. pc[t] = "user" /\ arg' = [arg EXCEPT ![t] = d]
    BY <1>2 DEF DqPop, Call, At, About
  <2> QED
    BY <2>1, <2>2, DqPopDoes
<1>3. CASE DqPushAgain(t)
  <2>1. pc[t] = "pushing" /\ arg' = arg
    BY <1>3 DEF DqPushAgain, At, ipcVars
  <2>2. arg[t] \in DataQueues /\ hand[t] \in Message /\ arg' = [arg EXCEPT ![t] = arg[t]]
    BY <2>1, SeatFacts, Unset DEF DqLocation, Hands
  <2>3. CASE GiveUp(t) /\ UNCHANGED dq
    <3>1. hand' = [hand EXCEPT ![t] = None] /\ pc' = [pc EXCEPT ![t] = "user"] /\ then' = then
      BY <2>3 DEF GiveUp, Hold, Goto
    <3> QED
      BY <2>1, <2>2, <2>3, <3>1, DqLeaves
  <2>4. CASE dq[arg[t]].put < MaxPut /\ DqPushLoop(t, arg[t], hand[t], left[t])
    BY <2>1, <2>2, <2>4, DqPushDoes
  <2> QED
    BY <1>3, <2>3, <2>4 DEF DqPushAgain
<1>4. CASE DqPopAgain(t)
  <2>1. pc[t] = "popping" /\ arg' = arg
    BY <1>4 DEF DqPopAgain, At, ipcVars
  <2>2. arg[t] \in DataQueues /\ arg' = [arg EXCEPT ![t] = arg[t]]
    BY <2>1, SeatFacts, Unset DEF DqLocation
  <2>3. CASE GiveUp(t) /\ UNCHANGED dq
    <3>1. hand' = [hand EXCEPT ![t] = None] /\ pc' = [pc EXCEPT ![t] = "user"] /\ then' = then
      BY <2>3 DEF GiveUp, Hold, Goto
    <3> QED
      BY <2>1, <2>2, <2>3, <3>1, DqLeaves
  <2>4. CASE DqPopLoop(t, arg[t], left[t])
    BY <2>1, <2>2, <2>4, DqPopDoes
  <2> QED
    BY <1>4, <2>3, <2>4 DEF DqPopAgain
<1>5. CASE DqReturn(t)
  <2>1. pc[t] = "popped" /\ UNCHANGED <<then, arg, dq>>
        /\ hand' = [hand EXCEPT ![t] = None] /\ pc' = [pc EXCEPT ![t] = "user"]
    BY <1>5 DEF DqReturn, At, Hold, Goto, ipcVars
  <2>2. arg[t] \in DataQueues
    BY <2>1, SeatFacts DEF DqLocation
  <2> QED
    BY <2>1, <2>2, DqLeaves
<1> QED
  BY <1>1, <1>2, <1>3, <1>4, <1>5 DEF DqCall
-----------------------------------------------------------------------------
(* Chains: from the block b the pointers n lead through the blocks of s.   *)
Chained(n, b, s) ==
  /\ s \in Seq(Block) /\ IsInjective(s)
  /\ b = IF s = << >> THEN Null ELSE s[1]
  /\ \A i \in 1 .. Len(s) : n[s[i]] = IF i = Len(s) THEN Null ELSE s[i + 1]

(* No chain is longer than there are blocks.                               *)
LEMMA ShortChain ==
  ASSUME NEW s \in Seq(Block), IsInjective(s)
  PROVE  Len(s) \in Nat /\ Len(s) <= MaxMsgs
<1>1. Len(s) \in Nat /\ s \in [1 .. Len(s) -> Block] /\ DOMAIN s = 1 .. Len(s)
  BY LenProperties
<1>2. s \in Injection(1 .. Len(s), Block)
  BY <1>1 DEF Injection, IsInjective
<1>3. MaxMsgs \in Nat /\ MaxMsgs # 0 /\ Block = 1 .. MaxMsgs
  BY QueueAssumption DEF Block
<1>4. IsFiniteSet(Block) /\ Cardinality(Block) = MaxMsgs
  BY <1>3, FS_Interval
<1>5. Cardinality(1 .. Len(s)) <= MaxMsgs
  BY <1>2, <1>4, FS_Injection
<1>6. Cardinality(1 .. Len(s)) = Len(s)
  <2>1. PICK n \in Nat : n = Len(s)
    BY <1>1
  <2>2. 1 \in Int /\ n \in Int /\ (IF 1 > n THEN 0 ELSE n - 1 + 1) = n
    OBVIOUS
  <2>3. Cardinality(1 .. n) = n
    BY <2>2, FS_Interval
  <2> QED
    BY <2>1, <2>3
<1> QED
  BY <1>1, <1>5, <1>6

LEMMA ChainedSame ==
  ASSUME NEW n, NEW b, NEW s, Chained(n, b, s), NEW p, \A x \in ToSet(s) : p[x] = n[x]
  PROVE  Chained(p, b, s)
<1>1. DOMAIN s = 1 .. Len(s)
  BY LenProperties DEF Chained
<1>2. \A i \in 1 .. Len(s) : s[i] \in ToSet(s)
  BY <1>1 DEF ToSet
<1> QED
  BY <1>2 DEF Chained

(* The first block taken off.                                              *)
LEMMA ChainedRest ==
  ASSUME NEW n, NEW b, NEW s, Chained(n, b, s), b # Null
  PROVE  /\ s # << >> /\ b = Head(s) /\ b \in Block /\ b \in ToSet(s)
         /\ Chained(n, n[b], Tail(s))
         /\ ToSet(Tail(s)) = ToSet(s) \ {b} /\ Len(Tail(s)) = Len(s) - 1
         /\ Tail(s) # << >> => Tail(s)[Len(Tail(s))] = s[Len(s)]
         /\ Tail(s) = << >> <=> s[Len(s)] = b
<1> DEFINE u == Tail(s)
<1>1. s # << >> /\ s \in Seq(Block) /\ IsInjective(s) /\ b = s[1]
      /\ \A i \in 1 .. Len(s) : n[s[i]] = IF i = Len(s) THEN Null ELSE s[i + 1]
  BY DEF Chained
<1>2. /\ u \in Seq(Block) /\ Len(s) > 0 /\ Len(u) = Len(s) - 1
      /\ \A i \in 1 .. Len(s) - 1 : u[i] = s[i + 1]
      /\ Head(s) = s[1]
      /\ ToSet(s) = ToSet(u) \cup {Head(s)}
      /\ IsInjective(u) /\ Head(s) \notin ToSet(u)
  BY <1>1, ListTail
<1> HIDE DEF u
<1>3. Len(s) \in Nat /\ DOMAIN s = 1 .. Len(s) /\ 1 \in 1 .. Len(s) /\ s[1] \in Block
  BY <1>1, <1>2, LenProperties, ElementOfSeq
<1>4. u = << >> <=> Len(s) = 1
  BY <1>2, <1>3, EmptySeq
<1>5. n[b] = IF u = << >> THEN Null ELSE u[1]
  <2>1. n[b] = IF Len(s) = 1 THEN Null ELSE s[2]
    <3>1. n[s[1]] = IF 1 = Len(s) THEN Null ELSE s[1 + 1]
      BY <1>1, <1>3
    <3> QED
      BY <1>1, <3>1
  <2>2. Len(s) # 1 => 1 \in 1 .. Len(s) - 1
    BY <1>2, <1>3
  <2>3. Len(s) # 1 => u[1] = s[1 + 1]
    BY <1>2, <2>2
  <2> QED
    BY <1>4, <2>1, <2>3
<1>6. ASSUME NEW i \in 1 .. Len(u)
      PROVE  n[u[i]] = IF i = Len(u) THEN Null ELSE u[i + 1]
  <2>1. i \in 1 .. Len(s) - 1 /\ i + 1 \in 1 .. Len(s)
    BY <1>2, <1>3
  <2>2. n[s[i + 1]] = IF i + 1 = Len(s) THEN Null ELSE s[(i + 1) + 1]
    BY <1>1, <2>1
  <2>3. i + 1 = Len(s) <=> i = Len(u)
    BY <1>2, <1>3, <2>1
  <2>4. i # Len(u) => i + 1 \in 1 .. Len(s) - 1
    BY <1>2, <1>3, <2>1
  <2>5. i # Len(u) => u[i + 1] = s[(i + 1) + 1]
    BY <1>2, <2>4
  <2>6. u[i] = s[i + 1]
    BY <1>2, <2>1
  <2> QED
    BY <2>2, <2>3, <2>5, <2>6
<1>7. Chained(n, n[b], u)
  BY <1>2, <1>5, <1>6 DEF Chained
<1>8. u # << >> => u[Len(u)] = s[Len(s)]
  <2> SUFFICES ASSUME u # << >>
               PROVE  u[Len(u)] = s[Len(s)]
    OBVIOUS
  <2>1. Len(u) \in 1 .. Len(s) - 1 /\ Len(u) + 1 = Len(s)
    BY <1>2, <1>3, <1>4
  <2>2. u[Len(u)] = s[Len(u) + 1]
    BY <1>2, <2>1
  <2> QED
    BY <2>1, <2>2
<1>9. u = << >> <=> s[Len(s)] = b
  <2>1. Len(s) \in 1 .. Len(s)
    BY <1>2, <1>3
  <2>2. s[Len(s)] = s[1] => Len(s) = 1
    BY <1>1, <1>3, <2>1 DEF IsInjective
  <2> QED
    BY <1>1, <1>4, <2>2
<1>10. b \in ToSet(s) /\ ToSet(u) = ToSet(s) \ {b}
  BY <1>1, <1>2
<1> QED
  BY <1>1, <1>2, <1>3, <1>7, <1>8, <1>9, <1>10 DEF u

(* A block put in front.                                                   *)
LEMMA ChainedFront ==
  ASSUME NEW n, NEW b, NEW s, Chained(n, b, s), NEW a \in Block, a \notin ToSet(s),
         NEW p, p[a] = b, \A x \in ToSet(s) : p[x] = n[x]
  PROVE  /\ Chained(p, a, <<a>> \o s)
         /\ ToSet(<<a>> \o s) = ToSet(s) \cup {a}
         /\ Len(<<a>> \o s) = Len(s) + 1 /\ <<a>> \o s # << >>
         /\ (<<a>> \o s)[Len(s) + 1] = IF s = << >> THEN a ELSE s[Len(s)]
<1> DEFINE e == <<a>>
           w == e \o s
<1>1. s \in Seq(Block) /\ IsInjective(s) /\ b = (IF s = << >> THEN Null ELSE s[1])
      /\ \A i \in 1 .. Len(s) : p[s[i]] = IF i = Len(s) THEN Null ELSE s[i + 1]
  <2>1. Chained(p, b, s)
    BY ChainedSame
  <2> QED
    BY <2>1 DEF Chained
<1>2. w \in Seq(Block) /\ ToSet(w) = ToSet(s) \cup {a} /\ IsInjective(w)
  BY <1>1, ListPrepend
<1>3. e \in Seq(Block) /\ Len(e) = 1 /\ e[1] = a
  OBVIOUS
<1> HIDE DEF e
<1>4. /\ Len(w) = 1 + Len(s) /\ Len(s) \in Nat
      /\ \A i \in 1 .. 1 + Len(s) : w[i] = IF i <= 1 THEN e[i] ELSE s[i - 1]
  <2>1. Len(s) \in Nat
    BY <1>1, LenProperties
  <2>2. e \in Seq(Block) /\ s \in Seq(Block)
    BY <1>1, <1>3
  <2>3. /\ Len(e \o s) = Len(e) + Len(s)
        /\ \A i \in 1 .. Len(e) + Len(s) :
             (e \o s)[i] = IF i <= Len(e) THEN e[i] ELSE s[i - Len(e)]
    BY <2>2, ConcatProperties
  <2> QED
    BY <1>3, <2>1, <2>3
<1> HIDE DEF w
<1>5. w[1] = a /\ \A i \in 2 .. Len(s) + 1 : w[i] = s[i - 1]
  BY <1>3, <1>4
<1>6. w # << >> /\ (s = << >> <=> Len(s) = 0)
  BY <1>1, <1>4, EmptySeq
<1>7. ASSUME NEW i \in 1 .. Len(w)
      PROVE  p[w[i]] = IF i = Len(w) THEN Null ELSE w[i + 1]
  <2>1. CASE i = 1
    <3>1. i = Len(w) <=> s = << >>
      BY <1>4, <1>6, <2>1
    <3>2. s # << >> => 2 \in 2 .. Len(s) + 1
      BY <1>4, <1>6
    <3>3. s # << >> => w[2] = s[1]
      BY <1>5, <3>2
    <3> QED
      BY <1>1, <1>5, <2>1, <3>1, <3>3
  <2>2. CASE i # 1
    <3>1. i - 1 \in 1 .. Len(s) /\ i \in 2 .. Len(s) + 1 /\ (i - 1) + 1 = i
          /\ (i - 1 = Len(s) <=> i = Len(w))
      BY <1>4, <2>2
    <3>2. w[i] = s[i - 1] /\ p[s[i - 1]] = IF i - 1 = Len(s) THEN Null ELSE s[(i - 1) + 1]
      BY <1>1, <1>5, <3>1
    <3>3. i # Len(w) => i + 1 \in 2 .. Len(s) + 1 /\ (i + 1) - 1 = i
      BY <1>4, <3>1
    <3>4. i # Len(w) => w[i + 1] = s[i]
      BY <1>5, <3>3
    <3> QED
      BY <3>1, <3>2, <3>4
  <2> QED
    BY <2>1, <2>2
<1>8. Chained(p, a, w)
  BY <1>2, <1>5, <1>6, <1>7 DEF Chained
<1>9. w[Len(s) + 1] = IF s = << >> THEN a ELSE s[Len(s)]
  <2>1. s # << >> => Len(s) + 1 \in 2 .. Len(s) + 1 /\ (Len(s) + 1) - 1 = Len(s)
    BY <1>4, <1>6
  <2>2. s # << >> => w[Len(s) + 1] = s[Len(s)]
    BY <1>5, <2>1
  <2> QED
    BY <1>5, <1>6, <2>2
<1> QED
  BY <1>2, <1>4, <1>6, <1>8, <1>9 DEF w, e

(* A block put behind the last.                                            *)
LEMMA ChainedBack ==
  ASSUME NEW n, NEW b, NEW s, Chained(n, b, s), NEW a \in Block, a \notin ToSet(s),
         NEW p, p[a] = Null, s # << >> => p[s[Len(s)]] = a,
         \A x \in ToSet(s) : x # s[Len(s)] => p[x] = n[x]
  PROVE  /\ Chained(p, IF b = Null THEN a ELSE b, Append(s, a))
         /\ ToSet(Append(s, a)) = ToSet(s) \cup {a}
         /\ Len(Append(s, a)) = Len(s) + 1 /\ Append(s, a) # << >>
         /\ Append(s, a)[Len(s) + 1] = a
<1> DEFINE w == Append(s, a)
<1>1. s \in Seq(Block) /\ IsInjective(s) /\ b = (IF s = << >> THEN Null ELSE s[1])
      /\ \A i \in 1 .. Len(s) : n[s[i]] = IF i = Len(s) THEN Null ELSE s[i + 1]
  BY DEF Chained
<1>2. /\ w \in Seq(Block) /\ w # << >> /\ ToSet(w) = ToSet(s) \cup {a} /\ IsInjective(w)
  BY <1>1, ListAppend
<1>3. /\ Len(w) = Len(s) + 1 /\ Len(s) \in Nat /\ DOMAIN s = 1 .. Len(s)
      /\ \A i \in 1 .. Len(s) : w[i] = s[i]
      /\ w[Len(s) + 1] = a
  BY <1>1, AppendProperties, LenProperties
<1> HIDE DEF w
<1>4. s = << >> <=> Len(s) = 0
  BY <1>1, <1>3, EmptySeq
<1>5. w[1] = IF b = Null THEN a ELSE b
  <2>1. s = << >> => w[1] = a
    BY <1>3, <1>4
  <2>2. s # << >> => 1 \in 1 .. Len(s)
    BY <1>3, <1>4
  <2>3. s # << >> => w[1] = s[1] /\ s[1] \in Block
    BY <1>1, <1>3, <2>2, ElementOfSeq
  <2>4. Null \notin Block
    BY DEF Null, Block
  <2> QED
    BY <1>1, <2>1, <2>3, <2>4
<1>6. ASSUME NEW i \in 1 .. Len(w)
      PROVE  p[w[i]] = IF i = Len(w) THEN Null ELSE w[i + 1]
  <2>1. CASE i = Len(w)
    BY <1>3, <2>1
  <2>2. CASE i # Len(w)
    <3>1. i \in 1 .. Len(s) /\ w[i] = s[i]
      BY <1>3, <2>2
    <3>2. CASE i = Len(s)
      <4>1. w[i + 1] = a /\ s # << >>
        BY <1>3, <1>4, <3>1, <3>2
      <4> QED
        BY <2>2, <3>1, <3>2, <4>1
    <3>3. CASE i # Len(s)
      <4>1. Len(s) \in 1 .. Len(s) /\ i + 1 \in 1 .. Len(s)
        <5>1. Len(s) \in Nat
          BY <1>3
        <5> QED
          BY <5>1, <3>1, <3>3
      <4>2. s # << >>
        BY <1>3, <1>4, <3>1
      <4>3. s[i] # s[Len(s)]
        <5>1. i \in DOMAIN s /\ Len(s) \in DOMAIN s
          BY <1>3, <3>1, <4>1
        <5> QED
          BY <1>1, <3>3, <5>1 DEF IsInjective
      <4>4. s[i] \in ToSet(s)
        BY <1>3, <3>1 DEF ToSet
      <4>5. p[s[i]] = n[s[i]]
        BY <4>3, <4>4
      <4>6. w[i + 1] = s[i + 1]
        BY <1>3, <4>1
      <4>7. n[s[i]] = s[i + 1]
        BY <1>1, <3>1, <3>3
      <4> QED
        BY <2>2, <3>1, <4>5, <4>6, <4>7
    <3> QED
      BY <3>2, <3>3
  <2> QED
    BY <2>1, <2>2
<1>7. Chained(p, IF b = Null THEN a ELSE b, w)
  BY <1>2, <1>5, <1>6 DEF Chained
<1> QED
  BY <1>2, <1>3, <1>7 DEF w
(* What the model's Chain goes through.                                    *)
Step(n) == [x \in 0 .. MaxMsgs |-> IF x = Null THEN Null ELSE n[x]]

LEMMA ChainIs ==
  ASSUME NEW m, NEW b, NEW s, m.next \in [Block -> 0 .. MaxMsgs], Chained(m.next, b, s)
  PROVE  Chain(m, b) = s
<1> DEFINE n == m.next
           M == MaxMsgs
           Is(f) == f = [i \in 0 .. M |-> IF i = 0 THEN b
                                          ELSE IF f[i-1] = Null THEN Null ELSE n[f[i-1]]]
           at == CHOOSE f : Is(f)
<1>1. /\ s \in Seq(Block) /\ IsInjective(s) /\ b = (IF s = << >> THEN Null ELSE s[1])
      /\ \A i \in 1 .. Len(s) : n[s[i]] = IF i = Len(s) THEN Null ELSE s[i + 1]
      /\ n \in [Block -> 0 .. M]
  BY DEF Chained
<1>2. Len(s) \in Nat /\ Len(s) <= M /\ M \in Nat /\ M > 0
  BY <1>1, ShortChain, QueueAssumption
<1>2a. \A i \in 1 .. Len(s) : s[i] \in 1 .. M /\ s[i] # Null
  <2>1. \A i \in 1 .. Len(s) : s[i] \in Block
    BY <1>1, ElementOfSeq
  <2> QED
    BY <1>2, <2>1 DEF Block, Null
<1>2b. (s = << >> <=> Len(s) = 0) /\ DOMAIN s = 1 .. Len(s)
  BY <1>1, EmptySeq, LenProperties
<1>3. b \in 0 .. M
  <2>1. s # << >> => 1 \in 1 .. Len(s)
    BY <1>2, <1>2b
  <2>2. s # << >> => s[1] \in 1 .. M
    BY <1>2a, <2>1
  <2>3. s = << >> => b = 0
    BY <1>1 DEF Null
  <2> QED
    BY <1>1, <1>2, <2>2, <2>3
<1>4. Step(n) \in [0 .. M -> 0 .. M]
  <2>1. \A x \in 0 .. M : (IF x = Null THEN Null ELSE n[x]) \in 0 .. M
    <3>1. \A x \in 0 .. M : x = Null \/ x \in Block
      BY <1>2 DEF Null, Block
    <3>2. \A x \in Block : n[x] \in 0 .. M
      BY <1>1
    <3>3. Null \in 0 .. M
      BY <1>2 DEF Null
    <3> QED
      BY <3>1, <3>2, <3>3
  <2> QED
    BY <2>1 DEF Step
<1>7. Is(at)
  <2>1. PICK g \in [0 .. M -> 0 .. M] :
          g[0] = b /\ \A i \in 1 .. M : g[i] = Step(n)[g[i-1]]
    <3> DEFINE V == 0 .. M
               G == Step(n)
    <3>1. V # {} /\ G \in [V -> V] /\ b \in V /\ M \in Nat
      BY <1>2, <1>3, <1>4
    <3> HIDE DEF V, G, n, M, Is, at
    <3>2. \E f : Iterates(f, V, G, b, M)
      BY <3>1, IterationDefined
    <3>3. PICK f : Iterates(f, V, G, b, M)
      BY <3>2
    <3> QED
      BY <3>3 DEF V, G, Iterates
  <2>2. \A i \in 0 .. M : g[i] = IF i = 0 THEN b
                                 ELSE IF g[i-1] = Null THEN Null ELSE n[g[i-1]]
    <3> SUFFICES ASSUME NEW i \in 0 .. M, i # 0
                 PROVE  g[i] = IF g[i-1] = Null THEN Null ELSE n[g[i-1]]
      BY <2>1
    <3>1. i \in 1 .. M /\ i - 1 \in 0 .. M
      BY <1>2
    <3>2. g[i-1] \in 0 .. M
      BY <2>1, <3>1
    <3> HIDE DEF n, M
    <3>3. g[i] = Step(n)[g[i-1]]
      BY <2>1, <3>1
    <3> QED
      BY <3>2, <3>3 DEF Step, M
  <2>3. g = [i \in 0 .. M |-> g[i]]
    BY <2>1
  <2> HIDE DEF n, M
  <2>4. Is(g)
    BY <2>2, <2>3
  <2> HIDE DEF Is
  <2> QED
    BY <2>4
<1>8. Chain(m, b) = [i \in {j \in 1 .. M + 1 : at[j-1] # Null} |-> at[i-1]]
  BY DEF Chain
<1> HIDE DEF n, M, at
<1>9. \A i \in 0 .. M : at[i] = IF i = 0 THEN b
                                ELSE IF at[i-1] = Null THEN Null ELSE n[at[i-1]]
  BY <1>7
<1> DEFINE Good == {i \in 0 .. M : at[i] = IF i < Len(s) THEN s[i + 1] ELSE Null}
<1>10. 0 \in Good
  <2>1. at[0] = b /\ 0 \in 0 .. M
    BY <1>2, <1>9
  <2>2. 0 < Len(s) <=> s # << >>
    BY <1>2, <1>2b
  <2> QED
    BY <1>1, <2>1, <2>2
<1>11. ASSUME NEW i \in 1 .. M, i - 1 \in Good
       PROVE  i \in Good
  <2>1. i \in 0 .. M /\ i # 0 /\ i - 1 \in 0 .. M /\ (i - 1) + 1 = i
    BY <1>2
  <2>2. at[i - 1] = IF i - 1 < Len(s) THEN s[(i - 1) + 1] ELSE Null
    BY <1>11
  <2>3. at[i] = IF at[i-1] = Null THEN Null ELSE n[at[i-1]]
    BY <1>9, <2>1
  <2>4. CASE i - 1 < Len(s)
    <3>1. i \in 1 .. Len(s) /\ at[i - 1] = s[i]
      BY <1>2, <2>1, <2>2, <2>4
    <3>2. s[i] # Null
      BY <1>2a, <3>1
    <3>3. at[i] = IF i = Len(s) THEN Null ELSE s[i + 1]
      BY <1>1, <2>3, <3>1, <3>2
    <3>4. i < Len(s) <=> i # Len(s)
      BY <1>2, <3>1
    <3> QED
      BY <2>1, <3>3, <3>4
  <2>5. CASE ~(i - 1 < Len(s))
    <3>1. ~(i < Len(s))
      BY <1>2, <2>5
    <3> QED
      BY <2>1, <2>2, <2>3, <2>5, <3>1
  <2> QED
    BY <2>4, <2>5
<1>12. \A i \in 0 .. M : at[i] = IF i < Len(s) THEN s[i + 1] ELSE Null
  <2> SUFFICES ASSUME NEW i \in 0 .. M
               PROVE  i \in Good
    OBVIOUS
  <2>1. i \in Nat /\ \A j \in 1 .. i : j \in 1 .. M
    BY <1>2
  <2> HIDE DEF Good
  <2>2. \A j \in 1 .. i : j - 1 \in Good => j \in Good
    BY <1>11, <2>1
  <2> QED
    BY <1>10, <2>1, <2>2, UpTo
<1>13. \A i \in 1 .. M + 1 : i - 1 \in 0 .. M /\ (i - 1) + 1 = i
                            /\ (i - 1 < Len(s) <=> i \in 1 .. Len(s))
  BY <1>2
<1>14. \A i \in 1 .. M + 1 : at[i - 1] = IF i \in 1 .. Len(s) THEN s[i] ELSE Null
  BY <1>12, <1>13
<1>15. {j \in 1 .. M + 1 : at[j-1] # Null} = 1 .. Len(s)
  <2>1. \A i \in 1 .. Len(s) : i \in 1 .. M + 1 /\ s[i] # Null
    BY <1>2, <1>2a
  <2> QED
    BY <1>14, <2>1
<1>16. \A i \in 1 .. Len(s) : at[i - 1] = s[i]
  <2>1. \A i \in 1 .. Len(s) : i \in 1 .. M + 1
    BY <1>2
  <2> QED
    BY <1>14, <2>1
<1>17. s = [i \in 1 .. Len(s) |-> s[i]]
  BY <1>1, LenProperties
<1> QED
  BY <1>8, <1>15, <1>16, <1>17

(* The messages in the blocks of a chain.                                  *)
View(d, s) == [i \in DOMAIN s |-> d[s[i]]]

LEMMA ViewSame ==
  ASSUME NEW d, NEW e, NEW s, \A x \in ToSet(s) : e[x] = d[x]
  PROVE  View(e, s) = View(d, s)
<1>1. \A i \in DOMAIN s : s[i] \in ToSet(s)
  BY DEF ToSet
<1> QED
  BY <1>1 DEF View

LEMMA ViewFacts ==
  ASSUME NEW d, NEW s \in Seq(Block), \A x \in ToSet(s) : d[x] \in Message
  PROVE  View(d, s) \in Seq(Message) /\ Len(View(d, s)) = Len(s)
         /\ (View(d, s) = << >> <=> s = << >>)
<1> DEFINE v == View(d, s)
<1>1. Len(s) \in Nat /\ DOMAIN s = 1 .. Len(s) /\ (s = << >> <=> Len(s) = 0)
  BY LenProperties, EmptySeq
<1>2. \A i \in 1 .. Len(s) : d[s[i]] \in Message
  BY <1>1 DEF ToSet
<1>3. v = [i \in 1 .. Len(s) |-> d[s[i]]]
  BY <1>1 DEF View
<1>4. v \in [1 .. Len(s) -> Message]
  BY <1>2, <1>3
<1> HIDE DEF v
<1>5. v \in Seq(Message)
  BY <1>1, <1>4
<1>6. Len(v) = Len(s)
  BY <1>1, <1>4, <1>5, LenProperties
<1>7. v = << >> <=> Len(v) = 0
  BY <1>5, EmptySeq
<1> QED
  BY <1>1, <1>5, <1>6, <1>7 DEF v

LEMMA ViewAppend ==
  ASSUME NEW d, NEW s \in Seq(Block), NEW a \in Block,
         \A x \in ToSet(s) : d[x] \in Message, d[a] \in Message
  PROVE  View(d, Append(s, a)) = Append(View(d, s), d[a])
<1>1. Append(s, a) \in Seq(Block) /\ ToSet(Append(s, a)) = ToSet(s) \cup {a}
  BY ListAppend
<1>2. /\ View(d, s) \in Seq(Message) /\ Len(View(d, s)) = Len(s)
      /\ View(d, Append(s, a)) \in Seq(Message)
      /\ Len(View(d, Append(s, a))) = Len(Append(s, a))
  <2>1. View(d, s) \in Seq(Message) /\ Len(View(d, s)) = Len(s)
    BY ViewFacts
  <2> DEFINE w == Append(s, a)
  <2>2. \A x \in ToSet(w) : d[x] \in Message
    BY <1>1
  <2> HIDE DEF w
  <2>3. View(d, w) \in Seq(Message) /\ Len(View(d, w)) = Len(w)
    BY <1>1, <2>2, ViewFacts DEF w
  <2> QED
    BY <2>1, <2>3 DEF w
<1>3. /\ Len(Append(s, a)) = Len(s) + 1 /\ Append(s, a)[Len(s) + 1] = a
      /\ \A i \in 1 .. Len(s) : Append(s, a)[i] = s[i]
      /\ Len(s) \in Nat /\ DOMAIN s = 1 .. Len(s)
      /\ DOMAIN Append(s, a) = 1 .. Len(s) + 1
  BY <1>1, AppendProperties, LenProperties
<1> DEFINE v == View(d, s)
           w == View(d, Append(s, a))
           x == Append(v, d[a])
<1>4. /\ \A i \in 1 .. Len(s) : w[i] = d[s[i]] /\ v[i] = d[s[i]]
      /\ w[Len(s) + 1] = d[a]
  BY <1>3 DEF View
<1>5. /\ x \in Seq(Message) /\ Len(x) = Len(s) + 1
      /\ \A i \in 1 .. Len(s) : x[i] = v[i]
      /\ x[Len(s) + 1] = d[a]
  <2>1. v \in Seq(Message) /\ d[a] \in Message /\ Len(v) = Len(s)
    BY <1>2
  <2> HIDE DEF v
  <2>2. /\ Append(v, d[a]) \in Seq(Message) /\ Len(Append(v, d[a])) = Len(v) + 1
        /\ \A i \in 1 .. Len(v) : Append(v, d[a])[i] = v[i]
        /\ Append(v, d[a])[Len(v) + 1] = d[a]
    BY <2>1, AppendProperties
  <2> QED
    BY <2>1, <2>2
<1>6. w \in Seq(Message) /\ Len(w) = Len(s) + 1
  BY <1>2, <1>3
<1> HIDE DEF v, w, x
<1>7. \A i \in 1 .. Len(s) + 1 : w[i] = x[i]
  <2>1. \A i \in 1 .. Len(s) + 1 : i \in 1 .. Len(s) \/ i = Len(s) + 1
    BY <1>3
  <2> QED
    BY <1>4, <1>5, <2>1
<1>8. w = x
  BY <1>5, <1>6, <1>7, SeqEqual
<1> QED
  BY <1>8 DEF w, x, v
LEMMA ViewFront ==
  ASSUME NEW d, NEW s \in Seq(Block), NEW a \in Block,
         \A x \in ToSet(s) : d[x] \in Message, d[a] \in Message
  PROVE  View(d, <<a>> \o s) = <<d[a]>> \o View(d, s)
<1> DEFINE e == <<a>>
           g == <<d[a]>>
           u == e \o s
           v == View(d, s)
           w == View(d, u)
           x == g \o v
<1>1. e \in Seq(Block) /\ Len(e) = 1 /\ e[1] = a
      /\ g \in Seq(Message) /\ Len(g) = 1 /\ g[1] = d[a]
  OBVIOUS
<1>2. u \in Seq(Block) /\ ToSet(u) = ToSet(s) \cup {a}
  BY ListPrepend
<1> HIDE DEF e, g
<1>3. /\ Len(u) = 1 + Len(s) /\ Len(s) \in Nat
      /\ \A i \in 1 .. 1 + Len(s) : u[i] = IF i <= 1 THEN e[i] ELSE s[i - 1]
  <2>1. Len(s) \in Nat
    BY LenProperties
  <2>2. /\ Len(e \o s) = Len(e) + Len(s)
        /\ \A i \in 1 .. Len(e) + Len(s) :
             (e \o s)[i] = IF i <= Len(e) THEN e[i] ELSE s[i - Len(e)]
    BY <1>1, ConcatProperties
  <2> QED
    BY <1>1, <2>1, <2>2
<1>4. v \in Seq(Message) /\ Len(v) = Len(s)
  BY ViewFacts
<1> HIDE DEF u
<1>5. w \in Seq(Message) /\ Len(w) = 1 + Len(s)
  <2>1. \A y \in ToSet(u) : d[y] \in Message
    BY <1>2
  <2> QED
    BY <1>2, <1>3, <2>1, ViewFacts
<1>6. DOMAIN s = 1 .. Len(s) /\ DOMAIN u = 1 .. 1 + Len(s)
  BY <1>2, <1>3, LenProperties
<1>7. /\ \A i \in 1 .. 1 + Len(s) : w[i] = d[u[i]]
      /\ \A i \in 1 .. Len(s) : v[i] = d[s[i]]
  BY <1>6 DEF View
<1> HIDE DEF v, w
<1>8. /\ x \in Seq(Message) /\ Len(x) = 1 + Len(s)
      /\ \A i \in 1 .. 1 + Len(s) : x[i] = IF i <= 1 THEN g[i] ELSE v[i - 1]
  <2>1. /\ g \o v \in Seq(Message) /\ Len(g \o v) = Len(g) + Len(v)
        /\ \A i \in 1 .. Len(g) + Len(v) :
             (g \o v)[i] = IF i <= Len(g) THEN g[i] ELSE v[i - Len(g)]
    <3>1. g \in Seq(Message) /\ v \in Seq(Message)
      BY <1>1, <1>4
    <3> QED
      BY <3>1, ConcatProperties
  <2> QED
    BY <1>1, <1>4, <2>1
<1> HIDE DEF x
<1>9. ASSUME NEW i \in 1 .. 1 + Len(s)
      PROVE  w[i] = x[i]
  <2>1. CASE i = 1
    BY <1>1, <1>3, <1>7, <1>8, <2>1
  <2>2. CASE i # 1
    <3>1. i - 1 \in 1 .. Len(s) /\ ~(i <= 1)
      BY <1>3, <2>2
    <3>2. u[i] = s[i - 1] /\ x[i] = v[i - 1]
      BY <1>3, <1>8, <3>1
    <3> QED
      BY <1>7, <3>1, <3>2
  <2> QED
    BY <2>1, <2>2
<1>10. w = x
  BY <1>5, <1>8, <1>9, SeqEqual
<1> QED
  BY <1>10 DEF w, u, e, x, g, v

LEMMA ViewRest ==
  ASSUME NEW d, NEW s \in Seq(Block), s # << >>, \A x \in ToSet(s) : d[x] \in Message
  PROVE  /\ View(d, s) # << >> /\ Head(View(d, s)) = d[Head(s)]
         /\ View(d, Tail(s)) = Tail(View(d, s))
<1> DEFINE u == Tail(s)
           v == View(d, s)
           w == View(d, u)
<1>1. /\ u \in Seq(Block) /\ Len(s) > 0 /\ Len(u) = Len(s) - 1
      /\ \A i \in 1 .. Len(s) - 1 : u[i] = s[i + 1]
      /\ Head(s) = s[1] /\ ToSet(s) = ToSet(u) \cup {Head(s)}
  BY ListTail
<1>2. v \in Seq(Message) /\ Len(v) = Len(s) /\ v # << >>
  BY ViewFacts
<1> HIDE DEF u
<1>3. w \in Seq(Message) /\ Len(w) = Len(u)
  <2>1. \A x \in ToSet(u) : d[x] \in Message
    BY <1>1
  <2> QED
    BY <1>1, <2>1, ViewFacts
<1>4. Len(s) \in Nat /\ DOMAIN s = 1 .. Len(s) /\ DOMAIN u = 1 .. Len(s) - 1
  BY <1>1, LenProperties
<1>5. /\ \A i \in 1 .. Len(s) : v[i] = d[s[i]]
      /\ \A i \in 1 .. Len(s) - 1 : w[i] = d[u[i]]
  BY <1>4 DEF View
<1> HIDE DEF v, w
<1>6. /\ Tail(v) \in Seq(Message) /\ Len(Tail(v)) = Len(s) - 1 /\ Head(v) = v[1]
      /\ \A i \in 1 .. Len(s) - 1 : Tail(v)[i] = v[i + 1]
  BY <1>2, ListTail
<1>7. \A i \in 1 .. Len(s) - 1 : w[i] = Tail(v)[i]
  <2>1. \A i \in 1 .. Len(s) - 1 : i + 1 \in 1 .. Len(s)
    BY <1>4
  <2> QED
    BY <1>1, <1>5, <1>6, <2>1
<1>8. w = Tail(v)
  BY <1>1, <1>3, <1>6, <1>7, SeqEqual
<1>9. Head(v) = d[Head(s)]
  <2>1. 1 \in 1 .. Len(s)
    BY <1>1, <1>4
  <2> QED
    BY <1>1, <1>5, <1>6, <2>1
<1> QED
  BY <1>2, <1>8, <1>9 DEF v, w, u
-----------------------------------------------------------------------------
(* A message queue whose blocks are linked in s, the messages, and in f,   *)
(* the free ones.                                                          *)
Mq == [next : [Block -> 0 .. MaxMsgs], data : [Block -> Message \cup {None}],
       head : 0 .. MaxMsgs, tail : 0 .. MaxMsgs, free : 0 .. MaxMsgs,
       entry : 0 .. MaxMsgs]

Shape(m, s, f) ==
  /\ m \in Mq
  /\ Chained(m.next, m.head, s) /\ Chained(m.next, m.free, f)
  /\ ToSet(s) \cap ToSet(f) = {}
  /\ m.entry = Len(s)
  /\ m.tail = IF s = << >> THEN Null ELSE s[Len(s)]
  /\ \A x \in ToSet(s) : m.data[x] \in Message

Out(s, f) == Block \ (ToSet(s) \cup ToSet(f))

LEMMA MqFacts ==
  ASSUME NEW m \in Mq
  PROVE  /\ m.next \in [Block -> 0 .. MaxMsgs] /\ m.data \in [Block -> Message \cup {None}]
         /\ m.head \in 0 .. MaxMsgs /\ m.tail \in 0 .. MaxMsgs /\ m.free \in 0 .. MaxMsgs
         /\ m.entry \in 0 .. MaxMsgs
         /\ Null \in 0 .. MaxMsgs /\ Block \subseteq 0 .. MaxMsgs
         /\ MaxMsgs \in Nat /\ Null \notin Block
         /\ \A x \in 0 .. MaxMsgs : x # Null => x \in Block
BY QueueAssumption DEF Mq, Null, Block

LEMMA ShapeTake ==
  ASSUME NEW m, NEW s, NEW f, Shape(m, s, f), m.free # Null
  PROVE  /\ Shape(TakeFree(m), s, Tail(f))
         /\ m.free \in Block /\ m.free \in ToSet(f) /\ m.free \notin ToSet(s)
         /\ Tail(f) \in Seq(Block) /\ ToSet(Tail(f)) = ToSet(f) \ {m.free}
         /\ TakeFree(m).data = m.data /\ TakeFree(m).next = m.next
<1>1. /\ m \in Mq /\ Chained(m.next, m.head, s) /\ Chained(m.next, m.free, f)
      /\ ToSet(s) \cap ToSet(f) = {}
  BY DEF Shape
<1>2. /\ m.free \in Block /\ m.free \in ToSet(f)
      /\ Chained(m.next, m.next[m.free], Tail(f))
      /\ ToSet(Tail(f)) = ToSet(f) \ {m.free}
  BY <1>1, ChainedRest
<1>3. m.next[m.free] \in 0 .. MaxMsgs
  BY <1>1, <1>2, MqFacts
<1>4. /\ TakeFree(m) \in Mq
      /\ TakeFree(m).next = m.next /\ TakeFree(m).data = m.data
      /\ TakeFree(m).head = m.head /\ TakeFree(m).tail = m.tail
      /\ TakeFree(m).entry = m.entry /\ TakeFree(m).free = m.next[m.free]
  BY <1>1, <1>3 DEF TakeFree, Mq
<1>5. Tail(f) \in Seq(Block)
  BY <1>2 DEF Chained
<1>6. Shape(TakeFree(m), s, Tail(f))
  BY <1>1, <1>2, <1>4 DEF Shape
<1> QED
  BY <1>1, <1>2, <1>4, <1>5, <1>6

(* A block that is in neither chain is written.                            *)
LEMMA ShapeWrite ==
  ASSUME NEW m, NEW s, NEW f, Shape(m, s, f), NEW b \in Out(s, f), NEW p \in Mq,
         p.head = m.head, p.tail = m.tail, p.free = m.free, p.entry = m.entry,
         \A x \in Block : x # b => p.next[x] = m.next[x] /\ p.data[x] = m.data[x]
  PROVE  Shape(p, s, f) /\ View(p.data, s) = View(m.data, s)
<1>1. /\ m \in Mq /\ Chained(m.next, m.head, s) /\ Chained(m.next, m.free, f)
      /\ ToSet(s) \cap ToSet(f) = {}
      /\ m.entry = Len(s) /\ m.tail = (IF s = << >> THEN Null ELSE s[Len(s)])
      /\ \A x \in ToSet(s) : m.data[x] \in Message
  BY DEF Shape
<1>2. ToSet(s) \subseteq Block /\ ToSet(f) \subseteq Block
  BY <1>1, ListEmpty DEF Chained
<1>3. /\ \A x \in ToSet(s) : p.next[x] = m.next[x] /\ p.data[x] = m.data[x]
      /\ \A x \in ToSet(f) : p.next[x] = m.next[x]
  BY <1>2 DEF Out
<1>4. Chained(p.next, p.head, s) /\ Chained(p.next, p.free, f)
  BY <1>1, <1>3, ChainedSame
<1>5. View(p.data, s) = View(m.data, s)
  BY <1>3, ViewSame
<1> QED
  BY <1>1, <1>3, <1>4, <1>5 DEF Shape

LEMMA ShapeGive ==
  ASSUME NEW m, NEW s, NEW f, Shape(m, s, f), NEW b \in Out(s, f)
  PROVE  /\ Shape(GiveBack(m, b), s, <<b>> \o f)
         /\ <<b>> \o f \in Seq(Block) /\ ToSet(<<b>> \o f) = ToSet(f) \cup {b}
         /\ View(GiveBack(m, b).data, s) = View(m.data, s)
         /\ GiveBack(m, b).data = m.data
         /\ \A x \in Block : x # b => GiveBack(m, b).next[x] = m.next[x]
<1> DEFINE p == GiveBack(m, b)
<1>1. /\ m \in Mq /\ Chained(m.next, m.head, s) /\ Chained(m.next, m.free, f)
      /\ ToSet(s) \cap ToSet(f) = {}
      /\ m.entry = Len(s) /\ m.tail = (IF s = << >> THEN Null ELSE s[Len(s)])
      /\ \A x \in ToSet(s) : m.data[x] \in Message
  BY DEF Shape
<1>2. ToSet(s) \subseteq Block /\ ToSet(f) \subseteq Block
  BY <1>1, ListEmpty DEF Chained
<1>3. b \in Block /\ b \notin ToSet(s) /\ b \notin ToSet(f)
  BY DEF Out
<1>4. /\ m.next \in [Block -> 0 .. MaxMsgs] /\ m.free \in 0 .. MaxMsgs /\ b \in 0 .. MaxMsgs
  BY <1>1, <1>3, MqFacts
<1>5. /\ p \in Mq
      /\ p.next = [m.next EXCEPT ![b] = m.free] /\ p.data = m.data /\ p.head = m.head
      /\ p.tail = m.tail /\ p.entry = m.entry /\ p.free = b
  <2> DEFINE n == [m.next EXCEPT ![b] = m.free]
  <2>1. n \in [Block -> 0 .. MaxMsgs]
    BY <1>3, <1>4
  <2>2. p = [m EXCEPT !.next = n, !.free = b]
    BY <1>1 DEF GiveBack, Mq
  <2> HIDE DEF n, p
  <2>3. /\ p \in Mq /\ p.next = n /\ p.data = m.data /\ p.head = m.head
        /\ p.tail = m.tail /\ p.entry = m.entry /\ p.free = b
    BY <1>1, <1>4, <2>1, <2>2 DEF Mq
  <2> QED
    BY <2>3 DEF n
<1> HIDE DEF p
<1>6. p.next[b] = m.free /\ \A x \in Block : x # b => p.next[x] = m.next[x]
  BY <1>3, <1>4, <1>5
<1>7. Chained(p.next, b, <<b>> \o f) /\ ToSet(<<b>> \o f) = ToSet(f) \cup {b}
  <2>1. \A x \in ToSet(f) : p.next[x] = m.next[x]
    BY <1>2, <1>3, <1>6
  <2> QED
    BY <1>1, <1>3, <1>6, <2>1, ChainedFront
<1>8. Chained(p.next, p.head, s)
  <2>1. \A x \in ToSet(s) : p.next[x] = m.next[x]
    BY <1>2, <1>3, <1>6
  <2>2. Chained(m.next, m.head, s)
    BY <1>1
  <2>3. Chained(p.next, m.head, s)
    BY <2>1, <2>2, ChainedSame
  <2> QED
    BY <1>5, <2>3
<1>9. Shape(p, s, <<b>> \o f)
  BY <1>1, <1>3, <1>5, <1>7, <1>8 DEF Shape
<1>10. <<b>> \o f \in Seq(Block)
  BY <1>7 DEF Chained
<1> QED
  BY <1>5, <1>6, <1>7, <1>9, <1>10 DEF p
LEMMA OutShort ==
  ASSUME NEW s \in Seq(Block), IsInjective(s), NEW b \in Block, b \notin ToSet(s)
  PROVE  Len(s) < MaxMsgs /\ Len(s) \in Nat
<1> DEFINE u == Append(s, b)
<1>1. u \in Seq(Block) /\ IsInjective(u) /\ Len(u) = Len(s) + 1
  BY ListAppend, AppendProperties
<1> HIDE DEF u
<1>2. Len(u) \in Nat /\ Len(u) <= MaxMsgs
  BY <1>1, ShortChain
<1>3. Len(s) \in Nat /\ MaxMsgs \in Nat
  BY LenProperties, QueueAssumption
<1> QED
  BY <1>1, <1>2, <1>3

(* The last block of a chain names the tail; nothing else does.            *)
LEMMA ShapeLinkTail ==
  ASSUME NEW m, NEW s, NEW f, Shape(m, s, f), NEW b \in Out(s, f),
         m.next[b] = Null, m.data[b] \in Message
  PROVE  /\ Shape(LinkTail(m, b), Append(s, b), f)
         /\ Append(s, b) \in Seq(Block) /\ ToSet(Append(s, b)) = ToSet(s) \cup {b}
         /\ LinkTail(m, b).data = m.data
         /\ View(m.data, Append(s, b)) = Append(View(m.data, s), m.data[b])
         /\ Len(View(m.data, s)) < MaxMsgs
         /\ \A x \in Out(s, f) : LinkTail(m, b).next[x] = m.next[x]
<1> DEFINE p == LinkTail(m, b)
           w == Append(s, b)
<1>1. /\ m \in Mq /\ Chained(m.next, m.head, s) /\ Chained(m.next, m.free, f)
      /\ ToSet(s) \cap ToSet(f) = {}
      /\ m.entry = Len(s) /\ m.tail = (IF s = << >> THEN Null ELSE s[Len(s)])
      /\ \A x \in ToSet(s) : m.data[x] \in Message
      /\ s \in Seq(Block) /\ IsInjective(s) /\ f \in Seq(Block)
  BY DEF Shape, Chained
<1>2. ToSet(s) \subseteq Block /\ ToSet(f) \subseteq Block
  BY <1>1, ListEmpty
<1>3. b \in Block /\ b \notin ToSet(s) /\ b \notin ToSet(f)
  BY DEF Out
<1>4. /\ m.next \in [Block -> 0 .. MaxMsgs] /\ m.entry \in 0 .. MaxMsgs
      /\ b \in 0 .. MaxMsgs /\ m.head \in 0 .. MaxMsgs /\ Null \notin Block
      /\ MaxMsgs \in Nat
  BY <1>1, <1>3, MqFacts
<1>5. Len(s) < MaxMsgs /\ Len(s) \in Nat /\ DOMAIN s = 1 .. Len(s)
      /\ (s # << >> => Len(s) \in 1 .. Len(s))
  BY <1>1, <1>3, OutShort, LenProperties, EmptySeq
<1>6. s # << >> => s[Len(s)] \in ToSet(s) /\ s[Len(s)] \in Block
  BY <1>2, <1>5 DEF ToSet
<1>7. m.tail = Null <=> s = << >>
  BY <1>1, <1>4, <1>6
<1> DEFINE n == IF m.tail = Null THEN m.next ELSE [m.next EXCEPT ![m.tail] = b]
           h == IF m.head = Null THEN b ELSE m.head
<1>8. n \in [Block -> 0 .. MaxMsgs] /\ h \in 0 .. MaxMsgs /\ m.entry + 1 \in 0 .. MaxMsgs
  <2>1. m.entry = Len(s) /\ Len(s) \in Nat /\ Len(s) < MaxMsgs /\ MaxMsgs \in Nat
    BY <1>1, <1>4, <1>5
  <2>2. m.entry + 1 \in 0 .. MaxMsgs
    BY <2>1
  <2> QED
    BY <1>4, <2>2
<1>9. /\ p \in Mq /\ p.next = n /\ p.data = m.data /\ p.head = h
      /\ p.tail = b /\ p.entry = m.entry + 1 /\ p.free = m.free
  <2>1. p = [m EXCEPT !.next = n, !.tail = b, !.head = h, !.entry = @ + 1]
    BY <1>1 DEF LinkTail, Mq
  <2> HIDE DEF n, p, h
  <2> QED
    BY <1>1, <1>4, <1>8, <2>1 DEF Mq
<1>10. /\ n[b] = Null /\ (s # << >> => n[s[Len(s)]] = b)
       /\ \A x \in Block : (s = << >> \/ x # s[Len(s)]) => n[x] = m.next[x]
  <2>1. CASE s = << >>
    BY <1>7, <2>1
  <2>2. CASE s # << >>
    <3>1. m.tail = s[Len(s)] /\ m.tail \in Block /\ m.tail # b /\ m.tail # Null
      BY <1>1, <1>3, <1>6, <1>7, <2>2
    <3> QED
      BY <1>3, <1>4, <2>2, <3>1
  <2> QED
    BY <2>1, <2>2
<1> HIDE DEF p, n
<1>11. /\ Chained(n, h, w) /\ ToSet(w) = ToSet(s) \cup {b}
       /\ Len(w) = Len(s) + 1 /\ w # << >> /\ w[Len(s) + 1] = b
  <2>1. \A x \in ToSet(s) : x # s[Len(s)] => n[x] = m.next[x]
    BY <1>2, <1>10
  <2> QED
    BY <1>1, <1>3, <1>10, <2>1, ChainedBack
<1>12. Chained(n, m.free, f)
  <2>1. \A x \in ToSet(f) : n[x] = m.next[x]
    BY <1>1, <1>2, <1>6, <1>10
  <2> QED
    BY <1>1, <2>1, ChainedSame
<1> HIDE DEF h
<1>13. Shape(p, w, f)
  <2> HIDE DEF w
  <2> QED
    BY <1>1, <1>3, <1>9, <1>11, <1>12 DEF Shape
<1>14. View(m.data, w) = Append(View(m.data, s), m.data[b]) /\ Len(View(m.data, s)) = Len(s)
  BY <1>1, <1>3, ViewAppend, ViewFacts
<1>15. w \in Seq(Block)
  BY <1>11 DEF Chained
<1>16. \A x \in Out(s, f) : n[x] = m.next[x]
  BY <1>6, <1>10 DEF Out
<1> QED
  BY <1>5, <1>9, <1>11, <1>13, <1>14, <1>15, <1>16 DEF p

LEMMA ShapeLinkHead ==
  ASSUME NEW m, NEW s, NEW f, Shape(m, s, f), NEW b \in Out(s, f), m.data[b] \in Message
  PROVE  /\ Shape(LinkHead(m, b), <<b>> \o s, f)
         /\ <<b>> \o s \in Seq(Block) /\ ToSet(<<b>> \o s) = ToSet(s) \cup {b}
         /\ LinkHead(m, b).data = m.data
         /\ View(m.data, <<b>> \o s) = <<m.data[b]>> \o View(m.data, s)
         /\ Len(View(m.data, s)) < MaxMsgs
         /\ \A x \in Out(s, f) : x # b => LinkHead(m, b).next[x] = m.next[x]
<1> DEFINE p == LinkHead(m, b)
           w == <<b>> \o s
<1>1. /\ m \in Mq /\ Chained(m.next, m.head, s) /\ Chained(m.next, m.free, f)
      /\ ToSet(s) \cap ToSet(f) = {}
      /\ m.entry = Len(s) /\ m.tail = (IF s = << >> THEN Null ELSE s[Len(s)])
      /\ \A x \in ToSet(s) : m.data[x] \in Message
      /\ s \in Seq(Block) /\ IsInjective(s) /\ f \in Seq(Block)
  BY DEF Shape, Chained
<1>2. ToSet(s) \subseteq Block /\ ToSet(f) \subseteq Block
  BY <1>1, ListEmpty
<1>3. b \in Block /\ b \notin ToSet(s) /\ b \notin ToSet(f)
  BY DEF Out
<1>4. /\ m.next \in [Block -> 0 .. MaxMsgs] /\ m.entry \in 0 .. MaxMsgs
      /\ b \in 0 .. MaxMsgs /\ m.head \in 0 .. MaxMsgs /\ m.tail \in 0 .. MaxMsgs
      /\ Null \notin Block /\ MaxMsgs \in Nat
  BY <1>1, <1>3, MqFacts
<1>5. Len(s) < MaxMsgs /\ Len(s) \in Nat /\ DOMAIN s = 1 .. Len(s)
      /\ (s # << >> => Len(s) \in 1 .. Len(s))
  BY <1>1, <1>3, OutShort, LenProperties, EmptySeq
<1>6. s # << >> => s[Len(s)] \in Block
  BY <1>2, <1>5 DEF ToSet
<1>7. m.tail = Null <=> s = << >>
  BY <1>1, <1>4, <1>6
<1> DEFINE n == [m.next EXCEPT ![b] = m.head]
           l == IF m.tail = Null THEN b ELSE m.tail
<1>8. n \in [Block -> 0 .. MaxMsgs] /\ l \in 0 .. MaxMsgs /\ m.entry + 1 \in 0 .. MaxMsgs
  <2>1. m.entry = Len(s) /\ Len(s) \in Nat /\ Len(s) < MaxMsgs /\ MaxMsgs \in Nat
    BY <1>1, <1>4, <1>5
  <2>2. m.entry + 1 \in 0 .. MaxMsgs
    BY <2>1
  <2> QED
    BY <1>4, <2>2
<1>9. /\ p \in Mq /\ p.next = n /\ p.data = m.data /\ p.head = b
      /\ p.tail = l /\ p.entry = m.entry + 1 /\ p.free = m.free
  <2>1. p = [m EXCEPT !.next = n, !.head = b, !.tail = l, !.entry = @ + 1]
    BY <1>1 DEF LinkHead, Mq
  <2> HIDE DEF n, p, l
  <2> QED
    BY <1>1, <1>4, <1>8, <2>1 DEF Mq
<1>10. n[b] = m.head /\ \A x \in Block : x # b => n[x] = m.next[x]
  BY <1>3, <1>4
<1> HIDE DEF p, n
<1>11. /\ Chained(n, b, w) /\ ToSet(w) = ToSet(s) \cup {b}
       /\ Len(w) = Len(s) + 1 /\ w # << >>
       /\ w[Len(s) + 1] = IF s = << >> THEN b ELSE s[Len(s)]
  <2>1. \A x \in ToSet(s) : n[x] = m.next[x]
    BY <1>2, <1>3, <1>10
  <2> QED
    BY <1>1, <1>3, <1>10, <2>1, ChainedFront
<1>12. Chained(n, m.free, f)
  <2>1. \A x \in ToSet(f) : n[x] = m.next[x]
    BY <1>2, <1>3, <1>10
  <2> QED
    BY <1>1, <2>1, ChainedSame
<1>13. l = w[Len(w)]
  BY <1>1, <1>7, <1>11
<1> HIDE DEF l
<1>14. Shape(p, w, f)
  <2> HIDE DEF w
  <2> QED
    BY <1>1, <1>3, <1>9, <1>11, <1>12, <1>13 DEF Shape
<1>15. View(m.data, w) = <<m.data[b]>> \o View(m.data, s) /\ Len(View(m.data, s)) = Len(s)
  BY <1>1, <1>3, ViewFront, ViewFacts
<1>16. w \in Seq(Block)
  BY <1>11 DEF Chained
<1>17. \A x \in Out(s, f) : x # b => n[x] = m.next[x]
  BY <1>10 DEF Out
<1> QED
  BY <1>5, <1>9, <1>11, <1>14, <1>15, <1>16, <1>17 DEF p

LEMMA ShapeUnlink ==
  ASSUME NEW m, NEW s, NEW f, Shape(m, s, f), m.head # Null
  PROVE  /\ Shape(UnlinkHead(m), Tail(s), f)
         /\ s # << >> /\ m.head = Head(s) /\ m.head \in Block /\ m.head \in ToSet(s)
         /\ m.head \in Out(Tail(s), f)
         /\ Tail(s) \in Seq(Block) /\ ToSet(Tail(s)) = ToSet(s) \ {m.head}
         /\ UnlinkHead(m).data = m.data /\ UnlinkHead(m).next = m.next
         /\ m.data[m.head] \in Message
         /\ View(m.data, s) # << >> /\ Head(View(m.data, s)) = m.data[m.head]
         /\ View(m.data, Tail(s)) = Tail(View(m.data, s))
<1> DEFINE p == UnlinkHead(m)
           w == Tail(s)
<1>1. /\ m \in Mq /\ Chained(m.next, m.head, s) /\ Chained(m.next, m.free, f)
      /\ ToSet(s) \cap ToSet(f) = {}
      /\ m.entry = Len(s) /\ m.tail = (IF s = << >> THEN Null ELSE s[Len(s)])
      /\ \A x \in ToSet(s) : m.data[x] \in Message
      /\ s \in Seq(Block) /\ IsInjective(s) /\ f \in Seq(Block)
  BY DEF Shape, Chained
<1>2. /\ s # << >> /\ m.head = Head(s) /\ m.head \in Block /\ m.head \in ToSet(s)
      /\ Chained(m.next, m.next[m.head], w)
      /\ ToSet(w) = ToSet(s) \ {m.head} /\ Len(w) = Len(s) - 1
      /\ w # << >> => w[Len(w)] = s[Len(s)]
      /\ w = << >> <=> s[Len(s)] = m.head
  BY <1>1, ChainedRest
<1>3. /\ m.next[m.head] \in 0 .. MaxMsgs /\ m.entry \in 0 .. MaxMsgs
      /\ m.tail \in 0 .. MaxMsgs /\ Null \in 0 .. MaxMsgs /\ MaxMsgs \in Nat
  BY <1>1, <1>2, MqFacts
<1>4. m.entry - 1 \in 0 .. MaxMsgs
  <2>1. Len(s) # 0 /\ m.entry = Len(s) /\ Len(s) \in Nat
    BY <1>1, <1>2, EmptySeq, LenProperties
  <2>2. m.entry \in 0 .. MaxMsgs /\ m.entry # 0 /\ MaxMsgs \in Nat
    BY <1>3, <2>1
  <2> QED
    BY <2>2
<1>5. w \in Seq(Block)
  BY <1>2 DEF Chained
<1> DEFINE l == IF m.tail = m.head THEN Null ELSE m.tail
<1>6. /\ p \in Mq /\ p.next = m.next /\ p.data = m.data /\ p.head = m.next[m.head]
      /\ p.tail = l /\ p.entry = m.entry - 1 /\ p.free = m.free
  <2> DEFINE h == m.next[m.head]
             e == m.entry - 1
  <2>1. p = [m EXCEPT !.head = h, !.tail = l, !.entry = e]
    BY <1>1 DEF UnlinkHead, Mq
  <2>2. l \in 0 .. MaxMsgs /\ h \in 0 .. MaxMsgs /\ e \in 0 .. MaxMsgs
    BY <1>3, <1>4
  <2> HIDE DEF h, l, e, p
  <2>3. /\ p \in Mq /\ p.next = m.next /\ p.data = m.data /\ p.head = h
        /\ p.tail = l /\ p.entry = e /\ p.free = m.free
    BY <1>1, <2>1, <2>2 DEF Mq
  <2> QED
    BY <2>3 DEF h, e
<1>7. l = IF w = << >> THEN Null ELSE w[Len(w)]
  BY <1>1, <1>2
<1> HIDE DEF p, l
<1>8. Shape(p, w, f)
  <2> HIDE DEF w
  <2> QED
    BY <1>1, <1>2, <1>6, <1>7 DEF Shape
<1>9. /\ View(m.data, s) # << >> /\ Head(View(m.data, s)) = m.data[m.head]
      /\ View(m.data, w) = Tail(View(m.data, s))
  <2>1. s \in Seq(Block) /\ s # << >> /\ \A x \in ToSet(s) : m.data[x] \in Message
    BY <1>1, <1>2
  <2>2. /\ View(m.data, s) # << >> /\ Head(View(m.data, s)) = m.data[Head(s)]
        /\ View(m.data, Tail(s)) = Tail(View(m.data, s))
    BY <2>1, ViewRest
  <2> QED
    BY <1>2, <2>2
<1>10. m.head \in Out(w, f) /\ m.data[m.head] \in Message
  BY <1>1, <1>2 DEF Out
<1> QED
  BY <1>2, <1>5, <1>6, <1>8, <1>9, <1>10 DEF p

(* entry counts the messages: the queue is empty when its head is none.    *)
LEMMA ShapeEmpty ==
  ASSUME NEW m, NEW s, NEW f, Shape(m, s, f)
  PROVE  (m.head = Null <=> s = << >>) /\ (m.entry = 0 <=> s = << >>)
<1>1. s \in Seq(Block) /\ m.head = (IF s = << >> THEN Null ELSE s[1]) /\ m.entry = Len(s)
  BY DEF Shape, Chained
<1>2. s = << >> <=> Len(s) = 0
  BY <1>1, EmptySeq
<1>3. s # << >> => s[1] \in Block
  <2>1. s # << >> => 1 \in 1 .. Len(s)
    BY <1>1, EmptySeq
  <2> QED
    BY <1>1, <2>1, ElementOfSeq
<1> QED
  BY <1>1, <1>2, <1>3 DEF Null, Block
(* A round of the reset, and all of them: every block of the queue is free.*)
Recycles(m, X) ==
  {p \in Mq : /\ \E s, f \in Seq(Block) : Shape(p, s, f) /\ ToSet(s) \cup ToSet(f) = X
              /\ p.data = m.data
              /\ \A x \in Block \ X : p.next[x] = m.next[x]}

LEMMA RecycleFacts ==
  ASSUME NEW m, NEW X, NEW p \in Recycles(m, X)
  PROVE  /\ Recycle(p) \in Recycles(m, X)
         /\ p.entry \in 0 .. MaxMsgs
         /\ Recycle(p).entry = IF p.entry = 0 THEN 0 ELSE p.entry - 1
<1>1. PICK s, f \in Seq(Block) : Shape(p, s, f) /\ ToSet(s) \cup ToSet(f) = X
  BY DEF Recycles
<1>2. p \in Mq /\ p.data = m.data /\ (\A x \in Block \ X : p.next[x] = m.next[x])
  BY DEF Recycles
<1>3. p.entry \in 0 .. MaxMsgs /\ p.entry = Len(s)
  BY <1>1, <1>2, MqFacts DEF Shape
<1>4. p.head = Null <=> p.entry = 0
  BY <1>1, ShapeEmpty
<1>5. CASE p.head = Null
  BY <1>3, <1>4, <1>5 DEF Recycle
<1>6. CASE p.head # Null
  <2> DEFINE u == UnlinkHead(p)
             b == p.head
             r == GiveBack(u, b)
             w == Tail(s)
             g == <<b>> \o f
  <2>1. /\ Shape(u, w, f) /\ b \in Block /\ b \in ToSet(s) /\ b \in Out(w, f)
        /\ w \in Seq(Block) /\ ToSet(w) = ToSet(s) \ {b}
        /\ u.data = p.data /\ u.next = p.next
    BY <1>1, <1>6, ShapeUnlink
  <2> HIDE DEF u, b, r, w, g
  <2>2. /\ Shape(r, w, g) /\ g \in Seq(Block) /\ ToSet(g) = ToSet(f) \cup {b}
        /\ r.data = u.data /\ \A x \in Block : x # b => r.next[x] = u.next[x]
    BY <2>1, ShapeGive DEF r, g
  <2>3. ToSet(w) \cup ToSet(g) = X /\ b \in X
    BY <1>1, <2>1, <2>2
  <2>4. r \in Mq
    BY <2>2 DEF Shape
  <2>5. \A x \in Block \ X : r.next[x] = m.next[x]
    BY <1>2, <2>1, <2>2, <2>3
  <2>6. r \in Recycles(m, X)
    BY <1>2, <2>1, <2>2, <2>3, <2>4, <2>5 DEF Recycles
  <2>7. Recycle(p) = r
    BY <1>6 DEF Recycle, r, u, b
  <2>8. r.entry = p.entry - 1
    <3>1. r.entry = Len(w)
      BY <2>2 DEF Shape
    <3>2. Len(w) = Len(s) - 1
      BY <1>1, <1>3, <1>4, <1>6, ListTail, EmptySeq DEF w
    <3> QED
      BY <1>3, <3>1, <3>2
  <2> QED
    BY <1>3, <1>4, <1>6, <2>6, <2>7, <2>8
<1> QED
  BY <1>5, <1>6

AllFree(m, X) == \E g \in Seq(Block) : Shape(m, << >>, g) /\ ToSet(g) = X

HeldAlone(m, p, X) == p.data = m.data /\ \A x \in X : p.next[x] = m.next[x]

LEMMA EmptiedFacts ==
  ASSUME NEW m, NEW s, NEW f, Shape(m, s, f)
  PROVE  /\ AllFree(Emptied(m), ToSet(s) \cup ToSet(f))
         /\ HeldAlone(m, Emptied(m), Out(s, f))
<1> DEFINE X == ToSet(s) \cup ToSet(f)
           V == Recycles(m, X)
           M == MaxMsgs
           G == [p \in V |-> Recycle(p)]
           Is(h) == h = [i \in 0 .. M |-> IF i = 0 THEN m ELSE Recycle(h[i-1])]
           at == CHOOSE h : Is(h)
<1>1. m \in V
  <2>1. m \in Mq /\ s \in Seq(Block) /\ f \in Seq(Block)
    BY DEF Shape, Chained
  <2> QED
    BY <2>1 DEF Recycles
<1>2. M \in Nat /\ M > 0
  BY QueueAssumption
<1>3. Is(at)
  <2>1. G \in [V -> V]
    BY RecycleFacts
  <2>2. \E h : Iterates(h, V, G, m, M)
    <3> HIDE DEF V, G, M
    <3> QED
      BY <1>1, <1>2, <2>1, IterationDefined
  <2>3. PICK h : Iterates(h, V, G, m, M)
    BY <2>2
  <2>4. \A i \in 0 .. M : h[i] = IF i = 0 THEN m ELSE Recycle(h[i-1])
    <3> SUFFICES ASSUME NEW i \in 0 .. M, i # 0
                 PROVE  h[i] = Recycle(h[i-1])
      BY <2>3 DEF Iterates
    <3>1. i \in 1 .. M /\ i - 1 \in 0 .. M
      BY <1>2
    <3> HIDE DEF V, M
    <3>2. h[i-1] \in V
      BY <2>3, <3>1 DEF Iterates
    <3>3. h[i] = G[h[i-1]]
      BY <2>3, <3>1 DEF Iterates
    <3> QED
      BY <3>2, <3>3
  <2>5. h = [i \in 0 .. M |-> h[i]]
    BY <2>3 DEF Iterates
  <2> HIDE DEF M
  <2>6. Is(h)
    BY <2>4, <2>5
  <2> HIDE DEF Is
  <2> QED
    BY <2>6
<1>4. Emptied(m) = [at[M] EXCEPT !.entry = 0]
  BY DEF Emptied
<1> HIDE DEF V, M, at
<1>5. at[0] = m /\ \A i \in 1 .. M : at[i] = Recycle(at[i-1])
  <2>1. \A i \in 0 .. M : at[i] = IF i = 0 THEN m ELSE Recycle(at[i-1])
    BY <1>3
  <2>2. 0 \in 0 .. M /\ \A i \in 1 .. M : i \in 0 .. M /\ i # 0
    BY <1>2
  <2> QED
    BY <2>1, <2>2
<1> HIDE DEF Is, G
<1> DEFINE Good == {i \in 0 .. M : /\ at[i] \in V
                                   /\ at[i].entry = 0 \/ at[i].entry <= M - i}
<1>6. 0 \in Good
  <2>1. m.entry \in 0 .. M
    BY <1>1, RecycleFacts DEF V, M
  <2>2. 0 \in 0 .. M /\ m.entry <= M - 0
    BY <1>2, <2>1
  <2> QED
    BY <1>1, <1>5, <2>2
<1>7. ASSUME NEW i \in 1 .. M, i - 1 \in Good
      PROVE  i \in Good
  <2> DEFINE p == at[i-1]
             r == Recycle(p)
  <2>1. p \in V /\ (p.entry = 0 \/ p.entry <= M - (i - 1))
    BY <1>7
  <2>2. at[i] = r
    BY <1>5
  <2> HIDE DEF p, r, Good
  <2>3. r \in V /\ p.entry \in 0 .. M /\ r.entry = IF p.entry = 0 THEN 0 ELSE p.entry - 1
    BY <2>1, RecycleFacts DEF V, M, r
  <2>4. r.entry = 0 \/ r.entry <= M - i
    BY <1>2, <2>1, <2>3
  <2>5. i \in 0 .. M
    BY <1>2
  <2> QED
    BY <2>2, <2>3, <2>4, <2>5 DEF Good
<1>8. M \in Good
  <2> HIDE DEF Good
  <2> QED
    BY <1>2, <1>6, <1>7, UpTo
<1> DEFINE p == at[M]
<1>9. p \in V /\ (p.entry = 0 \/ p.entry <= M - M)
  BY <1>8
<1> HIDE DEF p, Good
<1>10. p.entry \in 0 .. M
  BY <1>9, RecycleFacts DEF V, M
<1>11. p.entry = 0
  BY <1>2, <1>9, <1>10
<1>12. p \in Mq /\ p.data = m.data /\ (\A x \in Block \ X : p.next[x] = m.next[x])
  BY <1>9 DEF V, Recycles
<1>13. Emptied(m) = p
  <2>1. Emptied(m) = [p EXCEPT !.entry = 0]
    BY <1>4 DEF p
  <2> QED
    BY <1>11, <1>12, <2>1 DEF Mq
<1>14. PICK w, g \in Seq(Block) : Shape(p, w, g) /\ ToSet(w) \cup ToSet(g) = X
  BY <1>9 DEF V, Recycles
<1>15. w = << >>
  BY <1>11, <1>14, ShapeEmpty
<1>16. ToSet(g) = X
  <2>1. ToSet(w) = {}
    BY <1>15, ListEmpty
  <2> QED
    BY <1>14, <2>1
<1>17. AllFree(Emptied(m), X)
  BY <1>13, <1>14, <1>15, <1>16 DEF AllFree
<1>18. HeldAlone(m, Emptied(m), Out(s, f))
  BY <1>12, <1>13 DEF HeldAlone, Out
<1> QED
  BY <1>17, <1>18

(* rt_mq_init                                                              *)
LEMMA EmptyMqFacts ==
  \E f \in Seq(Block) : Shape(EmptyMq, << >>, f) /\ ToSet(f) = Block
<1> DEFINE M == MaxMsgs
           f == [i \in 1 .. M |-> M + 1 - i]
           m == EmptyMq
<1>1. M \in Nat /\ M > 0 /\ Block = 1 .. M /\ Null = 0
  BY QueueAssumption DEF Block, Null
<1>2. m \in Mq
  <2>1. \A b \in Block : b - 1 \in 0 .. M
    BY <1>1
  <2>2. [b \in Block |-> b - 1] \in [Block -> 0 .. M]
    BY <2>1
  <2>3. [b \in Block |-> None] \in [Block -> Message \cup {None}]
    OBVIOUS
  <2>4. 0 \in 0 .. M /\ M \in 0 .. M
    BY <1>1
  <2> QED
    BY <1>1, <2>2, <2>3, <2>4 DEF EmptyMq, Mq
<1>3. /\ m.next = [b \in Block |-> b - 1] /\ m.head = 0 /\ m.tail = 0
      /\ m.free = M /\ m.entry = 0
  BY <1>1 DEF EmptyMq
<1>4. f \in Seq(Block)
  <2>1. \A i \in 1 .. M : M + 1 - i \in Block
    BY <1>1
  <2> QED
    BY <1>1, <2>1
<1>5. Len(f) = M /\ DOMAIN f = 1 .. M /\ \A i \in 1 .. M : f[i] = M + 1 - i
  BY <1>1, <1>4, LenProperties
<1> HIDE DEF f, m
<1>6. IsInjective(f)
  <2>1. \A i, j \in 1 .. M : M + 1 - i = M + 1 - j => i = j
    BY <1>1
  <2> QED
    BY <1>5, <2>1 DEF IsInjective
<1>7. f # << >> /\ f[1] = M
  <2>1. 1 \in 1 .. M
    BY <1>1
  <2>2. f[1] = M + 1 - 1
    BY <1>5, <2>1
  <2> QED
    BY <1>1, <1>4, <1>5, <2>2, EmptySeq
<1>8. ASSUME NEW i \in 1 .. Len(f)
      PROVE  m.next[f[i]] = IF i = Len(f) THEN Null ELSE f[i + 1]
  <2>1. i \in 1 .. M /\ f[i] = M + 1 - i /\ M + 1 - i \in Block
    BY <1>1, <1>5
  <2>2. m.next[f[i]] = M - i
    <3>1. m.next[f[i]] = (M + 1 - i) - 1
      BY <1>3, <2>1
    <3> QED
      BY <1>1, <2>1, <3>1
  <2>3. CASE i = M
    BY <1>1, <1>5, <2>2, <2>3
  <2>4. CASE i # M
    <3>1. i + 1 \in 1 .. M
      BY <1>1, <2>1, <2>4
    <3>2. f[i + 1] = M + 1 - (i + 1)
      BY <1>5, <3>1
    <3> QED
      BY <1>1, <1>5, <2>1, <2>2, <2>4, <3>2
  <2> QED
    BY <2>3, <2>4
<1>9. Chained(m.next, m.free, f)
  BY <1>3, <1>4, <1>6, <1>7, <1>8 DEF Chained
<1>10. Chained(m.next, m.head, << >>) /\ ToSet(<< >>) = {} /\ Len(<< >>) = 0
  <2>1. << >> \in Seq(Block) /\ Len(<< >>) = 0
    BY EmptySeq
  <2>2. IsInjective(<< >>) /\ ToSet(<< >>) = {}
    BY DEF IsInjective, ToSet
  <2> QED
    BY <1>1, <1>3, <2>1, <2>2 DEF Chained
<1>11. ToSet(f) = Block
  <2>1. \A b \in Block : M + 1 - b \in 1 .. M /\ M + 1 - (M + 1 - b) = b
    BY <1>1
  <2>2. \A b \in Block : f[M + 1 - b] = b
    BY <1>5, <2>1
  <2>3. Block \subseteq ToSet(f)
    BY <1>5, <2>1, <2>2 DEF ToSet
  <2> QED
    BY <1>4, <2>3, ListEmpty
<1>12. Shape(m, << >>, f)
  BY <1>1, <1>2, <1>3, <1>9, <1>10 DEF Shape
<1> QED
  BY <1>4, <1>11, <1>12 DEF m
-----------------------------------------------------------------------------
(* The blocks in the threads' hands.                                       *)
Holds(t, q) == arg[t] = q /\ blk[t] # Null

(* The threads in calls about q have the blocks of S, one each.            *)
Owned(q, S) ==
  /\ \A t \in Thread : Holds(t, q) => blk[t] \in S
  /\ \A t, u \in Thread : Holds(t, q) /\ Holds(u, q) /\ blk[t] = blk[u] => t = u
  /\ \A b \in S : \E t \in Thread : Holds(t, q) /\ blk[t] = b

(* What a thread at l, with the message v and the block b, relies on.      *)
Filled(l, v, b, m) ==
  /\ l = "link" => m.next[b] = Null
  /\ l \in {"link", "linkfront"} => m.data[b] = v
  /\ l = "copyout" => m.data[b] \in Message

QueueInv(q, s, f) ==
  /\ Shape(mq[q], s, f) /\ Owned(q, Out(s, f))
  /\ \A t \in Thread : arg[t] = q => Filled(pc[t], hand[t], blk[t], mq[q])

MqInv == /\ mq \in [MqQueues -> Mq]
         /\ \A q \in MqQueues : \E s, f \in Seq(Block) : QueueInv(q, s, f)

(* What the threads have in their hands, as the channel of q shows it.     *)
MqHandOf(q) == [t \in Thread |-> IF arg[t] # q THEN None
                                 ELSE IF pc[t] = "copyout" THEN mq[q].data[blk[t]]
                                 ELSE hand[t]]

LEMMA QueuedIs ==
  ASSUME NEW m, NEW s, NEW f, Shape(m, s, f)
  PROVE  Queued(m) = View(m.data, s) /\ Chain(m, m.head) = s /\ Chain(m, m.free) = f
<1>1. /\ m.next \in [Block -> 0 .. MaxMsgs]
      /\ Chained(m.next, m.head, s) /\ Chained(m.next, m.free, f)
  BY MqFacts DEF Shape
<1>2. Chain(m, m.head) = s /\ Chain(m, m.free) = f
  BY <1>1, ChainIs
<1> QED
  BY <1>2 DEF Queued, View

LEMMA OwnedSame ==
  ASSUME NEW q, NEW S, Owned(q, S), NEW R, R = S,
         \A u \in Thread : (Holds(u, q)' <=> Holds(u, q)) /\ (Holds(u, q) => blk'[u] = blk[u])
  PROVE  Owned(q, R)'
BY DEF Owned

LEMMA OwnedMore ==
  ASSUME NEW q, NEW S, Owned(q, S), NEW t \in Thread, ~Holds(t, q), Holds(t, q)',
         blk'[t] \notin S, NEW R, R = S \cup {blk'[t]},
         \A u \in Thread \ {t} : arg'[u] = arg[u] /\ blk'[u] = blk[u]
  PROVE  Owned(q, R)'
<1>1. \A u \in Thread \ {t} : (Holds(u, q)' <=> Holds(u, q)) /\ blk'[u] = blk[u]
  BY DEF Holds
<1>2. \A u \in Thread : Holds(u, q)' => blk'[u] \in R
  BY <1>1 DEF Owned
<1>3. \A u, w \in Thread : Holds(u, q)' /\ Holds(w, q)' /\ blk'[u] = blk'[w] => u = w
  BY <1>1 DEF Owned
<1>4. \A b \in R : \E u \in Thread : Holds(u, q)' /\ blk'[u] = b
  <2> SUFFICES ASSUME NEW b \in R
               PROVE  \E u \in Thread : Holds(u, q)' /\ blk'[u] = b
    OBVIOUS
  <2>1. CASE b = blk'[t]
    BY <2>1
  <2>2. CASE b \in S
    <3>1. PICK u \in Thread : Holds(u, q) /\ blk[u] = b
      BY <2>2 DEF Owned
    <3> QED
      BY <1>1, <3>1
  <2> QED
    BY <2>1, <2>2
<1> QED
  BY <1>2, <1>3, <1>4 DEF Owned

LEMMA OwnedLess ==
  ASSUME NEW q, NEW S, Owned(q, S), NEW t \in Thread, Holds(t, q), ~Holds(t, q)',
         NEW R, R = S \ {blk[t]},
         \A u \in Thread \ {t} : arg'[u] = arg[u] /\ blk'[u] = blk[u]
  PROVE  Owned(q, R)'
<1>1. \A u \in Thread \ {t} : (Holds(u, q)' <=> Holds(u, q)) /\ blk'[u] = blk[u]
  BY DEF Holds
<1>2. \A u \in Thread : Holds(u, q)' => u # t
  OBVIOUS
<1>3. \A u \in Thread : Holds(u, q)' => blk'[u] \in R
  BY <1>1, <1>2 DEF Owned
<1>4. \A u, w \in Thread : Holds(u, q)' /\ Holds(w, q)' /\ blk'[u] = blk'[w] => u = w
  BY <1>1, <1>2 DEF Owned
<1>5. \A b \in R : \E u \in Thread : Holds(u, q)' /\ blk'[u] = b
  <2> SUFFICES ASSUME NEW b \in R
               PROVE  \E u \in Thread : Holds(u, q)' /\ blk'[u] = b
    OBVIOUS
  <2>1. PICK u \in Thread : Holds(u, q) /\ blk[u] = b
    BY DEF Owned
  <2> QED
    BY <1>1, <2>1
<1> QED
  BY <1>3, <1>4, <1>5 DEF Owned

(* Where a thread has a block, and none.                                   *)
LEMMA HoldsSeat ==
  ASSUME ControlInv, NEW t \in Thread
  PROVE  /\ blk[t] # Null <=> pc[t] \in WithBlock
         /\ blk[t] \in 0 .. MaxMsgs /\ arg[t] \in Queue
         /\ hand[t] \in Message \cup {None} /\ None \notin Message
         /\ pc[t] \in WithBlock => blk[t] \in Block /\ arg[t] \in MqQueues
<1>1. Seated(pc[t], then[t], arg[t], hand[t], blk[t]) /\ ControlTypeOK
  BY DEF ControlInv, SeatInv
<1>2. Null \notin Block
  BY DEF Null, Block
<1> QED
  BY <1>1, <1>2, RetryAssumption DEF Seated, ControlTypeOK, WithBlock, MqLocation

(* A step of t in a call about q: the other threads find their blocks as   *)
(* they left them.                                                         *)
Turns(t, q, s, f, w, g) ==
  /\ OneMoves(t) /\ arg'[t] = q
  /\ mq \in [MqQueues -> Mq] /\ mq' = [mq EXCEPT ![q] = mq'[q]]
  /\ w \in Seq(Block) /\ g \in Seq(Block)
  /\ QueueInv(q, s, f) /\ Shape(mq'[q], w, g) /\ Owned(q, Out(w, g))'
  /\ Filled(pc'[t], hand'[t], blk'[t], mq'[q])
  /\ \A x \in Out(s, f) : (Holds(t, q) => x # blk[t]) =>
       mq'[q].next[x] = mq[q].next[x] /\ mq'[q].data[x] = mq[q].data[x]

LEMMA MqKeeps ==
  ASSUME ControlInv, NEW t \in Thread, NEW q \in MqQueues,
         NEW s, NEW f, NEW w, NEW g, Turns(t, q, s, f, w, g)
  PROVE  /\ \E c, d \in Seq(Block) : QueueInv(q, c, d)'
         /\ mq' \in [MqQueues -> Mq] /\ \A n \in MqQueues : n # q => mq'[n] = mq[n]
         /\ \A u \in Thread \ {t} : MqHandOf(q)'[u] = MqHandOf(q)[u]
         /\ Queued(mq[q]) = View(mq[q].data, s) /\ Queued(mq'[q]) = View(mq'[q].data, w)
<1>0. /\ OneMoves(t) /\ arg'[t] = q
      /\ mq \in [MqQueues -> Mq] /\ mq' = [mq EXCEPT ![q] = mq'[q]]
      /\ w \in Seq(Block) /\ g \in Seq(Block)
      /\ QueueInv(q, s, f) /\ Shape(mq'[q], w, g) /\ Owned(q, Out(w, g))'
      /\ Filled(pc'[t], hand'[t], blk'[t], mq'[q])
      /\ \A x \in Out(s, f) : (Holds(t, q) => x # blk[t]) =>
           mq'[q].next[x] = mq[q].next[x] /\ mq'[q].data[x] = mq[q].data[x]
  BY DEF Turns
<1>1. /\ \A u \in Thread \ {t} : /\ pc'[u] = pc[u] /\ arg'[u] = arg[u]
                                 /\ hand'[u] = hand[u] /\ blk'[u] = blk[u]
  BY <1>0 DEF OneMoves
<1>2. ASSUME NEW u \in Thread \ {t}, arg[u] = q, pc[u] \in WithBlock
      PROVE  mq'[q].next[blk[u]] = mq[q].next[blk[u]] /\ mq'[q].data[blk[u]] = mq[q].data[blk[u]]
  <2>1. Holds(u, q)
    BY <1>2, HoldsSeat DEF Holds
  <2>2. blk[u] \in Out(s, f) /\ (Holds(t, q) => blk[u] # blk[t])
    BY <1>0, <2>1 DEF QueueInv, Owned
  <2> QED
    BY <1>0, <2>2
<1>3. ASSUME NEW u \in Thread, arg'[u] = q
      PROVE  Filled(pc'[u], hand'[u], blk'[u], mq'[q])
  <2>1. CASE u # t
    <3>1. Filled(pc[u], hand[u], blk[u], mq[q])
      BY <1>0, <1>1, <1>3, <2>1 DEF QueueInv
    <3>2. pc[u] \in WithBlock => mq'[q].next[blk[u]] = mq[q].next[blk[u]]
                              /\ mq'[q].data[blk[u]] = mq[q].data[blk[u]]
      BY <1>1, <1>2, <1>3, <2>1
    <3> QED
      BY <1>1, <2>1, <3>1, <3>2 DEF Filled, WithBlock
  <2> QED
    BY <1>0, <2>1
<1>4. mq' \in [MqQueues -> Mq] /\ \A n \in MqQueues : n # q => mq'[n] = mq[n]
  <2> DEFINE m == mq'[q]
  <2>1. m \in Mq /\ mq' = [mq EXCEPT ![q] = m]
    BY <1>0 DEF Shape
  <2> HIDE DEF m
  <2> QED
    BY <1>0, <2>1
<1>5. QueueInv(q, w, g)'
  BY <1>0, <1>3 DEF QueueInv
<1>6. \A u \in Thread \ {t} : MqHandOf(q)'[u] = MqHandOf(q)[u]
  <2> SUFFICES ASSUME NEW u \in Thread \ {t}
               PROVE  MqHandOf(q)'[u] = MqHandOf(q)[u]
    OBVIOUS
  <2>1. arg[u] = q /\ pc[u] = "copyout" => mq'[q].data[blk[u]] = mq[q].data[blk[u]]
    BY <1>2 DEF WithBlock
  <2> QED
    BY <1>1, <2>1 DEF MqHandOf
<1>7. Shape(mq[q], s, f) /\ Shape(mq'[q], w, g)
  BY <1>0 DEF QueueInv
<1>8. Queued(mq[q]) = View(mq[q].data, s) /\ Queued(mq'[q]) = View(mq'[q].data, w)
  BY <1>7, QueuedIs
<1> QED
  BY <1>0, <1>4, <1>5, <1>6, <1>8
(* A step that leaves a thread of the calls about q alone.                 *)
Rests(u, q) ==
  \/ /\ arg'[u] = arg[u] /\ hand'[u] = hand[u] /\ blk'[u] = blk[u]
     /\ pc'[u] = pc[u] \/ {pc[u], pc'[u]} \cap WithBlock = {}
  \/ /\ arg[u] = q => pc[u] \notin WithBlock /\ hand[u] = None
     /\ arg'[u] = q => pc'[u] \notin WithBlock /\ hand'[u] = None

(* What a step does with q that all threads rest in.                       *)
MqAtOnce(q) ==
  /\ \E c, d \in Seq(Block) : QueueInv(q, c, d)'
  /\ MqHandOf(q)' = MqHandOf(q) /\ AtOnce(Queued(mq[q]), Queued(mq'[q]), MaxMsgs)

LEMMA MqAlters ==
  ASSUME ControlInv, ControlInv', NEW q \in MqQueues, \A u \in Thread : Rests(u, q),
         NEW s, NEW f, QueueInv(q, s, f),
         NEW w \in Seq(Block), NEW g \in Seq(Block),
         Shape(mq'[q], w, g), Out(w, g) = Out(s, f),
         \A x \in Out(s, f) : mq'[q].next[x] = mq[q].next[x] /\ mq'[q].data[x] = mq[q].data[x],
         AtOnce(View(mq[q].data, s), View(mq'[q].data, w), MaxMsgs)
  PROVE  MqAtOnce(q)
<1>0. Shape(mq[q], s, f) /\ Owned(q, Out(s, f))
  BY DEF QueueInv
<1>1. ASSUME NEW u \in Thread
      PROVE  /\ (Holds(u, q)' <=> Holds(u, q)) /\ (Holds(u, q) => blk'[u] = blk[u])
             /\ arg'[u] = q /\ pc'[u] \in WithBlock =>
                  /\ arg[u] = q /\ pc'[u] = pc[u] /\ hand'[u] = hand[u] /\ blk'[u] = blk[u]
                  /\ mq'[q].next[blk[u]] = mq[q].next[blk[u]]
                  /\ mq'[q].data[blk[u]] = mq[q].data[blk[u]]
             /\ MqHandOf(q)'[u] = MqHandOf(q)[u]
  <2>1. (blk[u] # Null <=> pc[u] \in WithBlock) /\ (blk'[u] # Null <=> pc'[u] \in WithBlock)
    <3>1. blk[u] # Null <=> pc[u] \in WithBlock
      BY HoldsSeat
    <3>2. Seated(pc'[u], then'[u], arg'[u], hand'[u], blk'[u])
      BY DEF ControlInv, SeatInv
    <3>3. blk'[u] # Null <=> pc'[u] \in WithBlock
      BY <3>2 DEF Seated, Null, Block
    <3> QED
      BY <3>1, <3>3
  <2>2. Holds(u, q) => mq'[q].next[blk[u]] = mq[q].next[blk[u]]
                    /\ mq'[q].data[blk[u]] = mq[q].data[blk[u]]
    BY <1>0 DEF Owned
  <2>3. "copyout" \in WithBlock
    BY DEF WithBlock
  <2>4. CASE /\ arg'[u] = arg[u] /\ hand'[u] = hand[u] /\ blk'[u] = blk[u]
             /\ pc'[u] = pc[u] \/ {pc[u], pc'[u]} \cap WithBlock = {}
    BY <2>1, <2>2, <2>3, <2>4 DEF Holds, MqHandOf
  <2>5. CASE /\ arg[u] = q => pc[u] \notin WithBlock /\ hand[u] = None
             /\ arg'[u] = q => pc'[u] \notin WithBlock /\ hand'[u] = None
    BY <2>1, <2>3, <2>5 DEF Holds, MqHandOf
  <2> QED
    BY <2>4, <2>5 DEF Rests
<1>2. MqHandOf(q)' = MqHandOf(q)
  <2>1. MqHandOf(q)' = [u \in Thread |-> MqHandOf(q)'[u]]
    BY DEF MqHandOf
  <2>2. MqHandOf(q) = [u \in Thread |-> MqHandOf(q)[u]]
    BY DEF MqHandOf
  <2> QED
    BY <1>1, <2>1, <2>2
<1>3. Owned(q, Out(w, g))'
  BY <1>0, <1>1, OwnedSame
<1>4. ASSUME NEW u \in Thread, arg'[u] = q
      PROVE  Filled(pc'[u], hand'[u], blk'[u], mq'[q])
  <2>1. CASE pc'[u] \in WithBlock
    <3>1. Filled(pc[u], hand[u], blk[u], mq[q])
      BY <1>1, <1>4, <2>1 DEF QueueInv
    <3> QED
      BY <1>1, <1>4, <2>1, <3>1 DEF Filled
  <2>2. CASE pc'[u] \notin WithBlock
    BY <2>2 DEF Filled, WithBlock
  <2> QED
    BY <2>1, <2>2
<1>5. QueueInv(q, w, g)'
  BY <1>3, <1>4 DEF QueueInv
<1>6. Queued(mq[q]) = View(mq[q].data, s) /\ Queued(mq'[q]) = View(mq'[q].data, w)
  BY <1>0, QueuedIs
<1> QED
  BY <1>2, <1>5, <1>6 DEF MqAtOnce

LEMMA MqRests ==
  ASSUME ControlInv, ControlInv', MqInv, NEW q \in MqQueues, mq'[q] = mq[q],
         \A u \in Thread : Rests(u, q)
  PROVE  MqAtOnce(q)
<1>1. PICK s, f \in Seq(Block) : QueueInv(q, s, f)
  BY DEF MqInv
<1>2. Shape(mq'[q], s, f)
  BY <1>1 DEF QueueInv
<1>3. AtOnce(View(mq[q].data, s), View(mq'[q].data, s), MaxMsgs)
  BY DEF AtOnce
<1> QED
  BY <1>1, <1>2, <1>3, MqAlters

(* What a call of t about q does.                                          *)
MqDoes(t, q) ==
  /\ OneMoves(t) /\ Sits(t) /\ arg'[t] = q
  /\ arg[t] = q \/ (hand[t] = None /\ pc[t] \notin WithBlock)
  /\ mq' \in [MqQueues -> Mq] /\ \A n \in MqQueues : n # q => mq'[n] = mq[n]
  /\ \E c, d \in Seq(Block) : QueueInv(q, c, d)'
  /\ BufferStep(Queued(mq[q]), Queued(mq'[q]), MqHandOf(q), MqHandOf(q)', MaxMsgs)

LEMMA MqHandMoves ==
  ASSUME NEW t \in Thread, NEW q,
         \A u \in Thread \ {t} : MqHandOf(q)'[u] = MqHandOf(q)[u]
  PROVE  /\ MqHandOf(q)' = [MqHandOf(q) EXCEPT ![t] = MqHandOf(q)'[t]]
         /\ MqHandOf(q)'[t] = MqHandOf(q)[t] => MqHandOf(q)' = MqHandOf(q)
<1>1. MqHandOf(q)' = [u \in Thread |-> MqHandOf(q)'[u]]
  BY DEF MqHandOf
<1>2. MqHandOf(q) = [u \in Thread |-> MqHandOf(q)[u]]
  BY DEF MqHandOf
<1> DEFINE g == MqHandOf(q)
           h == MqHandOf(q)'
<1> HIDE DEF g, h
<1>3. h = [u \in Thread |-> h[u]] /\ g = [u \in Thread |-> g[u]]
      /\ \A u \in Thread \ {t} : h[u] = g[u]
  BY <1>1, <1>2 DEF g, h
<1>4. h = [g EXCEPT ![t] = h[t]] /\ (h[t] = g[t] => h = g)
  BY <1>3
<1> QED
  BY <1>4 DEF g, h

(* What a call does with the buffer and with what it has in its hands.     *)
InHands(b, c, x, y, size) ==
  \/ c = b /\ y = x
  \/ c = b /\ x = None /\ y \in Message
  \/ c = b /\ x # None /\ y = None
  \/ x # None /\ Entered(b, c, x, size) /\ y = None
  \/ x = None /\ b # << >> /\ c = Tail(b) /\ y = Head(b)

LEMMA MqTurn ==
  ASSUME ControlInv, NEW t \in Thread, NEW q \in MqQueues,
         NEW s, NEW f, NEW w, NEW g, Turns(t, q, s, f, w, g), Sits(t),
         arg[t] = q \/ (hand[t] = None /\ pc[t] \notin WithBlock),
         InHands(View(mq[q].data, s), View(mq'[q].data, w),
                 MqHandOf(q)[t], MqHandOf(q)'[t], MaxMsgs)
  PROVE  MqDoes(t, q)
<1>1. /\ \E c, d \in Seq(Block) : QueueInv(q, c, d)'
      /\ mq' \in [MqQueues -> Mq] /\ \A n \in MqQueues : n # q => mq'[n] = mq[n]
      /\ \A u \in Thread \ {t} : MqHandOf(q)'[u] = MqHandOf(q)[u]
      /\ Queued(mq[q]) = View(mq[q].data, s) /\ Queued(mq'[q]) = View(mq'[q].data, w)
  BY MqKeeps
<1> DEFINE h == MqHandOf(q)
           j == MqHandOf(q)'
           c == Queued(mq[q])
           d == Queued(mq'[q])
<1>2. j = [h EXCEPT ![t] = j[t]] /\ (j[t] = h[t] => j = h)
  BY <1>1, MqHandMoves
<1>3. InHands(c, d, h[t], j[t], MaxMsgs)
  BY <1>1
<1> SUFFICES /\ BufferStep(c, d, h, j, MaxMsgs)
             /\ OneMoves(t) /\ arg'[t] = q
  BY <1>1 DEF MqDoes
<1> HIDE DEF c, d, h, j
<1>4. BufferStep(c, d, h, j, MaxMsgs)
  <2>1. CASE d = c /\ j[t] = h[t]
    BY <1>2, <2>1 DEF BufferStep, AtOnce
  <2>2. CASE ~(d = c /\ j[t] = h[t])
    <3>1. ByOne(t, c, d, h, j, MaxMsgs)
      BY <1>2, <1>3, <2>2 DEF InHands, ByOne
    <3> QED
      BY <3>1 DEF BufferStep
  <2> QED
    BY <2>1, <2>2
<1> QED
  BY <1>4 DEF Turns

(* A thread with a block in its hands.                                     *)
LEMMA MqSeat ==
  ASSUME ControlInv, MqInv, NEW t \in Thread, pc[t] \in WithBlock
  PROVE  /\ ControlTypeOK /\ then[t] = "user" /\ arg[t] \in MqQueues /\ arg[t] \in Queue
         /\ blk[t] \in Block /\ blk[t] \in 0 .. MaxMsgs /\ Holds(t, arg[t])
         /\ mq \in [MqQueues -> Mq] /\ mq[arg[t]] \in Mq
         /\ \E s, f \in Seq(Block) :
              /\ QueueInv(arg[t], s, f) /\ Shape(mq[arg[t]], s, f)
              /\ Owned(arg[t], Out(s, f)) /\ blk[t] \in Out(s, f)
              /\ Filled(pc[t], hand[t], blk[t], mq[arg[t]])
<1>1. /\ ControlTypeOK /\ then[t] = "user" /\ arg[t] \in MqQueues /\ blk[t] \in Block
  BY SeatFacts DEF WithBlock, MqLocation
<1>2. Holds(t, arg[t]) /\ blk[t] \in 0 .. MaxMsgs /\ arg[t] \in Queue
  BY <1>1, KindFacts DEF Holds, Null, Block
<1>3. PICK s, f \in Seq(Block) : QueueInv(arg[t], s, f)
  BY <1>1 DEF MqInv
<1>4. /\ Shape(mq[arg[t]], s, f) /\ Owned(arg[t], Out(s, f))
      /\ Filled(pc[t], hand[t], blk[t], mq[arg[t]])
  BY <1>3 DEF QueueInv
<1>5. blk[t] \in Out(s, f)
  BY <1>2, <1>4 DEF Owned
<1> QED
  BY <1>1, <1>2, <1>3, <1>4, <1>5 DEF MqInv

LEMMA MqSendDoes ==
  ASSUME ControlInv, MqInv, NEW t \in Thread, NEW q \in MqQueues, MqSend(t, q)
  PROVE  MqDoes(t, q)
<1>1. PICK s, f \in Seq(Block) : QueueInv(q, s, f)
  BY DEF MqInv
<1> DEFINE b == mq[q].free
           p == TakeFree(mq[q])
           w == Tail(f)
<1>2. /\ pc[t] = "user" /\ b # Null /\ blk' = [blk EXCEPT ![t] = b]
      /\ mq' = [mq EXCEPT ![q] = p] /\ arg' = [arg EXCEPT ![t] = q] /\ then' = then
      /\ mq \in [MqQueues -> Mq]
  BY DEF MqSend, Call, At, InHand, About, MqInv
<1>3. PICK v \in Message : hand' = [hand EXCEPT ![t] = v]
  BY DEF MqSend, Hold
<1>4. PICK l \in {"copy", "copyfront"} : pc' = [pc EXCEPT ![t] = l]
  BY DEF MqSend, Goto
<1>5. /\ ControlTypeOK /\ then[t] = "user" /\ hand[t] = None /\ blk[t] = Null
      /\ q \in Queue /\ None \notin Message
  BY <1>2, SeatFacts, KindFacts, RetryAssumption DEF Hands, WithBlock
<1>6. Shape(mq[q], s, f) /\ Owned(q, Out(s, f))
  BY <1>1 DEF QueueInv
<1>7. /\ Shape(p, s, w) /\ b \in Block /\ b \in ToSet(f) /\ b \notin ToSet(s)
      /\ w \in Seq(Block) /\ ToSet(w) = ToSet(f) \ {b}
      /\ p.data = mq[q].data /\ p.next = mq[q].next
  BY <1>2, <1>6, ShapeTake
<1> HIDE DEF b, p, w
<1>8. b \in 0 .. MaxMsgs /\ b # Null
  BY <1>7 DEF Block, Null
<1>9. OneMoves(t) /\ Sits(t) /\ hand'[t] = v /\ arg'[t] = q /\ blk'[t] = b
  <2>1. Sets(t, l, "user", q, v, b)
    BY <1>2, <1>3, <1>4, <1>5, Unset DEF Sets
  <2>2. Seated(l, "user", q, v, b)
    BY <1>7 DEF Seated, Hands, WithBlock, MailLocation, MqLocation, DqLocation
  <2>3. l \in Location /\ "user" \in Location
    BY DEF Location, MqLocation
  <2> QED
    BY <1>5, <1>8, <2>1, <2>2, <2>3, SetsSits
<1>10. mq'[q] = p /\ mq' = [mq EXCEPT ![q] = mq'[q]] /\ pc'[t] = l
  BY <1>2, <1>4, <1>5 DEF ControlTypeOK
<1>11. Owned(q, Out(s, w))'
  <2>1. ~Holds(t, q) /\ Holds(t, q)' /\ blk'[t] \notin Out(s, f)
    BY <1>5, <1>7, <1>8, <1>9 DEF Holds, Out
  <2>2. Out(s, w) = Out(s, f) \cup {blk'[t]}
    BY <1>7, <1>9 DEF Out
  <2>3. \A u \in Thread \ {t} : arg'[u] = arg[u] /\ blk'[u] = blk[u]
    BY <1>9 DEF OneMoves
  <2> QED
    BY <1>6, <2>1, <2>2, <2>3, OwnedMore
<1>12. Filled(pc'[t], hand'[t], blk'[t], mq'[q])
  BY <1>10 DEF Filled
<1>13. Turns(t, q, s, f, s, w)
  <2>1. Shape(mq'[q], s, w)
    BY <1>7, <1>10
  <2>2. \A x \in Out(s, f) : (Holds(t, q) => x # blk[t]) =>
          mq'[q].next[x] = mq[q].next[x] /\ mq'[q].data[x] = mq[q].data[x]
    BY <1>7, <1>10
  <2> QED
    BY <1>1, <1>2, <1>7, <1>9, <1>10, <1>11, <1>12, <2>1, <2>2 DEF Turns
<1>14. MqHandOf(q)[t] = None /\ MqHandOf(q)'[t] = v
  BY <1>2, <1>5, <1>9, <1>10 DEF MqHandOf
<1>15. InHands(View(mq[q].data, s), View(mq'[q].data, s),
               MqHandOf(q)[t], MqHandOf(q)'[t], MaxMsgs)
  BY <1>7, <1>10, <1>14 DEF InHands
<1>16. hand[t] = None /\ pc[t] \notin WithBlock
  BY <1>2, <1>5 DEF WithBlock
<1> QED
  BY <1>9, <1>13, <1>15, <1>16, MqTurn
LEMMA MqCopyDoes ==
  ASSUME ControlInv, MqInv, NEW t \in Thread, MqCopy(t),
         NEW q, q = arg[t], NEW b, b = blk[t]
  PROVE  MqDoes(t, q)
<1> DEFINE m == mq[q]
           v == hand[t]
<1>1. pc[t] \in {"copy", "copyfront"} /\ UNCHANGED <<then, arg, hand, blk>>
  BY DEF MqCopy, At, ipcVars, retryVars
<1>2. PICK l \in {"link", "linkfront"} :
        /\ pc' = [pc EXCEPT ![t] = l]
        /\ l = "link" => mq' = [mq EXCEPT ![q] = [m EXCEPT !.next[b] = Null, !.data[b] = v]]
        /\ l # "link" => mq' = [mq EXCEPT ![q] = [m EXCEPT !.data[b] = v]]
  <2>1. CASE pc[t] = "copy"
    <3>1. pc' = [pc EXCEPT ![t] = "link"]
          /\ mq' = [mq EXCEPT ![q].next[b] = Null, ![q].data[b] = v]
      BY <2>1 DEF MqCopy, At, Goto
    <3>2. mq' = [mq EXCEPT ![q] = [m EXCEPT !.next[b] = Null, !.data[b] = v]]
      BY <3>1
    <3> HIDE DEF m, v
    <3> QED
      BY <3>1, <3>2
  <2>2. CASE pc[t] = "copyfront"
    <3>1. pc' = [pc EXCEPT ![t] = "linkfront"] /\ mq' = [mq EXCEPT ![q].data[b] = v]
      BY <2>2 DEF MqCopy, At, Goto
    <3> QED
      BY <3>1
  <2> QED
    BY <1>1, <2>1, <2>2
<1>3. /\ ControlTypeOK /\ then[t] = "user" /\ q \in MqQueues /\ q \in Queue
      /\ b \in Block /\ b \in 0 .. MaxMsgs /\ Holds(t, q)
      /\ mq \in [MqQueues -> Mq] /\ m \in Mq
  BY <1>1, MqSeat DEF WithBlock
<1>4. PICK s, f \in Seq(Block) :
        QueueInv(q, s, f) /\ Shape(m, s, f) /\ Owned(q, Out(s, f)) /\ b \in Out(s, f)
  BY <1>1, MqSeat DEF WithBlock
<1>5. v \in Message
  BY <1>1, SeatFacts DEF Hands
<1> DEFINE p == mq'[q]
<1> HIDE DEF m, v
<1>6. /\ p \in Mq /\ mq' = [mq EXCEPT ![q] = p]
      /\ p.head = m.head /\ p.tail = m.tail /\ p.free = m.free /\ p.entry = m.entry
      /\ \A x \in Block : x # b => p.next[x] = m.next[x] /\ p.data[x] = m.data[x]
      /\ p.data[b] = v /\ (l = "link" => p.next[b] = Null)
  <2>1. Null \in 0 .. MaxMsgs
    BY <1>3, MqFacts
  <2>2. CASE l = "link"
    <3>1. p = [m EXCEPT !.next[b] = Null, !.data[b] = v]
      BY <1>2, <1>3, <2>2
    <3> HIDE DEF p
    <3>2. p \in Mq /\ mq' = [mq EXCEPT ![q] = p]
      BY <1>2, <1>3, <1>5, <2>1, <2>2, <3>1 DEF Mq
    <3> QED
      BY <1>3, <1>5, <2>1, <3>1, <3>2 DEF Mq
  <2>3. CASE l # "link"
    <3>1. p = [m EXCEPT !.data[b] = v]
      BY <1>2, <1>3, <2>3
    <3> HIDE DEF p
    <3>2. p \in Mq /\ mq' = [mq EXCEPT ![q] = p]
      BY <1>2, <1>3, <1>5, <2>3, <3>1 DEF Mq
    <3> QED
      BY <1>3, <1>5, <2>3, <3>1, <3>2 DEF Mq
  <2> QED
    BY <2>2, <2>3
<1>7. Shape(p, s, f) /\ View(p.data, s) = View(m.data, s)
  BY <1>4, <1>6, ShapeWrite
<1>8. OneMoves(t) /\ Sits(t) /\ hand'[t] = v /\ arg'[t] = q /\ blk'[t] = b /\ pc'[t] = l
  <2>1. Sets(t, l, "user", q, v, b)
    BY <1>1, <1>2, <1>3, Unset DEF Sets, v
  <2>2. Seated(l, "user", q, v, b)
    BY <1>3, <1>5 DEF Seated, Hands, WithBlock, MailLocation, MqLocation, DqLocation
  <2>3. l \in Location /\ "user" \in Location
    BY DEF Location, MqLocation
  <2>4. pc'[t] = l
    BY <1>2, <1>3 DEF ControlTypeOK
  <2> QED
    BY <1>3, <1>5, <2>1, <2>2, <2>3, <2>4, SetsSits
<1>9. Owned(q, Out(s, f))'
  <2>1. \A u \in Thread : (Holds(u, q)' <=> Holds(u, q)) /\ blk'[u] = blk[u]
    BY <1>1 DEF Holds
  <2> QED
    BY <1>4, <2>1, OwnedSame
<1>10. Filled(pc'[t], hand'[t], blk'[t], mq'[q])
  BY <1>6, <1>8 DEF Filled
<1>11. Turns(t, q, s, f, s, f)
  <2>1. \A x \in Out(s, f) : (Holds(t, q) => x # blk[t]) =>
          mq'[q].next[x] = mq[q].next[x] /\ mq'[q].data[x] = mq[q].data[x]
    BY <1>3, <1>6 DEF Out, m
  <2> QED
    BY <1>3, <1>4, <1>6, <1>7, <1>8, <1>9, <1>10, <2>1 DEF Turns
<1>12. MqHandOf(q)[t] = v /\ MqHandOf(q)'[t] = v
  BY <1>1, <1>8 DEF MqHandOf, v
<1>13. InHands(View(mq[q].data, s), View(mq'[q].data, s),
               MqHandOf(q)[t], MqHandOf(q)'[t], MaxMsgs)
  BY <1>7, <1>12 DEF InHands, m
<1>14. arg[t] = q
  OBVIOUS
<1> QED
  BY <1>3, <1>8, <1>11, <1>13, <1>14, MqTurn

(* Either way to link a block enters its message.                          *)
Links(m, s, f, b, p) ==
  /\ Shape(m, s, f) /\ b \in Out(s, f) /\ m.data[b] \in Message
  /\ (p = LinkTail(m, b) /\ m.next[b] = Null) \/ p = LinkHead(m, b)

LEMMA LinkFacts ==
  ASSUME NEW m, NEW s, NEW f, NEW b, NEW p, Links(m, s, f, b, p)
  PROVE  \E w \in Seq(Block) :
           /\ Shape(p, w, f) /\ Out(w, f) = Out(s, f) \ {b} /\ p.data = m.data
           /\ Entered(View(m.data, s), View(m.data, w), m.data[b], MaxMsgs)
           /\ \A x \in Out(s, f) : x # b => p.next[x] = m.next[x]
<1>0. /\ Shape(m, s, f) /\ b \in Out(s, f) /\ m.data[b] \in Message
      /\ (p = LinkTail(m, b) /\ m.next[b] = Null) \/ p = LinkHead(m, b)
  BY DEF Links
<1>1. CASE p = LinkTail(m, b) /\ m.next[b] = Null
  <2> DEFINE w == Append(s, b)
  <2>1. /\ Shape(p, w, f) /\ w \in Seq(Block) /\ ToSet(w) = ToSet(s) \cup {b}
        /\ p.data = m.data
        /\ View(m.data, w) = Append(View(m.data, s), m.data[b])
        /\ Len(View(m.data, s)) < MaxMsgs
        /\ \A x \in Out(s, f) : p.next[x] = m.next[x]
    BY <1>0, <1>1, ShapeLinkTail
  <2> HIDE DEF w
  <2>2. Out(w, f) = Out(s, f) \ {b}
    BY <2>1 DEF Out
  <2>3. Entered(View(m.data, s), View(m.data, w), m.data[b], MaxMsgs)
    BY <2>1 DEF Entered
  <2> QED
    BY <2>1, <2>2, <2>3
<1>2. CASE p = LinkHead(m, b)
  <2> DEFINE w == <<b>> \o s
  <2>1. /\ Shape(p, w, f) /\ w \in Seq(Block) /\ ToSet(w) = ToSet(s) \cup {b}
        /\ p.data = m.data
        /\ View(m.data, w) = <<m.data[b]>> \o View(m.data, s)
        /\ Len(View(m.data, s)) < MaxMsgs
        /\ \A x \in Out(s, f) : x # b => p.next[x] = m.next[x]
    <3>1. Shape(m, s, f) /\ b \in Out(s, f) /\ m.data[b] \in Message
      BY <1>0
    <3>2. /\ Shape(LinkHead(m, b), w, f)
          /\ w \in Seq(Block) /\ ToSet(w) = ToSet(s) \cup {b}
          /\ LinkHead(m, b).data = m.data
          /\ View(m.data, w) = <<m.data[b]>> \o View(m.data, s)
          /\ Len(View(m.data, s)) < MaxMsgs
          /\ \A x \in Out(s, f) : x # b => LinkHead(m, b).next[x] = m.next[x]
      BY <3>1, ShapeLinkHead
    <3> HIDE DEF w
    <3> QED
      BY <1>2, <3>2
  <2> HIDE DEF w
  <2>2. Out(w, f) = Out(s, f) \ {b}
    BY <2>1 DEF Out
  <2>3. Entered(View(m.data, s), View(m.data, w), m.data[b], MaxMsgs)
    BY <2>1 DEF Entered
  <2> QED
    BY <2>1, <2>2, <2>3
<1> QED
  BY <1>0, <1>1, <1>2

LEMMA MqLinkDoes ==
  ASSUME ControlInv, MqInv, NEW t \in Thread, MqLink(t),
         NEW q, q = arg[t], NEW b, b = blk[t]
  PROVE  MqDoes(t, q)
<1> DEFINE m == mq[q]
           v == hand[t]
           p == mq'[q]
<1>1. /\ pc[t] \in {"link", "linkfront"} /\ arg' = arg
      /\ hand' = [hand EXCEPT ![t] = None] /\ blk' = [blk EXCEPT ![t] = Null]
      /\ ResumeFirst(t, q, "user")
      /\ \/ pc[t] = "link" /\ mq' = [mq EXCEPT ![q] = LinkTail(m, b)]
         \/ pc[t] = "linkfront" /\ mq' = [mq EXCEPT ![q] = LinkHead(m, b)]
  BY DEF MqLink, At, ipcVars, InHand, Hold
<1>2. /\ ControlTypeOK /\ then[t] = "user" /\ q \in MqQueues /\ q \in Queue
      /\ b \in Block /\ Holds(t, q) /\ mq \in [MqQueues -> Mq]
  BY <1>1, MqSeat DEF WithBlock
<1>3. PICK s, f \in Seq(Block) :
        /\ QueueInv(q, s, f) /\ Shape(m, s, f) /\ Owned(q, Out(s, f)) /\ b \in Out(s, f)
        /\ Filled(pc[t], v, b, m)
  BY <1>1, MqSeat DEF WithBlock
<1>4. v \in Message /\ v # None
  BY <1>1, SeatFacts, RetryAssumption DEF Hands
<1> HIDE DEF m, v
<1>5. m.data[b] = v /\ (pc[t] = "link" => m.next[b] = Null)
  BY <1>1, <1>3 DEF Filled
<1>6. (p = LinkTail(m, b) /\ m.next[b] = Null) \/ p = LinkHead(m, b)
  BY <1>1, <1>2, <1>5
<1>7. mq' = [mq EXCEPT ![q] = p]
  BY <1>1, <1>2
<1> HIDE DEF p
<1>8. PICK w \in Seq(Block) :
        /\ Shape(p, w, f) /\ Out(w, f) = Out(s, f) \ {b} /\ p.data = m.data
        /\ Entered(View(m.data, s), View(m.data, w), v, MaxMsgs)
        /\ \A x \in Out(s, f) : x # b => p.next[x] = m.next[x]
  <2>1. Links(m, s, f, b, p)
    BY <1>3, <1>4, <1>5, <1>6 DEF Links
  <2>2. \E w \in Seq(Block) :
          /\ Shape(p, w, f) /\ Out(w, f) = Out(s, f) \ {b} /\ p.data = m.data
          /\ Entered(View(m.data, s), View(m.data, w), m.data[b], MaxMsgs)
          /\ \A x \in Out(s, f) : x # b => p.next[x] = m.next[x]
    BY <2>1, LinkFacts
  <2> QED
    BY <1>5, <2>2
<1>9. /\ OneMoves(t) /\ Sits(t) /\ hand'[t] = None /\ arg'[t] = q /\ blk'[t] = Null
      /\ pc'[t] \in {"user", "sched"}
  <2>1. PICK l \in {"user", "sched"} : Sets(t, l, "user", q, None, Null)
    <3>1. \/ pc' = [pc EXCEPT ![t] = "user"] /\ then' = [then EXCEPT ![t] = "user"]
          \/ pc' = [pc EXCEPT ![t] = "sched"] /\ then' = [then EXCEPT ![t] = "user"]
      BY <1>1, ResumeSets
    <3> QED
      BY <1>1, <1>2, <3>1, Unset DEF Sets
  <2>2. Seated(l, "user", q, None, Null)
    BY DEF Seated, Hands, WithBlock, MailLocation, MqLocation, DqLocation
  <2>3. l \in Location /\ "user" \in Location /\ Null \in 0 .. MaxMsgs
    BY QueueAssumption DEF Location, Null
  <2>4. pc'[t] = l
    BY <1>2, <2>1 DEF ControlTypeOK, Sets
  <2>5. /\ OneMoves(t) /\ Sits(t) /\ hand'[t] = None /\ arg'[t] = q /\ blk'[t] = Null
    BY <1>2, <2>1, <2>2, <2>3, SetsSits
  <2> QED
    BY <2>4, <2>5
<1>10. Owned(q, Out(w, f))'
  <2>1. ~Holds(t, q)'
    BY <1>9 DEF Holds
  <2>2. Out(w, f) = Out(s, f) \ {blk[t]}
    BY <1>8
  <2>3. \A u \in Thread \ {t} : arg'[u] = arg[u] /\ blk'[u] = blk[u]
    BY <1>9 DEF OneMoves
  <2> QED
    BY <1>2, <1>3, <2>1, <2>2, <2>3, OwnedLess
<1>11. Filled(pc'[t], hand'[t], blk'[t], mq'[q])
  BY <1>9 DEF Filled
<1>12. Turns(t, q, s, f, w, f)
  <2>1. \A x \in Out(s, f) : (Holds(t, q) => x # blk[t]) =>
          mq'[q].next[x] = mq[q].next[x] /\ mq'[q].data[x] = mq[q].data[x]
    BY <1>2, <1>8 DEF m, p
  <2>2. mq' = [mq EXCEPT ![q] = mq'[q]] /\ Shape(mq'[q], w, f)
    BY <1>7, <1>8 DEF p
  <2> QED
    BY <1>2, <1>3, <1>8, <1>9, <1>10, <1>11, <2>1, <2>2 DEF Turns
<1>13. MqHandOf(q)[t] = v /\ MqHandOf(q)'[t] = None
  BY <1>1, <1>9 DEF MqHandOf, v
<1>14. InHands(View(mq[q].data, s), View(mq'[q].data, w),
               MqHandOf(q)[t], MqHandOf(q)'[t], MaxMsgs)
  BY <1>4, <1>8, <1>13 DEF InHands, m, p
<1>15. arg[t] = q
  OBVIOUS
<1> QED
  BY <1>2, <1>9, <1>12, <1>14, <1>15, MqTurn
(* A receiver that waits or gives up.                                      *)
LEMMA MqStays ==
  ASSUME ControlInv, MqInv, NEW t \in Thread, NEW q \in MqQueues, mq' = mq,
         pc[t] \in {"user", "dequeue"},
         NEW l \in {"user", "sched"}, NEW h \in {"user", "dequeue"},
         Sets(t, l, h, q, None, Null), l = "user" => h = "user"
  PROVE  MqDoes(t, q)
<1>1. /\ ControlTypeOK /\ hand[t] = None /\ blk[t] = Null /\ pc[t] \notin WithBlock
      /\ q \in Queue
  BY SeatFacts, KindFacts DEF Hands, WithBlock
<1>2. PICK s, f \in Seq(Block) : QueueInv(q, s, f)
  BY DEF MqInv
<1>3. Shape(mq[q], s, f) /\ Owned(q, Out(s, f)) /\ mq \in [MqQueues -> Mq]
  BY <1>2 DEF QueueInv, MqInv
<1>4. OneMoves(t) /\ Sits(t) /\ hand'[t] = None /\ arg'[t] = q /\ blk'[t] = Null /\ pc'[t] = l
  <2>1. Seated(l, h, q, None, Null)
    BY DEF Seated, Hands, WithBlock, MailLocation, MqLocation, DqLocation
  <2>2. l \in Location /\ h \in Location /\ Null \in 0 .. MaxMsgs
    BY QueueAssumption DEF Location, MqLocation, Null
  <2>3. pc'[t] = l
    BY <1>1 DEF ControlTypeOK, Sets
  <2>4. ControlTypeOK /\ q \in Queue /\ None \in Message \cup {None}
    BY <1>1
  <2>5. OneMoves(t) /\ Sits(t) /\ hand'[t] = None /\ arg'[t] = q /\ blk'[t] = Null
    BY <2>1, <2>2, <2>4, SetsSits
  <2> QED
    BY <2>3, <2>5
<1>5. Owned(q, Out(s, f))'
  <2>1. \A u \in Thread \ {t} : arg'[u] = arg[u] /\ blk'[u] = blk[u]
    BY <1>4 DEF OneMoves
  <2>2. ~Holds(t, q) /\ ~Holds(t, q)'
    BY <1>1, <1>4 DEF Holds
  <2>3. \A u \in Thread : (Holds(u, q)' <=> Holds(u, q)) /\ (Holds(u, q) => blk'[u] = blk[u])
    BY <2>1, <2>2 DEF Holds
  <2> QED
    BY <1>3, <2>3, OwnedSame
<1>6. Filled(pc'[t], hand'[t], blk'[t], mq'[q])
  BY <1>4 DEF Filled
<1>7. Turns(t, q, s, f, s, f)
  <2>1. mq' = [mq EXCEPT ![q] = mq'[q]]
    BY <1>3
  <2>2. Shape(mq'[q], s, f)
    BY <1>3
  <2> QED
    BY <1>2, <1>3, <1>4, <1>5, <1>6, <2>1, <2>2 DEF Turns
<1>8. MqHandOf(q)[t] = None /\ MqHandOf(q)'[t] = None
  BY <1>1, <1>4 DEF MqHandOf, WithBlock
<1>9. InHands(View(mq[q].data, s), View(mq'[q].data, s),
              MqHandOf(q)[t], MqHandOf(q)'[t], MaxMsgs)
  BY <1>8 DEF InHands
<1> QED
  BY <1>1, <1>4, <1>7, <1>9, MqTurn

LEMMA MqTakeDoes ==
  ASSUME ControlInv, MqInv, NEW t \in Thread, NEW q \in MqQueues,
         pc[t] \in {"user", "dequeue"}, mq[q].entry # 0,
         blk' = [blk EXCEPT ![t] = mq[q].head], mq' = [mq EXCEPT ![q] = UnlinkHead(@)],
         pc' = [pc EXCEPT ![t] = "copyout"], UNCHANGED <<then, hand>>,
         arg' = [arg EXCEPT ![t] = q]
  PROVE  MqDoes(t, q)
<1> DEFINE m == mq[q]
           b == m.head
           p == UnlinkHead(m)
<1>1. /\ ControlTypeOK /\ hand[t] = None /\ blk[t] = Null /\ pc[t] \notin WithBlock
      /\ then[t] = "user" /\ q \in Queue
  BY SeatFacts, KindFacts DEF Hands, WithBlock
<1>2. PICK s, f \in Seq(Block) : QueueInv(q, s, f)
  BY DEF MqInv
<1>3. Shape(m, s, f) /\ Owned(q, Out(s, f)) /\ mq \in [MqQueues -> Mq]
  BY <1>2 DEF QueueInv, MqInv
<1> DEFINE w == Tail(s)
<1>4. b # Null
  BY <1>3, ShapeEmpty
<1>5. /\ Shape(p, w, f) /\ b \in Block /\ b \in ToSet(s) /\ b \in Out(w, f)
      /\ w \in Seq(Block) /\ ToSet(w) = ToSet(s) \ {b}
      /\ p.data = m.data /\ p.next = m.next /\ m.data[b] \in Message
      /\ View(m.data, s) # << >> /\ Head(View(m.data, s)) = m.data[b]
      /\ View(m.data, w) = Tail(View(m.data, s))
  BY <1>3, <1>4, ShapeUnlink
<1>6. mq'[q] = p /\ mq' = [mq EXCEPT ![q] = mq'[q]]
  BY <1>3
<1>7. blk' = [blk EXCEPT ![t] = b]
  OBVIOUS
<1> HIDE DEF p, w, m, b
<1>8. /\ OneMoves(t) /\ Sits(t) /\ hand'[t] = None /\ arg'[t] = q /\ blk'[t] = b
      /\ pc'[t] = "copyout"
  <2>1. Sets(t, "copyout", "user", q, None, b)
    BY <1>1, <1>7, Unset DEF Sets
  <2>2. Seated("copyout", "user", q, None, b)
    BY <1>5 DEF Seated, Hands, WithBlock, MailLocation, MqLocation, DqLocation
  <2>3. "copyout" \in Location /\ "user" \in Location /\ b \in 0 .. MaxMsgs
    BY <1>5 DEF Location, MqLocation, Block
  <2>4. pc'[t] = "copyout"
    BY <1>1 DEF ControlTypeOK
  <2>5. OneMoves(t) /\ Sits(t) /\ hand'[t] = None /\ arg'[t] = q /\ blk'[t] = b
    <3>1. /\ ControlTypeOK /\ "copyout" \in Location /\ "user" \in Location /\ q \in Queue
          /\ None \in Message \cup {None} /\ b \in 0 .. MaxMsgs
      BY <1>1, <2>3
    <3> QED
      BY <2>1, <2>2, <3>1, SetsSits
  <2> QED
    BY <2>4, <2>5
<1>9. Owned(q, Out(w, f))'
  <2>1. ~Holds(t, q) /\ Holds(t, q)' /\ blk'[t] \notin Out(s, f)
    BY <1>1, <1>4, <1>5, <1>8 DEF Holds, Out
  <2>2. Out(w, f) = Out(s, f) \cup {blk'[t]}
    BY <1>5, <1>8 DEF Out
  <2>3. \A u \in Thread \ {t} : arg'[u] = arg[u] /\ blk'[u] = blk[u]
    BY <1>8 DEF OneMoves
  <2> QED
    BY <1>3, <2>1, <2>2, <2>3, OwnedMore
<1>10. Filled(pc'[t], hand'[t], blk'[t], mq'[q])
  BY <1>5, <1>6, <1>8 DEF Filled
<1>11. Turns(t, q, s, f, w, f)
  <2>1. \A x \in Out(s, f) : (Holds(t, q) => x # blk[t]) =>
          mq'[q].next[x] = mq[q].next[x] /\ mq'[q].data[x] = mq[q].data[x]
    BY <1>5, <1>6 DEF m
  <2>2. Shape(mq'[q], w, f)
    BY <1>5, <1>6
  <2> QED
    BY <1>2, <1>3, <1>5, <1>6, <1>8, <1>9, <1>10, <2>1, <2>2 DEF Turns
<1>12. MqHandOf(q)[t] = None /\ MqHandOf(q)'[t] = m.data[b]
  BY <1>1, <1>5, <1>6, <1>8 DEF MqHandOf, WithBlock
<1>13. InHands(View(mq[q].data, s), View(mq'[q].data, w),
               MqHandOf(q)[t], MqHandOf(q)'[t], MaxMsgs)
  BY <1>5, <1>6, <1>12 DEF InHands, m
<1> QED
  BY <1>1, <1>8, <1>11, <1>13, MqTurn

LEMMA MqRecvDoes ==
  ASSUME ControlInv, MqInv, NEW t \in Thread, NEW q \in MqQueues, NEW n,
         MqRecvLoop(t, q, n), pc[t] \in {"user", "dequeue"},
         arg' = [arg EXCEPT ![t] = q]
  PROVE  MqDoes(t, q)
<1>1. ControlTypeOK /\ hand[t] = None /\ blk[t] = Null /\ then[t] = "user"
  BY SeatFacts DEF Hands, WithBlock
<1>2. CASE /\ mq[q].entry # 0 /\ InHand(t, mq[q].head)
           /\ mq' = [mq EXCEPT ![q] = UnlinkHead(@)]
           /\ Goto(t, "copyout") /\ UNCHANGED <<then, hand>>
  BY <1>2, MqTakeDoes DEF InHand, Goto
<1>3. CASE WaitAgain(t, q, n, "dequeue") /\ UNCHANGED <<mqVars, hand>>
  <2>1. Sets(t, "sched", "dequeue", q, None, Null) /\ mq' = mq
    BY <1>1, <1>3, Unset DEF WaitAgain, WaitFor, WaitIn, Sets, Goto, Then, mqVars
  <2> QED
    BY <2>1, MqStays
<1>4. CASE GiveUp(t) /\ UNCHANGED mqVars
  <2>1. Sets(t, "user", "user", q, None, Null) /\ mq' = mq
    BY <1>1, <1>4, Unset DEF GiveUp, Sets, Hold, Goto, mqVars
  <2> QED
    BY <2>1, MqStays
<1> QED
  BY <1>2, <1>3, <1>4 DEF MqRecvLoop
LEMMA MqCopyOutDoes ==
  ASSUME ControlInv, MqInv, NEW t \in Thread, MqCopyOut(t),
         NEW q, q = arg[t], NEW b, b = blk[t]
  PROVE  MqDoes(t, q)
<1> DEFINE m == mq[q]
           v == m.data[b]
<1>1. /\ pc[t] = "copyout" /\ UNCHANGED <<then, arg, mq, blk>>
      /\ hand' = [hand EXCEPT ![t] = v] /\ pc' = [pc EXCEPT ![t] = "giveback"]
  BY DEF MqCopyOut, At, ipcVars, mqVars, Hold, Goto
<1>2. /\ ControlTypeOK /\ then[t] = "user" /\ q \in MqQueues /\ q \in Queue
      /\ b \in Block /\ b \in 0 .. MaxMsgs /\ mq \in [MqQueues -> Mq]
  BY <1>1, MqSeat DEF WithBlock
<1>3. PICK s, f \in Seq(Block) :
        /\ QueueInv(q, s, f) /\ Shape(m, s, f) /\ Owned(q, Out(s, f))
        /\ Filled(pc[t], hand[t], b, m)
  BY <1>1, MqSeat DEF WithBlock
<1>4. v \in Message
  BY <1>1, <1>3 DEF Filled
<1> HIDE DEF m, v
<1>5. /\ OneMoves(t) /\ Sits(t) /\ hand'[t] = v /\ arg'[t] = q /\ blk'[t] = b
      /\ pc'[t] = "giveback"
  <2>1. Sets(t, "giveback", "user", q, v, b)
    BY <1>1, <1>2, Unset DEF Sets
  <2>2. Seated("giveback", "user", q, v, b)
    BY <1>2, <1>4 DEF Seated, Hands, WithBlock, MailLocation, MqLocation, DqLocation
  <2>3. "giveback" \in Location /\ "user" \in Location
    BY DEF Location, MqLocation
  <2>4. pc'[t] = "giveback"
    BY <1>1, <1>2 DEF ControlTypeOK
  <2> QED
    BY <1>2, <1>4, <2>1, <2>2, <2>3, <2>4, SetsSits
<1>6. Owned(q, Out(s, f))'
  <2>1. \A u \in Thread : (Holds(u, q)' <=> Holds(u, q)) /\ blk'[u] = blk[u]
    BY <1>1 DEF Holds
  <2> QED
    BY <1>3, <2>1, OwnedSame
<1>7. Filled(pc'[t], hand'[t], blk'[t], mq'[q])
  BY <1>5 DEF Filled
<1>8. Turns(t, q, s, f, s, f)
  <2>1. mq' = [mq EXCEPT ![q] = mq'[q]]
    BY <1>1, <1>2
  <2>2. Shape(mq'[q], s, f)
    BY <1>1, <1>3 DEF m
  <2> QED
    BY <1>1, <1>2, <1>3, <1>5, <1>6, <1>7, <2>1, <2>2 DEF Turns
<1>9. MqHandOf(q)[t] = v /\ MqHandOf(q)'[t] = v
  BY <1>1, <1>5 DEF MqHandOf, v, m
<1>10. InHands(View(mq[q].data, s), View(mq'[q].data, s),
               MqHandOf(q)[t], MqHandOf(q)'[t], MaxMsgs)
  BY <1>1, <1>9 DEF InHands
<1>11. arg[t] = q
  OBVIOUS
<1> QED
  BY <1>2, <1>5, <1>8, <1>10, <1>11, MqTurn

LEMMA MqGiveBackDoes ==
  ASSUME ControlInv, MqInv, NEW t \in Thread, MqGiveBack(t),
         NEW q, q = arg[t], NEW b, b = blk[t]
  PROVE  MqDoes(t, q)
<1> DEFINE m == mq[q]
           p == GiveBack(m, b)
<1>1. /\ pc[t] = "giveback" /\ UNCHANGED <<then, arg>>
      /\ hand' = [hand EXCEPT ![t] = None] /\ pc' = [pc EXCEPT ![t] = "user"]
      /\ blk' = [blk EXCEPT ![t] = Null] /\ mq' = [mq EXCEPT ![q] = p]
  BY DEF MqGiveBack, At, ipcVars, InHand, Hold, Goto
<1>2. /\ ControlTypeOK /\ then[t] = "user" /\ q \in MqQueues /\ q \in Queue
      /\ b \in Block /\ Holds(t, q) /\ mq \in [MqQueues -> Mq]
  BY <1>1, MqSeat DEF WithBlock
<1>3. PICK s, f \in Seq(Block) :
        QueueInv(q, s, f) /\ Shape(m, s, f) /\ Owned(q, Out(s, f)) /\ b \in Out(s, f)
  BY <1>1, MqSeat DEF WithBlock
<1>4. hand[t] \in Message /\ hand[t] # None
  BY <1>1, SeatFacts, RetryAssumption DEF Hands
<1> DEFINE g == <<b>> \o f
<1> HIDE DEF m
<1>5. /\ Shape(p, s, g) /\ g \in Seq(Block) /\ ToSet(g) = ToSet(f) \cup {b}
      /\ View(p.data, s) = View(m.data, s) /\ p.data = m.data
      /\ \A x \in Block : x # b => p.next[x] = m.next[x]
  <2>1. Shape(m, s, f) /\ b \in Out(s, f)
    BY <1>3
  <2> QED
    BY <2>1, ShapeGive
<1>6. mq'[q] = p /\ mq' = [mq EXCEPT ![q] = mq'[q]]
  BY <1>1, <1>2
<1> HIDE DEF m, p, g
<1>7. /\ OneMoves(t) /\ Sits(t) /\ hand'[t] = None /\ arg'[t] = q /\ blk'[t] = Null
      /\ pc'[t] = "user"
  <2>1. Sets(t, "user", "user", q, None, Null)
    BY <1>1, <1>2, Unset DEF Sets
  <2>2. Seated("user", "user", q, None, Null)
    BY DEF Seated, Hands, WithBlock, MailLocation, MqLocation, DqLocation
  <2>3. "user" \in Location /\ Null \in 0 .. MaxMsgs
    BY QueueAssumption DEF Location, Null
  <2>4. pc'[t] = "user"
    BY <1>1, <1>2 DEF ControlTypeOK
  <2> QED
    BY <1>2, <2>1, <2>2, <2>3, <2>4, SetsSits
<1>8. Owned(q, Out(s, g))'
  <2>1. ~Holds(t, q)'
    BY <1>7 DEF Holds
  <2>2. Out(s, g) = Out(s, f) \ {blk[t]}
    BY <1>5 DEF Out
  <2>3. \A u \in Thread \ {t} : arg'[u] = arg[u] /\ blk'[u] = blk[u]
    BY <1>7 DEF OneMoves
  <2> QED
    BY <1>2, <1>3, <2>1, <2>2, <2>3, OwnedLess
<1>9. Filled(pc'[t], hand'[t], blk'[t], mq'[q])
  BY <1>7 DEF Filled
<1>10. Turns(t, q, s, f, s, g)
  <2>1. \A x \in Out(s, f) : (Holds(t, q) => x # blk[t]) =>
          mq'[q].next[x] = mq[q].next[x] /\ mq'[q].data[x] = mq[q].data[x]
    BY <1>2, <1>5, <1>6 DEF Out, m
  <2>2. Shape(mq'[q], s, g)
    BY <1>5, <1>6
  <2> QED
    BY <1>2, <1>3, <1>5, <1>6, <1>7, <1>8, <1>9, <2>1, <2>2 DEF Turns
<1>11. MqHandOf(q)[t] = hand[t] /\ MqHandOf(q)'[t] = None
  BY <1>1, <1>7 DEF MqHandOf
<1>12. InHands(View(mq[q].data, s), View(mq'[q].data, s),
               MqHandOf(q)[t], MqHandOf(q)'[t], MaxMsgs)
  BY <1>4, <1>5, <1>6, <1>11 DEF InHands, m
<1>13. arg[t] = q
  OBVIOUS
<1> QED
  BY <1>2, <1>7, <1>10, <1>12, <1>13, MqTurn

(* The calls of threads that neither reset, delete nor create.             *)
MqCall(t) ==
  \/ \E q \in MqQueues : MqSend(t, q) \/ MqRecv(t, q)
  \/ MqCopy(t) \/ MqLink(t) \/ MqRecvAgain(t) \/ MqCopyOut(t) \/ MqGiveBack(t)

LEMMA MqCallDoes ==
  ASSUME ControlInv, MqInv, NEW t \in Thread, MqCall(t)
  PROVE  \E q \in MqQueues : MqDoes(t, q)
<1>1. ASSUME NEW q \in MqQueues, MqRecv(t, q)
      PROVE  MqDoes(t, q)
  <2>1. PICK n \in Timeouts(q) : MqRecvLoop(t, q, n)
    BY <1>1 DEF MqRecv
  <2>2. pc[t] = "user" /\ arg' = [arg EXCEPT ![t] = q]
    BY <1>1 DEF MqRecv, Call, At, About
  <2> QED
    BY <2>1, <2>2, MqRecvDoes
<1>2. CASE MqRecvAgain(t)
  <2>1. pc[t] = "dequeue" /\ arg' = arg
    BY <1>2 DEF MqRecvAgain, At, ipcVars
  <2>2. /\ arg[t] \in MqQueues /\ arg' = [arg EXCEPT ![t] = arg[t]]
        /\ ControlTypeOK /\ then[t] = "user" /\ blk[t] = Null
    BY <2>1, SeatFacts, Unset DEF MqLocation, WithBlock
  <2>3. CASE GiveUp(t) /\ UNCHANGED mqVars
    <3>1. Sets(t, "user", "user", arg[t], None, Null) /\ mq' = mq
      BY <2>2, <2>3, Unset DEF GiveUp, Sets, Hold, Goto, mqVars
    <3> QED
      BY <2>1, <2>2, <3>1, MqStays
  <2>4. CASE MqRecvLoop(t, arg[t], Remaining(t))
    BY <2>1, <2>2, <2>4, MqRecvDoes
  <2> QED
    BY <1>2, <2>2, <2>3, <2>4 DEF MqRecvAgain
<1>3. ASSUME MqCopy(t) \/ MqLink(t) \/ MqCopyOut(t) \/ MqGiveBack(t)
      PROVE  \E q \in MqQueues : MqDoes(t, q)
  <2>1. pc[t] \in WithBlock
    BY <1>3 DEF MqCopy, MqLink, MqCopyOut, MqGiveBack, At, WithBlock
  <2>2. PICK q \in MqQueues : q = arg[t]
    BY <2>1, SeatFacts DEF WithBlock, MqLocation
  <2>3. PICK b : b = blk[t]
    OBVIOUS
  <2> QED
    BY <1>3, <2>2, <2>3, MqCopyDoes, MqLinkDoes, MqCopyOutDoes, MqGiveBackDoes
<1> QED
  BY <1>1, <1>2, <1>3, MqSendDoes DEF MqCall
-----------------------------------------------------------------------------
(* A reset, a creation and an interrupt's send.                            *)
LEMMA MqResetDoes ==
  ASSUME ControlInv, ControlInv', MqInv, NEW t \in Thread, NEW q \in MqQueues,
         MqReset(t, q), \A u \in Thread : Rests(u, q)
  PROVE  MqAtOnce(q)
<1>1. PICK s, f \in Seq(Block) : QueueInv(q, s, f)
  BY DEF MqInv
<1>2. Shape(mq[q], s, f) /\ mq'[q] = Emptied(mq[q])
  BY <1>1 DEF QueueInv, MqInv, MqReset
<1>3. PICK g \in Seq(Block) : /\ Shape(mq'[q], << >>, g)
                              /\ ToSet(g) = ToSet(s) \cup ToSet(f)
  <2>1. AllFree(mq'[q], ToSet(s) \cup ToSet(f))
    BY <1>2, EmptiedFacts
  <2> QED
    BY <2>1 DEF AllFree
<1>4. \A x \in Out(s, f) : mq'[q].next[x] = mq[q].next[x] /\ mq'[q].data[x] = mq[q].data[x]
  <2>1. HeldAlone(mq[q], mq'[q], Out(s, f))
    BY <1>2, EmptiedFacts
  <2> QED
    BY <2>1 DEF HeldAlone
<1>5. << >> \in Seq(Block) /\ ToSet(<< >>) = {}
  BY EmptySeq DEF ToSet
<1>6. Out(<< >>, g) = Out(s, f)
  BY <1>3, <1>5 DEF Out
<1>7. AtOnce(View(mq[q].data, s), View(mq'[q].data, << >>), MaxMsgs)
  BY <1>5, ViewFacts DEF AtOnce
<1> QED
  BY <1>1, <1>3, <1>4, <1>5, <1>6, <1>7, MqAlters

LEMMA MqCreateDoes ==
  ASSUME ControlInv, ControlInv', MqInv, NEW t \in Thread, NEW q \in MqQueues,
         MqCreate(t, q), \A u \in Thread : Rests(u, q)
  PROVE  MqAtOnce(q)
<1>1. PICK s, f \in Seq(Block) : QueueInv(q, s, f)
  BY DEF MqInv
<1>2. Owned(q, Out(s, f)) /\ mq'[q] = EmptyMq
  BY <1>1 DEF QueueInv, MqInv, MqCreate
<1>3. PICK g \in Seq(Block) : Shape(mq'[q], << >>, g) /\ ToSet(g) = Block
  BY <1>2, EmptyMqFacts
<1>4. Out(s, f) = {}
  <2>1. \A u \in Thread : arg[u] = q => pc[u] \notin WithBlock
    BY DEF MqCreate, Revive, WithBlock, MqLocation
  <2>2. \A u \in Thread : ~Holds(u, q)
    BY <2>1, HoldsSeat DEF Holds
  <2> QED
    BY <1>2, <2>2 DEF Owned
<1>5. << >> \in Seq(Block) /\ ToSet(<< >>) = {}
  BY EmptySeq DEF ToSet
<1>6. Out(<< >>, g) = Out(s, f)
  BY <1>3, <1>4, <1>5 DEF Out
<1>7. AtOnce(View(mq[q].data, s), View(mq'[q].data, << >>), MaxMsgs)
  BY <1>5, ViewFacts DEF AtOnce
<1> QED
  BY <1>1, <1>3, <1>4, <1>5, <1>6, <1>7, MqAlters

LEMMA MqIsrDoes ==
  ASSUME ControlInv, ControlInv', MqInv, NEW q \in MqQueues,
         IsrMqSend(q), \A u \in Thread : Rests(u, q)
  PROVE  MqAtOnce(q) /\ \A n \in MqQueues : n # q => mq'[n] = mq[n]
<1> DEFINE n == mq[q]
           b == n.free
           m == TakeFree(n)
<1>1. PICK s, f \in Seq(Block) : QueueInv(q, s, f)
  BY DEF MqInv
<1>2. Shape(n, s, f) /\ mq \in [MqQueues -> Mq] /\ b # Null
  BY <1>1 DEF QueueInv, MqInv, IsrMqSend
<1> DEFINE g == Tail(f)
<1>3. PICK v \in Message :
        LET p == [m EXCEPT !.next[b] = Null, !.data[b] = v]
        IN  mq' = [mq EXCEPT ![q] = LinkTail(p, b)] \/ mq' = [mq EXCEPT ![q] = LinkHead(p, b)]
  BY DEF IsrMqSend
<1> DEFINE p == [m EXCEPT !.next[b] = Null, !.data[b] = v]
           r == mq'[q]
<1>4. r = LinkTail(p, b) \/ r = LinkHead(p, b)
  BY <1>2, <1>3
<1>5. \A x \in MqQueues : x # q => mq'[x] = mq[x]
  BY <1>2, <1>3
<1>6. /\ Shape(m, s, g) /\ b \in Block /\ b \in ToSet(f) /\ b \notin ToSet(s)
      /\ g \in Seq(Block) /\ ToSet(g) = ToSet(f) \ {b}
      /\ m.data = n.data /\ m.next = n.next
  BY <1>2, ShapeTake
<1>7. p = [m EXCEPT !.next[b] = Null, !.data[b] = v]
  OBVIOUS
<1> HIDE DEF n, b, m, g, p, r
<1>8. m \in Mq /\ Null \in 0 .. MaxMsgs
  BY <1>6, MqFacts DEF Shape
<1>9. /\ p \in Mq /\ p.head = m.head /\ p.tail = m.tail /\ p.free = m.free
      /\ p.entry = m.entry /\ p.next[b] = Null /\ p.data[b] = v
      /\ \A x \in Block : x # b => p.next[x] = m.next[x] /\ p.data[x] = m.data[x]
  BY <1>6, <1>7, <1>8 DEF Mq
<1>10. b \in Out(s, g)
  BY <1>6 DEF Out
<1>11. Shape(p, s, g) /\ View(p.data, s) = View(m.data, s)
  <2>1. Shape(m, s, g) /\ b \in Out(s, g) /\ p \in Mq
    BY <1>6, <1>9, <1>10
  <2>2. /\ p.head = m.head /\ p.tail = m.tail /\ p.free = m.free /\ p.entry = m.entry
        /\ \A x \in Block : x # b => p.next[x] = m.next[x] /\ p.data[x] = m.data[x]
    BY <1>9
  <2> QED
    BY <2>1, <2>2, ShapeWrite
<1>12. PICK w \in Seq(Block) :
         /\ Shape(r, w, g) /\ Out(w, g) = Out(s, g) \ {b} /\ r.data = p.data
         /\ Entered(View(p.data, s), View(p.data, w), p.data[b], MaxMsgs)
         /\ \A x \in Out(s, g) : x # b => r.next[x] = p.next[x]
  <2>1. Links(p, s, g, b, r)
    BY <1>4, <1>9, <1>10, <1>11 DEF Links
  <2> QED
    BY <2>1, LinkFacts
<1>13. Out(w, g) = Out(s, f) /\ Out(s, f) = Out(s, g) \ {b}
  <2>1. Out(s, f) = Out(s, g) \ {b}
    BY <1>6 DEF Out
  <2> QED
    BY <1>12, <2>1
<1>14. \A x \in Out(s, f) : r.next[x] = n.next[x] /\ r.data[x] = n.data[x]
  <2>1. \A x \in Out(s, f) : x \in Block /\ x # b /\ x \in Out(s, g)
    BY <1>13 DEF Out
  <2> QED
    BY <1>6, <1>9, <1>12, <2>1
<1>15. AtOnce(View(n.data, s), View(r.data, w), MaxMsgs)
  BY <1>6, <1>9, <1>11, <1>12 DEF AtOnce
<1>16. MqAtOnce(q)
  <2>1. Shape(mq'[q], w, g) /\ AtOnce(View(mq[q].data, s), View(mq'[q].data, w), MaxMsgs)
        /\ \A x \in Out(s, f) : mq'[q].next[x] = mq[q].next[x] /\ mq'[q].data[x] = mq[q].data[x]
    BY <1>12, <1>14, <1>15 DEF n, r
  <2> QED
    BY <1>1, <1>6, <1>12, <1>13, <2>1, MqAlters
<1> QED
  BY <1>5, <1>16
-----------------------------------------------------------------------------
LEMMA MqChannelStep ==
  ASSUME NEW q \in MqQueues,
         BufferStep(Queued(mq[q]), Queued(mq'[q]), MqHandOf(q), MqHandOf(q)', MaxMsgs)
  PROVE  UNCHANGED MqChannel(q)!vars \/ MqChannel(q)!Next
<1> DEFINE b == Queued(mq[q])
           c == Queued(mq'[q])
           g == [t \in Thread |-> IF arg[t] # q THEN None
                                  ELSE IF pc[t] = "copyout" THEN mq[q].data[blk[t]]
                                  ELSE hand[t]]
           h == [t \in Thread |-> IF arg'[t] # q THEN None
                                  ELSE IF pc'[t] = "copyout" THEN mq'[q].data[blk'[t]]
                                  ELSE hand'[t]]
<1>1. b = Queued(mq[q]) /\ c = Queued(mq'[q])
  OBVIOUS
<1>2. g = MqHandOf(q) /\ h = MqHandOf(q)'
  BY DEF MqHandOf
<1>3. BufferStep(b, c, g, h, MaxMsgs)
  BY <1>1, <1>2
<1>4. MqChannel(q)!vars = <<b, g>> /\ (MqChannel(q)!vars)' = <<c, h>>
  BY DEF MqChannel!vars
<1>5. ASSUME NEW t \in Thread, ByOne(t, b, c, g, h, MaxMsgs)
      PROVE  MqChannel(q)!Next
  <2>1. \/ MqChannel(q)!Offer(t) \/ MqChannel(q)!Put(t)
        \/ MqChannel(q)!Take(t) \/ MqChannel(q)!Return(t)
    <3> HIDE DEF b, c, g, h
    <3>1. MqChannel(q)!Offer(t) <=> /\ g[t] = None /\ c = b
                                    /\ \E v \in Message : h = [g EXCEPT ![t] = v]
      BY DEF MqChannel!Offer, MqChannel!Hold, b, c, g, h
    <3>2. MqChannel(q)!Put(t) <=>
            g[t] # None /\ Entered(b, c, g[t], MaxMsgs) /\ h = [g EXCEPT ![t] = None]
      BY DEF MqChannel!Put, MqChannel!Enter, MqChannel!Hold, Entered, b, c, g, h
    <3>3. MqChannel(q)!Take(t) <=>
            g[t] = None /\ b # << >> /\ h = [g EXCEPT ![t] = Head(b)] /\ c = Tail(b)
      BY DEF MqChannel!Take, MqChannel!Hold, b, c, g, h
    <3>4. MqChannel(q)!Return(t) <=> g[t] # None /\ h = [g EXCEPT ![t] = None] /\ c = b
      BY DEF MqChannel!Return, MqChannel!Hold, b, c, g, h
    <3> QED
      BY <1>5, <3>1, <3>2, <3>3, <3>4 DEF ByOne
  <2> QED
    BY <2>1 DEF MqChannel!Next
<1>6. CASE h = g /\ AtOnce(b, c, MaxMsgs)
  <2> HIDE DEF b, c, g, h
  <2>1. MqChannel(q)!PutNow <=> h = g /\ \E v \in Message : Entered(b, c, v, MaxMsgs)
    BY DEF MqChannel!PutNow, MqChannel!Enter, Entered, b, c, g, h
  <2>2. MqChannel(q)!TakeNow <=> b # << >> /\ c = Tail(b) /\ h = g
    BY DEF MqChannel!TakeNow, b, c, g, h
  <2>3. MqChannel(q)!Reset <=> c = << >> /\ h = g
    BY DEF MqChannel!Reset, b, c, g, h
  <2> QED
    BY <1>4, <1>6, <2>1, <2>2, <2>3 DEF AtOnce, MqChannel!Next
<1> HIDE DEF b, c, g, h
<1> QED
  BY <1>3, <1>5, <1>6 DEF BufferStep

(* All the blocks are there.                                               *)
LEMMA QueueBlocks ==
  ASSUME ControlInv, MqInv
  PROVE  BlocksConserved
<1> SUFFICES ASSUME NEW q \in MqQueues
             PROVE  LET m      == mq[q]
                        queued == Chain(m, m.head)
                        free   == Chain(m, m.free)
                        held   == {t \in Thread : arg[t] = q /\ blk[t] # Null}
                        all    == queued \o free
                    IN  /\ IsInjective(all) /\ Len(queued) = m.entry
                        /\ m.tail = IF queued = << >> THEN Null ELSE Last(queued)
                        /\ \A t, u \in held : t # u => blk[t] # blk[u]
                        /\ {blk[t] : t \in held} = Block \ ToSet(all)
  BY DEF BlocksConserved
<1>1. PICK s, f \in Seq(Block) : QueueInv(q, s, f)
  BY DEF MqInv
<1> DEFINE m    == mq[q]
           held == {t \in Thread : arg[t] = q /\ blk[t] # Null}
           all  == s \o f
<1>2. /\ Shape(m, s, f) /\ Owned(q, Out(s, f))
      /\ Chain(m, m.head) = s /\ Chain(m, m.free) = f
  BY <1>1, QueuedIs DEF QueueInv
<1>3. /\ IsInjective(s) /\ IsInjective(f) /\ ToSet(s) \cap ToSet(f) = {}
      /\ m.entry = Len(s) /\ m.tail = IF s = << >> THEN Null ELSE s[Len(s)]
  BY <1>2 DEF Shape, Chained
<1>4. IsInjective(all) /\ ToSet(all) = ToSet(s) \cup ToSet(f)
  <2>1. /\ Len(s) \in Nat /\ Len(f) \in Nat
        /\ DOMAIN s = 1 .. Len(s) /\ DOMAIN f = 1 .. Len(f)
    BY LenProperties
  <2>2. /\ all \in Seq(Block) /\ Len(all) = Len(s) + Len(f)
        /\ \A i \in 1 .. Len(s) + Len(f) : all[i] = IF i <= Len(s) THEN s[i] ELSE f[i - Len(s)]
    BY ConcatProperties
  <2> HIDE DEF all
  <2>3. DOMAIN all = 1 .. Len(s) + Len(f)
    BY <2>2, LenProperties
  <2>4. \A i \in 1 .. Len(s) + Len(f) : (i <= Len(s) /\ i \in 1 .. Len(s))
                                     \/ (i > Len(s) /\ i - Len(s) \in 1 .. Len(f))
    BY <2>1
  <2>5. /\ \A i \in 1 .. Len(s) : s[i] \in ToSet(s)
        /\ \A i \in 1 .. Len(f) : f[i] \in ToSet(f)
    BY <2>1 DEF ToSet
  <2>6. /\ \A i, j \in 1 .. Len(s) : s[i] = s[j] => i = j
        /\ \A i, j \in 1 .. Len(f) : f[i] = f[j] => i = j
    BY <1>3, <2>1 DEF IsInjective
  <2>7. \A x \in ToSet(s), y \in ToSet(f) : x # y
    BY <1>3
  <2>8. ASSUME NEW i \in 1 .. Len(s) + Len(f), NEW j \in 1 .. Len(s) + Len(f), all[i] = all[j]
        PROVE  i = j
    <3>1. CASE i <= Len(s) /\ j <= Len(s)
      <4>1. i \in 1 .. Len(s) /\ j \in 1 .. Len(s) /\ s[i] = s[j]
        BY <2>1, <2>2, <2>4, <2>8, <3>1
      <4> QED
        BY <2>6, <4>1
    <3>2. CASE i > Len(s) /\ j > Len(s)
      <4>1. i - Len(s) \in 1 .. Len(f) /\ j - Len(s) \in 1 .. Len(f)
            /\ f[i - Len(s)] = f[j - Len(s)]
        BY <2>1, <2>2, <2>4, <2>8, <3>2
      <4>2. i - Len(s) = j - Len(s)
        BY <2>6, <4>1
      <4> QED
        BY <2>1, <4>2
    <3>3. CASE i <= Len(s) /\ j > Len(s)
      BY <2>1, <2>2, <2>4, <2>5, <2>7, <2>8, <3>3
    <3>4. CASE i > Len(s) /\ j <= Len(s)
      BY <2>1, <2>2, <2>4, <2>5, <2>7, <2>8, <3>4
    <3> QED
      BY <2>1, <3>1, <3>2, <3>3, <3>4
  <2>9. IsInjective(all)
    BY <2>3, <2>8 DEF IsInjective
  <2>10. ToSet(all) \subseteq ToSet(s) \cup ToSet(f)
    <3>1. \A i \in 1 .. Len(s) + Len(f) : all[i] \in ToSet(s) \cup ToSet(f)
      BY <2>1, <2>2, <2>4, <2>5
    <3> QED
      BY <2>3, <3>1 DEF ToSet
  <2>11. \A i \in 1 .. Len(s) : i \in 1 .. Len(s) + Len(f) /\ all[i] = s[i]
    BY <2>1, <2>2
  <2>12. \A i \in 1 .. Len(f) : i + Len(s) \in 1 .. Len(s) + Len(f) /\ all[i + Len(s)] = f[i]
    <3>1. \A i \in 1 .. Len(f) : /\ i + Len(s) \in 1 .. Len(s) + Len(f)
                                 /\ ~(i + Len(s) <= Len(s)) /\ (i + Len(s)) - Len(s) = i
      BY <2>1
    <3> QED
      BY <2>2, <3>1
  <2>13. ToSet(s) \subseteq ToSet(all)
    BY <2>1, <2>3, <2>11 DEF ToSet
  <2>14. ToSet(f) \subseteq ToSet(all)
    BY <2>1, <2>3, <2>12 DEF ToSet
  <2> QED
    BY <2>9, <2>10, <2>13, <2>14
<1>5. m.tail = IF s = << >> THEN Null ELSE Last(s)
  BY <1>3 DEF Last
<1>6. held = {t \in Thread : Holds(t, q)}
  BY DEF Holds
<1> HIDE DEF m, held, all
<1>7. \A t, u \in held : t # u => blk[t] # blk[u]
  BY <1>2, <1>6 DEF Owned
<1>8. {blk[t] : t \in held} = Block \ ToSet(all)
  <2>1. Block \ ToSet(all) = Out(s, f)
    BY <1>4 DEF Out
  <2>2. \A t \in held : blk[t] \in Out(s, f)
    BY <1>2, <1>6 DEF Owned
  <2>3. \A b \in Out(s, f) : \E t \in held : blk[t] = b
    BY <1>2, <1>6 DEF Owned
  <2> QED
    BY <2>1, <2>2, <2>3
<1> QED
  BY <1>2, <1>3, <1>4, <1>5, <1>7, <1>8 DEF m, held, all
-----------------------------------------------------------------------------
(* What every step does with the buffers of a kind: it keeps each in shape *)
(* and is a step, or none, of its channel.                                 *)
MailKept ==
  /\ mb' \in [Mailboxes -> Mb]
  /\ \A m \in Mailboxes :
       /\ MailRing(mb'[m])
       /\ BufferStep(MailBuf(mb[m]), MailBuf(mb'[m]), HandOf(m), HandOf(m)', MbSize)

DqKept ==
  /\ dq' \in [DataQueues -> Dq]
  /\ \A d \in DataQueues :
       /\ DqRing(dq'[d])
       /\ BufferStep(DqBuf(dq[d]), DqBuf(dq'[d]), HandOf(d), HandOf(d)', DqSize)

MqKept ==
  /\ mq' \in [MqQueues -> Mq]
  /\ \A q \in MqQueues :
       /\ \E c, d \in Seq(Block) : QueueInv(q, c, d)'
       /\ BufferStep(Queued(mq[q]), Queued(mq'[q]), MqHandOf(q), MqHandOf(q)', MaxMsgs)

Kept == ControlInv' /\ MailKept /\ DqKept /\ MqKept

IInv == ControlInv /\ MailInv /\ DqInv /\ MqInv

(* The threads do nothing with the object a.                               *)
Untouched(a) == HandOf(a)' = HandOf(a) /\ \A u \in Thread : Rests(u, a)

LEMMA HandsSame ==
  ASSUME NEW a, \A u \in Thread : HandOf(a)'[u] = HandOf(a)[u]
  PROVE  HandOf(a)' = HandOf(a)
<1>1. HandOf(a)' = [u \in Thread |-> HandOf(a)'[u]]
  BY DEF HandOf
<1>2. HandOf(a) = [u \in Thread |-> HandOf(a)[u]]
  BY DEF HandOf
<1> QED
  BY <1>1, <1>2

LEMMA CallUntouched ==
  ASSUME NEW t \in Thread, OneMoves(t), NEW a, arg'[t] = a,
         arg[t] = a \/ (hand[t] = None /\ pc[t] \notin WithBlock), NEW b, b # a
  PROVE  Untouched(b)
<1>1. ASSUME NEW u \in Thread
      PROVE  HandOf(b)'[u] = HandOf(b)[u] /\ Rests(u, b)
  <2>1. CASE u = t
    BY <2>1 DEF HandOf, Rests
  <2>2. CASE u # t
    BY <2>2 DEF OneMoves, HandOf, Rests
  <2> QED
    BY <2>1, <2>2
<1> QED
  BY <1>1, HandsSame DEF Untouched

LEMMA AsideUntouched ==
  ASSUME ControlInv, NEW t \in Thread, Aside(t), NEW b
  PROVE  Untouched(b)
<1>1. Seated(pc[t], then[t], arg[t], hand[t], blk[t]) /\ ControlTypeOK
  BY DEF ControlInv, SeatInv
<1>2. /\ pc[t] \notin WithBlock /\ pc'[t] \notin WithBlock
      /\ hand[t] = None /\ hand'[t] = None
  <2>1. pc[t] \notin WithBlock \cup Hands /\ then[t] = "user"
    BY <1>1 DEF Aside, Seated, WithBlock, Hands, MailLocation, MqLocation, DqLocation
  <2>2. hand[t] = None
    BY <1>1, <2>1 DEF Seated, Hands
  <2>3. pc'[t] = pc[t] \/ pc'[t] \in AsidePlace
    BY <1>1 DEF Aside, ControlTypeOK
  <2>4. AsidePlace \cap WithBlock = {}
    BY DEF AsidePlace, WithBlock
  <2> QED
    BY <2>1, <2>2, <2>3, <2>4 DEF Aside
<1>3. OneMoves(t)
  BY AsideSits
<1>4. ASSUME NEW u \in Thread
      PROVE  HandOf(b)'[u] = HandOf(b)[u] /\ Rests(u, b)
  <2>1. CASE u = t
    BY <1>2, <2>1 DEF HandOf, Rests
  <2>2. CASE u # t
    BY <1>3, <2>2 DEF OneMoves, HandOf, Rests
  <2> QED
    BY <2>1, <2>2
<1> QED
  BY <1>4, HandsSame DEF Untouched

(* The three kinds, where the threads do nothing with their objects.       *)
LEMMA MailStill ==
  ASSUME MailInv, mb' = mb, \A m \in Mailboxes : Untouched(m)
  PROVE  MailKept
<1>1. ASSUME NEW m \in Mailboxes
      PROVE  /\ MailRing(mb'[m])
             /\ BufferStep(MailBuf(mb[m]), MailBuf(mb'[m]), HandOf(m), HandOf(m)', MbSize)
  BY DEF MailInv, Untouched, BufferStep, AtOnce
<1> QED
  BY <1>1 DEF MailKept, MailInv

LEMMA DqStill ==
  ASSUME DqInv, dq' = dq, \A d \in DataQueues : Untouched(d)
  PROVE  DqKept
<1>1. ASSUME NEW d \in DataQueues
      PROVE  /\ DqRing(dq'[d])
             /\ BufferStep(DqBuf(dq[d]), DqBuf(dq'[d]), HandOf(d), HandOf(d)', DqSize)
  BY DEF DqInv, Untouched, BufferStep, AtOnce
<1> QED
  BY <1>1 DEF DqKept, DqInv

LEMMA MqStill ==
  ASSUME ControlInv, ControlInv', MqInv, mq' = mq, \A q \in MqQueues : Untouched(q)
  PROVE  MqKept
<1>1. ASSUME NEW q \in MqQueues
      PROVE  MqAtOnce(q)
  BY MqRests DEF Untouched
<1> QED
  BY <1>1 DEF MqKept, MqInv, MqAtOnce, BufferStep
(* A call about a mailbox or a data queue has no block in its hands.       *)
LEMMA CallSeat ==
  ASSUME ControlInv, NEW t \in Thread, OneMoves(t), Sits(t), blk' = blk,
         NEW a \in Mailboxes \cup DataQueues, arg'[t] = a, arg[t] = a \/ hand[t] = None
  PROVE  /\ ControlInv' /\ \A b : b # a => Untouched(b)
         /\ Mailboxes \cap DataQueues = {} /\ MqQueues \cap (Mailboxes \cup DataQueues) = {}
<1>1. ControlInv'
  BY ControlKeeps
<1>2. a \notin MqQueues
  BY KindFacts
<1>3. pc'[t] \notin WithBlock /\ blk'[t] = Null
  BY <1>2 DEF Sits, Seated, WithBlock, MqLocation
<1>4. pc[t] \notin WithBlock
  BY <1>3, HoldsSeat
<1>5. \A b : b # a => Untouched(b)
  BY <1>4, CallUntouched
<1> QED
  BY <1>1, <1>5, KindFacts

LEMMA MailCallKeeps ==
  ASSUME IInv, NEW t \in Thread, MailCall(t), UNCHANGED <<blk, mq, dq>>
  PROVE  Kept
<1>1. PICK m \in Mailboxes : MailDoes(t, m)
  BY MailCallDoes DEF IInv
<1>2. /\ OneMoves(t) /\ Sits(t) /\ arg'[t] = m /\ (arg[t] = m \/ hand[t] = None)
      /\ MailRing(mb'[m]) /\ mb' = [mb EXCEPT ![m] = mb'[m]]
      /\ Uses(t, m, MailBuf(mb[m]), MailBuf(mb'[m]), MbSize)
  BY <1>1 DEF MailDoes, Uses
<1>3. /\ ControlInv' /\ \A b : b # m => Untouched(b)
      /\ Mailboxes \cap DataQueues = {} /\ MqQueues \cap (Mailboxes \cup DataQueues) = {}
  BY <1>2, CallSeat DEF IInv
<1>4. DqKept /\ MqKept
  <2>1. (\A d \in DataQueues : d # m) /\ (\A q \in MqQueues : q # m)
    BY <1>3
  <2> QED
    BY <1>3, <2>1, DqStill, MqStill DEF IInv
<1>5. BufferStep(MailBuf(mb[m]), MailBuf(mb'[m]), HandOf(m), HandOf(m)', MbSize)
  BY <1>2, UsesSteps DEF IInv, ControlInv
<1>6. mb' \in [Mailboxes -> Mb] /\ \A n \in Mailboxes : n # m => mb'[n] = mb[n]
  <2> DEFINE r == mb'[m]
  <2>1. r \in Mb /\ mb' = [mb EXCEPT ![m] = r] /\ mb \in [Mailboxes -> Mb]
    BY <1>2 DEF MailRing, IInv, MailInv
  <2> HIDE DEF r
  <2> QED
    BY <2>1
<1>7. ASSUME NEW n \in Mailboxes, n # m
      PROVE  /\ MailRing(mb'[n])
             /\ BufferStep(MailBuf(mb[n]), MailBuf(mb'[n]), HandOf(n), HandOf(n)', MbSize)
  BY <1>3, <1>6, <1>7 DEF IInv, MailInv, Untouched, BufferStep, AtOnce
<1>8. MailKept
  BY <1>2, <1>5, <1>6, <1>7 DEF MailKept
<1> QED
  BY <1>3, <1>4, <1>8 DEF Kept

LEMMA DqCallKeeps ==
  ASSUME IInv, NEW t \in Thread, DqCall(t), UNCHANGED <<blk, mq, mb>>
  PROVE  Kept
<1>1. PICK d \in DataQueues : DqDoes(t, d)
  BY DqCallDoes DEF IInv
<1>2. /\ OneMoves(t) /\ Sits(t) /\ arg'[t] = d /\ (arg[t] = d \/ hand[t] = None)
      /\ DqRing(dq'[d]) /\ dq' = [dq EXCEPT ![d] = dq'[d]]
      /\ Uses(t, d, DqBuf(dq[d]), DqBuf(dq'[d]), DqSize)
  BY <1>1 DEF DqDoes, Uses
<1>3. /\ ControlInv' /\ \A b : b # d => Untouched(b)
      /\ Mailboxes \cap DataQueues = {} /\ MqQueues \cap (Mailboxes \cup DataQueues) = {}
  BY <1>2, CallSeat DEF IInv
<1>4. MailKept /\ MqKept
  <2>1. (\A m \in Mailboxes : m # d) /\ (\A q \in MqQueues : q # d)
    BY <1>3
  <2> QED
    BY <1>3, <2>1, MailStill, MqStill DEF IInv
<1>5. BufferStep(DqBuf(dq[d]), DqBuf(dq'[d]), HandOf(d), HandOf(d)', DqSize)
  BY <1>2, UsesSteps DEF IInv, ControlInv
<1>6. dq' \in [DataQueues -> Dq] /\ \A e \in DataQueues : e # d => dq'[e] = dq[e]
  <2> DEFINE r == dq'[d]
  <2>1. r \in Dq /\ dq' = [dq EXCEPT ![d] = r] /\ dq \in [DataQueues -> Dq]
    BY <1>2 DEF DqRing, IInv, DqInv
  <2> HIDE DEF r
  <2> QED
    BY <2>1
<1>7. ASSUME NEW e \in DataQueues, e # d
      PROVE  /\ DqRing(dq'[e])
             /\ BufferStep(DqBuf(dq[e]), DqBuf(dq'[e]), HandOf(e), HandOf(e)', DqSize)
  BY <1>3, <1>6, <1>7 DEF IInv, DqInv, Untouched, BufferStep, AtOnce
<1>8. DqKept
  BY <1>2, <1>5, <1>6, <1>7 DEF DqKept
<1> QED
  BY <1>3, <1>4, <1>8 DEF Kept

LEMMA MqCallKeeps ==
  ASSUME IInv, NEW t \in Thread, MqCall(t), UNCHANGED <<mb, dq>>
  PROVE  Kept
<1>1. PICK q \in MqQueues : MqDoes(t, q)
  BY MqCallDoes DEF IInv
<1>2. /\ OneMoves(t) /\ Sits(t) /\ arg'[t] = q
      /\ arg[t] = q \/ (hand[t] = None /\ pc[t] \notin WithBlock)
      /\ mq' \in [MqQueues -> Mq] /\ \A n \in MqQueues : n # q => mq'[n] = mq[n]
      /\ \E c, d \in Seq(Block) : QueueInv(q, c, d)'
      /\ BufferStep(Queued(mq[q]), Queued(mq'[q]), MqHandOf(q), MqHandOf(q)', MaxMsgs)
  BY <1>1 DEF MqDoes
<1>3. ControlInv' /\ \A b : b # q => Untouched(b)
  BY <1>2, ControlKeeps, CallUntouched DEF IInv
<1>4. MailKept /\ DqKept
  <2>1. (\A m \in Mailboxes : m # q) /\ (\A d \in DataQueues : d # q)
    BY KindFacts
  <2> QED
    BY <1>3, <2>1, MailStill, DqStill DEF IInv
<1>5. ASSUME NEW n \in MqQueues, n # q
      PROVE  MqAtOnce(n)
  <2>1. mq'[n] = mq[n] /\ Untouched(n)
    BY <1>2, <1>3, <1>5
  <2> QED
    BY <1>3, <2>1, MqRests DEF IInv, Untouched
<1>6. MqKept
  BY <1>2, <1>5 DEF MqKept, MqAtOnce, BufferStep
<1> QED
  BY <1>3, <1>4, <1>6 DEF Kept

(* The calls that have nothing in their hands.                             *)
LEMMA EmptyHandsKeep ==
  ASSUME IInv, NEW t \in Thread, Aside(t), UNCHANGED <<mb, mq, dq>>
  PROVE  Kept
<1>1. ControlInv' /\ \A b : Untouched(b)
  BY AsideSits, ControlKeeps, AsideUntouched DEF IInv
<1> QED
  BY <1>1, MailStill, DqStill, MqStill DEF IInv, Kept

LEMMA ScheduledKeeps ==
  ASSUME IInv, NEW t \in Thread, Reschedule(t), UNCHANGED <<arg, hand, blk, mb, mq, dq>>
  PROVE  Kept
<1>1. /\ ControlTypeOK /\ pc[t] = "sched"
      /\ pc' = [pc EXCEPT ![t] = then[t]] /\ then' = [then EXCEPT ![t] = "user"]
      /\ Seated(pc[t], then[t], arg[t], hand[t], blk[t])
  BY DEF Reschedule, At, Goto, Then, IInv, ControlInv, SeatInv
<1>2. OneMoves(t)
  <2>1. "user" \in Location
    BY DEF Location
  <2> QED
    BY <1>1, <2>1 DEF OneMoves, ControlTypeOK
<1>3. pc'[t] = then[t] /\ then'[t] = "user"
  BY <1>1 DEF ControlTypeOK
<1>4. Seated(then[t], "user", arg[t], hand[t], blk[t])
  <2>1. then[t] \notin WithBlock /\ blk[t] = Null /\ "sched" \notin Hands
        /\ "user" \notin Hands /\ "user" \notin WithBlock
    BY <1>1 DEF Seated, WithBlock, Hands
  <2>2. IF then[t] \in Hands THEN hand[t] \in Message ELSE hand[t] = None
    BY <1>1, <2>1 DEF Seated
  <2>3. /\ then[t] \in MailLocation => arg[t] \in Mailboxes
        /\ then[t] \in MqLocation => arg[t] \in MqQueues
        /\ then[t] \in DqLocation => arg[t] \in DataQueues
    BY <1>1 DEF Seated
  <2> QED
    BY <2>1, <2>2, <2>3 DEF Seated, MailLocation, MqLocation, DqLocation
<1>5. ControlInv'
  BY <1>2, <1>3, <1>4, ControlKeeps DEF Sits, IInv
<1>6. ASSUME NEW b
      PROVE  Untouched(b)
  <2>1. {pc[t], pc'[t]} \cap WithBlock = {}
    BY <1>1, <1>3 DEF Seated, WithBlock
  <2>2. \A u \in Thread : Rests(u, b)
    BY <1>2, <2>1 DEF Rests, OneMoves
  <2>3. HandOf(b)' = HandOf(b)
    BY DEF HandOf
  <2> QED
    BY <2>2, <2>3 DEF Untouched
<1> QED
  BY <1>5, <1>6, MailStill, DqStill, MqStill DEF IInv, Kept
(* A reset, a creation or an interrupt changes one buffer at once.         *)
LEMMA MailAtOnceKeeps ==
  ASSUME IInv, ControlInv', \A b : Untouched(b), UNCHANGED <<mq, dq>>,
         NEW m \in Mailboxes, NEW r, mb' = [mb EXCEPT ![m] = r], MailRing(r),
         AtOnce(MailBuf(mb[m]), MailBuf(r), MbSize)
  PROVE  Kept
<1>1. r \in Mb /\ mb \in [Mailboxes -> Mb]
  BY DEF MailRing, IInv, MailInv
<1>2. mb' \in [Mailboxes -> Mb] /\ mb'[m] = r /\ \A n \in Mailboxes : n # m => mb'[n] = mb[n]
  BY <1>1
<1>3. ASSUME NEW n \in Mailboxes
      PROVE  /\ MailRing(mb'[n])
             /\ BufferStep(MailBuf(mb[n]), MailBuf(mb'[n]), HandOf(n), HandOf(n)', MbSize)
  <2>1. CASE n = m
    BY <1>2, <2>1 DEF Untouched, BufferStep
  <2>2. CASE n # m
    BY <1>2, <2>2 DEF IInv, MailInv, Untouched, BufferStep, AtOnce
  <2> QED
    BY <2>1, <2>2
<1>4. MailKept
  BY <1>2, <1>3 DEF MailKept
<1> QED
  BY <1>4, DqStill, MqStill DEF IInv, Kept

LEMMA DqAtOnceKeeps ==
  ASSUME IInv, ControlInv', \A b : Untouched(b), UNCHANGED <<mb, mq>>,
         NEW d \in DataQueues, NEW r, dq' = [dq EXCEPT ![d] = r], DqRing(r),
         AtOnce(DqBuf(dq[d]), DqBuf(r), DqSize)
  PROVE  Kept
<1>1. r \in Dq /\ dq \in [DataQueues -> Dq]
  BY DEF DqRing, IInv, DqInv
<1>2. dq' \in [DataQueues -> Dq] /\ dq'[d] = r /\ \A n \in DataQueues : n # d => dq'[n] = dq[n]
  BY <1>1
<1>3. ASSUME NEW n \in DataQueues
      PROVE  /\ DqRing(dq'[n])
             /\ BufferStep(DqBuf(dq[n]), DqBuf(dq'[n]), HandOf(n), HandOf(n)', DqSize)
  <2>1. CASE n = d
    BY <1>2, <2>1 DEF Untouched, BufferStep
  <2>2. CASE n # d
    BY <1>2, <2>2 DEF IInv, DqInv, Untouched, BufferStep, AtOnce
  <2> QED
    BY <2>1, <2>2
<1>4. DqKept
  BY <1>2, <1>3 DEF DqKept
<1> QED
  BY <1>4, MailStill, MqStill DEF IInv, Kept

LEMMA MqAtOnceKeeps ==
  ASSUME IInv, ControlInv', \A b : Untouched(b), UNCHANGED <<mb, dq>>,
         NEW q \in MqQueues, NEW r \in Mq, mq' = [mq EXCEPT ![q] = r], MqAtOnce(q)
  PROVE  Kept
<1>1. mq' \in [MqQueues -> Mq] /\ \A n \in MqQueues : n # q => mq'[n] = mq[n]
  BY DEF IInv, MqInv
<1>2. ASSUME NEW n \in MqQueues
      PROVE  MqAtOnce(n)
  <2>1. CASE n # q
    BY <1>1, <2>1, MqRests DEF IInv, Untouched
  <2> QED
    BY <2>1
<1>3. MqKept
  BY <1>1, <1>2 DEF MqKept, MqAtOnce, BufferStep
<1> QED
  BY <1>3, MailStill, DqStill DEF IInv, Kept

LEMMA MailControlKeeps ==
  ASSUME IInv, NEW t \in Thread, NEW m \in Mailboxes, UNCHANGED <<hand, blk, mq, dq>>,
         MailReset(t, m) \/ MailCreate(t, m)
  PROVE  Kept
<1>1. ControlInv' /\ \A b : Untouched(b)
  <2>1. Aside(t)
    BY ControlAside DEF IInv
  <2> QED
    BY <2>1, AsideSits, ControlKeeps, AsideUntouched DEF IInv
<1>2. mb \in [Mailboxes -> Mb] /\ mb[m] \in Mb
  BY DEF IInv, MailInv
<1> DEFINE r == mb'[m]
<1>3. mb' = [mb EXCEPT ![m] = r] /\ r \in Mb /\ r.entry = 0 /\ r.in = 0 /\ r.out = 0
  <2>1. CASE MailReset(t, m)
    <3>1. mb' = [mb EXCEPT ![m] = [@ EXCEPT !.entry = 0, !.in = 0, !.out = 0]]
      BY <2>1 DEF MailReset
    <3>2. r = [mb[m] EXCEPT !.entry = 0, !.in = 0, !.out = 0]
      BY <1>2, <3>1
    <3>3. 0 \in 0 .. MbSize - 1 /\ 0 \in 0 .. MbSize
      BY MailboxAssumption
    <3> QED
      BY <1>2, <3>1, <3>2, <3>3 DEF Mb
  <2>2. CASE MailCreate(t, m)
    <3>1. mb' = [mb EXCEPT ![m] = EmptyMb] /\ r = EmptyMb
      BY <1>2, <2>2 DEF MailCreate
    <3>2. 0 \in 0 .. MbSize - 1 /\ 0 \in 0 .. MbSize
      BY MailboxAssumption
    <3>3. EmptyMb \in Mb /\ EmptyMb.entry = 0 /\ EmptyMb.in = 0 /\ EmptyMb.out = 0
      BY <3>2 DEF Mb, EmptyMb
    <3> QED
      BY <3>1, <3>3
  <2> QED
    BY <2>1, <2>2
<1> HIDE DEF r
<1>4. MailRing(r) /\ MailBuf(r) = << >>
  BY <1>3, EmptyRing
<1>5. AtOnce(MailBuf(mb[m]), MailBuf(r), MbSize)
  BY <1>4 DEF AtOnce
<1> QED
  BY <1>1, <1>3, <1>4, <1>5, MailAtOnceKeeps

LEMMA MqControlKeeps ==
  ASSUME IInv, NEW t \in Thread, NEW q \in MqQueues, UNCHANGED <<hand, blk, mb, dq>>,
         MqReset(t, q) \/ MqCreate(t, q)
  PROVE  Kept
<1>1. ControlInv' /\ \A b : Untouched(b)
  <2>1. Aside(t)
    BY ControlAside DEF IInv
  <2> QED
    BY <2>1, AsideSits, ControlKeeps, AsideUntouched DEF IInv
<1>2. MqAtOnce(q)
  BY <1>1, MqResetDoes, MqCreateDoes DEF IInv, Untouched
<1>3. mq' = [mq EXCEPT ![q] = mq'[q]] /\ mq'[q] \in Mq
  <2>1. \E c, d \in Seq(Block) : QueueInv(q, c, d)'
    BY <1>2 DEF MqAtOnce
  <2>2. mq'[q] \in Mq
    BY <2>1 DEF QueueInv, Shape
  <2>3. mq \in [MqQueues -> Mq]
    BY DEF IInv, MqInv
  <2>4. mq' = [mq EXCEPT ![q] = Emptied(mq[q])] \/ mq' = [mq EXCEPT ![q] = EmptyMq]
    BY DEF MqReset, MqCreate
  <2> QED
    BY <2>2, <2>3, <2>4
<1> QED
  BY <1>1, <1>2, <1>3, MqAtOnceKeeps
(* Interrupts.                                                             *)
LEMMA InterruptUntouched ==
  ASSUME ControlInv, UNCHANGED <<pc, then, arg, hand, blk>>
  PROVE  ControlInv' /\ \A b : Untouched(b)
<1>1. ControlInv'
  BY DEF ControlInv, ControlTypeOK, SeatInv
<1>2. ASSUME NEW b
      PROVE  Untouched(b)
  BY DEF Untouched, HandOf, Rests
<1> QED
  BY <1>1, <1>2

LEMMA MailInterruptKeeps ==
  ASSUME IInv, MailInterrupt, UNCHANGED <<blk, mq, dq>>
  PROVE  Kept
<1>1. PICK m \in Mailboxes : IsrMailSend(m) \/ IsrMailRecv(m)
  BY DEF MailInterrupt
<1>2. ControlInv' /\ \A b : Untouched(b)
  BY <1>1, InterruptUntouched
     DEF IInv, IsrMailSend, IsrMailRecv, IsrResumeFirst, ipcVars, retryVars
<1>3. MailRing(mb[m])
  BY DEF IInv, MailInv
<1>4. CASE IsrMailSend(m)
  <2>1. PICK v \in Message : mb' = [mb EXCEPT ![m] = Stored(mb[m], v)]
    BY <1>4 DEF IsrMailSend
  <2>2. /\ MailRing(Stored(mb[m], v))
        /\ MailBuf(Stored(mb[m], v)) = Append(MailBuf(mb[m]), v)
        /\ Len(MailBuf(mb[m])) < MbSize
    BY <1>3, <1>4, StoredFacts DEF IsrMailSend
  <2>3. AtOnce(MailBuf(mb[m]), MailBuf(Stored(mb[m], v)), MbSize)
    BY <2>2 DEF AtOnce, Entered
  <2> QED
    BY <1>2, <2>1, <2>2, <2>3, MailAtOnceKeeps
<1>5. CASE IsrMailRecv(m)
  <2>1. mb' = [mb EXCEPT ![m] = Fetched(mb[m])]
    BY <1>5 DEF IsrMailRecv
  <2>2. /\ MailRing(Fetched(mb[m])) /\ MailBuf(mb[m]) # << >>
        /\ MailBuf(Fetched(mb[m])) = Tail(MailBuf(mb[m]))
    BY <1>3, <1>5, FetchedFacts DEF IsrMailRecv
  <2>3. AtOnce(MailBuf(mb[m]), MailBuf(Fetched(mb[m])), MbSize)
    BY <2>2 DEF AtOnce
  <2> QED
    BY <1>2, <2>1, <2>2, <2>3, MailAtOnceKeeps
<1> QED
  BY <1>1, <1>4, <1>5

LEMMA DqInterruptKeeps ==
  ASSUME IInv, DqInterrupt, UNCHANGED <<blk, mb, mq>>
  PROVE  Kept
<1>1. PICK d \in DataQueues : IsrDqPush(d) \/ IsrDqPop(d)
  BY DEF DqInterrupt
<1>2. ControlInv' /\ \A b : Untouched(b)
  BY <1>1, InterruptUntouched
     DEF IInv, IsrDqPush, IsrDqPop, IsrResumeFirst, ipcVars, retryVars
<1>3. DqRing(dq[d])
  BY DEF IInv, DqInv
<1>4. CASE IsrDqPush(d)
  <2>1. PICK v \in Message : dq' = [dq EXCEPT ![d] = Pushed(dq[d], v)]
    BY <1>4 DEF IsrDqPush
  <2>2. /\ DqRing(Pushed(dq[d], v))
        /\ DqBuf(Pushed(dq[d], v)) = Append(DqBuf(dq[d]), v)
        /\ Len(DqBuf(dq[d])) < DqSize
    BY <1>3, <1>4, PushedFacts DEF IsrDqPush
  <2>3. AtOnce(DqBuf(dq[d]), DqBuf(Pushed(dq[d], v)), DqSize)
    BY <2>2 DEF AtOnce, Entered
  <2> QED
    BY <1>2, <2>1, <2>2, <2>3, DqAtOnceKeeps
<1>5. CASE IsrDqPop(d)
  <2>1. dq' = [dq EXCEPT ![d] = Popped(dq[d])]
    BY <1>5 DEF IsrDqPop
  <2>2. /\ DqRing(Popped(dq[d])) /\ DqBuf(dq[d]) # << >>
        /\ DqBuf(Popped(dq[d])) = Tail(DqBuf(dq[d]))
    BY <1>3, <1>5, PoppedFacts DEF IsrDqPop
  <2>3. AtOnce(DqBuf(dq[d]), DqBuf(Popped(dq[d])), DqSize)
    BY <2>2 DEF AtOnce
  <2> QED
    BY <1>2, <2>1, <2>2, <2>3, DqAtOnceKeeps
<1> QED
  BY <1>1, <1>4, <1>5

LEMMA MqInterruptKeeps ==
  ASSUME IInv, MqInterrupt, UNCHANGED <<mb, dq>>
  PROVE  Kept
<1>1. PICK q \in MqQueues : IsrMqSend(q)
  BY DEF MqInterrupt
<1>2. ControlInv' /\ \A b : Untouched(b)
  BY <1>1, InterruptUntouched DEF IInv, IsrMqSend, IsrResumeFirst, ipcVars, retryVars
<1>3. MqAtOnce(q) /\ \A n \in MqQueues : n # q => mq'[n] = mq[n]
  BY <1>1, <1>2, MqIsrDoes DEF IInv, Untouched
<1>4. mq'[q] \in Mq
  <2>1. \E c, d \in Seq(Block) : QueueInv(q, c, d)'
    BY <1>3 DEF MqAtOnce
  <2> QED
    BY <2>1 DEF QueueInv, Shape
<1>5. mq' = [mq EXCEPT ![q] = mq'[q]]
  <2>1. mq \in [MqQueues -> Mq]
    BY DEF IInv, MqInv
  <2>2. \E r : mq' = [mq EXCEPT ![q] = r]
    BY <1>1 DEF IsrMqSend
  <2> QED
    BY <2>1, <2>2
<1> QED
  BY <1>2, <1>3, <1>4, <1>5, MqAtOnceKeeps

LEMMA InterruptKeeps ==
  ASSUME IInv, Interrupt
  PROVE  Kept
<1>1. ASSUME UNCHANGED <<pc, then, arg, hand, blk, mb, mq, dq>>
      PROVE  Kept
  BY <1>1, InterruptUntouched, MailStill, DqStill, MqStill DEF IInv, Kept
<1>2. CASE EventInterrupt /\ UNCHANGED <<retryVars, mb, mqVars, dq>>
  BY <1>1, <1>2 DEF EventInterrupt, IsrEventSend, ipcVars, retryVars, mqVars
<1>3. CASE MailInterrupt /\ UNCHANGED <<mqVars, dq>>
  BY <1>3, MailInterruptKeeps DEF mqVars
<1>4. CASE MqInterrupt /\ UNCHANGED <<mb, dq>>
  BY <1>4, MqInterruptKeeps
<1>5. CASE MpInterrupt /\ UNCHANGED <<mb, mqVars, dq>>
  <2>1. PICK p \in MemPools : IsrMpFree(p)
    BY <1>5 DEF MpInterrupt
  <2> QED
    BY <1>1, <1>5, <2>1 DEF IsrMpFree, MpFreed, ipcVars, retryVars, mqVars
<1>6. CASE CompletionInterrupt /\ UNCHANGED <<retryVars, mb, mqVars, dq>>
  BY <1>1, <1>6 DEF CompletionInterrupt, IsrComplete, IsrResumeFirst,
                    ipcVars, retryVars, mqVars
<1>7. CASE DqInterrupt /\ UNCHANGED <<mb, mqVars>>
  BY <1>7, DqInterruptKeeps DEF mqVars
<1>8. CASE WqInterrupt /\ UNCHANGED <<retryVars, mb, mqVars, dq>>
  BY <1>1, <1>8 DEF WqInterrupt, IsrWqWakeup, ipcVars, retryVars, mqVars
<1>9. CASE /\ RetryTick \/ RetryTickEnd \/ \E t \in Thread : RetryExpire(t)
           /\ UNCHANGED <<mb, mqVars, dq>>
  BY <1>1, <1>9 DEF RetryTick, RetryTickEnd, RetryExpire, Tick, TickEnd, TimerExpire,
                    ipcVars, retryVars, mqVars
<1> QED
  BY <1>2, <1>3, <1>4, <1>5, <1>6, <1>7, <1>8, <1>9 DEF Interrupt
LEMMA ThreadKeeps ==
  ASSUME IInv, NEW t \in Thread, ThreadStep(t)
  PROVE  Kept
<1> USE DEF ipcVars, retryVars, mqVars
<1>0. ControlInv
  BY DEF IInv
<1>1. CASE EventStep(t) /\ UNCHANGED <<retryVars, mb, mqVars, dq>>
  BY <1>0, <1>1, EventAside, EmptyHandsKeep
<1>2. CASE MailStep(t) /\ UNCHANGED <<mqVars, dq>>
  <2>1. CASE MailCall(t)
    BY <1>2, <2>1, MailCallKeeps
  <2>2. ASSUME NEW m \in Mailboxes, MailReset(t, m) \/ MailCreate(t, m)
        PROVE  Kept
    <3>1. hand' = hand
      BY <2>2 DEF MailReset, MailCreate
    <3> QED
      BY <1>2, <2>2, <3>1, MailControlKeeps
  <2>3. ASSUME NEW m \in Mailboxes, MailDelete(t, m)
        PROVE  Kept
    <3>1. hand' = hand /\ mb' = mb
      BY <2>3 DEF MailDelete
    <3> QED
      BY <1>0, <1>2, <2>3, <3>1, ControlAside, EmptyHandsKeep
  <2> QED
    BY <1>2, <2>1, <2>2, <2>3 DEF MailStep, MailCall
<1>3. CASE MqStep(t) /\ UNCHANGED <<mb, dq>>
  <2>1. CASE MqCall(t)
    BY <1>3, <2>1, MqCallKeeps
  <2>2. ASSUME NEW q \in MqQueues, MqReset(t, q) \/ MqCreate(t, q)
        PROVE  Kept
    <3>1. hand' = hand /\ blk' = blk
      BY <2>2 DEF MqReset, MqCreate
    <3> QED
      BY <1>3, <2>2, <3>1, MqControlKeeps
  <2>3. ASSUME NEW q \in MqQueues, MqDelete(t, q)
        PROVE  Kept
    <3>1. hand' = hand /\ mq' = mq /\ blk' = blk
      BY <2>3 DEF MqDelete
    <3> QED
      BY <1>0, <1>3, <2>3, <3>1, ControlAside, EmptyHandsKeep
  <2> QED
    BY <1>3, <2>1, <2>2, <2>3 DEF MqStep, MqCall
<1>4. CASE MpStep(t) /\ UNCHANGED <<mb, mqVars, dq>>
  BY <1>0, <1>4, PoolAside, EmptyHandsKeep
<1>5. CASE CompletionStep(t) /\ UNCHANGED <<retryVars, mb, mqVars, dq>>
  BY <1>0, <1>5, CompletionAside, EmptyHandsKeep
<1>6. CASE DqStep(t) /\ UNCHANGED <<mb, mqVars>>
  <2>1. CASE DqCall(t)
    BY <1>6, <2>1, DqCallKeeps
  <2>2. ASSUME \E d \in DataQueues : DqReset(t, d), UNCHANGED <<hand, dq>>
        PROVE  Kept
    BY <1>0, <1>6, <2>2, RemovalAside, EmptyHandsKeep
  <2>3. ASSUME DrainCheck(t) \/ DrainOne(t) \/ DqDrained(t), UNCHANGED <<hand, dq>>
        PROVE  Kept
    BY <1>0, <1>6, <2>3, RemovalAside, EmptyHandsKeep DEF Removal
  <2> QED
    BY <1>6, <2>1, <2>2, <2>3 DEF DqStep, DqCall
<1>7. CASE WqStep(t) /\ UNCHANGED <<retryVars, mb, mqVars, dq>>
  BY <1>0, <1>7, WqAside, EmptyHandsKeep
<1>8. CASE Common(t) /\ UNCHANGED <<retryVars, mb, mqVars, dq>>
  <2>1. CASE Removal(t)
    BY <1>0, <1>8, <2>1, RemovalAside, EmptyHandsKeep
  <2>2. CASE Reschedule(t) /\ UNCHANGED ipcVars
    BY <1>8, <2>2, ScheduledKeeps
  <2>3. CASE (Sleep(t) \/ SleepReturn(t)) /\ UNCHANGED ipcVars
    BY <1>0, <1>8, <2>3, SleepAside, EmptyHandsKeep
  <2> QED
    BY <1>8, <2>1, <2>2, <2>3 DEF Common
<1> QED
  BY <1>1, <1>2, <1>3, <1>4, <1>5, <1>6, <1>7, <1>8 DEF ThreadStep

LEMMA StepKept ==
  ASSUME IInv, [Next]_vars
  PROVE  Kept
<1>1. CASE UNCHANGED vars
  <2>1. UNCHANGED <<pc, then, arg, hand, blk, mb, mq, dq>>
    BY <1>1 DEF vars
  <2> QED
    BY <2>1, InterruptUntouched, MailStill, DqStill, MqStill DEF IInv, Kept
<1>2. CASE Next
  BY <1>2, ThreadKeeps, InterruptKeeps DEF Next
<1> QED
  BY <1>1, <1>2

LEMMA KeptIInv ==
  ASSUME Kept
  PROVE  IInv'
<1>1. ControlInv' /\ MailInv' /\ DqInv'
  BY DEF Kept, MailKept, DqKept, MailInv, DqInv
<1>2. MqInv'
  BY DEF Kept, MqKept, MqInv
<1> QED
  BY <1>1, <1>2 DEF IInv
-----------------------------------------------------------------------------
(* The start: nobody has a message or a block, and every buffer is empty.  *)
LEMMA InitControl ==
  ASSUME Init
  PROVE  ControlInv /\ \A t \in Thread : hand[t] = None /\ blk[t] = Null
<1>1. /\ pc = [t \in Thread |-> IF t = Idle THEN "user" ELSE "woken"]
      /\ then = [t \in Thread |-> "user"]
      /\ arg = [t \in Thread |-> CHOOSE q \in Queue : TRUE]
      /\ hand = [t \in Thread |-> None] /\ blk = [t \in Thread |-> Null]
  BY DEF Init, IpcInit, AllAsleep, RetryInit, MqInit
<1>2. (CHOOSE q \in Queue : TRUE) \in Queue
  BY IpcAssumption
<1>3. "user" \in Location /\ "woken" \in Location /\ Null \in 0 .. MaxMsgs
  BY QueueAssumption DEF Location, Null
<1>4. ControlTypeOK
  BY <1>1, <1>2, <1>3 DEF ControlTypeOK
<1>5. ASSUME NEW t \in Thread
      PROVE  /\ Seated(pc[t], then[t], arg[t], hand[t], blk[t])
             /\ hand[t] = None /\ blk[t] = Null
  <2>1. pc[t] \in {"user", "woken"} /\ then[t] = "user" /\ hand[t] = None /\ blk[t] = Null
    BY <1>1
  <2> QED
    BY <2>1 DEF Seated, Hands, WithBlock, MailLocation, MqLocation, DqLocation
<1> QED
  BY <1>4, <1>5 DEF ControlInv, SeatInv

LEMMA InitMail ==
  ASSUME Init
  PROVE  MailInv /\ \A m \in Mailboxes : MailBuf(mb[m]) = << >>
<1>1. mb = [m \in Mailboxes |-> EmptyMb]
  BY DEF Init, MailInit
<1>2. 0 \in 0 .. MbSize - 1 /\ 0 \in 0 .. MbSize
  BY MailboxAssumption
<1>3. EmptyMb \in Mb /\ EmptyMb.entry = 0 /\ EmptyMb.in = 0 /\ EmptyMb.out = 0
  BY <1>2 DEF Mb, EmptyMb
<1>4. MailRing(EmptyMb) /\ MailBuf(EmptyMb) = << >>
  BY <1>3, EmptyRing
<1> QED
  BY <1>1, <1>3, <1>4 DEF MailInv

LEMMA InitDq ==
  ASSUME Init
  PROVE  DqInv /\ \A d \in DataQueues : DqBuf(dq[d]) = << >>
<1> DEFINE b == [item |-> [i \in 0 .. DqSize - 1 |-> None], put |-> 0, get |-> 0]
<1>1. dq = [d \in DataQueues |-> b]
  BY DEF Init, DqInit
<1>2. b \in Dq /\ b.put = 0 /\ b.get = 0
  <2>1. 0 \in 0 .. MaxPut
    BY DataQueueAssumption
  <2> QED
    BY <2>1 DEF Dq
<1> HIDE DEF b
<1>3. Count(b) = 0 /\ 0 \in 0 .. DqSize
  BY <1>2, DataQueueAssumption DEF Count
<1>4. DqBuf(b) = << >>
  BY <1>3 DEF DqBuf, RingOf
<1>5. DqRing(b)
  BY <1>2, <1>3, <1>4 DEF DqRing
<1> QED
  BY <1>1, <1>2, <1>4, <1>5 DEF DqInv

LEMMA InitMq ==
  ASSUME Init
  PROVE  MqInv /\ \A q \in MqQueues : Queued(mq[q]) = << >>
<1>1. mq = [q \in MqQueues |-> EmptyMq] /\ \A t \in Thread : pc[t] \in {"user", "woken"} /\ blk[t] = Null
  BY DEF Init, MqInit, IpcInit, AllAsleep
<1>2. PICK f \in Seq(Block) : Shape(EmptyMq, << >>, f) /\ ToSet(f) = Block
  BY EmptyMqFacts
<1>3. << >> \in Seq(Block) /\ ToSet(<< >>) = {}
  BY EmptySeq DEF ToSet
<1>4. EmptyMq \in Mq
  BY <1>2 DEF Shape
<1>5. ASSUME NEW q \in MqQueues
      PROVE  QueueInv(q, << >>, f) /\ Queued(mq[q]) = << >>
  <2>1. mq[q] = EmptyMq
    BY <1>1
  <2>2. Out(<< >>, f) = {}
    BY <1>2, <1>3 DEF Out
  <2>3. Owned(q, Out(<< >>, f))
    BY <1>1, <2>2 DEF Owned, Holds
  <2>4. \A t \in Thread : Filled(pc[t], hand[t], blk[t], mq[q])
    BY <1>1 DEF Filled
  <2>5. QueueInv(q, << >>, f)
    BY <1>2, <2>1, <2>3, <2>4 DEF QueueInv
  <2>6. Queued(mq[q]) = View(mq[q].data, << >>)
    BY <1>2, <2>1, QueuedIs
  <2>7. Queued(mq[q]) = << >>
    BY <1>3, <2>6, ViewFacts
  <2> QED
    BY <2>5, <2>7
<1> QED
  BY <1>1, <1>3, <1>4, <1>5 DEF MqInv

LEMMA InitHands ==
  ASSUME Init
  PROVE  \A a : HandOf(a) = [t \in Thread |-> None] /\ MqHandOf(a) = [t \in Thread |-> None]
<1>1. \A t \in Thread : hand[t] = None
  BY InitControl
<1>2. \A t \in Thread : pc[t] # "copyout"
  BY DEF Init, IpcInit, AllAsleep
<1> QED
  BY <1>1, <1>2 DEF HandOf, MqHandOf
-----------------------------------------------------------------------------
(* Everything a mailbox, a message queue or a data queue keeps about its   *)
(* messages, the threads that send or receive one included: the entry      *)
(* counts and offsets of mb_send, mb_recv and their retries, the chains    *)
(* and the blocks in hands of rt_mq_send, rt_mq_recv and their critical    *)
(* sections, and the indices of rt_data_queue_push and pop.                *)
THEOREM BufferInvariance == Spec => []IInv
<1>1. Init => IInv
  BY InitControl, InitMail, InitDq, InitMq DEF IInv
<1>2. IInv /\ [Next]_vars => IInv'
  BY StepKept, KeptIInv
<1> QED
  BY <1>1, <1>2, PTL DEF Spec

(* No block of a message queue's pool is lost, shared or linked twice,     *)
(* with any number of blocks and of threads between the critical sections  *)
(* of rt_mq_send, rt_mq_urgent and rt_mq_recv: each is in the queue, in    *)
(* the free list or in the hands of one call.                              *)
THEOREM NoBlockLost == Spec => []BlocksConserved
<1>1. IInv => BlocksConserved
  BY QueueBlocks DEF IInv
<1> QED
  BY <1>1, BufferInvariance, PTL

(* A message rt_mb_send or rt_mb_send_wait puts into a mailbox of any size *)
(* is received once and in order, through waits, retries and resets and    *)
(* the wrap of in_offset and out_offset.                                   *)
THEOREM MailboxesRefine == Spec => MailboxesAreChannels
<1>1. Init => \A m \in Mailboxes : MailChannel(m)!Init
  <2> SUFFICES ASSUME Init, NEW m \in Mailboxes
               PROVE  MailChannel(m)!Init
    OBVIOUS
  <2>1. MailRing(mb[m]) /\ MailBuf(mb[m]) = << >>
    BY InitMail DEF MailInv
  <2>2. [i \in 1 .. mb[m].entry |-> mb[m].pool[(mb[m].out + i - 1) % MbSize]] = << >>
    BY <2>1, MailBufSeen
  <2>3. [t \in Thread |-> IF arg[t] = m THEN hand[t] ELSE None] = [t \in Thread |-> None]
    BY InitHands DEF HandOf
  <2> QED
    BY <2>2, <2>3 DEF MailChannel!Init
<1>2. IInv /\ [Next]_vars => [\A m \in Mailboxes : \/ UNCHANGED MailChannel(m)!vars
                                                   \/ MailChannel(m)!Next
                             ]_<<k, pc, arg, retryVars, mb>>
  <2> SUFFICES ASSUME IInv, [Next]_vars, NEW m \in Mailboxes
               PROVE  UNCHANGED MailChannel(m)!vars \/ MailChannel(m)!Next
    OBVIOUS
  <2>1. MailKept /\ MailInv
    BY StepKept DEF Kept, IInv
  <2>2. /\ MailRing(mb[m]) /\ MailRing(mb'[m])
        /\ BufferStep(MailBuf(mb[m]), MailBuf(mb'[m]), HandOf(m), HandOf(m)', MbSize)
    BY <2>1 DEF MailInv, MailKept
  <2> QED
    BY <2>2, MailChannelStep
<1> QED
  BY <1>1, <1>2, BufferInvariance, PTL DEF Spec, MailboxesAreChannels

(* A message rt_mq_send or rt_mq_urgent copies into a block of a message   *)
(* queue is received once and in order, an urgent one first, although the  *)
(* copies are made with interrupts enabled; rt_mq_control empties the      *)
(* queue at once.                                                          *)
THEOREM QueuesRefine == Spec => QueuesAreChannels
<1>1. Init => \A q \in MqQueues : MqChannel(q)!Init
  <2> SUFFICES ASSUME Init, NEW q \in MqQueues
               PROVE  MqChannel(q)!Init
    OBVIOUS
  <2>1. Queued(mq[q]) = << >>
    BY InitMq
  <2>2. [t \in Thread |-> IF arg[t] # q THEN None
                          ELSE IF pc[t] = "copyout" THEN mq[q].data[blk[t]]
                          ELSE hand[t]] = [t \in Thread |-> None]
    BY InitHands DEF MqHandOf
  <2> QED
    BY <2>1, <2>2 DEF MqChannel!Init
<1>2. IInv /\ [Next]_vars => [\A q \in MqQueues : \/ UNCHANGED MqChannel(q)!vars
                                                  \/ MqChannel(q)!Next
                             ]_<<k, pc, arg, retryVars, mqVars>>
  <2> SUFFICES ASSUME IInv, [Next]_vars, NEW q \in MqQueues
               PROVE  UNCHANGED MqChannel(q)!vars \/ MqChannel(q)!Next
    OBVIOUS
  <2>1. MqKept
    BY StepKept DEF Kept
  <2>2. BufferStep(Queued(mq[q]), Queued(mq'[q]), MqHandOf(q), MqHandOf(q)', MaxMsgs)
    BY <2>1 DEF MqKept
  <2> QED
    BY <2>2, MqChannelStep
<1> QED
  BY <1>1, <1>2, BufferInvariance, PTL DEF Spec, QueuesAreChannels

(* What rt_data_queue_push puts into a data queue of any size comes out of *)
(* rt_data_queue_pop once and in order, as long as put_index has not       *)
(* wrapped (MaxPut < IndexMod), through waits, retries and resets.         *)
THEOREM DataQueuesRefine == Spec => DataQueuesAreChannels
<1>1. Init => \A d \in DataQueues : DqChannel(d)!Init
  <2> SUFFICES ASSUME Init, NEW d \in DataQueues
               PROVE  DqChannel(d)!Init
    OBVIOUS
  <2>1. DqRing(dq[d]) /\ DqBuf(dq[d]) = << >>
    BY InitDq DEF DqInv
  <2>2. [i \in 1 .. Count(dq[d]) |-> dq[d].item[(dq[d].get + i - 1) % DqSize]] = << >>
    BY <2>1, DqBufSeen
  <2>3. [t \in Thread |-> IF arg[t] = d THEN hand[t] ELSE None] = [t \in Thread |-> None]
    BY InitHands DEF HandOf
  <2> QED
    BY <2>2, <2>3 DEF DqChannel!Init
<1>2. IInv /\ [Next]_vars => [\A d \in DataQueues : \/ UNCHANGED DqChannel(d)!vars
                                                    \/ DqChannel(d)!Next
                             ]_<<k, pc, arg, retryVars, dq>>
  <2> SUFFICES ASSUME IInv, [Next]_vars, NEW d \in DataQueues
               PROVE  UNCHANGED DqChannel(d)!vars \/ DqChannel(d)!Next
    OBVIOUS
  <2>1. DqKept /\ DqInv
    BY StepKept DEF Kept, IInv
  <2>2. /\ DqRing(dq[d]) /\ DqRing(dq'[d])
        /\ BufferStep(DqBuf(dq[d]), DqBuf(dq'[d]), HandOf(d), HandOf(d)', DqSize)
    BY <2>1 DEF DqInv, DqKept
  <2> QED
    BY <2>2, DqChannelStep
<1> QED
  BY <1>1, <1>2, BufferInvariance, PTL DEF Spec, DataQueuesAreChannels

(* The buffers of rt_mb_send, rt_mq_send and rt_data_queue_push together,  *)
(* the property the run checks.                                            *)
THEOREM BuffersRefine == Spec => BuffersAreChannels
  BY MailboxesRefine, QueuesRefine, DataQueuesRefine, PTL DEF BuffersAreChannels
=============================================================================
