----------------------------- MODULE IpcProofs -----------------------------
(***************************************************************************)
(* What the calls of Ipc do to the threads, for any number of threads,     *)
(* lists and priorities, and the part of the inductive invariant that      *)
(* every component built on Ipc shares.                                    *)
(***************************************************************************)
EXTENDS Ipc, KernelProofs

-----------------------------------------------------------------------------
(* The threads of S, and no others, are resumed, with the error e.         *)
ResumesAll(kk, s, S, e) ==
  /\ Settles(kk, s, S) /\ s.current = kk.current
  /\ \A y \in Thread : s.error[y] = IF y \in S THEN e ELSE kk.error[y]

ErrorResume(kk, t) == ThreadResume([kk EXCEPT !.error[t] = "ERROR"], t)

LEMMA ErrorResumeFacts ==
  ASSUME NEW kk \in KernelState, Sound(kk), NEW t \in Thread
  PROVE  /\ ErrorResume(kk, t) \in KernelState /\ Sound(ErrorResume(kk, t))
         /\ kk.stat[t] = "SUSPEND" => ResumesAll(kk, ErrorResume(kk, t), {t}, "ERROR")
<1> DEFINE e == [kk EXCEPT !.error[t] = "ERROR"]
<1>1. /\ Sound(e) /\ Calm(kk, e)
      /\ e.current = kk.current /\ e.prio = kk.prio /\ e.stat = kk.stat
      /\ e.error = [kk.error EXCEPT ![t] = "ERROR"]
  BY ErrorFacts DEF Errno
<1>2. e \in KernelState /\ kk.error \in [Thread -> Errno]
  BY <1>1 DEF Sound, KernelState
<1>3. ErrorResume(kk, t) = ThreadResume(e, t)
  BY DEF ErrorResume
<1> HIDE DEF e
<1>4. CASE kk.stat[t] # "SUSPEND"
  BY <1>1, <1>2, <1>3, <1>4 DEF ThreadResume
<1>5. CASE kk.stat[t] = "SUSPEND"
  <2> DEFINE s == ThreadResume(e, t)
  <2>1. /\ Sound(s) /\ Wakes(e, s, t)
        /\ s.current = e.current /\ s.error = e.error
    BY <1>1, <1>2, <1>5, ResumeWakes
  <2> HIDE DEF s
  <2>2. Settles(kk, s, {} \cup {t})
    BY <1>1, <1>2, <2>1, CalmSettles, WakesSettles, SettlesTrans
  <2>3. ResumesAll(kk, s, {t}, "ERROR")
    BY <1>1, <1>2, <2>1, <2>2 DEF ResumesAll
  <2> QED
    BY <1>3, <2>1, <2>3 DEF s, Sound
<1> QED
  BY <1>4, <1>5

(* One more. *)
LEMMA ResumesMore ==
  ASSUME NEW kk, NEW s, NEW S, ResumesAll(kk, s, S, "ERROR"),
         NEW t \in Thread, kk.stat[t] = "SUSPEND", t \notin S
  PROVE  ResumesAll(kk, ErrorResume(s, t), S \cup {t}, "ERROR")
<1>1. s \in KernelState /\ Sound(s) /\ s.stat[t] = "SUSPEND"
  BY DEF ResumesAll, Settles
<1>2. ResumesAll(s, ErrorResume(s, t), {t}, "ERROR")
  BY <1>1, ErrorResumeFacts
<1>3. Settles(kk, ErrorResume(s, t), S \cup {t})
  BY <1>2, SettlesTrans DEF ResumesAll
<1> QED
  BY <1>2, <1>3 DEF ResumesAll

(* rt_ipc_list_resume_all of threads that all wait. *)
LEMMA ResumeAllFacts ==
  ASSUME NEW kk \in KernelState, Sound(kk), NEW q \in Queue,
         \A t \in ToSet(kk.wait[q]) : kk.stat[t] = "SUSPEND"
  PROVE  ResumesAll(kk, IpcResumeAll(kk, q), ToSet(kk.wait[q]), "ERROR")
<1> DEFINE s == kk.wait[q]
           D == SUBSET (1 .. Len(s))
           K == {x \in KernelState : Sound(x)}
           F == [x \in K \X Thread |-> ErrorResume(x[1], x[2])]
           Unfolds(g) == g = [x \in D |-> IF x = {} THEN kk
                                ELSE ErrorResume(g[x \ {Max(x)}], s[Max(x)])]
<1>1. /\ s \in Seq(Thread) /\ Len(s) \in Nat /\ DOMAIN s = 1 .. Len(s)
      /\ \A i \in 1 .. Len(s) : s[i] \in Thread
      /\ IsInjective(s)
  <2>1. s \in Seq(Thread) /\ IsInjective(s)
    BY DEF KernelState, Sound, Coherent, SingleLinkage
  <2> QED
    BY <2>1, LenProperties, ElementOfSeq
<1>2. \E g : Unfolds(g)
  <2>1. F \in [K \X Thread -> K] /\ kk \in K
    BY ErrorResumeFacts
  <2> HIDE DEF F, K
  <2>2. PICK f \in [D -> K] : \A x \in D : FoldStep(F, kk, s, f, x)
    BY <1>1, <2>1, FoldDefined
  <2>3. ASSUME NEW x \in D, x # {}
        PROVE  F[<<f[x \ {Max(x)}], s[Max(x)]>>] = ErrorResume(f[x \ {Max(x)}], s[Max(x)])
    <3>1. Max(x) \in 1 .. Len(s)
      BY <1>1, <2>3, GreatestFacts
    <3>2. f[x \ {Max(x)}] \in K /\ s[Max(x)] \in Thread
      BY <1>1, <2>2, <3>1
    <3> QED
      BY <3>2 DEF F
  <2>4. Unfolds(f)
    BY <2>2, <2>3 DEF FoldStep
  <2> QED
    BY <2>4
<1>3. PICK g : Unfolds(g) /\ IpcResumeAll(kk, q) = g[1 .. Len(s)]
  <2>1. IpcResumeAll(kk, q) = (CHOOSE g : Unfolds(g))[1 .. Len(s)]
    BY <1>1 DEF IpcResumeAll, FoldLeft, MapThenFoldSet, ErrorResume
  <2> QED
    BY <1>2, <2>1
<1> DEFINE Done(i) == {s[j] : j \in 1 .. i}
           S == {i \in 0 .. Len(s) : ResumesAll(kk, g[1 .. i], Done(i), "ERROR")}
<1>4. 0 \in S
  <2>1. g[1 .. 0] = kk /\ Done(0) = {}
    BY <1>1, <1>3
  <2>2. ResumesAll(kk, kk, {}, "ERROR")
    BY DEF ResumesAll, Settles
  <2>3. 0 \in 0 .. Len(s)
    BY <1>1
  <2> HIDE DEF Done, Unfolds, s, F, K
  <2> QED
    BY <2>1, <2>2, <2>3
<1>5. ASSUME NEW i \in 1 .. Len(s), i - 1 \in S
      PROVE  i \in S
  <2>1. g[1 .. i] = ErrorResume(g[1 .. i - 1], s[i])
    <3>1. 1 .. i \in D /\ 1 .. i # {}
      <4>1. 1 \in 1 .. i /\ \A x \in 1 .. i : x \in 1 .. Len(s)
        BY <1>1
      <4> QED
        BY <4>1
    <3>2. Max(1 .. i) = i
      <4>1. i \in Nat /\ 1 .. i \in SUBSET (1 .. i)
        OBVIOUS
      <4>2. Max(1 .. i) \in 1 .. i /\ \A p \in 1 .. i : p <= Max(1 .. i)
        BY <3>1, <4>1, GreatestFacts
      <4> QED
        BY <4>2
    <3>3. (1 .. i) \ {i} = 1 .. i - 1
      OBVIOUS
    <3> QED
      BY <1>3, <3>1, <3>2, <3>3
  <2>2. s[i] \notin Done(i - 1)
    <3>1. ASSUME NEW j \in 1 .. i - 1
          PROVE  s[j] # s[i]
      <4>1. j \in DOMAIN s /\ i \in DOMAIN s /\ j # i
        BY <1>1
      <4> HIDE DEF s
      <4> QED
        BY <1>1, <4>1 DEF IsInjective
    <3> QED
      BY <3>1
  <2>3. Done(i) = Done(i - 1) \cup {s[i]}
    OBVIOUS
  <2>4. kk.stat[s[i]] = "SUSPEND" /\ s[i] \in Thread
    BY <1>1 DEF ToSet
  <2> HIDE DEF Done, s
  <2> QED
    BY <1>5, <2>1, <2>2, <2>3, <2>4, ResumesMore
<1>6. Len(s) \in S
  <2> HIDE DEF S
  <2> QED
    BY <1>1, <1>4, <1>5, UpTo
<1>7. Done(Len(s)) = ToSet(s)
  BY <1>1 DEF ToSet
<1> QED
  BY <1>3, <1>6, <1>7
-----------------------------------------------------------------------------
(* The shared part of the inductive invariants.  A component's threads are *)
(* at the places of L; after rt_schedule they go on from those of H, and   *)
(* from those of W if they waited for an object.                           *)
Draining == {"drain", "resume", "gone"}

Places(L, H, W) ==
  /\ W \subseteq H /\ H \subseteq L
  /\ {"user", "woken"} \subseteq H /\ {"sched"} \cup Draining \subseteq L
  /\ H \cap ({"sched"} \cup Draining) = {} /\ W \cap {"user", "woken"} = {}

(* The two lists of an object belong to no other, and exist together. *)
OwnLists ==
  /\ \A q \in Queue : Private[Private[q]] = Private[q]
  /\ \A q \in Deletable, r \in Queue :
       Private[r] \in {q, Private[q]} => r \in {q, Private[q]}
  /\ \A s \in Started, q \in Queue : q \in s <=> Private[q] \in s

(* A waiter is suspended in the middle of a call about the object whose    *)
(* list it is in, nobody has touched its error, and it has a timer only if *)
(* the list is one that is waited in with a timeout.                       *)
Waiting(t, q, W) ==
  /\ q \in {arg[t], Private[arg[t]]} /\ {pc[t], then[t]} \cap W # {}
  /\ k.stat[t] = "SUSPEND" /\ k.error[t] = "EOK"
  /\ k.timer[t] => q \in Timed

WaiterInv(W) == \A q \in Queue : \A t \in ToSet(k.wait[q]) : Waiting(t, q, W)

(* The current thread is suspended only until it reaches rt_schedule. *)
CurrentInv == k.stat[k.current] = "SUSPEND" => pc[k.current] = "sched"

ThenInv == \A t \in Thread : pc[t] # "sched" => then[t] = "user"

ThreadInv(L, H, W) ==
  /\ Sound(k) /\ pc \in [Thread -> L] /\ then \in [Thread -> H]
  /\ arg \in [Thread -> Queue]
  /\ CurrentInv /\ ThenInv /\ WaiterInv(W)

(* An object that is being deleted is dead, and one thread deletes it. *)
SameObject(q, r) == \E d \in Deletable : {q, r} \subseteq {d, Private[d]}

DrainInv == \A t \in Thread : pc[t] \in Draining =>
  /\ ~alive[arg[t]] /\ SameObject(arg[t], arg[t])
  /\ \A u \in Thread : pc[u] \in Draining /\ SameObject(arg[t], arg[u]) => u = t

PairInv == \A q \in Queue : alive[q] <=> alive[Private[q]]

(* If no wait for an object that is deleted has a timeout, the list a      *)
(* deletion found somebody in is not emptied by anybody else.              *)
Untimed == \A q \in Deletable : q \notin Timed /\ Private[q] \notin Timed

WildInv == Untimed => /\ ~wild
                      /\ \A t \in Thread : pc[t] = "resume" => k.wait[arg[t]] # << >>

ObjectInv == /\ alive \in [Queue -> BOOLEAN] /\ lists \in Started
             /\ wild \in BOOLEAN
             /\ PairInv /\ DrainInv /\ NobodyWaitsForever /\ WildInv

IpcInv(L, H, W) == /\ ThreadInv(L, H, W) /\ ObjectInv
                   /\ slice \in [Thread -> Nat \ {0}] /\ isr \in {"none", "timers"}
-----------------------------------------------------------------------------
(* A thread in the kernel or in its program, but for the way to            *)
(* rt_schedule, is neither suspended nor in a list.                        *)
LEMMA AtFacts ==
  ASSUME NEW L, NEW H, NEW W, ThreadInv(L, H, W), NEW t, NEW l, l # "sched", At(t, l)
  PROVE  /\ t \in Thread /\ t = k.current /\ isr = "none"
         /\ pc[t] = l /\ then[t] = "user"
         /\ k \in KernelState /\ Sound(k) /\ k.stat[t] # "SUSPEND"
         /\ \A q \in Queue : t \notin ToSet(k.wait[q])
         /\ then = [then EXCEPT ![t] = "user"]
<1>1. t = k.current /\ isr = "none" /\ pc[t] = l
  BY DEF At
<1>2. k \in KernelState /\ Sound(k) /\ t \in Thread
  BY <1>1 DEF ThreadInv, Sound, KernelState
<1>3. then[t] = "user" /\ k.stat[t] # "SUSPEND"
  BY <1>1, <1>2 DEF ThreadInv, ThenInv, CurrentInv
<1>4. \A q \in Queue : t \notin ToSet(k.wait[q])
  BY <1>3 DEF ThreadInv, WaiterInv, Waiting
<1>5. then = [then EXCEPT ![t] = "user"]
  BY <1>2, <1>3 DEF ThreadInv
<1> QED
  BY <1>1, <1>2, <1>3, <1>4, <1>5

LEMMA WaitersAreThreads ==
  ASSUME NEW kk \in KernelState, NEW q \in Queue
  PROVE  ToSet(kk.wait[q]) \subseteq Thread
<1>1. kk.wait[q] \in Seq(Thread)
  BY DEF KernelState
<1> QED
  BY <1>1, ListEmpty

LEMMA EmptyList ==
  ASSUME NEW kk \in KernelState, NEW q \in Queue
  PROVE  kk.wait[q] = << >> <=> ToSet(kk.wait[q]) = {}
<1>1. kk.wait[q] \in Seq(Thread)
  BY DEF KernelState
<1> QED
  BY <1>1, ListEmpty

(* Where t stands and goes on: at l, and at h after rt_schedule. *)
GoesTo(t, l, h) == pc' = [pc EXCEPT ![t] = l] /\ then' = [then EXCEPT ![t] = h]

(* A step of t that wakes the threads of S and suspends nobody.            *)
LEMMA SettlesKeeps ==
  ASSUME NEW L, NEW H, NEW W, Places(L, H, W), ThreadInv(L, H, W),
         NEW S, Settles(k, k', S),
         NEW t \in Thread, NEW l \in L, NEW h \in H, GoesTo(t, l, h),
         l # "sched" => h = "user",
         arg' \in [Thread -> Queue], \A y \in Thread \ {t} : arg'[y] = arg[y],
         k'.stat[t] = "SUSPEND" =>
           arg'[t] = arg[t] /\ ({pc[t], then[t]} \cap W # {} => {l, h} \cap W # {}),
         \A y \in Thread : k'.stat[y] = "SUSPEND" => k'.error[y] = k.error[y],
         pc[t] = "sched" /\ l # "sched" /\ k.stat[k.current] = "SUSPEND" =>
           k'.current # k.current
  PROVE  ThreadInv(L, H, W)'
<1>1. /\ pc' \in [Thread -> L] /\ then' \in [Thread -> H]
      /\ \A y \in Thread : pc'[y] = IF y = t THEN l ELSE pc[y]
      /\ \A y \in Thread : then'[y] = IF y = t THEN h ELSE then[y]
  BY DEF ThreadInv, GoesTo
<1>2. ThenInv'
  BY <1>1 DEF ThreadInv, ThenInv
<1>3. CurrentInv'
  <2> SUFFICES ASSUME k'.stat[k'.current] = "SUSPEND"
               PROVE  pc'[k'.current] = "sched"
    BY DEF CurrentInv
  <2>1. k'.current = k.current /\ k.current \in Thread /\ k.stat[k.current] = "SUSPEND"
    BY DEF Settles, ThreadInv, Sound, KernelState
  <2>2. pc[k.current] = "sched"
    BY <2>1 DEF ThreadInv, CurrentInv
  <2> QED
    BY <1>1, <2>1, <2>2
<1>4. WaiterInv(W)'
  <2> SUFFICES ASSUME NEW q \in Queue, NEW y \in ToSet(k'.wait[q])
               PROVE  Waiting(y, q, W)'
    BY DEF WaiterInv
  <2>1. y \in ToSet(k.wait[q]) /\ y \notin S
    BY DEF Settles
  <2>2. Waiting(y, q, W) /\ y \in Thread
    BY <2>1, WaitersAreThreads DEF ThreadInv, WaiterInv, Sound
  <2>3. k'.stat[y] = "SUSPEND" /\ (k'.timer[y] => k.timer[y])
    BY <2>1, <2>2 DEF Settles, Waiting
  <2>4. {pc[y], then[y]} \cap W # {} /\ q \in {arg[y], Private[arg[y]]}
        /\ k.error[y] = "EOK" /\ (k.timer[y] => q \in Timed)
    BY <2>2 DEF Waiting
  <2>5. {pc'[y], then'[y]} \cap W # {} /\ arg'[y] = arg[y]
    BY <1>1, <2>2, <2>3, <2>4
  <2>6. k'.error[y] = "EOK"
    BY <2>2, <2>3, <2>4
  <2> QED
    BY <2>3, <2>4, <2>5, <2>6 DEF Waiting
<1> QED
  BY <1>1, <1>2, <1>3, <1>4 DEF ThreadInv, Settles

(* Only t is suspended, and enters the lists of M.                         *)
SuspendsIn(kk, s, t, M) ==
  /\ s \in KernelState /\ Sound(s) /\ s.current = kk.current /\ s.stat[t] = "SUSPEND"
  /\ \A y \in Thread \ {t} : /\ s.stat[y] = "SUSPEND" <=> kk.stat[y] = "SUSPEND"
                            /\ s.error[y] = kk.error[y]
                            /\ s.timer[y] = kk.timer[y]
  /\ \A q \in Queue : ToSet(s.wait[q]) =
       ToSet(kk.wait[q]) \cup (IF q \in M THEN {t} ELSE {})

LEMMA SuspendKeeps ==
  ASSUME NEW L, NEW H, NEW W, Places(L, H, W), ThreadInv(L, H, W),
         NEW t, NEW l, l # "sched", At(t, l),
         NEW M \in SUBSET Queue, SuspendsIn(k, k', t, M),
         NEW h \in H, GoesTo(t, "sched", h),
         arg' \in [Thread -> Queue], \A y \in Thread \ {t} : arg'[y] = arg[y],
         \A q \in M : /\ h \in W /\ q \in {arg'[t], Private[arg'[t]]}
                      /\ k'.error[t] = "EOK" /\ (k'.timer[t] => q \in Timed)
  PROVE  ThreadInv(L, H, W)'
<1>1. t \in Thread /\ t = k.current
  BY AtFacts
<1>2. /\ pc' \in [Thread -> L] /\ then' \in [Thread -> H]
      /\ \A y \in Thread : pc'[y] = IF y = t THEN "sched" ELSE pc[y]
      /\ \A y \in Thread : then'[y] = IF y = t THEN h ELSE then[y]
  BY DEF ThreadInv, GoesTo, Places
<1>3. CurrentInv' /\ ThenInv'
  BY <1>1, <1>2 DEF ThreadInv, CurrentInv, ThenInv, SuspendsIn
<1>4. WaiterInv(W)'
  <2> SUFFICES ASSUME NEW q \in Queue, NEW y \in ToSet(k'.wait[q])
               PROVE  Waiting(y, q, W)'
    BY DEF WaiterInv
  <2>1. CASE y \in ToSet(k.wait[q])
    <3>1. Waiting(y, q, W) /\ y \in Thread
      BY <2>1, WaitersAreThreads DEF ThreadInv, WaiterInv, Sound
    <3>2. y # t
      BY <2>1, AtFacts
    <3> QED
      BY <1>2, <3>1, <3>2 DEF Waiting, SuspendsIn
  <2>2. CASE y \notin ToSet(k.wait[q])
    <3>1. y = t /\ q \in M
      BY <2>2 DEF SuspendsIn
    <3> QED
      BY <1>1, <1>2, <3>1 DEF Waiting, SuspendsIn
  <2> QED
    BY <2>1, <2>2
<1> QED
  BY <1>2, <1>3, <1>4 DEF ThreadInv, SuspendsIn
-----------------------------------------------------------------------------
(* What a step leaves: the same threads have been told they may go on, and *)
(* no list gets a waiter.                                                  *)
Keeps(W) ==
  /\ \A q \in Queue, l \in W : WokenFrom(q, l)' = WokenFrom(q, l)
  /\ \A q \in Queue : k.wait[q] = << >> => k'.wait[q] = << >>

(* A step changes nothing about y that its call could tell: the step is    *)
(* about something else, y was in no such call, or y is still not told to  *)
(* go on.                                                                  *)
Unheard(W, y) ==
  \/ /\ {pc'[y], then'[y]} \cap W = {pc[y], then[y]} \cap W
     /\ arg'[y] = arg[y] /\ k'.error[y] = k.error[y]
     /\ k'.stat[y] = "SUSPEND" <=> k.stat[y] = "SUSPEND"
  \/ {pc[y], then[y]} \cap W = {} /\ {pc'[y], then'[y]} \cap W = {}
  \/ k.stat[y] = "SUSPEND" /\ (k'.stat[y] = "SUSPEND" \/ k'.error[y] # "EOK")

LEMMA UnheardKeeps ==
  ASSUME NEW W, \A y \in Thread : Unheard(W, y),
         \A q \in Queue : k.wait[q] = << >> => k'.wait[q] = << >>
  PROVE  Keeps(W)
<1>1. ASSUME NEW q \in Queue, NEW l \in W, NEW y \in Thread
      PROVE  y \in WokenFrom(q, l)' <=> y \in WokenFrom(q, l)
  <2>1. l \in {pc[y], then[y]} <=> l \in {pc[y], then[y]} \cap W
    OBVIOUS
  <2>2. l \in {pc'[y], then'[y]} <=> l \in {pc'[y], then'[y]} \cap W
    OBVIOUS
  <2>3. Unheard(W, y)
    OBVIOUS
  <2> QED
    BY <2>1, <2>2, <2>3 DEF Unheard, WokenFrom
<1>2. \A q \in Queue, l \in W :
        WokenFrom(q, l) \subseteq Thread /\ WokenFrom(q, l)' \subseteq Thread
  BY DEF WokenFrom
<1> QED
  BY <1>1, <1>2 DEF Keeps

(* No list gets a waiter when threads only leave. *)
LEMMA SettlesEmpty ==
  ASSUME NEW kk \in KernelState, NEW s, NEW S, Settles(kk, s, S), NEW q \in Queue
  PROVE  /\ kk.wait[q] = << >> => s.wait[q] = << >>
         /\ S \cap ToSet(kk.wait[q]) = {} /\ s.wait[q] = << >> => kk.wait[q] = << >>
<1>1. s \in KernelState /\ ToSet(s.wait[q]) = ToSet(kk.wait[q]) \ S
  BY DEF Settles
<1> QED
  BY <1>1, EmptyList

(* A thread is in one list.                                                *)
LEMMA OneList ==
  ASSUME NEW kk, Sound(kk), NEW q \in Queue, NEW r \in Queue, q # r
  PROVE  ToSet(kk.wait[q]) \cap ToSet(kk.wait[r]) = {}
BY DEF Sound, Coherent, SingleLinkage

(* Objects are not affected by a step that wakes threads of objects that   *)
(* are used, or of a list with a timeout, and moves no deleting thread.    *)
LEMMA ObjectKeeps ==
  ASSUME ObjectInv, k \in KernelState, arg \in [Thread -> Queue],
         NEW S, Settles(k, k', S),
         \A q \in Queue : ~alive[q] /\ q \notin Timed => S \cap ToSet(k.wait[q]) = {},
         UNCHANGED <<alive, lists, wild>>,
         \A y \in Thread : IF pc[y] \in Draining
                           THEN pc'[y] = pc[y] /\ arg'[y] = arg[y]
                           ELSE pc'[y] \notin Draining
  PROVE  ObjectInv'
<1>1. \A q \in Queue : k.wait[q] = << >> => k'.wait[q] = << >>
  BY SettlesEmpty
<1>2. \A q \in Queue : ~alive[q] /\ q \notin Timed /\ k.wait[q] # << >> => k'.wait[q] # << >>
  BY SettlesEmpty
<1>3. DrainInv'
  BY DEF ObjectInv, DrainInv, SameObject
<1>4. NobodyWaitsForever'
  BY <1>1 DEF ObjectInv, NobodyWaitsForever, Draining
<1>5. WildInv'
  <2> SUFFICES ASSUME Untimed
               PROVE  ~wild' /\ \A t \in Thread : pc'[t] = "resume" => k'.wait[arg'[t]] # << >>
    BY DEF WildInv
  <2>1. ~wild /\ \A t \in Thread : pc[t] = "resume" => k.wait[arg[t]] # << >>
    BY DEF ObjectInv, WildInv
  <2>2. ASSUME NEW t \in Thread, pc'[t] = "resume"
        PROVE  k'.wait[arg'[t]] # << >>
    <3>1. pc[t] = "resume" /\ arg'[t] = arg[t] /\ pc[t] \in Draining /\ arg[t] \in Queue
      BY <2>2 DEF Draining
    <3>2. ~alive[arg[t]] /\ SameObject(arg[t], arg[t])
      BY <3>1 DEF ObjectInv, DrainInv
    <3>3. arg[t] \notin Timed
      BY <3>2 DEF Untimed, SameObject
    <3> QED
      BY <1>2, <2>1, <3>1, <3>2, <3>3
  <2> QED
    BY <2>1, <2>2
<1> QED
  BY <1>3, <1>4, <1>5 DEF ObjectInv, PairInv
-----------------------------------------------------------------------------
(* Steps that know nothing of the objects. *)
LEMMA RescheduleKeeps ==
  ASSUME NEW L, NEW H, NEW W, Places(L, H, W), IpcInv(L, H, W),
         NEW t \in Thread, Reschedule(t), UNCHANGED ipcVars
  PROVE  IpcInv(L, H, W)' /\ Keeps(W)
<1>1. /\ t = k.current /\ pc[t] = "sched"
      /\ k' = Schedule(k) /\ GoesTo(t, then[t], "user")
      /\ slice' = slice /\ isr' = isr
      /\ arg' = arg /\ UNCHANGED <<alive, lists, wild>>
  BY DEF Reschedule, At, Goto, Then, GoesTo, ipcVars
<1>2. /\ ThreadInv(L, H, W) /\ ObjectInv /\ Sound(k) /\ k \in KernelState
      /\ pc \in [Thread -> L] /\ then \in [Thread -> H] /\ arg \in [Thread -> Queue]
  BY DEF IpcInv, ThreadInv, Sound
<1>3. /\ Sound(k') /\ Calm(k, k') /\ k'.error = k.error
      /\ k.stat[k.current] = "SUSPEND" => k'.current # k.current
  BY <1>1, <1>2, ScheduleCalm
<1>4. Settles(k, k', {})
  BY <1>2, <1>3, CalmSettles
<1>5. /\ then[t] \in H /\ then[t] \in L /\ then[t] # "sched" /\ then[t] \notin Draining
      /\ "user" \in H /\ "sched" \notin W /\ "user" \notin W /\ "sched" \notin Draining
  BY <1>2 DEF Places, Draining
<1>6. ThreadInv(L, H, W)'
  BY <1>1, <1>2, <1>3, <1>4, <1>5, SettlesKeeps
<1>7. /\ \A y \in Thread : pc'[y] = IF y = t THEN then[t] ELSE pc[y]
      /\ \A y \in Thread : then'[y] = IF y = t THEN "user" ELSE then[y]
  BY <1>1, <1>2 DEF GoesTo
<1>8. ObjectInv'
  BY <1>1, <1>2, <1>4, <1>5, <1>7, ObjectKeeps
<1>9. \A y \in Thread : Unheard(W, y)
  BY <1>1, <1>3, <1>5, <1>7 DEF Unheard, Calm
<1>10. \A q \in Queue : k.wait[q] = << >> => k'.wait[q] = << >>
  BY <1>2, <1>4, SettlesEmpty
<1> QED
  BY <1>1, <1>6, <1>8, <1>9, <1>10, UnheardKeeps DEF IpcInv

LEMMA SleepReturnKeeps ==
  ASSUME NEW L, NEW H, NEW W, Places(L, H, W), IpcInv(L, H, W),
         NEW t \in Thread, SleepReturn(t), UNCHANGED ipcVars
  PROVE  IpcInv(L, H, W)' /\ Keeps(W)
<1> DEFINE e == IF k.error[t] = "ETIMEOUT" THEN "EOK" ELSE k.error[t]
<1>1. /\ At(t, "woken") /\ GoesTo(t, "user", then[t])
      /\ slice' = slice /\ isr' = isr /\ pc' = [pc EXCEPT ![t] = "user"] /\ then' = then
      /\ arg' = arg /\ UNCHANGED <<alive, lists, wild>>
  <2>1. then[t] = "user" /\ then = [then EXCEPT ![t] = "user"]
    BY AtFacts DEF IpcInv, SleepReturn
  <2> QED
    BY <2>1 DEF SleepReturn, Goto, GoesTo, ipcVars
<1>2. /\ ThreadInv(L, H, W) /\ ObjectInv /\ Sound(k) /\ k \in KernelState
      /\ pc \in [Thread -> L] /\ then \in [Thread -> H] /\ arg \in [Thread -> Queue]
      /\ t = k.current /\ pc[t] = "woken" /\ then[t] = "user" /\ k.stat[t] # "SUSPEND"
  BY <1>1, AtFacts DEF IpcInv, ThreadInv
<1>3. e \in Errno
  BY <1>2 DEF KernelState, Errno
<1>4. k' = [k EXCEPT !.error[t] = e]
  BY <1>2 DEF SleepReturn, KernelState
<1> HIDE DEF e
<1>5. /\ Sound(k') /\ Calm(k, k')
      /\ k'.current = k.current /\ k'.stat = k.stat
      /\ k'.error = [k.error EXCEPT ![t] = e]
  BY <1>2, <1>3, <1>4, ErrorFacts
<1>6. Settles(k, k', {})
  BY <1>2, <1>5, CalmSettles
<1>7. /\ "user" \in H /\ "user" \in L /\ {"user", "woken"} \cap W = {}
      /\ \A y \in Thread \ {t} : k'.error[y] = k.error[y]
  BY <1>2, <1>5 DEF Places, KernelState
<1>8. ThreadInv(L, H, W)'
  BY <1>1, <1>2, <1>5, <1>6, <1>7, SettlesKeeps
<1>9. \A y \in Thread : pc'[y] = IF y = t THEN "user" ELSE pc[y]
  BY <1>1, <1>2
<1>10. ObjectInv'
  BY <1>1, <1>2, <1>6, <1>9, ObjectKeeps DEF Draining
<1>11. \A y \in Thread : Unheard(W, y)
  BY <1>1, <1>2, <1>5, <1>7, <1>9 DEF Unheard
<1>12. \A q \in Queue : k.wait[q] = << >> => k'.wait[q] = << >>
  BY <1>2, <1>6, SettlesEmpty
<1> QED
  BY <1>1, <1>8, <1>10, <1>11, <1>12, UnheardKeeps DEF IpcInv

(* A step of an interrupt, or of a thread that stays where it is: the      *)
(* threads of S are woken with an error.                                   *)
LEMMA StandingKeeps ==
  ASSUME NEW L, NEW H, NEW W, Places(L, H, W), IpcInv(L, H, W),
         NEW S \in SUBSET Thread, Settles(k, k', S),
         \A y \in Thread \ S : k'.error[y] = k.error[y],
         \A y \in S : k.stat[y] = "SUSPEND" /\ k'.error[y] # "EOK",
         \A q \in Queue : ~alive[q] /\ q \notin Timed => S \cap ToSet(k.wait[q]) = {},
         UNCHANGED <<pc, then, arg, alive, lists, wild>>,
         slice' \in [Thread -> Nat \ {0}], isr' \in {"none", "timers"}
  PROVE  IpcInv(L, H, W)' /\ Keeps(W)
<1> DEFINE t == k.current
<1>1. /\ ThreadInv(L, H, W) /\ ObjectInv /\ Sound(k) /\ k \in KernelState
      /\ pc \in [Thread -> L] /\ then \in [Thread -> H] /\ arg \in [Thread -> Queue]
      /\ t \in Thread /\ ThenInv
  BY DEF IpcInv, ThreadInv, Sound, KernelState
<1>2. GoesTo(t, pc[t], then[t]) /\ pc[t] \in L /\ then[t] \in H /\ (pc[t] # "sched" => then[t] = "user")
  BY <1>1 DEF GoesTo, ThenInv
<1>3. \A y \in Thread : k'.stat[y] = "SUSPEND" <=> k.stat[y] = "SUSPEND" /\ y \notin S
  BY DEF Settles
<1> HIDE DEF t
<1>4. ThreadInv(L, H, W)'
  BY <1>1, <1>2, <1>3, SettlesKeeps
<1>5. ObjectInv'
  BY <1>1, ObjectKeeps
<1>6. \A y \in Thread : Unheard(W, y)
  BY <1>3 DEF Unheard
<1>7. \A q \in Queue : k.wait[q] = << >> => k'.wait[q] = << >>
  BY <1>1, SettlesEmpty
<1> QED
  BY <1>4, <1>5, <1>6, <1>7, UnheardKeeps DEF IpcInv

LEMMA TickKeeps ==
  ASSUME NEW L, NEW H, NEW W, Places(L, H, W), IpcInv(L, H, W), Tick, UNCHANGED ipcVars
  PROVE  IpcInv(L, H, W)' /\ Keeps(W)
<1> DEFINE left == slice[k.current] - 1
           end  == IF left = 0 THEN InitTick[k.current] ELSE left
<1>1. /\ k' = IF left = 0 THEN Schedule(k) ELSE k
      /\ slice' = [slice EXCEPT ![k.current] = end] /\ isr' = "timers"
      /\ UNCHANGED <<pc, then, arg, alive, lists, wild>>
  BY DEF Tick, ipcVars
<1>2. Sound(k) /\ k \in KernelState /\ slice \in [Thread -> Nat \ {0}] /\ k.current \in Thread
  BY DEF IpcInv, ThreadInv, Sound, KernelState
<1>3. slice' \in [Thread -> Nat \ {0}]
  <2>1. end \in Nat \ {0}
    <3>1. slice[k.current] \in Nat \ {0} /\ InitTick[k.current] \in Nat \ {0}
      BY <1>2, ThreadsAssumption
    <3> QED
      BY <3>1
  <2> HIDE DEF end
  <2> QED
    BY <1>1, <1>2, <2>1
<1> HIDE DEF left
<1>4. Settles(k, k', {}) /\ k'.error = k.error
  <2>1. CASE left = 0
    BY <1>1, <1>2, <2>1, ScheduleCalm, CalmSettles
  <2>2. CASE left # 0
    BY <1>1, <1>2, <2>2 DEF Settles
  <2> QED
    BY <2>1, <2>2
<1> QED
  BY <1>1, <1>3, <1>4, StandingKeeps

LEMMA TickEndKeeps ==
  ASSUME NEW L, NEW H, NEW W, Places(L, H, W), IpcInv(L, H, W), TickEnd, UNCHANGED ipcVars
  PROVE  IpcInv(L, H, W)' /\ Keeps(W)
<1>1. k' = k /\ slice' = slice /\ isr' = "none" /\ UNCHANGED <<pc, then, arg, alive, lists, wild>>
  BY DEF TickEnd, ipcVars
<1>2. Settles(k, k', {}) /\ slice \in [Thread -> Nat \ {0}]
  BY <1>1 DEF IpcInv, ThreadInv, Sound, Settles
<1> QED
  BY <1>1, <1>2, StandingKeeps

(* A thread with a timer that waits in a list waits there with a timeout.  *)
LEMMA TimerExpireKeeps ==
  ASSUME NEW L, NEW H, NEW W, Places(L, H, W), IpcInv(L, H, W),
         NEW t \in Thread, TimerExpire(t), UNCHANGED ipcVars
  PROVE  IpcInv(L, H, W)' /\ Keeps(W)
<1>1. /\ k' = ThreadTimeout(k, t) /\ k.timer[t]
      /\ slice' = slice /\ isr' = isr /\ UNCHANGED <<pc, then, arg, alive, lists, wild>>
  BY DEF TimerExpire, ipcVars
<1>2. Sound(k) /\ k \in KernelState /\ k.stat[t] = "SUSPEND" /\ WaiterInv(W)
      /\ slice \in [Thread -> Nat \ {0}] /\ isr \in {"none", "timers"}
  BY <1>1 DEF IpcInv, ThreadInv, Sound, TimedSuspended
<1>3. /\ Sound(k') /\ Wakes(k, k', t)
      /\ k'.error = [k.error EXCEPT ![t] = "ETIMEOUT"]
  BY <1>1, <1>2, TimeoutWakes
<1>4. Settles(k, k', {t})
  BY <1>2, <1>3, WakesSettles
<1>5. k'.error[t] = "ETIMEOUT" /\ \A y \in Thread \ {t} : k'.error[y] = k.error[y]
  BY <1>2, <1>3 DEF KernelState
<1>6. \A q \in Queue : q \notin Timed => t \notin ToSet(k.wait[q])
  BY <1>1, <1>2 DEF WaiterInv, Waiting
<1> QED
  BY <1>1, <1>2, <1>4, <1>5, <1>6, StandingKeeps

(* rt_thread_sleep: the thread is in no list. *)
LEMMA SleepKeeps ==
  ASSUME NEW L, NEW H, NEW W, Places(L, H, W), IpcInv(L, H, W),
         NEW t \in Thread \ {Idle}, Sleep(t), UNCHANGED ipcVars
  PROVE  IpcInv(L, H, W)' /\ Keeps(W)
<1> DEFINE u == ThreadSuspend(k, t)
<1>1. /\ At(t, "user") /\ k' = TimerStart(u, t) /\ GoesTo(t, "sched", "woken")
      /\ slice' = slice /\ isr' = isr /\ arg' = arg /\ UNCHANGED <<alive, lists, wild>>
  BY DEF Sleep, Goto, Then, GoesTo, ipcVars
<1>2. /\ ThreadInv(L, H, W) /\ ObjectInv /\ Sound(k) /\ k \in KernelState
      /\ pc \in [Thread -> L] /\ then \in [Thread -> H] /\ arg \in [Thread -> Queue]
      /\ pc[t] = "user" /\ then[t] = "user" /\ k.stat[t] # "SUSPEND"
      /\ \A q \in Queue : t \notin ToSet(k.wait[q])
  BY <1>1, AtFacts DEF IpcInv, ThreadInv
<1>3. /\ Sound(u) /\ Suspends(k, u, t)
      /\ \A q \in Queue : ToSet(u.wait[q]) = ToSet(k.wait[q]) \ {t}
  BY <1>2, SuspendFacts
<1> HIDE DEF u
<1>4. /\ Sound(k') /\ k'.current = u.current /\ k'.stat = u.stat
      /\ k'.wait = u.wait /\ k'.error = u.error
      /\ k'.timer = [u.timer EXCEPT ![t] = TRUE]
  BY <1>1, <1>3, TimerStartFacts DEF Sound, Suspends
<1>5. SuspendsIn(k, k', t, {})
  <2>1. \A y \in Thread \ {t} : k'.timer[y] = k.timer[y]
    BY <1>2, <1>3, <1>4 DEF Suspends, KernelState
  <2>2. ASSUME NEW q \in Queue
        PROVE  ToSet(k'.wait[q]) = ToSet(k.wait[q])
    <3>1. t \notin ToSet(k.wait[q]) /\ ToSet(u.wait[q]) = ToSet(k.wait[q]) \ {t}
      BY <1>2, <1>3
    <3>2. ToSet(k'.wait[q]) = ToSet(u.wait[q])
      BY <1>4
    <3> QED
      BY <3>1, <3>2
  <2> QED
    BY <1>3, <1>4, <2>1, <2>2 DEF SuspendsIn, Suspends, Sound
<1>6. ThreadInv(L, H, W)'
  <2>1. "woken" \in H /\ {} \in SUBSET Queue /\ "user" # "sched"
    BY DEF Places
  <2> QED
    BY <1>1, <1>2, <1>5, <2>1, SuspendKeeps
<1>7. /\ \A y \in Thread : pc'[y] = IF y = t THEN "sched" ELSE pc[y]
      /\ \A y \in Thread : then'[y] = IF y = t THEN "woken" ELSE then[y]
  BY <1>1, <1>2 DEF GoesTo
<1>8. \A q \in Queue : k.wait[q] = << >> <=> k'.wait[q] = << >>
  <2>1. k' \in KernelState /\ \A q \in Queue : ToSet(k'.wait[q]) = ToSet(k.wait[q])
    BY <1>5 DEF SuspendsIn
  <2> QED
    BY <1>2, <2>1, EmptyList
<1>9. ObjectInv'
  BY <1>1, <1>2, <1>7, <1>8
     DEF ObjectInv, PairInv, DrainInv, SameObject, NobodyWaitsForever, WildInv, Untimed, Draining
<1>10. \A y \in Thread : Unheard(W, y)
  <2>1. {"user", "woken", "sched"} \cap W = {}
    BY DEF Places
  <2> QED
    BY <1>1, <1>2, <1>5, <1>7, <2>1 DEF Unheard, SuspendsIn
<1> QED
  BY <1>1, <1>6, <1>8, <1>9, <1>10, UnheardKeeps DEF IpcInv
-----------------------------------------------------------------------------
(* The removal of an object.  Both lists of it are dead from its beginning *)
(* on; a thread that deletes it is the only one.                           *)
LEMMA PairFacts ==
  ASSUME OwnLists,
         NEW d \in Deletable, NEW q \in Queue
  PROVE  /\ Private[q] \in {d, Private[d]} <=> q \in {d, Private[d]}
         /\ Private[d] \in Queue /\ Private[Private[d]] = Private[d]
BY IpcAssumption DEF OwnLists

LEMMA SameFacts ==
  ASSUME OwnLists,
         NEW d \in Deletable, NEW q \in Queue
  PROVE  SameObject(d, q) <=> q \in {d, Private[d]}
<1>1. ASSUME NEW e \in Deletable, {d, q} \subseteq {e, Private[e]}
      PROVE  q \in {d, Private[d]}
  <2>1. CASE d = e
    BY <1>1, <2>1
  <2>2. CASE d # e
    <3>1. d = Private[e] /\ Private[e] \in {d, Private[d]}
      BY <1>1, <2>2
    <3>2. e \in {d, Private[d]}
      BY <3>1, IpcAssumption, PairFacts
    <3> QED
      BY <1>1, <2>2, <3>1, <3>2, PairFacts
  <2> QED
    BY <2>1, <2>2
<1> QED
  BY <1>1 DEF SameObject

(* The places outside every wait, and a step after which at most t is in a *)
(* call about another object.                                              *)
Plain == {"user"} \cup Draining

MayTurn(t) == arg' \in [Thread -> Queue] /\ \A y \in Thread \ {t} : arg'[y] = arg[y]

(* A thread in its program, or deleting, goes on: nothing about the        *)
(* threads changes but where it is and what it is about.                   *)
LEMMA PlainKeeps ==
  ASSUME NEW L, NEW H, NEW W, Places(L, H, W), ThreadInv(L, H, W),
         NEW t, NEW c, c \in Plain, At(t, c),
         NEW l \in Plain, pc' = [pc EXCEPT ![t] = l], UNCHANGED <<k, then>>,
         MayTurn(t)
  PROVE  /\ ThreadInv(L, H, W)' /\ Keeps(W)
         /\ \A y \in Thread : pc'[y] = IF y = t THEN l ELSE pc[y]
<1>1. /\ t \in Thread /\ pc[t] = c /\ then[t] = "user"
      /\ then = [then EXCEPT ![t] = "user"]
      /\ k.stat[t] # "SUSPEND"
      /\ pc \in [Thread -> L] /\ then \in [Thread -> H]
  BY AtFacts DEF ThreadInv, Draining, Plain
<1>2. GoesTo(t, l, "user") /\ l \in L /\ "user" \in H /\ l # "sched" /\ c # "sched"
  BY <1>1 DEF GoesTo, Places, Draining, Plain
<1>3. Settles(k, k', {})
  BY DEF Settles, ThreadInv, Sound
<1>4. ThreadInv(L, H, W)'
  BY <1>1, <1>2, <1>3, SettlesKeeps DEF MayTurn
<1>5. \A y \in Thread : pc'[y] = IF y = t THEN l ELSE pc[y]
  BY <1>1
<1>6. Plain \cap W = {}
  BY DEF Places, Plain
<1>7. \A y \in Thread : Unheard(W, y)
  BY <1>1, <1>5, <1>6 DEF Unheard, Plain, MayTurn
<1> QED
  BY <1>4, <1>5, <1>7, UnheardKeeps

LEMMA DeleteKeeps ==
  ASSUME NEW L, NEW H, NEW W, Places(L, H, W), IpcInv(L, H, W),
         OwnLists,
         NEW t \in Thread, NEW q \in Queue, Delete(t, q)
  PROVE  IpcInv(L, H, W)' /\ Keeps(W)
<1>1. /\ At(t, "user") /\ alive[q] /\ q \in Deletable
      /\ alive' = [alive EXCEPT ![q] = FALSE, ![Private[q]] = FALSE]
      /\ arg' = [arg EXCEPT ![t] = q] /\ pc' = [pc EXCEPT ![t] = "drain"]
      /\ UNCHANGED <<k, then, slice, isr, lists, wild>>
  BY DEF Delete, Call, About, Goto
<1>2. /\ ThreadInv(L, H, W) /\ ObjectInv /\ arg \in [Thread -> Queue]
      /\ Private \in [Queue -> Queue] /\ alive \in [Queue -> BOOLEAN]
      /\ pc[t] = "user"
  BY <1>1, IpcAssumption DEF IpcInv, ThreadInv, ObjectInv, At
<1>3. /\ arg' \in [Thread -> Queue]
      /\ \A y \in Thread : arg'[y] = IF y = t THEN q ELSE arg[y]
  BY <1>1, <1>2
<1>4. /\ ThreadInv(L, H, W)' /\ Keeps(W)
      /\ \A y \in Thread : pc'[y] = IF y = t THEN "drain" ELSE pc[y]
  <2>1. "user" \in Plain /\ "drain" \in Plain
    BY DEF Draining, Plain
  <2> QED
    <3>1. MayTurn(t)
      BY <1>3 DEF MayTurn
    <3>2. /\ At(t, "user") /\ ThreadInv(L, H, W) /\ pc' = [pc EXCEPT ![t] = "drain"]
          /\ UNCHANGED <<k, then>>
      BY <1>1, <1>2
    <3> QED
      BY <2>1, <3>1, <3>2, PlainKeeps
<1>5. /\ alive' \in [Queue -> BOOLEAN]
      /\ \A r \in Queue : alive'[r] <=> alive[r] /\ r \notin {q, Private[q]}
  BY <1>1, <1>2
<1>6. PairInv'
  BY <1>1, <1>2, <1>5, PairFacts DEF ObjectInv, PairInv
<1>7. DrainInv'
  <2>1. \A y \in Thread \ {t} : pc[y] \in Draining => ~SameObject(q, arg[y])
    <3>1. alive[q] /\ alive[Private[q]]
      BY <1>1, <1>2 DEF ObjectInv, PairInv
    <3>2. \A y \in Thread : pc[y] \in Draining => arg[y] \notin {q, Private[q]}
      BY <1>2, <3>1 DEF ObjectInv, DrainInv
    <3> QED
      BY <1>1, <1>2, <3>2, SameFacts
  <2>2. SameObject(q, q) /\ ~alive'[q]
    BY <1>1, <1>5 DEF SameObject
  <2>3. \A x, y : SameObject(x, y) <=> SameObject(y, x)
    BY DEF SameObject
  <2> QED
    BY <1>2, <1>3, <1>4, <1>5, <2>1, <2>2, <2>3 DEF ObjectInv, DrainInv
<1>8. NobodyWaitsForever'
  <2> SUFFICES ASSUME NEW r \in Queue, ~alive'[r], k.wait[r] # << >>
               PROVE  \E y \in Thread :
                        \/ pc'[y] \in {"drain", "resume"} /\ r = arg'[y]
                        \/ /\ pc'[y] \in {"drain", "resume", "gone"}
                           /\ r = Private[arg'[y]] /\ r # arg'[y]
    BY <1>1 DEF NobodyWaitsForever
  <2>1. CASE r \in {q, Private[q]}
    BY <1>3, <1>4, <2>1
  <2>2. CASE r \notin {q, Private[q]}
    BY <1>2, <1>3, <1>4, <1>5, <2>2 DEF ObjectInv, NobodyWaitsForever
  <2> QED
    BY <2>1, <2>2
<1>9. WildInv'
  BY <1>1, <1>2, <1>3, <1>4 DEF ObjectInv, WildInv, Untimed
<1> QED
  BY <1>1, <1>2, <1>4, <1>5, <1>6, <1>7, <1>8, <1>9 DEF IpcInv, ObjectInv

LEMMA DrainCheckKeeps ==
  ASSUME NEW L, NEW H, NEW W, Places(L, H, W), IpcInv(L, H, W),
         NEW t \in Thread, DrainCheck(t)
  PROVE  IpcInv(L, H, W)' /\ Keeps(W)
<1> DEFINE l == IF k.wait[arg[t]] = << >> THEN "gone" ELSE "resume"
<1>1. /\ At(t, "drain") /\ pc' = [pc EXCEPT ![t] = l]
      /\ UNCHANGED <<k, then, slice, isr, arg, alive, lists, wild>>
  BY DEF DrainCheck, Goto
<1>2. /\ ThreadInv(L, H, W) /\ ObjectInv /\ arg \in [Thread -> Queue] /\ pc[t] = "drain"
  BY <1>1 DEF IpcInv, ThreadInv, At
<1>3. /\ l \in Draining
      /\ l = "resume" <=> k.wait[arg[t]] # << >>
      /\ l = "gone" <=> k.wait[arg[t]] = << >>
  BY DEF Draining
<1> HIDE DEF l
<1>4. /\ ThreadInv(L, H, W)' /\ Keeps(W)
      /\ \A y \in Thread : pc'[y] = IF y = t THEN l ELSE pc[y]
  <2>1. "drain" \in Plain /\ l \in Plain
    BY <1>3 DEF Draining, Plain
  <2>2. MayTurn(t)
    BY <1>1, <1>2 DEF MayTurn
  <2> QED
    BY <1>1, <1>2, <2>1, <2>2, PlainKeeps
<1>5. PairInv'
  BY <1>1, <1>2 DEF ObjectInv, PairInv
<1>6. DrainInv'
  <2>1. \A y \in Thread : pc'[y] \in Draining <=> pc[y] \in Draining
    BY <1>2, <1>3, <1>4 DEF Draining
  <2> QED
    BY <1>1, <1>2, <2>1 DEF ObjectInv, DrainInv, SameObject
<1>7. NobodyWaitsForever'
  BY <1>1, <1>2, <1>3, <1>4 DEF ObjectInv, NobodyWaitsForever, Draining
<1>8. WildInv'
  BY <1>1, <1>2, <1>3, <1>4 DEF ObjectInv, WildInv, Untimed
<1> QED
  BY <1>1, <1>4, <1>5, <1>6, <1>7, <1>8 DEF IpcInv, ObjectInv

(* rt_ipc_list_resume_all resumes a thread that waits. *)
LEMMA DrainOneKeeps ==
  ASSUME NEW L, NEW H, NEW W, Places(L, H, W), IpcInv(L, H, W),
         NEW t \in Thread, DrainOne(t)
  PROVE  IpcInv(L, H, W)' /\ Keeps(W)
<1> DEFINE q == arg[t]
           w == Head(k.wait[q])
<1>1. /\ At(t, "resume") /\ pc' = [pc EXCEPT ![t] = "drain"] /\ then' = then
      /\ slice' = slice /\ isr' = isr /\ arg' = arg /\ UNCHANGED <<alive, lists>>
      /\ \/ k.wait[q] # << >> /\ k' = ErrorResume(k, w) /\ wild' = wild
         \/ k.wait[q] = << >> /\ k' = k /\ wild' = TRUE
  BY DEF DrainOne, Goto, IpcResumeError, ErrorResume
<1>2. /\ ThreadInv(L, H, W) /\ ObjectInv /\ Sound(k) /\ k \in KernelState
      /\ pc \in [Thread -> L] /\ then \in [Thread -> H] /\ arg \in [Thread -> Queue]
      /\ pc[t] = "resume" /\ then[t] = "user" /\ k.stat[t] # "SUSPEND" /\ WaiterInv(W)
      /\ then = [then EXCEPT ![t] = "user"] /\ q \in Queue
  BY <1>1, AtFacts DEF IpcInv, ThreadInv
<1>3. ~alive[q] /\ \A u \in Thread : pc[u] \in Draining /\ arg[u] = q => u = t
  BY <1>2 DEF ObjectInv, DrainInv, SameObject, Draining
<1>4. PICK S \in SUBSET Thread :
        /\ Settles(k, k', S) /\ S \subseteq ToSet(k.wait[q])
        /\ \A y \in Thread : y \notin S => k'.error[y] = k.error[y]
        /\ \A y \in S : k.stat[y] = "SUSPEND" /\ k'.error[y] # "EOK"
        /\ k'.current = k.current
  <2> HIDE DEF q
  <2>1. CASE k.wait[q] = << >>
    <3>1. k' = k
      BY <1>1, <2>1
    <3>2. Settles(k, k', {})
      BY <1>2, <3>1 DEF Settles
    <3> QED
      BY <3>1, <3>2
  <2>2. CASE k.wait[q] # << >>
    <3>1. w \in ToSet(k.wait[q]) /\ w \in Thread
      BY <1>2, <2>2, ListEmpty DEF KernelState
    <3>2. k.stat[w] = "SUSPEND" /\ k' = ErrorResume(k, w)
      BY <1>1, <1>2, <2>2, <3>1 DEF WaiterInv, Waiting
    <3> HIDE DEF w
    <3>3. ResumesAll(k, k', {w}, "ERROR")
      BY <1>2, <3>1, <3>2, ErrorResumeFacts
    <3>4. \A y \in {w} : k.stat[y] = "SUSPEND" /\ k'.error[y] # "EOK"
      BY <3>1, <3>2, <3>3 DEF ResumesAll
    <3> QED
      BY <3>1, <3>3, <3>4 DEF ResumesAll
  <2> QED
    BY <2>1, <2>2
<1>5. \A y \in Thread : pc'[y] = IF y = t THEN "drain" ELSE pc[y]
  BY <1>1, <1>2
<1>6. \A y \in Thread : k'.stat[y] = "SUSPEND" => k.stat[y] = "SUSPEND" /\ y \notin S
  BY <1>4 DEF Settles
<1> HIDE DEF q
<1>7. ThreadInv(L, H, W)'
  <2>1. GoesTo(t, "drain", "user") /\ "drain" \in L /\ "user" \in H
    BY <1>1, <1>2 DEF GoesTo, Places, Draining
  <2> QED
    BY <1>1, <1>2, <1>4, <1>6, <2>1, SettlesKeeps
<1>8. \A r \in Queue : k.wait[r] = << >> => k'.wait[r] = << >>
  BY <1>2, <1>4, SettlesEmpty
<1>9. \A y \in Thread : Unheard(W, y)
  <2>1. Plain \cap W = {} /\ "resume" \in Draining /\ "drain" \in Draining
    BY DEF Places, Draining, Plain
  <2>2. \A y \in Thread \ {t} : pc'[y] = pc[y] /\ then'[y] = then[y] /\ arg'[y] = arg[y]
    BY <1>1, <1>5
  <2>3. {pc[t], then[t]} \cap W = {} /\ {pc'[t], then'[t]} \cap W = {}
    BY <1>1, <1>2, <1>5, <2>1 DEF Plain
  <2> QED
    BY <1>4, <1>6, <2>2, <2>3 DEF Unheard, Settles
<1>10. PairInv' /\ DrainInv' /\ NobodyWaitsForever'
  <2>1. PairInv' /\ DrainInv'
    BY <1>1, <1>2, <1>5 DEF ObjectInv, PairInv, DrainInv, SameObject, Draining
  <2>2. NobodyWaitsForever'
    BY <1>1, <1>2, <1>5, <1>8 DEF ObjectInv, NobodyWaitsForever
  <2> QED
    BY <2>1, <2>2
<1>11. WildInv'
  <2> SUFFICES ASSUME Untimed
               PROVE  ~wild' /\ \A u \in Thread : pc'[u] = "resume" => k'.wait[arg'[u]] # << >>
    BY DEF WildInv
  <2>1. ~wild /\ \A u \in Thread : pc[u] = "resume" => k.wait[arg[u]] # << >>
    BY <1>2 DEF ObjectInv, WildInv
  <2>2. ~wild'
    BY <1>1, <1>2, <2>1 DEF q
  <2>3. ASSUME NEW u \in Thread, pc'[u] = "resume"
        PROVE  k'.wait[arg'[u]] # << >>
    <3>1. u # t /\ pc[u] = "resume" /\ arg'[u] = arg[u] /\ arg[u] \in Queue
      BY <1>1, <1>2, <1>5, <2>3
    <3>2. arg[u] # q
      BY <1>3, <3>1 DEF Draining
    <3>3. S \cap ToSet(k.wait[arg[u]]) = {}
      BY <1>2, <1>4, <3>1, <3>2, OneList
    <3> QED
      BY <1>2, <1>4, <2>1, <3>1, <3>3, SettlesEmpty
  <2> QED
    BY <2>2, <2>3
<1> QED
  BY <1>1, <1>2, <1>7, <1>8, <1>9, <1>10, <1>11, UnheardKeeps DEF IpcInv, ObjectInv

(* The two lists of a mailbox are emptied one after the other. *)
LEMMA RemovedKeeps ==
  ASSUME NEW L, NEW H, NEW W, Places(L, H, W), IpcInv(L, H, W),
         OwnLists,
         NEW t \in Thread, Removed(t)
  PROVE  IpcInv(L, H, W)' /\ Keeps(W)
<1> DEFINE q == arg[t]
           r == Private[q]
           l == IF q = r THEN "user" ELSE "drain"
<1>1. /\ At(t, "gone") /\ pc' = [pc EXCEPT ![t] = l] /\ arg' = [arg EXCEPT ![t] = r]
      /\ UNCHANGED <<k, then, slice, isr, alive, lists, wild>>
  BY DEF Removed, Goto, About
<1>2. /\ ThreadInv(L, H, W) /\ ObjectInv /\ arg \in [Thread -> Queue]
      /\ Private \in [Queue -> Queue] /\ pc[t] = "gone"
      /\ q \in Queue /\ r \in Queue /\ Private[r] = r
  BY <1>1, IpcAssumption DEF IpcInv, ThreadInv, At, OwnLists
<1>3. \A y \in Thread : arg'[y] = IF y = t THEN r ELSE arg[y]
  BY <1>1, <1>2
<1>4. PICK d \in Deletable : q \in {d, Private[d]} /\ r = Private[d]
  BY <1>2, IpcAssumption DEF ObjectInv, DrainInv, SameObject, Draining, OwnLists
<1>5. ~alive[q] /\ ~alive[r]
  BY <1>2 DEF ObjectInv, DrainInv, PairInv, Draining
<1>6. l \in Plain /\ "gone" \in Plain
  BY DEF Draining, Plain
<1>7. /\ l \in {"user", "drain"}
      /\ l = "drain" <=> q # r
  OBVIOUS
<1> HIDE DEF l, r, q
<1>8. /\ ThreadInv(L, H, W)' /\ Keeps(W)
      /\ \A y \in Thread : pc'[y] = IF y = t THEN l ELSE pc[y]
  <2>1. MayTurn(t)
    BY <1>1, <1>2, <1>3 DEF MayTurn
  <2>2. /\ At(t, "gone") /\ ThreadInv(L, H, W) /\ pc' = [pc EXCEPT ![t] = l]
        /\ UNCHANGED <<k, then>>
    BY <1>1, <1>2
  <2> QED
    BY <1>6, <2>1, <2>2, PlainKeeps
<1>9. PairInv'
  BY <1>1, <1>2 DEF ObjectInv, PairInv
<1>10. DrainInv'
  <2>1. \A y \in Thread : pc'[y] \in Draining => pc[y] \in Draining
    BY <1>2, <1>8 DEF Draining
  <2>2. \A y \in Thread : SameObject(r, arg[y]) <=> SameObject(q, arg[y])
    <3>1. \A y \in Thread : SameObject(d, arg[y]) <=> arg[y] \in {d, Private[d]}
      BY <1>2, SameFacts
    <3>2. ASSUME NEW y \in Thread, NEW x \in {d, Private[d]}
          PROVE  SameObject(x, arg[y]) <=> arg[y] \in {d, Private[d]}
      <4>1. ASSUME SameObject(x, arg[y])
            PROVE  arg[y] \in {d, Private[d]}
        <5>1. PICK e \in Deletable : x \in {e, Private[e]} /\ arg[y] \in {e, Private[e]}
          BY <4>1 DEF SameObject
        <5>2. d \in {e, Private[e]}
          BY <1>2, <5>1, IpcAssumption, PairFacts
        <5>3. SameObject(d, arg[y])
          BY <5>1, <5>2 DEF SameObject
        <5> QED
          BY <3>1, <5>3
      <4> QED
        BY <4>1 DEF SameObject
    <3> QED
      BY <1>4, <3>2
  <2>3. SameObject(r, r)
    BY <1>4 DEF SameObject
  <2>4. \A x, y : SameObject(x, y) <=> SameObject(y, x)
    BY DEF SameObject
  <2>5. pc[t] \in Draining /\ arg[t] = q
    BY <1>2 DEF Draining, q
  <2>6. DrainInv
    BY <1>2 DEF ObjectInv
  <2>7. \A u \in Thread : pc[u] \in Draining /\ SameObject(r, arg[u]) => u = t
    BY <2>2, <2>5, <2>6 DEF DrainInv
  <2> QED
    BY <1>1, <1>3, <1>5, <2>1, <2>3, <2>4, <2>6, <2>7 DEF DrainInv, SameObject
<1>11. NobodyWaitsForever'
  BY <1>1, <1>2, <1>3, <1>7, <1>8 DEF ObjectInv, NobodyWaitsForever, q, r
<1>12. WildInv'
  BY <1>1, <1>2, <1>3, <1>7, <1>8 DEF ObjectInv, WildInv, Untimed
<1> QED
  BY <1>1, <1>8, <1>9, <1>10, <1>11, <1>12 DEF IpcInv, ObjectInv

(* Memory that is initialised again is used by nobody: nobody waits for    *)
(* the object, and nobody has yet to be told about the last one there.     *)
LEMMA ReviveKeeps ==
  ASSUME NEW L, NEW H, NEW W, Places(L, H, W), IpcInv(L, H, W),
         OwnLists,
         NEW t \in Thread, NEW q \in Queue, NEW inside, W \subseteq inside, Revive(t, q, inside)
  PROVE  /\ IpcInv(L, H, W)' /\ Keeps(W)
         /\ \A r \in {q, Private[q]} :
              k.wait[r] = << >> /\ \A l \in W : WokenFrom(r, l) = {}
<1>1. /\ ~alive[q] /\ q \in Deletable
      /\ \A u \in Thread : arg[u] \in {q, Private[q]} =>
           {pc[u], then[u]} \cap (inside \cup Draining) = {}
      /\ alive' = [alive EXCEPT ![q] = TRUE, ![Private[q]] = TRUE]
      /\ UNCHANGED <<k, pc, then, slice, isr, arg, lists, wild>>
  BY DEF Revive, Draining
<1>2. /\ ThreadInv(L, H, W) /\ ObjectInv /\ arg \in [Thread -> Queue]
      /\ Private \in [Queue -> Queue] /\ alive \in [Queue -> BOOLEAN]
      /\ k \in KernelState /\ WaiterInv(W)
  BY IpcAssumption DEF IpcInv, ThreadInv, ObjectInv, Sound
<1>3. /\ alive' \in [Queue -> BOOLEAN]
      /\ \A r \in Queue : alive'[r] <=> alive[r] \/ r \in {q, Private[q]}
  BY <1>1, <1>2
<1>4. \A u \in Thread : arg[u] \in {q, Private[q]} =>
        {pc[u], then[u]} \cap W = {} /\ pc[u] \notin Draining
  BY <1>1
<1>5. ASSUME NEW r \in {q, Private[q]}
      PROVE  k.wait[r] = << >> /\ \A l \in W : WokenFrom(r, l) = {}
  <2>1. r \in Queue
    BY <1>2, <1>5
  <2>2. \A y \in Thread : y \notin ToSet(k.wait[r])
    <3>1. \A y \in Thread : r \in {arg[y], Private[arg[y]]} => arg[y] \in {q, Private[q]}
      BY <1>1, <1>2, <1>5, PairFacts
    <3> QED
      BY <1>2, <1>4, <2>1, <3>1 DEF WaiterInv, Waiting
  <2>3. k.wait[r] = << >>
    BY <1>2, <2>1, <2>2, EmptyList, WaitersAreThreads
  <2> QED
    BY <1>4, <2>3 DEF WokenFrom
<1>6. ThreadInv(L, H, W)'
  BY <1>1, <1>2
     DEF ThreadInv, Sound, CurrentInv, ThenInv, WaiterInv, Waiting
<1>7. PairInv'
  BY <1>1, <1>2, <1>3, PairFacts DEF ObjectInv, PairInv
<1>8. DrainInv'
  <2>1. \A u \in Thread : pc[u] \in Draining => arg[u] \notin {q, Private[q]}
    BY <1>4
  <2> QED
    BY <1>1, <1>2, <1>3, <2>1 DEF ObjectInv, DrainInv, SameObject
<1>9. NobodyWaitsForever' /\ WildInv'
  BY <1>1, <1>2, <1>3 DEF ObjectInv, NobodyWaitsForever, WildInv, Untimed
<1>10. Keeps(W)
  BY <1>1 DEF Keeps, WokenFrom
<1> QED
  BY <1>1, <1>3, <1>5, <1>6, <1>7, <1>8, <1>9, <1>10 DEF IpcInv, ObjectInv
-----------------------------------------------------------------------------
(* The waiting part of a call: t is suspended in the list q, without an    *)
(* error, and with a timer if it waits with a timeout.                     *)
WaitsIn(kk, s, t, q, timed) ==
  /\ SuspendsIn(kk, s, t, {q}) /\ s.error[t] = "EOK" /\ (s.timer[t] => timed)

Errorless(kk, t) == [kk EXCEPT !.error[t] = "EOK"]

Enqueue(e, t, q) == IF Flag[q] = "LIFO"
                    THEN [ThreadSuspend(e, t) EXCEPT !.wait[q] = <<t>> \o @]
                    ELSE IpcSuspend(e, q, t, Flag[q])

LEMMA WaitInFacts ==
  ASSUME NEW kk \in KernelState, Sound(kk), NEW t \in Thread \ {Idle},
         kk.stat[t] # "SUSPEND", \A r \in Queue : t \notin ToSet(kk.wait[r]),
         NEW q \in Queue, NEW timed \in BOOLEAN, NEW e, e = Errorless(kk, t),
         NEW w, w = Enqueue(e, t, q), NEW s, s = IF timed THEN TimerStart(w, t) ELSE w
  PROVE  WaitsIn(kk, s, t, q, timed)
<1>1. /\ Sound(e) /\ e \in KernelState /\ e.stat = kk.stat /\ e.wait = kk.wait
      /\ e.current = kk.current /\ e.timer = kk.timer
      /\ e.error = [kk.error EXCEPT ![t] = "EOK"]
  <2>1. /\ Sound(e) /\ Calm(kk, e) /\ e.stat = kk.stat /\ e.current = kk.current
        /\ e.timer = kk.timer /\ e.error = [kk.error EXCEPT ![t] = "EOK"]
    BY ErrorFacts, "EOK" \in Errno DEF Errno, Errorless
  <2> QED
    BY <2>1 DEF Calm, Sound
<1>2. /\ Sound(w) /\ Suspends(e, w, t)
      /\ \A r \in Queue : ToSet(w.wait[r]) = ToSet(kk.wait[r]) \cup (IF r = q THEN {t} ELSE {})
  <2>1. CASE Flag[q] = "LIFO"
    <3> DEFINE u == ThreadSuspend(e, t)
    <3>1. /\ Sound(u) /\ Suspends(e, u, t)
          /\ \A r \in Queue : ToSet(u.wait[r]) = ToSet(e.wait[r]) \ {t}
          /\ ~Linked(u, t)
      BY <1>1, SuspendFacts
    <3>2. w = Enlist(u, q, <<t>> \o u.wait[q])
      BY <2>1 DEF Enlist, Enqueue
    <3> HIDE DEF u
    <3>3. u \in KernelState /\ Coherent(u, {}) /\ u.stat[t] = "SUSPEND"
      BY <3>1 DEF Sound, Suspends
    <3>4. u.wait[q] \in Seq(Thread) /\ t \notin ToSet(u.wait[q]) /\ IsInjective(u.wait[q])
      BY <3>1, <3>3 DEF KernelState, Linked, Coherent, SingleLinkage
    <3>5. Enters(u, q, t, <<t>> \o u.wait[q])
      BY <3>1, <3>3, <3>4, ListPrepend DEF Enters
    <3>6. /\ w \in KernelState /\ Coherent(w, {}) /\ SameThreads(u, w)
          /\ w.stat = u.stat /\ w.timer = u.timer /\ w.error = u.error
          /\ ToSet(w.wait[q]) = ToSet(u.wait[q]) \cup {t}
          /\ \A r \in Queue \ {q} : w.wait[r] = u.wait[r]
      <4> DEFINE x == <<t>> \o u.wait[q]
      <4>1. w = Enlist(u, q, x) /\ Enters(u, q, t, x)
        BY <3>2, <3>5
      <4> HIDE DEF x
      <4> QED
        BY <3>3, <4>1, EnlistFacts
    <3>7. Sound(w) /\ Suspends(e, w, t)
      <4>1. Sound(w)
        BY <3>1, <3>6 DEF Sound, TimedSuspended, SameThreads
      <4>2. Suspends(e, w, t)
        BY <3>1, <3>6 DEF Suspends, SameThreads
      <4> QED
        BY <4>1, <4>2
    <3>8. ASSUME NEW r \in Queue
          PROVE  ToSet(u.wait[r]) = ToSet(kk.wait[r])
      <4>1. t \notin ToSet(e.wait[r]) /\ e.wait[r] = kk.wait[r]
        BY <1>1
      <4>2. ToSet(u.wait[r]) = ToSet(e.wait[r]) \ {t}
        BY <3>1
      <4> QED
        BY <4>1, <4>2
    <3>9. ASSUME NEW r \in Queue
          PROVE  ToSet(w.wait[r]) = ToSet(kk.wait[r]) \cup (IF r = q THEN {t} ELSE {})
      <4>1. ToSet(u.wait[r]) = ToSet(kk.wait[r])
        BY <3>8
      <4>2. r # q => w.wait[r] = u.wait[r]
        BY <3>6
      <4> QED
        BY <3>6, <4>1, <4>2
    <3> QED
      BY <3>7, <3>9
  <2>2. CASE Flag[q] # "LIFO"
    <3>1. Sound(w) /\ Suspends(e, w, t) /\ Joins(e, w, t, q)
      <4>1. w = IpcSuspend(e, q, t, Flag[q])
        BY <2>2 DEF Enqueue
      <4> QED
        BY <1>1, <4>1, IpcSuspendFacts
    <3>2. ASSUME NEW r \in Queue
          PROVE  ToSet(w.wait[r]) = ToSet(kk.wait[r]) \cup (IF r = q THEN {t} ELSE {})
      BY <1>1, <3>1 DEF Joins
    <3> QED
      BY <3>1, <3>2
  <2> QED
    BY <2>1, <2>2
<1>3. w.timer = [kk.timer EXCEPT ![t] = FALSE] /\ w.error = [kk.error EXCEPT ![t] = "EOK"]
      /\ w.current = kk.current /\ w.stat[t] = "SUSPEND"
  BY <1>1, <1>2 DEF Suspends
<1>4. /\ Sound(s) /\ s.current = w.current /\ s.stat = w.stat
      /\ s.wait = w.wait /\ s.error = w.error
      /\ s.timer = [kk.timer EXCEPT ![t] = timed]
  <2>1. CASE timed
    <3>1. w \in KernelState /\ s = TimerStart(w, t)
      BY <1>2, <2>1 DEF Sound
    <3>2. /\ Sound(s) /\ s.current = w.current /\ s.stat = w.stat
          /\ s.wait = w.wait /\ s.error = w.error
          /\ s.timer = [w.timer EXCEPT ![t] = TRUE]
      <4>1. Sound(w) /\ w.stat[t] = "SUSPEND"
        BY <1>2, <1>3
      <4> QED
        BY <3>1, <4>1, TimerStartFacts
    <3>3. [[kk.timer EXCEPT ![t] = FALSE] EXCEPT ![t] = TRUE] = [kk.timer EXCEPT ![t] = TRUE]
      BY DEF KernelState
    <3> QED
      BY <1>3, <2>1, <3>2, <3>3
  <2>2. CASE ~timed
    BY <1>2, <1>3, <2>2
  <2> QED
    BY <2>1, <2>2
<1>5. /\ \A y \in Thread \ {t} : /\ s.stat[y] = "SUSPEND" <=> kk.stat[y] = "SUSPEND"
                                /\ s.error[y] = kk.error[y]
                                /\ s.timer[y] = kk.timer[y]
      /\ s.error[t] = "EOK" /\ s.timer[t] = timed
  <2>1. kk.timer \in [Thread -> BOOLEAN] /\ kk.error \in [Thread -> Errno]
    BY DEF KernelState
  <2>2. \A y \in Thread \ {t} : s.stat[y] = "SUSPEND" <=> kk.stat[y] = "SUSPEND"
    BY <1>1, <1>2, <1>4 DEF Suspends
  <2>3. \A y \in Thread \ {t} : s.error[y] = kk.error[y] /\ s.timer[y] = kk.timer[y]
    BY <1>3, <1>4, <2>1
  <2>4. s.error[t] = "EOK" /\ s.timer[t] = timed
    BY <1>3, <1>4, <2>1
  <2> QED
    BY <2>2, <2>3, <2>4
<1>6. SuspendsIn(kk, s, t, {q})
  <2>1. \A r \in Queue : ToSet(s.wait[r]) =
          ToSet(kk.wait[r]) \cup (IF r \in {q} THEN {t} ELSE {})
    BY <1>2, <1>4
  <2> QED
    BY <1>3, <1>4, <1>5, <2>1 DEF SuspendsIn, Sound
<1> QED
  BY <1>5, <1>6 DEF WaitsIn

LEMMA WaitInKeeps ==
  ASSUME NEW L, NEW H, NEW W, Places(L, H, W), IpcInv(L, H, W),
         NEW t \in Thread \ {Idle}, NEW c, c \notin {"sched"} \cup Draining, At(t, c),
         NEW q \in Queue, alive[q], NEW timed \in BOOLEAN, timed => q \in Timed,
         NEW l \in W, WaitIn(t, q, timed, l),
         NEW o \in Queue, q \in {o, Private[o]}, About(t, o),
         UNCHANGED <<alive, lists, wild>>
  PROVE  /\ IpcInv(L, H, W)' /\ WaitsIn(k, k', t, q, timed)
         /\ \A r \in Queue, x \in W : WokenFrom(r, x)' = WokenFrom(r, x) \ {t}
<1> DEFINE e == Errorless(k, t)
           w == Enqueue(e, t, q)
<1>1. /\ k' = IF timed THEN TimerStart(w, t) ELSE w
      /\ GoesTo(t, "sched", l) /\ slice' = slice /\ isr' = isr
      /\ arg' = [arg EXCEPT ![t] = o]
  BY DEF WaitIn, Errorless, Enqueue, Goto, Then, GoesTo, About
<1>2. /\ ThreadInv(L, H, W) /\ ObjectInv /\ Sound(k) /\ k \in KernelState
      /\ pc \in [Thread -> L] /\ then \in [Thread -> H] /\ arg \in [Thread -> Queue]
      /\ pc[t] = c /\ then[t] = "user" /\ k.stat[t] # "SUSPEND"
      /\ \A r \in Queue : t \notin ToSet(k.wait[r])
  BY AtFacts DEF IpcInv, ThreadInv
<1> HIDE DEF e, w
<1>3. WaitsIn(k, k', t, q, timed)
  BY <1>1, <1>2, WaitInFacts DEF e, w
<1>4. /\ SuspendsIn(k, k', t, {q}) /\ k'.error[t] = "EOK" /\ (k'.timer[t] => q \in Timed)
  BY <1>3 DEF WaitsIn
<1>5. /\ arg' \in [Thread -> Queue]
      /\ \A y \in Thread : arg'[y] = IF y = t THEN o ELSE arg[y]
  BY <1>1, <1>2
<1>6. ThreadInv(L, H, W)'
  <2>1. l \in H /\ {q} \in SUBSET Queue /\ c # "sched"
    BY DEF Places
  <2>2. \A r \in {q} : /\ l \in W /\ r \in {arg'[t], Private[arg'[t]]}
                       /\ k'.error[t] = "EOK" /\ (k'.timer[t] => r \in Timed)
    BY <1>4, <1>5
  <2>3. \A y \in Thread \ {t} : arg'[y] = arg[y]
    BY <1>5
  <2> QED
    BY <1>1, <1>2, <1>4, <1>5, <2>1, <2>2, <2>3, SuspendKeeps
<1>7. /\ \A y \in Thread : pc'[y] = IF y = t THEN "sched" ELSE pc[y]
      /\ \A y \in Thread : then'[y] = IF y = t THEN l ELSE then[y]
  BY <1>1, <1>2 DEF GoesTo
<1>8. ASSUME NEW r \in Queue, r # q
      PROVE  k.wait[r] = << >> <=> k'.wait[r] = << >>
  <2>1. k' \in KernelState
    BY <1>4 DEF SuspendsIn
  <2>2. ToSet(k'.wait[r]) = ToSet(k.wait[r]) \cup (IF r \in {q} THEN {t} ELSE {})
    BY <1>4 DEF SuspendsIn
  <2>3. ToSet(k'.wait[r]) = ToSet(k.wait[r])
    BY <1>8, <2>2
  <2> QED
    BY <1>2, <2>1, <2>3, EmptyList
<1>9. PairInv' /\ DrainInv'
  BY <1>2, <1>5, <1>7 DEF ObjectInv, PairInv, DrainInv, SameObject, Draining
<1>10. NobodyWaitsForever'
  BY <1>2, <1>5, <1>7, <1>8 DEF ObjectInv, NobodyWaitsForever, Draining
<1>11. WildInv'
  <2>1. \A y \in Thread : pc'[y] = "resume" => arg'[y] = arg[y] /\ arg[y] # q /\ pc[y] = "resume"
    BY <1>2, <1>5, <1>7 DEF ObjectInv, DrainInv, Draining
  <2> QED
    BY <1>2, <1>8, <2>1 DEF ObjectInv, WildInv, Untimed
<1>12. ASSUME NEW r \in Queue, NEW x \in W
       PROVE  WokenFrom(r, x)' = WokenFrom(r, x) \ {t}
  <2>1. ASSUME NEW y \in Thread, y # t
        PROVE  y \in WokenFrom(r, x)' <=> y \in WokenFrom(r, x)
    <3>1. pc'[y] = pc[y] /\ then'[y] = then[y] /\ arg'[y] = arg[y]
      BY <1>5, <1>7, <2>1
    <3>2. /\ k'.stat[y] = "SUSPEND" <=> k.stat[y] = "SUSPEND"
          /\ k'.error[y] = k.error[y]
      BY <1>4, <2>1 DEF SuspendsIn
    <3> QED
      BY <3>1, <3>2 DEF WokenFrom
  <2>2. t \notin WokenFrom(r, x)'
    BY <1>4 DEF SuspendsIn, WokenFrom
  <2>3. WokenFrom(r, x) \subseteq Thread /\ WokenFrom(r, x)' \subseteq Thread
    BY DEF WokenFrom
  <2> QED
    BY <2>1, <2>2, <2>3
<1> QED
  BY <1>1, <1>2, <1>3, <1>6, <1>9, <1>10, <1>11, <1>12 DEF IpcInv, ObjectInv

(* A step of t from one place to another, or of an interrupt.              *)
Goes(L, H, W, t, l, h) ==
  /\ GoesTo(t, l, h) /\ l \in L /\ h \in H /\ (l # "sched" => h = "user")
  /\ pc[t] = "sched" => l = "sched"
  /\ IF pc[t] \in Draining THEN l = pc[t] ELSE l \notin Draining
  /\ {l, h} \cap W = {pc[t], then[t]} \cap W
  /\ slice' \in [Thread -> Nat \ {0}] /\ isr' \in {"none", "timers"}
  /\ UNCHANGED <<arg, alive, lists, wild>>

(* The threads S waited for the object of the list q; those of them that   *)
(* are resumed without an error are told so.                               *)
Resumes(W, q, S) ==
  /\ \A r \in Queue : k.wait[r] = << >> => k'.wait[r] = << >>
  /\ \A y \in S : /\ y \in Thread /\ k.stat[y] = "SUSPEND" /\ k.error[y] = "EOK"
                  /\ {pc[y], then[y]} \cap W # {}
                  /\ q \in {arg[y], Private[arg[y]]}
  /\ \A r \in Queue, x \in W : WokenFrom(r, x)' = WokenFrom(r, x) \cup
       {y \in S : k'.error[y] = "EOK" /\ x \in {pc[y], then[y]} /\ arg[y] = r}

(* The waiters S of an object are resumed, none of another object.         *)
LEMMA ResumeKeeps ==
  ASSUME NEW L, NEW H, NEW W, Places(L, H, W), IpcInv(L, H, W),
         NEW t \in Thread, NEW l, NEW h, Goes(L, H, W, t, l, h),
         NEW q \in Queue, alive[q], NEW S, S \subseteq ToSet(k.wait[q]),
         Settles(k, k', S), \A y \in Thread \ S : k'.error[y] = k.error[y]
  PROVE  IpcInv(L, H, W)' /\ Resumes(W, q, S)
<1>1. /\ ThreadInv(L, H, W) /\ ObjectInv /\ Sound(k) /\ k \in KernelState
      /\ pc \in [Thread -> L] /\ then \in [Thread -> H] /\ arg \in [Thread -> Queue]
      /\ WaiterInv(W) /\ ToSet(k.wait[q]) \subseteq Thread
  BY WaitersAreThreads DEF IpcInv, ThreadInv, Sound
<1>2. \A y \in S : /\ y \in Thread /\ k.stat[y] = "SUSPEND" /\ k.error[y] = "EOK"
                   /\ {pc[y], then[y]} \cap W # {}
                   /\ q \in {arg[y], Private[arg[y]]}
  BY <1>1 DEF WaiterInv, Waiting
<1>3. /\ \A y \in Thread : k'.stat[y] = "SUSPEND" <=> k.stat[y] = "SUSPEND" /\ y \notin S
      /\ k'.current # k.current => k'.stat[k'.current] # "SUSPEND"
  BY DEF Settles
<1>4. /\ GoesTo(t, l, h) /\ l \in L /\ h \in H /\ (l # "sched" => h = "user")
      /\ {l, h} \cap W = {pc[t], then[t]} \cap W
      /\ arg' = arg /\ UNCHANGED <<alive, lists, wild>>
      /\ pc[t] = "sched" => l = "sched"
  BY DEF Goes
<1>5. /\ \A y \in Thread : pc'[y] = IF y = t THEN l ELSE pc[y]
      /\ \A y \in Thread : then'[y] = IF y = t THEN h ELSE then[y]
  BY <1>1, <1>4 DEF GoesTo
<1>6. ThreadInv(L, H, W)'
  BY <1>1, <1>3, <1>4, SettlesKeeps
<1>7. ObjectInv'
  <2>1. \A r \in Queue : ~alive[r] => S \cap ToSet(k.wait[r]) = {}
    BY <1>1, OneList
  <2>2. \A y \in Thread : IF pc[y] \in Draining
                          THEN pc'[y] = pc[y] /\ arg'[y] = arg[y]
                          ELSE pc'[y] \notin Draining
    BY <1>4, <1>5 DEF Goes
  <2> QED
    BY <1>1, <1>4, <2>1, <2>2, ObjectKeeps
<1>8. \A r \in Queue : k.wait[r] = << >> => k'.wait[r] = << >>
  BY <1>1, SettlesEmpty
<1>9. ASSUME NEW r \in Queue, NEW x \in W
      PROVE  WokenFrom(r, x)' = WokenFrom(r, x) \cup
               {y \in S : k'.error[y] = "EOK" /\ x \in {pc[y], then[y]} /\ arg[y] = r}
  <2>1. \A y \in Thread : x \in {pc'[y], then'[y]} <=> x \in {pc[y], then[y]}
    <3>1. x \in {l, h} <=> x \in {pc[t], then[t]}
      BY <1>4
    <3> QED
      BY <1>5, <3>1
  <2>2. ASSUME NEW y \in Thread
        PROVE  y \in WokenFrom(r, x)' <=>
                 \/ y \in WokenFrom(r, x)
                 \/ y \in S /\ k'.error[y] = "EOK" /\ x \in {pc[y], then[y]} /\ arg[y] = r
    <3>1. CASE y \in S
      BY <1>2, <1>3, <1>4, <2>1, <3>1 DEF WokenFrom
    <3>2. CASE y \notin S
      BY <1>3, <1>4, <2>1, <3>2 DEF WokenFrom
    <3> QED
      BY <3>1, <3>2
  <2>3. WokenFrom(r, x) \subseteq Thread /\ WokenFrom(r, x)' \subseteq Thread
    BY DEF WokenFrom
  <2> QED
    BY <1>2, <2>2, <2>3
<1>10. IpcInv(L, H, W)'
  BY <1>6, <1>7 DEF IpcInv, Goes
<1> QED
  BY <1>2, <1>8, <1>9, <1>10 DEF Resumes

(* rt_ipc_list_resume, with the rt_schedule of an interrupt or without.    *)
LEMMA FirstFacts ==
  ASSUME NEW kk \in KernelState, Sound(kk), NEW q \in Queue, kk.wait[q] # << >>,
         \A y \in ToSet(kk.wait[q]) : kk.stat[y] = "SUSPEND",
         NEW s, s \in {IpcResume(kk, q), Schedule(IpcResume(kk, q))}
  PROVE  \E w \in ToSet(kk.wait[q]) : Settles(kk, s, {w}) /\ s.error = kk.error
<1> DEFINE w == Head(kk.wait[q])
           r == IpcResume(kk, q)
<1>1. w \in ToSet(kk.wait[q]) /\ w \in Thread /\ r = ThreadResume(kk, w)
  BY ListEmpty DEF KernelState, IpcResume
<1> HIDE DEF w, r
<1>2. Sound(r) /\ Wakes(kk, r, w) /\ r.error = kk.error
  BY <1>1, ResumeWakes
<1>3. Settles(kk, r, {w}) /\ r \in KernelState
  BY <1>1, <1>2, WakesSettles DEF Sound
<1>4. Settles(r, Schedule(r), {}) /\ Schedule(r).error = r.error
  BY <1>2, <1>3, ScheduleCalm, CalmSettles
<1>5. Settles(kk, Schedule(r), {w} \cup {})
  BY <1>3, <1>4, SettlesTrans
<1>6. {w} \cup {} = {w}
  OBVIOUS
<1> QED
  BY <1>1, <1>2, <1>3, <1>4, <1>5, <1>6 DEF r
-----------------------------------------------------------------------------
(* At the start nobody waits for an object or deletes one. *)
LEMMA InitIpc ==
  ASSUME NEW L, NEW H, NEW W, Places(L, H, W), OwnLists, IpcInit
  PROVE  /\ IpcInv(L, H, W)
         /\ \A q \in Queue : /\ k.wait[q] = << >>
                             /\ \A l \in W : WokenFrom(q, l) = {}
<1>1. /\ k = Asleep(InitPrio) /\ InitPrio \in [Thread -> Prio]
      /\ pc = [t \in Thread |-> IF t = Idle THEN "user" ELSE "woken"]
      /\ then = [t \in Thread |-> "user"]
      /\ slice = InitTick /\ isr = "none"
      /\ arg = [t \in Thread |-> CHOOSE q \in Queue : TRUE]
      /\ lists \in Started /\ alive = [q \in Queue |-> q \in lists] /\ wild = FALSE
  BY ThreadsAssumption DEF IpcInit, AllAsleep, Asleep
<1>2. /\ Sound(k) /\ k.current = Idle /\ k.stat[Idle] = "RUNNING"
      /\ \A q \in Queue : k.wait[q] = << >> /\ ToSet(k.wait[q]) = {}
  BY <1>1, AsleepSound
<1>3. /\ pc \in [Thread -> L] /\ then \in [Thread -> H]
      /\ \A t \in Thread : pc[t] \in {"user", "woken"} /\ then[t] = "user"
  BY <1>1 DEF Places
<1>4. arg \in [Thread -> Queue]
  <2>1. (CHOOSE q \in Queue : TRUE) \in Queue
    BY IpcAssumption
  <2> QED
    BY <1>1, <2>1
<1>5. ThreadInv(L, H, W)
  BY <1>2, <1>3, <1>4 DEF ThreadInv, CurrentInv, ThenInv, WaiterInv
<1>6. slice \in [Thread -> Nat \ {0}]
  BY <1>1, ThreadsAssumption
<1>7. PairInv
  BY <1>1, IpcAssumption DEF PairInv, OwnLists
<1>8. DrainInv /\ WildInv /\ NobodyWaitsForever
  BY <1>1, <1>2, <1>3 DEF DrainInv, WildInv, NobodyWaitsForever, Draining
<1>9. ObjectInv
  <2>1. \A q \in Queue : (q \in lists) \in BOOLEAN
    OBVIOUS
  <2>2. alive \in [Queue -> BOOLEAN]
    BY <1>1, <2>1, Zenon
  <2>3. wild \in BOOLEAN /\ lists \in Started
    BY <1>1
  <2> QED
    BY <1>7, <1>8, <2>2, <2>3 DEF ObjectInv
<1>10. \A q \in Queue, l \in W : WokenFrom(q, l) = {}
  BY <1>3 DEF WokenFrom, Places
<1> QED
  BY <1>1, <1>2, <1>5, <1>6, <1>9, <1>10 DEF IpcInv

(* A step about the object's own data. *)
LEMMA AsideKeeps ==
  ASSUME NEW L, NEW H, NEW W, Places(L, H, W), IpcInv(L, H, W),
         UNCHANGED <<k, pc, then, slice, isr, arg, alive, lists, wild>>
  PROVE  IpcInv(L, H, W)' /\ Keeps(W)
<1>1. Settles(k, k', {}) /\ slice' \in [Thread -> Nat \ {0}] /\ isr' \in {"none", "timers"}
  BY DEF Settles, IpcInv, ThreadInv, Sound
<1> QED
  BY <1>1, StandingKeeps
=============================================================================
