---------------------------- MODULE MutexProofs ----------------------------
(***************************************************************************)
(* A mutex has one owner at a time and is handed over while somebody waits *)
(* for it, for any number of threads, mutexes and priorities: Mutex        *)
(* implements Lock.                                                        *)
(* With one mutex at a time, an owner inherits priorities and gives them   *)
(* back.                                                                   *)
(***************************************************************************)
EXTENDS Mutex, KernelProofs, FiniteSetTheorems

-----------------------------------------------------------------------------
(* The inductive invariant.  Every thread can run or is suspended, and the *)
(* current one is suspended only until it reaches rt_schedule.             *)
CurrentInv == k.stat[k.current] = "SUSPEND" => pc[k.current] = "sched"

ThenInv == \A t \in Thread : pc[t] # "sched" => then[t] = "user"

(* A waiter is suspended in the middle of rt_mutex_take about the mutex it *)
(* waits for, and nobody has touched its error.                            *)
Waiting(t, m) == /\ arg[t] = m /\ "granted" \in {pc[t], then[t]}
                 /\ k.stat[t] = "SUSPEND" /\ k.error[t] = "EOK"

WaiterInv == \A m \in Mutex : \A t \in ToSet(k.wait[m]) : Waiting(t, m)

OrigInv == \A m \in Mutex : mtx[m].owner # NoThread => mtx[m].orig \in Prio

(* What is true of the threads, and of the mutexes. *)
ThreadInv == /\ Sound(k)
             /\ pc \in [Thread -> Location]
             /\ then \in [Thread -> {"user", "woken", "granted"}]
             /\ arg \in [Thread -> Mutex]
             /\ CurrentInv /\ ThenInv /\ WaiterInv

MutexInv == /\ mtx \in [Mutex -> MutexState]
            /\ held \in [Thread -> [Mutex -> Nat]]
            /\ OrigInv /\ Ownership /\ NoStrandedWaiter

RestInv == slice \in [Thread -> Nat \ {0}] /\ isr \in {"none", "timers"}

IInv == ThreadInv /\ MutexInv /\ RestInv
-----------------------------------------------------------------------------
(* Where a thread runs, but for the way to rt_schedule. *)
Awake == {"user", "woken", "granted"}

(* The thread that steps is neither suspended nor in a wait list. *)
LEMMA AtFacts ==
  ASSUME ThreadInv, NEW t, NEW l \in Awake, At(t, l)
  PROVE  /\ t \in Thread /\ t = k.current /\ isr = "none"
         /\ pc[t] = l /\ then[t] = "user"
         /\ k \in KernelState /\ k.stat[t] # "SUSPEND"
         /\ \A m \in Mutex : t \notin ToSet(k.wait[m])
         /\ l # "granted" => \A m \in Mutex : ~Granted(t, m)
<1>1. t = k.current /\ isr = "none" /\ pc[t] = l /\ l # "sched"
  BY DEF At, Awake
<1>2. k \in KernelState /\ t \in Thread
  BY <1>1 DEF ThreadInv, Sound, KernelState
<1>3. then[t] = "user" /\ k.stat[t] # "SUSPEND"
  BY <1>1, <1>2 DEF ThreadInv, ThenInv, CurrentInv
<1>4. \A m \in Mutex : t \notin ToSet(k.wait[m])
  BY <1>3 DEF ThreadInv, WaiterInv, Waiting
<1>5. l # "granted" => \A m \in Mutex : ~Granted(t, m)
  BY <1>1, <1>3 DEF Granted
<1> QED
  BY <1>1, <1>2, <1>3, <1>4, <1>5

(* The lists that are sets of threads. *)
LEMMA WaitersAreThreads ==
  ASSUME ThreadInv, NEW m \in Mutex
  PROVE  ToSet(k.wait[m]) \subseteq Thread
<1>1. k.wait[m] \in Seq(Thread)
  BY DEF ThreadInv, Sound, KernelState, Mutex
<1> QED
  BY <1>1, ListEmpty

(* A step of t that neither suspends nor wakes anybody. *)
LEMMA CalmKeeps ==
  ASSUME ThreadInv, Sound(k'), Calm(k, k'), arg' = arg,
         NEW t \in Thread, NEW l \in Location, NEW h \in {"user", "woken", "granted"},
         pc' = [pc EXCEPT ![t] = l], then' = [then EXCEPT ![t] = h],
         l # "sched" => h = "user",
         k.stat[t] = "SUSPEND" /\ "granted" \in {pc[t], then[t]} => "granted" \in {l, h},
         \A y \in Thread : k.stat[y] = "SUSPEND" => k'.error[y] = k.error[y],
         k'.stat[k'.current] = "SUSPEND" => pc'[k'.current] = "sched"
  PROVE  ThreadInv'
<1>1. /\ pc' \in [Thread -> Location] /\ then' \in [Thread -> {"user", "woken", "granted"}]
      /\ arg' \in [Thread -> Mutex]
      /\ \A y \in Thread : pc'[y] = IF y = t THEN l ELSE pc[y]
      /\ \A y \in Thread : then'[y] = IF y = t THEN h ELSE then[y]
  BY DEF ThreadInv
<1>2. ThenInv'
  BY <1>1 DEF ThreadInv, ThenInv
<1>3. WaiterInv'
  <2> SUFFICES ASSUME NEW m \in Mutex, NEW y \in ToSet(k'.wait[m])
               PROVE  Waiting(y, m)'
    BY DEF WaiterInv
  <2>1. y \in ToSet(k.wait[m]) /\ y \in Thread
    BY WaitersAreThreads DEF Calm
  <2>2. Waiting(y, m)
    BY <2>1 DEF ThreadInv, WaiterInv
  <2>3. "granted" \in {pc'[y], then'[y]}
    BY <1>1, <2>1, <2>2 DEF Waiting
  <2>4. k'.stat[y] = "SUSPEND" /\ k'.error[y] = "EOK"
    BY <2>1, <2>2 DEF Waiting, Calm
  <2> QED
    BY <2>2, <2>3, <2>4 DEF Waiting
<1> QED
  BY <1>1, <1>2, <1>3 DEF ThreadInv, CurrentInv

(* A mutex handed to y stays so while y does not step. *)
LEMMA CalmGrants ==
  ASSUME Calm(k, k'), arg' = arg, NEW y \in Thread, NEW m \in Mutex,
         {pc'[y], then'[y]} = {pc[y], then[y]}, k'.error[y] = k.error[y]
  PROVE  Granted(y, m)' <=> Granted(y, m)
BY DEF Granted, Calm

(* A step that is not about the mutexes. *)
LEMMA MutexKeeps ==
  ASSUME MutexInv, UNCHANGED <<mtx, held>>,
         \A m \in Mutex : k.wait[m] = << >> => k'.wait[m] = << >>,
         \A y \in Thread, m \in Mutex : Granted(y, m)' <=> Granted(y, m)
  PROVE  MutexInv'
<1>1. Ownership'
  BY DEF MutexInv, Ownership
<1>2. NoStrandedWaiter' /\ OrigInv'
  BY DEF MutexInv, NoStrandedWaiter, OrigInv
<1> QED
  BY <1>1, <1>2 DEF MutexInv
-----------------------------------------------------------------------------
(* The sections of t that only write its error. *)
WritesError(t, l) ==
  /\ k' = k \/ \E e \in Errno : k' = [k EXCEPT !.error[t] = e]
  /\ pc' = [pc EXCEPT ![t] = l] /\ then' = then /\ arg' = arg

(* They leave every list, and what every other thread was handed, alone.   *)
LEMMA ErrorKeeps ==
  ASSUME ThreadInv, NEW t, NEW c \in Awake, At(t, c), NEW l \in {"user", "sched"},
         WritesError(t, l)
  PROVE  /\ ThreadInv' /\ k'.wait = k.wait /\ k'.stat = k.stat
         /\ \A y \in Thread \ {t}, m \in Mutex : Granted(y, m)' <=> Granted(y, m)
         /\ \A m \in Mutex : ~Granted(t, m)'
<1> USE DEF WritesError
<1>1. /\ t \in Thread /\ t = k.current
      /\ pc[t] = c /\ then[t] = "user" /\ k \in KernelState /\ k.stat[t] # "SUSPEND"
  BY AtFacts
<1>2. /\ Sound(k') /\ Calm(k, k') /\ k'.current = k.current /\ k'.stat = k.stat
      /\ \A y \in Thread \ {t} : k'.error[y] = k.error[y]
  <2>1. CASE k' = k
    BY <2>1 DEF ThreadInv, Calm
  <2>2. CASE \E e \in Errno : k' = [k EXCEPT !.error[t] = e]
    <3>1. PICK e \in Errno : k' = [k EXCEPT !.error[t] = e]
      BY <2>2
    <3>2. /\ Sound(k') /\ Calm(k, k') /\ k'.current = k.current /\ k'.stat = k.stat
          /\ k'.error = [k.error EXCEPT ![t] = e]
      <4>1. k \in KernelState /\ Sound(k) /\ t \in Thread /\ e \in Errno
        BY <1>1, <3>1 DEF ThreadInv
      <4> QED
        BY <3>1, <4>1, ErrorFacts
    <3> QED
      BY <3>2, <1>1 DEF KernelState
  <2> QED
    BY <2>1, <2>2
<1>3. /\ then' = [then EXCEPT ![t] = "user"] /\ l \in Location
      /\ \A y \in Thread \ {t} : pc'[y] = pc[y] /\ then'[y] = then[y]
      /\ pc'[t] = l /\ then'[t] = "user"
  BY <1>1 DEF ThreadInv, Location
<1>4. k'.stat[k'.current] # "SUSPEND"
  BY <1>1, <1>2
<1>5. ThreadInv'
  BY <1>1, <1>2, <1>3, <1>4, CalmKeeps
<1>6. \A y \in Thread \ {t}, m \in Mutex : Granted(y, m)' <=> Granted(y, m)
  BY <1>2, <1>3, CalmGrants
<1>7. \A m \in Mutex : ~Granted(t, m)'
  BY <1>3 DEF Granted
<1> QED
  BY <1>2, <1>5, <1>6, <1>7 DEF Calm
-----------------------------------------------------------------------------
(* rt_mutex_take by the owner. *)
LEMMA TakeAgainKeeps ==
  ASSUME IInv, NEW t, NEW m \in Mutex, TakeAgain(t, m)
  PROVE  IInv'
<1>1. /\ At(t, "user") /\ mtx[m].owner = t
      /\ k' = [k EXCEPT !.error[t] = "EOK"]
      /\ mtx' = [mtx EXCEPT ![m].hold = @ + 1]
      /\ held' = [held EXCEPT ![t][m] = @ + 1]
      /\ UNCHANGED <<pc, then, slice, isr, arg>>
  BY DEF TakeAgain, Reset, Gains
<1>2. t \in Thread /\ pc[t] = "user" /\ \A n \in Mutex : ~Granted(t, n)
  BY <1>1, AtFacts DEF IInv, Awake
<1>3. WritesError(t, "user")
  <2>1. "EOK" \in Errno /\ pc' = [pc EXCEPT ![t] = "user"]
    BY <1>1, <1>2 DEF Errno, IInv, ThreadInv
  <2> QED
    BY <1>1, <2>1 DEF WritesError
<1>4. /\ ThreadInv' /\ k'.wait = k.wait
      /\ \A y \in Thread \ {t}, n \in Mutex : Granted(y, n)' <=> Granted(y, n)
      /\ \A n \in Mutex : ~Granted(t, n)'
  BY <1>1, <1>3, ErrorKeeps DEF IInv, Awake
<1>5. MutexInv /\ mtx \in [Mutex -> MutexState] /\ held \in [Thread -> [Mutex -> Nat]]
  BY DEF IInv, MutexInv
<1>6. /\ \A n \in Mutex : /\ mtx'[n].owner = mtx[n].owner /\ mtx'[n].value = mtx[n].value
                          /\ mtx'[n].orig = mtx[n].orig
                          /\ mtx'[n].hold = IF n = m THEN mtx[n].hold + 1 ELSE mtx[n].hold
      /\ mtx' \in [Mutex -> MutexState]
  BY <1>1, <1>5 DEF MutexState
<1>7. /\ \A y \in Thread, n \in Mutex :
           held'[y][n] = IF y = t /\ n = m THEN held[y][n] + 1 ELSE held[y][n]
      /\ held' \in [Thread -> [Mutex -> Nat]]
  BY <1>1, <1>2, <1>5
<1>8. t # NoThread /\ \A n \in Mutex : mtx[n].hold \in Nat
  BY <1>2, <1>5, MutexAssumption DEF MutexState
<1>9. Ownership'
  <2> SUFFICES ASSUME NEW n \in Mutex, NEW y \in Thread
               PROVE  /\ held'[y][n] + (IF Granted(y, n)' THEN 1 ELSE 0)
                           = IF mtx'[n].owner = y THEN mtx'[n].hold ELSE 0
                      /\ (mtx'[n].owner = NoThread) <=> (mtx'[n].value = 1)
                      /\ (mtx'[n].owner = NoThread) <=> (mtx'[n].hold = 0)
    BY DEF Ownership
  <2>1. /\ held[y][n] + (IF Granted(y, n) THEN 1 ELSE 0)
             = IF mtx[n].owner = y THEN mtx[n].hold ELSE 0
        /\ (mtx[n].owner = NoThread) <=> (mtx[n].value = 1)
        /\ (mtx[n].owner = NoThread) <=> (mtx[n].hold = 0)
    BY <1>5 DEF MutexInv, Ownership
  <2>2. Granted(y, n)' <=> Granted(y, n)
    BY <1>2, <1>4
  <2>3. CASE y = t /\ n = m
    <3>1. ~Granted(y, n)
      BY <1>2, <2>3
    <3>2. held[y][n] = mtx[n].hold /\ held'[y][n] = held[y][n] + 1
      BY <1>1, <1>5, <1>7, <2>1, <2>3, <3>1
    <3> QED
      BY <1>1, <1>6, <1>8, <2>1, <2>2, <2>3, <3>1, <3>2
  <2>4. CASE ~(y = t /\ n = m)
    BY <1>1, <1>6, <1>7, <1>8, <2>1, <2>2, <2>4
  <2> QED
    BY <2>3, <2>4
<1>10. OrigInv' /\ NoStrandedWaiter'
  BY <1>4, <1>5, <1>6 DEF MutexInv, OrigInv, NoStrandedWaiter
<1> QED
  BY <1>1, <1>4, <1>6, <1>7, <1>9, <1>10 DEF IInv, MutexInv, RestInv

(* rt_mutex_take of a mutex that is available. *)
LEMMA TakeFreeKeeps ==
  ASSUME IInv, NEW t, NEW m \in Mutex, TakeFree(t, m)
  PROVE  IInv'
<1>1. /\ At(t, "user") /\ mtx[m].owner # t /\ mtx[m].value > 0
      /\ k' = [k EXCEPT !.error[t] = "EOK"]
      /\ mtx' = [mtx EXCEPT ![m] = [value |-> @.value - 1, owner |-> t,
                                    orig |-> k.prio[t], hold |-> @.hold + 1]]
      /\ held' = [held EXCEPT ![t][m] = @ + 1]
      /\ UNCHANGED <<pc, then, slice, isr, arg>>
  BY DEF TakeFree, Reset, Gains
<1>2. /\ t \in Thread /\ pc[t] = "user" /\ k \in KernelState
      /\ \A n \in Mutex : ~Granted(t, n)
  BY <1>1, AtFacts DEF IInv, Awake
<1>3. WritesError(t, "user")
  <2>1. "EOK" \in Errno /\ pc' = [pc EXCEPT ![t] = "user"]
    BY <1>1, <1>2 DEF Errno, IInv, ThreadInv
  <2> QED
    BY <1>1, <2>1 DEF WritesError
<1>4. /\ ThreadInv' /\ k'.wait = k.wait
      /\ \A y \in Thread \ {t}, n \in Mutex : Granted(y, n)' <=> Granted(y, n)
      /\ \A n \in Mutex : ~Granted(t, n)'
  BY <1>1, <1>3, ErrorKeeps DEF IInv, Awake
<1>5. MutexInv /\ mtx \in [Mutex -> MutexState] /\ held \in [Thread -> [Mutex -> Nat]]
  BY DEF IInv, MutexInv
<1>6. t # NoThread /\ k.prio[t] \in Prio
  BY <1>2, MutexAssumption DEF KernelState
<1>7. mtx[m].value = 1 /\ mtx[m].owner = NoThread /\ mtx[m].hold = 0
  <2>1. mtx[m].value \in 0 .. 1
    BY <1>5 DEF MutexState
  <2>2. mtx[m].value = 1
    BY <1>1, <2>1
  <2> QED
    BY <1>2, <1>5, <2>2 DEF MutexInv, Ownership
<1>8. /\ mtx'[m] = [value |-> 0, owner |-> t, orig |-> k.prio[t], hold |-> 1]
      /\ \A n \in Mutex \ {m} : mtx'[n] = mtx[n]
  BY <1>1, <1>5, <1>7
<1>9. mtx' \in [Mutex -> MutexState]
  BY <1>1, <1>2, <1>5, <1>6, <1>8 DEF MutexState
<1>10. /\ \A y \in Thread, n \in Mutex :
            held'[y][n] = IF y = t /\ n = m THEN held[y][n] + 1 ELSE held[y][n]
       /\ held' \in [Thread -> [Mutex -> Nat]]
  BY <1>1, <1>2, <1>5
<1>11. Ownership'
  <2> SUFFICES ASSUME NEW n \in Mutex, NEW y \in Thread
               PROVE  /\ held'[y][n] + (IF Granted(y, n)' THEN 1 ELSE 0)
                           = IF mtx'[n].owner = y THEN mtx'[n].hold ELSE 0
                      /\ (mtx'[n].owner = NoThread) <=> (mtx'[n].value = 1)
                      /\ (mtx'[n].owner = NoThread) <=> (mtx'[n].hold = 0)
    BY DEF Ownership
  <2>1. /\ held[y][n] + (IF Granted(y, n) THEN 1 ELSE 0)
             = IF mtx[n].owner = y THEN mtx[n].hold ELSE 0
        /\ (mtx[n].owner = NoThread) <=> (mtx[n].value = 1)
        /\ (mtx[n].owner = NoThread) <=> (mtx[n].hold = 0)
    BY <1>5 DEF MutexInv, Ownership
  <2>2. Granted(y, n)' <=> Granted(y, n)
    BY <1>2, <1>4
  <2>3. CASE n # m
    BY <1>8, <1>10, <2>1, <2>2, <2>3
  <2>4. CASE n = m
    <3>1. held[y][n] = 0 /\ ~Granted(y, n)
      <4>1. y # NoThread /\ held[y][n] \in Nat
        BY <1>5, MutexAssumption
      <4>2. held[y][n] + (IF Granted(y, n) THEN 1 ELSE 0) = 0
        BY <1>7, <2>1, <2>4, <4>1
      <4>3. CASE Granted(y, n)
        BY <4>1, <4>2, <4>3
      <4>4. CASE ~Granted(y, n)
        BY <4>1, <4>2, <4>4
      <4> QED
        BY <4>3, <4>4
    <3>2. mtx'[n].owner = t /\ mtx'[n].hold = 1 /\ mtx'[n].value = 0
      BY <1>8, <2>4
    <3> QED
      BY <1>6, <1>10, <2>2, <2>4, <3>1, <3>2
  <2> QED
    BY <2>3, <2>4
<1>12. OrigInv' /\ NoStrandedWaiter'
  <2> SUFFICES ASSUME NEW n \in Mutex
               PROVE  /\ mtx'[n].owner # NoThread => mtx'[n].orig \in Prio
                      /\ mtx'[n].owner = NoThread => k'.wait[n] = << >>
    BY DEF OrigInv, NoStrandedWaiter
  <2>1. CASE n = m
    <3>1. mtx'[n].owner = t /\ mtx'[n].orig = k.prio[t]
      BY <1>8, <2>1
    <3> QED
      BY <1>6, <3>1
  <2>2. CASE n # m
    BY <1>4, <1>5, <1>8, <2>2 DEF MutexInv, OrigInv, NoStrandedWaiter
  <2> QED
    BY <2>1, <2>2
<1> QED
  BY <1>1, <1>4, <1>9, <1>10, <1>11, <1>12 DEF IInv, MutexInv, RestInv

(* The calls that return an error at once. *)
LEMMA FailKeeps ==
  ASSUME IInv, NEW t, NEW m \in Mutex, TryFail(t, m) \/ ReleaseFail(t, m)
  PROVE  IInv'
<1>1. /\ At(t, "user")
      /\ \E e \in Errno : k' = [k EXCEPT !.error[t] = e]
      /\ UNCHANGED <<pc, then, slice, isr, mtx, arg, held>>
  BY DEF TryFail, ReleaseFail, Errno
<1>2. t \in Thread /\ pc[t] = "user" /\ \A n \in Mutex : ~Granted(t, n)
  BY <1>1, AtFacts DEF IInv, Awake
<1>3. WritesError(t, "user")
  BY <1>1, <1>2 DEF WritesError, IInv, ThreadInv
<1>4. /\ ThreadInv' /\ k'.wait = k.wait
      /\ \A y \in Thread \ {t}, n \in Mutex : Granted(y, n)' <=> Granted(y, n)
      /\ \A n \in Mutex : ~Granted(t, n)'
  BY <1>1, <1>3, ErrorKeeps DEF IInv, Awake
<1>5. MutexInv'
  BY <1>1, <1>2, <1>4, MutexKeeps DEF IInv
<1> QED
  BY <1>1, <1>4, <1>5 DEF IInv, RestInv

(* rt_thread_sleep after it returns. *)
LEMMA SleepReturnKeeps ==
  ASSUME IInv, NEW t, SleepReturn(t), UNCHANGED mutexVars
  PROVE  IInv'
<1>1. /\ At(t, "woken")
      /\ k' = [k EXCEPT !.error[t] = IF @ = "ETIMEOUT" THEN "EOK" ELSE @]
      /\ pc' = [pc EXCEPT ![t] = "user"]
      /\ UNCHANGED <<then, slice, isr, mtx, arg, held>>
  BY DEF SleepReturn, Goto, mutexVars
<1>2. t \in Thread /\ k \in KernelState /\ \A n \in Mutex : ~Granted(t, n)
  BY <1>1, AtFacts DEF IInv, Awake
<1>3. WritesError(t, "user")
  <2> DEFINE e == IF k.error[t] = "ETIMEOUT" THEN "EOK" ELSE k.error[t]
  <2>1. k' = [k EXCEPT !.error[t] = e] /\ e \in Errno
    BY <1>1, <1>2 DEF KernelState, Errno
  <2> QED
    BY <1>1, <2>1 DEF WritesError
<1>4. /\ ThreadInv' /\ k'.wait = k.wait
      /\ \A y \in Thread \ {t}, n \in Mutex : Granted(y, n)' <=> Granted(y, n)
      /\ \A n \in Mutex : ~Granted(t, n)'
  BY <1>1, <1>3, ErrorKeeps DEF IInv, Awake
<1>5. MutexInv'
  BY <1>1, <1>2, <1>4, MutexKeeps DEF IInv
<1> QED
  BY <1>1, <1>4, <1>5 DEF IInv, RestInv

(* rt_mutex_take after its rt_schedule. *)
LEMMA TakeReturnKeeps ==
  ASSUME IInv, NEW t, TakeReturn(t)
  PROVE  IInv'
<1>1. /\ At(t, "granted")
      /\ IF k.error[t] = "EOK" THEN held' = [held EXCEPT ![t][arg[t]] = @ + 1]
                              ELSE held' = held
      /\ pc' = [pc EXCEPT ![t] = "user"]
      /\ UNCHANGED <<k, then, slice, isr, mtx, arg>>
  BY DEF TakeReturn, Goto, Gains
<1>2. /\ t \in Thread /\ pc[t] = "granted" /\ k.stat[t] # "SUSPEND"
      /\ arg[t] \in Mutex
  BY <1>1, AtFacts DEF IInv, Awake, ThreadInv
<1>3. WritesError(t, "user")
  BY <1>1 DEF WritesError
<1>4. /\ ThreadInv' /\ k'.wait = k.wait
      /\ \A y \in Thread \ {t}, n \in Mutex : Granted(y, n)' <=> Granted(y, n)
      /\ \A n \in Mutex : ~Granted(t, n)'
  BY <1>1, <1>3, ErrorKeeps DEF IInv, Awake
<1>5. MutexInv /\ mtx \in [Mutex -> MutexState] /\ held \in [Thread -> [Mutex -> Nat]]
  BY DEF IInv, MutexInv
<1>6. \A n \in Mutex : Granted(t, n) <=> n = arg[t] /\ k.error[t] = "EOK"
  BY <1>2 DEF Granted
<1>7. /\ \A y \in Thread, n \in Mutex :
           held'[y][n] = IF y = t /\ n = arg[t] /\ k.error[t] = "EOK"
                         THEN held[y][n] + 1 ELSE held[y][n]
      /\ held' \in [Thread -> [Mutex -> Nat]]
  <2>1. CASE k.error[t] = "EOK"
    <3>1. held' = [held EXCEPT ![t][arg[t]] = @ + 1]
      BY <1>1, <2>1
    <3>2. held[t][arg[t]] + 1 \in Nat
      BY <1>2, <1>5
    <3> QED
      BY <1>2, <1>5, <2>1, <3>1, <3>2
  <2>2. CASE k.error[t] # "EOK"
    BY <1>1, <1>5, <2>2
  <2> QED
    BY <2>1, <2>2
<1>8. Ownership'
  <2> SUFFICES ASSUME NEW n \in Mutex, NEW y \in Thread
               PROVE  /\ held'[y][n] + (IF Granted(y, n)' THEN 1 ELSE 0)
                           = IF mtx'[n].owner = y THEN mtx'[n].hold ELSE 0
                      /\ (mtx'[n].owner = NoThread) <=> (mtx'[n].value = 1)
                      /\ (mtx'[n].owner = NoThread) <=> (mtx'[n].hold = 0)
    BY DEF Ownership
  <2>1. /\ held[y][n] + (IF Granted(y, n) THEN 1 ELSE 0)
             = IF mtx[n].owner = y THEN mtx[n].hold ELSE 0
        /\ (mtx[n].owner = NoThread) <=> (mtx[n].value = 1)
        /\ (mtx[n].owner = NoThread) <=> (mtx[n].hold = 0)
        /\ held[y][n] \in Nat
    BY <1>5 DEF MutexInv, Ownership
  <2>2. held'[y][n] + (IF Granted(y, n)' THEN 1 ELSE 0)
          = held[y][n] + (IF Granted(y, n) THEN 1 ELSE 0)
    <3>1. CASE y # t
      BY <1>4, <1>7, <3>1
    <3>2. CASE y = t /\ Granted(y, n)
      <4>1. held'[y][n] = held[y][n] + 1 /\ ~Granted(y, n)'
        BY <1>4, <1>6, <1>7, <3>2
      <4> QED
        BY <2>1, <3>2, <4>1
    <3>3. CASE y = t /\ ~Granted(y, n)
      <4>1. held'[y][n] = held[y][n] /\ ~Granted(y, n)'
        BY <1>4, <1>6, <1>7, <3>3
      <4> QED
        BY <3>3, <4>1
    <3> QED
      BY <3>1, <3>2, <3>3
  <2> QED
    BY <1>1, <2>1, <2>2
<1>9. OrigInv' /\ NoStrandedWaiter'
  BY <1>1, <1>5 DEF MutexInv, OrigInv, NoStrandedWaiter
<1> QED
  BY <1>1, <1>4, <1>5, <1>7, <1>8, <1>9 DEF IInv, MutexInv, RestInv
-----------------------------------------------------------------------------
(* rt_schedule. *)
LEMMA RescheduleKeeps ==
  ASSUME IInv, NEW t, Reschedule(t), UNCHANGED mutexVars
  PROVE  IInv'
<1>1. /\ t = k.current /\ pc[t] = "sched" /\ k' = Schedule(k)
      /\ pc' = [pc EXCEPT ![t] = then[t]] /\ then' = [then EXCEPT ![t] = "user"]
      /\ UNCHANGED <<slice, isr, mtx, arg, held>>
  BY DEF Reschedule, At, Goto, Then, mutexVars
<1>2. k \in KernelState /\ t \in Thread /\ Sound(k) /\ ThreadInv
  BY <1>1 DEF IInv, ThreadInv, Sound, KernelState
<1>3. then[t] \in {"user", "woken", "granted"} /\ then[t] \in Location
  BY <1>2 DEF ThreadInv, Location
<1>4. /\ Sound(k') /\ Calm(k, k') /\ k'.error = k.error
      /\ k.stat[t] = "SUSPEND" => k'.current # t
  BY <1>1, <1>2, ScheduleCalm
<1>5. k'.stat[k'.current] # "SUSPEND"
  BY <1>1, <1>2, <1>4 DEF Calm
<1>6. ThreadInv'
  <2> DEFINE l == then[t]
  <2>1. /\ arg' = arg /\ pc' = [pc EXCEPT ![t] = l]
        /\ l \in Location
        /\ "granted" \in {pc[t], then[t]} => "granted" \in {l, "user"}
        /\ \A y \in Thread : k.stat[y] = "SUSPEND" => k'.error[y] = k.error[y]
        /\ then' = [then EXCEPT ![t] = "user"]
    BY <1>1, <1>3, <1>4
  <2> HIDE DEF l
  <2> QED
    BY <1>2, <1>4, <1>5, <2>1, CalmKeeps
<1>7. \A y \in Thread, n \in Mutex : Granted(y, n)' <=> Granted(y, n)
  <2>1. \A y \in Thread : pc'[y] = IF y = t THEN then[t] ELSE pc[y]
    BY <1>1, <1>2 DEF ThreadInv
  <2>2. \A y \in Thread : then'[y] = IF y = t THEN "user" ELSE then[y]
    BY <1>1, <1>2 DEF ThreadInv
  <2> QED
    BY <1>1, <1>4, <2>1, <2>2 DEF Granted, Calm
<1>8. MutexInv'
  BY <1>1, <1>4, <1>7, MutexKeeps DEF IInv, Calm
<1> QED
  BY <1>1, <1>6, <1>8 DEF IInv, RestInv

(* The tick interrupt, but for the timers. *)
LEMMA TickKeeps ==
  ASSUME IInv, Tick \/ TickEnd, UNCHANGED mutexVars
  PROVE  IInv'
<1> DEFINE t == k.current
<1>1. /\ k' = Schedule(k) \/ k' = k
      /\ UNCHANGED <<pc, then, mtx, arg, held>>
  BY DEF Tick, TickEnd, mutexVars
<1>2. k \in KernelState /\ t \in Thread /\ Sound(k) /\ ThreadInv
  BY DEF IInv, ThreadInv, Sound, KernelState
<1>3. Sound(k') /\ Calm(k, k') /\ k'.error = k.error
  <2>1. CASE k' = Schedule(k)
    BY <1>2, <2>1, ScheduleCalm
  <2>2. CASE k' = k
    BY <1>2, <2>2 DEF Calm
  <2> QED
    BY <1>1, <2>1, <2>2
<1> HIDE DEF t
<1>4. k'.stat[k'.current] = "SUSPEND" => pc'[k'.current] = "sched"
  <2>1. k.current \in Thread
    BY <1>2 DEF t
  <2> QED
    BY <1>1, <1>2, <1>3, <2>1 DEF ThreadInv, CurrentInv, Calm
<1>5. ThreadInv'
  <2> DEFINE l == pc[t]
             h == then[t]
  <2>1. /\ arg' = arg
        /\ pc' = [pc EXCEPT ![t] = l] /\ then' = [then EXCEPT ![t] = h]
        /\ l \in Location /\ h \in {"user", "woken", "granted"}
        /\ l # "sched" => h = "user"
        /\ "granted" \in {pc[t], then[t]} => "granted" \in {l, h}
        /\ \A y \in Thread : k.stat[y] = "SUSPEND" => k'.error[y] = k.error[y]
    BY <1>1, <1>2, <1>3 DEF ThreadInv, ThenInv
  <2> HIDE DEF l, h
  <2> QED
    BY <1>2, <1>3, <1>4, <2>1, CalmKeeps
<1>6. \A y \in Thread, n \in Mutex : Granted(y, n)' <=> Granted(y, n)
  BY <1>1, <1>3 DEF Granted, Calm
<1>7. MutexInv'
  BY <1>1, <1>3, <1>6, MutexKeeps DEF IInv, Calm
<1>8. RestInv'
  <2>1. slice \in [Thread -> Nat \ {0}] /\ isr \in {"none", "timers"}
    BY DEF IInv, RestInv
  <2>2. CASE Tick
    <3> DEFINE n == IF slice[k.current] - 1 = 0 THEN InitTick[k.current]
                    ELSE slice[k.current] - 1
    <3>1. slice' = [slice EXCEPT ![k.current] = n] /\ isr' = "timers"
      BY <2>2 DEF Tick
    <3>2. slice[k.current] \in Nat \ {0} /\ InitTick[k.current] \in Nat \ {0}
      BY <1>2, <2>1, ThreadsAssumption DEF t
    <3>3. n \in Nat \ {0}
      BY <3>2
    <3> HIDE DEF n
    <3> QED
      BY <2>1, <3>1, <3>3 DEF RestInv
  <2>3. CASE TickEnd
    BY <2>1, <2>3 DEF TickEnd, RestInv
  <2> QED
    BY <2>2, <2>3
<1> QED
  BY <1>5, <1>7, <1>8 DEF IInv
-----------------------------------------------------------------------------
(* A step that wakes x; a thread outside the kernel may go to rt_schedule. *)
LEMMA WakeKeeps ==
  ASSUME ThreadInv, NEW x \in Thread, Sound(k'), Wakes(k, k', x),
         \A y \in Thread \ {x} : k'.error[y] = k.error[y],
         arg' = arg, then' = then, pc' \in [Thread -> Location],
         \A y \in Thread : pc'[y] = pc[y] \/ (pc[y] = "user" /\ pc'[y] = "sched")
  PROVE  /\ ThreadInv'
         /\ \A y \in Thread \ {x}, n \in Mutex : Granted(y, n)' <=> Granted(y, n)
         /\ \A n \in Mutex : k.wait[n] = << >> => k'.wait[n] = << >>
<1>1. k \in KernelState /\ k' \in KernelState /\ k'.current \in Thread /\ k.current \in Thread
  BY DEF ThreadInv, Sound, KernelState
<1>2. CurrentInv'
  BY <1>1 DEF ThreadInv, CurrentInv, Wakes
<1>3. ThenInv'
  BY DEF ThreadInv, ThenInv
<1>4. WaiterInv'
  <2> SUFFICES ASSUME NEW m \in Mutex, NEW y \in ToSet(k'.wait[m])
               PROVE  Waiting(y, m)'
    BY DEF WaiterInv
  <2>1. y \in ToSet(k.wait[m]) /\ y # x
    BY DEF Wakes, Mutex
  <2>2. y \in Thread
    BY <2>1, WaitersAreThreads
  <2>3. Waiting(y, m)
    BY <2>1 DEF ThreadInv, WaiterInv
  <2> QED
    BY <2>1, <2>2, <2>3 DEF Waiting, Wakes
<1>5. ThreadInv'
  BY <1>2, <1>3, <1>4 DEF ThreadInv
<1>6. \A y \in Thread \ {x}, n \in Mutex : Granted(y, n)' <=> Granted(y, n)
  BY DEF Granted, Wakes
<1>7. ASSUME NEW n \in Mutex, k.wait[n] = << >>
      PROVE  k'.wait[n] = << >>
  <2>1. k.wait[n] \in Seq(Thread) /\ k'.wait[n] \in Seq(Thread)
    BY <1>1 DEF KernelState, Mutex
  <2>2. ToSet(k'.wait[n]) \subseteq ToSet(k.wait[n])
    BY DEF Wakes, Mutex
  <2>3. ToSet(k.wait[n]) = {}
    BY <1>7, <2>1, ListEmpty
  <2>4. PICK s \in Seq(Thread) : s = k'.wait[n]
    BY <2>1
  <2>5. ToSet(s) = {}
    BY <2>2, <2>3, <2>4
  <2>6. s = << >>
    BY <2>5, ListEmpty
  <2> QED
    BY <2>4, <2>6
<1> QED
  BY <1>5, <1>6, <1>7

(* The timer of a thread expires: it sleeps, or waits for a mutex. *)
LEMMA TimerExpireKeeps ==
  ASSUME IInv, NEW t \in Thread, TimerExpire(t), UNCHANGED mutexVars
  PROVE  IInv'
<1>1. /\ k.timer[t] /\ k' = ThreadTimeout(k, t)
      /\ UNCHANGED <<pc, then, slice, isr, mtx, arg, held>>
  BY DEF TimerExpire, mutexVars
<1>2. /\ ThreadInv /\ k \in KernelState /\ Sound(k) /\ k.stat[t] = "SUSPEND"
      /\ pc \in [Thread -> Location]
  BY <1>1 DEF IInv, ThreadInv, Sound, TimedSuspended
<1>3. /\ Sound(k') /\ Wakes(k, k', t)
      /\ k'.error = [k.error EXCEPT ![t] = "ETIMEOUT"]
  BY <1>1, <1>2, TimeoutWakes
<1>4. /\ \A y \in Thread \ {t} : k'.error[y] = k.error[y]
      /\ k'.error[t] = "ETIMEOUT"
  BY <1>2, <1>3 DEF KernelState
<1>5. /\ ThreadInv'
      /\ \A y \in Thread \ {t}, n \in Mutex : Granted(y, n)' <=> Granted(y, n)
      /\ \A n \in Mutex : k.wait[n] = << >> => k'.wait[n] = << >>
  BY <1>1, <1>2, <1>3, <1>4, WakeKeeps
<1>6. \A n \in Mutex : ~Granted(t, n) /\ ~Granted(t, n)'
  BY <1>2, <1>4 DEF Granted
<1>7. MutexInv'
  BY <1>1, <1>5, <1>6, MutexKeeps DEF IInv
<1> QED
  BY <1>1, <1>5, <1>7 DEF IInv, RestInv
-----------------------------------------------------------------------------
(* The calling thread t suspends itself, and links itself in the lists M.  *)
LEMMA SuspendKeeps ==
  ASSUME ThreadInv, NEW t, At(t, "user"),
         NEW M \in SUBSET Mutex, NEW h \in {"woken", "granted"},
         Sound(k'), k'.current = k.current, k'.stat[t] = "SUSPEND",
         \A y \in Thread \ {t} : /\ k'.stat[y] = "SUSPEND" <=> k.stat[y] = "SUSPEND"
                                 /\ k'.error[y] = k.error[y] /\ arg'[y] = arg[y],
         \A n \in Mutex : ToSet(k'.wait[n]) =
           ToSet(k.wait[n]) \cup (IF n \in M THEN {t} ELSE {}),
         \A n \in M : arg'[t] = n /\ h = "granted" /\ k'.error[t] = "EOK",
         pc' = [pc EXCEPT ![t] = "sched"], then' = [then EXCEPT ![t] = h],
         arg' \in [Thread -> Mutex]
  PROVE  /\ ThreadInv'
         /\ \A y \in Thread, n \in Mutex : Granted(y, n)' <=> Granted(y, n)
<1>1. t \in Thread /\ t = k.current /\ \A n \in Mutex : ~Granted(t, n)
  BY AtFacts DEF Awake
<1>2. /\ pc' \in [Thread -> Location] /\ then' \in [Thread -> {"user", "woken", "granted"}]
      /\ \A y \in Thread : pc'[y] = IF y = t THEN "sched" ELSE pc[y]
      /\ \A y \in Thread : then'[y] = IF y = t THEN h ELSE then[y]
  BY <1>1 DEF ThreadInv, Location
<1>3. CurrentInv' /\ ThenInv'
  BY <1>1, <1>2 DEF ThreadInv, CurrentInv, ThenInv
<1>4. WaiterInv'
  <2> SUFFICES ASSUME NEW m \in Mutex, NEW y \in ToSet(k'.wait[m])
               PROVE  Waiting(y, m)'
    BY DEF WaiterInv
  <2>1. CASE y \in ToSet(k.wait[m])
    <3>1. Waiting(y, m) /\ y \in Thread
      BY <2>1, WaitersAreThreads DEF ThreadInv, WaiterInv
    <3>2. y # t
      BY <2>1, AtFacts DEF Awake
    <3> QED
      BY <1>2, <3>1, <3>2 DEF Waiting
  <2>2. CASE y \notin ToSet(k.wait[m])
    <3>1. y = t /\ m \in M
      BY <2>2
    <3> QED
      BY <1>1, <1>2, <3>1 DEF Waiting
  <2> QED
    BY <2>1, <2>2
<1>5. \A y \in Thread, n \in Mutex : Granted(y, n)' <=> Granted(y, n)
  <2> SUFFICES ASSUME NEW y \in Thread, NEW n \in Mutex
               PROVE  Granted(y, n)' <=> Granted(y, n)
    OBVIOUS
  <2>1. CASE y = t
    BY <1>1, <2>1 DEF Granted
  <2>2. CASE y # t
    BY <1>2, <2>2 DEF Granted
  <2> QED
    BY <2>1, <2>2
<1> QED
  BY <1>2, <1>3, <1>4, <1>5 DEF ThreadInv

(* rt_thread_sleep. *)
LEMMA SleepKeeps ==
  ASSUME IInv, NEW t \in Thread \ {Idle}, Sleep(t), UNCHANGED mutexVars
  PROVE  IInv'
<1> DEFINE u == ThreadSuspend(k, t)
<1>1. /\ At(t, "user") /\ k' = TimerStart(u, t)
      /\ pc' = [pc EXCEPT ![t] = "sched"] /\ then' = [then EXCEPT ![t] = "woken"]
      /\ UNCHANGED <<slice, isr, mtx, arg, held>>
  BY DEF Sleep, Goto, Then, mutexVars
<1>2. /\ ThreadInv /\ k \in KernelState /\ Sound(k) /\ k.stat[t] # "SUSPEND"
      /\ \A m \in Mutex : t \notin ToSet(k.wait[m])
      /\ arg \in [Thread -> Mutex]
  BY <1>1, AtFacts DEF IInv, Awake, ThreadInv
<1>3. /\ Sound(u) /\ Suspends(k, u, t)
      /\ \A q \in Queue : ToSet(u.wait[q]) = ToSet(k.wait[q]) \ {t}
  BY <1>2, SuspendFacts
<1> HIDE DEF u
<1>4. /\ Sound(k') /\ k'.current = u.current /\ k'.stat = u.stat
      /\ k'.wait = u.wait /\ k'.error = u.error
  BY <1>1, <1>3, TimerStartFacts DEF Sound, Suspends
<1>5. ASSUME NEW n \in Mutex
      PROVE  ToSet(k'.wait[n]) = ToSet(k.wait[n])
  <2>1. ToSet(k'.wait[n]) = ToSet(k.wait[n]) \ {t}
    BY <1>3, <1>4 DEF Mutex
  <2>2. t \notin ToSet(k.wait[n])
    BY <1>2
  <2> QED
    BY <2>1, <2>2
<1>6. /\ ThreadInv'
      /\ \A y \in Thread, n \in Mutex : Granted(y, n)' <=> Granted(y, n)
  <2> DEFINE M == {}
             h == "woken"
  <2>1. /\ M \in SUBSET Mutex /\ h \in {"woken", "granted"}
        /\ k'.current = k.current /\ k'.stat[t] = "SUSPEND"
        /\ \A y \in Thread \ {t} : /\ k'.stat[y] = "SUSPEND" <=> k.stat[y] = "SUSPEND"
                                   /\ k'.error[y] = k.error[y] /\ arg'[y] = arg[y]
        /\ \A n \in Mutex : ToSet(k'.wait[n]) =
             ToSet(k.wait[n]) \cup (IF n \in M THEN {t} ELSE {})
        /\ \A n \in M : arg'[t] = n /\ h = "granted" /\ k'.error[t] = "EOK"
        /\ pc' = [pc EXCEPT ![t] = "sched"] /\ then' = [then EXCEPT ![t] = h]
        /\ arg' \in [Thread -> Mutex]
    BY <1>1, <1>2, <1>3, <1>4, <1>5 DEF Suspends
  <2> HIDE DEF M, h
  <2> QED
    BY <1>1, <1>2, <1>4, <2>1, SuspendKeeps
<1>7. \A n \in Mutex : k.wait[n] = << >> => k'.wait[n] = << >>
  <2>1. k \in KernelState /\ k' \in KernelState
    BY <1>2, <1>4 DEF Sound
  <2>2. \A n \in Mutex : k.wait[n] \in Seq(Thread) /\ k'.wait[n] \in Seq(Thread)
    BY <2>1 DEF KernelState, Mutex
  <2> QED
    BY <1>5, <2>2, ListEmpty
<1>8. MutexInv'
  BY <1>1, <1>6, <1>7, MutexKeeps DEF IInv
<1> QED
  BY <1>1, <1>6, <1>8 DEF IInv, RestInv

(* The owner of a mutex inherits a priority: nobody is suspended by it. *)
LEMMA InheritCalm ==
  ASSUME NEW m \in Mutex, mtx[m].owner \in Thread, NEW t \in Thread,
         NEW r \in KernelState, Sound(r)
  PROVE  LET s == Inherit(r, m, t) IN
         /\ s \in KernelState /\ Sound(s) /\ Calm(r, s)
         /\ s.current = r.current /\ s.error = r.error
<1> DEFINE s == Inherit(r, m, t)
           o == mtx[m].owner
           p == r.prio[t]
<1>1. p \in Prio
  BY DEF KernelState
<1>2. CASE p < r.prio[o]
  <2>1. s = ChangePriority(r, o, p)
    BY <1>2 DEF Inherit
  <2> HIDE DEF p, o
  <2>2. o \in Thread
    BY DEF o
  <2> HIDE DEF s
  <2>3. /\ Sound(s) /\ Calm(r, s)
        /\ s.current = r.current /\ s.error = r.error
    BY <1>1, <2>1, <2>2, ChangePriorityCalm
  <2> QED
    BY <2>3 DEF Sound, s
<1>3. CASE ~(p < r.prio[o])
  <2>1. s = r
    BY <1>3 DEF Inherit
  <2> QED
    BY <2>1 DEF Calm
<1> QED
  BY <1>2, <1>3

(* rt_mutex_take that waits. *)
LEMMA TakeWaitKeeps ==
  ASSUME IInv, NEW t \in Thread \ {Idle}, NEW m \in Mutex, TakeWait(t, m)
  PROVE  /\ IInv' /\ UNCHANGED mtx /\ mtx[m].owner \notin {NoThread, t}
         /\ t \notin ToSet(k.wait[m])
         /\ \A n \in Mutex : ToSet(k'.wait[n]) =
              ToSet(k.wait[n]) \cup (IF n = m THEN {t} ELSE {})
<1> DEFINE e == Reset(t)
           r == Inherit(e, m, t)
           s == IpcSuspend(r, m, t, Flag[m])
<1>1. /\ At(t, "user") /\ mtx[m].owner # t /\ mtx[m].value = 0
      /\ k' = s \/ k' = TimerStart(s, t)
      /\ arg' = [arg EXCEPT ![t] = m]
      /\ pc' = [pc EXCEPT ![t] = "sched"] /\ then' = [then EXCEPT ![t] = "granted"]
      /\ UNCHANGED <<slice, isr, mtx, held>>
  BY DEF TakeWait, Goto, Then
<1>2. /\ ThreadInv /\ k \in KernelState /\ Sound(k) /\ k.stat[t] # "SUSPEND"
      /\ \A n \in Mutex : t \notin ToSet(k.wait[n])
      /\ arg \in [Thread -> Mutex]
  BY <1>1, AtFacts DEF IInv, Awake, ThreadInv
<1>3. mtx[m].owner \in Thread
  <2>1. mtx[m].owner # NoThread
    BY <1>1 DEF IInv, MutexInv, Ownership
  <2> QED
    BY <2>1 DEF IInv, MutexInv, MutexState
<1>4. /\ e \in KernelState /\ Sound(e) /\ Calm(k, e)
      /\ e.current = k.current /\ e.error = [k.error EXCEPT ![t] = "EOK"]
  <2> DEFINE ok == "EOK"
  <2>1. e = [k EXCEPT !.error[t] = ok] /\ ok \in Errno
    BY DEF Reset, Errno
  <2> HIDE DEF e, ok
  <2>2. /\ Sound(e) /\ Calm(k, e)
        /\ e.current = k.current /\ e.error = [k.error EXCEPT ![t] = ok]
    BY <1>2, <2>1, ErrorFacts
  <2> QED
    BY <2>2 DEF Sound, ok
<1> HIDE DEF e
<1>5. /\ r \in KernelState /\ Sound(r) /\ Calm(e, r)
      /\ r.current = e.current /\ r.error = e.error
  BY <1>3, <1>4, InheritCalm
<1> HIDE DEF r
<1>6. r.stat[t] # "SUSPEND" /\ r.wait = k.wait
  BY <1>2, <1>4, <1>5 DEF Calm
<1>7. Sound(s) /\ Suspends(r, s, t) /\ Joins(r, s, t, m)
  <2> DEFINE f == Flag[m]
  <2>1. m \in Queue /\ t \in Thread \ {Idle} /\ r \in KernelState /\ Sound(r)
    BY <1>5 DEF Mutex
  <2>2. s = IpcSuspend(r, m, t, f)
    OBVIOUS
  <2>3. r.stat[t] # "SUSPEND"
    BY <1>6
  <2> HIDE DEF f, s
  <2> QED
    BY <2>1, <2>2, <2>3, IpcSuspendFacts
<1> HIDE DEF s
<1>8. /\ Sound(k') /\ k'.current = s.current /\ k'.stat = s.stat
      /\ k'.wait = s.wait /\ k'.error = s.error
  <2>1. CASE k' = s
    BY <1>7, <2>1
  <2>2. CASE k' = TimerStart(s, t)
    BY <1>7, <2>2, TimerStartFacts DEF Sound, Suspends
  <2> QED
    BY <1>1, <2>1, <2>2
<1>9. ASSUME NEW n \in Mutex
      PROVE  ToSet(k'.wait[n]) = ToSet(k.wait[n]) \cup (IF n = m THEN {t} ELSE {})
  <2>1. CASE n = m
    BY <1>6, <1>7, <1>8, <2>1 DEF Joins
  <2>2. CASE n # m
    <3>1. ToSet(k'.wait[n]) = ToSet(k.wait[n]) \ {t} /\ t \notin ToSet(k.wait[n])
      BY <1>2, <1>6, <1>7, <1>8, <2>2 DEF Mutex, Joins
    <3> QED
      BY <2>2, <3>1
  <2> QED
    BY <2>1, <2>2
<1>10. /\ k'.current = k.current /\ k'.stat[t] = "SUSPEND" /\ k'.error[t] = "EOK"
       /\ \A y \in Thread \ {t} : /\ k'.stat[y] = "SUSPEND" <=> k.stat[y] = "SUSPEND"
                                  /\ k'.error[y] = k.error[y]
  <2>1. k'.current = k.current /\ k'.stat[t] = "SUSPEND"
    BY <1>4, <1>5, <1>7, <1>8 DEF Suspends
  <2>2. k'.error = [k.error EXCEPT ![t] = "EOK"] /\ k.error \in [Thread -> Errno]
    BY <1>2, <1>4, <1>5, <1>7, <1>8 DEF Suspends, KernelState
  <2>3. ASSUME NEW y \in Thread \ {t}
        PROVE  k'.stat[y] = "SUSPEND" <=> k.stat[y] = "SUSPEND"
    BY <1>4, <1>5, <1>7, <1>8 DEF Suspends, Calm
  <2> QED
    BY <2>1, <2>2, <2>3
<1>11. /\ ThreadInv'
       /\ \A y \in Thread, n \in Mutex : Granted(y, n)' <=> Granted(y, n)
  <2> DEFINE M == {m}
             h == "granted"
  <2>1. /\ M \in SUBSET Mutex /\ h \in {"woken", "granted"}
        /\ \A y \in Thread \ {t} : /\ k'.stat[y] = "SUSPEND" <=> k.stat[y] = "SUSPEND"
                                   /\ k'.error[y] = k.error[y] /\ arg'[y] = arg[y]
        /\ \A n \in Mutex : ToSet(k'.wait[n]) =
             ToSet(k.wait[n]) \cup (IF n \in M THEN {t} ELSE {})
        /\ \A n \in M : arg'[t] = n /\ h = "granted" /\ k'.error[t] = "EOK"
        /\ pc' = [pc EXCEPT ![t] = "sched"] /\ then' = [then EXCEPT ![t] = h]
        /\ arg' \in [Thread -> Mutex]
    BY <1>1, <1>2, <1>9, <1>10
  <2>2. ThreadInv /\ At(t, "user") /\ Sound(k')
        /\ k'.current = k.current /\ k'.stat[t] = "SUSPEND"
    BY <1>1, <1>2, <1>8, <1>10
  <2> HIDE DEF M, h
  <2> QED
    BY <2>1, <2>2, SuspendKeeps
<1>12. Ownership' /\ OrigInv'
  BY <1>1, <1>11 DEF IInv, MutexInv, Ownership, OrigInv
<1>13. NoStrandedWaiter'
  <2> SUFFICES ASSUME NEW n \in Mutex, mtx'[n].owner = NoThread
               PROVE  k'.wait[n] = << >>
    BY DEF NoStrandedWaiter
  <2>1. n # m /\ k.wait[n] = << >>
    BY <1>1, <1>3, MutexAssumption DEF IInv, MutexInv, NoStrandedWaiter
  <2>2. k.wait[n] \in Seq(Thread) /\ k'.wait[n] \in Seq(Thread)
    BY <1>2, <1>8 DEF Sound, KernelState, Mutex
  <2>3. ToSet(k.wait[n]) = {}
    BY <2>1, <2>2, ListEmpty
  <2>4. ToSet(k'.wait[n]) = {}
    BY <1>9, <2>1, <2>3
  <2> QED
    BY <2>2, <2>4, ListEmpty
<1>14. MutexInv'
  BY <1>1, <1>12, <1>13 DEF IInv, MutexInv
<1> QED
  BY <1>1, <1>2, <1>3, <1>9, <1>11, <1>14, MutexAssumption DEF IInv, RestInv
-----------------------------------------------------------------------------
(* rt_mutex_release: what all its cases know. *)
LEMMA ReleaseFacts ==
  ASSUME IInv, NEW t, NEW m \in Mutex, Release(t, m)
  PROVE  /\ At(t, "user") /\ t \in Thread /\ t # NoThread
         /\ pc[t] = "user" /\ then[t] = "user"
         /\ mtx[m].owner = t /\ held[t][m] = mtx[m].hold
         /\ UNCHANGED <<then, slice, isr, arg>>
         /\ mtx \in [Mutex -> MutexState] /\ held' \in [Thread -> [Mutex -> Nat]]
         /\ \A y \in Thread, n \in Mutex : held[y][n] \in Nat
         /\ \A y \in Thread, n \in Mutex :
              held'[y][n] = IF y = t /\ n = m THEN held[y][n] - 1 ELSE held[y][n]
         /\ \A n \in Mutex : ~Granted(t, n) /\ t \notin ToSet(k.wait[n])
         /\ Sound(k) /\ pc \in [Thread -> Location]
<1>1. /\ At(t, "user") /\ mtx[m].owner = t
      /\ held' = [held EXCEPT ![t][m] = @ - 1]
      /\ UNCHANGED <<then, slice, isr, arg>>
  BY DEF Release
<1>2. /\ t \in Thread /\ pc[t] = "user" /\ then[t] = "user"
      /\ \A n \in Mutex : ~Granted(t, n) /\ t \notin ToSet(k.wait[n])
  BY <1>1, AtFacts DEF IInv, Awake
<1>3. t # NoThread
  BY <1>2, MutexAssumption
<1>4. mtx \in [Mutex -> MutexState] /\ held \in [Thread -> [Mutex -> Nat]]
  BY DEF IInv, MutexInv
<1>5. /\ held[t][m] \in Nat /\ mtx[m].hold \in Nat
      /\ \A y \in Thread, n \in Mutex : held[y][n] \in Nat
  BY <1>2, <1>4 DEF MutexState
<1>6. held[t][m] + 0 = mtx[m].hold
  <2>1. held[t][m] + (IF Granted(t, m) THEN 1 ELSE 0)
          = IF mtx[m].owner = t THEN mtx[m].hold ELSE 0
    BY <1>2 DEF IInv, MutexInv, Ownership
  <2>2. ~Granted(t, m)
    BY <1>2
  <2> QED
    BY <1>1, <2>1, <2>2
<1>7. mtx[m].hold # 0
  BY <1>1, <1>2, <1>3 DEF IInv, MutexInv, Ownership
<1>8. held[t][m] = mtx[m].hold /\ held[t][m] - 1 \in Nat
  <2> DEFINE h == held[t][m]
             d == mtx[m].hold
  <2>1. h \in Nat /\ d \in Nat
    BY <1>5
  <2>2. h + 0 = d
    BY <1>6
  <2>3. d # 0
    BY <1>7
  <2> HIDE DEF h, d
  <2>4. h = d /\ h - 1 \in Nat
    BY <2>1, <2>2, <2>3
  <2> QED
    BY <2>4 DEF h, d
<1>9. /\ \A y \in Thread, n \in Mutex :
           held'[y][n] = IF y = t /\ n = m THEN held[y][n] - 1 ELSE held[y][n]
      /\ held' \in [Thread -> [Mutex -> Nat]]
  <2> DEFINE d == held[t][m] - 1
  <2>1. held' = [held EXCEPT ![t][m] = d] /\ d \in Nat
    BY <1>1, <1>8
  <2> HIDE DEF d
  <2>2. /\ \A y \in Thread, n \in Mutex :
             held'[y][n] = IF y = t /\ n = m THEN d ELSE held[y][n]
        /\ held' \in [Thread -> [Mutex -> Nat]]
    BY <1>2, <1>4, <2>1
  <2> QED
    BY <2>2 DEF d
<1> QED
  BY <1>1, <1>2, <1>3, <1>4, <1>5, <1>8, <1>9 DEF IInv, ThreadInv

(* An inner release. *)
LEMMA LeaveKeeps ==
  ASSUME IInv, NEW t, NEW m \in Mutex, Release(t, m), mtx[m].hold > 1
  PROVE  /\ IInv' /\ k' = k
         /\ mtx[m].owner = t
         /\ mtx' = [mtx EXCEPT ![m].hold = @ - 1]
<1>1. /\ t \in Thread /\ t # NoThread
      /\ mtx[m].owner = t /\ held[t][m] = mtx[m].hold
      /\ UNCHANGED <<then, slice, isr, arg>>
      /\ mtx \in [Mutex -> MutexState] /\ held' \in [Thread -> [Mutex -> Nat]]
      /\ \A y \in Thread, n \in Mutex :
           held'[y][n] = IF y = t /\ n = m THEN held[y][n] - 1 ELSE held[y][n]
      /\ \A n \in Mutex : ~Granted(t, n)
  BY ReleaseFacts
<1> DEFINE h == mtx[m].hold
           d == h - 1
<1>2. h # 1 /\ h # 0 /\ h \in Nat /\ d \in Nat /\ d # 0 /\ d + 1 = h
  <2>1. h \in Nat /\ h > 1
    BY <1>1 DEF MutexState
  <2> HIDE DEF h
  <2> QED
    BY <2>1
<1>3. mtx' = [mtx EXCEPT ![m].hold = d] /\ k' = k /\ pc' = pc
  BY <1>2 DEF Release
<1> HIDE DEF d
<1>4. ThreadInv'
  <2>1. ThreadInv
    BY DEF IInv
  <2>2. CurrentInv' /\ ThenInv' /\ WaiterInv'
    BY <1>1, <1>3, <2>1 DEF ThreadInv, CurrentInv, ThenInv, WaiterInv, Waiting
  <2> QED
    BY <1>1, <1>3, <2>1, <2>2 DEF ThreadInv
<1>5. \A y \in Thread, n \in Mutex : Granted(y, n)' <=> Granted(y, n)
  BY <1>1, <1>3 DEF Granted
<1>6. /\ \A n \in Mutex : /\ mtx'[n].owner = mtx[n].owner /\ mtx'[n].value = mtx[n].value
                          /\ mtx'[n].orig = mtx[n].orig
                          /\ n # m => mtx'[n].hold = mtx[n].hold
      /\ mtx'[m].hold = d
      /\ mtx' \in [Mutex -> MutexState]
  <2>1. \A n \in Mutex : mtx'[n] = IF n = m THEN [mtx[n] EXCEPT !.hold = d] ELSE mtx[n]
    BY <1>1, <1>3
  <2>2. \A n \in Mutex : mtx[n] \in MutexState /\ mtx'[n] \in MutexState
    <3>1. \A n \in Mutex : mtx[n] \in MutexState
      BY <1>1
    <3>2. \A s \in MutexState : [s EXCEPT !.hold = d] \in MutexState
      <4>1. d \in Nat
        BY <1>2
      <4> QED
        BY <4>1 DEF MutexState
    <3> QED
      BY <2>1, <3>1, <3>2
  <2>3. \A n \in Mutex : /\ mtx'[n].owner = mtx[n].owner /\ mtx'[n].value = mtx[n].value
                         /\ mtx'[n].orig = mtx[n].orig
                         /\ n # m => mtx'[n].hold = mtx[n].hold
    BY <2>1, <2>2 DEF MutexState
  <2>4. mtx'[m].hold = d
    BY <2>1, <2>2 DEF MutexState
  <2>5. mtx' \in [Mutex -> MutexState]
    BY <1>1, <1>3, <2>2
  <2> QED
    BY <2>3, <2>4, <2>5
<1> HIDE DEF h
<1>7. Ownership'
  <2> SUFFICES ASSUME NEW n \in Mutex, NEW y \in Thread
               PROVE  /\ held'[y][n] + (IF Granted(y, n)' THEN 1 ELSE 0)
                           = IF mtx'[n].owner = y THEN mtx'[n].hold ELSE 0
                      /\ (mtx'[n].owner = NoThread) <=> (mtx'[n].value = 1)
                      /\ (mtx'[n].owner = NoThread) <=> (mtx'[n].hold = 0)
    BY DEF Ownership
  <2>1. /\ held[y][n] + (IF Granted(y, n) THEN 1 ELSE 0)
             = IF mtx[n].owner = y THEN mtx[n].hold ELSE 0
        /\ (mtx[n].owner = NoThread) <=> (mtx[n].value = 1)
        /\ (mtx[n].owner = NoThread) <=> (mtx[n].hold = 0)
    BY DEF IInv, MutexInv, Ownership
  <2> DEFINE old == mtx[n]
             new == mtx'[n]
  <2>2. /\ new.owner = old.owner /\ new.value = old.value
        /\ n # m => new.hold = old.hold
        /\ n = m => new.hold = d /\ old.owner = t
    <3>1. n = m => new.hold = d /\ old.owner = t
      BY <1>1, <1>6
    <3> QED
      BY <1>6, <3>1
  <2>3. /\ (old.owner = NoThread) <=> (old.value = 1)
        /\ (old.owner = NoThread) <=> (old.hold = 0)
        /\ held[y][n] + (IF Granted(y, n) THEN 1 ELSE 0)
             = IF old.owner = y THEN old.hold ELSE 0
    BY <2>1
  <2> HIDE DEF old, new
  <2>4. (new.owner = NoThread) <=> (new.value = 1)
    BY <2>2, <2>3
  <2>5. (new.owner = NoThread) <=> (new.hold = 0)
    BY <1>1, <1>2, <2>2, <2>3
  <2>6. held'[y][n] + (IF Granted(y, n)' THEN 1 ELSE 0)
          = IF new.owner = y THEN new.hold ELSE 0
    <3>1. CASE y = t /\ n = m
      <4>1. held'[y][n] = d
        BY <1>1, <3>1 DEF d, h
      <4>2. (IF Granted(y, n)' THEN 1 ELSE 0) = 0
        BY <1>1, <1>5, <3>1
      <4>3. d + 0 = d
        BY <1>2
      <4>4. (IF new.owner = y THEN new.hold ELSE 0) = d
        BY <2>2, <3>1
      <4> QED
        BY <4>1, <4>2, <4>3, <4>4
    <3>2. CASE ~(y = t /\ n = m)
      <4>1. held'[y][n] = held[y][n]
        BY <1>1, <3>2
      <4>2. (IF Granted(y, n)' THEN 1 ELSE 0) = IF Granted(y, n) THEN 1 ELSE 0
        BY <1>5
      <4>3. (IF new.owner = y THEN new.hold ELSE 0)
              = IF old.owner = y THEN old.hold ELSE 0
        BY <2>2, <3>2
      <4> QED
        BY <2>3, <4>1, <4>2, <4>3
    <3> QED
      BY <3>1, <3>2
  <2> QED
    BY <2>4, <2>5, <2>6 DEF new
<1>8. OrigInv' /\ NoStrandedWaiter'
  BY <1>3, <1>6 DEF IInv, MutexInv, OrigInv, NoStrandedWaiter
<1> QED
  BY <1>1, <1>3, <1>4, <1>6, <1>7, <1>8 DEF IInv, MutexInv, RestInv, d, h

(* The priority of the owner is put back. *)
LEMMA RestoreCalm ==
  ASSUME IInv, NEW t \in Thread, NEW m \in Mutex, mtx[m].owner = t, t # NoThread
  PROVE  LET r == Restore(m, t) IN
         /\ r \in KernelState /\ Sound(r) /\ Calm(k, r)
         /\ r.current = k.current /\ r.error = k.error
<1> DEFINE r == Restore(m, t)
           p == mtx[m].orig
<1>1. p \in Prio /\ k \in KernelState /\ Sound(k)
  BY DEF IInv, ThreadInv, MutexInv, OrigInv, Sound
<1>2. CASE p # k.prio[t]
  <2>1. r = ChangePriority(k, t, p)
    BY <1>2 DEF Restore
  <2> HIDE DEF p, r
  <2>2. /\ Sound(r) /\ Calm(k, r)
        /\ r.current = k.current /\ r.error = k.error
    BY <1>1, <2>1, ChangePriorityCalm
  <2> QED
    BY <2>2 DEF Sound, r
<1>3. CASE p = k.prio[t]
  <2>1. r = k
    BY <1>3 DEF Restore
  <2> QED
    BY <1>1, <2>1 DEF Calm
<1> QED
  BY <1>2, <1>3

(* The last release when nobody waits. *)
LEMMA FreeKeeps ==
  ASSUME IInv, NEW t, NEW m \in Mutex, Release(t, m), mtx[m].hold = 1,
         k.wait[m] = << >>
  PROVE  /\ IInv' /\ k'.wait = k.wait
         /\ mtx[m].owner = t
         /\ mtx' = [mtx EXCEPT ![m] = Free]
<1> DEFINE r == Restore(m, t)
<1>1. /\ At(t, "user") /\ t \in Thread /\ t # NoThread
      /\ pc[t] = "user" /\ then[t] = "user"
      /\ mtx[m].owner = t /\ held[t][m] = mtx[m].hold
      /\ UNCHANGED <<then, slice, isr, arg>>
      /\ mtx \in [Mutex -> MutexState] /\ held' \in [Thread -> [Mutex -> Nat]]
      /\ \A y \in Thread, n \in Mutex : held[y][n] \in Nat
      /\ \A y \in Thread, n \in Mutex :
           held'[y][n] = IF y = t /\ n = m THEN held[y][n] - 1 ELSE held[y][n]
      /\ \A n \in Mutex : ~Granted(t, n)
      /\ Sound(k) /\ pc \in [Thread -> Location]
  BY ReleaseFacts
<1>2. mtx' = [mtx EXCEPT ![m] = Free] /\ k' = r /\ pc' = pc
  BY DEF Release
<1>3. /\ Sound(k') /\ Calm(k, k') /\ k'.current = k.current /\ k'.error = k.error
  BY <1>1, <1>2, RestoreCalm
<1> HIDE DEF r
<1>4. k'.wait = k.wait
  BY <1>3 DEF Calm
<1>5. ThreadInv'
  <2> DEFINE l == "user"
  <2>1. /\ ThreadInv /\ arg' = arg
        /\ pc' = [pc EXCEPT ![t] = l] /\ then' = [then EXCEPT ![t] = "user"]
        /\ l \in Location
        /\ \A y \in Thread : k.stat[y] = "SUSPEND" => k'.error[y] = k.error[y]
        /\ "granted" \notin {pc[t], then[t]}
    BY <1>1, <1>2, <1>3 DEF IInv, ThreadInv, Location
  <2>2. k'.stat[k'.current] = "SUSPEND" => pc'[k'.current] = "sched"
    <3>1. k.current \in Thread
      BY <1>1 DEF Sound, KernelState
    <3> QED
      BY <1>2, <1>3, <2>1, <3>1 DEF ThreadInv, CurrentInv, Calm
  <2>3. l # "sched" => "user" = "user"
    OBVIOUS
  <2> HIDE DEF l
  <2> QED
    BY <1>1, <1>3, <2>1, <2>2, <2>3, CalmKeeps
<1>6. \A y \in Thread, n \in Mutex : Granted(y, n)' <=> Granted(y, n)
  BY <1>1, <1>2, <1>3 DEF Granted, Calm
<1>7. /\ mtx'[m] = Free
      /\ \A n \in Mutex \ {m} : mtx'[n] = mtx[n]
  BY <1>1, <1>2
<1>8. Free \in MutexState
  BY DEF Free, MutexState
<1>9. mtx' \in [Mutex -> MutexState]
  BY <1>1, <1>2, <1>8
<1>10. Ownership'
  <2> SUFFICES ASSUME NEW n \in Mutex, NEW y \in Thread
               PROVE  /\ held'[y][n] + (IF Granted(y, n)' THEN 1 ELSE 0)
                           = IF mtx'[n].owner = y THEN mtx'[n].hold ELSE 0
                      /\ (mtx'[n].owner = NoThread) <=> (mtx'[n].value = 1)
                      /\ (mtx'[n].owner = NoThread) <=> (mtx'[n].hold = 0)
    BY DEF Ownership
  <2>1. /\ held[y][n] + (IF Granted(y, n) THEN 1 ELSE 0)
             = IF mtx[n].owner = y THEN mtx[n].hold ELSE 0
        /\ (mtx[n].owner = NoThread) <=> (mtx[n].value = 1)
        /\ (mtx[n].owner = NoThread) <=> (mtx[n].hold = 0)
    BY DEF IInv, MutexInv, Ownership
  <2>2. CASE n # m
    BY <1>1, <1>6, <1>7, <2>1, <2>2
  <2>3. CASE n = m
    <3>1. mtx'[n].owner = NoThread /\ mtx'[n].hold = 0 /\ mtx'[n].value = 1
      BY <1>7, <2>3 DEF Free
    <3>2. y # NoThread
      BY MutexAssumption
    <3>3. held'[y][n] = 0 /\ ~Granted(y, n)'
      <4>1. CASE y = t
        BY <1>1, <1>6, <2>3, <4>1
      <4>2. CASE y # t
        <5>1. held[y][n] + (IF Granted(y, n) THEN 1 ELSE 0) = 0 /\ held[y][n] \in Nat
          BY <1>1, <2>1, <2>3, <4>2
        <5>2. CASE Granted(y, n)
          BY <5>1, <5>2
        <5>3. CASE ~Granted(y, n)
          BY <1>1, <1>6, <4>2, <5>1, <5>3
        <5> QED
          BY <5>2, <5>3
      <4> QED
        BY <4>1, <4>2
    <3> QED
      BY <3>1, <3>2, <3>3
  <2> QED
    BY <2>2, <2>3
<1>11. OrigInv' /\ NoStrandedWaiter'
  <2> SUFFICES ASSUME NEW n \in Mutex
               PROVE  /\ mtx'[n].owner # NoThread => mtx'[n].orig \in Prio
                      /\ mtx'[n].owner = NoThread => k'.wait[n] = << >>
    BY DEF OrigInv, NoStrandedWaiter
  <2>1. CASE n = m
    BY <1>4, <1>7, <2>1 DEF Free
  <2>2. CASE n # m
    BY <1>4, <1>7, <2>2 DEF IInv, MutexInv, OrigInv, NoStrandedWaiter
  <2> QED
    BY <2>1, <2>2
<1> QED
  BY <1>1, <1>2, <1>4, <1>5, <1>9, <1>10, <1>11 DEF IInv, MutexInv, RestInv

(* The mutex passes from its owner to the waiter w. *)
HandsOver(m, w, p) ==
  /\ mtx' = [mtx EXCEPT ![m] = OwnedBy(w, p)]
  /\ \A n \in Mutex : ToSet(k'.wait[n]) =
       IF n = m THEN ToSet(k.wait[n]) \ {w} ELSE ToSet(k.wait[n])

(* The last release when somebody waits. *)
LEMMA HandOverKeeps ==
  ASSUME IInv, NEW t, NEW m \in Mutex, Release(t, m), mtx[m].hold = 1,
         k.wait[m] # << >>
  PROVE  /\ IInv' /\ mtx[m].owner = t
         /\ \E w \in ToSet(k.wait[m]), p \in Prio : HandsOver(m, w, p)
<1> DEFINE r == Restore(m, t)
<1>1. /\ At(t, "user") /\ t \in Thread /\ t # NoThread
      /\ pc[t] = "user" /\ then[t] = "user"
      /\ mtx[m].owner = t /\ held[t][m] = mtx[m].hold
      /\ UNCHANGED <<then, slice, isr, arg>>
      /\ mtx \in [Mutex -> MutexState] /\ held' \in [Thread -> [Mutex -> Nat]]
      /\ \A y \in Thread, n \in Mutex : held[y][n] \in Nat
      /\ \A y \in Thread, n \in Mutex :
           held'[y][n] = IF y = t /\ n = m THEN held[y][n] - 1 ELSE held[y][n]
      /\ \A n \in Mutex : ~Granted(t, n) /\ t \notin ToSet(k.wait[n])
      /\ Sound(k) /\ pc \in [Thread -> Location]
  BY ReleaseFacts
<1>2. /\ r \in KernelState /\ Sound(r) /\ Calm(k, r)
      /\ r.current = k.current /\ r.error = k.error
  BY <1>1, RestoreCalm
<1>3. PICK w \in Thread : w = Head(k.wait[m]) /\ w \in ToSet(k.wait[m])
  <2>1. k.wait[m] \in Seq(Thread)
    BY <1>1 DEF Sound, KernelState, Mutex
  <2> QED
    BY <2>1, ListEmpty
<1>4. PICK p \in Prio : p = r.prio[w]
  BY <1>2 DEF KernelState
<1>5. /\ mtx' = [mtx EXCEPT ![m] = OwnedBy(w, p)]
      /\ k' = ThreadResume(r, w)
      /\ pc' = [pc EXCEPT ![t] = "sched"]
  <2>1. /\ mtx' = [mtx EXCEPT ![m] = OwnedBy(w, p)]
        /\ k' = ThreadResume(r, Head(r.wait[m]))
        /\ pc' = [pc EXCEPT ![t] = "sched"]
    BY <1>3, <1>4 DEF Release, IpcResume, Goto
  <2> QED
    BY <1>2, <1>3, <2>1 DEF Calm
<1> HIDE DEF r
<1>6. /\ Waiting(w, m) /\ w # t /\ w # NoThread
      /\ r.stat[w] = "SUSPEND"
  <2>1. Waiting(w, m)
    BY <1>3 DEF IInv, ThreadInv, WaiterInv
  <2>2. w # t /\ w # NoThread
    BY <1>1, <1>3, MutexAssumption
  <2>3. r.stat[w] = "SUSPEND"
    BY <1>2, <2>1 DEF Waiting, Calm
  <2> QED
    BY <2>1, <2>2, <2>3
<1>7. /\ Sound(k') /\ Wakes(r, k', w) /\ k'.current = r.current /\ k'.error = r.error
  BY <1>2, <1>5, <1>6, ResumeWakes
<1>8. Wakes(k, k', w) /\ k'.error = k.error
  BY <1>2, <1>7 DEF Wakes, Calm
<1>9. /\ pc' \in [Thread -> Location]
      /\ \A y \in Thread : pc'[y] = IF y = t THEN "sched" ELSE pc[y]
  BY <1>1, <1>5 DEF Location
<1>10. /\ ThreadInv'
       /\ \A y \in Thread \ {w}, n \in Mutex : Granted(y, n)' <=> Granted(y, n)
       /\ \A n \in Mutex : k.wait[n] = << >> => k'.wait[n] = << >>
  <2>1. /\ \A y \in Thread \ {w} : k'.error[y] = k.error[y]
        /\ arg' = arg /\ then' = then
        /\ \A y \in Thread : pc'[y] = pc[y] \/ (pc[y] = "user" /\ pc'[y] = "sched")
    BY <1>1, <1>8, <1>9
  <2>2. ThreadInv
    BY DEF IInv
  <2> QED
    BY <1>7, <1>8, <1>9, <2>1, <2>2, WakeKeeps
<1>11. \A n \in Mutex : ~Granted(w, n) /\ (Granted(w, n)' <=> n = m)
  BY <1>1, <1>6, <1>8, <1>9 DEF Granted, Waiting, Wakes
<1>12. /\ mtx'[m] = OwnedBy(w, p)
       /\ \A n \in Mutex \ {m} : mtx'[n] = mtx[n]
  BY <1>1, <1>5
<1>13. OwnedBy(w, p) \in MutexState
  BY DEF OwnedBy, MutexState
<1>14. mtx' \in [Mutex -> MutexState]
  BY <1>1, <1>5, <1>13
<1>15. Ownership'
  <2> SUFFICES ASSUME NEW n \in Mutex, NEW y \in Thread
               PROVE  /\ held'[y][n] + (IF Granted(y, n)' THEN 1 ELSE 0)
                           = IF mtx'[n].owner = y THEN mtx'[n].hold ELSE 0
                      /\ (mtx'[n].owner = NoThread) <=> (mtx'[n].value = 1)
                      /\ (mtx'[n].owner = NoThread) <=> (mtx'[n].hold = 0)
    BY DEF Ownership
  <2>1. /\ held[y][n] + (IF Granted(y, n) THEN 1 ELSE 0)
             = IF mtx[n].owner = y THEN mtx[n].hold ELSE 0
        /\ (mtx[n].owner = NoThread) <=> (mtx[n].value = 1)
        /\ (mtx[n].owner = NoThread) <=> (mtx[n].hold = 0)
    BY DEF IInv, MutexInv, Ownership
  <2>2. CASE n # m
    <3>1. Granted(y, n)' <=> Granted(y, n)
      BY <1>10, <1>11, <2>2
    <3> QED
      BY <1>1, <1>12, <2>1, <2>2, <3>1
  <2>3. CASE n = m
    <3>1. mtx'[n].owner = w /\ mtx'[n].hold = 1 /\ mtx'[n].value = 0
      BY <1>12, <2>3 DEF OwnedBy
    <3>2. held'[y][n] = 0 /\ (Granted(y, n)' <=> y = w)
      <4>1. CASE y = t
        BY <1>1, <1>6, <1>10, <2>3, <4>1
      <4>2. CASE y # t
        <5>1. held[y][n] + (IF Granted(y, n) THEN 1 ELSE 0) = 0 /\ held[y][n] \in Nat
          BY <1>1, <2>1, <2>3, <4>2
        <5>2. CASE Granted(y, n)
          BY <5>1, <5>2
        <5>3. CASE ~Granted(y, n)
          <6>1. held'[y][n] = 0
            BY <1>1, <4>2, <5>1, <5>3
          <6>2. Granted(y, n)' <=> y = w
            BY <1>10, <1>11, <2>3, <5>3
          <6> QED
            BY <6>1, <6>2
        <5> QED
          BY <5>2, <5>3
      <4> QED
        BY <4>1, <4>2
    <3> QED
      BY <1>6, <3>1, <3>2
  <2> QED
    BY <2>2, <2>3
<1>16. OrigInv' /\ NoStrandedWaiter'
  <2> SUFFICES ASSUME NEW n \in Mutex
               PROVE  /\ mtx'[n].owner # NoThread => mtx'[n].orig \in Prio
                      /\ mtx'[n].owner = NoThread => k'.wait[n] = << >>
    BY DEF OrigInv, NoStrandedWaiter
  <2>1. CASE n = m
    BY <1>6, <1>12, <2>1 DEF OwnedBy
  <2>2. CASE n # m
    BY <1>10, <1>12, <2>2 DEF IInv, MutexInv, OrigInv, NoStrandedWaiter
  <2> QED
    BY <2>1, <2>2
<1>17. IInv'
  BY <1>1, <1>10, <1>14, <1>15, <1>16 DEF IInv, MutexInv, RestInv
<1>18. ASSUME NEW n \in Mutex
       PROVE  ToSet(k'.wait[n]) =
                IF n = m THEN ToSet(k.wait[n]) \ {w} ELSE ToSet(k.wait[n])
  <2>1. ToSet(k'.wait[n]) = ToSet(k.wait[n]) \ {w}
    BY <1>8 DEF Wakes, Mutex
  <2>2. n # m => w \notin ToSet(k.wait[n])
    BY <1>6 DEF IInv, ThreadInv, WaiterInv, Waiting
  <2> QED
    BY <2>1, <2>2
<1>19. HandsOver(m, w, p)
  BY <1>5, <1>18 DEF HandsOver
<1> QED
  BY <1>1, <1>3, <1>4, <1>17, <1>19

(* rt_mutex_release. *)
LEMMA ReleaseKeeps ==
  ASSUME IInv, NEW t, NEW m \in Mutex, Release(t, m)
  PROVE  IInv'
<1>1. mtx[m].hold > 1 \/ (mtx[m].hold = 1 /\ k.wait[m] = << >>)
        \/ (mtx[m].hold = 1 /\ k.wait[m] # << >>)
  BY DEF Release
<1> QED
  BY <1>1, LeaveKeeps, FreeKeeps, HandOverKeeps
-----------------------------------------------------------------------------
(* The state the system starts in. *)
LEMMA AsleepFacts ==
  ASSUME AllAsleep
  PROVE  /\ Sound(k) /\ k.current = Idle /\ k.stat[Idle] = "RUNNING"
         /\ \A q \in Queue : k.wait[q] = << >> /\ ToSet(k.wait[q]) = {}
<1>1. k = Asleep(InitPrio) /\ InitPrio \in [Thread -> Prio]
  BY ThreadsAssumption DEF AllAsleep, Asleep
<1> QED
  BY <1>1, AsleepSound

(* No mutex is owned or waited for at the start. *)
LEMMA InitIInv ==
  ASSUME Init
  PROVE  IInv
<1>1. /\ AllAsleep
      /\ mtx  = [m \in Mutex |-> Free]
      /\ arg  = [t \in Thread |-> CHOOSE m \in Mutex : TRUE]
      /\ held = [t \in Thread |-> [m \in Mutex |-> 0]]
  BY DEF Init
<1>2. /\ Sound(k) /\ k.current = Idle /\ k.stat[Idle] = "RUNNING"
      /\ \A m \in Mutex : k.wait[m] = << >> /\ ToSet(k.wait[m]) = {}
  BY <1>1, AsleepFacts DEF Mutex
<1>3. /\ pc \in [Thread -> Location]
      /\ then \in [Thread -> {"user", "woken", "granted"}]
      /\ \A t \in Thread : pc[t] \in {"user", "woken"} /\ then[t] = "user"
      /\ slice \in [Thread -> Nat \ {0}] /\ isr \in {"none", "timers"}
  BY <1>1, ThreadsAssumption DEF AllAsleep, Location
<1>4. arg \in [Thread -> Mutex]
  BY <1>1, MutexAssumption
<1>5. ThreadInv
  BY <1>2, <1>3, <1>4 DEF ThreadInv, CurrentInv, ThenInv, WaiterInv
<1>6. Free \in MutexState /\ Free.owner = NoThread /\ Free.value = 1 /\ Free.hold = 0
  BY DEF Free, MutexState
<1>7. /\ mtx \in [Mutex -> MutexState]
      /\ held \in [Thread -> [Mutex -> Nat]]
      /\ \A m \in Mutex : mtx[m] = Free
      /\ \A t \in Thread, m \in Mutex : held[t][m] = 0
  BY <1>1, <1>6
<1>8. OrigInv /\ NoStrandedWaiter
  BY <1>2, <1>6, <1>7 DEF OrigInv, NoStrandedWaiter
<1>9. \A t \in Thread, m \in Mutex : ~Granted(t, m)
  BY <1>3 DEF Granted
<1>10. Ownership
  BY <1>6, <1>7, <1>9, MutexAssumption DEF Ownership
<1> QED
  BY <1>3, <1>5, <1>7, <1>8, <1>10 DEF IInv, MutexInv, RestInv

(* Every call and every interrupt keeps the invariant. *)
LEMMA StepIInv ==
  ASSUME IInv, [Next]_vars
  PROVE  IInv'
<1>1. ASSUME NEW t \in Thread \ {Idle}, ThreadStep(t)
      PROVE  IInv'
  <2>1. ASSUME NEW m \in Mutex, TakeAgain(t, m)
        PROVE  IInv'
    BY <2>1, TakeAgainKeeps
  <2>2. ASSUME NEW m \in Mutex, TakeFree(t, m)
        PROVE  IInv'
    BY <2>2, TakeFreeKeeps
  <2>3. ASSUME NEW m \in Mutex, TryFail(t, m) \/ ReleaseFail(t, m)
        PROVE  IInv'
    BY <2>3, FailKeeps
  <2>4. ASSUME NEW m \in Mutex, TakeWait(t, m)
        PROVE  IInv'
    BY <2>4, TakeWaitKeeps
  <2>5. ASSUME NEW m \in Mutex, Release(t, m)
        PROVE  IInv'
    BY <2>5, ReleaseKeeps
  <2>6. CASE TakeReturn(t)
    BY <2>6, TakeReturnKeeps
  <2>7. CASE Reschedule(t) /\ UNCHANGED mutexVars
    BY <2>7, RescheduleKeeps
  <2>8. CASE Sleep(t) /\ UNCHANGED mutexVars
    BY <2>8, SleepKeeps
  <2>9. CASE SleepReturn(t) /\ UNCHANGED mutexVars
    BY <2>9, SleepReturnKeeps
  <2> QED
    BY <1>1, <2>1, <2>2, <2>3, <2>4, <2>5, <2>6, <2>7, <2>8, <2>9 DEF ThreadStep
<1>2. CASE Interrupt
  <2>1. CASE (Tick \/ TickEnd) /\ UNCHANGED mutexVars
    BY <2>1, TickKeeps
  <2>2. ASSUME NEW t \in Thread, TimerExpire(t), UNCHANGED mutexVars
        PROVE  IInv'
    BY <2>2, TimerExpireKeeps
  <2> QED
    BY <1>2, <2>1, <2>2 DEF Interrupt
<1>3. CASE UNCHANGED vars
  <2>1. UNCHANGED <<k, pc, then, slice, isr, mtx, arg, held>>
    BY <1>3 DEF vars
  <2>2. ThreadInv'
    BY <2>1 DEF IInv, ThreadInv, CurrentInv, ThenInv, WaiterInv, Waiting
  <2>3. \A y \in Thread, m \in Mutex : Granted(y, m)' <=> Granted(y, m)
    BY <2>1 DEF Granted
  <2>4. MutexInv'
    BY <2>1, <2>3, MutexKeeps DEF IInv
  <2> QED
    BY <2>1, <2>2, <2>4 DEF IInv, RestInv
<1> QED
  BY <1>1, <1>2, <1>3 DEF Next

(* What rt_mutex_take and rt_mutex_release rely on holds in every state.   *)
THEOREM Invariance == Spec => []IInv
<1>1. Init => IInv
  BY InitIInv
<1>2. IInv /\ [Next]_vars => IInv'
  BY StepIInv
<1> QED
  BY <1>1, <1>2, PTL DEF Spec
-----------------------------------------------------------------------------
(* What the users of one mutex see of a step. *)
LEMMA SeenAlike ==
  ASSUME NEW m \in Mutex, mtx'[m].owner = mtx[m].owner, mtx'[m].hold = mtx[m].hold,
         ToSet(k'.wait[m]) = ToSet(k.wait[m])
  PROVE  UNCHANGED L(m)!vars
BY DEF L!vars

(* rt_mutex_take, but for the way it waits. *)
LEMMA TakeSeen ==
  ASSUME IInv, NEW t, NEW m \in Mutex, TakeAgain(t, m) \/ TakeFree(t, m),
         NEW n \in Mutex
  PROVE  L(n)!Next \/ UNCHANGED L(n)!vars
<1>1. mtx \in [Mutex -> MutexState] /\ ThreadInv /\ At(t, "user")
  BY DEF IInv, MutexInv, TakeAgain, TakeFree
<1>2. k \in KernelState /\ t \in Thread /\ t # NoThread
  BY <1>1, AtFacts, MutexAssumption DEF Awake
<1>3. k'.wait = k.wait
  BY <1>2 DEF TakeAgain, TakeFree, Reset, KernelState
<1>4. CASE n # m
  <2>1. mtx'[n] = mtx[n]
    BY <1>1, <1>4 DEF TakeAgain, TakeFree
  <2> QED
    BY <1>3, <2>1, SeenAlike
<1>5. CASE n = m /\ TakeAgain(t, m)
  <2>1. /\ mtx[n].owner = t /\ mtx'[n].owner = t
        /\ mtx'[n].hold = mtx[n].hold + 1
    BY <1>1, <1>5 DEF TakeAgain, MutexState
  <2> QED
    BY <1>2, <1>3, <2>1 DEF L!Next, L!Again
<1>6. CASE n = m /\ TakeFree(t, m)
  <2>1. mtx[n].value = 1
    <3>1. mtx[n].value \in 0 .. 1 /\ mtx[n].value > 0
      BY <1>1, <1>6 DEF TakeFree, MutexState
    <3> QED
      BY <3>1
  <2>2. mtx[n].owner = NoThread /\ mtx[n].hold = 0
    BY <1>2, <2>1 DEF IInv, MutexInv, Ownership
  <2>3. mtx'[n] = [value |-> mtx[n].value - 1, owner |-> t,
                   orig |-> k.prio[t], hold |-> mtx[n].hold + 1]
    BY <1>1, <1>6 DEF TakeFree
  <2>4. mtx'[n].owner = t /\ mtx'[n].hold = 1
    BY <2>2, <2>3
  <2> QED
    BY <1>2, <1>3, <2>2, <2>4 DEF L!Next, L!Acquire
<1> QED
  BY <1>4, <1>5, <1>6

(* rt_mutex_take of a mutex somebody else owns. *)
LEMMA TakeWaitSeen ==
  ASSUME IInv, NEW t \in Thread \ {Idle}, NEW m \in Mutex, TakeWait(t, m),
         NEW n \in Mutex
  PROVE  L(n)!Next \/ UNCHANGED L(n)!vars
<1>1. /\ mtx' = mtx /\ mtx[m].owner \notin {NoThread, t}
      /\ t \notin ToSet(k.wait[m])
      /\ ToSet(k'.wait[n]) = ToSet(k.wait[n]) \cup (IF n = m THEN {t} ELSE {})
  BY TakeWaitKeeps
<1>2. CASE n = m
  <2>1. ToSet(k'.wait[n]) = ToSet(k.wait[n]) \cup {t}
    BY <1>1, <1>2
  <2> QED
    BY <1>1, <1>2, <2>1 DEF L!Next, L!Ask
<1>3. CASE n # m
  BY <1>1, <1>3, SeenAlike
<1> QED
  BY <1>2, <1>3

(* rt_mutex_release. *)
LEMMA ReleaseSeen ==
  ASSUME IInv, NEW t, NEW m \in Mutex, Release(t, m), NEW n \in Mutex
  PROVE  L(n)!Next \/ UNCHANGED L(n)!vars
<1>1. mtx \in [Mutex -> MutexState]
  BY DEF IInv, MutexInv
<1>2. CASE mtx[m].hold > 1
  <2>1. k' = k /\ mtx' = [mtx EXCEPT ![m].hold = @ - 1]
    BY <1>2, LeaveKeeps
  <2>2. CASE n = m
    <3>1. mtx'[n].owner = mtx[n].owner /\ mtx'[n].hold = mtx[n].hold - 1
      BY <1>1, <2>1, <2>2 DEF MutexState
    <3> QED
      BY <1>2, <2>1, <2>2, <3>1 DEF L!Next, L!Leave
  <2>3. CASE n # m
    BY <1>1, <2>1, <2>3, SeenAlike
  <2> QED
    BY <2>2, <2>3
<1>3. CASE mtx[m].hold = 1 /\ k.wait[m] = << >>
  <2>1. k'.wait = k.wait /\ mtx' = [mtx EXCEPT ![m] = Free]
    BY <1>3, FreeKeeps
  <2>2. CASE n = m
    <3>1. mtx'[n].owner = NoThread /\ mtx'[n].hold = 0
      BY <1>1, <2>1, <2>2 DEF Free
    <3>2. ToSet(k.wait[n]) = {}
      BY <1>3, <2>2 DEF ToSet
    <3> QED
      BY <1>3, <2>1, <2>2, <3>1, <3>2 DEF L!Next, L!Release
  <2>3. CASE n # m
    BY <1>1, <2>1, <2>3, SeenAlike
  <2> QED
    BY <2>2, <2>3
<1>4. CASE mtx[m].hold = 1 /\ k.wait[m] # << >>
  <2>1. PICK w \in ToSet(k.wait[m]), p \in Prio : HandsOver(m, w, p)
    BY <1>4, HandOverKeeps
  <2>2. /\ mtx' = [mtx EXCEPT ![m] = OwnedBy(w, p)]
        /\ \A q \in Mutex : ToSet(k'.wait[q]) =
             IF q = m THEN ToSet(k.wait[q]) \ {w} ELSE ToSet(k.wait[q])
    BY <2>1 DEF HandsOver
  <2>3. CASE n = m
    <3>1. mtx'[n].owner = w /\ mtx'[n].hold = 1
      BY <1>1, <2>2, <2>3 DEF OwnedBy
    <3>2. w \in Thread
      BY <2>1, WaitersAreThreads DEF IInv
    <3>3. ToSet(k'.wait[n]) = ToSet(k.wait[n]) \ {w}
      BY <2>2, <2>3
    <3> QED
      BY <1>4, <2>1, <2>3, <3>1, <3>2, <3>3 DEF L!Next, L!HandOver
  <2>4. CASE n # m
    <3>1. mtx'[n] = mtx[n] /\ ToSet(k'.wait[n]) = ToSet(k.wait[n])
      BY <1>1, <2>2, <2>4
    <3> QED
      BY <3>1, SeenAlike
  <2> QED
    BY <2>3, <2>4
<1> QED
  BY <1>2, <1>3, <1>4 DEF Release

(* The steps that are about no mutex, or only return. *)
LEMMA OtherSeen ==
  ASSUME IInv, NEW t \in Thread,
         \/ \E m \in Mutex : TryFail(t, m) \/ ReleaseFail(t, m)
         \/ TakeReturn(t)
         \/ (Reschedule(t) \/ SleepReturn(t) \/ Tick \/ TickEnd) /\ UNCHANGED mutexVars,
         NEW n \in Mutex
  PROVE  UNCHANGED L(n)!vars
<1>1. mtx' = mtx
  BY DEF TryFail, ReleaseFail, TakeReturn, mutexVars
<1>2. Sound(k) /\ k \in KernelState
  BY DEF IInv, ThreadInv, Sound
<1>3. k' = Schedule(k) \/ k' = k \/ \E e : k' = [k EXCEPT !.error[t] = e]
  BY DEF TryFail, ReleaseFail, TakeReturn, Reschedule, SleepReturn, Tick, TickEnd
<1>4. k'.wait = k.wait
  <2>1. CASE k' = Schedule(k)
    BY <1>2, <2>1, ScheduleCalm DEF Calm
  <2>2. CASE k' = k
    BY <2>2
  <2>3. CASE \E e : k' = [k EXCEPT !.error[t] = e]
    BY <1>2, <2>3 DEF KernelState
  <2> QED
    BY <1>3, <2>1, <2>2, <2>3
<1> QED
  BY <1>1, <1>4, SeenAlike

(* rt_thread_sleep suspends a thread that waits for nothing. *)
LEMMA SleepSeen ==
  ASSUME IInv, NEW t \in Thread \ {Idle}, Sleep(t), UNCHANGED mutexVars,
         NEW n \in Mutex
  PROVE  UNCHANGED L(n)!vars
<1>1. At(t, "user") /\ k' = TimerStart(ThreadSuspend(k, t), t) /\ mtx' = mtx
  BY DEF Sleep, mutexVars
<1>2. /\ Sound(k) /\ k \in KernelState /\ k.stat[t] # "SUSPEND"
      /\ t \notin ToSet(k.wait[n])
  BY <1>1, AtFacts DEF IInv, ThreadInv, Awake
<1>3. /\ Sound(ThreadSuspend(k, t)) /\ Suspends(k, ThreadSuspend(k, t), t)
      /\ ToSet(ThreadSuspend(k, t).wait[n]) = ToSet(k.wait[n]) \ {t}
  BY <1>2, SuspendFacts DEF Mutex
<1>4. k'.wait = ThreadSuspend(k, t).wait
  BY <1>1, <1>3, TimerStartFacts DEF Sound, Suspends
<1>5. ToSet(k'.wait[n]) = ToSet(k.wait[n])
  BY <1>2, <1>3, <1>4
<1> QED
  BY <1>1, <1>5, SeenAlike

(* A waiter's timer expires. *)
LEMMA TimerExpireSeen ==
  ASSUME IInv, NEW t \in Thread, TimerExpire(t), UNCHANGED mutexVars,
         NEW n \in Mutex
  PROVE  L(n)!Next \/ UNCHANGED L(n)!vars
<1>1. mtx' = mtx /\ k.timer[t] /\ k' = ThreadTimeout(k, t)
  BY DEF TimerExpire, mutexVars
<1>2. Sound(k) /\ k \in KernelState /\ k.stat[t] = "SUSPEND"
  BY <1>1 DEF IInv, ThreadInv, Sound, TimedSuspended
<1>3. Wakes(k, k', t)
  BY <1>1, <1>2, TimeoutWakes
<1>4. ToSet(k'.wait[n]) = ToSet(k.wait[n]) \ {t}
  BY <1>3 DEF Wakes, Mutex
<1>5. CASE t \in ToSet(k.wait[n])
  BY <1>1, <1>4, <1>5 DEF L!Next, L!GiveUp
<1>6. CASE t \notin ToSet(k.wait[n])
  <2>1. ToSet(k'.wait[n]) = ToSet(k.wait[n])
    BY <1>4, <1>6
  <2> QED
    BY <1>1, <2>1, SeenAlike
<1> QED
  BY <1>5, <1>6

(* Every step is one of the lock's, or nothing its users see. *)
LEMMA StepSeen ==
  ASSUME IInv, [Next]_vars, NEW n \in Mutex
  PROVE  L(n)!Next \/ UNCHANGED L(n)!vars
<1>1. ASSUME NEW t \in Thread \ {Idle}, ThreadStep(t)
      PROVE  L(n)!Next \/ UNCHANGED L(n)!vars
  <2>1. ASSUME NEW m \in Mutex, TakeAgain(t, m) \/ TakeFree(t, m)
        PROVE  L(n)!Next \/ UNCHANGED L(n)!vars
    BY <2>1, TakeSeen
  <2>2. ASSUME NEW m \in Mutex, TakeWait(t, m)
        PROVE  L(n)!Next \/ UNCHANGED L(n)!vars
    BY <2>2, TakeWaitSeen
  <2>3. ASSUME NEW m \in Mutex, Release(t, m)
        PROVE  L(n)!Next \/ UNCHANGED L(n)!vars
    BY <2>3, ReleaseSeen
  <2>4. CASE Sleep(t) /\ UNCHANGED mutexVars
    BY <2>4, SleepSeen
  <2>5. CASE \/ \E m \in Mutex : TryFail(t, m) \/ ReleaseFail(t, m)
             \/ TakeReturn(t)
             \/ (Reschedule(t) \/ SleepReturn(t)) /\ UNCHANGED mutexVars
    BY <2>5, OtherSeen
  <2> QED
    BY <1>1, <2>1, <2>2, <2>3, <2>4, <2>5 DEF ThreadStep
<1>2. CASE Interrupt
  <2>1. CASE (Tick \/ TickEnd) /\ UNCHANGED mutexVars
    <3>1. Idle \in Thread
      BY KernelAssumption
    <3> QED
      BY <2>1, <3>1, OtherSeen
  <2>2. ASSUME NEW t \in Thread, TimerExpire(t), UNCHANGED mutexVars
        PROVE  L(n)!Next \/ UNCHANGED L(n)!vars
    BY <2>2, TimerExpireSeen
  <2> QED
    BY <1>2, <2>1, <2>2 DEF Interrupt
<1>3. CASE UNCHANGED vars
  BY <1>3, SeenAlike DEF vars
<1> QED
  BY <1>1, <1>2, <1>3 DEF Next

(* Every mutex starts as a free lock. *)
LEMMA InitSeen ==
  ASSUME Init, NEW n \in Mutex
  PROVE  L(n)!Init
<1>1. AllAsleep /\ mtx[n] = Free
  BY DEF Init
<1>2. ToSet(k.wait[n]) = {}
  BY <1>1, AsleepFacts DEF Mutex
<1> QED
  BY <1>1, <1>2 DEF L!Init, Free
-----------------------------------------------------------------------------
(* Types, for rt_mutex_take, rt_mutex_release and the calls they make.     *)
THEOREM Types == Spec => []TypeOK
<1>1. IInv => TypeOK
  BY DEF IInv, ThreadInv, MutexInv, RestInv, Sound, TypeOK
<1> QED
  BY <1>1, Invariance, PTL

(* Only the owner rt_mutex_take and rt_mutex_release recorded holds a      *)
(* mutex, as often as they recorded, for any threads and mutexes, whatever *)
(* order the releases, timeouts and returns come in.                       *)
THEOREM Owned == Spec => []Ownership
<1>1. IInv => Ownership
  BY DEF IInv, MutexInv
<1> QED
  BY <1>1, Invariance, PTL

(* rt_mutex_release leaves no waiter at a free mutex: the thread that      *)
(* waits in rt_mutex_take is handed it or gives up.                        *)
THEOREM Unstranded == Spec => []NoStrandedWaiter
<1>1. IInv => NoStrandedWaiter
  BY DEF IInv, MutexInv
<1> QED
  BY <1>1, Invariance, PTL

(* The ready queue stays coherent when rt_mutex_take and rt_mutex_release  *)
(* change the priority of a thread that runs, is ready or waits.           *)
THEOREM QueueCoherent == Spec => []ReadyQueue
<1>1. IInv => ReadyQueue
  BY DEF IInv, ThreadInv, Sound, Coherent, RunningUnlinkedBut, ReadyQueue, RunningUnlinked
<1> QED
  BY <1>1, Invariance, PTL

(* rt_mutex_take and rt_mutex_release are a lock: Mutex implements Lock.   *)
THEOREM Refines == Spec => ImplementsLock
<1>1. Init => \A m \in Mutex : L(m)!Init
  BY InitSeen
<1>2. IInv /\ [Next]_vars => [\A m \in Mutex : L(m)!Next \/ UNCHANGED L(m)!vars]_vars
  BY StepSeen
<1> QED
  BY <1>1, <1>2, Invariance, PTL DEF Spec, ImplementsLock
-----------------------------------------------------------------------------
(* Inheritance, for threads that have to do with one mutex at a time: the  *)
(* priority rt_mutex_release restores is then the thread's own.  Run       *)
(* MutexNested shows it is not when a thread holds two.                    *)
Unnested == MaxHeld = 1

Apart == \A m, n \in Mutex : \A t \in Thread : mtx[m].owner = t =>
           (mtx[n].owner = t => m = n) /\ t \notin ToSet(k.wait[n])

OrigOwn == \A m \in Mutex :
             mtx[m].owner \in Thread => mtx[m].orig = InitPrio[mtx[m].owner]

WaitersSorted == \A m \in Mutex :
                   Flag[m] = "PRIO" => Ascending(k.prio, k.wait[m])

LentInv == Apart /\ OrigOwn /\ WaitersSorted /\ OwnerInherits /\ PriorityRestored

(* What IInv says of types, in one place. *)
LEMMA IInvTypes ==
  ASSUME IInv
  PROVE  /\ k \in KernelState /\ Sound(k) /\ k.prio \in [Thread -> Prio]
         /\ mtx \in [Mutex -> MutexState]
         /\ \A n \in Mutex : /\ mtx[n].owner \in Thread \cup {NoThread}
                             /\ k.wait[n] \in Seq(Thread)
                             /\ ToSet(k.wait[n]) \subseteq Thread
<1>1. k \in KernelState /\ Sound(k) /\ mtx \in [Mutex -> MutexState]
  BY DEF IInv, ThreadInv, MutexInv, Sound
<1>2. \A n \in Mutex : k.wait[n] \in Seq(Thread) /\ ToSet(k.wait[n]) \subseteq Thread
  BY <1>1, ListEmpty DEF KernelState, Mutex
<1>3. \A n \in Mutex : mtx[n].owner \in Thread \cup {NoThread}
  BY <1>1 DEF MutexState
<1> QED
  BY <1>1, <1>2, <1>3 DEF KernelState

(* A list with one node less holds no other. *)
LEMMA WithoutSubset ==
  ASSUME NEW s \in Seq(Thread), NEW t
  PROVE  ToSet(Without(s, t)) \subseteq ToSet(s)
<1>1. CASE t \in ToSet(s)
  <2>1. PICK n \in 1 .. Len(s) :
          /\ Without(s, t) \in Seq(Thread) /\ Len(Without(s, t)) = Len(s) - 1
          /\ \A i \in 1 .. Len(s) - 1 :
               Without(s, t)[i] = IF i < n THEN s[i] ELSE s[i + 1]
    BY <1>1, WithoutPlaces
  <2>2. /\ Len(s) \in Nat /\ DOMAIN s = 1 .. Len(s)
        /\ DOMAIN Without(s, t) = 1 .. Len(s) - 1
    BY <2>1, LenProperties
  <2> DEFINE w == Without(s, t)
  <2>3. \A i \in 1 .. Len(s) - 1 : w[i] = IF i < n THEN s[i] ELSE s[i + 1]
    BY <2>1
  <2>4. DOMAIN w = 1 .. Len(s) - 1
    BY <2>2
  <2> HIDE DEF w
  <2>5. ASSUME NEW x \in ToSet(w) PROVE x \in ToSet(s)
    <3>1. PICK i \in 1 .. Len(s) - 1 : w[i] = x
      BY <2>4 DEF ToSet
    <3>2. PICK j \in 1 .. Len(s) : s[j] = x
      BY <2>2, <2>3, <3>1
    <3> QED
      BY <2>2, <3>2 DEF ToSet
  <2> QED
    BY <2>5 DEF w
<1>2. CASE t \notin ToSet(s)
  BY <1>2, ListAbsent
<1> QED
  BY <1>1, <1>2

(* Nobody's priority changes, no mutex changes hands, and at most t leaves *)
(* a wait list.                                                            *)
Quiet(t) ==
  /\ k'.prio = k.prio
  /\ \A n \in Mutex : mtx'[n].owner = mtx[n].owner /\ mtx'[n].orig = mtx[n].orig
  /\ \A n \in Mutex : k'.wait[n] = k.wait[n] \/ k'.wait[n] = Without(k.wait[n], t)

LEMMA QuietKeeps ==
  ASSUME IInv, LentInv, NEW t, Quiet(t)
  PROVE  LentInv'
<1>1. /\ k.prio \in [Thread -> Prio]
      /\ \A n \in Mutex : k.wait[n] \in Seq(Thread)
  BY IInvTypes
<1>2. \A n \in Mutex : ToSet(k'.wait[n]) \subseteq ToSet(k.wait[n])
  BY <1>1, WithoutSubset DEF Quiet
<1>3. \A n \in Mutex :
        Ascending(k.prio, k.wait[n]) => Ascending(k'.prio, k'.wait[n])
  BY <1>1, AscendingWithout DEF Quiet
<1>4. Apart'
  BY <1>2 DEF Quiet, LentInv, Apart
<1>5. OrigOwn'
  BY DEF Quiet, LentInv, OrigOwn
<1>6. WaitersSorted'
  BY <1>3 DEF LentInv, WaitersSorted
<1>7. OwnerInherits'
  BY <1>2 DEF Quiet, LentInv, OwnerInherits, Inherited
<1>8. PriorityRestored'
  BY DEF Quiet, LentInv, PriorityRestored
<1> QED
  BY <1>4, <1>5, <1>6, <1>7, <1>8 DEF LentInv

(* A thread may take a mutex only when it owns none. *)
LEMMA OwnsNothing ==
  ASSUME IInv, LentInv, Unnested, NEW t, At(t, "user"),
         Cardinality(Holds(t)) < MaxHeld
  PROVE  \A n \in Mutex : mtx[n].owner # t
<1>1. t \in Thread /\ \A n \in Mutex : ~Granted(t, n)
  BY AtFacts DEF IInv, Awake
<1>2. t # NoThread
  BY <1>1, MutexAssumption
<1>3. \A n \in Mutex : held[t][n] \in Nat /\ mtx[n].hold \in Nat
  BY <1>1 DEF IInv, MutexInv, MutexState
<1>4. ASSUME NEW n \in Mutex
      PROVE  held[t][n] > 0 <=> mtx[n].owner = t
  <2>1. /\ held[t][n] + (IF Granted(t, n) THEN 1 ELSE 0)
             = IF mtx[n].owner = t THEN mtx[n].hold ELSE 0
        /\ (mtx[n].owner = NoThread) <=> (mtx[n].hold = 0)
    BY <1>1 DEF IInv, MutexInv, Ownership
  <2>2. held[t][n] = IF mtx[n].owner = t THEN mtx[n].hold ELSE 0
    BY <1>1, <1>3, <2>1
  <2> QED
    BY <1>2, <1>3, <2>1, <2>2
<1> SUFFICES ASSUME NEW m \in Mutex, mtx[m].owner = t PROVE FALSE
  OBVIOUS
<1>5. Holds(t) = {m}
  BY <1>1, <1>4 DEF Holds, LentInv, Apart
<1>6. Cardinality(Holds(t)) = 1
  BY <1>5, FS_Singleton
<1> QED
  BY <1>6 DEF Unnested
-----------------------------------------------------------------------------
(* The steps that lend no priority and give none back. *)
LEMMA CallsQuiet ==
  ASSUME IInv, NEW t \in Thread, NEW m \in Mutex,
         \/ TakeAgain(t, m) \/ TryFail(t, m) \/ ReleaseFail(t, m)
         \/ (Release(t, m) /\ mtx[m].hold > 1)
         \/ TakeReturn(t)
  PROVE  Quiet(t)
<1>1. k \in KernelState /\ mtx \in [Mutex -> MutexState]
  BY IInvTypes
<1>2. k'.prio = k.prio /\ k'.wait = k.wait
  <2>1. CASE k' = k
    BY <2>1
  <2>2. CASE \E e : k' = [k EXCEPT !.error[t] = e]
    BY <1>1, <2>2 DEF KernelState
  <2>3. Release(t, m) /\ mtx[m].hold > 1 => k' = k
    BY LeaveKeeps
  <2> QED
    BY <2>1, <2>2, <2>3 DEF TakeAgain, TryFail, ReleaseFail, TakeReturn, Reset
<1>3. \A n \in Mutex : mtx'[n].owner = mtx[n].owner /\ mtx'[n].orig = mtx[n].orig
  <2>1. ASSUME NEW h, mtx' = [mtx EXCEPT ![m].hold = h], NEW n \in Mutex
        PROVE  mtx'[n].owner = mtx[n].owner /\ mtx'[n].orig = mtx[n].orig
    <3>1. mtx'[n] = IF n = m THEN [mtx[n] EXCEPT !.hold = h] ELSE mtx[n]
      BY <1>1, <2>1
    <3>2. mtx[n] \in MutexState
      BY <1>1
    <3> QED
      BY <3>1, <3>2 DEF MutexState
  <2>2. CASE TakeAgain(t, m)
    BY <2>1, <2>2 DEF TakeAgain
  <2>3. CASE Release(t, m) /\ mtx[m].hold > 1
    BY <2>1, <2>3, LeaveKeeps
  <2>4. CASE TryFail(t, m) \/ ReleaseFail(t, m) \/ TakeReturn(t)
    BY <2>4 DEF TryFail, ReleaseFail, TakeReturn
  <2> QED
    BY <2>2, <2>3, <2>4
<1> QED
  BY <1>2, <1>3 DEF Quiet

LEMMA ThreadsQuiet ==
  ASSUME IInv, NEW t \in Thread \ {Idle}, UNCHANGED mutexVars,
         Reschedule(t) \/ Sleep(t) \/ SleepReturn(t)
  PROVE  Quiet(t)
<1>1. k \in KernelState /\ Sound(k)
  BY IInvTypes
<1>2. k'.prio = k.prio /\ \A q \in Queue : k'.wait[q] = k.wait[q]
  <2>1. CASE Reschedule(t)
    BY <1>1, <2>1, ScheduleCalm DEF Reschedule, Calm
  <2>2. CASE Sleep(t)
    <3> DEFINE u == ThreadSuspend(k, t)
    <3>1. At(t, "user") /\ k' = TimerStart(u, t)
      BY <2>2 DEF Sleep
    <3>2. k.stat[t] # "SUSPEND" /\ \A q \in Queue : t \notin ToSet(k.wait[q])
      BY <3>1, AtFacts DEF IInv, Awake, Mutex
    <3>3. u \in KernelState
      BY <1>1, <3>2, SuspendFacts DEF Sound
    <3>4. u.prio = k.prio /\ \A q \in Queue : u.wait[q] = k.wait[q]
      BY <1>1, <3>2, SuspendOrder
    <3> HIDE DEF u
    <3>5. k'.prio = u.prio /\ k'.wait = u.wait
      BY <3>1, <3>3 DEF TimerStart, KernelState
    <3> QED
      BY <3>4, <3>5
  <2>3. CASE SleepReturn(t)
    BY <1>1, <2>3 DEF SleepReturn, KernelState
  <2> QED
    BY <2>1, <2>2, <2>3
<1> QED
  BY <1>2 DEF Quiet, mutexVars, Mutex

LEMMA InterruptQuiet ==
  ASSUME IInv, Interrupt
  PROVE  \E t \in Thread : Quiet(t)
<1>1. k \in KernelState /\ Sound(k) /\ Idle \in Thread
  BY IInvTypes, KernelAssumption
<1>2. CASE Tick \/ TickEnd
  <2>1. k' = k \/ k' = Schedule(k)
    BY <1>2 DEF Tick, TickEnd
  <2>2. k'.prio = k.prio /\ k'.wait = k.wait
    BY <1>1, <2>1, ScheduleCalm DEF Calm
  <2>3. Quiet(Idle)
    BY <2>2 DEF Quiet, Interrupt, mutexVars
  <2> QED
    BY <1>1, <2>3
<1>3. ASSUME NEW t \in Thread, TimerExpire(t)
      PROVE  Quiet(t)
  <2>1. k.stat[t] = "SUSPEND" /\ k' = ThreadTimeout(k, t)
    BY <1>1, <1>3 DEF TimerExpire, Sound, TimedSuspended
  <2>2. /\ k'.prio = k.prio
        /\ \A q \in Queue : k'.wait[q] = Without(k.wait[q], t)
    BY <1>1, <2>1, TimeoutOrder
  <2> QED
    BY <2>2 DEF Quiet, Interrupt, mutexVars, Mutex
<1> QED
  BY <1>2, <1>3 DEF Interrupt

(* rt_mutex_take of a mutex that is available. *)
LEMMA TakeFreeLends ==
  ASSUME IInv, LentInv, Unnested, NEW t, NEW m \in Mutex, TakeFree(t, m)
  PROVE  LentInv'
<1>1. /\ At(t, "user") /\ mtx[m].value > 0 /\ Cardinality(Holds(t)) < MaxHeld
      /\ k' = [k EXCEPT !.error[t] = "EOK"]
      /\ mtx' = [mtx EXCEPT ![m] = [value |-> @.value - 1, owner |-> t,
                                    orig |-> k.prio[t], hold |-> @.hold + 1]]
  BY DEF TakeFree, Reset
<1>2. /\ k \in KernelState /\ mtx \in [Mutex -> MutexState]
      /\ \A n \in Mutex : k.wait[n] \in Seq(Thread)
  BY IInvTypes
<1>3. k'.prio = k.prio /\ k'.wait = k.wait
  BY <1>1, <1>2 DEF KernelState
<1>4. /\ mtx'[m].owner = t /\ mtx'[m].orig = k.prio[t]
      /\ \A n \in Mutex \ {m} : mtx'[n] = mtx[n]
  BY <1>1, <1>2
<1>5. \A n \in Mutex : mtx[n].owner # t
  BY <1>1, OwnsNothing
<1>6. t \in Thread /\ \A n \in Mutex : t \notin ToSet(k.wait[n])
  BY <1>1, AtFacts DEF IInv, Awake
<1>7. k.prio[t] = InitPrio[t]
  BY <1>5, <1>6 DEF LentInv, PriorityRestored
<1>8. mtx[m].owner = NoThread /\ ToSet(k.wait[m]) = {}
  <2>1. mtx[m].value \in 0 .. 1
    BY <1>2 DEF MutexState
  <2>2. mtx[m].value = 1
    BY <1>1, <2>1
  <2>3. mtx[m].owner = NoThread
    BY <1>6, <2>2 DEF IInv, MutexInv, Ownership
  <2>4. k.wait[m] = << >>
    BY <2>3 DEF IInv, MutexInv, NoStrandedWaiter
  <2> QED
    BY <1>2, <2>3, <2>4, ListEmpty
<1>9. Apart'
  BY <1>3, <1>4, <1>5, <1>6 DEF LentInv, Apart
<1>10. OrigOwn'
  BY <1>4, <1>7 DEF LentInv, OrigOwn
<1>11. WaitersSorted'
  BY <1>3 DEF LentInv, WaitersSorted
<1>12. OwnerInherits'
  BY <1>3, <1>4, <1>8 DEF LentInv, OwnerInherits, Inherited
<1>13. PriorityRestored'
  <2> SUFFICES ASSUME NEW y \in Thread, \A n \in Mutex : mtx'[n].owner # y
               PROVE  k'.prio[y] = InitPrio[y]
    BY DEF PriorityRestored
  <2>1. \A n \in Mutex : mtx[n].owner # y
    BY <1>4, <1>6, <1>8, MutexAssumption
  <2> QED
    BY <1>3, <2>1 DEF LentInv, PriorityRestored
<1> QED
  BY <1>9, <1>10, <1>11, <1>12, <1>13 DEF LentInv
-----------------------------------------------------------------------------
(* The steps that do. *)
LEMMA InheritLends ==
  ASSUME NEW m \in Mutex, mtx[m].owner \in Thread, NEW t \in Thread,
         NEW r \in KernelState, Sound(r)
  PROVE  Inherit(r, m, t).prio =
           [r.prio EXCEPT ![mtx[m].owner] = IF r.prio[t] < @ THEN r.prio[t] ELSE @]
<1> DEFINE o == mtx[m].owner
           p == r.prio[t]
<1>1. p \in Prio /\ r.prio \in [Thread -> Prio] /\ o \in Thread
  BY DEF KernelState
<1>2. CASE p < r.prio[o]
  <2>1. Inherit(r, m, t) = ChangePriority(r, o, p)
    BY <1>2 DEF Inherit
  <2> HIDE DEF p, o
  <2>2. ChangePriority(r, o, p).prio = [r.prio EXCEPT ![o] = p]
    BY <1>1, ChangePriorityPrio DEF Sound
  <2> QED
    BY <1>1, <1>2, <2>1, <2>2 DEF p, o
<1>3. CASE ~(p < r.prio[o])
  <2>1. Inherit(r, m, t) = r
    BY <1>3 DEF Inherit
  <2> QED
    BY <1>1, <1>3, <2>1
<1> QED
  BY <1>2, <1>3

(* rt_mutex_take that waits. *)
LEMMA TakeWaitLends ==
  ASSUME IInv, LentInv, Unnested, NEW t \in Thread \ {Idle}, NEW m \in Mutex,
         TakeWait(t, m)
  PROVE  LentInv'
<1> DEFINE e == Reset(t)
           r == Inherit(e, m, t)
           s == IpcSuspend(r, m, t, Flag[m])
<1>1. /\ At(t, "user") /\ Cardinality(Holds(t)) < MaxHeld
      /\ k' = s \/ k' = TimerStart(s, t)
      /\ mtx' = mtx
  BY DEF TakeWait
<1>2. /\ k \in KernelState /\ Sound(k) /\ k.prio \in [Thread -> Prio]
      /\ \A n \in Mutex : k.wait[n] \in Seq(Thread) /\ ToSet(k.wait[n]) \subseteq Thread
  BY IInvTypes
<1>3. /\ k.stat[t] # "SUSPEND" /\ \A n \in Mutex : t \notin ToSet(k.wait[n])
  BY <1>1, AtFacts DEF IInv, Awake
<1>4. PICK o \in Thread \ {t} : mtx[m].owner = o
  <2>1. mtx[m].owner \notin {NoThread, t}
    BY TakeWaitKeeps
  <2> QED
    BY <2>1, IInvTypes
<1>5. /\ \A n \in Mutex : mtx[n].owner # t
      /\ k.prio[t] = InitPrio[t]
  BY <1>1, OwnsNothing DEF LentInv, PriorityRestored
<1>6. /\ e \in KernelState /\ Sound(e)
      /\ e.prio = k.prio /\ e.wait = k.wait /\ e.stat = k.stat
  <2> DEFINE ok == "EOK"
  <2>1. e = [k EXCEPT !.error[t] = ok] /\ ok \in Errno
    BY DEF Reset, Errno
  <2> HIDE DEF e, ok
  <2>2. Sound(e) /\ Calm(k, e) /\ e.prio = k.prio /\ e.stat = k.stat
    BY <1>2, <2>1, ErrorFacts
  <2> QED
    BY <2>2 DEF Sound, Calm
<1> HIDE DEF e
<1>7. /\ r \in KernelState /\ Sound(r) /\ Calm(e, r)
      /\ r.prio = [k.prio EXCEPT ![o] = IF k.prio[t] < @ THEN k.prio[t] ELSE @]
  BY <1>4, <1>6, InheritCalm, InheritLends
<1> HIDE DEF r
<1>8. /\ r.wait = k.wait /\ r.stat[t] # "SUSPEND"
  BY <1>3, <1>6, <1>7 DEF Calm
<1>9. /\ r.prio[o] <= k.prio[t] /\ r.prio[o] <= k.prio[o]
      /\ \A y \in Thread \ {o} : r.prio[y] = k.prio[y]
  BY <1>2, <1>7 DEF Prio
<1>10. /\ s.prio = r.prio /\ \A n \in Mutex \ {m} : s.wait[n] = r.wait[n]
       /\ Flag[m] = "PRIO" /\ Ascending(r.prio, r.wait[m])
            => Ascending(r.prio, s.wait[m])
       /\ s \in KernelState
       /\ ToSet(s.wait[m]) = ToSet(r.wait[m]) \cup {t}
  <2> DEFINE f == Flag[m]
  <2>1. s = IpcSuspend(r, m, t, f)
    OBVIOUS
  <2> HIDE DEF f, s
  <2>2. m \in Queue /\ \A q \in Queue : t \notin ToSet(r.wait[q])
    BY <1>3, <1>8 DEF Mutex
  <2>3. /\ s.prio = r.prio /\ \A q \in Queue \ {m} : s.wait[q] = r.wait[q]
        /\ f = "PRIO" /\ Ascending(r.prio, r.wait[m]) => Ascending(r.prio, s.wait[m])
    BY <1>7, <1>8, <2>1, <2>2, IpcSuspendOrder
  <2>4. Sound(s) /\ Joins(r, s, t, m)
    BY <1>7, <1>8, <2>1, <2>2, IpcSuspendFacts
  <2> QED
    BY <2>3, <2>4 DEF f, Mutex, Sound, Joins
<1> HIDE DEF s
<1>11. k'.prio = r.prio /\ k'.wait = s.wait
  BY <1>1, <1>10 DEF TimerStart, KernelState
<1>12. \A n \in Mutex : /\ n # m => k'.wait[n] = k.wait[n]
                        /\ o \notin ToSet(k.wait[n])
  BY <1>4, <1>8, <1>10, <1>11 DEF LentInv, Apart
<1>13. ToSet(k'.wait[m]) = ToSet(k.wait[m]) \cup {t}
  BY <1>8, <1>10, <1>11
<1>14. Apart'
  BY <1>1, <1>5, <1>12, <1>13 DEF LentInv, Apart
<1>15. OrigOwn'
  BY <1>1 DEF LentInv, OrigOwn
<1>16. ASSUME NEW n \in Mutex, Flag[n] = "PRIO"
       PROVE  Ascending(k'.prio, k'.wait[n])
  <2>1. Ascending(k.prio, k.wait[n])
    BY <1>16 DEF LentInv, WaitersSorted
  <2>2. \A i \in 1 .. Len(k.wait[n]) : k'.prio[k.wait[n][i]] = k.prio[k.wait[n][i]]
    <3>1. \A i \in 1 .. Len(k.wait[n]) : k.wait[n][i] \in ToSet(k.wait[n])
      BY <1>2, LenProperties DEF ToSet
    <3> QED
      BY <1>2, <1>9, <1>11, <1>12, <3>1
  <2>3. Ascending(k'.prio, k.wait[n])
    BY <2>1, <2>2 DEF Ascending
  <2> QED
    BY <1>8, <1>10, <1>11, <1>12, <1>16, <2>3
<1>17. ASSUME NEW n \in Mutex, Flag[n] = "PRIO", NEW y \in ToSet(k'.wait[n])
       PROVE  k'.prio[mtx'[n].owner] <= k'.prio[y]
  <2>1. CASE y \in ToSet(k.wait[n])
    <3>1. y \in Thread /\ y # o
      BY <1>2, <1>12, <2>1
    <3>2. k.prio[mtx[n].owner] <= k.prio[y]
      BY <1>17, <2>1 DEF LentInv, OwnerInherits, Inherited
    <3>3. mtx[n].owner \in Thread
      <4>1. mtx[n].owner # NoThread
        <5>1. k.wait[n] # << >>
          BY <1>2, <2>1, ListEmpty
        <5> QED
          BY <5>1 DEF IInv, MutexInv, NoStrandedWaiter
      <4> QED
        BY <4>1, IInvTypes
    <3>4. r.prio[mtx[n].owner] <= k.prio[mtx[n].owner]
      <4>1. \A z \in Thread : r.prio[z] <= k.prio[z]
        <5>1. k.prio \in [Thread -> Nat]
          BY <1>2 DEF Prio
        <5> QED
          BY <1>9, <5>1
      <4> QED
        BY <3>3, <4>1
    <3>5. r.prio \in [Thread -> Prio]
      BY <1>7 DEF KernelState
    <3> QED
      BY <1>1, <1>2, <1>9, <1>11, <3>1, <3>2, <3>3, <3>4, <3>5 DEF Prio
  <2>2. CASE y \notin ToSet(k.wait[n])
    <3>1. n = m /\ y = t
      BY <1>12, <1>13, <1>17, <2>2
    <3> QED
      BY <1>1, <1>4, <1>9, <1>11, <3>1
  <2> QED
    BY <2>1, <2>2
<1>18. PriorityRestored'
  <2> SUFFICES ASSUME NEW y \in Thread, \A n \in Mutex : mtx'[n].owner # y
               PROVE  k'.prio[y] = InitPrio[y]
    BY DEF PriorityRestored
  <2>1. y # o
    BY <1>1, <1>4
  <2> QED
    BY <1>1, <1>9, <1>11, <2>1 DEF LentInv, PriorityRestored
<1>19. WaitersSorted'
  BY <1>16 DEF WaitersSorted
<1>20. OwnerInherits'
  BY <1>17 DEF OwnerInherits, Inherited
<1> QED
  BY <1>14, <1>15, <1>18, <1>19, <1>20 DEF LentInv

(* The last release gives the owner its own priority. *)
LEMMA RestoreLends ==
  ASSUME IInv, LentInv, NEW t \in Thread, NEW m \in Mutex, mtx[m].owner = t
  PROVE  Restore(m, t).prio = [k.prio EXCEPT ![t] = InitPrio[t]]
<1> DEFINE p == mtx[m].orig
<1>1. k \in KernelState /\ Coherent(k, {}) /\ k.prio \in [Thread -> Prio]
  BY IInvTypes DEF Sound
<1>2. p = InitPrio[t] /\ p \in Prio
  BY ThreadsAssumption DEF LentInv, OrigOwn
<1>3. CASE p # k.prio[t]
  <2>1. Restore(m, t) = ChangePriority(k, t, p)
    BY <1>3 DEF Restore
  <2> HIDE DEF p
  <2> QED
    BY <1>1, <1>2, <2>1, ChangePriorityPrio
<1>4. CASE p = k.prio[t]
  <2>1. Restore(m, t) = k
    BY <1>4 DEF Restore
  <2> QED
    BY <1>1, <1>2, <1>4, <2>1
<1> QED
  BY <1>3, <1>4

(* The last release when nobody waits. *)
LEMMA FreeLends ==
  ASSUME IInv, LentInv, NEW t, NEW m \in Mutex, Release(t, m), mtx[m].hold = 1,
         k.wait[m] = << >>
  PROVE  LentInv'
<1>1. /\ t \in Thread /\ mtx[m].owner = t /\ t # NoThread
      /\ \A n \in Mutex : t \notin ToSet(k.wait[n])
  BY ReleaseFacts
<1>2. k' = Restore(m, t) /\ mtx' = [mtx EXCEPT ![m] = Free] /\ k'.wait = k.wait
  <2>1. mtx' = [mtx EXCEPT ![m] = Free] /\ k'.wait = k.wait
    BY FreeKeeps
  <2>2. k' = Restore(m, t)
    BY DEF Release
  <2> QED
    BY <2>1, <2>2
<1>3. /\ k.prio \in [Thread -> Prio] /\ mtx \in [Mutex -> MutexState]
      /\ \A n \in Mutex : k.wait[n] \in Seq(Thread) /\ ToSet(k.wait[n]) \subseteq Thread
  BY IInvTypes
<1>4. /\ k'.prio[t] = InitPrio[t]
      /\ \A y \in Thread \ {t} : k'.prio[y] = k.prio[y]
  <2>1. k'.prio = [k.prio EXCEPT ![t] = InitPrio[t]]
    BY <1>1, <1>2, RestoreLends
  <2> QED
    BY <1>1, <1>3, <2>1
<1>5. /\ mtx'[m].owner = NoThread
      /\ \A n \in Mutex \ {m} : mtx'[n] = mtx[n] /\ mtx[n].owner # t
  <2>1. \A n \in Mutex \ {m} : mtx[n].owner # t
    BY <1>1 DEF LentInv, Apart
  <2> QED
    BY <1>2, <1>3, <2>1 DEF Free
<1>6. Apart'
  BY <1>2, <1>5, MutexAssumption DEF LentInv, Apart
<1>7. OrigOwn'
  BY <1>5, MutexAssumption DEF LentInv, OrigOwn
<1>8. WaitersSorted'
  <2> SUFFICES ASSUME NEW n \in Mutex, Flag[n] = "PRIO"
               PROVE  Ascending(k'.prio, k.wait[n])
    BY <1>2 DEF WaitersSorted
  <2>1. Ascending(k.prio, k.wait[n])
    BY DEF LentInv, WaitersSorted
  <2>2. \A i \in 1 .. Len(k.wait[n]) :
          k.wait[n][i] \in ToSet(k.wait[n]) /\ k.wait[n][i] \in Thread
    BY <1>3, LenProperties DEF ToSet
  <2>3. \A i \in 1 .. Len(k.wait[n]) : k'.prio[k.wait[n][i]] = k.prio[k.wait[n][i]]
    BY <1>1, <1>4, <2>2
  <2> QED
    BY <2>1, <2>3 DEF Ascending
<1>9. OwnerInherits'
  <2> SUFFICES ASSUME NEW n \in Mutex, Flag[n] = "PRIO", NEW y \in ToSet(k.wait[n])
               PROVE  k'.prio[mtx'[n].owner] <= k'.prio[y]
    BY <1>2 DEF OwnerInherits, Inherited
  <2>1. k.wait[n] # << >>
    BY <1>3, ListEmpty
  <2>2. n # m /\ mtx[n].owner \in Thread
    <3>1. mtx[n].owner # NoThread
      BY <2>1 DEF IInv, MutexInv, NoStrandedWaiter
    <3> QED
      BY <2>1, <3>1, IInvTypes
  <2>3. mtx'[n].owner = mtx[n].owner /\ mtx[n].owner # t /\ y \in Thread \ {t}
    BY <1>1, <1>3, <1>5, <2>2
  <2>4. k.prio[mtx[n].owner] <= k.prio[y]
    BY DEF LentInv, OwnerInherits, Inherited
  <2> QED
    BY <1>4, <2>2, <2>3, <2>4
<1>10. PriorityRestored'
  <2> SUFFICES ASSUME NEW y \in Thread \ {t}, \A n \in Mutex : mtx'[n].owner # y
               PROVE  k'.prio[y] = InitPrio[y]
    BY <1>4 DEF PriorityRestored
  <2>1. \A n \in Mutex : mtx[n].owner # y
    BY <1>1, <1>5
  <2> QED
    BY <1>4, <2>1 DEF LentInv, PriorityRestored
<1> QED
  BY <1>6, <1>7, <1>8, <1>9, <1>10 DEF LentInv

(* The last release when somebody waits: the most urgent waiter gets the   *)
(* mutex.                                                                  *)
LEMMA HandOverLends ==
  ASSUME IInv, LentInv, NEW t, NEW m \in Mutex, Release(t, m), mtx[m].hold = 1,
         k.wait[m] # << >>
  PROVE  LentInv'
<1> DEFINE r == Restore(m, t)
           w == Head(k.wait[m])
<1>1. /\ t \in Thread /\ mtx[m].owner = t /\ t # NoThread
      /\ \A n \in Mutex : t \notin ToSet(k.wait[n])
  BY ReleaseFacts
<1>2. /\ k \in KernelState /\ Sound(k)
      /\ k.prio \in [Thread -> Prio] /\ mtx \in [Mutex -> MutexState]
      /\ \A n \in Mutex : k.wait[n] \in Seq(Thread) /\ ToSet(k.wait[n]) \subseteq Thread
  BY IInvTypes
<1>3. /\ k' = ThreadResume(r, Head(r.wait[m]))
      /\ mtx' = [mtx EXCEPT ![m] = OwnedBy(w, r.prio[w])]
  BY DEF Release, IpcResume
<1>4. /\ r \in KernelState /\ Sound(r) /\ Calm(k, r)
      /\ r.prio = [k.prio EXCEPT ![t] = InitPrio[t]]
  BY <1>1, RestoreCalm, RestoreLends
<1>5. w \in ToSet(k.wait[m]) /\ w \in Thread /\ w # t
  BY <1>1, <1>2, ListEmpty
<1> HIDE DEF r, w
<1>6. r.wait = k.wait /\ Head(r.wait[m]) = w /\ r.stat[w] = "SUSPEND"
  <2>1. k.stat[w] = "SUSPEND"
    BY <1>5 DEF IInv, ThreadInv, WaiterInv, Waiting
  <2> QED
    BY <1>4, <1>5, <2>1 DEF Calm, w
<1>7. /\ k'.prio = r.prio
      /\ \A n \in Mutex : k'.wait[n] = Without(k.wait[n], w)
  BY <1>3, <1>4, <1>5, <1>6, ResumeOrder DEF Mutex
<1>8. /\ k'.prio[t] = InitPrio[t]
      /\ \A y \in Thread \ {t} : k'.prio[y] = k.prio[y]
      /\ k'.prio \in [Thread -> Prio]
  BY <1>1, <1>2, <1>4, <1>7, ThreadsAssumption
<1>9. \A n \in Mutex : ToSet(k'.wait[n]) = ToSet(k.wait[n]) \ {w}
  <2>1. \A n \in Mutex : IsInjective(k.wait[n])
    BY <1>2 DEF Sound, Coherent, SingleLinkage, Mutex
  <2> QED
    BY <1>2, <1>7, <2>1, ListWithout
<1>10. \A n \in Mutex : mtx[n].owner # w
  BY <1>5 DEF LentInv, Apart
<1>11. r.prio[w] = InitPrio[w]
  BY <1>2, <1>4, <1>5, <1>10 DEF LentInv, PriorityRestored
<1>12. /\ mtx'[m].owner = w /\ mtx'[m].orig = InitPrio[w]
       /\ \A n \in Mutex \ {m} : mtx'[n] = mtx[n] /\ mtx[n].owner # t
  <2>1. \A n \in Mutex \ {m} : mtx[n].owner # t
    BY <1>1 DEF LentInv, Apart
  <2> QED
    BY <1>2, <1>3, <1>11, <2>1 DEF OwnedBy
<1>13. Apart'
  <2> SUFFICES ASSUME NEW n \in Mutex, NEW x \in Mutex, NEW y \in Thread,
                      mtx'[n].owner = y
               PROVE  (mtx'[x].owner = y => n = x) /\ y \notin ToSet(k'.wait[x])
    BY DEF Apart
  <2>1. CASE y = w
    <3>1. n = m /\ (mtx'[x].owner = y => x = m)
      BY <1>10, <1>12, <2>1
    <3> QED
      BY <1>9, <2>1, <3>1
  <2>2. CASE y # w
    <3>1. n # m /\ mtx[n].owner = y /\ (mtx'[x].owner = y => mtx[x].owner = y)
      BY <1>12, <2>2
    <3>2. (mtx[x].owner = y => n = x) /\ y \notin ToSet(k.wait[x])
      BY <3>1 DEF LentInv, Apart
    <3> QED
      BY <1>9, <3>1, <3>2
  <2> QED
    BY <2>1, <2>2
<1>14. OrigOwn'
  BY <1>12 DEF LentInv, OrigOwn
<1>15. WaitersSorted'
  <2> SUFFICES ASSUME NEW n \in Mutex, Flag[n] = "PRIO"
               PROVE  Ascending(k'.prio, k'.wait[n])
    BY DEF WaitersSorted
  <2>1. Ascending(k.prio, k.wait[n])
    BY DEF LentInv, WaitersSorted
  <2>2. \A i \in 1 .. Len(k.wait[n]) :
          k.wait[n][i] \in ToSet(k.wait[n]) /\ k.wait[n][i] \in Thread
    BY <1>2, LenProperties DEF ToSet
  <2>3. \A i \in 1 .. Len(k.wait[n]) : k'.prio[k.wait[n][i]] = k.prio[k.wait[n][i]]
    BY <1>1, <1>8, <2>2
  <2>4. Ascending(k'.prio, k.wait[n])
    BY <2>1, <2>3 DEF Ascending
  <2> QED
    BY <1>2, <1>7, <1>8, <2>4, AscendingWithout
<1>16. OwnerInherits'
  <2> SUFFICES ASSUME NEW n \in Mutex, Flag[n] = "PRIO", NEW y \in ToSet(k'.wait[n])
               PROVE  k'.prio[mtx'[n].owner] <= k'.prio[y]
    BY DEF OwnerInherits, Inherited
  <2>1. y \in ToSet(k.wait[n]) /\ y \in Thread \ {t}
    BY <1>1, <1>2, <1>9
  <2>2. CASE n = m
    <3>1. Ascending(k.prio, k.wait[m])
      BY <2>2 DEF LentInv, WaitersSorted
    <3>2. k.prio[w] <= k.prio[y]
      BY <1>2, <2>1, <2>2, <3>1, AscendingHead DEF w
    <3> QED
      BY <1>5, <1>8, <1>12, <2>1, <2>2, <3>2
  <2>3. CASE n # m
    <3>1. mtx[n].owner \in Thread \ {t}
      <4>1. k.wait[n] # << >>
        BY <1>2, <2>1, ListEmpty
      <4>2. mtx[n].owner # NoThread
        BY <4>1 DEF IInv, MutexInv, NoStrandedWaiter
      <4> QED
        BY <1>12, <2>3, <4>2, IInvTypes
    <3>2. k.prio[mtx[n].owner] <= k.prio[y]
      BY <2>1 DEF LentInv, OwnerInherits, Inherited
    <3> QED
      BY <1>8, <1>12, <2>1, <2>3, <3>1, <3>2
  <2> QED
    BY <2>2, <2>3
<1>17. PriorityRestored'
  <2> SUFFICES ASSUME NEW y \in Thread \ {t}, \A n \in Mutex : mtx'[n].owner # y
               PROVE  k'.prio[y] = InitPrio[y]
    BY <1>8 DEF PriorityRestored
  <2>1. \A n \in Mutex : mtx[n].owner # y
    BY <1>1, <1>12
  <2> QED
    BY <1>8, <2>1 DEF LentInv, PriorityRestored
<1> QED
  BY <1>13, <1>14, <1>15, <1>16, <1>17 DEF LentInv
-----------------------------------------------------------------------------
LEMMA InitLent ==
  ASSUME Init
  PROVE  LentInv
<1>1. /\ \A m \in Mutex : mtx[m] = Free /\ k.wait[m] = << >> /\ ToSet(k.wait[m]) = {}
      /\ k.prio = InitPrio
  BY AsleepFacts DEF Init, AllAsleep, Mutex
<1>2. Free.owner = NoThread /\ NoThread \notin Thread
  BY MutexAssumption DEF Free
<1>3. \A m \in Mutex : Ascending(k.prio, k.wait[m])
  BY <1>1 DEF Ascending
<1> QED
  BY <1>1, <1>2, <1>3
     DEF LentInv, Apart, OrigOwn, WaitersSorted, OwnerInherits, Inherited,
         PriorityRestored

LEMMA StepLent ==
  ASSUME IInv, LentInv, Unnested, [Next]_vars
  PROVE  LentInv'
<1>1. ASSUME NEW t \in Thread \ {Idle}, ThreadStep(t)
      PROVE  LentInv'
  <2>1. ASSUME NEW m \in Mutex, TakeFree(t, m)
        PROVE  LentInv'
    BY <2>1, TakeFreeLends
  <2>2. ASSUME NEW m \in Mutex, TakeWait(t, m)
        PROVE  LentInv'
    BY <2>2, TakeWaitLends
  <2>3. ASSUME NEW m \in Mutex, Release(t, m)
        PROVE  LentInv'
    <3>1. CASE mtx[m].hold > 1
      BY <2>3, <3>1, CallsQuiet, QuietKeeps
    <3>2. CASE mtx[m].hold = 1 /\ k.wait[m] = << >>
      BY <2>3, <3>2, FreeLends
    <3>3. CASE mtx[m].hold = 1 /\ k.wait[m] # << >>
      BY <2>3, <3>3, HandOverLends
    <3> QED
      BY <2>3, <3>1, <3>2, <3>3 DEF Release
  <2>4. ASSUME NEW m \in Mutex,
               TakeAgain(t, m) \/ TryFail(t, m) \/ ReleaseFail(t, m)
        PROVE  LentInv'
    BY <2>4, CallsQuiet, QuietKeeps
  <2>5. CASE TakeReturn(t)
    <3>1. PICK m \in Mutex : TRUE
      BY MutexAssumption
    <3> QED
      BY <2>5, <3>1, CallsQuiet, QuietKeeps
  <2>6. CASE (Reschedule(t) \/ Sleep(t) \/ SleepReturn(t)) /\ UNCHANGED mutexVars
    BY <2>6, ThreadsQuiet, QuietKeeps
  <2> QED
    BY <1>1, <2>1, <2>2, <2>3, <2>4, <2>5, <2>6 DEF ThreadStep
<1>2. CASE Interrupt
  BY <1>2, InterruptQuiet, QuietKeeps
<1>3. CASE UNCHANGED vars
  <2>1. Quiet(Idle)
    BY <1>3 DEF vars, Quiet
  <2> QED
    BY <2>1, QuietKeeps
<1> QED
  BY <1>1, <1>2, <1>3 DEF Next

(* With one mutex at a time, priorities are lent as long as they are       *)
(* needed and no longer.                                                   *)
LEMMA Lent ==
  ASSUME Unnested
  PROVE  Spec => []LentInv
<1>1. Init => LentInv
  BY InitLent
<1>2. IInv /\ LentInv /\ [Next]_vars => LentInv'
  BY StepLent
<1> QED
  BY <1>1, <1>2, Invariance, PTL DEF Spec

(* The owner of a mutex runs at the priority of its most urgent waiter at  *)
(* least, whatever takes, hand-overs and timeouts interleave.              *)
THEOREM OwnersInherit ==
  ASSUME Unnested
  PROVE  Spec => []OwnerInherits
<1>1. LentInv => OwnerInherits
  BY DEF LentInv
<1> QED
  BY <1>1, Lent, PTL

(* A thread that owns no mutex has the priority it was created with: what  *)
(* rt_mutex_take lent it, rt_mutex_release has taken back.                 *)
THEOREM PrioritiesRestored ==
  ASSUME Unnested
  PROVE  Spec => []PriorityRestored
<1>1. LentInv => PriorityRestored
  BY DEF LentInv
<1> QED
  BY <1>1, Lent, PTL
=============================================================================
