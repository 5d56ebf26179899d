--------------------------- MODULE SemaphoreProofs ---------------------------
(***************************************************************************)
(* Semaphore for any number of threads, semaphores and priorities: no      *)
(* token is kept from a waiter, none is lost or given twice, and nobody    *)
(* waits for a semaphore that is gone.                                     *)
(***************************************************************************)
EXTENDS Semaphore, IpcProofs, FiniteSetTheorems

Resting == {"user", "woken", "taken"}

(* The part of the invariant every semaphore shares with other objects. *)
SemIpcInv == IpcInv(Location, Resting, {"taken"})

IInv == /\ SemIpcInv /\ NoIdleToken
        /\ value \in [Sem -> 0 .. ValueMod - 1] /\ credit \in [Sem -> Int]

(* The threads that hold a token and have not returned with it. *)
Taken(s) == WokenFrom(s, "taken")

(* The value does not wrap: less tokens are out than a value can count.    *)
Countable == IsFiniteSet(Thread) /\ MaxTokens < ValueMod

Conserves == Countable /\ TokensConserved => TokensConserved'

Good == IInv' /\ Conserves

LEMMA SemPlaces == Places(Location, Resting, {"taken"})
BY DEF Places, Location, Resting, Draining

LEMMA SemLists == OwnLists
BY SemaphoreAssumption, IpcAssumption DEF OwnLists, Sem

LEMMA ModSmall ==
  ASSUME NEW n \in Nat, NEW m \in Nat, n < m
  PROVE  n % m = n
OBVIOUS

LEMMA CountFacts ==
  ASSUME IsFiniteSet(Thread), NEW A \in SUBSET Thread
  PROVE  /\ Cardinality(A) \in Nat
         /\ \A t : t \notin A => Cardinality(A \cup {t}) = Cardinality(A) + 1
         /\ \A t \in A : Cardinality(A \ {t}) = Cardinality(A) - 1
<1>1. IsFiniteSet(A)
  BY FS_Subset
<1> QED
  BY <1>1, FS_CardinalityType, FS_AddElement, FS_RemoveElement

LEMMA TakenFacts ==
  ASSUME NEW s \in Sem
  PROVE  Taken(s) \in SUBSET Thread /\ Taken(s)' \in SUBSET Thread
BY DEF Taken, WokenFrom

(* A step that changes no semaphore's tokens. *)
LEMMA SameTokens ==
  ASSUME IInv, SemIpcInv', Keeps({"taken"}), UNCHANGED <<value, credit>>,
         \A s \in Sem : alive'[s] => alive[s]
  PROVE  Good
<1>1. \A s \in Sem : Taken(s)' = Taken(s)
  BY DEF Keeps, Taken, Sem
<1>2. \A s \in Sem : k.wait[s] = << >> => k'.wait[s] = << >>
  BY DEF Keeps, Sem
<1>3. NoIdleToken'
  BY <1>2 DEF IInv, NoIdleToken
<1>4. Conserves
  BY <1>1 DEF Conserves, TokensConserved, Taken
<1> QED
  BY <1>3, <1>4 DEF Good, IInv

(* rt_sem_take of a token that is there. *)
LEMMA TakeTokenGood ==
  ASSUME IInv, NEW t \in Thread, NEW s \in Sem, TakeToken(t, s)
  PROVE  Good
<1>1. /\ value[s] > 0 /\ value' = [value EXCEPT ![s] = @ - 1]
      /\ credit' = [credit EXCEPT ![s] = @ + (-1)]
      /\ UNCHANGED <<k, pc, then, slice, isr, arg, alive, lists, wild>>
  BY DEF TakeToken, Credit
<1>2. /\ value \in [Sem -> 0 .. ValueMod - 1] /\ credit \in [Sem -> Int]
      /\ ValueMod \in Nat
  BY SemaphoreAssumption DEF IInv
<1>3. SemIpcInv' /\ \A q \in Sem : Taken(q)' = Taken(q)
  BY <1>1, AsideKeeps, SemPlaces DEF IInv, SemIpcInv, Keeps, Taken, Sem
<1>4. value' \in [Sem -> 0 .. ValueMod - 1] /\ credit' \in [Sem -> Int]
  <2>1. value[s] - 1 \in 0 .. ValueMod - 1 /\ credit[s] + (-1) \in Int
    BY <1>1, <1>2
  <2> QED
    BY <1>1, <1>2, <2>1
<1>5. \A q \in Sem : /\ value'[q] = IF q = s THEN value[q] - 1 ELSE value[q]
                     /\ credit'[q] = IF q = s THEN credit[q] - 1 ELSE credit[q]
  BY <1>1, <1>2
<1>6. NoIdleToken'
  BY <1>1, <1>2, <1>5 DEF IInv, NoIdleToken
<1>7. Conserves
  <2> SUFFICES ASSUME Countable, TokensConserved, NEW q \in Sem, alive[q]
               PROVE  value'[q] + Cardinality(Taken(q)') = credit'[q]
    BY <1>1 DEF Conserves, TokensConserved, Taken
  <2>1. value[q] + Cardinality(Taken(q)) = credit[q]
    BY DEF TokensConserved, Taken
  <2>2. Cardinality(Taken(q)) \in Nat /\ value[q] \in Nat /\ credit[q] \in Int
    BY <1>2, TakenFacts, CountFacts DEF Countable
  <2> QED
    BY <1>3, <1>5, <2>1, <2>2
<1> QED
  BY <1>3, <1>4, <1>6, <1>7 DEF Good, IInv

(* rt_sem_take that waits: there was no token. *)
LEMMA TakeWaitGood ==
  ASSUME IInv, NEW t \in Thread \ {Idle}, NEW s \in Sem, TakeWait(t, s)
  PROVE  Good
<1>1. /\ At(t, "user") /\ alive[s] /\ value[s] = 0
      /\ About(t, s) /\ UNCHANGED <<value, alive, lists, credit, wild>>
  BY DEF TakeWait, Call
<1>2. PICK timed \in BOOLEAN : (timed => s \in Timed) /\ WaitIn(t, s, timed, "taken")
  BY DEF TakeWait
<1>3. /\ SemIpcInv' /\ WaitsIn(k, k', t, s, timed)
      /\ \A r \in Queue, x \in {"taken"} : WokenFrom(r, x)' = WokenFrom(r, x) \ {t}
  <2>1. /\ "user" \notin {"sched"} \cup Draining /\ s \in Queue /\ s \in {s, Private[s]}
        /\ IpcInv(Location, Resting, {"taken"}) /\ "taken" \in {"taken"}
        /\ UNCHANGED <<alive, lists, wild>>
    BY <1>1 DEF Draining, Sem, IInv, SemIpcInv
  <2> QED
    BY <1>1, <1>2, <2>1, SemPlaces, WaitInKeeps DEF SemIpcInv
<1>4. pc[t] = "user" /\ then[t] = "user" /\ k \in KernelState
  BY <1>1, AtFacts DEF IInv, SemIpcInv, IpcInv
<1>5. \A r \in Sem : Taken(r)' = Taken(r)
  <2>1. \A r \in Sem : t \notin Taken(r)
    BY <1>4 DEF Taken, WokenFrom
  <2> QED
    BY <1>3, <2>1 DEF Taken, Sem
<1>6. ASSUME NEW r \in Sem, r # s, k.wait[r] = << >>
      PROVE  k'.wait[r] = << >>
  <2>1. k' \in KernelState /\ ToSet(k'.wait[r]) = ToSet(k.wait[r]) \cup (IF r \in {s} THEN {t} ELSE {})
    BY <1>3 DEF WaitsIn, SuspendsIn, Sem
  <2>2. ToSet(k'.wait[r]) = ToSet(k.wait[r])
    BY <1>6, <2>1
  <2> QED
    BY <1>4, <1>6, <2>1, <2>2, EmptyList DEF Sem
<1>7. NoIdleToken'
  BY <1>1, <1>6 DEF IInv, NoIdleToken
<1>8. Conserves
  BY <1>1, <1>5 DEF Conserves, TokensConserved, Taken
<1> QED
  BY <1>1, <1>3, <1>7, <1>8 DEF Good, IInv

(* rt_sem_take after its rt_schedule: RT_EOK is returned by who was given  *)
(* a token.                                                                *)
LEMMA TakeReturnGood ==
  ASSUME IInv, NEW t \in Thread, TakeReturn(t)
  PROVE  Good
<1> DEFINE s == arg[t]
<1>1. /\ At(t, "taken") /\ pc' = [pc EXCEPT ![t] = "user"]
      /\ IF k.error[t] = "EOK" THEN credit' = [credit EXCEPT ![s] = @ + (-1)]
                               ELSE credit' = credit
      /\ UNCHANGED <<k, then, slice, isr, value, arg, alive, lists, wild>>
  BY DEF TakeReturn, Credit, Goto
<1>2. /\ ThreadInv(Location, Resting, {"taken"}) /\ ObjectInv /\ Sound(k) /\ k \in KernelState
      /\ pc \in [Thread -> Location] /\ then \in [Thread -> Resting] /\ arg \in [Thread -> Queue]
      /\ pc[t] = "taken" /\ then[t] = "user" /\ k.stat[t] # "SUSPEND"
      /\ then = [then EXCEPT ![t] = "user"]
      /\ value \in [Sem -> 0 .. ValueMod - 1] /\ credit \in [Sem -> Int]
      /\ ValueMod \in Nat
  BY <1>1, AtFacts, SemaphoreAssumption DEF IInv, SemIpcInv, IpcInv, ThreadInv
<1>3. Settles(k, k', {})
  BY <1>1, <1>2 DEF Settles
<1>4. \A y \in Thread : pc'[y] = IF y = t THEN "user" ELSE pc[y]
  BY <1>1, <1>2
<1>5. SemIpcInv'
  <2>1. GoesTo(t, "user", "user") /\ "user" \in Location /\ "user" \in Resting
    BY <1>1, <1>2 DEF GoesTo, Location, Resting
  <2>2. ThreadInv(Location, Resting, {"taken"})'
    BY <1>1, <1>2, <1>3, <2>1, SemPlaces, SettlesKeeps
  <2>3. ObjectInv'
    <3>1. \A y \in Thread : IF pc[y] \in Draining
                            THEN pc'[y] = pc[y] /\ arg'[y] = arg[y]
                            ELSE pc'[y] \notin Draining
      BY <1>1, <1>2, <1>4 DEF Draining
    <3>2. UNCHANGED <<alive, lists, wild>>
      BY <1>1
    <3> QED
      BY <1>2, <1>3, <3>1, <3>2, ObjectKeeps
  <2> QED
    BY <1>1, <2>2, <2>3 DEF IInv, SemIpcInv, IpcInv
<1>6. s \in Sem /\ \A q \in Sem : value[q] \in Nat
  BY <1>2 DEF Sem
<1>7. /\ credit' \in [Sem -> Int]
      /\ \A q \in Sem : credit'[q] = IF q = s /\ k.error[t] = "EOK" THEN credit[q] - 1
                                                                   ELSE credit[q]
  <2>1. credit[s] + (-1) \in Int /\ credit[s] + (-1) = credit[s] - 1
    BY <1>2, <1>6
  <2> HIDE DEF s
  <2> QED
    BY <1>1, <1>2, <2>1
<1>8. ASSUME NEW q \in Sem
      PROVE  /\ t \in Taken(q) <=> q = s /\ k.error[t] = "EOK"
             /\ Taken(q)' = Taken(q) \ {t}
  <2>1. t \in Taken(q) <=> q = s /\ k.error[t] = "EOK"
    BY <1>2 DEF Taken, WokenFrom
  <2>2. t \notin Taken(q)'
    BY <1>1, <1>2, <1>4 DEF Taken, WokenFrom
  <2>3. ASSUME NEW y \in Thread, y # t
        PROVE  y \in Taken(q)' <=> y \in Taken(q)
    BY <1>1, <1>4, <2>3 DEF Taken, WokenFrom
  <2> QED
    BY <2>1, <2>2, <2>3, TakenFacts
<1>9. NoIdleToken'
  BY <1>1 DEF IInv, NoIdleToken
<1>10. Conserves
  <2> SUFFICES ASSUME Countable, TokensConserved, NEW q \in Sem, alive[q]
               PROVE  value[q] + Cardinality(Taken(q)') = credit'[q]
    BY <1>1 DEF Conserves, TokensConserved, Taken
  <2>1. value[q] + Cardinality(Taken(q)) = credit[q]
    BY DEF TokensConserved, Taken
  <2>2. /\ Cardinality(Taken(q)) \in Nat /\ value[q] \in Nat /\ credit[q] \in Int
        /\ t \in Taken(q) => Cardinality(Taken(q) \ {t}) = Cardinality(Taken(q)) - 1
    BY <1>2, <1>6, TakenFacts, CountFacts DEF Countable
  <2>3. t \notin Taken(q) => Taken(q) \ {t} = Taken(q)
    OBVIOUS
  <2>4. CASE t \in Taken(q)
    <3>1. credit'[q] = credit[q] - 1 /\ Taken(q)' = Taken(q) \ {t}
      BY <1>7, <1>8, <2>4
    <3> QED
      BY <2>1, <2>2, <2>4, <3>1
  <2>5. CASE t \notin Taken(q)
    <3>1. credit'[q] = credit[q] /\ Taken(q)' = Taken(q)
      BY <1>7, <1>8, <2>3, <2>5
    <3> QED
      BY <2>1, <3>1
  <2> QED
    BY <2>4, <2>5
<1> QED
  BY <1>1, <1>2, <1>5, <1>7, <1>9, <1>10 DEF Good, IInv

(* The section of rt_sem_release, in a thread or an interrupt: a token     *)
(* goes to the first waiter, or is counted because there is none.          *)
LEMMA PutGood ==
  ASSUME IInv, NEW s \in Sem, alive[s], credit[s] < MaxTokens,
         NEW t \in Thread, NEW l, NEW h, Goes(Location, Resting, {"taken"}, t, l, h),
         credit' = [credit EXCEPT ![s] = @ + 1],
         \/ /\ k.wait[s] # << >>
            /\ k' \in {IpcResume(k, s), Schedule(IpcResume(k, s))} /\ UNCHANGED value
         \/ /\ k.wait[s] = << >>
            /\ value' = [value EXCEPT ![s] = (@ + 1) % ValueMod] /\ UNCHANGED k
  PROVE  Good
<1>1. /\ IpcInv(Location, Resting, {"taken"}) /\ Sound(k) /\ k \in KernelState
      /\ WaiterInv({"taken"}) /\ s \in Queue
      /\ value \in [Sem -> 0 .. ValueMod - 1] /\ credit \in [Sem -> Int]
      /\ ValueMod \in Nat \ {0} /\ MaxTokens \in Nat
      /\ arg' = arg /\ UNCHANGED <<alive, lists, wild>>
  BY SemaphoreAssumption DEF IInv, SemIpcInv, IpcInv, ThreadInv, Sound, Sem, Goes
<1>2. /\ credit' \in [Sem -> Int]
      /\ \A q \in Sem : credit'[q] = IF q = s THEN credit[q] + 1 ELSE credit[q]
  <2>1. credit[s] + 1 \in Int
    BY <1>1
  <2> QED
    BY <1>1, <2>1
<1>3. CASE k.wait[s] # << >>
  <2>1. PICK w \in ToSet(k.wait[s]) : Settles(k, k', {w}) /\ k'.error = k.error
    <3>1. \A y \in ToSet(k.wait[s]) : k.stat[y] = "SUSPEND"
      BY <1>1 DEF WaiterInv, Waiting
    <3>2. k' \in {IpcResume(k, s), Schedule(IpcResume(k, s))}
      BY <1>3
    <3> QED
      BY <1>1, <1>3, <3>1, <3>2, FirstFacts
  <2>2. SemIpcInv' /\ Resumes({"taken"}, s, {w})
    <3> DEFINE S == {w}
    <3>1. S \subseteq ToSet(k.wait[s]) /\ \A y \in Thread \ S : k'.error[y] = k.error[y]
      BY <2>1
    <3>2. Settles(k, k', S)
      BY <2>1
    <3> HIDE DEF S
    <3>3. IpcInv(Location, Resting, {"taken"})' /\ Resumes({"taken"}, s, S)
      BY <1>1, <3>1, <3>2, SemPlaces, ResumeKeeps
    <3> QED
      BY <3>3 DEF S, SemIpcInv
  <2>3. arg[w] = s /\ "taken" \in {pc[w], then[w]}
    <3>1. /\ w \in Thread /\ {pc[w], then[w]} \cap {"taken"} # {}
          /\ s \in {arg[w], Private[arg[w]]}
      BY <2>2 DEF Resumes
    <3>2. arg[w] \in Sem
      BY <1>1, <3>1 DEF IpcInv, ThreadInv, Sem
    <3> QED
      BY <3>1, <3>2, SemaphoreAssumption
  <2>4. \A q \in Sem : /\ Taken(q)' = IF q = s THEN Taken(q) \cup {w} ELSE Taken(q)
                       /\ w \notin Taken(q)
    BY <2>1, <2>2, <2>3 DEF Taken, Sem, WokenFrom, Resumes
  <2>5. NoIdleToken'
    BY <1>1, <1>3, <2>2 DEF IInv, NoIdleToken, Sem, Resumes
  <2>6. Conserves
    <3> SUFFICES ASSUME Countable, TokensConserved, NEW q \in Sem, alive[q]
                 PROVE  value[q] + Cardinality(Taken(q)') = credit'[q]
      BY <1>1, <1>3 DEF Conserves, TokensConserved, Taken
    <3>1. value[q] + Cardinality(Taken(q)) = credit[q]
      BY DEF TokensConserved, Taken
    <3>2. /\ Cardinality(Taken(q)) \in Nat /\ value[q] \in Nat /\ credit[q] \in Int
          /\ Cardinality(Taken(q) \cup {w}) = Cardinality(Taken(q)) + 1
      BY <1>1, <2>4, TakenFacts, CountFacts DEF Countable
    <3>3. CASE q = s
      <4>1. credit'[q] = credit[q] + 1 /\ Taken(q)' = Taken(q) \cup {w}
        BY <1>2, <2>4, <3>3
      <4> QED
        BY <3>1, <3>2, <4>1
    <3>4. CASE q # s
      <4>1. credit'[q] = credit[q] /\ Taken(q)' = Taken(q)
        BY <1>2, <2>4, <3>4
      <4> QED
        BY <3>1, <4>1
    <3> QED
      BY <3>3, <3>4
  <2> QED
    BY <1>1, <1>2, <1>3, <2>2, <2>5, <2>6 DEF Good, IInv
<1>4. CASE k.wait[s] = << >>
  <2>1. k' = k /\ value' = [value EXCEPT ![s] = (@ + 1) % ValueMod]
    BY <1>4
  <2>2. SemIpcInv' /\ Resumes({"taken"}, s, {})
    <3> DEFINE S == {}
    <3>1. /\ Settles(k, k', S) /\ S \subseteq ToSet(k.wait[s])
          /\ \A y \in Thread \ S : k'.error[y] = k.error[y]
      BY <1>1, <2>1 DEF Settles
    <3> HIDE DEF S
    <3>2. IpcInv(Location, Resting, {"taken"})' /\ Resumes({"taken"}, s, S)
      BY <1>1, <3>1, SemPlaces, ResumeKeeps
    <3> QED
      BY <3>2 DEF S, SemIpcInv
  <2>3. \A q \in Sem : Taken(q)' = Taken(q)
    BY <2>2 DEF Taken, Sem, Resumes
  <2>4. /\ value' \in [Sem -> 0 .. ValueMod - 1]
        /\ \A q \in Sem : value'[q] = IF q = s THEN (value[q] + 1) % ValueMod ELSE value[q]
    <3>1. (value[s] + 1) % ValueMod \in 0 .. ValueMod - 1
      BY <1>1
    <3> QED
      BY <1>1, <2>1, <3>1
  <2>5. NoIdleToken'
    BY <1>1, <1>4, <2>1, <2>4 DEF IInv, NoIdleToken
  <2>6. Conserves
    <3> SUFFICES ASSUME Countable, TokensConserved, NEW q \in Sem, alive[q]
                 PROVE  value'[q] + Cardinality(Taken(q)') = credit'[q]
      BY <1>1 DEF Conserves, TokensConserved, Taken
    <3>1. value[q] + Cardinality(Taken(q)) = credit[q]
      BY DEF TokensConserved, Taken
    <3>2. Cardinality(Taken(q)) \in Nat /\ value[q] \in Nat /\ credit[q] \in Int
      BY <1>1, TakenFacts, CountFacts DEF Countable
    <3>3. q = s => (value[q] + 1) % ValueMod = value[q] + 1
      <4>1. q = s => value[q] + 1 < ValueMod
        BY <1>1, <3>1, <3>2 DEF Countable
      <4> QED
        BY <1>1, <3>2, <4>1, ModSmall
    <3> QED
      BY <1>2, <2>3, <2>4, <3>1, <3>2, <3>3
  <2> QED
    BY <1>2, <2>2, <2>4, <2>5, <2>6 DEF Good, IInv
<1> QED
  BY <1>3, <1>4

LEMMA ReleaseGood ==
  ASSUME IInv, NEW t \in Thread, NEW s \in Sem, Release(t, s)
  PROVE  Good
<1> DEFINE l == IF k.wait[s] # << >> THEN "sched" ELSE "user"
<1>1. /\ At(t, "user") /\ alive[s] /\ credit[s] < MaxTokens
      /\ credit' = [credit EXCEPT ![s] = @ + 1]
      /\ pc' = IF k.wait[s] # << >> THEN [pc EXCEPT ![t] = "sched"] ELSE pc
      /\ UNCHANGED <<then, slice, isr, arg, alive, lists, wild>>
      /\ \/ k.wait[s] # << >> /\ k' = IpcResume(k, s) /\ UNCHANGED value
         \/ /\ k.wait[s] = << >>
            /\ value' = [value EXCEPT ![s] = (@ + 1) % ValueMod] /\ UNCHANGED k
  BY DEF Release, Put, Credit, Goto
<1>2. /\ pc \in [Thread -> Location] /\ pc[t] = "user" /\ then[t] = "user"
      /\ then = [then EXCEPT ![t] = "user"]
      /\ slice \in [Thread -> Nat \ {0}] /\ isr \in {"none", "timers"}
  BY <1>1, AtFacts DEF IInv, SemIpcInv, IpcInv, ThreadInv
<1>3. GoesTo(t, l, "user")
  BY <1>1, <1>2 DEF GoesTo
<1>4. l \in {"user", "sched"}
  OBVIOUS
<1> HIDE DEF l
<1>5. Goes(Location, Resting, {"taken"}, t, l, "user")
  BY <1>1, <1>2, <1>3, <1>4 DEF Goes, Location, Resting, Draining
<1> QED
  BY <1>1, <1>5, PutGood

LEMMA StandsStill ==
  ASSUME IInv, UNCHANGED <<pc, then, slice, isr, arg, alive, lists, wild>>
  PROVE  Goes(Location, Resting, {"taken"}, k.current, pc[k.current], then[k.current])
<1>1. /\ pc \in [Thread -> Location] /\ then \in [Thread -> Resting] /\ k.current \in Thread
      /\ ThenInv
      /\ slice \in [Thread -> Nat \ {0}] /\ isr \in {"none", "timers"}
  BY DEF IInv, SemIpcInv, IpcInv, ThreadInv, Sound, KernelState
<1>2. GoesTo(k.current, pc[k.current], then[k.current])
  BY <1>1 DEF GoesTo
<1> QED
  BY <1>1, <1>2 DEF Goes, ThenInv

LEMMA IsrReleaseGood ==
  ASSUME IInv, NEW s \in Sem, IsrRelease(s)
  PROVE  Good
<1>1. /\ alive[s] /\ credit[s] < MaxTokens
      /\ credit' = [credit EXCEPT ![s] = @ + 1]
      /\ UNCHANGED <<pc, then, slice, isr, arg, alive, lists, wild>>
      /\ \/ /\ k.wait[s] # << >> /\ k' = Schedule(IpcResume(k, s)) /\ UNCHANGED value
         \/ /\ k.wait[s] = << >>
            /\ value' = [value EXCEPT ![s] = (@ + 1) % ValueMod] /\ UNCHANGED k
  BY DEF IsrRelease, Credit
<1>2. Goes(Location, Resting, {"taken"}, k.current, pc[k.current], then[k.current])
  BY <1>1, StandsStill
<1>3. k.current \in Thread
  BY DEF IInv, SemIpcInv, IpcInv, ThreadInv, Sound, KernelState
<1> QED
  BY <1>1, <1>2, <1>3, PutGood

(* rt_sem_control: the waiters leave without a token. *)
LEMMA ResetGood ==
  ASSUME IInv, NEW t \in Thread, NEW s \in Sem, Reset(t, s)
  PROVE  Good
<1>1. PICK v \in 0 .. MaxTokens :
        /\ value' = [value EXCEPT ![s] = v % ValueMod]
        /\ credit' = [credit EXCEPT ![s] = @ + (v - value[s])]
  BY DEF Reset, Credit
<1>2. /\ At(t, "user") /\ alive[s] /\ k' = IpcResumeAll(k, s)
      /\ pc' = [pc EXCEPT ![t] = "sched"]
      /\ UNCHANGED <<then, slice, isr, arg, alive, lists, wild>>
  BY DEF Reset, Call, Goto
<1>3. /\ IpcInv(Location, Resting, {"taken"}) /\ Sound(k) /\ k \in KernelState
      /\ WaiterInv({"taken"}) /\ s \in Queue
      /\ value \in [Sem -> 0 .. ValueMod - 1] /\ credit \in [Sem -> Int]
      /\ ValueMod \in Nat \ {0} /\ MaxTokens \in Nat
      /\ pc[t] = "user" /\ then[t] = "user" /\ then = [then EXCEPT ![t] = "user"]
      /\ slice \in [Thread -> Nat \ {0}] /\ isr \in {"none", "timers"}
  BY <1>2, SemaphoreAssumption, AtFacts DEF IInv, SemIpcInv, IpcInv, ThreadInv, Sound, Sem
<1> DEFINE S == ToSet(k.wait[s])
<1>4. Settles(k, k', S) /\ \A y \in Thread : k'.error[y] = IF y \in S THEN "ERROR" ELSE k.error[y]
  <2>1. \A y \in S : k.stat[y] = "SUSPEND"
    BY <1>3 DEF WaiterInv, Waiting
  <2>2. ResumesAll(k, IpcResumeAll(k, s), S, "ERROR")
    BY <1>3, <2>1, ResumeAllFacts
  <2> HIDE DEF S
  <2> QED
    BY <1>2, <2>2 DEF ResumesAll
<1>5. IpcInv(Location, Resting, {"taken"})' /\ Resumes({"taken"}, s, S)
  <2>1. GoesTo(t, "sched", "user")
    BY <1>2, <1>3 DEF GoesTo
  <2>2. Goes(Location, Resting, {"taken"}, t, "sched", "user")
    BY <1>2, <1>3, <2>1 DEF Goes, Location, Resting, Draining
  <2>3. S \subseteq ToSet(k.wait[s]) /\ \A y \in Thread \ S : k'.error[y] = k.error[y]
    BY <1>4
  <2> HIDE DEF S
  <2> QED
    BY <1>2, <1>3, <1>4, <2>2, <2>3, SemPlaces, ResumeKeeps
<1>6. ToSet(k'.wait[s]) = {} /\ k' \in KernelState
  BY <1>3, <1>4 DEF Settles
<1>7. k'.wait[s] = << >>
  BY <1>3, <1>6, EmptyList
<1>8. \A q \in Sem : Taken(q)' = Taken(q)
  <2>1. \A y \in S : k'.error[y] # "EOK"
    BY <1>4, <1>5 DEF Resumes
  <2>2. \A q \in Queue, x \in {"taken"} : WokenFrom(q, x)' = WokenFrom(q, x)
    <3>1. \A q \in Queue, x \in {"taken"} : WokenFrom(q, x)' = WokenFrom(q, x) \cup
            {y \in S : k'.error[y] = "EOK" /\ x \in {pc[y], then[y]} /\ arg[y] = q}
      BY <1>5 DEF Resumes
    <3> HIDE DEF S
    <3> QED
      BY <2>1, <3>1
  <2> QED
    BY <2>2 DEF Taken, Sem
<1>9. /\ value' \in [Sem -> 0 .. ValueMod - 1]
      /\ \A q \in Sem : value'[q] = IF q = s THEN v % ValueMod ELSE value[q]
  <2>1. v % ValueMod \in 0 .. ValueMod - 1
    BY <1>3
  <2> QED
    BY <1>1, <1>3, <2>1
<1>10. /\ credit' \in [Sem -> Int]
       /\ \A q \in Sem : credit'[q] = IF q = s THEN credit[q] + (v - value[q]) ELSE credit[q]
  <2>1. credit[s] + (v - value[s]) \in Int
    BY <1>3
  <2> QED
    BY <1>1, <1>3, <2>1
<1>11. NoIdleToken'
  BY <1>2, <1>5, <1>7, <1>9 DEF IInv, NoIdleToken, Resumes, Sem
<1>12. Conserves
  <2> SUFFICES ASSUME Countable, TokensConserved, NEW q \in Sem, alive[q]
               PROVE  value'[q] + Cardinality(Taken(q)') = credit'[q]
    BY <1>2 DEF Conserves, TokensConserved, Taken
  <2>1. value[q] + Cardinality(Taken(q)) = credit[q]
    BY DEF TokensConserved, Taken
  <2>2. Cardinality(Taken(q)) \in Nat /\ value[q] \in Nat /\ credit[q] \in Int
    BY <1>3, TakenFacts, CountFacts DEF Countable
  <2>3. v % ValueMod = v
    <3>1. v < ValueMod /\ v \in Nat /\ ValueMod \in Nat
      BY <1>3 DEF Countable
    <3> QED
      BY <3>1, ModSmall
  <2>4. CASE q = s
    <3>1. value'[q] = v /\ credit'[q] = credit[q] + (v - value[q])
      BY <1>9, <1>10, <2>3, <2>4
    <3> QED
      BY <1>8, <2>1, <2>2, <3>1
  <2>5. CASE q # s
    BY <1>8, <1>9, <1>10, <2>1, <2>5
  <2> QED
    BY <2>4, <2>5
<1> QED
  BY <1>5, <1>9, <1>10, <1>11, <1>12 DEF Good, IInv, SemIpcInv

(* rt_sem_init where a deleted semaphore was: nobody waits there or has    *)
(* yet to return from there.                                               *)
LEMMA CreateGood ==
  ASSUME IInv, NEW t \in Thread, NEW s \in Sem, Create(t, s)
  PROVE  Good
<1>1. Revive(t, s, {"taken"})
  BY DEF Create
<1>2. PICK v \in 0 .. MaxTokens : /\ value'  = [value EXCEPT ![s] = v % ValueMod]
                                  /\ credit' = [credit EXCEPT ![s] = v]
  BY DEF Create
<1>3. /\ IpcInv(Location, Resting, {"taken"})
      /\ s \in Queue /\ Private[s] = s /\ alive \in [Queue -> BOOLEAN]
      /\ value \in [Sem -> 0 .. ValueMod - 1] /\ credit \in [Sem -> Int]
      /\ ValueMod \in Nat \ {0} /\ MaxTokens \in Nat
  BY SemaphoreAssumption DEF IInv, SemIpcInv, IpcInv, ObjectInv, Sem
<1>4. /\ k' = k /\ alive' = [alive EXCEPT ![s] = TRUE, ![Private[s]] = TRUE]
  BY <1>1 DEF Revive
<1>5. /\ IpcInv(Location, Resting, {"taken"})' /\ Keeps({"taken"})
      /\ \A r \in {s, Private[s]} : k.wait[r] = << >> /\ \A x \in {"taken"} : WokenFrom(r, x) = {}
  <2>1. /\ Places(Location, Resting, {"taken"}) /\ OwnLists /\ {"taken"} \subseteq {"taken"}
        /\ IpcInv(Location, Resting, {"taken"}) /\ s \in Queue /\ Revive(t, s, {"taken"})
    BY <1>1, <1>3, SemPlaces, SemLists
  <2> QED
    BY <2>1, ReviveKeeps
<1>6. k.wait[s] = << >> /\ Taken(s) = {} /\ \A q \in Sem : Taken(q)' = Taken(q)
  BY <1>5 DEF Keeps, Taken, Sem
<1>7. \A q \in Sem : q # s /\ alive'[q] => alive[q]
  BY <1>3, <1>4 DEF Sem
<1>8. /\ value' \in [Sem -> 0 .. ValueMod - 1] /\ credit' \in [Sem -> Int]
      /\ \A q \in Sem : /\ value'[q] = IF q = s THEN v % ValueMod ELSE value[q]
                        /\ credit'[q] = IF q = s THEN v ELSE credit[q]
  <2>1. v % ValueMod \in 0 .. ValueMod - 1 /\ v \in Int
    BY <1>3
  <2> QED
    BY <1>2, <1>3, <2>1
<1>9. NoIdleToken'
  BY <1>4, <1>6, <1>7, <1>8 DEF IInv, NoIdleToken
<1>10. Conserves
  <2> SUFFICES ASSUME Countable, TokensConserved, NEW q \in Sem, alive'[q]
               PROVE  value'[q] + Cardinality(Taken(q)') = credit'[q]
    BY DEF Conserves, TokensConserved, Taken
  <2>1. CASE q = s
    <3>1. v < ValueMod /\ v \in Nat /\ ValueMod \in Nat
      BY <1>3 DEF Countable
    <3>2. value'[q] = v /\ credit'[q] = v
      BY <1>8, <2>1, <3>1, ModSmall
    <3>3. Cardinality(Taken(q)') = 0
      BY <1>6, <2>1, FS_EmptySet
    <3> QED
      BY <3>1, <3>2, <3>3
  <2>2. CASE q # s
    BY <1>6, <1>7, <1>8, <2>2 DEF TokensConserved, Taken
  <2> QED
    BY <2>1, <2>2
<1> QED
  BY <1>5, <1>8, <1>9, <1>10 DEF Good, IInv, SemIpcInv

(* The steps that are the same for every object. *)
LEMMA CommonGood ==
  ASSUME IInv, NEW t \in Thread \ {Idle},
         \/ \E s \in Sem : Delete(t, s)
         \/ Removal(t)
         \/ (Reschedule(t) \/ Sleep(t) \/ SleepReturn(t)) /\ UNCHANGED ipcVars,
         UNCHANGED semVars
  PROVE  Good
<1> USE SemPlaces, SemLists
<1>1. IpcInv(Location, Resting, {"taken"}) /\ UNCHANGED <<value, credit>>
      /\ alive \in [Queue -> BOOLEAN]
  BY DEF IInv, SemIpcInv, IpcInv, ObjectInv, semVars
<1> SUFFICES /\ IpcInv(Location, Resting, {"taken"})' /\ Keeps({"taken"})
             /\ \A s \in Sem : alive'[s] => alive[s]
  BY <1>1, SameTokens DEF SemIpcInv
<1>2. ASSUME NEW s \in Sem, Delete(t, s)
      PROVE  /\ IpcInv(Location, Resting, {"taken"})' /\ Keeps({"taken"})
             /\ \A q \in Sem : alive'[q] => alive[q]
  <2>1. alive' = [alive EXCEPT ![s] = FALSE, ![Private[s]] = FALSE]
    BY <1>2 DEF Delete
  <2>2. \A q \in Sem : alive'[q] => alive[q]
    BY <1>1, <2>1 DEF Sem
  <2> QED
    BY <1>1, <1>2, <2>2, DeleteKeeps DEF Sem
<1>3. CASE Removal(t)
  BY <1>1, <1>3, DrainCheckKeeps, DrainOneKeeps, RemovedKeeps
     DEF Removal, DrainCheck, DrainOne, Removed
<1>4. CASE (Reschedule(t) \/ Sleep(t) \/ SleepReturn(t)) /\ UNCHANGED ipcVars
  BY <1>1, <1>4, RescheduleKeeps, SleepKeeps, SleepReturnKeeps DEF ipcVars
<1> QED
  BY <1>2, <1>3, <1>4

LEMMA TimeGood ==
  ASSUME IInv, Tick \/ TickEnd \/ \E t \in Thread : TimerExpire(t),
         UNCHANGED <<ipcVars, semVars>>
  PROVE  Good
<1>1. /\ IpcInv(Location, Resting, {"taken"}) /\ UNCHANGED <<value, credit>>
      /\ UNCHANGED ipcVars /\ alive' = alive
  BY DEF IInv, SemIpcInv, semVars, ipcVars
<1>2. IpcInv(Location, Resting, {"taken"})' /\ Keeps({"taken"})
  BY <1>1, SemPlaces, TickKeeps, TickEndKeeps, TimerExpireKeeps
<1> QED
  BY <1>1, <1>2, SameTokens DEF SemIpcInv

LEMMA StutterGood ==
  ASSUME IInv, UNCHANGED vars
  PROVE  Good
<1>1. UNCHANGED <<k, pc, then, slice, isr, arg, alive, lists, wild>>
      /\ UNCHANGED <<value, credit>>
  BY DEF vars
<1>2. IpcInv(Location, Resting, {"taken"})' /\ Keeps({"taken"})
  BY <1>1, SemPlaces, AsideKeeps DEF IInv, SemIpcInv
<1> QED
  BY <1>1, <1>2, SameTokens DEF SemIpcInv

LEMMA StepGood ==
  ASSUME IInv, [Next]_vars
  PROVE  Good
<1>1. ASSUME NEW t \in Thread \ {Idle}, ThreadStep(t)
      PROVE  Good
  BY <1>1, TakeTokenGood, TakeWaitGood, ReleaseGood, ResetGood, CreateGood, TakeReturnGood,
     CommonGood DEF ThreadStep
<1>2. CASE Interrupt
  BY <1>2, IsrReleaseGood, TimeGood DEF Interrupt
<1>3. CASE UNCHANGED vars
  BY <1>3, StutterGood
<1> QED
  BY <1>1, <1>2, <1>3 DEF Next
-----------------------------------------------------------------------------
(* No token is there at the start, and none is owed. *)
LEMMA InitGood ==
  ASSUME Init
  PROVE  IInv /\ TokensConserved
<1>1. /\ IpcInv(Location, Resting, {"taken"})
      /\ \A q \in Queue : k.wait[q] = << >> /\ \A x \in {"taken"} : WokenFrom(q, x) = {}
  BY SemPlaces, SemLists, InitIpc DEF Init
<1>2. /\ value = [s \in Sem |-> 0] /\ credit = [s \in Sem |-> 0]
      /\ 0 \in 0 .. ValueMod - 1
  BY SemaphoreAssumption DEF Init
<1>3. NoIdleToken /\ TokensConserved
  <2>1. \A s \in Sem : WokenFrom(s, "taken") = {} /\ k.wait[s] = << >>
    BY <1>1 DEF Sem
  <2>2. \A s \in Sem : Cardinality(WokenFrom(s, "taken")) = 0
    BY <2>1, FS_EmptySet
  <2> QED
    BY <1>2, <2>1, <2>2 DEF NoIdleToken, TokensConserved
<1> QED
  BY <1>1, <1>2, <1>3 DEF IInv, SemIpcInv

THEOREM Invariance == Spec => []IInv
<1>1. Init => IInv
  BY InitGood
<1>2. IInv /\ [Next]_vars => IInv'
  BY StepGood DEF Good
<1> QED
  BY <1>1, <1>2, PTL DEF Spec

(* The variables keep their types: sem->value stays within its 16 bits.    *)
THEOREM Types == Spec => []TypeOK
<1>1. IInv => TypeOK
  BY DEF IInv, SemIpcInv, IpcInv, ThreadInv, ObjectInv, Sound, TypeOK, IpcTypeOK, Resting
<1> QED
  BY <1>1, Invariance, PTL

(* rt_sem_release: a token is counted only if nobody waits for one, and    *)
(* rt_sem_take waits only if none is counted.                              *)
THEOREM NothingIdle == Spec => []NoIdleToken
<1>1. IInv => NoIdleToken
  BY DEF IInv
<1> QED
  BY <1>1, Invariance, PTL

(* rt_sem_detach and rt_sem_delete leave nobody behind in the list.        *)
THEOREM NobodyLeft == Spec => []NobodyWaitsForever
<1>1. IInv => NobodyWaitsForever
  BY DEF IInv, SemIpcInv, IpcInv, ObjectInv
<1> QED
  BY <1>1, Invariance, PTL

(* rt_ipc_list_resume_all resumes threads only, if nobody waits with a     *)
(* timeout for a semaphore that is deleted: no tick can take a waiter      *)
(* between its look at the list and its section.                           *)
THEOREM TakesThreads == ASSUME Untimed PROVE Spec => []ResumesThreads
<1>1. IInv => ResumesThreads
  BY DEF IInv, SemIpcInv, IpcInv, ObjectInv, WildInv, ResumesThreads
<1> QED
  BY <1>1, Invariance, PTL

(* Tokens are neither lost nor given twice as long as fewer are out than   *)
(* the value can count: rt_sem_release does not look for the wrap.         *)
THEOREM Conserved == ASSUME Countable PROVE Spec => []TokensConserved
<1>1. Init => IInv /\ TokensConserved
  BY InitGood
<1>2. (IInv /\ TokensConserved) /\ [Next]_vars => (IInv /\ TokensConserved)'
  BY StepGood DEF Good, Conserves
<1> QED
  BY <1>1, <1>2, PTL DEF Spec
=============================================================================
