---------------------------- MODULE TimerProofs ----------------------------
(***************************************************************************)
(* The inductive invariant of Timer, for any number of timers and threads, *)
(* any width of the tick and any timeouts below half of it: the list is in *)
(* the order the timers are due in, across the wraparound.                 *)
(***************************************************************************)
EXTENDS Timer, SequenceTheorems, WellFoundedInduction, TLAPS

(* What KernelProofs shows of lists, which have nothing to do with threads. *)
Kern == INSTANCE KernelProofs WITH Thread <- {0}, Idle <- 0, PrioMax <- 1, Queue <- {}

LEMMA ListEmpty ==
  ASSUME NEW S, NEW s \in Seq(S)
  PROVE  /\ s = << >> <=> ToSet(s) = {}
         /\ s # << >> => Head(s) \in ToSet(s)
         /\ ToSet(s) \subseteq S
BY Kern!ListEmpty DEF Kern!ToSet, ToSet

LEMMA WithoutSame ==
  ASSUME NEW s, NEW t
  PROVE  Kern!Without(s, t) = Without(s, t)
BY DEF Kern!Without, Without, Kern!RemoveAt, RemoveAt

LEMMA WithoutPlaces ==
  ASSUME NEW S, NEW s \in Seq(S), NEW t \in ToSet(s)
  PROVE  \E n \in 1 .. Len(s) :
           /\ s[n] = t
           /\ Without(s, t) \in Seq(S) /\ Len(Without(s, t)) = Len(s) - 1
           /\ \A i \in 1 .. Len(s) - 1 :
                Without(s, t)[i] = IF i < n THEN s[i] ELSE s[i + 1]
<1>1. t \in Kern!ToSet(s)
  BY DEF Kern!ToSet, ToSet
<1>2. \E n \in 1 .. Len(s) :
        /\ s[n] = t
        /\ Kern!Without(s, t) \in Seq(S) /\ Len(Kern!Without(s, t)) = Len(s) - 1
        /\ \A i \in 1 .. Len(s) - 1 :
             Kern!Without(s, t)[i] = IF i < n THEN s[i] ELSE s[i + 1]
  BY <1>1, Kern!WithoutPlaces
<1>3. Kern!Without(s, t) = Without(s, t)
  BY WithoutSame
<1> QED
  BY <1>2, <1>3

LEMMA ListWithout ==
  ASSUME NEW S, NEW s \in Seq(S), NEW t, IsInjective(s)
  PROVE  /\ Without(s, t) \in Seq(S)
         /\ ToSet(Without(s, t)) = ToSet(s) \ {t}
         /\ IsInjective(Without(s, t))
<1> DEFINE w == Without(s, t)
<1>1. Kern!IsInjective(s)
  BY DEF Kern!IsInjective, IsInjective
<1>2. Kern!Without(s, t) = w
  BY WithoutSame
<1>3. /\ Kern!Without(s, t) \in Seq(S)
      /\ Kern!ToSet(Kern!Without(s, t)) = Kern!ToSet(s) \ {t}
      /\ Kern!IsInjective(Kern!Without(s, t))
  BY <1>1, Kern!ListWithout
<1> HIDE DEF w
<1>4. Kern!ToSet(w) = ToSet(w) /\ Kern!ToSet(s) = ToSet(s)
  BY DEF Kern!ToSet, ToSet
<1>5. Kern!IsInjective(w) => IsInjective(w)
  BY DEF Kern!IsInjective, IsInjective
<1>6. w \in Seq(S) /\ ToSet(w) = ToSet(s) \ {t} /\ IsInjective(w)
  BY <1>2, <1>3, <1>4, <1>5
<1> QED
  BY <1>6 DEF w

LEMMA ListAbsent ==
  ASSUME NEW s, NEW t, t \notin ToSet(s)
  PROVE  Without(s, t) = s
BY Kern!ListAbsent, WithoutSame DEF Kern!ToSet, ToSet

LEMMA InsertPlaces ==
  ASSUME NEW S, NEW s \in Seq(S), NEW t \in S, NEW i \in 1 .. Len(s) + 1
  PROVE  /\ InsertAt(s, i, t) \in Seq(S)
         /\ Len(InsertAt(s, i, t)) = Len(s) + 1
         /\ \A j \in 1 .. Len(s) + 1 :
              InsertAt(s, i, t)[j] = IF j < i THEN s[j]
                                     ELSE IF j = i THEN t ELSE s[j - 1]
<1>1. Kern!InsertAt(s, i, t) = InsertAt(s, i, t)
  BY DEF Kern!InsertAt, InsertAt
<1>2. /\ Kern!InsertAt(s, i, t) \in Seq(S)
      /\ Len(Kern!InsertAt(s, i, t)) = Len(s) + 1
      /\ \A j \in 1 .. Len(s) + 1 :
           Kern!InsertAt(s, i, t)[j] = IF j < i THEN s[j]
                                       ELSE IF j = i THEN t ELSE s[j - 1]
  BY Kern!InsertPlaces
<1> QED
  BY <1>1, <1>2

LEMMA ListInsert ==
  ASSUME NEW S, NEW s \in Seq(S), NEW t \in S, NEW i \in 1 .. Len(s) + 1
  PROVE  /\ InsertAt(s, i, t) \in Seq(S)
         /\ ToSet(InsertAt(s, i, t)) = ToSet(s) \cup {t}
         /\ IsInjective(s) /\ t \notin ToSet(s) => IsInjective(InsertAt(s, i, t))
<1> DEFINE w == InsertAt(s, i, t)
<1>1. Kern!InsertAt(s, i, t) = w
  BY DEF Kern!InsertAt, InsertAt
<1>2. /\ Kern!InsertAt(s, i, t) \in Seq(S)
      /\ Kern!ToSet(Kern!InsertAt(s, i, t)) = Kern!ToSet(s) \cup {t}
      /\ Kern!IsInjective(s) /\ t \notin Kern!ToSet(s) =>
           Kern!IsInjective(Kern!InsertAt(s, i, t))
  BY Kern!ListInsert
<1> HIDE DEF w
<1>3. Kern!ToSet(w) = ToSet(w) /\ Kern!ToSet(s) = ToSet(s)
  BY DEF Kern!ToSet, ToSet
<1>4. IsInjective(s) => Kern!IsInjective(s)
  BY DEF Kern!IsInjective, IsInjective
<1>5. Kern!IsInjective(w) => IsInjective(w)
  BY DEF Kern!IsInjective, IsInjective
<1>6. /\ w \in Seq(S) /\ ToSet(w) = ToSet(s) \cup {t}
      /\ IsInjective(s) /\ t \notin ToSet(s) => IsInjective(w)
  BY <1>1, <1>2, <1>3, <1>4, <1>5
<1> QED
  BY <1>6 DEF w

LEMMA LeastFacts ==
  ASSUME NEW g \in SUBSET Nat, g # {}
  PROVE  Min(g) \in g /\ \A p \in g : Min(g) <= p
<1>1. Kern!Min(g) = Min(g)
  BY DEF Kern!Min, Min
<1>2. Kern!Min(g) \in g /\ \A p \in g : Kern!Min(g) <= p
  BY Kern!LeastFacts
<1> QED
  BY <1>1, <1>2

-----------------------------------------------------------------------------
Object == [made : BOOLEAN, init : Times, due : 0 .. TickMod - 1,
           active : BOOLEAN, periodic : BOOLEAN, wait : Int,
           stop : {"none", "EOK", "ERROR"}]

State == [list : Seq(TimerObj), tm : [TimerObj -> Object]]

(* At the tick n, the timer r waits to be due and was not stopped: due is  *)
(* where the tick is in wait ticks, and wait is less than half the clock.  *)
Dated(r, n) == /\ r.made /\ r.stop # "EOK"
               /\ r.due - n - r.wait \in {0, TickMod, -TickMod}
               /\ -Late - 1 <= r.wait /\ r.wait + Late < Half

Sorted(s) == \A i, j \in DOMAIN s.list :
               i < j => s.tm[s.list[i]].wait <= s.tm[s.list[j]].wait

Plan(s, n) == /\ s \in State /\ IsInjective(s.list) /\ Sorted(s)
              /\ \A x \in ToSet(s.list) : Dated(s.tm[x], n)

(* The arithmetic of the clock. *)
LEMMA ModFacts ==
  ASSUME NEW m \in Nat \ {0}, NEW a \in Int
  PROVE  /\ 0 <= a /\ a < m => a % m = a
         /\ -m <= a /\ a < 0 => a % m = a + m
         /\ m <= a /\ a < m + m => a % m = a - m
OBVIOUS

LEMMA ClockFacts ==
  /\ TickMod \in Nat \ {0} /\ Late \in Nat /\ Half \in Nat
  /\ Half + Half < TickMod /\ Late + 1 < Half
<1>1. /\ TickMod \in Nat \ {0} /\ Late \in Nat
      /\ \E n \in Times : n \in 1 .. Half - 1 /\ n + Late < Half
  BY TimerAssumption
<1>2. Half \in Nat /\ Half + Half < TickMod
  BY <1>1 DEF Half
<1> HIDE DEF Half
<1>3. Late + 1 < Half
  BY <1>1, <1>2
<1> QED
  BY <1>1, <1>2, <1>3

LEMMA MinusFacts ==
  ASSUME NEW i \in 0 .. TickMod - 1, NEW j \in 0 .. TickMod - 1
  PROVE  Minus(i, j) = IF j <= i THEN i - j ELSE i - j + TickMod
<1>1. TickMod \in Nat \ {0} /\ i - j \in Int
  BY ClockFacts
<1>2. /\ j <= i => 0 <= i - j /\ i - j < TickMod
      /\ ~(j <= i) => -TickMod <= i - j /\ i - j < 0
  BY <1>1
<1> QED
  BY <1>1, <1>2, ModFacts DEF Minus

(* Of two timers one of which may be overdue, the one that is due later.   *)
LEMMA LaterFacts ==
  ASSUME NEW n \in 0 .. TickMod - 1, NEW r \in Object, NEW q \in Object,
         Dated(r, n), Dated(q, n), -Late <= q.wait
  PROVE  Minus(r.due, q.due) \in 1 .. Half - 1 <=> r.wait > q.wait
<1> DEFINE d == Minus(r.due, q.due)
<1>1. /\ r.due \in 0 .. TickMod - 1 /\ q.due \in 0 .. TickMod - 1
      /\ r.wait \in Int /\ q.wait \in Int
  BY DEF Object
<1>2. d = IF q.due <= r.due THEN r.due - q.due ELSE r.due - q.due + TickMod
  BY <1>1, MinusFacts
<1> HIDE DEF d
<1>3. r.due - n - r.wait \in {0, TickMod, -TickMod}
      /\ q.due - n - q.wait \in {0, TickMod, -TickMod}
  BY DEF Dated
<1>4. /\ r.wait - q.wait < Half /\ q.wait - r.wait <= Half
  BY <1>1, ClockFacts DEF Dated
<1> QED
  BY <1>1, <1>2, <1>3, <1>4, ClockFacts DEF d

(* Whether the time of a timer has come. *)
LEMMA ExpiredFacts ==
  ASSUME NEW n \in 0 .. TickMod - 1, NEW r \in Object, Dated(r, n)
  PROVE  Minus(n, r.due) \in 0 .. Half - 1 <=> r.wait <= 0
<1> DEFINE d == Minus(n, r.due)
<1>1. r.due \in 0 .. TickMod - 1 /\ r.wait \in Int
  BY DEF Object
<1>2. d = IF r.due <= n THEN n - r.due ELSE n - r.due + TickMod
  BY <1>1, MinusFacts
<1> HIDE DEF d
<1>3. r.due - n - r.wait \in {0, TickMod, -TickMod}
  BY DEF Dated
<1>4. -Late - 1 <= r.wait /\ r.wait < Half
  BY <1>1, ClockFacts DEF Dated
<1> QED
  BY <1>1, <1>2, <1>3, <1>4, ClockFacts DEF d

(* A tick brings a timer one tick closer. *)
LEMMA TickFacts ==
  ASSUME NEW n \in 0 .. TickMod - 1, NEW r \in Object, Dated(r, n), -Late <= r.wait
  PROVE  LET q == [r EXCEPT !.wait = @ - 1] IN
         q \in Object /\ Dated(q, (n + 1) % TickMod)
<1> DEFINE q == [r EXCEPT !.wait = @ - 1]
           p == (n + 1) % TickMod
<1>1. /\ r.due \in 0 .. TickMod - 1 /\ r.wait \in Int /\ q.wait = r.wait - 1
      /\ q.due = r.due /\ q.made = r.made /\ q.stop = r.stop /\ q \in Object
  BY DEF Object
<1> HIDE DEF q
<1>2. p = IF n + 1 < TickMod THEN n + 1 ELSE 0
  <2>1. TickMod \in Nat \ {0} /\ n + 1 \in Int /\ 0 <= n + 1
        /\ (~(n + 1 < TickMod) => n + 1 = TickMod)
    BY ClockFacts
  <2>2. ~(n + 1 < TickMod) => TickMod <= n + 1 /\ n + 1 < TickMod + TickMod
                               /\ n + 1 - TickMod = 0
    BY <2>1
  <2>3. CASE n + 1 < TickMod
    BY <2>1, <2>3, ModFacts
  <2>4. CASE ~(n + 1 < TickMod)
    <3>1. n + 1 = TickMod
      BY <2>1, <2>4
    <3>2. 0 <= TickMod - TickMod /\ TickMod <= TickMod /\ TickMod < TickMod + TickMod
          /\ TickMod \in Int /\ TickMod - TickMod = 0
      BY <2>1
    <3>3. TickMod % TickMod = TickMod - TickMod
      BY <2>1, <3>2, ModFacts
    <3> QED
      BY <2>4, <3>1, <3>2, <3>3
  <2> QED
    BY <2>3, <2>4
<1> HIDE DEF p
<1>3. r.due - n - r.wait \in {0, TickMod, -TickMod}
      /\ -Late - 1 <= r.wait /\ r.wait + Late < Half
  BY DEF Dated
<1>4. q.due - p - q.wait \in {0, TickMod, -TickMod}
  <2>1. CASE n + 1 < TickMod
    <3>1. q.due - p - q.wait = r.due - n - r.wait
      BY <1>1, <1>2, <2>1
    <3> QED
      BY <1>3, <3>1
  <2>2. CASE ~(n + 1 < TickMod)
    <3>1. n = TickMod - 1 /\ p = 0
      BY <1>2, <2>2, ClockFacts
    <3>2. q.due - p - q.wait = r.due - n - r.wait + TickMod
      BY <1>1, <3>1, ClockFacts
    <3>3. r.due - n - r.wait < TickMod
      BY <1>1, <1>3, <3>1, ClockFacts
    <3> QED
      BY <1>1, <1>3, <3>2, <3>3, ClockFacts
  <2> QED
    BY <2>1, <2>2
<1>5. -Late - 1 <= q.wait /\ q.wait + Late < Half
  BY <1>1, <1>3, ClockFacts
<1>6. q.made /\ q.stop # "EOK"
  BY <1>1 DEF Dated
<1> QED
  BY <1>1, <1>4, <1>5, <1>6 DEF Dated, p, q

-----------------------------------------------------------------------------
(* The operations on the list. *)
LEMMA StateFacts ==
  ASSUME NEW s \in State
  PROVE  /\ s.list \in Seq(TimerObj) /\ s.tm \in [TimerObj -> Object]
         /\ Len(s.list) \in Nat /\ DOMAIN s.list = 1 .. Len(s.list)
         /\ ToSet(s.list) \subseteq TimerObj
         /\ \A i \in 1 .. Len(s.list) : s.list[i] \in ToSet(s.list)
<1>1. s.list \in Seq(TimerObj) /\ s.tm \in [TimerObj -> Object]
  BY DEF State
<1>2. Len(s.list) \in Nat /\ DOMAIN s.list = 1 .. Len(s.list)
  BY <1>1, LenProperties
<1> QED
  BY <1>1, <1>2, ListEmpty DEF ToSet

(* s becomes u, and only the timer x is touched, which gets the record r.  *)
Touches(s, u, x, r) ==
  /\ u.tm = [s.tm EXCEPT ![x] = r]
  /\ ToSet(u.list) \ {x} = ToSet(s.list) \ {x}

LEMMA RemovedFacts ==
  ASSUME NEW n \in 0 .. TickMod - 1, NEW s, Plan(s, n), NEW x \in TimerObj
  PROVE  LET u == Removed(s, x) IN
         /\ Plan(u, n) /\ x \notin ToSet(u.list)
         /\ Touches(s, u, x, [s.tm[x] EXCEPT !.due = 0, !.wait = 0])
<1> DEFINE u == Removed(s, x)
           r == [s.tm[x] EXCEPT !.due = 0, !.wait = 0]
<1>1. s \in State /\ s.list \in Seq(TimerObj) /\ s.tm \in [TimerObj -> Object]
      /\ IsInjective(s.list)
      /\ Len(s.list) \in Nat /\ DOMAIN s.list = 1 .. Len(s.list)
      /\ ToSet(s.list) \subseteq TimerObj
      /\ \A i \in 1 .. Len(s.list) : s.list[i] \in ToSet(s.list)
  BY StateFacts DEF Plan
<1>2. u.list = Without(s.list, x) /\ u.tm = [s.tm EXCEPT ![x] = r]
      /\ u = [list |-> u.list, tm |-> u.tm]
  <2>1. u.list = Without(s.list, x)
        /\ u.tm = [[s.tm EXCEPT ![x].due = 0] EXCEPT ![x].wait = 0]
    BY <1>1 DEF Removed, State
  <2>2. u = [list |-> u.list, tm |-> u.tm]
    BY DEF Removed
  <2>3. [[s.tm EXCEPT ![x].due = 0] EXCEPT ![x].wait = 0] = [s.tm EXCEPT ![x] = r]
    BY <1>1
  <2> QED
    BY <2>1, <2>2, <2>3
<1>3. r \in Object
  <2> HIDE DEF u, r
  <2>1. s.tm[x] \in Object /\ 0 \in 0 .. TickMod - 1 /\ 0 \in Int
    BY <1>1, ClockFacts
  <2>2. ASSUME NEW o \in Object
        PROVE  [o EXCEPT !.due = 0, !.wait = 0] \in Object
    BY <2>1 DEF Object
  <2> QED
    BY <2>1, <2>2 DEF r
<1> HIDE DEF u, r
<1>4. /\ u.list \in Seq(TimerObj) /\ IsInjective(u.list)
      /\ ToSet(u.list) = ToSet(s.list) \ {x}
  BY <1>1, <1>2, ListWithout
<1>5. u \in State
  BY <1>1, <1>2, <1>3, <1>4 DEF State
<1>6. \A y \in ToSet(u.list) : u.tm[y] = s.tm[y]
  BY <1>1, <1>2, <1>4
<1>7. Sorted(u)
  <2>1. CASE x \notin ToSet(s.list)
    <3>1. u.list = s.list
      BY <1>2, <2>1, ListAbsent
    <3> QED
      BY <1>1, <1>4, <1>6, <3>1 DEF Plan, Sorted
  <2>2. CASE x \in ToSet(s.list)
    <3>1. PICK m \in 1 .. Len(s.list) :
            /\ Len(u.list) = Len(s.list) - 1
            /\ \A i \in 1 .. Len(s.list) - 1 :
                 u.list[i] = IF i < m THEN s.list[i] ELSE s.list[i + 1]
      <4>1. \E m \in 1 .. Len(s.list) :
              /\ s.list[m] = x /\ Without(s.list, x) \in Seq(TimerObj)
              /\ Len(Without(s.list, x)) = Len(s.list) - 1
              /\ \A i \in 1 .. Len(s.list) - 1 :
                   Without(s.list, x)[i] = IF i < m THEN s.list[i] ELSE s.list[i + 1]
        <5>1. ASSUME NEW l \in Seq(TimerObj), x \in ToSet(l)
              PROVE  \E m \in 1 .. Len(l) :
                       /\ l[m] = x /\ Without(l, x) \in Seq(TimerObj)
                       /\ Len(Without(l, x)) = Len(l) - 1
                       /\ \A i \in 1 .. Len(l) - 1 :
                            Without(l, x)[i] = IF i < m THEN l[i] ELSE l[i + 1]
          BY <5>1, WithoutPlaces
        <5> QED
          BY <1>1, <2>2, <5>1
      <4> QED
        BY <1>2, <4>1
    <3>2. DOMAIN u.list = 1 .. Len(s.list) - 1
      BY <1>4, <3>1, LenProperties
    <3> SUFFICES ASSUME NEW i \in 1 .. Len(s.list) - 1, NEW j \in 1 .. Len(s.list) - 1, i < j
                 PROVE  u.tm[u.list[i]].wait <= u.tm[u.list[j]].wait
      BY <3>2 DEF Sorted
    <3> DEFINE at(l) == IF l < m THEN l ELSE l + 1
    <3>3. at(i) \in 1 .. Len(s.list) /\ at(j) \in 1 .. Len(s.list) /\ at(i) < at(j)
      BY <1>1
    <3>4. u.list[i] = s.list[at(i)] /\ u.list[j] = s.list[at(j)]
      BY <3>1
    <3> HIDE DEF at
    <3>5. s.tm[s.list[at(i)]].wait <= s.tm[s.list[at(j)]].wait
      BY <1>1, <3>3 DEF Plan, Sorted
    <3>6. u.list[i] \in ToSet(u.list) /\ u.list[j] \in ToSet(u.list)
      BY <3>2 DEF ToSet
    <3> QED
      BY <1>6, <3>4, <3>5, <3>6
  <2> QED
    BY <2>1, <2>2
<1>8. Plan(u, n)
  BY <1>4, <1>5, <1>6, <1>7 DEF Plan
<1>9. Touches(s, u, x, r) /\ x \notin ToSet(u.list)
  BY <1>2, <1>4 DEF Touches
<1> QED
  BY <1>8, <1>9 DEF u, r

(* A timer may change, while it is in the list not when it is due.         *)
LEMMA ChangedFacts ==
  ASSUME NEW n, NEW s, Plan(s, n), NEW x \in TimerObj, NEW r \in Object,
         x \in ToSet(s.list) => Dated(r, n) /\ r.wait = s.tm[x].wait,
         NEW u \in State, u.list = s.list, u.tm = [s.tm EXCEPT ![x] = r]
  PROVE  Plan(u, n)
<1>1. s \in State /\ s.tm \in [TimerObj -> Object]
      /\ DOMAIN s.list = 1 .. Len(s.list)
      /\ ToSet(s.list) \subseteq TimerObj
      /\ \A i \in 1 .. Len(s.list) : s.list[i] \in ToSet(s.list)
  BY StateFacts DEF Plan
<1>2. \A y \in ToSet(s.list) : u.tm[y].wait = s.tm[y].wait /\ Dated(u.tm[y], n)
  BY <1>1 DEF Plan
<1>3. Sorted(u)
  BY <1>1, <1>2 DEF Plan, Sorted
<1> QED
  BY <1>2, <1>3 DEF Plan

(* The timer x is linked behind those that are not due later.              *)
LEMMA LinkedFacts ==
  ASSUME NEW n \in 0 .. TickMod - 1, NEW s, Plan(s, n), NEW x \in TimerObj,
         x \notin ToSet(s.list), Dated(s.tm[x], n), -Late <= s.tm[x].wait
  PROVE  LET u == Linked(s, x) IN
         /\ Plan(u, n) /\ ToSet(u.list) = ToSet(s.list) \cup {x}
         /\ \E r \in Object : /\ Touches(s, u, x, r)
                            /\ r.made = s.tm[x].made /\ r.wait = s.tm[x].wait
                            /\ r.stop = s.tm[x].stop
<1> DEFINE later == {i \in DOMAIN s.list : After(s, s.list[i], x)}
           at    == IF later = {} THEN Len(s.list) + 1 ELSE Min(later)
           u     == Linked(s, x)
           r     == [s.tm[x] EXCEPT !.active = TRUE]
           W(i)  == s.tm[s.list[i]].wait
<1>1. /\ s \in State /\ s.list \in Seq(TimerObj) /\ s.tm \in [TimerObj -> Object]
      /\ Len(s.list) \in Nat /\ DOMAIN s.list = 1 .. Len(s.list)
      /\ ToSet(s.list) \subseteq TimerObj
      /\ \A i \in 1 .. Len(s.list) : s.list[i] \in ToSet(s.list)
      /\ IsInjective(s.list)
  BY StateFacts DEF Plan
<1>2. u.list = InsertAt(s.list, at, x) /\ u = [list |-> u.list, tm |-> u.tm]
      /\ u.tm = [s.tm EXCEPT ![x].active = TRUE]
  BY DEF Linked
<1>3. r \in Object /\ u.tm = [s.tm EXCEPT ![x] = r] /\ Dated(r, n)
      /\ r.wait = s.tm[x].wait /\ r.made = s.tm[x].made /\ r.stop = s.tm[x].stop
  <2> HIDE DEF later, at, u
  <2>1. s.tm[x] \in Object
    BY <1>1
  <2>2. ASSUME NEW o \in Object
        PROVE  /\ [o EXCEPT !.active = TRUE] \in Object
               /\ [o EXCEPT !.active = TRUE].wait = o.wait
               /\ [o EXCEPT !.active = TRUE].made = o.made
               /\ [o EXCEPT !.active = TRUE].stop = o.stop
               /\ Dated(o, n) => Dated([o EXCEPT !.active = TRUE], n)
    BY DEF Object, Dated
  <2> QED
    BY <1>1, <1>2, <2>1, <2>2
<1> HIDE DEF u, r, at
<1>4. \A i \in 1 .. Len(s.list) : W(i) \in Int /\ (i \in later <=> W(i) > s.tm[x].wait)
  <2> SUFFICES ASSUME NEW i \in 1 .. Len(s.list)
               PROVE  W(i) \in Int /\ (i \in later <=> W(i) > s.tm[x].wait)
    OBVIOUS
  <2>1. s.tm[s.list[i]] \in Object /\ s.tm[x] \in Object /\ Dated(s.tm[s.list[i]], n)
    BY <1>1 DEF Plan
  <2>2. Minus(s.tm[s.list[i]].due, s.tm[x].due) \in 1 .. Half - 1
          <=> s.tm[s.list[i]].wait > s.tm[x].wait
    BY <2>1, LaterFacts
  <2> QED
    BY <1>1, <2>1, <2>2 DEF After, Object
<1> HIDE DEF later
<1>5. /\ at \in 1 .. Len(s.list) + 1
      /\ \A i \in 1 .. Len(s.list) : i < at => W(i) <= s.tm[x].wait
      /\ \A i \in 1 .. Len(s.list) : ~(i < at) => s.tm[x].wait <= W(i)
  <2>1. s.tm[x].wait \in Int
    BY <1>1 DEF Object
  <2>2. CASE later = {}
    <3>1. at = Len(s.list) + 1
      BY <2>2 DEF at
    <3> QED
      BY <1>1, <1>4, <2>1, <2>2, <3>1
  <2>3. CASE later # {}
    <3>1. later \subseteq 1 .. Len(s.list)
      BY <1>1 DEF later
    <3>2. at \in later /\ \A i \in later : at <= i
      <4>1. later \in SUBSET Nat
        BY <1>1, <3>1
      <4> QED
        BY <2>3, <4>1, LeastFacts DEF at
    <3>3. ASSUME NEW i \in 1 .. Len(s.list), ~(i < at)
          PROVE  s.tm[x].wait <= W(i)
      <4>1. at \in 1 .. Len(s.list) /\ W(at) > s.tm[x].wait
        BY <1>4, <3>1, <3>2
      <4>2. at = i \/ W(at) <= W(i)
        BY <1>1, <3>3, <4>1 DEF Plan, Sorted
      <4> QED
        BY <1>4, <2>1, <4>1, <4>2
    <3>4. ASSUME NEW i \in 1 .. Len(s.list), i < at
          PROVE  W(i) <= s.tm[x].wait
      BY <1>4, <2>1, <3>1, <3>2, <3>4
    <3> QED
      BY <1>1, <3>1, <3>2, <3>3, <3>4
  <2> QED
    BY <2>2, <2>3
<1>6. /\ u.list \in Seq(TimerObj) /\ IsInjective(u.list)
      /\ ToSet(u.list) = ToSet(s.list) \cup {x}
  BY <1>1, <1>2, <1>5, ListInsert
<1>7. /\ DOMAIN u.list = 1 .. Len(s.list) + 1
      /\ \A j \in 1 .. Len(s.list) + 1 :
           u.list[j] = IF j < at THEN s.list[j] ELSE IF j = at THEN x ELSE s.list[j - 1]
  <2>1. ASSUME NEW l \in Seq(TimerObj), NEW i \in 1 .. Len(l) + 1
        PROVE  /\ DOMAIN InsertAt(l, i, x) = 1 .. Len(l) + 1
               /\ \A j \in 1 .. Len(l) + 1 :
                    InsertAt(l, i, x)[j] = IF j < i THEN l[j]
                                           ELSE IF j = i THEN x ELSE l[j - 1]
    <3>1. /\ InsertAt(l, i, x) \in Seq(TimerObj)
          /\ Len(InsertAt(l, i, x)) = Len(l) + 1
          /\ \A j \in 1 .. Len(l) + 1 :
               InsertAt(l, i, x)[j] = IF j < i THEN l[j]
                                      ELSE IF j = i THEN x ELSE l[j - 1]
      BY InsertPlaces
    <3> QED
      BY <3>1, LenProperties
  <2> QED
    BY <1>1, <1>2, <1>5, <2>1
<1>8. u \in State
  BY <1>1, <1>2, <1>3, <1>6 DEF State
<1>9. Sorted(u)
  <2> SUFFICES ASSUME NEW i \in 1 .. Len(s.list) + 1, NEW j \in 1 .. Len(s.list) + 1, i < j
               PROVE  u.tm[u.list[i]].wait <= u.tm[u.list[j]].wait
    BY <1>7 DEF Sorted
  <2>1. u.tm[x].wait = s.tm[x].wait /\ s.tm[x].wait \in Int
    BY <1>1, <1>3 DEF Object
  <2>2. ASSUME NEW l \in 1 .. Len(s.list)
        PROVE  u.tm[s.list[l]].wait = W(l)
    BY <1>1, <1>3, <2>1
  <2>3. ASSUME NEW l \in 1 .. Len(s.list) + 1
        PROVE  /\ l < at => l \in 1 .. Len(s.list) /\ u.tm[u.list[l]].wait = W(l)
               /\ l = at => u.tm[u.list[l]].wait = s.tm[x].wait
               /\ ~(l < at) /\ l # at => l - 1 \in 1 .. Len(s.list)
                                         /\ u.tm[u.list[l]].wait = W(l - 1)
    <3>1. /\ l < at => l \in 1 .. Len(s.list)
          /\ ~(l < at) /\ l # at => l - 1 \in 1 .. Len(s.list)
      BY <1>1, <1>5
    <3>2. u.list[l] = IF l < at THEN s.list[l] ELSE IF l = at THEN x ELSE s.list[l - 1]
      BY <1>7
    <3> QED
      BY <2>1, <2>2, <3>1, <3>2
  <2>4. at \in Int /\ i \in Int /\ j \in Int
    BY <1>1, <1>5
  <2>5. \A a, b \in 1 .. Len(s.list) : a < b => W(a) <= W(b)
    BY <1>1 DEF Plan, Sorted
  <2> HIDE DEF W
  <2>6. CASE j < at
    BY <1>1, <1>5, <2>3, <2>4, <2>5, <2>6
  <2>7. CASE j = at
    BY <1>1, <1>5, <2>1, <2>3, <2>4, <2>7
  <2>8. CASE ~(j < at) /\ j # at
    <3>1. j - 1 \in 1 .. Len(s.list) /\ ~(j - 1 < at)
      BY <1>1, <1>5, <2>4, <2>8
    <3>2. CASE i = at
      BY <1>1, <1>5, <2>1, <2>3, <2>4, <2>8, <3>1, <3>2
    <3>3. CASE i < at
      <4>1. i < j - 1 \/ i = j - 1
        BY <1>1
      <4> QED
        BY <1>1, <1>4, <1>5, <2>3, <2>4, <2>5, <2>8, <3>1, <3>3, <4>1
    <3>4. CASE ~(i < at) /\ i # at
      <4>1. i - 1 < j - 1
        BY <1>1
      <4> QED
        BY <2>3, <2>4, <2>5, <2>8, <3>1, <3>4, <4>1
    <3> QED
      BY <3>2, <3>3, <3>4
  <2> QED
    BY <2>6, <2>7, <2>8
<1>10. \A y \in ToSet(u.list) : Dated(u.tm[y], n)
  <2> SUFFICES ASSUME NEW y \in ToSet(u.list)
               PROVE  Dated(u.tm[y], n)
    OBVIOUS
  <2>1. CASE y = x
    BY <1>1, <1>3, <2>1
  <2>2. CASE y # x
    BY <1>1, <1>3, <1>6, <2>2 DEF Plan
  <2> QED
    BY <2>1, <2>2
<1>11. Plan(u, n)
  BY <1>6, <1>8, <1>9, <1>10 DEF Plan
<1> QED
  <2>1. Touches(s, u, x, r)
    BY <1>3, <1>6 DEF Touches
  <2> QED
    BY <1>3, <1>6, <1>11, <2>1 DEF u

-----------------------------------------------------------------------------
(* The calls of rt_timer_start and rt_timer_stop.  Only the timers of X    *)
(* change, and none is made or deleted.                                    *)
Alters(s, u, X) ==
  \A y \in TimerObj :
    /\ u.tm[y].made = s.tm[y].made
    /\ y \notin X => /\ u.tm[y] = s.tm[y]
                     /\ y \in ToSet(u.list) <=> y \in ToSet(s.list)

LEMMA AltersComposed ==
  ASSUME NEW s, NEW u, NEW v, NEW X, NEW Y, Alters(s, u, X), Alters(u, v, Y)
  PROVE  Alters(s, v, X \cup Y)
BY DEF Alters

LEMMA TouchesAlters ==
  ASSUME NEW s \in State, NEW u, NEW x \in TimerObj, NEW r, Touches(s, u, x, r),
         r.made = s.tm[x].made
  PROVE  Alters(s, u, {x}) /\ u.tm[x] = r
<1>1. s.tm \in [TimerObj -> Object]
  BY StateFacts
<1> QED
  BY <1>1 DEF Touches, Alters

LEMMA ArmedFacts ==
  ASSUME NEW s, tick \in 0 .. TickMod - 1, Plan(s, tick), NEW x \in TimerObj,
         x \notin ToSet(s.list), s.tm[x].made, s.tm[x].stop # "EOK"
  PROVE  LET u == Armed(s, x) IN
         /\ Plan(u, tick) /\ u.list = s.list /\ Alters(s, u, {x})
         /\ Dated(u.tm[x], tick) /\ u.tm[x].wait >= 1
         /\ u.tm[x].stop = s.tm[x].stop
<1> DEFINE u == Armed(s, x)
           d == (tick + s.tm[x].init) % TickMod
           r == [s.tm[x] EXCEPT !.due = d, !.wait = s.tm[x].init]
<1>1. s \in State /\ s.tm \in [TimerObj -> Object] /\ s.tm[x] \in Object
  BY StateFacts DEF Plan
<1>2. s.tm[x].init \in Times /\ s.tm[x].init \in 1 .. Half - 1 /\ s.tm[x].init + Late < Half
  BY <1>1, TimerAssumption DEF Object
<1>3. d \in 0 .. TickMod - 1 /\ d - tick - s.tm[x].init \in {0, -TickMod}
  <2>1. /\ TickMod \in Nat \ {0} /\ tick + s.tm[x].init \in Int
        /\ 0 <= tick + s.tm[x].init /\ tick + s.tm[x].init < TickMod + TickMod
    BY <1>2, ClockFacts
  <2>2. d = IF tick + s.tm[x].init < TickMod THEN tick + s.tm[x].init
            ELSE tick + s.tm[x].init - TickMod
    <3> DEFINE a == tick + s.tm[x].init
    <3> HIDE DEF a
    <3>1. a \in Int /\ 0 <= a /\ a < TickMod + TickMod /\ TickMod \in Nat \ {0}
      BY <2>1 DEF a
    <3>2. a % TickMod = IF a < TickMod THEN a ELSE a - TickMod
      <4>1. CASE a < TickMod
        BY <3>1, <4>1, ModFacts
      <4>2. CASE ~(a < TickMod)
        <5>1. TickMod <= a
          BY <3>1, <4>2
        <5> QED
          BY <3>1, <4>2, <5>1, ModFacts
      <4> QED
        BY <4>1, <4>2
    <3>3. d = a % TickMod
      BY Zenon DEF a
    <3> HIDE DEF u, r, d
    <3>4. d = IF a < TickMod THEN a ELSE a - TickMod
      BY <3>2, <3>3
    <3> QED
      BY <1>2, <2>1, <3>1, <3>4 DEF a
  <2> HIDE DEF d
  <2> QED
    BY <1>2, <2>1, <2>2
<1>4. u \in State /\ u.list = s.list /\ u.tm = [s.tm EXCEPT ![x] = r]
  <2>1. u.list = s.list
        /\ u.tm = [[s.tm EXCEPT ![x].due = d] EXCEPT ![x].wait = s.tm[x].init]
    BY <1>1 DEF Armed, State
  <2>2. [[s.tm EXCEPT ![x].due = d] EXCEPT ![x].wait = s.tm[x].init]
          = [s.tm EXCEPT ![x] = r]
    BY <1>1
  <2>3. r \in Object
    <3> HIDE DEF d, r, u
    <3>1. s.tm[x].init \in Int
      BY <1>2, ClockFacts
    <3>2. ASSUME NEW o \in Object, NEW e \in 0 .. TickMod - 1, NEW w \in Int
          PROVE  [o EXCEPT !.due = e, !.wait = w] \in Object
      BY DEF Object
    <3> QED
      BY <1>1, <1>3, <3>1, <3>2 DEF r
  <2>4. u \in State
    <3> HIDE DEF d, r
    <3>1. [s.tm EXCEPT ![x] = r] \in [TimerObj -> Object]
      BY <1>1, <2>3
    <3>2. u = [s EXCEPT !.tm = u.tm]
      BY <1>1, <2>1 DEF Armed, State
    <3> QED
      BY <1>1, <2>1, <2>2, <3>1, <3>2 DEF State
  <2> QED
    BY <2>1, <2>2, <2>4
<1>5. /\ r.due = d /\ r.wait = s.tm[x].init /\ r.made = s.tm[x].made
      /\ r.stop = s.tm[x].stop /\ r \in Object
  <2> HIDE DEF d, u
  <2>1. s.tm[x].init \in Int
    BY <1>2, ClockFacts
  <2>3. s.tm[x] \in Object /\ d \in 0 .. TickMod - 1
    BY <1>1, <1>3
  <2>4. r.due = d /\ r.wait = s.tm[x].init
    BY <2>3 DEF Object
  <2>5. r.made = s.tm[x].made /\ r.stop = s.tm[x].stop
    BY <2>3 DEF Object
  <2>6. r \in Object
    BY <2>1, <2>3 DEF Object
  <2> QED
    BY <2>4, <2>5, <2>6
<1> HIDE DEF u, r, d
<1>6. Dated(r, tick)
  BY <1>2, <1>3, <1>5, ClockFacts DEF Dated
<1>7. Plan(u, tick)
  BY <1>4, <1>5, ChangedFacts
<1>8. u.tm[x] = r /\ Touches(s, u, x, r)
  BY <1>1, <1>4 DEF Touches
<1>9. Alters(s, u, {x})
  BY <1>1, <1>5, <1>8, TouchesAlters
<1>10. u.tm[x].wait >= 1
  BY <1>2, <1>5, <1>8, ClockFacts
<1> QED
  BY <1>4, <1>5, <1>6, <1>7, <1>8, <1>9, <1>10 DEF u

LEMMA LinkedAlters ==
  ASSUME NEW s, tick \in 0 .. TickMod - 1, Plan(s, tick), NEW x \in TimerObj,
         x \notin ToSet(s.list), Dated(s.tm[x], tick), -Late <= s.tm[x].wait
  PROVE  LET u == Linked(s, x) IN
         /\ Plan(u, tick) /\ ToSet(u.list) = ToSet(s.list) \cup {x}
         /\ Alters(s, u, {x})
         /\ u.tm[x].wait = s.tm[x].wait /\ u.tm[x].stop = s.tm[x].stop
<1> DEFINE u == Linked(s, x)
<1>1. s \in State
  BY DEF Plan
<1>2. /\ Plan(u, tick) /\ ToSet(u.list) = ToSet(s.list) \cup {x}
      /\ \E r \in Object : /\ Touches(s, u, x, r)
                         /\ r.made = s.tm[x].made /\ r.wait = s.tm[x].wait
                         /\ r.stop = s.tm[x].stop
  BY LinkedFacts
<1> HIDE DEF u
<1>3. PICK r \in Object : /\ Touches(s, u, x, r)
                         /\ r.made = s.tm[x].made /\ r.wait = s.tm[x].wait
                         /\ r.stop = s.tm[x].stop
  BY <1>2
<1>4. Alters(s, u, {x}) /\ u.tm[x] = r
  BY <1>1, <1>3, TouchesAlters
<1> QED
  BY <1>2, <1>3, <1>4 DEF u

(* A timer that is out of the list is marked as not active.                *)
LEMMA ClearedFacts ==
  ASSUME NEW n, NEW s, Plan(s, n), NEW x \in TimerObj, x \notin ToSet(s.list),
         NEW e \in {"none", "EOK", "ERROR"}
  PROVE  LET u == Cleared(s, x, e) IN
         /\ Plan(u, n) /\ u.list = s.list /\ Alters(s, u, {x})
         /\ ~u.tm[x].active
<1> DEFINE u == Cleared(s, x, e)
           r == [s.tm[x] EXCEPT !.active = FALSE, !.stop = e]
<1>1. s \in State /\ s.tm \in [TimerObj -> Object] /\ s.tm[x] \in Object
  BY StateFacts DEF Plan
<1>2. r \in Object /\ r.made = s.tm[x].made /\ r.stop = e /\ r.active = FALSE
  BY <1>1 DEF Object
<1>3. u \in State /\ u.list = s.list /\ u.tm = [s.tm EXCEPT ![x] = r]
  <2>1. u.list = s.list
        /\ u.tm = [[s.tm EXCEPT ![x].active = FALSE] EXCEPT ![x].stop = e]
    BY <1>1 DEF State, Cleared
  <2>2. [[s.tm EXCEPT ![x].active = FALSE] EXCEPT ![x].stop = e] = [s.tm EXCEPT ![x] = r]
    BY <1>1
  <2>3. u = [s EXCEPT !.tm = u.tm]
    BY <1>1, <2>1 DEF State, Cleared
  <2> HIDE DEF r, u
  <2>4. [s.tm EXCEPT ![x] = r] \in [TimerObj -> Object]
    BY <1>1, <1>2
  <2>5. u \in State
    BY <1>1, <2>1, <2>2, <2>3, <2>4 DEF State
  <2> QED
    BY <2>1, <2>2, <2>5
<1> HIDE DEF u, r
<1>4. Plan(u, n)
  BY <1>2, <1>3, ChangedFacts
<1>5. Touches(s, u, x, r)
  BY <1>3 DEF Touches
<1>6. Alters(s, u, {x}) /\ u.tm[x] = r
  BY <1>1, <1>2, <1>5, TouchesAlters
<1> QED
  BY <1>2, <1>3, <1>4, <1>6 DEF u

LEMMA RemovedAlters ==
  ASSUME NEW s, tick \in 0 .. TickMod - 1, Plan(s, tick), NEW x \in TimerObj
  PROVE  LET u == Removed(s, x) IN
         /\ Plan(u, tick) /\ x \notin ToSet(u.list) /\ Alters(s, u, {x})
         /\ u.tm[x].stop = s.tm[x].stop /\ u.tm[x].active = s.tm[x].active
<1> DEFINE u == Removed(s, x)
           r == [s.tm[x] EXCEPT !.due = 0, !.wait = 0]
<1>1. s \in State /\ s.tm \in [TimerObj -> Object] /\ s.tm[x] \in Object
  BY StateFacts DEF Plan
<1>2. Plan(u, tick) /\ x \notin ToSet(u.list) /\ Touches(s, u, x, r)
  BY RemovedFacts
<1>3. r.made = s.tm[x].made /\ r.stop = s.tm[x].stop /\ r.active = s.tm[x].active
  BY <1>1 DEF Object
<1> HIDE DEF u, r
<1>4. Touches(s, u, x, r) /\ r.made = s.tm[x].made
  BY <1>2, <1>3
<1>5. Alters(s, u, {x}) /\ u.tm[x] = r
  BY <1>1, <1>4, TouchesAlters
<1> QED
  BY <1>2, <1>3, <1>5 DEF u

LEMMA DisarmedFacts ==
  ASSUME NEW s, tick \in 0 .. TickMod - 1, Plan(s, tick), NEW x \in TimerObj
  PROVE  LET u == Disarmed(s, x) IN
         /\ Plan(u, tick) /\ x \notin ToSet(u.list) /\ Alters(s, u, {x})
         /\ u.tm[x].stop = "none"
<1> DEFINE v == Removed(s, x)
           u == Cleared(v, x, "none")
<1>1. Plan(v, tick) /\ x \notin ToSet(v.list) /\ Alters(s, v, {x})
  BY RemovedAlters
<1> HIDE DEF v
<1>2. /\ Plan(u, tick) /\ u.list = v.list /\ Alters(v, u, {x}) /\ u.tm[x].stop = "none"
  <2>1. Plan(u, tick) /\ u.list = v.list /\ Alters(v, u, {x})
    BY <1>1, ClearedFacts
  <2>2. u.tm[x].stop = "none"
    BY <1>1, StateFacts DEF Cleared, Plan, State, Object
  <2> QED
    BY <2>1, <2>2
<1> HIDE DEF u
<1>3. Alters(s, u, {x})
  BY <1>1, <1>2 DEF Alters
<1>4. u = Disarmed(s, x)
  BY DEF u, v, Disarmed
<1> QED
  BY <1>1, <1>2, <1>3, <1>4

LEMMA RestartedFacts ==
  ASSUME NEW s, tick \in 0 .. TickMod - 1, Plan(s, tick), NEW x \in TimerObj,
         x \notin ToSet(s.list), s.tm[x].made, s.tm[x].stop # "EOK"
  PROVE  LET u == Linked(Armed(s, x), x) IN
         /\ Plan(u, tick) /\ Alters(s, u, {x}) /\ u.tm[x].stop = s.tm[x].stop
<1> DEFINE v == Armed(s, x)
           u == Linked(v, x)
<1>1. /\ Plan(v, tick) /\ v.list = s.list /\ Alters(s, v, {x})
      /\ Dated(v.tm[x], tick) /\ v.tm[x].wait >= 1 /\ v.tm[x].stop = s.tm[x].stop
  BY ArmedFacts
<1>2. -Late <= v.tm[x].wait /\ x \notin ToSet(v.list)
  <2>1. v.tm[x].wait \in Int
    BY <1>1, StateFacts DEF Plan, Object
  <2> HIDE DEF v
  <2> QED
    BY <1>1, <2>1, ClockFacts
<1> HIDE DEF v
<1>3. /\ Plan(u, tick) /\ Alters(v, u, {x}) /\ u.tm[x].stop = v.tm[x].stop
  BY <1>1, <1>2, LinkedAlters
<1> HIDE DEF u
<1>4. Alters(s, u, {x})
  BY <1>1, <1>3 DEF Alters
<1> QED
  BY <1>1, <1>3, <1>4 DEF u, v

LEMMA StartNowFacts ==
  ASSUME NEW s, tick \in 0 .. TickMod - 1, Plan(s, tick), NEW x \in TimerObj,
         s.tm[x].made
  PROVE  LET u == StartNow(s, x) IN
         /\ Plan(u, tick) /\ Alters(s, u, {x}) /\ u.tm[x].stop # "EOK"
<1> DEFINE v == Disarmed(s, x)
           u == Linked(Armed(v, x), x)
<1>1. /\ Plan(v, tick) /\ x \notin ToSet(v.list) /\ Alters(s, v, {x})
      /\ v.tm[x].stop = "none"
  BY DisarmedFacts
<1> HIDE DEF v
<1>2. v.tm[x].made
  BY <1>1 DEF Alters
<1>3. /\ Plan(u, tick) /\ Alters(v, u, {x}) /\ u.tm[x].stop = v.tm[x].stop
  BY <1>1, <1>2, RestartedFacts
<1> HIDE DEF u
<1>4. Alters(s, u, {x})
  BY <1>1, <1>3 DEF Alters
<1> QED
  BY <1>1, <1>3, <1>4 DEF u, v, StartNow

LEMMA StopNowFacts ==
  ASSUME NEW s, tick \in 0 .. TickMod - 1, Plan(s, tick), NEW x \in TimerObj
  PROVE  LET u == StopNow(s, x) IN
         Plan(u, tick) /\ Alters(s, u, {x}) /\ ~u.tm[x].active
<1> DEFINE v == Removed(s, x)
           u == StopNow(s, x)
<1>1. s \in State /\ s.tm \in [TimerObj -> Object] /\ s.tm[x] \in Object
  BY StateFacts DEF Plan
<1>2. CASE s.tm[x].active
  <2> DEFINE p == Cleared(v, x, "EOK")
  <2>1. Plan(v, tick) /\ x \notin ToSet(v.list) /\ Alters(s, v, {x})
    BY RemovedAlters
  <2> HIDE DEF v
  <2>2. Plan(p, tick) /\ Alters(v, p, {x}) /\ ~p.tm[x].active
    BY <2>1, ClearedFacts
  <2> HIDE DEF p
  <2>3. Alters(s, p, {x})
    BY <2>1, <2>2 DEF Alters
  <2>4. p = u
    BY <1>2 DEF p, v, StopNow
  <2> QED
    BY <2>2, <2>3, <2>4
<1>3. CASE ~s.tm[x].active
  <2> DEFINE p == [s EXCEPT !.tm[x].stop = "ERROR"]
             r == [s.tm[x] EXCEPT !.stop = "ERROR"]
  <2>1. /\ r \in Object /\ r.made = s.tm[x].made /\ r.active = s.tm[x].active
        /\ r.wait = s.tm[x].wait
        /\ Dated(s.tm[x], tick) => Dated(r, tick)
    BY <1>1 DEF Object, Dated
  <2>2. p \in State /\ p.list = s.list /\ p.tm = [s.tm EXCEPT ![x] = r]
    BY <1>1, <2>1 DEF State
  <2> HIDE DEF p, r
  <2>3. Plan(p, tick)
    BY <2>1, <2>2, ChangedFacts DEF Plan
  <2>4. Touches(s, p, x, r)
    BY <2>2 DEF Touches
  <2>5. Alters(s, p, {x}) /\ p.tm[x] = r
    BY <1>1, <2>1, <2>4, TouchesAlters
  <2>6. p = u
    BY <1>3 DEF p, StopNow
  <2> QED
    BY <1>3, <2>1, <2>3, <2>5, <2>6
<1> QED
  BY <1>2, <1>3

-----------------------------------------------------------------------------
(* The inductive invariant.                                                *)
Control == /\ tick \in 0 .. TickMod - 1
           /\ pc \in [User -> {"user", "arm", "link", "remove", "clear", "flag"}]
           /\ arg \in [User -> TimerObj] /\ saved \in [User -> BOOLEAN]
           /\ isr \in {"none", "check"} /\ fresh \subseteq TimerObj

(* What the thread c relies on in its call about x, with interrupts        *)
(* enabled: x is its own, and out of the list until it is linked again.    *)
Relies(c, l, x) ==
  /\ l # "user" => Owner[x] = c /\ tm[x].made
  /\ l \in {"arm", "link", "clear"} => x \notin ToSet(list)
  /\ l = "arm" => tm[x].stop # "EOK"
  /\ l = "link" => Dated(tm[x], tick) /\ -Late <= tm[x].wait

ThreadInv == \A c \in User : Relies(c, pc[c], arg[c])

(* Between two interrupts a timer is overdue only since it was linked.     *)
InTime(x) == tm[x].wait > 0 \/ (x \in fresh /\ -Late <= tm[x].wait)

OnTime == isr = "none" => \A x \in ToSet(list) : InTime(x)

(* The timers of timeout functions are never deleted. *)
MadeInv == \A x \in TimerObj : Owner[x] = Callback => tm[x].made

IInv == Control /\ Plan(Now, tick) /\ MadeInv /\ ThreadInv /\ OnTime

LEMMA NowFacts ==
  ASSUME Plan(Now, tick)
  PROVE  /\ list \in Seq(TimerObj) /\ IsInjective(list)
         /\ tm \in [TimerObj -> Object] /\ Now \in State
         /\ ToSet(list) \subseteq TimerObj
         /\ Now.list = list /\ Now.tm = tm
         /\ \A x \in ToSet(list) : Dated(tm[x], tick)
<1>1. Now.list = list /\ Now.tm = tm
  BY DEF Now
<1> QED
  BY <1>1, StateFacts DEF Plan

LEMMA BecomesFacts ==
  ASSUME NEW u \in State, Becomes(u)
  PROVE  Now' = u /\ list' = u.list /\ tm' = u.tm
<1>1. u = [list |-> u.list, tm |-> u.tm]
  BY DEF State
<1> QED
  BY <1>1 DEF Becomes, Now

(* A step of the thread c that concerns its own timer x alone. *)
OwnStep(c, x) ==
  /\ Owner[x] = c /\ isr = "none" /\ isr' = isr /\ tick' = tick
  /\ \A y \in TimerObj \ {x} : /\ tm'[y] = tm[y]
                               /\ y \in ToSet(list') <=> y \in ToSet(list)
  /\ \E l \in {"user", "arm", "link", "remove", "clear", "flag"} :
       pc' = [pc EXCEPT ![c] = l] /\ Relies(c, l, x)'
  /\ arg' = [arg EXCEPT ![c] = x]
  /\ saved' \in [User -> BOOLEAN] /\ fresh \subseteq fresh' /\ fresh' \subseteq TimerObj
  /\ x \in ToSet(list') => InTime(x)'

LEMMA OwnStepKeeps ==
  ASSUME IInv, NEW c \in User, NEW x \in TimerObj, OwnStep(c, x), Plan(Now, tick)'
  PROVE  IInv'
<1>1. Control'
  BY DEF IInv, Control, OwnStep
<1>2. ToSet(list') \subseteq TimerObj /\ ToSet(list) \subseteq TimerObj
  <2>1. Now' \in State /\ Now'.list = list'
    BY DEF Plan, Now
  <2>2. ToSet(Now'.list) \subseteq TimerObj
    BY <2>1, StateFacts
  <2> QED
    BY <2>1, <2>2, NowFacts DEF IInv
<1>3. MadeInv'
  BY TimerAssumption DEF IInv, MadeInv, OwnStep
<1>4. ThreadInv'
  <2> SUFFICES ASSUME NEW d \in User
               PROVE  Relies(d, pc[d], arg[d])'
    BY DEF ThreadInv
  <2>1. CASE d = c
    <3>1. PICK l \in {"user", "arm", "link", "remove", "clear", "flag"} :
            pc' = [pc EXCEPT ![c] = l] /\ Relies(c, l, x)'
      BY DEF OwnStep
    <3>2. pc'[d] = l /\ arg'[d] = x
      BY <2>1, <3>1 DEF OwnStep, IInv, Control
    <3> QED
      BY <2>1, <3>1, <3>2 DEF Relies
  <2>2. CASE d # c
    <3>1. pc'[d] = pc[d] /\ arg'[d] = arg[d] /\ arg[d] \in TimerObj
      BY <2>2 DEF OwnStep, IInv, Control
    <3>2. Relies(d, pc[d], arg[d])
      BY DEF IInv, ThreadInv
    <3>3. CASE pc[d] = "user"
      BY <3>1, <3>3 DEF Relies
    <3>4. CASE pc[d] # "user"
      <4>1. arg[d] # x
        BY <2>2, <3>2, <3>4 DEF Relies, OwnStep
      <4>2. /\ tm'[arg[d]] = tm[arg[d]] /\ tick' = tick
            /\ arg[d] \in ToSet(list') <=> arg[d] \in ToSet(list)
        BY <3>1, <4>1 DEF OwnStep
      <4> QED
        BY <3>1, <3>2, <4>2 DEF Relies
    <3> QED
      BY <3>3, <3>4
  <2> QED
    BY <2>1, <2>2
<1>5. OnTime'
  <2> SUFFICES ASSUME NEW y \in ToSet(list')
               PROVE  InTime(y)'
    BY DEF OnTime
  <2>1. CASE y = x
    BY <2>1 DEF OwnStep
  <2>2. CASE y # x
    <3>1. y \in ToSet(list) /\ tm'[y] = tm[y]
      BY <1>2, <2>2 DEF OwnStep
    <3> QED
      BY <3>1 DEF IInv, OnTime, InTime, OwnStep
  <2> QED
    BY <2>1, <2>2
<1> QED
  BY <1>1, <1>3, <1>4, <1>5 DEF IInv

(* A call about x begins. *)
LEMMA AboutFacts ==
  ASSUME IInv, NEW c \in User, NEW x \in TimerObj, NEW l, About(c, x, l)
  PROVE  /\ Owner[x] = c /\ isr = "none" /\ tm[x].made
         /\ pc' = [pc EXCEPT ![c] = l] /\ arg' = [arg EXCEPT ![c] = x]
BY DEF About, At, Goto

(* A call goes on. *)
LEMMA GoesOnFacts ==
  ASSUME IInv, NEW c \in User, NEW l, At(c, l), l # "user"
  PROVE  /\ arg[c] \in TimerObj /\ Owner[arg[c]] = c /\ isr = "none"
         /\ Relies(c, l, arg[c]) /\ tm[arg[c]].made
         /\ arg = [arg EXCEPT ![c] = arg[c]]
BY DEF IInv, Control, ThreadInv, Relies, At

(* A step that makes one of the list operators' changes to the own timer. *)
LEMMA ChangeKeeps ==
  ASSUME IInv, NEW c \in User, NEW x \in TimerObj, Owner[x] = c, isr = "none",
         NEW u, Plan(u, tick), Alters(Now, u, {x}), Becomes(u),
         \E l \in {"user", "arm", "link", "remove", "clear", "flag"} :
           pc' = [pc EXCEPT ![c] = l] /\ Relies(c, l, x)',
         arg' = [arg EXCEPT ![c] = x], UNCHANGED <<tick, saved, isr>>,
         fresh \subseteq fresh', fresh' \subseteq TimerObj,
         x \in ToSet(list') => InTime(x)'
  PROVE  IInv'
<1>1. Now' = u /\ list' = u.list /\ tm' = u.tm
  BY BecomesFacts DEF Plan
<1>2. Plan(Now, tick)'
  BY <1>1 DEF Plan
<1>3. \A y \in TimerObj \ {x} : /\ tm'[y] = tm[y]
                                /\ y \in ToSet(list') <=> y \in ToSet(list)
  BY <1>1 DEF Alters, Now
<1>4. saved' \in [User -> BOOLEAN]
  BY DEF IInv, Control
<1>5. OwnStep(c, x)
  BY <1>3, <1>4 DEF OwnStep
<1> QED
  BY <1>2, <1>5, OwnStepKeeps

LEMMA StartKeeps ==
  ASSUME IInv, NEW c \in User, NEW x \in TimerObj, Start(c, x)
  PROVE  IInv'
<1> DEFINE u == Disarmed(Now, x)
<1>1. /\ Owner[x] = c /\ isr = "none" /\ tm[x].made
      /\ pc' = [pc EXCEPT ![c] = "arm"] /\ arg' = [arg EXCEPT ![c] = x]
      /\ Becomes(u) /\ UNCHANGED <<tick, saved, isr>> /\ fresh' = fresh
      /\ tick \in 0 .. TickMod - 1 /\ Plan(Now, tick) /\ fresh \subseteq TimerObj
  BY AboutFacts DEF Start, IInv, Control
<1>2. /\ Plan(u, tick) /\ x \notin ToSet(u.list) /\ Alters(Now, u, {x})
      /\ u.tm[x].stop = "none"
  BY <1>1, DisarmedFacts
<1> HIDE DEF u
<1>3. list' = u.list /\ tm' = u.tm
  BY <1>1, <1>2, BecomesFacts DEF Plan
<1>4. Relies(c, "arm", x)'
  BY <1>1, <1>2, <1>3 DEF Relies, Alters, Now
<1> QED
  BY <1>1, <1>2, <1>3, <1>4, ChangeKeeps

LEMMA ArmKeeps ==
  ASSUME IInv, NEW c \in User, Arm(c)
  PROVE  IInv'
<1>0. PICK x \in TimerObj : x = arg[c]
  BY DEF IInv, Control
<1> DEFINE u == Armed(Now, x)
<1>1. /\ x \in TimerObj /\ Owner[x] = c /\ isr = "none" /\ tm[x].made
      /\ Relies(c, "arm", x)
      /\ pc' = [pc EXCEPT ![c] = "link"] /\ arg' = [arg EXCEPT ![c] = x]
      /\ Becomes(u) /\ UNCHANGED <<tick, saved, isr>> /\ fresh' = fresh
      /\ tick \in 0 .. TickMod - 1 /\ Plan(Now, tick) /\ fresh \subseteq TimerObj
  BY <1>0, GoesOnFacts DEF Arm, Goto, IInv, Control
<1>2. Now.list = list /\ Now.tm = tm
  BY DEF Now
<1>3. /\ Plan(u, tick) /\ u.list = list /\ Alters(Now, u, {x})
      /\ Dated(u.tm[x], tick) /\ u.tm[x].wait >= 1
  BY <1>1, <1>2, ArmedFacts DEF Relies
<1> HIDE DEF u
<1>4. list' = u.list /\ tm' = u.tm
  BY <1>1, <1>3, BecomesFacts DEF Plan
<1>5. -Late <= u.tm[x].wait
  <2>1. u.tm[x].wait \in Int
    BY <1>1, <1>3, StateFacts DEF Plan, Object
  <2> QED
    BY <1>3, <2>1, ClockFacts
<1>6. Relies(c, "link", x)'
  BY <1>1, <1>3, <1>4, <1>5 DEF Relies, Dated
<1>7. x \notin ToSet(list')
  BY <1>1, <1>3, <1>4 DEF Relies
<1> QED
  BY <1>1, <1>3, <1>6, <1>7, ChangeKeeps

LEMMA LinkKeeps ==
  ASSUME IInv, NEW c \in User, Link(c)
  PROVE  IInv'
<1>0. PICK x \in TimerObj : x = arg[c]
  BY DEF IInv, Control
<1> DEFINE u == Linked(Now, x)
<1>1. /\ x \in TimerObj /\ Owner[x] = c /\ isr = "none" /\ tm[x].made
      /\ Relies(c, "link", x)
      /\ pc' = [pc EXCEPT ![c] = "user"] /\ arg' = [arg EXCEPT ![c] = x]
      /\ Becomes(u) /\ UNCHANGED <<tick, saved, isr>> /\ fresh' = fresh \cup {x}
      /\ tick \in 0 .. TickMod - 1 /\ Plan(Now, tick) /\ fresh \subseteq TimerObj
  BY <1>0, GoesOnFacts DEF Link, Goto, IInv, Control
<1>2. Now.list = list /\ Now.tm = tm
  BY DEF Now
<1>3. /\ Plan(u, tick) /\ Alters(Now, u, {x}) /\ u.tm[x].wait = tm[x].wait
  BY <1>1, <1>2, LinkedAlters DEF Relies
<1> HIDE DEF u
<1>4. list' = u.list /\ tm' = u.tm
  BY <1>1, <1>3, BecomesFacts DEF Plan
<1>5. InTime(x)'
  BY <1>1, <1>3, <1>4 DEF Relies, InTime
<1>6. Relies(c, "user", x)'
  BY DEF Relies
<1> QED
  BY <1>1, <1>3, <1>5, <1>6, ChangeKeeps

LEMMA StopRemoveKeeps ==
  ASSUME IInv, NEW c \in User, StopRemove(c)
  PROVE  IInv'
<1>0. PICK x \in TimerObj : x = arg[c]
  BY DEF IInv, Control
<1> DEFINE u == Removed(Now, x)
<1>1. /\ x \in TimerObj /\ Owner[x] = c /\ isr = "none" /\ tm[x].made
      /\ pc' = [pc EXCEPT ![c] = "clear"] /\ arg' = [arg EXCEPT ![c] = x]
      /\ Becomes(u) /\ UNCHANGED <<tick, saved, isr>> /\ fresh' = fresh
      /\ tick \in 0 .. TickMod - 1 /\ Plan(Now, tick) /\ fresh \subseteq TimerObj
  BY <1>0, GoesOnFacts DEF StopRemove, Goto, IInv, Control
<1>2. /\ Plan(u, tick) /\ Alters(Now, u, {x}) /\ x \notin ToSet(u.list)
  BY <1>1, RemovedAlters
<1> HIDE DEF u
<1>3. list' = u.list /\ tm' = u.tm
  BY <1>1, <1>2, BecomesFacts DEF Plan
<1>4. Relies(c, "clear", x)'
  BY <1>1, <1>2, <1>3 DEF Relies, Alters, Now
<1> QED
  BY <1>1, <1>2, <1>3, <1>4, ChangeKeeps

LEMMA StopClearKeeps ==
  ASSUME IInv, NEW c \in User, StopClear(c)
  PROVE  IInv'
<1>0. PICK x \in TimerObj : x = arg[c]
  BY DEF IInv, Control
<1> DEFINE u == Cleared(Now, x, "EOK")
<1>1. /\ x \in TimerObj /\ Owner[x] = c /\ isr = "none" /\ tm[x].made
      /\ Relies(c, "clear", x)
      /\ pc' = [pc EXCEPT ![c] = "user"] /\ arg' = [arg EXCEPT ![c] = x]
      /\ Becomes(u) /\ UNCHANGED <<tick, saved, isr>> /\ fresh' = fresh
      /\ Plan(Now, tick) /\ fresh \subseteq TimerObj
  BY <1>0, GoesOnFacts DEF StopClear, Goto, IInv, Control
<1>2. x \notin ToSet(Now.list)
  BY <1>1 DEF Now, Relies
<1>3. /\ Plan(u, tick) /\ Alters(Now, u, {x}) /\ u.list = Now.list
  BY <1>1, <1>2, ClearedFacts
<1> HIDE DEF u
<1>4. x \notin ToSet(list')
  BY <1>1, <1>2, <1>3, BecomesFacts DEF Plan
<1>5. Relies(c, "user", x)'
  BY DEF Relies
<1> QED
  BY <1>1, <1>3, <1>4, <1>5, ChangeKeeps

(* A step that writes fields of the own timer, and leaves the list.        *)
LEMMA WriteKeeps ==
  ASSUME IInv, NEW c \in User, NEW x \in TimerObj, Owner[x] = c, isr = "none",
         NEW r \in Object, tm' = [tm EXCEPT ![x] = r], list' = list,
         x \in ToSet(list) => Dated(r, tick) /\ r.wait = tm[x].wait,
         \E l \in {"user", "arm", "link", "remove", "clear", "flag"} :
           pc' = [pc EXCEPT ![c] = l] /\ Relies(c, l, x)',
         arg' = [arg EXCEPT ![c] = x], UNCHANGED <<tick, isr, fresh>>,
         saved' \in [User -> BOOLEAN]
  PROVE  IInv'
<1>1. /\ Plan(Now, tick) /\ tm \in [TimerObj -> Object] /\ list \in Seq(TimerObj)
      /\ Now.list = list /\ Now.tm = tm /\ fresh \subseteq TimerObj
  BY NowFacts DEF IInv, Control
<1>2. Now' \in State /\ Now'.list = list /\ Now'.tm = [tm EXCEPT ![x] = r]
  BY <1>1 DEF Now, State
<1>3. Plan(Now', tick)
  <2>1. /\ x \in ToSet(Now.list) => Dated(r, tick) /\ r.wait = Now.tm[x].wait
        /\ Now'.list = Now.list /\ Now'.tm = [Now.tm EXCEPT ![x] = r]
    BY <1>1, <1>2
  <2>2. PICK s, u : s = Now /\ u = Now'
    OBVIOUS
  <2>3. /\ Plan(s, tick) /\ u \in State
        /\ x \in ToSet(s.list) => Dated(r, tick) /\ r.wait = s.tm[x].wait
        /\ u.list = s.list /\ u.tm = [s.tm EXCEPT ![x] = r]
    BY <1>1, <1>2, <2>1, <2>2
  <2>4. Plan(u, tick)
    BY <2>3, ChangedFacts
  <2> QED
    BY <2>2, <2>4
<1>4. Plan(Now, tick)'
  BY <1>3 DEF Plan
<1>5. /\ \A y \in TimerObj \ {x} : tm'[y] = tm[y]
      /\ tm'[x] = r
  BY <1>1
<1>6. x \in ToSet(list') => InTime(x)'
  BY <1>1, <1>5 DEF IInv, OnTime, InTime
<1>7. OwnStep(c, x)
  BY <1>1, <1>5, <1>6 DEF OwnStep
<1> QED
  BY <1>4, <1>7, OwnStepKeeps

(* Writing a record's fields. *)
LEMMA FieldFacts ==
  ASSUME NEW r \in Object
  PROVE  /\ \A e \in {"none", "EOK", "ERROR"} :
              /\ [r EXCEPT !.stop = e] \in Object
              /\ [r EXCEPT !.stop = e].wait = r.wait
              /\ e # "EOK" /\ Dated(r, tick) => Dated([r EXCEPT !.stop = e], tick)
         /\ \A n \in Times :
              /\ [r EXCEPT !.init = n] \in Object
              /\ [r EXCEPT !.init = n].wait = r.wait
              /\ Dated(r, tick) => Dated([r EXCEPT !.init = n], tick)
         /\ \A p, a \in BOOLEAN :
              /\ [r EXCEPT !.periodic = p, !.active = a] \in Object
              /\ [r EXCEPT !.periodic = p, !.active = a].wait = r.wait
              /\ Dated(r, tick) => Dated([r EXCEPT !.periodic = p, !.active = a], tick)
         /\ [r EXCEPT !.made = FALSE, !.stop = "none"] \in Object
<1>1. ASSUME NEW e \in {"none", "EOK", "ERROR"}
      PROVE  /\ [r EXCEPT !.stop = e] \in Object
             /\ [r EXCEPT !.stop = e].wait = r.wait
             /\ e # "EOK" /\ Dated(r, tick) => Dated([r EXCEPT !.stop = e], tick)
  BY DEF Object, Dated
<1>2. ASSUME NEW n \in Times
      PROVE  /\ [r EXCEPT !.init = n] \in Object
             /\ [r EXCEPT !.init = n].wait = r.wait
             /\ Dated(r, tick) => Dated([r EXCEPT !.init = n], tick)
  BY DEF Object, Dated
<1>3. ASSUME NEW p \in BOOLEAN, NEW a \in BOOLEAN
      PROVE  /\ [r EXCEPT !.periodic = p, !.active = a] \in Object
             /\ [r EXCEPT !.periodic = p, !.active = a].wait = r.wait
             /\ Dated(r, tick) => Dated([r EXCEPT !.periodic = p, !.active = a], tick)
  BY DEF Object, Dated
<1>4. [r EXCEPT !.made = FALSE, !.stop = "none"] \in Object
  BY DEF Object
<1> QED
  BY <1>1, <1>2, <1>3, <1>4

LEMMA SetTimeKeeps ==
  ASSUME IInv, NEW c \in User, NEW x \in TimerObj, SetTime(c, x)
  PROVE  IInv'
<1>1. /\ Owner[x] = c /\ isr = "none"
      /\ pc' = [pc EXCEPT ![c] = "user"] /\ arg' = [arg EXCEPT ![c] = x]
      /\ list' = list /\ saved' = saved /\ UNCHANGED <<tick, isr, fresh>>
      /\ saved \in [User -> BOOLEAN]
      /\ tm \in [TimerObj -> Object] /\ \A y \in ToSet(list) : Dated(tm[y], tick)
  BY AboutFacts, NowFacts DEF SetTime, IInv, Control
<1>2. PICK n \in Times : tm' = [tm EXCEPT ![x].init = n]
  BY DEF SetTime
<1> DEFINE r == [tm[x] EXCEPT !.init = n]
<1>3. tm' = [tm EXCEPT ![x] = r]
  BY <1>1, <1>2
<1>4. /\ r \in Object
      /\ x \in ToSet(list) => Dated(r, tick) /\ r.wait = tm[x].wait
  BY <1>1, FieldFacts
<1>5. PICK q : q = r
  OBVIOUS
<1> HIDE DEF r
<1>6. Relies(c, "user", x)'
  BY DEF Relies
<1>7. /\ q \in Object /\ tm' = [tm EXCEPT ![x] = q]
      /\ x \in ToSet(list) => Dated(q, tick) /\ q.wait = tm[x].wait
  BY <1>3, <1>4, <1>5
<1> QED
  BY <1>1, <1>6, <1>7, WriteKeeps

LEMMA StopKeeps ==
  ASSUME IInv, NEW c \in User, NEW x \in TimerObj, Stop(c, x)
  PROVE  IInv'
<1>1. /\ list' = list /\ saved' = saved /\ UNCHANGED <<tick, isr, fresh>>
      /\ saved \in [User -> BOOLEAN] /\ tm \in [TimerObj -> Object]
      /\ \A y \in ToSet(list) : Dated(tm[y], tick)
  BY NowFacts DEF Stop, IInv, Control
<1>2. CASE tm[x].active
  <2>1. /\ Owner[x] = c /\ isr = "none" /\ tm[x].made
        /\ pc' = [pc EXCEPT ![c] = "remove"] /\ arg' = [arg EXCEPT ![c] = x]
        /\ tm' = tm
    BY <1>2, AboutFacts DEF Stop
  <2>2. Relies(c, "remove", x)'
    BY <2>1 DEF Relies
  <2>3. PICK r \in Object : r = tm[x]
    BY <1>1
  <2>4. /\ tm' = [tm EXCEPT ![x] = r]
        /\ x \in ToSet(list) => Dated(r, tick) /\ r.wait = tm[x].wait
    BY <1>1, <2>1, <2>3
  <2> QED
    BY <1>1, <2>1, <2>2, <2>4, WriteKeeps
<1>3. CASE ~tm[x].active
  <2>1. /\ Owner[x] = c /\ isr = "none"
        /\ pc' = [pc EXCEPT ![c] = "user"] /\ arg' = [arg EXCEPT ![c] = x]
        /\ tm' = [tm EXCEPT ![x].stop = "ERROR"]
    BY <1>3, AboutFacts DEF Stop
  <2>2. Relies(c, "user", x)'
    BY DEF Relies
  <2>3. PICK r \in Object : r = [tm[x] EXCEPT !.stop = "ERROR"]
    BY <1>1, FieldFacts
  <2>4. /\ tm' = [tm EXCEPT ![x] = r]
        /\ x \in ToSet(list) => Dated(r, tick) /\ r.wait = tm[x].wait
    BY <1>1, <2>1, <2>3, FieldFacts
  <2> QED
    BY <1>1, <2>1, <2>2, <2>4, WriteKeeps
<1> QED
  BY <1>2, <1>3

LEMMA ReadFlagKeeps ==
  ASSUME IInv, NEW c \in User, NEW x \in TimerObj, ReadFlag(c, x)
  PROVE  IInv'
<1>1. /\ Owner[x] = c /\ isr = "none" /\ tm[x].made
      /\ pc' = [pc EXCEPT ![c] = "flag"] /\ arg' = [arg EXCEPT ![c] = x]
      /\ list' = list /\ tm' = tm /\ UNCHANGED <<tick, isr, fresh>>
      /\ tm \in [TimerObj -> Object] /\ \A y \in ToSet(list) : Dated(tm[y], tick)
  BY AboutFacts, NowFacts DEF ReadFlag, IInv
<1>2. saved' \in [User -> BOOLEAN]
  <2>1. tm[x].active \in BOOLEAN
    BY <1>1 DEF Object
  <2>2. saved' = [saved EXCEPT ![c] = tm[x].active] /\ saved \in [User -> BOOLEAN]
    BY DEF ReadFlag, IInv, Control
  <2> QED
    BY <2>1, <2>2, Zenon
<1>3. Relies(c, "flag", x)'
  BY <1>1 DEF Relies
<1>4. PICK r \in Object : r = tm[x]
  BY <1>1
<1>5. /\ tm' = [tm EXCEPT ![x] = r]
      /\ x \in ToSet(list) => Dated(r, tick) /\ r.wait = tm[x].wait
  BY <1>1, <1>4
<1> QED
  BY <1>1, <1>2, <1>3, <1>5, WriteKeeps

LEMMA WriteFlagKeeps ==
  ASSUME IInv, NEW c \in User, WriteFlag(c)
  PROVE  IInv'
<1>0. PICK x \in TimerObj : x = arg[c]
  BY DEF IInv, Control
<1>1. /\ Owner[x] = c /\ isr = "none"
      /\ pc' = [pc EXCEPT ![c] = "user"] /\ arg' = [arg EXCEPT ![c] = x]
      /\ list' = list /\ saved' = saved /\ UNCHANGED <<tick, isr, fresh>>
      /\ saved \in [User -> BOOLEAN]
      /\ tm \in [TimerObj -> Object] /\ \A y \in ToSet(list) : Dated(tm[y], tick)
  BY <1>0, GoesOnFacts, NowFacts DEF WriteFlag, Goto, IInv, Control
<1>2. PICK p \in BOOLEAN :
        tm' = [tm EXCEPT ![x].periodic = p, ![x].active = saved[c]]
  BY <1>0 DEF WriteFlag
<1>3. saved[c] \in BOOLEAN
  BY <1>1
<1>4. PICK r \in Object : r = [tm[x] EXCEPT !.periodic = p, !.active = saved[c]]
  BY <1>1, <1>3, FieldFacts
<1>5. /\ tm' = [tm EXCEPT ![x] = r]
      /\ x \in ToSet(list) => Dated(r, tick) /\ r.wait = tm[x].wait
  <2>1. tm' = [tm EXCEPT ![x] = r]
    BY <1>1, <1>2, <1>4
  <2>2. x \in ToSet(list) => Dated(r, tick) /\ r.wait = tm[x].wait
    <3>1. PICK o \in Object : o = tm[x]
      BY <1>1
    <3>2. PICK a \in BOOLEAN : a = saved[c]
      BY <1>3
    <3>3. r = [o EXCEPT !.periodic = p, !.active = a]
      BY <1>4, <3>1, <3>2
    <3>4. r.wait = o.wait /\ (Dated(o, tick) => Dated(r, tick))
      BY <3>3, FieldFacts
    <3> QED
      BY <1>1, <3>1, <3>4
  <2> QED
    BY <2>1, <2>2
<1>6. Relies(c, "user", x)'
  BY DEF Relies
<1> QED
  BY <1>1, <1>5, <1>6, WriteKeeps

LEMMA MakeKeeps ==
  ASSUME IInv, NEW c \in User, NEW x \in TimerObj, Make(c, x)
  PROVE  IInv'
<1>1. /\ Owner[x] = c /\ isr = "none" /\ ~tm[x].made
      /\ pc' = pc /\ arg' = arg /\ list' = list /\ saved' = saved
      /\ UNCHANGED <<tick, isr, fresh>>
      /\ tm \in [TimerObj -> Object] /\ \A y \in ToSet(list) : Dated(tm[y], tick)
      /\ pc[c] = "user" /\ Plan(Now, tick)
  BY NowFacts DEF Make, At, IInv
<1>2. PICK n \in Times, p \in BOOLEAN : tm' = [tm EXCEPT ![x] = Made(n, p)]
  BY DEF Make
<1>3. PICK r \in Object : r = Made(n, p)
  <2>1. 0 \in 0 .. TickMod - 1
    BY ClockFacts
  <2>2. ASSUME NEW z \in 0 .. TickMod - 1
        PROVE  [made |-> TRUE, init |-> n, due |-> z, active |-> FALSE,
                periodic |-> p, wait |-> 0, stop |-> "none"] \in Object
    BY DEF Object
  <2> QED
    BY <2>1, <2>2 DEF Made
<1>4. x \notin ToSet(list)
  BY <1>1 DEF Dated
<1>5. Now' \in State /\ Now.list = list /\ Now'.list = list
      /\ Now.tm = tm /\ Now'.tm = [tm EXCEPT ![x] = r]
  BY <1>1, <1>2, <1>3, NowFacts DEF Now, State, IInv
<1>6. Plan(Now', tick)
  <2>1. x \notin ToSet(Now.list) /\ Now'.list = Now.list
        /\ Now'.tm = [Now.tm EXCEPT ![x] = r]
    BY <1>4, <1>5
  <2>2. Plan(Now, tick) /\ r \in Object
    BY <1>1
  <2>3. x \in TimerObj /\ Now' \in State
    BY <1>5
  <2> HIDE DEF Now
  <2> QED
    BY <2>1, <2>2, <2>3, ChangedFacts
<1>7. Plan(Now, tick)' /\ \A y \in TimerObj \ {x} : tm'[y] = tm[y]
  BY <1>1, <1>2, <1>6 DEF Plan
<1>8. Control'
  BY <1>1 DEF IInv, Control
<1>9. MadeInv'
  BY <1>1, <1>7, TimerAssumption DEF IInv, MadeInv
<1>10. ThreadInv'
  <2> SUFFICES ASSUME NEW d \in User
               PROVE  Relies(d, pc[d], arg[d])'
    BY DEF ThreadInv
  <2>1. Relies(d, pc[d], arg[d]) /\ arg[d] \in TimerObj
    BY DEF IInv, ThreadInv, Control
  <2>2. pc[d] # "user" => arg[d] # x
    BY <1>1, <2>1 DEF Relies
  <2> QED
    BY <1>1, <1>7, <2>1, <2>2 DEF Relies
<1>11. OnTime'
  BY <1>1, <1>4, <1>7, NowFacts DEF IInv, OnTime, InTime
<1> QED
  BY <1>7, <1>8, <1>9, <1>10, <1>11 DEF IInv

LEMMA DetachKeeps ==
  ASSUME IInv, NEW c \in User, NEW x \in TimerObj, Detach(c, x)
  PROVE  IInv'
<1> DEFINE v == Removed(Now, x)
           u == [v EXCEPT !.tm[x].made = FALSE, !.tm[x].stop = "none"]
           r == [v.tm[x] EXCEPT !.made = FALSE, !.stop = "none"]
<1>1. /\ Owner[x] = c /\ isr = "none" /\ Becomes(u)
      /\ pc' = [pc EXCEPT ![c] = "user"] /\ arg' = [arg EXCEPT ![c] = x]
      /\ saved' = saved /\ tick' = tick /\ isr' = isr /\ fresh' = fresh
      /\ tick \in 0 .. TickMod - 1 /\ Plan(Now, tick)
      /\ saved \in [User -> BOOLEAN] /\ fresh \subseteq TimerObj
  BY AboutFacts DEF Detach, IInv, Control
<1>2. Plan(v, tick) /\ Alters(Now, v, {x}) /\ x \notin ToSet(v.list)
  BY <1>1, RemovedAlters
<1> HIDE DEF v
<1>3. v \in State /\ v.tm \in [TimerObj -> Object] /\ v.tm[x] \in Object
  BY <1>2, StateFacts DEF Plan
<1>4. r \in Object
  BY <1>3, FieldFacts
<1>5. u \in State /\ u.list = v.list /\ u.tm = [v.tm EXCEPT ![x] = r]
  <2>1. u.list = v.list
        /\ u.tm = [[v.tm EXCEPT ![x].made = FALSE] EXCEPT ![x].stop = "none"]
    BY <1>3 DEF State
  <2>2. [[v.tm EXCEPT ![x].made = FALSE] EXCEPT ![x].stop = "none"]
          = [v.tm EXCEPT ![x] = r]
    BY <1>3
  <2>3. u = [v EXCEPT !.tm = u.tm]
    BY <1>3, <2>1 DEF State
  <2> HIDE DEF r, u
  <2>4. [v.tm EXCEPT ![x] = r] \in [TimerObj -> Object]
    BY <1>3, <1>4
  <2>5. u \in State
    BY <1>3, <2>1, <2>2, <2>3, <2>4 DEF State
  <2> QED
    BY <2>1, <2>2, <2>5
<1> HIDE DEF u, r
<1>6. Plan(u, tick)
  BY <1>2, <1>4, <1>5, ChangedFacts
<1>7. Now' = u /\ list' = u.list /\ tm' = u.tm
  BY <1>1, <1>5, BecomesFacts
<1>8. Plan(Now, tick)'
  BY <1>1, <1>6, <1>7 DEF Plan
<1>9. \A y \in TimerObj \ {x} : /\ tm'[y] = tm[y]
                                /\ y \in ToSet(list') <=> y \in ToSet(list)
  BY <1>2, <1>3, <1>5, <1>7 DEF Alters, Now
<1>10. x \notin ToSet(list')
  BY <1>2, <1>5, <1>7
<1>11. Relies(c, "user", x)'
  BY DEF Relies
<1>12. OwnStep(c, x)
  BY <1>1, <1>9, <1>10, <1>11 DEF OwnStep
<1> QED
  BY <1>8, <1>12, OwnStepKeeps

-----------------------------------------------------------------------------
(* The tick interrupt.                                                     *)
CallbackTimers == {y \in TimerObj : Owner[y] = Callback}

(* Whatever the timeout function of h does, it leaves the timers of        *)
(* threads alone, but h; and it does not stop h and leave it active.       *)
Called(p, s, h) == /\ Plan(s, tick) /\ Alters(p, s, {h} \cup CallbackTimers)
                   /\ s.tm[h].active => s.tm[h].stop # "EOK"

LEMMA CallbackFacts ==
  ASSUME tick \in 0 .. TickMod - 1, NEW p, Plan(p, tick), NEW h \in TimerObj,
         p.tm[h].made, p.tm[h].stop # "EOK",
         \A y \in CallbackTimers : p.tm[y].made,
         NEW s \in Callbacks(p, h)
  PROVE  Called(p, s, h)
<1>1. p \in State /\ p.tm \in [TimerObj -> Object]
  BY StateFacts DEF Plan
<1>2. CASE s = p
  BY <1>2 DEF Called, Alters
<1>3. ASSUME NEW y \in {h} \cup CallbackTimers, s = StopNow(p, y)
      PROVE  Called(p, s, h)
  <2>1. y \in TimerObj
    BY DEF CallbackTimers
  <2>2. Plan(s, tick) /\ Alters(p, s, {y}) /\ ~s.tm[y].active
    BY <1>3, <2>1, StopNowFacts
  <2>3. Alters(p, s, {h} \cup CallbackTimers)
    BY <2>2 DEF Alters
  <2>4. h # y => s.tm[h] = p.tm[h]
    BY <2>2 DEF Alters
  <2> QED
    BY <2>2, <2>3, <2>4 DEF Called
<1>4. ASSUME NEW y \in {h} \cup CallbackTimers, s = StartNow(p, y)
      PROVE  Called(p, s, h)
  <2>1. y \in TimerObj /\ p.tm[y].made
    BY DEF CallbackTimers
  <2>2. Plan(s, tick) /\ Alters(p, s, {y}) /\ s.tm[y].stop # "EOK"
    BY <1>4, <2>1, StartNowFacts
  <2>3. Alters(p, s, {h} \cup CallbackTimers)
    BY <2>2 DEF Alters
  <2>4. h # y => s.tm[h] = p.tm[h]
    BY <2>2 DEF Alters
  <2> QED
    BY <2>2, <2>3, <2>4 DEF Called
<1>5. ASSUME NEW n \in Times, s = [p EXCEPT !.tm[h].init = n]
      PROVE  Called(p, s, h)
  <2>1. PICK r \in Object : r = [p.tm[h] EXCEPT !.init = n]
    BY <1>1, FieldFacts
  <2>2. s \in State /\ s.list = p.list /\ s.tm = [p.tm EXCEPT ![h] = r]
    BY <1>1, <1>5, <2>1 DEF State
  <2>3. /\ r.wait = p.tm[h].wait /\ Dated(p.tm[h], tick) => Dated(r, tick)
        /\ r.made = p.tm[h].made /\ r.stop = p.tm[h].stop
    BY <1>1, <2>1 DEF Object, Dated
  <2>4. h \in ToSet(p.list) => Dated(r, tick) /\ r.wait = p.tm[h].wait
    BY <1>1, <2>1, FieldFacts DEF Plan
  <2>5. Plan(s, tick)
    BY <2>2, <2>4, ChangedFacts
  <2>6. Touches(p, s, h, r)
    BY <2>2 DEF Touches
  <2>7. Alters(p, s, {h}) /\ s.tm[h] = r
    <3>1. p \in State /\ h \in TimerObj /\ r.made = p.tm[h].made
      BY <1>1, <2>3
    <3> QED
      BY <2>6, <3>1, TouchesAlters
  <2>8. Alters(p, s, {h} \cup CallbackTimers)
    BY <2>7 DEF Alters
  <2> QED
    BY <2>3, <2>5, <2>7, <2>8 DEF Called
<1>6. \/ s = p
      \/ \E y \in {h} \cup CallbackTimers : s = StopNow(p, y) \/ s = StartNow(p, y)
      \/ \E n \in Times : s = [p EXCEPT !.tm[h].init = n]
  BY DEF Callbacks, CallbackTimers
<1> QED
  BY <1>2, <1>3, <1>4, <1>5, <1>6

LEMMA AfterCallbackFacts ==
  ASSUME tick \in 0 .. TickMod - 1, NEW s, Plan(s, tick), NEW h \in TimerObj,
         s.tm[h].made, s.tm[h].active => s.tm[h].stop # "EOK"
  PROVE  LET u == AfterCallback(s, h) IN Plan(u, tick) /\ Alters(s, u, {h})
<1> DEFINE u == AfterCallback(s, h)
<1>1. s \in State /\ s.tm \in [TimerObj -> Object] /\ s.tm[h] \in Object
  BY StateFacts DEF Plan
<1>2. CASE s.tm[h].periodic /\ s.tm[h].active
  <2> DEFINE v == Removed(s, h)
             p == Linked(Armed(v, h), h)
  <2>1. /\ Plan(v, tick) /\ h \notin ToSet(v.list) /\ Alters(s, v, {h})
        /\ v.tm[h].stop = s.tm[h].stop
    BY RemovedAlters
  <2> HIDE DEF v
  <2>2. v.tm[h].made /\ v.tm[h].stop # "EOK"
    BY <1>2, <2>1 DEF Alters
  <2>3. Plan(p, tick) /\ Alters(v, p, {h})
    BY <2>1, <2>2, RestartedFacts
  <2> HIDE DEF p
  <2>4. Alters(s, p, {h})
    BY <2>1, <2>3 DEF Alters
  <2>5. u = p
    BY <1>2 DEF p, v, AfterCallback
  <2> QED
    BY <2>3, <2>4, <2>5
<1>3. CASE ~(s.tm[h].periodic /\ s.tm[h].active)
  <2> DEFINE p == [s EXCEPT !.tm[h].active = FALSE]
             r == [s.tm[h] EXCEPT !.active = FALSE]
  <2>1. /\ r \in Object /\ r.wait = s.tm[h].wait /\ r.made = s.tm[h].made
        /\ Dated(s.tm[h], tick) => Dated(r, tick)
    BY <1>1 DEF Object, Dated
  <2>2. p \in State /\ p.list = s.list /\ p.tm = [s.tm EXCEPT ![h] = r]
    BY <1>1, <2>1 DEF State
  <2> HIDE DEF p, r
  <2>3. Plan(p, tick)
    BY <2>1, <2>2, ChangedFacts DEF Plan
  <2>4. Touches(s, p, h, r)
    BY <2>2 DEF Touches
  <2>5. Alters(s, p, {h})
    BY <1>1, <2>1, <2>4, TouchesAlters
  <2>6. p = u
    BY <1>3 DEF p, AfterCallback
  <2> QED
    BY <2>3, <2>5, <2>6
<1> QED
  BY <1>2, <1>3

LEMMA FireKeeps ==
  ASSUME IInv, Fire
  PROVE  IInv'
<1>1. /\ Plan(Now, tick) /\ tick \in 0 .. TickMod - 1 /\ isr = "check"
      /\ Now.list = list /\ Now.tm = tm /\ list \in Seq(TimerObj) /\ list # << >>
      /\ UNCHANGED <<tick, pc, arg, saved, isr, fresh>>
      /\ \A x \in ToSet(list) : Dated(tm[x], tick)
      /\ ToSet(list) \subseteq TimerObj
  BY NowFacts DEF Fire, IInv, Control
<1>2. PICK h \in TimerObj : h = Head(list) /\ h \in ToSet(list)
  BY <1>1, ListEmpty
<1> DEFINE v == Removed(Now, h)
<1>3. /\ Plan(v, tick) /\ Alters(Now, v, {h}) /\ v.tm[h].stop = tm[h].stop
  BY <1>1, RemovedAlters
<1>4. PICK s \in Callbacks(v, h) : Becomes(AfterCallback(s, h))
  BY <1>2 DEF Fire
<1> HIDE DEF v
<1>5. tm[h].made /\ tm[h].stop # "EOK"
  BY <1>1, <1>2 DEF Dated
<1>6. v.tm[h].made /\ v.tm[h].stop # "EOK"
  BY <1>1, <1>3, <1>5 DEF Alters
<1>7. \A y \in CallbackTimers : v.tm[y].made
  BY <1>1, <1>3 DEF IInv, MadeInv, CallbackTimers, Alters
<1>8. Called(v, s, h)
  BY <1>1, <1>3, <1>6, <1>7, CallbackFacts
<1> DEFINE u == AfterCallback(s, h)
<1>9. Plan(u, tick) /\ Alters(s, u, {h})
  <2>1. s.tm[h].made
    BY <1>6, <1>8 DEF Called, Alters
  <2> QED
    BY <1>1, <1>8, <2>1, AfterCallbackFacts DEF Called
<1>10. Becomes(u)
  BY <1>4
<1> HIDE DEF u
<1>11. Now' = u /\ list' = u.list /\ tm' = u.tm
  BY <1>9, <1>10, BecomesFacts DEF Plan
<1>12. \A y \in TimerObj :
         /\ tm'[y].made = tm[y].made
         /\ y # h /\ Owner[y] # Callback =>
              tm'[y] = tm[y] /\ (y \in ToSet(list') <=> y \in ToSet(list))
  BY <1>1, <1>3, <1>8, <1>9, <1>11 DEF Called, Alters, CallbackTimers
<1>13. Plan(Now, tick)'
  BY <1>1, <1>9, <1>11 DEF Plan
<1>14. Control' /\ OnTime'
  BY <1>1 DEF IInv, Control, OnTime
<1>15. MadeInv'
  BY <1>12 DEF IInv, MadeInv
<1>16. ThreadInv'
  <2> SUFFICES ASSUME NEW c \in User
               PROVE  Relies(c, pc[c], arg[c])'
    BY DEF ThreadInv
  <2>1. Relies(c, pc[c], arg[c]) /\ arg[c] \in TimerObj /\ pc' = pc /\ arg' = arg
    BY <1>1 DEF IInv, ThreadInv, Control
  <2>2. pc[c] # "user" => Owner[arg[c]] # Callback
    BY <2>1, TimerAssumption DEF Relies
  <2>3. pc[c] \in {"arm", "link", "clear"} => arg[c] # h
    BY <1>2, <2>1 DEF Relies
  <2> QED
    BY <1>1, <1>12, <2>1, <2>2, <2>3 DEF Relies
<1> QED
  BY <1>13, <1>14, <1>15, <1>16 DEF IInv

LEMMA CheckEndKeeps ==
  ASSUME IInv, CheckEnd
  PROVE  IInv'
<1>1. /\ Plan(Now, tick) /\ tick \in 0 .. TickMod - 1
      /\ Now.list = list /\ Now.tm = tm /\ list \in Seq(TimerObj)
      /\ tm \in [TimerObj -> Object]
      /\ UNCHANGED <<tick, list, tm, pc, arg, saved>> /\ isr' = "none" /\ fresh' = {}
      /\ \A x \in ToSet(list) : Dated(tm[x], tick)
      /\ ToSet(list) \subseteq TimerObj
  BY NowFacts DEF CheckEnd, IInv, Control
<1>2. Control' /\ MadeInv' /\ Now' = Now
  BY <1>1 DEF IInv, Control, MadeInv, Now
<1>3. Plan(Now, tick)'
  BY <1>1, <1>2 DEF Plan
<1>4. ThreadInv'
  BY <1>1 DEF IInv, ThreadInv, Relies
<1>5. \A x \in ToSet(list) : tm[x].wait > 0
  <2> SUFFICES ASSUME NEW x \in ToSet(list)
               PROVE  tm[x].wait > 0
    OBVIOUS
  <2>1. Len(list) \in Nat /\ DOMAIN list = 1 .. Len(list)
    BY <1>1, LenProperties
  <2>2. PICK i \in 1 .. Len(list) : x = list[i]
    BY <2>1 DEF ToSet
  <2>3. 1 \in DOMAIN list /\ Head(list) = list[1] /\ list # << >>
    BY <1>1, <2>1, <2>2
  <2>4. list[1] \in ToSet(list) /\ tm[list[1]] \in Object /\ tm[x] \in Object
    BY <1>1, <2>3 DEF ToSet
  <2>5. ~(Minus(tick, tm[list[1]].due) \in 0 .. Half - 1)
    BY <2>3 DEF CheckEnd, Expired
  <2>6. ~(tm[list[1]].wait <= 0) /\ tm[list[1]].wait \in Int /\ tm[x].wait \in Int
    BY <1>1, <2>4, <2>5, ExpiredFacts DEF Object
  <2>7. i = 1 \/ tm[list[1]].wait <= tm[list[i]].wait
    BY <1>1, <2>1, <2>2, <2>3 DEF Plan, Sorted
  <2> QED
    BY <2>2, <2>6, <2>7
<1>6. OnTime'
  BY <1>1, <1>5 DEF OnTime, InTime
<1> QED
  BY <1>2, <1>3, <1>4, <1>6 DEF IInv

(* The timers the clock brings closer: those in the list, and those whose  *)
(* thread is about to link them.                                           *)
Running == {x \in TimerObj : x \in ToSet(list) \/ \E c \in User : pc[c] = "link" /\ arg[c] = x}

LEMMA TickKeeps ==
  ASSUME IInv, Tick
  PROVE  IInv'
<1>1. /\ Plan(Now, tick) /\ tick \in 0 .. TickMod - 1
      /\ Now.list = list /\ Now.tm = tm /\ list \in Seq(TimerObj) /\ Now \in State
      /\ tm \in [TimerObj -> Object] /\ IsInjective(list)
      /\ UNCHANGED <<list, pc, arg, saved, fresh>> /\ isr = "none" /\ isr' = "check"
      /\ tick' = (tick + 1) % TickMod
      /\ \A x \in ToSet(list) : Dated(tm[x], tick)
      /\ ToSet(list) \subseteq TimerObj
  BY NowFacts DEF Tick, IInv, Control
<1>2. tm' = [x \in TimerObj |-> IF x \in Running
                                THEN [tm[x] EXCEPT !.wait = @ - 1] ELSE tm[x]]
  BY DEF Tick, Running
<1>3. tick' \in 0 .. TickMod - 1
  <2>1. TickMod \in Nat \ {0} /\ tick + 1 \in Int
    BY <1>1, ClockFacts
  <2> QED
    BY <1>1, <2>1
<1>4. ASSUME NEW x \in Running
      PROVE  Dated(tm[x], tick) /\ tm[x].wait \in Int /\ -Late <= tm[x].wait
  <2>1. tm[x] \in Object /\ tm[x].wait \in Int
    BY <1>1 DEF Running, Object
  <2>2. CASE x \in ToSet(list)
    <3>1. Dated(tm[x], tick) /\ InTime(x)
      BY <1>1, <2>2 DEF IInv, OnTime
    <3> QED
      BY <2>1, <3>1, ClockFacts DEF InTime
  <2>3. CASE \E c \in User : pc[c] = "link" /\ arg[c] = x
    BY <2>1, <2>3 DEF IInv, ThreadInv, Relies
  <2> QED
    BY <2>2, <2>3 DEF Running
<1>5. ASSUME NEW x \in TimerObj
      PROVE  /\ tm'[x] \in Object /\ tm'[x].made = tm[x].made /\ tm'[x].stop = tm[x].stop
             /\ x \in Running => /\ Dated(tm'[x], tick')
                                 /\ tm'[x].wait = tm[x].wait - 1
  <2>1. CASE x \in Running
    <3>1. tm'[x] = [tm[x] EXCEPT !.wait = @ - 1] /\ tm[x] \in Object
      BY <1>1, <1>2, <2>1
    <3>2. tm'[x] \in Object /\ Dated(tm'[x], tick')
      BY <1>1, <1>4, <2>1, <3>1, TickFacts
    <3> QED
      BY <2>1, <3>1, <3>2 DEF Object
  <2>2. CASE x \notin Running
    BY <1>1, <1>2, <2>2
  <2> QED
    BY <2>1, <2>2
<1>6. tm' \in [TimerObj -> Object]
  BY <1>2, <1>5
<1>7. ToSet(list) \subseteq Running
  BY <1>1 DEF Running
<1>8. Now' \in State /\ Now'.list = list /\ Now'.tm = tm'
  BY <1>1, <1>6 DEF Now, State
<1>9. Sorted(Now')
  <2>1. DOMAIN list = 1 .. Len(list) /\ \A i \in DOMAIN list : list[i] \in ToSet(list)
    BY <1>1, LenProperties DEF ToSet
  <2> SUFFICES ASSUME NEW i \in DOMAIN list, NEW j \in DOMAIN list, i < j
               PROVE  tm'[list[i]].wait <= tm'[list[j]].wait
    BY <1>8 DEF Sorted
  <2>2. tm[list[i]].wait <= tm[list[j]].wait
    BY <1>1 DEF Plan, Sorted
  <2>3. list[i] \in Running /\ list[j] \in Running /\ list[i] \in TimerObj /\ list[j] \in TimerObj
    BY <1>1, <1>7, <2>1
  <2> QED
    BY <1>4, <1>5, <2>2, <2>3
<1>10. Plan(Now, tick)'
  <2>1. \A x \in ToSet(list) : Dated(tm'[x], tick')
    BY <1>1, <1>5, <1>7
  <2> QED
    BY <1>1, <1>8, <1>9, <2>1 DEF Plan
<1>11. Control' /\ OnTime'
  BY <1>1, <1>3 DEF IInv, Control, OnTime
<1>12. MadeInv'
  BY <1>5 DEF IInv, MadeInv
<1>13. ThreadInv'
  <2> SUFFICES ASSUME NEW c \in User
               PROVE  Relies(c, pc[c], arg[c])'
    BY DEF ThreadInv
  <2>1. Relies(c, pc[c], arg[c]) /\ arg[c] \in TimerObj /\ pc' = pc /\ arg' = arg
    BY <1>1 DEF IInv, ThreadInv, Control
  <2>2. CASE pc[c] # "link"
    BY <1>1, <1>5, <2>1, <2>2 DEF Relies
  <2>3. CASE pc[c] = "link"
    <3>1. arg[c] \in Running
      BY <2>1, <2>3 DEF Running
    <3>2. tm[arg[c]].wait > -Late
      BY <2>3 DEF Tick
    <3>3. Dated(tm'[arg[c]], tick') /\ tm'[arg[c]].wait = tm[arg[c]].wait - 1
          /\ tm'[arg[c]].made = tm[arg[c]].made
      BY <1>5, <2>1, <3>1
    <3>4. -Late <= tm'[arg[c]].wait
      BY <1>4, <3>1, <3>2, <3>3, ClockFacts
    <3> QED
      BY <1>1, <2>1, <2>3, <3>3, <3>4 DEF Relies
  <2> QED
    BY <2>2, <2>3
<1> QED
  BY <1>10, <1>11, <1>12, <1>13 DEF IInv

-----------------------------------------------------------------------------
LEMMA InitIInv == Init => IInv
<1> SUFFICES ASSUME Init PROVE IInv
  OBVIOUS
<1>1. PICK p \in [TimerObj -> BOOLEAN], n \in [TimerObj -> Times] :
        tm = [x \in TimerObj |-> Made(n[x], p[x])]
  BY DEF Init
<1>2. /\ tick = 0 /\ list = << >> /\ isr = "none" /\ fresh = {}
      /\ pc = [c \in User |-> "user"] /\ saved = [c \in User |-> FALSE]
      /\ arg = [c \in User |-> CHOOSE x \in TimerObj : TRUE]
  BY DEF Init
<1>3. 0 \in 0 .. TickMod - 1
  BY ClockFacts
<1>4. tm \in [TimerObj -> Object]
  <2>1. ASSUME NEW x \in TimerObj
        PROVE  Made(n[x], p[x]) \in Object
    <3>1. ASSUME NEW z \in 0 .. TickMod - 1, NEW m \in Times, NEW q \in BOOLEAN
          PROVE  [made |-> TRUE, init |-> m, due |-> z, active |-> FALSE,
                  periodic |-> q, wait |-> 0, stop |-> "none"] \in Object
      BY DEF Object
    <3>2. n[x] \in Times /\ p[x] \in BOOLEAN
      OBVIOUS
    <3> QED
      BY <1>3, <3>1, <3>2 DEF Made
  <2> QED
    BY <1>1, <2>1
<1>5. list \in Seq(TimerObj) /\ DOMAIN list = {} /\ ToSet(list) = {}
  <2>1. list \in Seq(TimerObj) /\ DOMAIN list = {}
    BY <1>2
  <2> QED
    BY <2>1 DEF ToSet
<1>6. Now \in State /\ Now.list = list
  BY <1>4, <1>5 DEF Now, State
<1>7. Plan(Now, tick)
  BY <1>5, <1>6 DEF Plan, Sorted, IsInjective
<1>8. Control
  <2>1. (CHOOSE x \in TimerObj : TRUE) \in TimerObj
    BY TimerAssumption
  <2>2. arg \in [User -> TimerObj]
    BY <1>2, <2>1
  <2>3. saved \in [User -> BOOLEAN]
    BY <1>2, Zenon
  <2>4. pc \in [User -> {"user", "arm", "link", "remove", "clear", "flag"}]
    BY <1>2
  <2> QED
    BY <1>2, <1>3, <2>2, <2>3, <2>4 DEF Control
<1>9. MadeInv
  BY <1>1 DEF MadeInv, Made
<1>10. ThreadInv /\ OnTime
  BY <1>2, <1>5 DEF ThreadInv, Relies, OnTime
<1> QED
  BY <1>7, <1>8, <1>9, <1>10 DEF IInv

LEMMA StepIInv == IInv /\ [Next]_vars => IInv'
<1> SUFFICES ASSUME IInv, [Next]_vars PROVE IInv'
  OBVIOUS
<1>1. ASSUME NEW c \in User, NEW x \in TimerObj, Start(c, x) PROVE IInv'
  BY <1>1, StartKeeps
<1>2. ASSUME NEW c \in User, NEW x \in TimerObj, Stop(c, x) PROVE IInv'
  BY <1>2, StopKeeps
<1>3. ASSUME NEW c \in User, NEW x \in TimerObj, SetTime(c, x) PROVE IInv'
  BY <1>3, SetTimeKeeps
<1>4. ASSUME NEW c \in User, NEW x \in TimerObj, ReadFlag(c, x) PROVE IInv'
  BY <1>4, ReadFlagKeeps
<1>5. ASSUME NEW c \in User, NEW x \in TimerObj, Detach(c, x) PROVE IInv'
  BY <1>5, DetachKeeps
<1>6. ASSUME NEW c \in User, NEW x \in TimerObj, Make(c, x) PROVE IInv'
  BY <1>6, MakeKeeps
<1>7. ASSUME NEW c \in User, Arm(c) PROVE IInv'
  BY <1>7, ArmKeeps
<1>8. ASSUME NEW c \in User, Link(c) PROVE IInv'
  BY <1>8, LinkKeeps
<1>9. ASSUME NEW c \in User, StopRemove(c) PROVE IInv'
  BY <1>9, StopRemoveKeeps
<1>10. ASSUME NEW c \in User, StopClear(c) PROVE IInv'
  BY <1>10, StopClearKeeps
<1>11. ASSUME NEW c \in User, WriteFlag(c) PROVE IInv'
  BY <1>11, WriteFlagKeeps
<1>12. CASE Tick
  BY <1>12, TickKeeps
<1>13. CASE Fire
  BY <1>13, FireKeeps
<1>14. CASE CheckEnd
  BY <1>14, CheckEndKeeps
<1>15. CASE UNCHANGED vars
  BY <1>15 DEF vars, IInv, Control, Plan, Now, Sorted, MadeInv, ThreadInv, Relies, OnTime, InTime
<1> QED
  BY <1>1, <1>2, <1>3, <1>4, <1>5, <1>6, <1>7, <1>8, <1>9, <1>10, <1>11, <1>12,
     <1>13, <1>14, <1>15 DEF Next, Call

THEOREM Invariance == Spec => []IInv
BY InitIInv, StepIInv, PTL DEF Spec

(* The variables keep their types: a timer is linked in rt_timer_list once.  *)
THEOREM Types == Spec => []TypeOK
<1>1. IInv => TypeOK
  BY NowFacts DEF IInv, Control, TypeOK, Object
<1> QED
  BY <1>1, Invariance, PTL

(* rt_timer_check leaves no timer in the list whose time has come, but one *)
(* that was linked too late for it.                                        *)
THEOREM Punctual == Spec => []NoneOverdue
<1>1. IInv => NoneOverdue
  BY DEF IInv, OnTime, InTime, NoneOverdue
<1> QED
  BY <1>1, Invariance, PTL

(* A timer that rt_timer_stop stopped is not in the list before it is      *)
(* started again, not even if it was stopped in its own timeout function.  *)
THEOREM Stopped == Spec => []StoppedStays
<1>1. IInv => StoppedStays
  BY NowFacts DEF IInv, StoppedStays, Dated
<1> QED
  BY <1>1, Invariance, PTL

(* rt_timer_check calls no timeout function before its time, although it   *)
(* compares ticks that have wrapped.                                       *)
THEOREM Patient == Spec => NeverEarly
<1>1. IInv /\ [Next]_vars =>
        [isr = "check" /\ isr' = "check" => tm[Head(list)].wait <= 0]_vars
  <2> SUFFICES ASSUME IInv, Next, isr = "check", isr' = "check"
               PROVE  tm[Head(list)].wait <= 0
    BY DEF vars
  <2>1. Fire
    BY DEF Next, Call, Start, Stop, SetTime, ReadFlag, Detach, Make, Arm, Link,
           StopRemove, StopClear, WriteFlag, About, At, Tick, CheckEnd
  <2>2. list # << >> /\ Minus(tick, tm[Head(list)].due) \in 0 .. Half - 1
    BY <2>1 DEF Fire, Expired
  <2>3. list \in Seq(TimerObj) /\ tm \in [TimerObj -> Object]
        /\ ToSet(list) \subseteq TimerObj /\ \A x \in ToSet(list) : Dated(tm[x], tick)
    BY NowFacts DEF IInv
  <2>4. Head(list) \in ToSet(list)
    BY <2>2, <2>3, ListEmpty
  <2> QED
    BY <2>2, <2>3, <2>4, ExpiredFacts DEF IInv, Control
<1> QED
  BY <1>1, Invariance, PTL DEF Spec, NeverEarly
=============================================================================
