---------------------------- MODULE KernelProofs ----------------------------
(***************************************************************************)
(* What the kernel operators do to the ready lists and to those threads    *)
(* wait in, for any set of threads and any number of priorities.           *)
(***************************************************************************)
EXTENDS Kernel, SequenceTheorems, WellFoundedInduction, TLAPS

-----------------------------------------------------------------------------
(* What the operations on lists do, for lists of any length.  The elements *)
(* of a list are ToSet(s); a list that links every node once is injective. *)
LEMMA ListEmpty ==
  ASSUME NEW S, NEW s \in Seq(S)
  PROVE  /\ s = << >> <=> ToSet(s) = {}
         /\ s # << >> => Head(s) \in ToSet(s)
         /\ ToSet(s) \subseteq S
<1>1. DOMAIN s = 1 .. Len(s) /\ Len(s) \in Nat
  BY LenProperties
<1>2. s # << >> => Len(s) > 0
  BY EmptySeq
<1>3. s # << >> => Head(s) = s[1] /\ 1 \in DOMAIN s
  BY <1>1, <1>2
<1>4. s = << >> => DOMAIN s = {}
  BY <1>1, EmptySeq
<1>5. \A i \in DOMAIN s : s[i] \in S
  BY <1>1, ElementOfSeq
<1> QED
  BY <1>3, <1>4, <1>5 DEF ToSet

LEMMA ListAppend ==
  ASSUME NEW S, NEW s \in Seq(S), NEW t \in S
  PROVE  /\ Append(s, t) \in Seq(S)
         /\ Append(s, t) # << >>
         /\ ToSet(Append(s, t)) = ToSet(s) \cup {t}
         /\ IsInjective(s) /\ t \notin ToSet(s) => IsInjective(Append(s, t))
<1>1. /\ Append(s, t) \in Seq(S)
      /\ Len(Append(s, t)) = Len(s) + 1
      /\ \A i \in 1 .. Len(s) : Append(s, t)[i] = s[i]
      /\ Append(s, t)[Len(s) + 1] = t
  BY AppendProperties
<1>2. Len(s) \in Nat /\ DOMAIN s = 1 .. Len(s)
  BY LenProperties
<1>3. DOMAIN Append(s, t) = DOMAIN s \cup {Len(s) + 1} /\ Len(s) + 1 \notin DOMAIN s
  BY <1>1, <1>2, LenProperties
<1>4. ToSet(Append(s, t)) = ToSet(s) \cup {t}
  BY <1>1, <1>2, <1>3 DEF ToSet
<1>5. IsInjective(s) /\ t \notin ToSet(s) => IsInjective(Append(s, t))
  BY <1>1, <1>2, <1>3 DEF ToSet, IsInjective
<1>6. Append(s, t) # << >>
  BY <1>1, <1>2, EmptySeq
<1> QED
  BY <1>1, <1>4, <1>5, <1>6

(* rt_list_remove: where the elements behind the node go. *)
LEMMA WithoutPlaces ==
  ASSUME NEW S, NEW s \in Seq(S), NEW t \in ToSet(s)
  PROVE  \E n \in 1 .. Len(s) :
           /\ s[n] = t
           /\ Without(s, t) \in Seq(S) /\ Len(Without(s, t)) = Len(s) - 1
           /\ \A i \in 1 .. Len(s) - 1 :
                Without(s, t)[i] = IF i < n THEN s[i] ELSE s[i + 1]
<1> DEFINE w == Without(s, t)
<1>0. Len(s) \in Nat /\ DOMAIN s = 1 .. Len(s) /\ \A i \in 1 .. Len(s) : s[i] \in S
  BY LenProperties, ElementOfSeq
<1>9. \E i \in DOMAIN s : s[i] = t
  BY DEF ToSet
<1> DEFINE n == CHOOSE i \in DOMAIN s : s[i] = t
           u == SubSeq(s, 1, n - 1)
           v == SubSeq(s, n + 1, Len(s))
<1>1. n \in 1 .. Len(s) /\ s[n] = t
  BY <1>0, <1>9
<1>2. w = u \o v
  BY <1>9 DEF Without, RemoveAt
<1> HIDE DEF n
<1>3. /\ u \in Seq(S) /\ Len(u) = n - 1
      /\ \A i \in 1 .. n - 1 : u[i] = s[i]
  <2>1. 1 \in Int /\ n - 1 \in Int /\ \A i \in 1 .. n - 1 : s[i] \in S
    BY <1>0, <1>1
  <2>2. /\ u \in Seq(S)
        /\ Len(u) = IF 1 <= n - 1 THEN n - 1 - 1 + 1 ELSE 0
        /\ \A i \in 1 .. n - 1 - 1 + 1 : u[i] = s[1 + i - 1]
    BY <2>1, SubSeqProperties
  <2> QED
    BY <1>0, <1>1, <2>2
<1>4. /\ v \in Seq(S) /\ Len(v) = Len(s) - n
      /\ \A i \in 1 .. Len(s) - n : v[i] = s[n + i]
  <2>1. n + 1 \in Int /\ Len(s) \in Int /\ \A i \in n + 1 .. Len(s) : s[i] \in S
    BY <1>0, <1>1
  <2>2. /\ v \in Seq(S)
        /\ Len(v) = IF n + 1 <= Len(s) THEN Len(s) - (n + 1) + 1 ELSE 0
        /\ \A i \in 1 .. Len(s) - (n + 1) + 1 : v[i] = s[n + 1 + i - 1]
    BY <2>1, SubSeqProperties
  <2> QED
    <3> HIDE DEF u, v
    <3>1. /\ Len(s) - (n + 1) + 1 = Len(s) - n
          /\ Len(s) - n = IF n + 1 <= Len(s) THEN Len(s) - (n + 1) + 1 ELSE 0
      <4>1. n \in Int /\ Len(s) \in Int /\ n <= Len(s)
        BY <1>0, <1>1
      <4> QED
        BY <4>1
    <3>2. \A i \in 1 .. Len(s) - n : n + 1 + i - 1 = n + i
      <4>1. n \in Int
        BY <1>0, <1>1
      <4> QED
        BY <4>1
    <3> QED
      BY <2>2, <3>1, <3>2
<1> HIDE DEF u, v
<1>5. /\ w \in Seq(S) /\ Len(w) = Len(s) - 1
      /\ \A i \in 1 .. Len(s) - 1 : w[i] = IF i < n THEN s[i] ELSE s[i + 1]
  <2>1. /\ w \in Seq(S)
        /\ Len(w) = Len(u) + Len(v)
        /\ \A i \in 1 .. Len(u) + Len(v) :
             w[i] = IF i <= Len(u) THEN u[i] ELSE v[i - Len(u)]
    <3> HIDE DEF w
    <3>1. /\ u \o v \in Seq(S)
          /\ Len(u \o v) = Len(u) + Len(v)
          /\ \A i \in 1 .. Len(u) + Len(v) :
               (u \o v)[i] = IF i <= Len(u) THEN u[i] ELSE v[i - Len(u)]
      BY <1>3, <1>4, ConcatProperties
    <3> QED
      BY <1>2, <3>1
  <2>2. Len(u) + Len(v) = Len(s) - 1
    BY <1>0, <1>1, <1>3, <1>4
  <2>3. ASSUME NEW i \in 1 .. Len(s) - 1
        PROVE  w[i] = IF i < n THEN s[i] ELSE s[i + 1]
    <3>1. w[i] = IF i <= n - 1 THEN u[i] ELSE v[i - (n - 1)]
      BY <1>3, <2>1, <2>2
    <3>2. CASE i < n
      BY <1>0, <1>1, <1>3, <3>1, <3>2
    <3>3. CASE ~(i < n)
      <4>1. i - (n - 1) \in 1 .. Len(s) - n /\ n + (i - (n - 1)) = i + 1
        BY <1>0, <1>1, <3>3
      <4> QED
        BY <1>0, <1>1, <1>4, <3>1, <3>3, <4>1
    <3> QED
      BY <3>2, <3>3
  <2> QED
    BY <2>1, <2>2, <2>3
<1> QED
  BY <1>1, <1>5

LEMMA ListWithout ==
  ASSUME NEW S, NEW s \in Seq(S), NEW t, IsInjective(s)
  PROVE  /\ Without(s, t) \in Seq(S)
         /\ ToSet(Without(s, t)) = ToSet(s) \ {t}
         /\ IsInjective(Without(s, t))
<1> DEFINE w == Without(s, t)
<1>1. Len(s) \in Nat /\ DOMAIN s = 1 .. Len(s) /\ \A i \in 1 .. Len(s) : s[i] \in S
  BY LenProperties, ElementOfSeq
<1>2. CASE ~ \E i \in DOMAIN s : s[i] = t
  <2>1. w = s
    BY <1>2 DEF Without
  <2>2. t \notin ToSet(s)
    BY <1>2 DEF ToSet
  <2> QED
    BY <2>1, <2>2
<1>3. CASE \E i \in DOMAIN s : s[i] = t
  <2>1. t \in ToSet(s)
    BY <1>3 DEF ToSet
  <2>2. PICK n \in 1 .. Len(s) :
          /\ s[n] = t /\ w \in Seq(S) /\ Len(w) = Len(s) - 1
          /\ \A i \in 1 .. Len(s) - 1 : w[i] = IF i < n THEN s[i] ELSE s[i + 1]
    BY <2>1, WithoutPlaces
  <2>6. DOMAIN w = 1 .. Len(s) - 1
    BY <2>2, LenProperties
  <2> HIDE DEF w
  <2>7. ToSet(w) = ToSet(s) \ {t}
    <3>1. ASSUME NEW i \in 1 .. Len(s) - 1
          PROVE  w[i] \in ToSet(s) /\ w[i] # t
      <4>1. \E j \in 1 .. Len(s) : j # n /\ w[i] = s[j]
        <5>1. i \in 1 .. Len(s) /\ i + 1 \in 1 .. Len(s) /\ i + 1 # i /\ i < i + 1
              /\ (i < n => i # n) /\ (~(i < n) => i + 1 # n)
          BY <1>1, <2>2
        <5> QED
          BY <2>2, <5>1
      <4>2. PICK j \in 1 .. Len(s) : j # n /\ w[i] = s[j]
        BY <4>1
      <4>3. DOMAIN s = 1 .. Len(s)
        BY <1>1
      <4>4. s[j] # s[n]
        BY <2>2, <4>2, <4>3 DEF IsInjective
      <4> QED
        BY <2>2, <4>2, <4>3, <4>4 DEF ToSet
    <3>2. ASSUME NEW i \in 1 .. Len(s), s[i] # t
          PROVE  s[i] \in ToSet(w)
      <4>1. CASE i < n
        BY <1>1, <2>2, <2>2, <2>6, <4>1 DEF ToSet
      <4>2. CASE i > n
        <5>1. i - 1 \in 1 .. Len(s) - 1 /\ ~(i - 1 < n) /\ i - 1 + 1 = i
          BY <1>1, <2>2, <4>2
        <5>2. w[i - 1] = s[i]
          BY <2>2, <5>1
        <5> QED
          BY <2>6, <5>1, <5>2 DEF ToSet
      <4> QED
        BY <1>1, <2>2, <3>2, <4>1, <4>2
    <3> QED
      BY <1>1, <2>6, <3>1, <3>2 DEF ToSet
  <2>8. IsInjective(w)
    <3>1. \A i \in 1 .. Len(s) - 1 :
            \E j \in 1 .. Len(s) : /\ w[i] = s[j]
                                  /\ j = IF i < n THEN i ELSE i + 1
      <4> TAKE i \in 1 .. Len(s) - 1
      <4>1. CASE i < n
        <5>1. i \in 1 .. Len(s) /\ w[i] = s[i]
          BY <1>1, <2>2, <4>1
        <5> QED
          BY <4>1, <5>1
      <4>2. CASE ~(i < n)
        <5>1. i + 1 \in 1 .. Len(s) /\ w[i] = s[i + 1]
          BY <1>1, <2>2, <4>2
        <5> QED
          BY <4>2, <5>1
      <4> QED
        BY <4>1, <4>2
    <3>2. ASSUME NEW i \in 1 .. Len(s) - 1, NEW h \in 1 .. Len(s) - 1, w[i] = w[h]
          PROVE  i = h
      <4>1. PICK j \in 1 .. Len(s) : /\ w[i] = s[j]
                                    /\ j = IF i < n THEN i ELSE i + 1
        BY <3>1
      <4>2. PICK g \in 1 .. Len(s) : /\ w[h] = s[g]
                                    /\ g = IF h < n THEN h ELSE h + 1
        BY <3>1
      <4>3. j \in DOMAIN s /\ g \in DOMAIN s /\ s[j] = s[g]
        BY <1>1, <3>2, <4>1, <4>2
      <4>4. j = g
        BY <4>3 DEF IsInjective
      <4> QED
        BY <2>2, <4>1, <4>2, <4>4
    <3> QED
      BY <2>6, <3>2 DEF IsInjective
  <2> QED
    BY <2>2, <2>7, <2>8 DEF w
<1> QED
  BY <1>2, <1>3

LEMMA ListAbsent ==
  ASSUME NEW s, NEW t, t \notin ToSet(s)
  PROVE  Without(s, t) = s
BY DEF Without, ToSet

(* rt_list_insert_after of a head: a node in front of all others. *)
LEMMA ListPrepend ==
  ASSUME NEW S, NEW s \in Seq(S), NEW t \in S
  PROVE  /\ <<t>> \o s \in Seq(S)
         /\ ToSet(<<t>> \o s) = ToSet(s) \cup {t}
         /\ IsInjective(s) /\ t \notin ToSet(s) => IsInjective(<<t>> \o s)
<1> DEFINE e == <<t>>
           w == e \o s
<1>1. e \in Seq(S) /\ Len(e) = 1 /\ e[1] = t
  OBVIOUS
<1> HIDE DEF e
<1>2. /\ e \o s \in Seq(S)
      /\ Len(e \o s) = Len(e) + Len(s)
      /\ \A i \in 1 .. Len(e) + Len(s) :
           (e \o s)[i] = IF i <= Len(e) THEN e[i] ELSE s[i - Len(e)]
  BY <1>1, ConcatProperties
<1> HIDE DEF w
<1>3. w \in Seq(S) /\ Len(s) \in Nat /\ DOMAIN s = 1 .. Len(s) /\ Len(w) = Len(s) + 1
  BY <1>1, <1>2, LenProperties DEF w
<1>4. DOMAIN w = 1 .. Len(s) + 1
  BY <1>3, LenProperties
<1>5. /\ w[1] = t
      /\ \A i \in 2 .. Len(s) + 1 : i - 1 \in 1 .. Len(s) /\ w[i] = s[i - 1]
  BY <1>1, <1>2, <1>3 DEF w
<1>6. \A i \in 1 .. Len(s) : i + 1 \in 2 .. Len(s) + 1 /\ w[i + 1] = s[i]
  <2> SUFFICES ASSUME NEW i \in 1 .. Len(s)
               PROVE  i + 1 \in 2 .. Len(s) + 1 /\ w[i + 1] = s[i]
    OBVIOUS
  <2>1. i + 1 \in 2 .. Len(s) + 1 /\ i + 1 - 1 = i
    BY <1>3
  <2> QED
    BY <1>5, <2>1
<1>7. ToSet(w) = ToSet(s) \cup {t}
  <2>1. ASSUME NEW i \in 1 .. Len(s) + 1
        PROVE  w[i] \in ToSet(s) \cup {t}
    <3>1. i = 1 \/ i \in 2 .. Len(s) + 1
      BY <1>3
    <3> QED
      BY <1>3, <1>5, <3>1 DEF ToSet
  <2>2. ASSUME NEW i \in 1 .. Len(s)
        PROVE  s[i] \in ToSet(w)
    BY <1>3, <1>4, <1>6 DEF ToSet
  <2>3. t \in ToSet(w)
    BY <1>3, <1>4, <1>5 DEF ToSet
  <2> QED
    BY <1>3, <1>4, <2>1, <2>2, <2>3 DEF ToSet
<1>8. ASSUME IsInjective(s), t \notin ToSet(s)
      PROVE  IsInjective(w)
  <2> SUFFICES ASSUME NEW i \in 1 .. Len(s) + 1, NEW j \in 1 .. Len(s) + 1, w[i] = w[j]
               PROVE  i = j
    BY <1>4 DEF IsInjective
  <2>1. \A n \in 1 .. Len(s) : s[n] # t
    BY <1>3, <1>8 DEF ToSet
  <2>2. /\ i = 1 \/ i \in 2 .. Len(s) + 1
        /\ j = 1 \/ j \in 2 .. Len(s) + 1
    BY <1>3
  <2>3. CASE i # 1 /\ j # 1
    <3>1. s[i - 1] = s[j - 1] /\ i - 1 \in DOMAIN s /\ j - 1 \in DOMAIN s
      BY <1>3, <1>5, <2>2, <2>3
    <3>2. i - 1 = j - 1
      BY <1>8, <3>1 DEF IsInjective
    <3> QED
      BY <1>3, <3>2
  <2> QED
    BY <1>5, <2>1, <2>2, <2>3
<1> QED
  BY <1>3, <1>7, <1>8 DEF w, e

(* rt_list_insert_before and _after: a node in front of the i-th one, or at the end. *)
LEMMA InsertPlaces ==
  ASSUME NEW S, NEW s \in Seq(S), NEW t \in S, NEW i \in 1 .. Len(s) + 1
  PROVE  /\ InsertAt(s, i, t) \in Seq(S)
         /\ Len(InsertAt(s, i, t)) = Len(s) + 1
         /\ \A j \in 1 .. Len(s) + 1 :
              InsertAt(s, i, t)[j] = IF j < i THEN s[j]
                                     ELSE IF j = i THEN t ELSE s[j - 1]
<1> DEFINE e == <<t>>
           u == SubSeq(s, 1, i - 1)
           v == SubSeq(s, i, Len(s))
           x == u \o e
           w == x \o v
<1>1. Len(s) \in Nat /\ DOMAIN s = 1 .. Len(s) /\ \A j \in 1 .. Len(s) : s[j] \in S
  BY LenProperties, ElementOfSeq
<1>2. InsertAt(s, i, t) = w
  BY DEF InsertAt
<1>3. e \in Seq(S) /\ Len(e) = 1 /\ e[1] = t
  OBVIOUS
<1> HIDE DEF e
<1>4. /\ u \in Seq(S) /\ Len(u) = i - 1
      /\ \A j \in 1 .. i - 1 : u[j] = s[j]
  <2>1. 1 \in Int /\ i - 1 \in Int /\ \A j \in 1 .. i - 1 : s[j] \in S
    BY <1>1
  <2>2. /\ u \in Seq(S)
        /\ Len(u) = IF 1 <= i - 1 THEN i - 1 - 1 + 1 ELSE 0
        /\ \A j \in 1 .. i - 1 - 1 + 1 : u[j] = s[1 + j - 1]
    BY <2>1, SubSeqProperties
  <2> HIDE DEF u
  <2>3. i - 1 = (IF 1 <= i - 1 THEN i - 1 - 1 + 1 ELSE 0) /\ i - 1 - 1 + 1 = i - 1
    BY <1>1
  <2>4. \A j \in 1 .. i - 1 : 1 + j - 1 = j
    BY <1>1
  <2> QED
    BY <2>2, <2>3, <2>4
<1>5. /\ v \in Seq(S) /\ Len(v) = Len(s) - i + 1
      /\ \A j \in 1 .. Len(s) - i + 1 : v[j] = s[i + j - 1]
  <2>1. i \in Int /\ Len(s) \in Int /\ \A j \in i .. Len(s) : s[j] \in S
    BY <1>1
  <2>2. /\ v \in Seq(S)
        /\ Len(v) = IF i <= Len(s) THEN Len(s) - i + 1 ELSE 0
        /\ \A j \in 1 .. Len(s) - i + 1 : v[j] = s[i + j - 1]
    BY <2>1, SubSeqProperties
  <2> HIDE DEF v
  <2>3. Len(s) - i + 1 = IF i <= Len(s) THEN Len(s) - i + 1 ELSE 0
    BY <1>1
  <2> QED
    BY <2>2, <2>3
<1> HIDE DEF u, v
<1>6. /\ x \in Seq(S) /\ Len(x) = i
      /\ \A j \in 1 .. i : x[j] = IF j < i THEN s[j] ELSE t
  <2>1. /\ x \in Seq(S)
        /\ Len(x) = Len(u) + Len(e)
        /\ \A j \in 1 .. Len(u) + Len(e) :
             x[j] = IF j <= Len(u) THEN u[j] ELSE e[j - Len(u)]
    BY <1>3, <1>4, ConcatProperties
  <2> HIDE DEF x
  <2>2. Len(u) + Len(e) = i
    BY <1>1, <1>3, <1>4
  <2>3. ASSUME NEW j \in 1 .. i
        PROVE  x[j] = IF j < i THEN s[j] ELSE t
    <3>1. x[j] = IF j <= i - 1 THEN u[j] ELSE e[j - (i - 1)]
      BY <1>4, <2>1, <2>2
    <3>2. CASE j < i
      <4>1. j <= i - 1 /\ j \in 1 .. i - 1
        BY <1>1, <3>2
      <4> QED
        BY <1>4, <3>1, <3>2, <4>1
    <3>3. CASE ~(j < i)
      <4>1. ~(j <= i - 1) /\ j - (i - 1) = 1
        BY <1>1, <3>3
      <4> QED
        BY <1>3, <3>1, <3>3, <4>1
    <3> QED
      BY <3>2, <3>3
  <2> QED
    BY <2>1, <2>2, <2>3
<1> HIDE DEF x
<1>7. /\ w \in Seq(S) /\ Len(w) = Len(s) + 1
      /\ \A j \in 1 .. Len(s) + 1 :
           w[j] = IF j < i THEN s[j] ELSE IF j = i THEN t ELSE s[j - 1]
  <2>1. /\ w \in Seq(S)
        /\ Len(w) = Len(x) + Len(v)
        /\ \A j \in 1 .. Len(x) + Len(v) :
             w[j] = IF j <= Len(x) THEN x[j] ELSE v[j - Len(x)]
    BY <1>5, <1>6, ConcatProperties
  <2> HIDE DEF w
  <2>2. Len(x) + Len(v) = Len(s) + 1
    BY <1>1, <1>5, <1>6
  <2>3. ASSUME NEW j \in 1 .. Len(s) + 1
        PROVE  w[j] = IF j < i THEN s[j] ELSE IF j = i THEN t ELSE s[j - 1]
    <3>1. w[j] = IF j <= i THEN x[j] ELSE v[j - i]
      BY <1>6, <2>1, <2>2
    <3>2. CASE j <= i
      <4>1. j \in 1 .. i /\ (j < i \/ j = i)
        BY <1>1, <3>2
      <4> QED
        BY <1>1, <1>6, <3>1, <3>2, <4>1
    <3>3. CASE ~(j <= i)
      <4>1. j - i \in 1 .. Len(s) - i + 1 /\ i + (j - i) - 1 = j - 1 /\ ~(j < i) /\ j # i
        BY <1>1, <3>3
      <4>2. v[j - i] = s[i + (j - i) - 1]
        BY <1>5, <4>1
      <4> QED
        BY <3>1, <3>3, <4>1, <4>2
    <3> QED
      BY <3>2, <3>3
  <2> QED
    BY <2>1, <2>2, <2>3
<1> QED
  BY <1>2, <1>7

LEMMA ListInsert ==
  ASSUME NEW S, NEW s \in Seq(S), NEW t \in S, NEW i \in 1 .. Len(s) + 1
  PROVE  /\ InsertAt(s, i, t) \in Seq(S)
         /\ ToSet(InsertAt(s, i, t)) = ToSet(s) \cup {t}
         /\ IsInjective(s) /\ t \notin ToSet(s) => IsInjective(InsertAt(s, i, t))
<1> DEFINE w == InsertAt(s, i, t)
<1>1. Len(s) \in Nat /\ DOMAIN s = 1 .. Len(s) /\ \A j \in 1 .. Len(s) : s[j] \in S
  BY LenProperties, ElementOfSeq
<1>7. /\ w \in Seq(S) /\ Len(w) = Len(s) + 1
      /\ \A j \in 1 .. Len(s) + 1 :
           w[j] = IF j < i THEN s[j] ELSE IF j = i THEN t ELSE s[j - 1]
  BY InsertPlaces
<1>8. DOMAIN w = 1 .. Len(s) + 1
  BY <1>7, LenProperties
<1> HIDE DEF w
<1>9. ToSet(w) = ToSet(s) \cup {t}
  <2>1. ASSUME NEW j \in 1 .. Len(s) + 1
        PROVE  w[j] \in ToSet(s) \cup {t}
    <3>1. j < i => j \in DOMAIN s
      BY <1>1
    <3>2. ~(j < i) /\ j # i => j - 1 \in DOMAIN s
      BY <1>1
    <3> QED
      BY <1>7, <3>1, <3>2 DEF ToSet
  <2>2. ASSUME NEW j \in 1 .. Len(s)
        PROVE  s[j] \in ToSet(w)
    <3>1. CASE j < i
      <4>1. j \in DOMAIN w
        BY <1>1, <1>8
      <4>2. w[j] = s[j]
        BY <1>7, <1>8, <3>1, <4>1
      <4> QED
        BY <4>1, <4>2 DEF ToSet
    <3>2. CASE ~(j < i)
      <4>1. j + 1 \in DOMAIN w /\ ~(j + 1 < i) /\ j + 1 # i /\ j + 1 - 1 = j
        BY <1>1, <1>8, <3>2
      <4>2. w[j + 1] = s[j]
        BY <1>7, <1>8, <4>1
      <4> QED
        BY <4>1, <4>2 DEF ToSet
    <3> QED
      BY <3>1, <3>2
  <2>3. t \in ToSet(w)
    <3>1. i \in DOMAIN w /\ ~(i < i)
      BY <1>1, <1>8
    <3>2. w[i] = t
      BY <1>7, <1>8, <3>1
    <3> QED
      BY <3>1, <3>2 DEF ToSet
  <2> QED
    BY <1>1, <1>8, <2>1, <2>2, <2>3 DEF ToSet
<1>10. ASSUME IsInjective(s), t \notin ToSet(s)
       PROVE  IsInjective(w)
  <2> DEFINE at(j) == IF j < i THEN j ELSE j - 1
  <2>1. \A n \in 1 .. Len(s) : s[n] # t
    BY <1>1, <1>10 DEF ToSet
  <2>2. ASSUME NEW j \in 1 .. Len(s) + 1, j # i
        PROVE  at(j) \in 1 .. Len(s) /\ w[j] = s[at(j)]
    <3>1. at(j) \in 1 .. Len(s)
      BY <1>1, <2>2
    <3> QED
      BY <1>7, <2>2, <3>1
  <2>3. i \in 1 .. Len(s) + 1 /\ w[i] = t
    <3>1. i \in 1 .. Len(s) + 1 /\ ~(i < i)
      BY <1>1
    <3> QED
      BY <1>7, <3>1
  <2> SUFFICES ASSUME NEW j \in 1 .. Len(s) + 1, NEW l \in 1 .. Len(s) + 1, w[j] = w[l]
               PROVE  j = l
    BY <1>8 DEF IsInjective
  <2>4. CASE j # i /\ l # i
    <3> HIDE DEF at
    <3>1. s[at(j)] = s[at(l)] /\ at(j) \in DOMAIN s /\ at(l) \in DOMAIN s
      BY <1>1, <2>2, <2>4
    <3>2. at(j) = at(l)
      BY <1>10, <3>1 DEF IsInjective
    <3> USE DEF at
    <3> QED
      BY <1>1, <2>4, <3>2
  <2>5. CASE j = i \/ l = i
    <3> HIDE DEF at
    <3> QED
      BY <2>1, <2>2, <2>3, <2>5
  <2> QED
    BY <2>4, <2>5
<1> QED
  BY <1>7, <1>9, <1>10 DEF w

(* Min of the community modules finds the least of a set of numbers. *)
LEMMA LeastFacts ==
  ASSUME NEW g \in SUBSET Nat, g # {}
  PROVE  Min(g) \in g /\ \A p \in g : Min(g) <= p
<1>1. \E x \in g : \A y \in g : ~ (<<y, x>> \in OpToRel(<, Nat))
  BY NatLessThanWellFounded, WFMin
<1>2. \E x \in g : \A y \in g : x <= y
  <2>1. OpToRel(<, Nat) = {ss \in Nat \X Nat : ss[1] < ss[2]}
    BY DEF OpToRel
  <2>2. PICK x \in g : \A y \in g : ~ (<<y, x>> \in OpToRel(<, Nat))
    BY <1>1
  <2>3. \A y \in g : <<y, x>> \in Nat \X Nat
    BY <2>2
  <2>4. \A y \in g : ~ (y < x)
    BY <2>1, <2>2, <2>3
  <2>5. ASSUME NEW y \in g
        PROVE  x <= y
    <3>1. x \in Nat /\ y \in Nat
      BY <2>2
    <3>2. ~ (y < x)
      BY <2>4
    <3> QED
      BY <3>1, <3>2
  <2> QED
    BY <2>5
<1> QED
  BY <1>2 DEF Min
-----------------------------------------------------------------------------
(* The ready queue.  Coherent(k, D) is the coherence of lists, bitmap and  *)
(* states in the middle of an operation on the threads of D.               *)
RunningUnlinkedBut(k, D) ==
  \A t \in Thread \ D : k.stat[t] = "RUNNING" => t = k.current /\ ~Linked(k, t)

Coherent(k, D) == /\ SingleLinkage(k)
                  /\ ReadyListed(k, D)
                  /\ BitmapExact(k)
                  /\ RunningUnlinkedBut(k, D)

(* What only rt_schedule and the calls named in an operation change. *)
SameThreads(k, u) == /\ u.prio = k.prio /\ u.current = k.current
                     /\ u.lock = k.lock

LEMMA UnlinkFacts ==
  ASSUME NEW k \in KernelState, SingleLinkage(k), NEW t \in Thread
  PROVE  LET u == Unlink(k, t) IN
         /\ u \in KernelState
         /\ SameThreads(k, u)
         /\ u.stat = k.stat /\ u.timer = k.timer /\ u.error = k.error
         /\ u.group = k.group
         /\ \A p \in Prio : /\ u.ready[p] = Without(k.ready[p], t)
                            /\ ToSet(u.ready[p]) = ToSet(k.ready[p]) \ {t}
         /\ \A q \in Queue : /\ u.wait[q] = Without(k.wait[q], t)
                             /\ ToSet(u.wait[q]) = ToSet(k.wait[q]) \ {t}
         /\ SingleLinkage(u)
<1> DEFINE u == Unlink(k, t)
<1>1. /\ k.ready \in [Prio -> Seq(Thread)] /\ k.wait \in [Queue -> Seq(Thread)]
      /\ \A p \in Prio : k.ready[p] \in Seq(Thread) /\ IsInjective(k.ready[p])
      /\ \A q \in Queue : k.wait[q] \in Seq(Thread) /\ IsInjective(k.wait[q])
  BY DEF KernelState, SingleLinkage
<1>2. \A p \in Prio : /\ Without(k.ready[p], t) \in Seq(Thread)
                     /\ ToSet(Without(k.ready[p], t)) = ToSet(k.ready[p]) \ {t}
                     /\ IsInjective(Without(k.ready[p], t))
  BY <1>1, ListWithout
<1>3. \A q \in Queue : /\ Without(k.wait[q], t) \in Seq(Thread)
                      /\ ToSet(Without(k.wait[q], t)) = ToSet(k.wait[q]) \ {t}
                      /\ IsInjective(Without(k.wait[q], t))
  BY <1>1, ListWithout
<1>4. /\ u.stat = k.stat /\ u.prio = k.prio /\ u.group = k.group
      /\ u.current = k.current /\ u.lock = k.lock /\ u.timer = k.timer
      /\ u.error = k.error
      /\ u.ready = [p \in Prio |-> Without(k.ready[p], t)]
      /\ u.wait = [q \in Queue |-> Without(k.wait[q], t)]
  BY DEF KernelState, Unlink
<1>5. u \in KernelState
  BY <1>2, <1>3 DEF KernelState, Unlink
<1> HIDE DEF u
<1>6. /\ \A p \in Prio : /\ u.ready[p] = Without(k.ready[p], t)
                        /\ ToSet(u.ready[p]) = ToSet(k.ready[p]) \ {t}
                        /\ IsInjective(u.ready[p])
      /\ \A q \in Queue : /\ u.wait[q] = Without(k.wait[q], t)
                         /\ ToSet(u.wait[q]) = ToSet(k.wait[q]) \ {t}
                         /\ IsInjective(u.wait[q])
  BY <1>2, <1>3, <1>4
<1>7. SingleLinkage(u)
  BY <1>6 DEF SingleLinkage
<1> QED
  BY <1>4, <1>5, <1>6, <1>7 DEF SameThreads, u

(* Coherence is about the lists, the bitmap, the states, the current       *)
(* thread and the priorities of ready threads, and about nothing else.     *)
LEMMA CoherentFrame ==
  ASSUME NEW k \in KernelState, NEW u \in KernelState, NEW D, Coherent(k, D),
         u.ready = k.ready, u.wait = k.wait, u.group = k.group,
         u.current = k.current, u.stat = k.stat,
         \A t \in Thread : k.stat[t] = "READY" => u.prio[t] = k.prio[t]
  PROVE  Coherent(u, D)
<1>1. SingleLinkage(u) /\ BitmapExact(u)
  BY DEF Coherent, SingleLinkage, BitmapExact
<1>2. ReadyListed(u, D)
  BY DEF Coherent, ReadyListed
<1>3. RunningUnlinkedBut(u, D)
  BY DEF Coherent, RunningUnlinkedBut, Linked
<1> QED
  BY <1>1, <1>2, <1>3 DEF Coherent

LEMMA CoherentWeaken ==
  ASSUME NEW k \in KernelState, NEW t \in Thread, Coherent(k, {}),
         k.stat[t] # "READY"
  PROVE  Coherent(k, {t})
BY DEF Coherent, ReadyListed, RunningUnlinkedBut

LEMMA ReadyOnlyThere ==
  ASSUME NEW k \in KernelState, NEW t \in Thread, NEW D, Coherent(k, D),
         NEW p \in Prio, t \in ToSet(k.ready[p])
  PROVE  k.stat[t] = "READY" /\ k.prio[t] = p /\ \A q \in Queue : t \notin ToSet(k.wait[q])
BY DEF Coherent, ReadyListed, SingleLinkage

LEMMA ScheduleRemoveFacts ==
  ASSUME NEW k \in KernelState, NEW t \in Thread, Coherent(k, {})
  PROVE  LET u == ScheduleRemove(k, t) IN
         /\ u \in KernelState
         /\ SameThreads(k, u)
         /\ u.stat = k.stat /\ u.timer = k.timer /\ u.error = k.error
         /\ \A q \in Queue : /\ u.wait[q] = Without(k.wait[q], t)
                             /\ ToSet(u.wait[q]) = ToSet(k.wait[q]) \ {t}
         /\ Coherent(u, {t})
         /\ ~Linked(u, t)
<1> DEFINE v == Unlink(k, t)
           u == ScheduleRemove(k, t)
           pr == k.prio[t]
<1>1. /\ v \in KernelState
      /\ SameThreads(k, v)
      /\ v.stat = k.stat /\ v.timer = k.timer /\ v.error = k.error
      /\ v.group = k.group
      /\ \A p \in Prio : /\ v.ready[p] = Without(k.ready[p], t)
                         /\ ToSet(v.ready[p]) = ToSet(k.ready[p]) \ {t}
      /\ \A q \in Queue : /\ v.wait[q] = Without(k.wait[q], t)
                          /\ ToSet(v.wait[q]) = ToSet(k.wait[q]) \ {t}
      /\ SingleLinkage(v)
  BY UnlinkFacts DEF Coherent
<1>2. u = [v EXCEPT !.group = IF v.ready[pr] = << >> THEN @ \ {pr} ELSE @]
  BY DEF ScheduleRemove
<1> HIDE DEF v, u
<1>3. pr \in Prio
  BY DEF KernelState
<1>4. /\ u \in KernelState
      /\ u.stat = v.stat /\ u.timer = v.timer /\ u.error = v.error
      /\ u.prio = v.prio /\ u.current = v.current /\ u.lock = v.lock
      /\ u.ready = v.ready /\ u.wait = v.wait
      /\ u.group = IF v.ready[pr] = << >> THEN v.group \ {pr} ELSE v.group
  BY <1>1, <1>2 DEF KernelState
<1>5. SingleLinkage(u)
  BY <1>1, <1>4 DEF SingleLinkage
<1>6. ReadyListed(u, {t})
  BY <1>1, <1>4 DEF Coherent, ReadyListed, SameThreads
<1>7. BitmapExact(u)
  <2>1. ASSUME NEW p \in Prio
        PROVE  p \in u.group <=> u.ready[p] # << >>
    <3>1. p \in k.group <=> k.ready[p] # << >>
      BY DEF Coherent, BitmapExact
    <3>2. CASE p = pr
      <4>1. k.ready[p] \in Seq(Thread) /\ v.ready[p] \in Seq(Thread)
        BY <1>1 DEF KernelState
      <4>2. /\ k.ready[p] = << >> <=> ToSet(k.ready[p]) = {}
            /\ v.ready[p] = << >> <=> ToSet(v.ready[p]) = {}
        BY <4>1, ListEmpty
      <4> QED
        BY <1>1, <1>4, <3>1, <3>2, <4>2
    <3>3. CASE p # pr
      <4>1. t \notin ToSet(k.ready[p])
        BY <3>3 DEF Coherent, ReadyListed
      <4>2. v.ready[p] = k.ready[p]
        BY <1>1, <4>1, ListAbsent
      <4> QED
        BY <1>1, <1>4, <3>1, <3>3, <4>2
    <3> QED
      BY <3>2, <3>3
  <2>2. u.group \subseteq Prio
    BY <1>4 DEF KernelState
  <2> QED
    BY <2>1, <2>2 DEF BitmapExact
<1>8. \A x \in Thread : Linked(u, x) => Linked(k, x) /\ x # t
  BY <1>1, <1>4 DEF Linked
<1>9. RunningUnlinkedBut(u, {t})
  BY <1>1, <1>4, <1>8 DEF Coherent, RunningUnlinkedBut, SameThreads
<1> QED
  BY <1>1, <1>4, <1>5, <1>6, <1>7, <1>8, <1>9 DEF Coherent, SameThreads, u

LEMMA SetStatFacts ==
  ASSUME NEW k \in KernelState, NEW t \in Thread, NEW s \in Stat,
         Coherent(k, {t}), ~Linked(k, t),
         s # "READY", s = "RUNNING" => t = k.current
  PROVE  LET u == SetStat(k, t, s) IN
         /\ u \in KernelState
         /\ SameThreads(k, u)
         /\ u.stat = [k.stat EXCEPT ![t] = s]
         /\ u.timer = k.timer /\ u.error = k.error /\ u.wait = k.wait
         /\ Coherent(u, {})
<1> DEFINE u == SetStat(k, t, s)
<1>1. /\ u \in KernelState
      /\ u.stat = [k.stat EXCEPT ![t] = s]
      /\ u.timer = k.timer /\ u.error = k.error /\ u.prio = k.prio
      /\ u.current = k.current /\ u.lock = k.lock
      /\ u.ready = k.ready /\ u.wait = k.wait /\ u.group = k.group
  BY DEF SetStat, KernelState
<1> HIDE DEF u
<1>2. \A x \in Thread : u.stat[x] = IF x = t THEN s ELSE k.stat[x]
  BY <1>1 DEF KernelState
<1>3. SingleLinkage(u) /\ BitmapExact(u)
  BY <1>1 DEF Coherent, SingleLinkage, BitmapExact
<1>4. ReadyListed(u, {})
  BY <1>1, <1>2 DEF Coherent, ReadyListed
<1>5. \A x \in Thread : Linked(u, x) <=> Linked(k, x)
  BY <1>1 DEF Linked
<1>6. RunningUnlinkedBut(u, {})
  BY <1>1, <1>2, <1>5 DEF Coherent, RunningUnlinkedBut
<1> QED
  BY <1>1, <1>3, <1>4, <1>6 DEF Coherent, SameThreads, u

LEMMA ScheduleInsertFacts ==
  ASSUME NEW k \in KernelState, NEW t \in Thread,
         Coherent(k, {t}), ~Linked(k, t)
  PROVE  LET u == ScheduleInsert(k, t) IN
         /\ u \in KernelState
         /\ SameThreads(k, u)
         /\ u.stat = [k.stat EXCEPT ![t] = IF t = k.current THEN "RUNNING"
                                                           ELSE "READY"]
         /\ u.timer = k.timer /\ u.error = k.error /\ u.wait = k.wait
         /\ Coherent(u, {})
<1>1. CASE t = k.current
  <2> DEFINE v == SetStat(k, t, "RUNNING")
  <2>1. ScheduleInsert(k, t) = v
    BY <1>1 DEF ScheduleInsert
  <2>2. "RUNNING" \in Stat
    BY DEF Stat
  <2>3. /\ v \in KernelState
        /\ SameThreads(k, v)
        /\ v.stat = [k.stat EXCEPT ![t] = "RUNNING"]
        /\ v.timer = k.timer /\ v.error = k.error /\ v.wait = k.wait
        /\ Coherent(v, {})
    BY <1>1, <2>2, SetStatFacts
  <2> HIDE DEF v
  <2> QED
    BY <1>1, <2>1, <2>3
<1>2. CASE t # k.current
  <2> DEFINE u == ScheduleInsert(k, t)
             pr == k.prio[t]
  <2>1. pr \in Prio /\ k.ready \in [Prio -> Seq(Thread)] /\ k.ready[pr] \in Seq(Thread)
    BY DEF KernelState
  <2>2. /\ Append(k.ready[pr], t) \in Seq(Thread)
        /\ Append(k.ready[pr], t) # << >>
        /\ ToSet(Append(k.ready[pr], t)) = ToSet(k.ready[pr]) \cup {t}
        /\ IsInjective(Append(k.ready[pr], t))
    <3>1. IsInjective(k.ready[pr]) /\ t \notin ToSet(k.ready[pr])
      BY <2>1 DEF Coherent, SingleLinkage, Linked
    <3> QED
      BY <2>1, <3>1, ListAppend
  <2>3. u = [k EXCEPT !.stat[t] = "READY", !.ready[pr] = Append(@, t),
                      !.group = @ \cup {pr}]
    BY <1>2 DEF ScheduleInsert
  <2> HIDE DEF u
  <2>4. /\ u \in KernelState
        /\ u.stat = [k.stat EXCEPT ![t] = "READY"]
        /\ u.timer = k.timer /\ u.error = k.error /\ u.prio = k.prio
        /\ u.current = k.current /\ u.lock = k.lock /\ u.wait = k.wait
        /\ u.ready = [k.ready EXCEPT ![pr] = Append(k.ready[pr], t)]
        /\ u.group = k.group \cup {pr}
    BY <2>1, <2>2, <2>3 DEF KernelState, Stat
  <2>5. /\ \A x \in Thread : u.stat[x] = IF x = t THEN "READY" ELSE k.stat[x]
        /\ \A p \in Prio : u.ready[p] = IF p = pr THEN Append(k.ready[pr], t)
                                                  ELSE k.ready[p]
    BY <2>1, <2>4 DEF KernelState
  <2>6. \A p \in Prio : /\ ToSet(u.ready[p]) = IF p = pr THEN ToSet(k.ready[p]) \cup {t}
                                                       ELSE ToSet(k.ready[p])
                       /\ IsInjective(u.ready[p])
    BY <2>2, <2>5 DEF Coherent, SingleLinkage
  <2>7. /\ \A p \in Prio : t \notin ToSet(k.ready[p])
        /\ \A q \in Queue : t \notin ToSet(k.wait[q])
    BY DEF Linked
  <2>8. SingleLinkage(u)
    <3>1. SingleLinkage(k)
      BY DEF Coherent
    <3>2. \A p, r \in Prio : p # r => ToSet(u.ready[p]) \cap ToSet(u.ready[r]) = {}
      <4>1. ASSUME NEW p \in Prio, NEW r \in Prio, p # r
            PROVE  ToSet(k.ready[p]) \cap ToSet(k.ready[r]) = {}
        BY <3>1, <4>1 DEF SingleLinkage
      <4>2. \A p \in Prio : t \notin ToSet(k.ready[p])
        BY <2>7
      <4>3. \A p \in Prio : ToSet(u.ready[p]) = IF p = pr THEN ToSet(k.ready[p]) \cup {t}
                                                         ELSE ToSet(k.ready[p])
        BY <2>6
      <4>4. ASSUME NEW p \in Prio, NEW r \in Prio, p # r
            PROVE  ToSet(u.ready[p]) \cap ToSet(u.ready[r]) = {}
        <5>1. /\ ToSet(k.ready[p]) \cap ToSet(k.ready[r]) = {}
              /\ t \notin ToSet(k.ready[p]) /\ t \notin ToSet(k.ready[r])
          BY <4>1, <4>2, <4>4
        <5>2. CASE p = pr
          BY <4>3, <4>4, <5>1, <5>2
        <5>3. CASE p # pr
          BY <4>3, <4>4, <5>1, <5>3
        <5> QED
          BY <5>2, <5>3
      <4> QED
        BY <4>4
    <3>3. ASSUME NEW p \in Prio, NEW q \in Queue
          PROVE  ToSet(u.ready[p]) \cap ToSet(u.wait[q]) = {}
      <4>1. ToSet(k.ready[p]) \cap ToSet(k.wait[q]) = {} /\ t \notin ToSet(k.wait[q])
        BY <2>7, <3>1 DEF SingleLinkage
      <4>2. ToSet(u.ready[p]) \subseteq ToSet(k.ready[p]) \cup {t}
        BY <2>6
      <4> QED
        BY <2>4, <4>1, <4>2
    <3> QED
      BY <2>4, <2>6, <3>1, <3>2, <3>3 DEF SingleLinkage
  <2>9. BitmapExact(u)
    <3>1. \A p \in Prio : p \in u.group <=> u.ready[p] # << >>
      BY <2>2, <2>4, <2>5 DEF Coherent, BitmapExact
    <3>2. u.group \subseteq Prio
      BY <2>4 DEF KernelState
    <3> QED
      BY <3>1, <3>2 DEF BitmapExact
  <2>10. ReadyListed(u, {})
    <3>1. ASSUME NEW p \in Prio
          PROVE  ToSet(u.ready[p]) = {x \in Thread : u.stat[x] = "READY" /\ u.prio[x] = p}
      <4>1. ToSet(k.ready[p]) = {x \in Thread \ {t} : k.stat[x] = "READY" /\ k.prio[x] = p}
        BY DEF Coherent, ReadyListed
      <4>2. CASE p = pr
        <5>1. ToSet(u.ready[p]) = ToSet(k.ready[p]) \cup {t}
          BY <2>6, <4>2
        <5>2. \A x \in Thread \ {t} : u.stat[x] = k.stat[x] /\ u.prio[x] = k.prio[x]
          BY <2>4, <2>5
        <5>3. u.stat[t] = "READY" /\ u.prio[t] = p
          BY <2>4, <2>5, <4>2
        <5> HIDE DEF pr
        <5> QED
          BY <4>1, <5>1, <5>2, <5>3
      <4>3. CASE p # pr
        <5>1. ToSet(u.ready[p]) = ToSet(k.ready[p])
          BY <2>6, <4>3
        <5>2. \A x \in Thread \ {t} : u.stat[x] = k.stat[x] /\ u.prio[x] = k.prio[x]
          BY <2>4, <2>5
        <5>3. u.prio[t] # p
          BY <2>4, <4>3
        <5> HIDE DEF pr
        <5> QED
          BY <4>1, <5>1, <5>2, <5>3
      <4> QED
        BY <4>2, <4>3
    <3> QED
      BY <3>1 DEF ReadyListed
  <2>11. \A x \in Thread \ {t} : Linked(u, x) <=> Linked(k, x)
    BY <2>4, <2>6 DEF Linked
  <2>12. RunningUnlinkedBut(u, {})
    BY <2>4, <2>5, <2>11 DEF Coherent, RunningUnlinkedBut
  <2> QED
    BY <1>2, <2>4, <2>8, <2>9, <2>10, <2>12 DEF Coherent, SameThreads, u
<1> QED
  BY <1>1, <1>2

-----------------------------------------------------------------------------
(* The bitmap scan finds the most urgent priority with a ready thread. *)
LEMMA HighestReadyFacts ==
  ASSUME NEW g \in SUBSET Prio, g # {}
  PROVE  HighestReady(g) \in g /\ \A p \in g : HighestReady(g) <= p
<1>1. g \in SUBSET Nat
  BY KernelAssumption DEF Prio
<1> QED
  BY <1>1, LeastFacts DEF HighestReady

(* Removing a thread that waits nowhere leaves the wait lists alone. *)
LEMMA WaitUnchanged ==
  ASSUME NEW k \in KernelState, NEW u \in KernelState, NEW t,
         \A q \in Queue : u.wait[q] = Without(k.wait[q], t),
         \A q \in Queue : t \notin ToSet(k.wait[q])
  PROVE  u.wait = k.wait
<1>1. \A q \in Queue : u.wait[q] = k.wait[q]
  BY ListAbsent
<1> QED
  BY <1>1 DEF KernelState

(* The thread rt_schedule chooses leaves the ready list for the processor. *)
LEMMA DispatchFacts ==
  ASSUME NEW k \in KernelState, Coherent(k, {}),
         \A q \in Queue : k.current \notin ToSet(k.wait[q])
  PROVE  LET u == SetStat(ScheduleRemove(k, k.current), k.current, "RUNNING") IN
         /\ u \in KernelState
         /\ SameThreads(k, u)
         /\ u.stat = [k.stat EXCEPT ![k.current] = "RUNNING"]
         /\ u.timer = k.timer /\ u.error = k.error /\ u.wait = k.wait
         /\ Coherent(u, {})
<1> DEFINE t == k.current
           v == ScheduleRemove(k, t)
           u == SetStat(v, t, "RUNNING")
<1>1. t \in Thread
  BY DEF KernelState
<1>2. /\ v \in KernelState
      /\ SameThreads(k, v)
      /\ v.stat = k.stat /\ v.timer = k.timer /\ v.error = k.error
      /\ \A q \in Queue : /\ v.wait[q] = Without(k.wait[q], t)
                          /\ ToSet(v.wait[q]) = ToSet(k.wait[q]) \ {t}
      /\ Coherent(v, {t})
      /\ ~Linked(v, t)
  BY <1>1, ScheduleRemoveFacts
<1>3. v.wait = k.wait
  BY <1>2, WaitUnchanged
<1>4. "RUNNING" \in Stat /\ t = v.current
  BY <1>2 DEF Stat, SameThreads
<1> HIDE DEF v
<1>5. /\ u \in KernelState
      /\ SameThreads(v, u)
      /\ u.stat = [v.stat EXCEPT ![t] = "RUNNING"]
      /\ u.timer = v.timer /\ u.error = v.error /\ u.wait = v.wait
      /\ Coherent(u, {})
  BY <1>1, <1>2, <1>4, SetStatFacts
<1> HIDE DEF u
<1> QED
  BY <1>2, <1>3, <1>5 DEF SameThreads, u, v

(* rt_schedule keeps the queue coherent, moves threads only between READY  *)
(* and RUNNING, and does nothing while the scheduler is locked.            *)
Moves(k, s) == \A t \in Thread : s.stat[t] # k.stat[t] =>
                 {s.stat[t], k.stat[t]} \subseteq {"READY", "RUNNING"}

LEMMA ScheduleFacts ==
  ASSUME NEW k \in KernelState, Coherent(k, {})
  PROVE  LET s == Schedule(k) IN
         /\ s \in KernelState
         /\ s.prio = k.prio /\ s.lock = k.lock /\ s.timer = k.timer
         /\ s.error = k.error /\ s.wait = k.wait
         /\ Coherent(s, {})
         /\ Moves(k, s)
         /\ s.current # k.current => s.stat[s.current] = "RUNNING"
         /\ k.lock # 0 => s = k
<1> DEFINE cur     == k.current
           hp      == HighestReady(k.group)
           to      == Head(k.ready[hp])
           running == k.stat[cur] = "RUNNING"
           kto     == [k EXCEPT !.current = to]
           from    == IF running THEN ScheduleInsert(kto, cur) ELSE kto
           s       == Schedule(k)
<1>1. CASE k.lock # 0 \/ k.group = {}
  <2>1. s = k
    BY <1>1 DEF Schedule
  <2> QED
    BY <2>1 DEF Moves
<1>2. CASE ~(k.lock # 0 \/ k.group = {})
  <2>1. cur \in Thread /\ k.group \in SUBSET Prio
    BY DEF KernelState
  <2>2. hp \in Prio /\ hp \in k.group
    BY <1>2, <2>1, HighestReadyFacts
  <2>3. k.ready[hp] \in Seq(Thread) /\ k.ready[hp] # << >>
    BY <2>2 DEF KernelState, Coherent, BitmapExact
  <2>4. to \in ToSet(k.ready[hp]) /\ to \in Thread
    BY <2>3, ListEmpty
  <2>5. k.stat[to] = "READY" /\ \A q \in Queue : to \notin ToSet(k.wait[q])
    BY <2>2, <2>4, ReadyOnlyThere
  <2>6. running => ~Linked(k, cur)
    BY <2>1 DEF Coherent, RunningUnlinkedBut
  <2>7. s = IF to = cur \/ (running /\ k.prio[cur] < hp)
            THEN SetStat(ScheduleRemove(k, cur), cur, "RUNNING")
            ELSE SetStat(ScheduleRemove(from, to), to, "RUNNING")
    BY <1>2 DEF Schedule
  <2> HIDE DEF hp, to
  <2>8. CASE to = cur \/ (running /\ k.prio[cur] < hp)
    <3> DEFINE v == SetStat(ScheduleRemove(k, cur), cur, "RUNNING")
    <3>1. s = v
      BY <2>7, <2>8
    <3>2. \A q \in Queue : cur \notin ToSet(k.wait[q])
      BY <2>5, <2>6, <2>8 DEF Linked
    <3>3. /\ v \in KernelState
          /\ SameThreads(k, v)
          /\ v.stat = [k.stat EXCEPT ![cur] = "RUNNING"]
          /\ v.timer = k.timer /\ v.error = k.error /\ v.wait = k.wait
          /\ Coherent(v, {})
      BY <3>2, DispatchFacts
    <3>4. k.stat[cur] \in {"READY", "RUNNING"}
      BY <2>5, <2>8
    <3> HIDE DEF v, s
    <3>5. Moves(k, v)
      BY <2>1, <3>3, <3>4 DEF Moves, KernelState
    <3> QED
      BY <1>2, <3>1, <3>3, <3>5 DEF SameThreads, s
  <2>9. CASE ~(to = cur \/ (running /\ k.prio[cur] < hp))
    <3> DEFINE v == SetStat(ScheduleRemove(from, to), to, "RUNNING")
    <3>1. s = v
      BY <2>7, <2>9
    <3>2. /\ kto \in KernelState
          /\ kto.stat = k.stat /\ kto.prio = k.prio /\ kto.lock = k.lock
          /\ kto.timer = k.timer /\ kto.error = k.error /\ kto.wait = k.wait
          /\ kto.ready = k.ready /\ kto.group = k.group /\ kto.current = to
      BY <2>4 DEF KernelState
    <3> HIDE DEF kto
    <3>3. SingleLinkage(kto) /\ BitmapExact(kto)
      BY <3>2 DEF Coherent, SingleLinkage, BitmapExact
    <3>4. \A D : ReadyListed(k, D) => ReadyListed(kto, D)
      BY <3>2 DEF ReadyListed
    <3>5. \A x \in Thread : Linked(kto, x) <=> Linked(k, x)
      BY <3>2 DEF Linked
    <3>6. \A x \in Thread : k.stat[x] = "RUNNING" => x = cur
      BY DEF Coherent, RunningUnlinkedBut
    <3>7. /\ from \in KernelState
          /\ from.prio = k.prio /\ from.lock = k.lock /\ from.timer = k.timer
          /\ from.error = k.error /\ from.wait = k.wait /\ from.current = to
          /\ from.stat = IF running THEN [k.stat EXCEPT ![cur] = "READY"] ELSE k.stat
          /\ Coherent(from, {})
      <4>1. CASE running
        <5> DEFINE w == ScheduleInsert(kto, cur)
        <5>1. ReadyListed(k, {cur})
          BY <2>1, <4>1 DEF Coherent, ReadyListed
        <5>2. Coherent(kto, {cur})
          BY <3>2, <3>3, <3>4, <3>6, <5>1 DEF Coherent, RunningUnlinkedBut
        <5>3. ~Linked(kto, cur)
          BY <2>1, <2>6, <3>5, <4>1
        <5>4. /\ w \in KernelState
              /\ SameThreads(kto, w)
              /\ w.stat = [kto.stat EXCEPT ![cur] = IF cur = kto.current
                                                    THEN "RUNNING" ELSE "READY"]
              /\ w.timer = kto.timer /\ w.error = kto.error /\ w.wait = kto.wait
              /\ Coherent(w, {})
          BY <2>1, <3>2, <5>2, <5>3, ScheduleInsertFacts
        <5>5. from = w
          BY <4>1
        <5> HIDE DEF w
        <5> QED
          BY <2>9, <3>2, <4>1, <5>4, <5>5 DEF SameThreads
      <4>2. CASE ~running
        <5>1. from = kto
          BY <4>2
        <5>2. Coherent(kto, {})
          BY <3>2, <3>3, <3>4, <3>6, <4>2 DEF Coherent, RunningUnlinkedBut
        <5> QED
          BY <3>2, <4>2, <5>1, <5>2
      <4> QED
        BY <4>1, <4>2
    <3> HIDE DEF from
    <3>8. /\ v \in KernelState
          /\ SameThreads(from, v)
          /\ v.stat = [from.stat EXCEPT ![to] = "RUNNING"]
          /\ v.timer = from.timer /\ v.error = from.error /\ v.wait = from.wait
          /\ Coherent(v, {})
      BY <2>5, <3>7, DispatchFacts
    <3> HIDE DEF v
    <3>9. \A x \in Thread :
            v.stat[x] = IF x = to THEN "RUNNING"
                        ELSE IF x = cur /\ running THEN "READY" ELSE k.stat[x]
      <4>1. \A x \in Thread :
              from.stat[x] = IF x = cur /\ running THEN "READY" ELSE k.stat[x]
        BY <2>1, <3>7 DEF KernelState
      <4>2. \A x \in Thread : v.stat[x] = IF x = to THEN "RUNNING" ELSE from.stat[x]
        BY <2>4, <3>7, <3>8 DEF KernelState
      <4> QED
        BY <4>1, <4>2
    <3>10. Moves(k, v)
      BY <2>5, <3>9 DEF Moves
    <3>11. v.current = to /\ v.stat[to] = "RUNNING"
      BY <2>4, <3>7, <3>8, <3>9 DEF SameThreads
    <3> QED
      BY <1>2, <3>1, <3>7, <3>8, <3>10, <3>11 DEF SameThreads
  <2> QED
    BY <2>8, <2>9
<1> QED
  BY <1>1, <1>2

-----------------------------------------------------------------------------
(* A thread that stops being scheduled: rt_thread_suspend, rt_thread_exit. *)
LEMMA RetireFacts ==
  ASSUME NEW k \in KernelState, NEW t \in Thread, NEW s \in {"SUSPEND", "CLOSE"},
         Coherent(k, {})
  PROVE  LET u == [ScheduleRemove(k, t) EXCEPT !.stat[t] = s, !.timer[t] = FALSE] IN
         /\ u \in KernelState
         /\ SameThreads(k, u)
         /\ u.stat = [k.stat EXCEPT ![t] = s]
         /\ u.timer = [k.timer EXCEPT ![t] = FALSE] /\ u.error = k.error
         /\ \A q \in Queue : ToSet(u.wait[q]) = ToSet(k.wait[q]) \ {t}
         /\ Coherent(u, {})
         /\ ~Linked(u, t)
<1> DEFINE v == ScheduleRemove(k, t)
           w == SetStat(v, t, s)
           u == [v EXCEPT !.stat[t] = s, !.timer[t] = FALSE]
<1>1. /\ v \in KernelState
      /\ SameThreads(k, v)
      /\ v.stat = k.stat /\ v.timer = k.timer /\ v.error = k.error
      /\ \A q \in Queue : ToSet(v.wait[q]) = ToSet(k.wait[q]) \ {t}
      /\ Coherent(v, {t})
      /\ ~Linked(v, t)
  BY ScheduleRemoveFacts
<1> HIDE DEF v
<1>2. s \in Stat
  BY DEF Stat
<1>3. w \in KernelState /\ Coherent(w, {})
  BY <1>1, <1>2, SetStatFacts
<1>4. /\ u \in KernelState
      /\ u.stat = [v.stat EXCEPT ![t] = s]
      /\ u.timer = [v.timer EXCEPT ![t] = FALSE] /\ u.error = v.error
      /\ u.prio = v.prio /\ u.current = v.current /\ u.lock = v.lock
      /\ u.ready = v.ready /\ u.wait = v.wait /\ u.group = v.group
      /\ u.stat = w.stat /\ u.prio = w.prio /\ u.current = w.current
      /\ u.ready = w.ready /\ u.wait = w.wait /\ u.group = w.group
  BY <1>1, <1>2 DEF KernelState, SetStat
<1> HIDE DEF u, w
<1>5. Coherent(u, {})
  BY <1>3, <1>4, CoherentFrame
<1>6. ~Linked(u, t)
  BY <1>1, <1>4 DEF Linked
<1> QED
  BY <1>1, <1>4, <1>5, <1>6 DEF SameThreads, u, v

(* A thread that is neither READY nor RUNNING leaves the lists and its     *)
(* timer: rt_thread_resume and rt_thread_timeout before they insert it.    *)
Released(k, t, e) ==
  [Unlink(k, t) EXCEPT !.timer[t] = FALSE, !.error[t] = e]

Releases(k, u, t, e) ==
  /\ u \in KernelState
  /\ SameThreads(k, u)
  /\ u.stat = k.stat
  /\ u.timer = [k.timer EXCEPT ![t] = FALSE]
  /\ u.error = [k.error EXCEPT ![t] = e]
  /\ \A q \in Queue : ToSet(u.wait[q]) = ToSet(k.wait[q]) \ {t}
  /\ Coherent(u, {})
  /\ ~Linked(u, t)

LEMMA ReleasedFacts ==
  ASSUME NEW k \in KernelState, NEW t \in Thread, NEW e \in Errno,
         Coherent(k, {}), k.stat[t] \notin {"READY", "RUNNING"}
  PROVE  Releases(k, Released(k, t, e), t, e)
<1> DEFINE v == Unlink(k, t)
           u == Released(k, t, e)
<1>1. /\ v \in KernelState
      /\ SameThreads(k, v)
      /\ v.stat = k.stat /\ v.timer = k.timer /\ v.error = k.error
      /\ v.group = k.group
      /\ \A p \in Prio : /\ v.ready[p] = Without(k.ready[p], t)
                         /\ ToSet(v.ready[p]) = ToSet(k.ready[p]) \ {t}
      /\ \A q \in Queue : ToSet(v.wait[q]) = ToSet(k.wait[q]) \ {t}
      /\ SingleLinkage(v)
  BY UnlinkFacts DEF Coherent
<1>2. u = [v EXCEPT !.timer[t] = FALSE, !.error[t] = e]
  BY DEF Released
<1> HIDE DEF u, v
<1>3. /\ u \in KernelState
      /\ u.stat = v.stat
      /\ u.timer = [v.timer EXCEPT ![t] = FALSE]
      /\ u.error = [v.error EXCEPT ![t] = e]
      /\ u.prio = v.prio /\ u.current = v.current /\ u.lock = v.lock
      /\ u.ready = v.ready /\ u.wait = v.wait /\ u.group = v.group
  BY <1>1, <1>2 DEF KernelState
<1>4. \A p \in Prio : u.ready[p] = k.ready[p]
  <2>1. \A p \in Prio : t \notin ToSet(k.ready[p])
    BY DEF Coherent, ReadyListed
  <2> QED
    BY <1>1, <1>3, <2>1, ListAbsent
<1>5. SingleLinkage(u)
  BY <1>1, <1>3 DEF SingleLinkage
<1>6. BitmapExact(u) /\ ReadyListed(u, {})
  BY <1>1, <1>3, <1>4 DEF Coherent, BitmapExact, ReadyListed, SameThreads
<1>7. \A x \in Thread : Linked(u, x) => Linked(k, x) /\ x # t
  <2>1. /\ \A p \in Prio : ToSet(u.ready[p]) = ToSet(k.ready[p]) \ {t}
        /\ \A q \in Queue : ToSet(u.wait[q]) = ToSet(k.wait[q]) \ {t}
    BY <1>1, <1>3
  <2> QED
    BY <2>1 DEF Linked
<1>8. RunningUnlinkedBut(u, {})
  BY <1>1, <1>3, <1>7 DEF Coherent, RunningUnlinkedBut, SameThreads
<1> QED
  BY <1>1, <1>3, <1>5, <1>6, <1>7, <1>8 DEF Releases, Coherent, SameThreads, u

LEMMA ResumeUnlinkFacts ==
  ASSUME NEW k \in KernelState, NEW t \in Thread,
         Coherent(k, {}), k.stat[t] \notin {"READY", "RUNNING"}
  PROVE  LET u == ResumeUnlink(k, t) IN
         /\ u \in KernelState
         /\ SameThreads(k, u)
         /\ u.stat = k.stat /\ u.error = k.error
         /\ u.timer = [k.timer EXCEPT ![t] = FALSE]
         /\ \A q \in Queue : ToSet(u.wait[q]) = ToSet(k.wait[q]) \ {t}
         /\ Coherent(u, {})
         /\ ~Linked(u, t)
<1> DEFINE u == Released(k, t, k.error[t])
<1>1. k.error[t] \in Errno
  BY DEF KernelState
<1>2. Releases(k, u, t, k.error[t])
  BY <1>1, ReleasedFacts
<1>3. u.error = k.error
  BY <1>2 DEF Releases, KernelState
<1>4. Unlink(k, t) \in KernelState /\ Unlink(k, t).error = k.error
  BY UnlinkFacts DEF Coherent
<1>5. ResumeUnlink(k, t) = u
  BY <1>4 DEF ResumeUnlink, Released, KernelState
<1> HIDE DEF u
<1> QED
  BY <1>2, <1>3, <1>5 DEF Releases

(* What waking t does, whether or not a reschedule follows. *)
Woken(k, s, t) ==
  /\ s.prio = k.prio /\ s.lock = k.lock
  /\ s.timer = [k.timer EXCEPT ![t] = FALSE]
  /\ \A q \in Queue : ToSet(s.wait[q]) = ToSet(k.wait[q]) \ {t}
  /\ s.stat[t] \in {"READY", "RUNNING"}
  /\ \A x \in Thread \ {t} : s.stat[x] # k.stat[x] =>
       {s.stat[x], k.stat[x]} \subseteq {"READY", "RUNNING"}
  /\ s.current # k.current => s.stat[s.current] = "RUNNING"

(* Waking a thread that is linked nowhere and whose timer is stopped. *)
LEMMA InsertWakes ==
  ASSUME NEW k \in KernelState, NEW u \in KernelState, NEW t \in Thread,
         Coherent(u, {}), ~Linked(u, t), u.stat[t] \notin {"READY", "RUNNING"},
         SameThreads(k, u), u.stat = k.stat,
         u.timer = [k.timer EXCEPT ![t] = FALSE],
         \A q \in Queue : ToSet(u.wait[q]) = ToSet(k.wait[q]) \ {t}
  PROVE  LET v == ScheduleInsert(u, t)
         IN  /\ v \in KernelState /\ Coherent(v, {})
             /\ Woken(k, v, t)
             /\ v.error = u.error
             /\ SameThreads(k, v)
<1> DEFINE v == ScheduleInsert(u, t)
<1>1. Coherent(u, {t})
  BY CoherentWeaken
<1>2. /\ v \in KernelState
      /\ SameThreads(u, v)
      /\ v.stat = [u.stat EXCEPT ![t] = IF t = u.current THEN "RUNNING" ELSE "READY"]
      /\ v.timer = u.timer /\ v.error = u.error /\ v.wait = u.wait
      /\ Coherent(v, {})
  BY <1>1, ScheduleInsertFacts
<1> HIDE DEF v
<1>3. /\ v.stat[t] \in {"READY", "RUNNING"}
      /\ \A x \in Thread \ {t} : v.stat[x] = k.stat[x]
  BY <1>2 DEF KernelState
<1> QED
  BY <1>2, <1>3 DEF Woken, SameThreads, v

(* A reschedule does not undo it. *)
LEMMA ScheduleKeepsWoken ==
  ASSUME NEW k \in KernelState, NEW v \in KernelState, NEW t \in Thread,
         Coherent(v, {}), Woken(k, v, t), v.current = k.current
  PROVE  LET s == Schedule(v)
         IN  /\ s \in KernelState /\ Coherent(s, {}) /\ Woken(k, s, t)
             /\ s.error = v.error
<1> DEFINE s == Schedule(v)
<1>1. /\ s \in KernelState
      /\ s.prio = v.prio /\ s.lock = v.lock /\ s.timer = v.timer
      /\ s.wait = v.wait /\ s.error = v.error
      /\ Coherent(s, {})
      /\ Moves(v, s)
      /\ s.current # v.current => s.stat[s.current] = "RUNNING"
  BY ScheduleFacts
<1> HIDE DEF s
<1>2. s.stat[t] \in {"READY", "RUNNING"}
  BY <1>1 DEF Moves, Woken
<1>3. \A x \in Thread \ {t} : s.stat[x] # k.stat[x] =>
        {s.stat[x], k.stat[x]} \subseteq {"READY", "RUNNING"}
  BY <1>1 DEF Moves, Woken
<1> QED
  BY <1>1, <1>2, <1>3 DEF Woken, s

LEMMA ThreadResumeFacts ==
  ASSUME NEW k \in KernelState, NEW t \in Thread, Coherent(k, {}),
         k.stat[t] = "SUSPEND"
  PROVE  LET v == ThreadResume(k, t)
         IN  /\ v \in KernelState /\ Coherent(v, {})
             /\ Woken(k, v, t)
             /\ v.error = k.error
             /\ SameThreads(k, v)
<1> DEFINE u == ResumeUnlink(k, t)
<1>1. /\ u \in KernelState
      /\ SameThreads(k, u)
      /\ u.stat = k.stat /\ u.error = k.error
      /\ u.timer = [k.timer EXCEPT ![t] = FALSE]
      /\ \A q \in Queue : ToSet(u.wait[q]) = ToSet(k.wait[q]) \ {t}
      /\ Coherent(u, {})
      /\ ~Linked(u, t)
  BY ResumeUnlinkFacts
<1>2. ThreadResume(k, t) = ScheduleInsert(u, t)
  BY DEF ThreadResume
<1> HIDE DEF u
<1> DEFINE v == ScheduleInsert(u, t)
<1>3. /\ v \in KernelState /\ Coherent(v, {})
      /\ Woken(k, v, t)
      /\ v.error = u.error
      /\ SameThreads(k, v)
  BY <1>1, InsertWakes
<1> HIDE DEF v
<1> QED
  BY <1>1, <1>2, <1>3 DEF v

LEMMA ThreadTimeoutFacts ==
  ASSUME NEW k \in KernelState, NEW t \in Thread, Coherent(k, {}),
         k.stat[t] = "SUSPEND"
  PROVE  LET s == ThreadTimeout(k, t)
         IN  /\ s \in KernelState /\ Coherent(s, {}) /\ Woken(k, s, t)
             /\ s.error = [k.error EXCEPT ![t] = "ETIMEOUT"]
<1> DEFINE u == Released(k, t, "ETIMEOUT")
           v == ScheduleInsert(u, t)
<1>1. "ETIMEOUT" \in Errno /\ k.stat[t] \notin {"READY", "RUNNING"}
  BY DEF Errno
<1> HIDE DEF v
<1>2. /\ u \in KernelState
      /\ SameThreads(k, u)
      /\ u.stat = k.stat
      /\ u.timer = [k.timer EXCEPT ![t] = FALSE]
      /\ u.error = [k.error EXCEPT ![t] = "ETIMEOUT"]
      /\ \A q \in Queue : ToSet(u.wait[q]) = ToSet(k.wait[q]) \ {t}
      /\ Coherent(u, {})
      /\ ~Linked(u, t)
  <2> DEFINE e == "ETIMEOUT"
  <2>1. e \in Errno /\ k.stat[t] \notin {"READY", "RUNNING"}
    BY <1>1
  <2> HIDE DEF e
  <2>2. Releases(k, Released(k, t, e), t, e)
    BY <2>1, ReleasedFacts
  <2> QED
    BY <2>2 DEF Releases, e
<1> USE DEF v
<1>3. ThreadTimeout(k, t) = Schedule(v)
  BY DEF ThreadTimeout, Released
<1> HIDE DEF u
<1>4. /\ v \in KernelState /\ Coherent(v, {}) /\ Woken(k, v, t)
      /\ SameThreads(k, v) /\ v.error = u.error
  <2>1. /\ u \in KernelState /\ Coherent(u, {}) /\ ~Linked(u, t)
        /\ u.stat[t] \notin {"READY", "RUNNING"}
        /\ SameThreads(k, u) /\ u.stat = k.stat
        /\ u.timer = [k.timer EXCEPT ![t] = FALSE]
        /\ \A q \in Queue : ToSet(u.wait[q]) = ToSet(k.wait[q]) \ {t}
    BY <1>1, <1>2
  <2> QED
    BY <2>1, InsertWakes
<1>5. v.current = k.current
  BY <1>4 DEF SameThreads
<1> HIDE DEF v
<1> DEFINE s == Schedule(v)
<1>6. /\ s \in KernelState /\ Coherent(s, {}) /\ Woken(k, s, t)
      /\ s.error = v.error
  BY <1>4, <1>5, ScheduleKeepsWoken
<1> HIDE DEF s
<1> QED
  BY <1>2, <1>3, <1>4, <1>6 DEF s

(* A change of priority moves a ready thread, and nothing else. *)
LEMMA ChangePriorityFacts ==
  ASSUME NEW k \in KernelState, NEW t \in Thread, NEW p \in Prio, Coherent(k, {})
  PROVE  LET u == ChangePriority(k, t, p) IN
         /\ u \in KernelState /\ Coherent(u, {})
         /\ u.current = k.current /\ u.lock = k.lock /\ u.timer = k.timer
         /\ u.error = k.error /\ u.wait = k.wait
         /\ Moves(k, u)
<1> DEFINE u == ChangePriority(k, t, p)
<1>1. CASE k.stat[t] = "READY"
  <2> DEFINE v == ScheduleRemove(k, t)
             w == [v EXCEPT !.prio[t] = p]
  <2>1. /\ v \in KernelState
        /\ SameThreads(k, v)
        /\ v.stat = k.stat /\ v.timer = k.timer /\ v.error = k.error
        /\ \A q \in Queue : v.wait[q] = Without(k.wait[q], t)
        /\ Coherent(v, {t})
        /\ ~Linked(v, t)
    BY ScheduleRemoveFacts
  <2>2. \A q \in Queue : t \notin ToSet(k.wait[q])
    <3>1. k.prio[t] \in Prio
      BY DEF KernelState
    <3>2. t \in ToSet(k.ready[k.prio[t]])
      BY <1>1, <3>1 DEF Coherent, ReadyListed
    <3> QED
      BY <3>1, <3>2, ReadyOnlyThere
  <2>3. v.wait = k.wait
    BY <2>1, <2>2, WaitUnchanged
  <2>4. u = ScheduleInsert(w, t)
    BY <1>1 DEF ChangePriority
  <2> HIDE DEF v
  <2>5. /\ w \in KernelState
        /\ w.stat = v.stat /\ w.timer = v.timer /\ w.error = v.error
        /\ w.prio = [v.prio EXCEPT ![t] = p]
        /\ w.current = v.current /\ w.lock = v.lock
        /\ w.ready = v.ready /\ w.wait = v.wait /\ w.group = v.group
    BY <2>1 DEF KernelState
  <2> HIDE DEF w
  <2>6. Coherent(w, {t})
    <3>1. SingleLinkage(w) /\ BitmapExact(w)
      <4>1. SingleLinkage(v) /\ BitmapExact(v)
        BY <2>1 DEF Coherent
      <4>2. SingleLinkage(w)
        BY <2>5, <4>1 DEF SingleLinkage
      <4>3. BitmapExact(w)
        BY <2>5, <4>1 DEF BitmapExact
      <4> QED
        BY <4>2, <4>3
    <3>2. \A x \in Thread \ {t} : w.prio[x] = v.prio[x]
      BY <2>1, <2>5 DEF KernelState
    <3>3. ReadyListed(w, {t})
      BY <2>1, <2>5, <3>2 DEF Coherent, ReadyListed
    <3>4. RunningUnlinkedBut(w, {t})
      BY <2>1, <2>5 DEF Coherent, RunningUnlinkedBut, Linked
    <3> QED
      BY <3>1, <3>3, <3>4 DEF Coherent
  <2>7. ~Linked(w, t)
    BY <2>1, <2>5 DEF Linked
  <2> DEFINE r == ScheduleInsert(w, t)
  <2>8. /\ r \in KernelState
        /\ SameThreads(w, r)
        /\ r.stat = [w.stat EXCEPT ![t] = IF t = w.current THEN "RUNNING" ELSE "READY"]
        /\ r.timer = w.timer /\ r.error = w.error /\ r.wait = w.wait
        /\ Coherent(r, {})
    BY <2>5, <2>6, <2>7, ScheduleInsertFacts
  <2> HIDE DEF r
  <2>9. Moves(k, r)
    BY <1>1, <2>1, <2>5, <2>8 DEF Moves, KernelState
  <2> HIDE DEF u
  <2>10. u = r
    BY <2>4 DEF r
  <2> QED
    BY <2>1, <2>3, <2>5, <2>8, <2>9, <2>10 DEF SameThreads, u
<1>2. CASE k.stat[t] # "READY"
  <2>1. u = [k EXCEPT !.prio[t] = p]
    BY <1>2 DEF ChangePriority
  <2> HIDE DEF u
  <2>2. /\ u \in KernelState
        /\ u.stat = k.stat /\ u.timer = k.timer /\ u.error = k.error
        /\ \A x \in Thread \ {t} : u.prio[x] = k.prio[x]
        /\ u.current = k.current /\ u.lock = k.lock
        /\ u.ready = k.ready /\ u.wait = k.wait /\ u.group = k.group
    BY <2>1 DEF KernelState
  <2>3. Coherent(u, {})
    BY <1>2, <2>2, CoherentFrame
  <2> QED
    BY <2>2, <2>3 DEF Moves, u
<1> QED
  BY <1>1, <1>2

LEMMA ChangePriorityPrio ==
  ASSUME NEW k \in KernelState, NEW t \in Thread, NEW p \in Prio, Coherent(k, {})
  PROVE  ChangePriority(k, t, p).prio = [k.prio EXCEPT ![t] = p]
<1> DEFINE v == ScheduleRemove(k, t)
           w == [v EXCEPT !.prio[t] = p]
<1>1. v \in KernelState /\ v.prio = k.prio
  BY ScheduleRemoveFacts DEF SameThreads
<1> HIDE DEF v
<1>2. w \in KernelState /\ w.prio = [k.prio EXCEPT ![t] = p]
  BY <1>1 DEF KernelState
<1>3. ScheduleInsert(w, t).prio = w.prio
  <2> HIDE DEF w
  <2> QED
    BY <1>2 DEF ScheduleInsert, SetStat, KernelState
<1>4. ChangePriority(k, t, p) = IF k.stat[t] = "READY" THEN ScheduleInsert(w, t)
                                                       ELSE [k EXCEPT !.prio[t] = p]
  BY DEF ChangePriority, v
<1>5. [k EXCEPT !.prio[t] = p].prio = [k.prio EXCEPT ![t] = p]
  BY DEF KernelState
<1> HIDE DEF w
<1> QED
  BY <1>2, <1>3, <1>4, <1>5

-----------------------------------------------------------------------------
(* A thread enters a wait list. *)
(* w is the list q of k with t, which no list links, in some place of it. *)
Enters(k, q, t, w) ==
  /\ q \in Queue /\ t \in Thread /\ ~Linked(k, t) /\ k.stat[t] # "RUNNING"
  /\ w \in Seq(Thread) /\ ToSet(w) = ToSet(k.wait[q]) \cup {t} /\ IsInjective(w)

Enlist(k, q, w) == [k EXCEPT !.wait[q] = w]

LEMMA EnlistFacts ==
  ASSUME NEW k \in KernelState, Coherent(k, {}), NEW q, NEW t, NEW w,
         Enters(k, q, t, w)
  PROVE  LET u == Enlist(k, q, w) IN
         /\ u \in KernelState /\ Coherent(u, {})
         /\ SameThreads(k, u)
         /\ u.stat = k.stat /\ u.timer = k.timer /\ u.error = k.error
         /\ ToSet(u.wait[q]) = ToSet(k.wait[q]) \cup {t}
         /\ \A r \in Queue \ {q} : u.wait[r] = k.wait[r]
<1> USE DEF Enters
<1> DEFINE u == Enlist(k, q, w)
<1>1. /\ u \in KernelState
      /\ u.stat = k.stat /\ u.timer = k.timer /\ u.error = k.error
      /\ u.prio = k.prio /\ u.current = k.current /\ u.lock = k.lock
      /\ u.ready = k.ready /\ u.group = k.group
      /\ \A r \in Queue : u.wait[r] = IF r = q THEN w ELSE k.wait[r]
  BY DEF KernelState, Enlist
<1> HIDE DEF u
<1>2. \A r \in Queue : /\ ToSet(u.wait[r]) = IF r = q THEN ToSet(k.wait[r]) \cup {t}
                                                  ELSE ToSet(k.wait[r])
                      /\ IsInjective(u.wait[r])
  BY <1>1 DEF Coherent, SingleLinkage
<1>3. /\ \A p \in Prio : t \notin ToSet(k.ready[p])
      /\ \A r \in Queue : t \notin ToSet(k.wait[r])
  BY DEF Linked
<1>4. SingleLinkage(u)
  <2>1. SingleLinkage(k)
    BY DEF Coherent
  <2>2. ASSUME NEW r \in Queue, NEW v \in Queue, r # v
        PROVE  ToSet(u.wait[r]) \cap ToSet(u.wait[v]) = {}
    <3>1. /\ ToSet(k.wait[r]) \cap ToSet(k.wait[v]) = {}
          /\ t \notin ToSet(k.wait[r]) /\ t \notin ToSet(k.wait[v])
      BY <1>3, <2>1, <2>2 DEF SingleLinkage
    <3>2. r # q \/ v # q
      BY <2>2
    <3> QED
      BY <1>2, <3>1, <3>2
  <2>3. ASSUME NEW p \in Prio, NEW r \in Queue
        PROVE  ToSet(u.ready[p]) \cap ToSet(u.wait[r]) = {}
    <3>1. ToSet(k.ready[p]) \cap ToSet(k.wait[r]) = {} /\ t \notin ToSet(k.ready[p])
      BY <1>3, <2>1 DEF SingleLinkage
    <3>2. ToSet(u.wait[r]) \subseteq ToSet(k.wait[r]) \cup {t}
      BY <1>2
    <3> QED
      BY <1>1, <3>1, <3>2
  <2> QED
    BY <1>1, <1>2, <2>1, <2>2, <2>3 DEF SingleLinkage
<1>5. ReadyListed(u, {}) /\ BitmapExact(u)
  BY <1>1 DEF Coherent, ReadyListed, BitmapExact
<1>6. \A x \in Thread \ {t} : Linked(u, x) <=> Linked(k, x)
  BY <1>1, <1>2 DEF Linked
<1>7. RunningUnlinkedBut(u, {})
  BY <1>1, <1>6 DEF Coherent, RunningUnlinkedBut
<1> QED
  BY <1>1, <1>2, <1>4, <1>5, <1>7 DEF Coherent, SameThreads, u
-----------------------------------------------------------------------------
(* Threads that wait, in a system whose threads neither start nor end. *)
Sound(k) == /\ k \in KernelState
            /\ Coherent(k, {}) /\ TimedSuspended(k)
            /\ k.lock = 0
            /\ \A t \in Thread : k.stat[t] \in {"READY", "RUNNING", "SUSPEND"}
            /\ k.stat[Idle] # "SUSPEND"

(* Nobody is suspended, woken, or moved in a wait list. *)
Calm(k, s) ==
  /\ s.wait = k.wait /\ s.timer = k.timer
  /\ \A y \in Thread : s.stat[y] = "SUSPEND" <=> k.stat[y] = "SUSPEND"
  /\ s.current # k.current => s.stat[s.current] # "SUSPEND"

(* Only t is woken, and leaves the list it waits in. *)
Wakes(k, s, t) ==
  /\ \A q \in Queue : ToSet(s.wait[q]) = ToSet(k.wait[q]) \ {t}
  /\ s.stat[t] # "SUSPEND" /\ s.timer = [k.timer EXCEPT ![t] = FALSE]
  /\ \A y \in Thread \ {t} : s.stat[y] = "SUSPEND" <=> k.stat[y] = "SUSPEND"
  /\ s.current # k.current => s.stat[s.current] # "SUSPEND"

(* Only t is suspended. *)
Suspends(k, s, t) ==
  /\ s.current = k.current /\ s.error = k.error
  /\ s.timer = [k.timer EXCEPT ![t] = FALSE]
  /\ s.stat[t] = "SUSPEND"
  /\ \A y \in Thread \ {t} : s.stat[y] = "SUSPEND" <=> k.stat[y] = "SUSPEND"

(* Only t moves: into the list q. *)
Joins(k, s, t, q) ==
  /\ ToSet(s.wait[q]) = ToSet(k.wait[q]) \cup {t}
  /\ \A r \in Queue \ {q} : ToSet(s.wait[r]) = ToSet(k.wait[r]) \ {t}
-----------------------------------------------------------------------------
(* thread->error is written. *)
LEMMA ErrorFacts ==
  ASSUME NEW k \in KernelState, Sound(k), NEW t \in Thread, NEW e \in Errno
  PROVE  LET s == [k EXCEPT !.error[t] = e] IN
         /\ Sound(s) /\ Calm(k, s)
         /\ s.current = k.current /\ s.prio = k.prio /\ s.stat = k.stat
         /\ s.timer = k.timer
         /\ s.error = [k.error EXCEPT ![t] = e]
<1> DEFINE s == [k EXCEPT !.error[t] = e]
<1>1. /\ s \in KernelState
      /\ s.stat = k.stat /\ s.prio = k.prio /\ s.current = k.current
      /\ s.ready = k.ready /\ s.wait = k.wait /\ s.group = k.group
      /\ s.timer = k.timer /\ s.lock = k.lock
      /\ s.error = [k.error EXCEPT ![t] = e]
  BY DEF KernelState
<1> HIDE DEF s
<1>2. Coherent(s, {})
  BY <1>1, CoherentFrame DEF Sound
<1>3. TimedSuspended(s)
  BY <1>1 DEF Sound, TimedSuspended
<1> QED
  BY <1>1, <1>2, <1>3 DEF Sound, Calm, s

(* The thread's timer is started: it is suspended. *)
LEMMA TimerStartFacts ==
  ASSUME NEW k \in KernelState, Sound(k), NEW t \in Thread, k.stat[t] = "SUSPEND"
  PROVE  LET s == TimerStart(k, t) IN
         /\ Sound(s)
         /\ s.current = k.current /\ s.stat = k.stat
         /\ s.wait = k.wait /\ s.error = k.error
         /\ s.timer = [k.timer EXCEPT ![t] = TRUE]
<1> DEFINE s == TimerStart(k, t)
<1>1. /\ s \in KernelState
      /\ s.stat = k.stat /\ s.prio = k.prio /\ s.current = k.current
      /\ s.ready = k.ready /\ s.wait = k.wait /\ s.group = k.group
      /\ s.error = k.error /\ s.lock = k.lock
      /\ s.timer = [k.timer EXCEPT ![t] = TRUE]
  BY DEF TimerStart, KernelState
<1> HIDE DEF s
<1>2. Coherent(s, {})
  BY <1>1, CoherentFrame DEF Sound
<1>3. TimedSuspended(s)
  <2>1. \A y \in Thread : y # t => s.timer[y] = k.timer[y]
    BY <1>1 DEF KernelState
  <2> QED
    BY <1>1, <2>1 DEF Sound, TimedSuspended
<1> QED
  BY <1>1, <1>2, <1>3 DEF Sound, s

(* rt_schedule; a suspended thread leaves the processor, since the idle    *)
(* thread never is.                                                        *)
LEMMA ScheduleCalm ==
  ASSUME NEW k \in KernelState, Sound(k)
  PROVE  LET s == Schedule(k) IN
         /\ Sound(s) /\ Calm(k, s)
         /\ s.prio = k.prio /\ s.error = k.error
         /\ k.stat[k.current] = "SUSPEND" => s.current # k.current
<1> DEFINE s == Schedule(k)
           cur == k.current
           hp  == HighestReady(k.group)
           to  == Head(k.ready[hp])
<1>1. /\ s \in KernelState
      /\ s.prio = k.prio /\ s.lock = k.lock /\ s.timer = k.timer
      /\ s.error = k.error /\ s.wait = k.wait
      /\ Coherent(s, {})
      /\ Moves(k, s)
      /\ s.current # k.current => s.stat[s.current] = "RUNNING"
  BY ScheduleFacts DEF Sound
<1>2. ASSUME k.stat[cur] = "SUSPEND"
      PROVE  s.current # cur
  <2>1. Coherent(k, {}) /\ k.lock = 0 /\ Idle \in Thread /\ cur \in Thread
    BY KernelAssumption DEF Sound, KernelState
  <2>2. k.stat[Idle] = "READY"
    BY <1>2, <2>1 DEF Sound, Coherent, RunningUnlinkedBut
  <2>3. k.prio[Idle] \in Prio /\ Idle \in ToSet(k.ready[k.prio[Idle]])
    BY <2>1, <2>2 DEF Coherent, ReadyListed, KernelState
  <2>4. k.ready \in [Prio -> Seq(Thread)] /\ k.group \in SUBSET Prio
    BY DEF KernelState
  <2>5. k.group # {}
    BY <2>1, <2>3, <2>4, ListEmpty DEF Coherent, BitmapExact
  <2>6. hp \in k.group
    BY <2>4, <2>5, HighestReadyFacts
  <2> HIDE DEF hp
  <2>7. hp \in Prio /\ k.ready[hp] # << >>
    BY <2>1, <2>4, <2>6 DEF Coherent, BitmapExact
  <2>8. to \in ToSet(k.ready[hp])
    BY <2>4, <2>7, ListEmpty
  <2> HIDE DEF to
  <2>9. to \in Thread /\ k.stat[to] = "READY"
    BY <2>1, <2>7, <2>8 DEF Coherent, ReadyListed
  <2>10. s = SetStat(ScheduleRemove([k EXCEPT !.current = to], to), to, "RUNNING")
    BY <1>2, <2>1, <2>5, <2>9 DEF Schedule, hp, to
  <2>11. [k EXCEPT !.current = to].current = to
    BY DEF KernelState
  <2>12. s.current = to
    BY <2>10, <2>11 DEF SetStat, ScheduleRemove, Unlink, KernelState
  <2> QED
    BY <1>2, <2>9, <2>12
<1> HIDE DEF s
<1>3. \A y \in Thread : /\ s.stat[y] = "SUSPEND" <=> k.stat[y] = "SUSPEND"
                        /\ s.stat[y] \in {"READY", "RUNNING", "SUSPEND"}
  BY <1>1 DEF Sound, Moves
<1>4. TimedSuspended(s)
  BY <1>1, <1>3 DEF Sound, TimedSuspended
<1> QED
  BY <1>1, <1>2, <1>3, <1>4, KernelAssumption DEF Sound, Calm, s

(* The priority of a thread is changed, whatever it does. *)
LEMMA ChangePriorityCalm ==
  ASSUME NEW k \in KernelState, Sound(k), NEW t \in Thread, NEW p \in Prio
  PROVE  LET s == ChangePriority(k, t, p) IN
         /\ Sound(s) /\ Calm(k, s)
         /\ s.current = k.current /\ s.error = k.error
<1> DEFINE s == ChangePriority(k, t, p)
<1>1. /\ s \in KernelState /\ Coherent(s, {})
      /\ s.current = k.current /\ s.lock = k.lock /\ s.timer = k.timer
      /\ s.error = k.error /\ s.wait = k.wait
      /\ Moves(k, s)
  BY ChangePriorityFacts DEF Sound
<1> HIDE DEF s
<1>2. \A y \in Thread : /\ s.stat[y] = "SUSPEND" <=> k.stat[y] = "SUSPEND"
                        /\ s.stat[y] \in {"READY", "RUNNING", "SUSPEND"}
  BY <1>1 DEF Sound, Moves
<1>3. TimedSuspended(s)
  BY <1>1, <1>2 DEF Sound, TimedSuspended
<1> QED
  BY <1>1, <1>2, <1>3, KernelAssumption DEF Sound, Calm, s
-----------------------------------------------------------------------------
(* A thread is woken, by rt_thread_resume or by its timer. *)
LEMMA WokenSound ==
  ASSUME NEW k \in KernelState, Sound(k), NEW t \in Thread, NEW s \in KernelState,
         Coherent(s, {}), Woken(k, s, t)
  PROVE  Sound(s) /\ Wakes(k, s, t)
<1>1. \A y \in Thread \ {t} : s.stat[y] = "SUSPEND" <=> k.stat[y] = "SUSPEND"
  BY DEF Woken
<1>2. \A y \in Thread : s.stat[y] \in {"READY", "RUNNING", "SUSPEND"}
  BY DEF Sound, Woken
<1>3. k.timer \in [Thread -> BOOLEAN]
  BY DEF KernelState
<1>4. \A y \in Thread : s.timer[y] => y # t /\ k.timer[y]
  BY <1>3 DEF Woken
<1>5. TimedSuspended(s)
  BY <1>1, <1>4 DEF Sound, TimedSuspended
<1>6. s.stat[Idle] # "SUSPEND"
  BY <1>1, KernelAssumption DEF Sound, Woken
<1> QED
  BY <1>1, <1>2, <1>5, <1>6 DEF Sound, Wakes, Woken

(* rt_thread_resume of a suspended thread. *)
LEMMA ResumeWakes ==
  ASSUME NEW k \in KernelState, Sound(k), NEW t \in Thread, k.stat[t] = "SUSPEND"
  PROVE  LET s == ThreadResume(k, t) IN
         /\ Sound(s) /\ Wakes(k, s, t)
         /\ s.current = k.current /\ s.error = k.error /\ s.prio = k.prio
<1> DEFINE s == ThreadResume(k, t)
<1>1. /\ s \in KernelState /\ Coherent(s, {})
      /\ Woken(k, s, t)
      /\ s.error = k.error
      /\ SameThreads(k, s)
  BY ThreadResumeFacts DEF Sound
<1> HIDE DEF s
<1>2. Sound(s) /\ Wakes(k, s, t)
  BY <1>1, WokenSound
<1> QED
  BY <1>1, <1>2 DEF SameThreads, s

(* rt_thread_timeout, for the timer of a suspended thread. *)
LEMMA TimeoutWakes ==
  ASSUME NEW k \in KernelState, Sound(k), NEW t \in Thread, k.stat[t] = "SUSPEND"
  PROVE  LET s == ThreadTimeout(k, t) IN
         /\ Sound(s) /\ Wakes(k, s, t)
         /\ s.error = [k.error EXCEPT ![t] = "ETIMEOUT"]
<1> DEFINE s == ThreadTimeout(k, t)
<1>1. /\ s \in KernelState /\ Coherent(s, {})
      /\ Woken(k, s, t)
      /\ s.error = [k.error EXCEPT ![t] = "ETIMEOUT"]
  BY ThreadTimeoutFacts DEF Sound
<1> HIDE DEF s
<1>2. Sound(s) /\ Wakes(k, s, t)
  BY <1>1, WokenSound
<1> QED
  BY <1>1, <1>2 DEF s
-----------------------------------------------------------------------------
(* A thread suspends itself, and links itself in a wait list. *)
LEMMA SuspendFacts ==
  ASSUME NEW k \in KernelState, Sound(k), NEW t \in Thread \ {Idle},
         k.stat[t] # "SUSPEND"
  PROVE  LET s == ThreadSuspend(k, t) IN
         /\ Sound(s) /\ Suspends(k, s, t)
         /\ \A q \in Queue : ToSet(s.wait[q]) = ToSet(k.wait[q]) \ {t}
         /\ ~Linked(s, t)
<1> DEFINE s == [ScheduleRemove(k, t) EXCEPT !.stat[t] = "SUSPEND", !.timer[t] = FALSE]
<1>1. ThreadSuspend(k, t) = s
  BY DEF ThreadSuspend, SuspendNow, Sound
<1>2. /\ s \in KernelState
      /\ SameThreads(k, s)
      /\ s.stat = [k.stat EXCEPT ![t] = "SUSPEND"]
      /\ s.timer = [k.timer EXCEPT ![t] = FALSE] /\ s.error = k.error
      /\ \A q \in Queue : ToSet(s.wait[q]) = ToSet(k.wait[q]) \ {t}
      /\ Coherent(s, {})
      /\ ~Linked(s, t)
  BY RetireFacts DEF Sound
<1> HIDE DEF s
<1>3. k.stat \in [Thread -> Stat] /\ k.timer \in [Thread -> BOOLEAN]
  BY DEF KernelState
<1>4. /\ \A y \in Thread : s.stat[y] = IF y = t THEN "SUSPEND" ELSE k.stat[y]
      /\ \A y \in Thread : s.timer[y] => k.timer[y]
  BY <1>2, <1>3
<1>5. TimedSuspended(s)
  BY <1>4 DEF Sound, TimedSuspended
<1>6. s.stat[Idle] # "SUSPEND"
  BY <1>4, KernelAssumption DEF Sound
<1> QED
  BY <1>1, <1>2, <1>4, <1>5, <1>6, SMTT(30) DEF Sound, Suspends, SameThreads

(* rt_ipc_list_suspend, in the order of either flag. *)
LEMMA IpcSuspendFacts ==
  ASSUME NEW k \in KernelState, Sound(k), NEW t \in Thread \ {Idle},
         k.stat[t] # "SUSPEND", NEW q \in Queue, NEW flag,
         NEW s, s = IpcSuspend(k, q, t, flag)
  PROVE  Sound(s) /\ Suspends(k, s, t) /\ Joins(k, s, t, q)
<1> DEFINE u    == ThreadSuspend(k, t)
           less == {i \in DOMAIN u.wait[q] : u.prio[t] < u.prio[u.wait[q][i]]}
           w    == IF flag = "FIFO" \/ less = {}
                   THEN Append(u.wait[q], t) ELSE InsertAt(u.wait[q], Min(less), t)
<1>1. /\ Sound(u) /\ Suspends(k, u, t)
      /\ \A r \in Queue : ToSet(u.wait[r]) = ToSet(k.wait[r]) \ {t}
      /\ ~Linked(u, t)
  BY SuspendFacts
<1> HIDE DEF u
<1>2. s = Enlist(u, q, w)
  BY DEF IpcSuspend, Enlist, u
<1>3. u.wait[q] \in Seq(Thread) /\ IsInjective(u.wait[q]) /\ t \notin ToSet(u.wait[q])
  BY <1>1 DEF Sound, KernelState, Coherent, SingleLinkage, Linked
<1>4. w \in Seq(Thread) /\ ToSet(w) = ToSet(u.wait[q]) \cup {t} /\ IsInjective(w)
  <2>1. CASE flag = "FIFO" \/ less = {}
    BY <1>3, <2>1, ListAppend
  <2>2. CASE ~(flag = "FIFO" \/ less = {})
    <3>1. DOMAIN u.wait[q] = 1 .. Len(u.wait[q]) /\ Len(u.wait[q]) \in Nat
      BY <1>3, LenProperties
    <3>2. less \in SUBSET Nat /\ less \subseteq 1 .. Len(u.wait[q])
      BY <3>1
    <3>3. Min(less) \in 1 .. Len(u.wait[q])
      <4> HIDE DEF less
      <4> QED
        BY <2>2, <3>2, LeastFacts
    <3>4. w = InsertAt(u.wait[q], Min(less), t)
      BY <2>2
    <3> HIDE DEF less, w
    <3> QED
      BY <1>3, <3>3, <3>4, ListInsert
  <2> QED
    BY <2>1, <2>2
<1> HIDE DEF w
<1>5. u \in KernelState /\ Coherent(u, {}) /\ Enters(u, q, t, w)
  BY <1>1, <1>4 DEF Sound, Suspends, Enters
<1>6. /\ s \in KernelState /\ Coherent(s, {})
      /\ SameThreads(u, s)
      /\ s.stat = u.stat /\ s.timer = u.timer /\ s.error = u.error
      /\ ToSet(s.wait[q]) = ToSet(u.wait[q]) \cup {t}
      /\ \A r \in Queue \ {q} : s.wait[r] = u.wait[r]
  BY <1>2, <1>5, EnlistFacts
<1>7. Sound(s) /\ Suspends(k, s, t)
  BY <1>1, <1>6 DEF Sound, TimedSuspended, Suspends, SameThreads
<1>8. Joins(k, s, t, q)
  BY <1>1, <1>6 DEF Joins
<1> QED
  BY <1>7, <1>8
-----------------------------------------------------------------------------
(* The state every system starts in: the idle thread runs, nobody waits    *)
(* for an object.                                                          *)
Asleep(prio) ==
  [stat  |-> [t \in Thread |-> IF t = Idle THEN "RUNNING" ELSE "SUSPEND"],
   prio  |-> prio,
   ready |-> [p \in Prio |-> << >>],
   group |-> {},
   wait  |-> [q \in Queue |-> << >>],
   current |-> Idle, lock |-> 0,
   timer |-> [t \in Thread |-> t # Idle],
   error |-> [t \in Thread |-> "EOK"]]

LEMMA AsleepSound ==
  ASSUME NEW prio \in [Thread -> Prio], NEW k, k = Asleep(prio)
  PROVE  /\ Sound(k) /\ k.current = Idle /\ k.stat[Idle] = "RUNNING"
         /\ \A q \in Queue : k.wait[q] = << >> /\ ToSet(k.wait[q]) = {}
<1> USE KernelAssumption DEF Asleep
<1>1. /\ \A p \in Prio : k.ready[p] = << >>
      /\ \A q \in Queue : k.wait[q] = << >>
      /\ k.stat = [t \in Thread |-> IF t = Idle THEN "RUNNING" ELSE "SUSPEND"]
      /\ k.timer = [t \in Thread |-> t # Idle]
      /\ k.prio = prio /\ k.group = {} /\ k.current = Idle /\ k.lock = 0
  OBVIOUS
<1>2. k \in KernelState
  <2>1. k.stat \in [Thread -> Stat]
    BY <1>1 DEF Stat
  <2>2. k.ready \in [Prio -> Seq(Thread)] /\ k.wait \in [Queue -> Seq(Thread)]
    OBVIOUS
  <2>3. k.error \in [Thread -> Errno] /\ k.timer \in [Thread -> BOOLEAN]
    BY DEF Errno
  <2>4. k = [stat |-> k.stat, prio |-> k.prio, ready |-> k.ready, group |-> k.group,
             wait |-> k.wait, current |-> k.current, lock |-> k.lock,
             timer |-> k.timer, error |-> k.error]
    OBVIOUS
  <2> QED
    BY <1>1, <2>1, <2>2, <2>3, <2>4 DEF KernelState
<1>3. \A p \in Prio : ToSet(k.ready[p]) = {} /\ IsInjective(k.ready[p])
  BY <1>1 DEF ToSet, IsInjective
<1>4. \A q \in Queue : ToSet(k.wait[q]) = {} /\ IsInjective(k.wait[q])
  BY <1>1 DEF ToSet, IsInjective
<1>5. \A t \in Thread : /\ k.stat[t] = IF t = Idle THEN "RUNNING" ELSE "SUSPEND"
                        /\ k.timer[t] => t # Idle
  BY <1>1
<1>6. Coherent(k, {})
  <2>1. SingleLinkage(k)
    BY <1>3, <1>4 DEF SingleLinkage
  <2>2. ReadyListed(k, {})
    BY <1>3, <1>5 DEF ReadyListed
  <2>3. BitmapExact(k)
    BY <1>1 DEF BitmapExact
  <2>4. RunningUnlinkedBut(k, {})
    BY <1>1, <1>3, <1>4, <1>5 DEF RunningUnlinkedBut, Linked
  <2> QED
    BY <2>1, <2>2, <2>3, <2>4 DEF Coherent
<1>7. TimedSuspended(k)
  BY <1>5 DEF TimedSuspended
<1>8. Sound(k)
  BY <1>1, <1>2, <1>5, <1>6, <1>7 DEF Sound
<1> QED
  BY <1>1, <1>4, <1>5, <1>8
-----------------------------------------------------------------------------
(* The order of waiters, by the priorities prio of the threads. *)
Ascending(prio, s) ==
  \A i, j \in 1 .. Len(s) : i < j => prio[s[i]] <= prio[s[j]]

LEMMA AscendingHead ==
  ASSUME NEW prio \in [Thread -> Prio], NEW s \in Seq(Thread), Ascending(prio, s),
         NEW x \in ToSet(s)
  PROVE  prio[Head(s)] <= prio[x]
<1>1. PICK n \in 1 .. Len(s) : s[n] = x
  BY LenProperties DEF ToSet
<1>2. s # << >> /\ Head(s) = s[1] /\ Len(s) \in Nat
  BY LenProperties, EmptySeq, HeadTailProperties
<1>3. s[1] \in Thread /\ prio[s[1]] \in Int
  BY <1>1, <1>2, ElementOfSeq DEF Prio
<1>4. CASE n = 1
  BY <1>1, <1>2, <1>3, <1>4
<1>5. CASE n # 1
  <2>1. 1 < n /\ 1 \in 1 .. Len(s)
    BY <1>1, <1>2, <1>5
  <2> QED
    BY <1>1, <1>2, <2>1 DEF Ascending
<1> QED
  BY <1>4, <1>5

LEMMA AscendingWithout ==
  ASSUME NEW prio \in [Thread -> Prio], NEW s \in Seq(Thread), NEW t,
         Ascending(prio, s)
  PROVE  Ascending(prio, Without(s, t))
<1>1. CASE t \in ToSet(s)
  <2>1. PICK n \in 1 .. Len(s) :
          /\ Len(Without(s, t)) = Len(s) - 1
          /\ \A i \in 1 .. Len(s) - 1 :
               Without(s, t)[i] = IF i < n THEN s[i] ELSE s[i + 1]
    BY <1>1, WithoutPlaces
  <2>2. Len(s) \in Nat
    BY LenProperties
  <2> DEFINE w == Without(s, t)
  <2> HIDE DEF w
  <2>3. Len(w) = Len(s) - 1
    BY <2>1 DEF w
  <2> SUFFICES ASSUME NEW i \in 1 .. Len(w), NEW j \in 1 .. Len(w), i < j
               PROVE  prio[w[i]] <= prio[w[j]]
    BY DEF Ascending, w
  <2>4. PICK a \in 1 .. Len(s) : w[i] = s[a] /\ a = IF i < n THEN i ELSE i + 1
    <3>1. w[i] = IF i < n THEN s[i] ELSE s[i + 1]
      BY <2>1, <2>3 DEF w
    <3> QED
      BY <2>2, <2>3, <3>1
  <2>5. PICK b \in 1 .. Len(s) : w[j] = s[b] /\ b = IF j < n THEN j ELSE j + 1
    <3>1. w[j] = IF j < n THEN s[j] ELSE s[j + 1]
      BY <2>1, <2>3 DEF w
    <3> QED
      BY <2>2, <2>3, <3>1
  <2>6. a < b
    BY <2>2, <2>4, <2>5
  <2> QED
    BY <2>4, <2>5, <2>6 DEF Ascending
<1>2. CASE t \notin ToSet(s)
  BY <1>2, ListAbsent
<1> QED
  BY <1>1, <1>2

(* A thread enters between those as urgent as itself and the others. *)
LEMMA AscendingPlace ==
  ASSUME NEW prio \in [Thread -> Prio], NEW s \in Seq(Thread), NEW t \in Thread,
         Ascending(prio, s), NEW n \in 1 .. Len(s) + 1,
         \A i \in 1 .. Len(s) : i < n => prio[s[i]] <= prio[t],
         \A i \in 1 .. Len(s) : n <= i => prio[t] <= prio[s[i]]
  PROVE  Ascending(prio, InsertAt(s, n, t))
<1> DEFINE w == InsertAt(s, n, t)
<1>1. Len(s) \in Nat
  BY LenProperties
<1>2. /\ Len(w) = Len(s) + 1
      /\ \A j \in 1 .. Len(s) + 1 :
           w[j] = IF j < n THEN s[j] ELSE IF j = n THEN t ELSE s[j - 1]
  <2>1. /\ s \in Seq(Thread) /\ t \in Thread /\ n \in 1 .. Len(s) + 1
    OBVIOUS
  <2> QED
    BY ONLY <2>1, InsertPlaces, SMTT(30)
<1> HIDE DEF w
<1> SUFFICES ASSUME NEW i \in 1 .. Len(w), NEW j \in 1 .. Len(w), i < j
             PROVE  prio[w[i]] <= prio[w[j]]
  BY DEF Ascending, w
<1>3. w[i] = IF i < n THEN s[i] ELSE IF i = n THEN t ELSE s[i - 1]
  BY <1>2
<1>4. w[j] = IF j < n THEN s[j] ELSE IF j = n THEN t ELSE s[j - 1]
  BY <1>2
<1>5. CASE i < n /\ j < n
  BY <1>1, <1>2, <1>3, <1>4, <1>5 DEF Ascending
<1>6. CASE i < n /\ j = n
  BY <1>1, <1>2, <1>3, <1>4, <1>6
<1>7. CASE i < n /\ j > n
  <2>1. /\ w[i] = s[i] /\ w[j] = s[j - 1] /\ i < j - 1
        /\ i \in 1 .. Len(s) /\ j - 1 \in 1 .. Len(s)
    BY <1>1, <1>2, <1>3, <1>4, <1>7
  <2> QED
    BY <2>1 DEF Ascending
<1>8. CASE i = n /\ j > n
  <2>1. /\ w[i] = t /\ w[j] = s[j - 1] /\ n <= j - 1 /\ j - 1 \in 1 .. Len(s)
    BY <1>1, <1>2, <1>3, <1>4, <1>8
  <2> QED
    BY <2>1
<1>9. CASE i > n /\ j > n
  <2>1. /\ w[i] = s[i - 1] /\ w[j] = s[j - 1] /\ i - 1 < j - 1
        /\ i - 1 \in 1 .. Len(s) /\ j - 1 \in 1 .. Len(s)
    BY <1>1, <1>2, <1>3, <1>4, <1>9
  <2> QED
    BY <2>1 DEF Ascending
<1> QED
  BY <1>1, <1>2, <1>5, <1>6, <1>7, <1>8, <1>9

(* rt_ipc_list_suspend puts a thread before the first that is less urgent. *)
LEMMA AscendingEnter ==
  ASSUME NEW prio \in [Thread -> Prio], NEW s \in Seq(Thread), NEW t \in Thread,
         Ascending(prio, s),
         NEW less, less = {i \in DOMAIN s : prio[t] < prio[s[i]]}
  PROVE  Ascending(prio, IF less = {} THEN Append(s, t)
                                      ELSE InsertAt(s, Min(less), t))
<1>1. /\ Len(s) \in Nat /\ DOMAIN s = 1 .. Len(s)
      /\ \A i \in 1 .. Len(s) : s[i] \in Thread /\ prio[s[i]] \in Int
      /\ prio[t] \in Int
  BY LenProperties, ElementOfSeq DEF Prio
<1>2. CASE less = {}
  <2> DEFINE w == Append(s, t)
  <2>1. /\ Len(w) = Len(s) + 1 /\ w[Len(s) + 1] = t
        /\ \A i \in 1 .. Len(s) : w[i] = s[i]
    BY AppendProperties
  <2>2. \A i \in 1 .. Len(s) : prio[s[i]] <= prio[t]
    BY <1>1, <1>2
  <2> HIDE DEF w
  <2> SUFFICES ASSUME NEW i \in 1 .. Len(w), NEW j \in 1 .. Len(w), i < j
               PROVE  prio[w[i]] <= prio[w[j]]
    BY <1>2 DEF Ascending, w
  <2>3. i \in 1 .. Len(s) /\ w[i] = s[i]
    BY <1>1, <2>1
  <2>4. CASE j = Len(s) + 1
    BY <2>1, <2>2, <2>3, <2>4
  <2>5. CASE j # Len(s) + 1
    <3>1. j \in 1 .. Len(s) /\ w[j] = s[j]
      BY <1>1, <2>1, <2>5
    <3> QED
      BY <2>3, <3>1 DEF Ascending
  <2> QED
    BY <2>4, <2>5
<1>3. CASE less # {}
  <2>1. PICK n \in 1 .. Len(s) : n = Min(less) /\ n \in less /\ \A i \in less : n <= i
    <3>1. less \in SUBSET Nat
      BY <1>1
    <3>2. Min(less) \in less /\ \A i \in less : Min(less) <= i
      BY <1>3, <3>1, LeastFacts
    <3> QED
      BY <1>1, <3>2
  <2>2. prio[t] < prio[s[n]]
    BY <2>1
  <2>3. ASSUME NEW i \in 1 .. Len(s), i < n PROVE prio[s[i]] <= prio[t]
    <3>1. ASSUME i \in less PROVE FALSE
      <4>1. n <= i
        BY <2>1, <3>1
      <4> QED
        BY <1>1, <2>3, <4>1
    <3>2. ~(prio[t] < prio[s[i]])
      BY <1>1, <3>1
    <3> QED
      BY <1>1, <3>2
  <2>4. ASSUME NEW i \in 1 .. Len(s), n <= i PROVE prio[t] <= prio[s[i]]
    <3>1. prio[s[n]] <= prio[s[i]]
      BY <1>1, <2>4 DEF Ascending
    <3> QED
      BY <1>1, <2>2, <3>1
  <2>5. n \in 1 .. Len(s) + 1
    BY <1>1
  <2>6. Ascending(prio, InsertAt(s, n, t))
    BY <2>3, <2>4, <2>5, AscendingPlace
  <2> QED
    BY <1>3, <2>1, <2>6
<1> QED
  BY <1>2, <1>3
(* Waking a thread and suspending one leave the others in their order. *)
LEMMA ResumeOrder ==
  ASSUME NEW k \in KernelState, Sound(k), NEW t \in Thread, k.stat[t] = "SUSPEND"
  PROVE  /\ ThreadResume(k, t).prio = k.prio
         /\ \A q \in Queue : ThreadResume(k, t).wait[q] = Without(k.wait[q], t)
<1> DEFINE v == Unlink(k, t)
           u == ResumeUnlink(k, t)
           s == ThreadResume(k, t)
<1>1. /\ v \in KernelState /\ v.prio = k.prio
      /\ \A q \in Queue : v.wait[q] = Without(k.wait[q], t)
  BY UnlinkFacts DEF Sound, Coherent, SameThreads
<1>2. u = [v EXCEPT !.timer[t] = FALSE]
  BY DEF ResumeUnlink
<1> HIDE DEF v
<1>3. u.prio = v.prio /\ u.wait = v.wait
  BY <1>1, <1>2 DEF KernelState
<1>4. u \in KernelState /\ Coherent(u, {}) /\ ~Linked(u, t) /\ u.stat = k.stat
  BY ResumeUnlinkFacts DEF Sound
<1>5. s = ScheduleInsert(u, t)
  BY DEF ThreadResume
<1> HIDE DEF u, s
<1>6. Coherent(u, {t})
  BY <1>4, CoherentWeaken
<1>7. s.prio = u.prio /\ s.wait = u.wait
  BY <1>4, <1>5, <1>6, ScheduleInsertFacts DEF SameThreads
<1> QED
  BY <1>1, <1>3, <1>7 DEF s

LEMMA TimeoutOrder ==
  ASSUME NEW k \in KernelState, Sound(k), NEW t \in Thread, k.stat[t] = "SUSPEND"
  PROVE  /\ ThreadTimeout(k, t).prio = k.prio
         /\ \A q \in Queue : ThreadTimeout(k, t).wait[q] = Without(k.wait[q], t)
<1> DEFINE e == "ETIMEOUT"
           v == Unlink(k, t)
           u == Released(k, t, e)
           w == ScheduleInsert(u, t)
           s == ThreadTimeout(k, t)
<1>1. /\ v \in KernelState /\ v.prio = k.prio
      /\ \A q \in Queue : v.wait[q] = Without(k.wait[q], t)
  BY UnlinkFacts DEF Sound, Coherent, SameThreads
<1>2. u = [v EXCEPT !.timer[t] = FALSE, !.error[t] = e] /\ s = Schedule(w)
  BY DEF Released, ThreadTimeout
<1>3. e \in Errno
  BY DEF Errno
<1> HIDE DEF v, w, e
<1>4. u.prio = v.prio /\ u.wait = v.wait
  BY <1>1, <1>2 DEF KernelState
<1>5. Releases(k, u, t, e)
  BY <1>3, ReleasedFacts DEF Sound
<1>6. u \in KernelState /\ Coherent(u, {}) /\ ~Linked(u, t) /\ u.stat = k.stat
  BY <1>5 DEF Releases
<1> HIDE DEF u, s
<1>7. Coherent(u, {t})
  BY <1>6, CoherentWeaken
<1>8. w \in KernelState /\ Coherent(w, {}) /\ w.prio = u.prio /\ w.wait = u.wait
  BY <1>6, <1>7, ScheduleInsertFacts DEF SameThreads, w
<1>9. s.prio = w.prio /\ s.wait = w.wait
  BY <1>2, <1>8, ScheduleFacts
<1> QED
  BY <1>1, <1>4, <1>8, <1>9 DEF s

LEMMA SuspendOrder ==
  ASSUME NEW k \in KernelState, Sound(k), NEW t \in Thread,
         \A q \in Queue : t \notin ToSet(k.wait[q])
  PROVE  LET s == ThreadSuspend(k, t)
         IN  /\ s.prio = k.prio
             /\ \A q \in Queue : s.wait[q] = k.wait[q]
<1> DEFINE v == ScheduleRemove(k, t)
           s == ThreadSuspend(k, t)
<1>1. /\ v \in KernelState /\ v.prio = k.prio
      /\ \A q \in Queue : v.wait[q] = Without(k.wait[q], t)
  BY ScheduleRemoveFacts DEF Sound, SameThreads
<1>2. s = k \/ s = [v EXCEPT !.stat[t] = "SUSPEND", !.timer[t] = FALSE]
  BY DEF ThreadSuspend, SuspendNow
<1> HIDE DEF v, s
<1>3. \A q \in Queue : v.wait[q] = k.wait[q]
  BY <1>1, ListAbsent
<1>4. s.prio = k.prio /\ \A q \in Queue : s.wait[q] = k.wait[q]
  BY <1>1, <1>2, <1>3 DEF KernelState
<1> QED
  BY <1>4 DEF s

(* A waiter joins the list q, in the order of its priority when the flag of *)
(* the object is PRIO.                                                     *)
LEMMA IpcSuspendOrder ==
  ASSUME NEW k \in KernelState, Sound(k), NEW t \in Thread \ {Idle},
         k.stat[t] # "SUSPEND", NEW q \in Queue, NEW flag,
         \A r \in Queue : t \notin ToSet(k.wait[r]),
         NEW s, s = IpcSuspend(k, q, t, flag)
  PROVE  /\ s.prio = k.prio
         /\ \A r \in Queue \ {q} : s.wait[r] = k.wait[r]
         /\ flag = "PRIO" /\ Ascending(k.prio, k.wait[q])
              => Ascending(k.prio, s.wait[q])
<1> DEFINE u    == ThreadSuspend(k, t)
           less == {i \in DOMAIN u.wait[q] : u.prio[t] < u.prio[u.wait[q][i]]}
           w    == IF flag = "FIFO" \/ less = {}
                   THEN Append(u.wait[q], t) ELSE InsertAt(u.wait[q], Min(less), t)
<1>1. Sound(u) /\ u \in KernelState
  BY SuspendFacts DEF Sound
<1>2. u.prio = k.prio /\ \A r \in Queue : u.wait[r] = k.wait[r]
  BY SuspendOrder
<1>3. s = [u EXCEPT !.wait[q] = w]
  BY DEF IpcSuspend
<1> HIDE DEF u
<1> DEFINE l  == {i \in DOMAIN k.wait[q] : k.prio[t] < k.prio[k.wait[q][i]]}
           x  == IF l = {} THEN Append(k.wait[q], t)
                           ELSE InsertAt(k.wait[q], Min(l), t)
<1>4. less = l
  BY <1>2
<1>5. flag = "PRIO" => w = x
  BY <1>2, <1>4
<1>6. ASSUME flag = "PRIO", Ascending(k.prio, k.wait[q])
      PROVE  Ascending(k.prio, w)
  <2>1. k.prio \in [Thread -> Prio] /\ k.wait[q] \in Seq(Thread)
    BY DEF KernelState
  <2>2. Ascending(k.prio, x)
    BY <1>6, <2>1, AscendingEnter
  <2> QED
    BY <1>5, <1>6, <2>2
<1> HIDE DEF w, less, l, x
<1>7. s.prio = u.prio /\ \A r \in Queue : s.wait[r] = IF r = q THEN w ELSE u.wait[r]
  BY <1>1, <1>3 DEF KernelState
<1> QED
  BY <1>2, <1>6, <1>7
-----------------------------------------------------------------------------
(* Folds over a list.  Max of the community modules finds the greatest of  *)
(* a set of indices.                                                       *)
LEMMA GreatestFacts ==
  ASSUME NEW n \in Nat, NEW g \in SUBSET (1 .. n), g # {}
  PROVE  Max(g) \in g /\ \A p \in g : p <= Max(g)
<1> DEFINE h == {n - p : p \in g}
<1>1. h \in SUBSET Nat /\ h # {}
  <2>1. \A p \in g : n - p \in Nat
    OBVIOUS
  <2> QED
    BY <2>1
<1>2. PICK p \in g : n - p = Min(h)
  BY <1>1, LeastFacts
<1>3. \A y \in g : y <= p
  BY <1>1, <1>2, LeastFacts
<1> HIDE DEF h
<1>4. \E x \in g : \A y \in g : x >= y
  BY <1>3
<1>5. Max(g) \in g /\ \A y \in g : Max(g) >= y
  BY <1>4, Zenon DEF Max
<1> QED
  BY <1>5

(* The function a fold is defined with exists, whatever is folded.         *)
FoldStep(F, b, s, f, x) ==
  f[x] = IF x = {} THEN b ELSE F[<<f[x \ {Max(x)}], s[Max(x)]>>]

LEMMA FoldDefined ==
  ASSUME NEW K, NEW T, NEW F \in [K \X T -> K], NEW b \in K, NEW s \in Seq(T)
  PROVE  \E f \in [SUBSET (1 .. Len(s)) -> K] :
           \A x \in SUBSET (1 .. Len(s)) : FoldStep(F, b, s, f, x)
<1> DEFINE Defined(m) == \E f \in [SUBSET (1 .. m) -> K] :
                           \A x \in SUBSET (1 .. m) : FoldStep(F, b, s, f, x)
           bad == {m \in 0 .. Len(s) : ~Defined(m)}
<1>1. Len(s) \in Nat /\ \A i \in 1 .. Len(s) : s[i] \in T
  BY LenProperties, ElementOfSeq
<1>2. Defined(0)
  <2> DEFINE f == [x \in SUBSET (1 .. 0) |-> b]
  <2>1. f \in [SUBSET (1 .. 0) -> K]
    OBVIOUS
  <2>2. \A x \in SUBSET (1 .. 0) : x = {}
    OBVIOUS
  <2>3. \A x \in SUBSET (1 .. 0) : FoldStep(F, b, s, f, x)
    BY <2>2 DEF FoldStep
  <2> QED
    BY <2>1, <2>3
<1>3. ASSUME NEW m \in 1 .. Len(s), Defined(m - 1)
      PROVE  Defined(m)
  <2>1. PICK f \in [SUBSET (1 .. m - 1) -> K] :
          \A x \in SUBSET (1 .. m - 1) : FoldStep(F, b, s, f, x)
    BY <1>3
  <2> DEFINE g == [x \in SUBSET (1 .. m) |->
                     IF m \in x THEN F[<<f[x \ {m}], s[m]>>] ELSE f[x]]
  <2>2. \A x \in SUBSET (1 .. m) : /\ x \ {m} \in SUBSET (1 .. m - 1)
                                  /\ m \notin x => x \in SUBSET (1 .. m - 1)
    BY <1>1
  <2>3. g \in [SUBSET (1 .. m) -> K]
    <3>1. ASSUME NEW x \in SUBSET (1 .. m)
          PROVE  (IF m \in x THEN F[<<f[x \ {m}], s[m]>>] ELSE f[x]) \in K
      <4>1. CASE m \in x
        <5>1. f[x \ {m}] \in K /\ s[m] \in T
          BY <1>1, <2>2
        <5> QED
          BY <4>1, <5>1
      <4>2. CASE m \notin x
        BY <2>2, <4>2
      <4> QED
        BY <4>1, <4>2
    <3> QED
      BY <3>1
  <2>4. ASSUME NEW x \in SUBSET (1 .. m)
        PROVE  FoldStep(F, b, s, g, x)
    <3>1. CASE x = {}
      <4>1. f[{}] = b /\ g[{}] = f[{}]
        BY <2>1 DEF FoldStep
      <4> QED
        BY <3>1, <4>1 DEF FoldStep
    <3>2. CASE m \in x
      <4>1. Max(x) = m
        <5>1. Max(x) \in x /\ \A p \in x : p <= Max(x)
          BY <1>1, <3>2, m \in Nat, x # {}, GreatestFacts
        <5> QED
          BY <3>2, <5>1, Max(x) \in 1 .. m
      <4>2. x \ {m} \in SUBSET (1 .. m) /\ m \notin x \ {m} /\ x # {}
        BY <3>2
      <4>3. g[x \ {m}] = f[x \ {m}] /\ g[x] = F[<<f[x \ {m}], s[m]>>]
        BY <3>2, <4>2
      <4> HIDE DEF g
      <4> QED
        BY <4>1, <4>2, <4>3 DEF FoldStep
    <3>3. CASE x # {} /\ m \notin x
      <4>1. x \ {Max(x)} \in SUBSET (1 .. m) /\ m \notin x \ {Max(x)}
        BY <3>3
      <4>2. g[x] = f[x] /\ g[x \ {Max(x)}] = f[x \ {Max(x)}]
        BY <2>2, <3>3, <4>1
      <4>3. FoldStep(F, b, s, f, x)
        BY <2>1, <2>2, <3>3
      <4> QED
        BY <3>3, <4>2, <4>3 DEF FoldStep
    <3> QED
      BY <3>1, <3>2, <3>3
  <2> QED
    BY <2>3, <2>4
<1>4. bad = {}
  <2> HIDE DEF Defined
  <2> SUFFICES ASSUME bad # {}
               PROVE  FALSE
    OBVIOUS
  <2>1. Min(bad) \in bad /\ \A p \in bad : Min(bad) <= p
    <3>1. bad \in SUBSET Nat
      BY <1>1
    <3> HIDE DEF bad
    <3> QED
      BY <3>1, LeastFacts
  <2>2. Min(bad) # 0
    BY <1>2, <2>1
  <2>3. Min(bad) - 1 \in 0 .. Len(s) /\ Min(bad) \in 1 .. Len(s)
    BY <1>1, <2>1, <2>2
  <2>4. Defined(Min(bad) - 1)
    BY <1>1, <2>1, <2>3
  <2> QED
    BY <1>3, <2>1, <2>3, <2>4
<1>5. Defined(Len(s))
  <2> HIDE DEF Defined
  <2> QED
    BY <1>1, <1>4
<1> QED
  BY <1>5

(* Induction on the length of a list: S holds the lengths it is true of.   *)
LEMMA UpTo ==
  ASSUME NEW n \in Nat, NEW S, 0 \in S,
         \A i \in 1 .. n : i - 1 \in S => i \in S
  PROVE  n \in S
<1> DEFINE bad == {i \in 0 .. n : i \notin S}
<1> SUFFICES ASSUME n \notin S
             PROVE  FALSE
  OBVIOUS
<1>1. bad \in SUBSET Nat /\ bad # {}
  OBVIOUS
<1>2. PICK m \in bad : \A p \in bad : m <= p
  <2> HIDE DEF bad
  <2> QED
    BY <1>1, LeastFacts
<1>3. m # 0 /\ m - 1 \in 0 .. n /\ m - 1 \notin bad
  BY <1>2
<1> QED
  BY <1>2, <1>3
-----------------------------------------------------------------------------
(* What a section of code does to the threads when it suspends nobody: the *)
(* threads of S leave the list they wait in.                               *)
Settles(kk, s, S) ==
  /\ s \in KernelState /\ Sound(s)
  /\ \A q \in Queue : ToSet(s.wait[q]) = ToSet(kk.wait[q]) \ S
  /\ \A y \in Thread : s.stat[y] = "SUSPEND" <=> kk.stat[y] = "SUSPEND" /\ y \notin S
  /\ \A y \in Thread : s.timer[y] => kk.timer[y]
  /\ s.current # kk.current => s.stat[s.current] # "SUSPEND"

LEMMA SettlesTrans ==
  ASSUME NEW kk, NEW s, NEW r, NEW S, NEW R, Settles(kk, s, S), Settles(s, r, R)
  PROVE  Settles(kk, r, S \cup R)
<1>1. s.current \in Thread /\ r.current \in Thread
  BY DEF Settles, KernelState
<1>2. r.current # kk.current => r.stat[r.current] # "SUSPEND"
  BY <1>1 DEF Settles
<1> QED
  BY <1>1, <1>2 DEF Settles

(* rt_schedule, thread->error, rt_thread_resume and rt_thread_timeout.     *)
LEMMA CalmSettles ==
  ASSUME NEW kk, NEW s, Sound(s), Calm(kk, s)
  PROVE  Settles(kk, s, {})
BY DEF Calm, Settles, Sound

LEMMA WakesSettles ==
  ASSUME NEW kk \in KernelState, NEW s, NEW t \in Thread, Sound(s), Wakes(kk, s, t)
  PROVE  Settles(kk, s, {t})
<1>1. \A y \in Thread : s.timer[y] => kk.timer[y]
  BY DEF Wakes, KernelState
<1> QED
  BY <1>1 DEF Wakes, Settles, Sound
=============================================================================
