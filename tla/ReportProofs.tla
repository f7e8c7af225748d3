---------------------------- MODULE ReportProofs ----------------------------
(***************************************************************************)
(* Proofs about Report, for any interviews, interviewers, rounds and users *)
(* and any bounds.  A report and its id are functions of the profile, the  *)
(* evaluations and the user, because the view is sorted by times of which  *)
(* no two are the same; and insertion sorts whatever can be ordered.       *)
(***************************************************************************)
EXTENDS Report, SequenceTheorems, FiniteSetTheorems, TLAPS
-----------------------------------------------------------------------------
(* Induction over a set of numbers, and the existence of the functions     *)
(* that are defined by recursion.                                          *)
LEMMA Inductive ==
  ASSUME NEW N \in Nat, NEW G, 0 \in G, \A n \in G : n \in 0..(N - 1) => n + 1 \in G
  PROVE  0..N \subseteq G
<1> DEFINE Below(k) == 0..k
           T == {Below(k) : k \in 0..N \ G}
           R == StrictSubsetOrdering(0..N)
<1> SUFFICES ASSUME T # {}
             PROVE  FALSE
  BY DEF Below
<1>1. \A k \in 0..N : IsFiniteSet(Below(k)) /\ Below(k) \subseteq 0..N
  BY FS_Interval
<1>2. IsWellFoundedOn(R, FiniteSubsetsOf(0..N))
  BY FS_StrictSubsetOrderingWellFounded
<1>3. T \subseteq FiniteSubsetsOf(0..N)
  <2> HIDE DEF Below
  <2> QED
    BY <1>1 DEF FiniteSubsetsOf
<1>4. PICK x \in T : \A y \in T : <<y, x>> \notin R
  <2> HIDE DEF T, R
  <2> QED
    BY <1>2, <1>3, WFMin
<1>5. PICK k \in 0..N \ G : x = Below(k)
  BY <1>4
<1>6. k - 1 \in 0..N /\ k - 1 \in 0..(N - 1) /\ (k - 1) + 1 = k
  BY <1>5
<1>7. k - 1 \notin G
  BY <1>5, <1>6
<1>8. Below(k - 1) \in T
  BY <1>6, <1>7
<1>9. Below(k - 1) \subseteq Below(k) /\ Below(k - 1) # Below(k)
  BY <1>6
<1>10. <<Below(k - 1), Below(k)>> \in R
  <2> HIDE DEF Below
  <2> QED
    BY <1>1, <1>5, <1>6, <1>9 DEF StrictSubsetOrdering
<1> QED
  BY <1>4, <1>5, <1>8, <1>10

IsIteration(f, N, T, base, next) ==
  /\ f \in [0..N -> T]
  /\ f[0] = base
  /\ \A n \in 1..N : f[n] = next[<<f[n - 1], n>>]

LEMMA Recursion ==
  ASSUME NEW N \in Nat, NEW T, NEW base \in T, NEW next \in [T \X (1..N) -> T]
  PROVE  \E f : IsIteration(f, N, T, base, next)
<1> DEFINE Built(m, f) == IsIteration(f, m, T, base, next)
           G == {m \in 0..N : \E f : Built(m, f)}
<1> USE DEF IsIteration
<1>1. 0 \in G
  <2> DEFINE f == [n \in 0..0 |-> base]
  <2>1. f \in [0..0 -> T] /\ f[0] = base /\ 1..0 = {}
    OBVIOUS
  <2> HIDE DEF f
  <2>2. \E h : Built(0, h)
    BY <2>1
  <2> QED
    BY <2>2
<1>2. ASSUME NEW m \in G, m \in 0..(N - 1)
      PROVE  m + 1 \in G
  <2>1. PICK f : Built(m, f)
    BY <1>2
  <2> DEFINE g == [n \in 0..(m + 1) |-> IF n = m + 1 THEN next[<<f[m], m + 1>>] ELSE f[n]]
  <2>2. m \in Nat /\ m + 1 \in 1..N /\ f[m] \in T
    BY <1>2, <2>1
  <2>3. next[<<f[m], m + 1>>] \in T
    BY <2>2
  <2>4. g \in [0..(m + 1) -> T]
    BY <2>1, <2>2, <2>3
  <2>5. g[0] = base
    BY <2>1, <2>2
  <2>6. ASSUME NEW n \in 1..(m + 1)
        PROVE  g[n] = next[<<g[n - 1], n>>]
    <3>1. CASE n = m + 1
      <4>1. n - 1 = m /\ m \in 0..(m + 1) /\ m # m + 1 /\ n \in 0..(m + 1)
        BY <2>2, <3>1
      <4>2. g[n - 1] = f[n - 1]
        BY <4>1
      <4>3. g[n] = next[<<f[m], m + 1>>]
        BY <3>1, <4>1
      <4> QED
        BY <3>1, <4>1, <4>2, <4>3
    <3>2. CASE n # m + 1
      <4>1. n \in 1..m /\ n - 1 \in 0..(m + 1) /\ n - 1 # m + 1
        BY <2>2, <2>6, <3>2
      <4>2. g[n] = f[n] /\ g[n - 1] = f[n - 1]
        BY <3>2, <4>1
      <4> QED
        BY <2>1, <4>1, <4>2
    <3> QED
      BY <3>1, <3>2
  <2> HIDE DEF g
  <2>7. \A n \in 1..(m + 1) : g[n] = next[<<g[n - 1], n>>]
    BY <2>6
  <2>8. \E h : Built(m + 1, h)
    BY <2>4, <2>5, <2>7
  <2> QED
    BY <2>2, <2>8
<1>3. 0..N \subseteq G
  <2> HIDE DEF G
  <2> QED
    BY <1>1, <1>2, Inductive
<1>4. N \in {m \in 0..N : \E f : IsIteration(f, m, T, base, next)}
  <2>1. N \in 0..N
    OBVIOUS
  <2> HIDE DEF IsIteration
  <2> QED
    BY <1>3, <2>1
<1> QED
  BY Zenon, <1>4

LEMMA LeastNatural ==
  ASSUME NEW S, S \subseteq Nat, S # {}
  PROVE  \E k \in S : \A l \in S : k <= l
<1> DEFINE UpTo(k) == 0..k
           T == {UpTo(k) : k \in S}
           R == StrictSubsetOrdering(Nat)
<1>1. \A k \in Nat : IsFiniteSet(UpTo(k)) /\ UpTo(k) \subseteq Nat
  BY FS_Interval
<1>2. IsWellFoundedOn(R, FiniteSubsetsOf(Nat))
  BY FS_StrictSubsetOrderingWellFounded
<1>3. T \subseteq FiniteSubsetsOf(Nat) /\ T # {}
  <2> HIDE DEF UpTo
  <2> QED
    BY <1>1 DEF FiniteSubsetsOf
<1>4. PICK x \in T : \A y \in T : <<y, x>> \notin R
  <2> HIDE DEF T, R
  <2> QED
    BY <1>2, <1>3, WFMin
<1>5. PICK k \in S : x = UpTo(k)
  BY <1>4
<1>6. ASSUME NEW l \in S, ~ (k <= l)
      PROVE  FALSE
  <2>1. UpTo(l) \subseteq UpTo(k) /\ UpTo(l) # UpTo(k)
    BY <1>6
  <2>2. <<UpTo(l), UpTo(k)>> \in R
    <3> HIDE DEF UpTo
    <3> QED
      BY <1>1, <2>1 DEF StrictSubsetOrdering
  <2> QED
    BY <1>4, <1>5, <2>2
<1> QED
  BY <1>6

LEMMA GreatestUpTo ==
  ASSUME NEW n \in Nat, NEW S, S \subseteq 0..n, S # {}
  PROVE  \E k \in S : \A l \in S : l <= k
<1> DEFINE T == {n - k : k \in S}
<1>1. T \subseteq Nat /\ T # {}
  <2>1. \A k \in S : n - k \in Nat
    OBVIOUS
  <2> QED
    BY <2>1
<1>2. PICK m \in T : \A l \in T : m <= l
  <2> HIDE DEF T
  <2> QED
    BY <1>1, LeastNatural
<1>3. PICK k \in S : m = n - k
  BY <1>2
<1>4. ASSUME NEW l \in S
      PROVE  l <= k
  <2>1. m <= n - l /\ l \in Int /\ k \in Int
    BY <1>2
  <2> QED
    BY ONLY <1>3, <2>1, n \in Nat
<1> QED
  BY <1>4
-----------------------------------------------------------------------------
(* Insertion.  t is s with x put after its first p elements. *)
IsInsertion(t, s, p, x) ==
  /\ p \in 0..Len(s)
  /\ Len(t) = Len(s) + 1
  /\ \A k \in 1..p : t[k] = s[k]
  /\ t[p + 1] = x
  /\ \A k \in (p + 1)..Len(s) : t[k + 1] = s[k]

LEMMA InsertAtInserts ==
  ASSUME NEW A, NEW s \in Seq(A), NEW x \in A, NEW p \in 0..Len(s)
  PROVE  InsertAt(s, p + 1, x) \in Seq(A) /\ IsInsertion(InsertAt(s, p + 1, x), s, p, x)
<1> DEFINE n == Len(s)
           a == SubSeq(s, 1, p)
           b == SubSeq(s, p + 1, n)
           ax == a \o <<x>>
<1>1. n \in Nat /\ p \in 0..n /\ \A i \in 1..n : s[i] \in A
  BY LenProperties, ElementOfSeq
<1>2. a \in Seq(A) /\ Len(a) = p /\ \A i \in 1..p : a[i] = s[i]
  <2>1. 1 \in Int /\ p \in Int /\ \A i \in 1..p : s[i] \in A
    BY <1>1
  <2>2. /\ a \in Seq(A)
        /\ Len(a) = IF 1 <= p THEN p - 1 + 1 ELSE 0
        /\ \A i \in 1..(p - 1 + 1) : a[i] = s[1 + i - 1]
    BY <2>1, SubSeqProperties
  <2> HIDE DEF a
  <2> QED
    BY <1>1, <2>2
<1>3. b \in Seq(A) /\ Len(b) = n - p /\ \A i \in 1..(n - p) : b[i] = s[p + i]
  <2>1. p + 1 \in Int /\ n \in Int /\ \A i \in (p + 1)..n : s[i] \in A
    BY <1>1
  <2>2. /\ b \in Seq(A)
        /\ Len(b) = IF p + 1 <= n THEN n - (p + 1) + 1 ELSE 0
        /\ \A i \in 1..(n - (p + 1) + 1) : b[i] = s[(p + 1) + i - 1]
    BY <2>1, SubSeqProperties
  <2> HIDE DEF b
  <2>3. n - (p + 1) + 1 = n - p /\ \A i \in 1..(n - p) : (p + 1) + i - 1 = p + i
    BY <1>1
  <2>4. Len(b) = n - p
    <3>1. Len(b) = IF p + 1 <= n THEN n - (p + 1) + 1 ELSE 0
      BY <2>2
    <3>2. n \in Nat /\ p \in 0..n
      BY <1>1
    <3> HIDE DEF n
    <3> QED
      BY ONLY <3>1, <3>2
  <2>5. \A i \in 1..(n - p) : b[i] = s[(p + 1) + i - 1]
    BY <2>2, <2>3
  <2> QED
    BY <2>2, <2>3, <2>4, <2>5
<1>4. <<x>> \in Seq(A) /\ Len(<<x>>) = 1 /\ <<x>>[1] = x
  OBVIOUS
<1> HIDE DEF n, a, b
<1>5. /\ ax \in Seq(A) /\ Len(ax) = p + 1
      /\ \A i \in 1..(p + 1) : ax[i] = IF i <= p THEN a[i] ELSE <<x>>[i - p]
  BY <1>2, <1>4, ConcatProperties
<1>6. \A i \in 1..p : ax[i] = s[i]
  BY <1>1, <1>2, <1>5
<1>7. ax[p + 1] = x
  BY <1>1, <1>4, <1>5
<1> HIDE DEF ax
<1>8. /\ ax \o b \in Seq(A) /\ Len(ax \o b) = n + 1
      /\ \A i \in 1..(n + 1) : (ax \o b)[i] = IF i <= p + 1 THEN ax[i] ELSE b[i - (p + 1)]
  <2>1. /\ ax \o b \in Seq(A) /\ Len(ax \o b) = Len(ax) + Len(b)
        /\ \A i \in 1..(Len(ax) + Len(b)) :
             (ax \o b)[i] = IF i <= Len(ax) THEN ax[i] ELSE b[i - Len(ax)]
    BY <1>3, <1>5, ConcatProperties
  <2>2. Len(ax) = p + 1 /\ Len(b) = n - p /\ (p + 1) + (n - p) = n + 1
    BY <1>1, <1>3, <1>5
  <2> QED
    BY <2>1, <2>2
<1>9. InsertAt(s, p + 1, x) = ax \o b
  <2>1. (p + 1) - 1 = p
    BY <1>1
  <2> QED
    BY <2>1 DEF InsertAt, a, b, ax, n
<1>10. \A k \in 1..p : (ax \o b)[k] = s[k]
  BY <1>1, <1>6, <1>8
<1>11. (ax \o b)[p + 1] = x
  BY <1>1, <1>7, <1>8
<1>12. ASSUME NEW k \in (p + 1)..n
       PROVE  (ax \o b)[k + 1] = s[k]
  <2>1. /\ k + 1 \in 1..(n + 1) /\ ~(k + 1 <= p + 1)
        /\ (k + 1) - (p + 1) = k - p /\ k - p \in 1..(n - p) /\ p + (k - p) = k
    BY <1>1
  <2> QED
    BY <1>3, <1>8, <2>1
<1> QED
  BY <1>1, <1>8, <1>9, <1>10, <1>11, <1>12 DEF IsInsertion, n

(* The element goes right after the last one it is not less than. *)
LEMMA InsertedFacts ==
  ASSUME NEW A, NEW s \in Seq(A), NEW x \in A, NEW less
  PROVE  /\ Inserted(less, s, x) \in Seq(A)
         /\ \E p \in 0..Len(s) :
              /\ IsInsertion(Inserted(less, s, x), s, p, x)
              /\ p # 0 => <<x, s[p]>> \notin less
              /\ \A k \in (p + 1)..Len(s) : <<x, s[k]>> \in less
<1> DEFINE stops == {k \in DOMAIN s : <<x, s[k]>> \notin less}
           place == CHOOSE k \in stops \cup {0} : \A j \in stops : j <= k
<1>1. Len(s) \in Nat /\ DOMAIN s = 1..Len(s)
  BY LenProperties
<1>2. stops \cup {0} \subseteq 0..Len(s) /\ stops \cup {0} # {}
  BY <1>1
<1>3. PICK p \in stops \cup {0} : \A l \in stops \cup {0} : l <= p
  <2> HIDE DEF stops
  <2> QED
    BY <1>1, <1>2, GreatestUpTo
<1>4. place \in stops \cup {0} /\ \A j \in stops : j <= place
  BY <1>3
<1>5. Inserted(less, s, x) = InsertAt(s, place + 1, x)
  BY DEF Inserted
<1> HIDE DEF place
<1>6. place \in 0..Len(s)
  BY <1>2, <1>4
<1>7. place # 0 => <<x, s[place]>> \notin less
  BY <1>4
<1>8. ASSUME NEW k \in (place + 1)..Len(s)
      PROVE  <<x, s[k]>> \in less
  <2>1. k \in DOMAIN s /\ ~(k <= place)
    BY <1>1, <1>6
  <2> QED
    BY <1>4, <2>1
<1> QED
  BY <1>5, <1>6, <1>7, <1>8, InsertAtInserts

LEMMA InsertionRange ==
  ASSUME NEW A, NEW s \in Seq(A), NEW t \in Seq(A), NEW p, NEW x, IsInsertion(t, s, p, x)
  PROVE  Range(t) = Range(s) \cup {x}
<1>1. /\ Len(s) \in Nat /\ DOMAIN s = 1..Len(s) /\ DOMAIN t = 1..(Len(s) + 1)
      /\ p \in 0..Len(s)
  BY LenProperties DEF IsInsertion
<1>2. ASSUME NEW k \in DOMAIN t
      PROVE  t[k] \in Range(s) \cup {x}
  <2>1. CASE k <= p
    BY <1>1, <2>1 DEF IsInsertion, Range
  <2>2. CASE k = p + 1
    BY <2>2 DEF IsInsertion
  <2>3. CASE k > p + 1
    <3>1. k - 1 \in (p + 1)..Len(s) /\ k - 1 \in DOMAIN s /\ (k - 1) + 1 = k
      BY <1>1, <2>3
    <3>2. t[k] = s[k - 1]
      BY <3>1 DEF IsInsertion
    <3> QED
      BY <3>1, <3>2 DEF Range
  <2> QED
    BY <1>1, <2>1, <2>2, <2>3
<1>3. ASSUME NEW k \in DOMAIN s
      PROVE  s[k] \in Range(t)
  <2>1. CASE k <= p
    <3>1. k \in DOMAIN t /\ t[k] = s[k]
      BY <1>1, <2>1 DEF IsInsertion
    <3> QED
      BY <3>1 DEF Range
  <2>2. CASE k > p
    <3>1. k + 1 \in DOMAIN t /\ t[k + 1] = s[k]
      BY <1>1, <2>2 DEF IsInsertion
    <3> QED
      BY <3>1 DEF Range
  <2> QED
    BY <1>1, <2>1, <2>2
<1>4. x \in Range(t)
  <2>1. p + 1 \in DOMAIN t /\ t[p + 1] = x
    BY <1>1 DEF IsInsertion
  <2> QED
    BY <2>1 DEF Range
<1> QED
  BY <1>2, <1>3, <1>4 DEF Range

(* A strict order of all elements, and a sequence that is in it. *)
Orders(less, A) ==
  /\ \A x, y \in A : x # y => <<x, y>> \in less \/ <<y, x>> \in less
  /\ \A x, y, z \in A : <<x, y>> \in less /\ <<y, z>> \in less => <<x, z>> \in less
  /\ \A x \in A : <<x, x>> \notin less

Ascends(less, s) == \A j, k \in DOMAIN s : j < k => <<s[k], s[j]>> \notin less

LEMMA InsertedAscends ==
  ASSUME NEW A, NEW s \in Seq(A), NEW x \in A, NEW less, Orders(less, A), Ascends(less, s)
  PROVE  Ascends(less, Inserted(less, s, x))
<1> DEFINE t == Inserted(less, s, x)
<1>1. /\ t \in Seq(A)
      /\ \E p \in 0..Len(s) :
           /\ IsInsertion(t, s, p, x)
           /\ p # 0 => <<x, s[p]>> \notin less
           /\ \A k \in (p + 1)..Len(s) : <<x, s[k]>> \in less
  BY InsertedFacts
<1> HIDE DEF t
<1>2. PICK p \in 0..Len(s) : /\ IsInsertion(t, s, p, x)
                             /\ p # 0 => <<x, s[p]>> \notin less
                             /\ \A k \in (p + 1)..Len(s) : <<x, s[k]>> \in less
  BY <1>1
<1>3. /\ Len(s) \in Nat /\ DOMAIN s = 1..Len(s) /\ DOMAIN t = 1..(Len(s) + 1)
      /\ \A k \in 1..Len(s) : s[k] \in A
  BY <1>1, <1>2, LenProperties, ElementOfSeq DEF IsInsertion
<1>4. ASSUME NEW k \in 1..p
      PROVE  <<x, s[k]>> \notin less
  <2>1. k \in DOMAIN s /\ p \in DOMAIN s /\ s[k] \in A /\ s[p] \in A /\ <<x, s[p]>> \notin less
    BY <1>2, <1>3
  <2>2. CASE k = p
    BY <2>1, <2>2
  <2>3. CASE k < p
    <3>1. <<s[p], s[k]>> \notin less
      BY <2>1, <2>3 DEF Ascends
    <3> QED
      BY <2>1, <3>1 DEF Orders
  <2> QED
    BY <1>2, <2>2, <2>3
<1>5. ASSUME NEW k \in (p + 1)..Len(s)
      PROVE  <<s[k], x>> \notin less
  <2>1. <<x, s[k]>> \in less /\ s[k] \in A
    BY <1>2, <1>3
  <2> QED
    BY <2>1 DEF Orders
<1>6. ASSUME NEW j \in DOMAIN t, NEW k \in DOMAIN t, j < k
      PROVE  <<t[k], t[j]>> \notin less
  <2>1. j \in 1..p \/ j = p + 1 \/ j - 1 \in (p + 1)..Len(s)
    BY <1>2, <1>3
  <2>2. k \in 1..p \/ k = p + 1 \/ k - 1 \in (p + 1)..Len(s)
    BY <1>2, <1>3
  <2>3. \A i \in 1..p : t[i] = s[i] /\ i \in DOMAIN s
    BY <1>2, <1>3 DEF IsInsertion
  <2>4. t[p + 1] = x
    BY <1>2 DEF IsInsertion
  <2>5. \A i \in DOMAIN t : i - 1 \in (p + 1)..Len(s) => t[i] = s[i - 1] /\ i - 1 \in DOMAIN s
    <3>1. \A i \in DOMAIN t : (i - 1) + 1 = i
      BY <1>3
    <3> QED
      BY <1>2, <1>3, <3>1 DEF IsInsertion
  <2>6. CASE k \in 1..p
    <3>1. j \in 1..p
      BY <1>6, <1>3, <2>6
    <3> QED
      BY <1>6, <2>3, <2>6, <3>1 DEF Ascends
  <2>7. CASE k = p + 1
    <3>1. j \in 1..p
      BY <1>6, <1>3, <1>2, <2>7
    <3> QED
      BY <1>4, <2>3, <2>4, <2>7, <3>1
  <2>8. CASE k - 1 \in (p + 1)..Len(s)
    <3>1. t[k] = s[k - 1] /\ k - 1 \in DOMAIN s
      BY <2>5, <2>8
    <3>2. CASE j \in 1..p
      <4>1. j < k - 1
        BY <1>2, <1>3, <2>8, <3>2
      <4> QED
        BY <2>3, <3>1, <3>2, <4>1 DEF Ascends
    <3>3. CASE j = p + 1
      BY <1>5, <2>4, <2>8, <3>1, <3>3
    <3>4. CASE j - 1 \in (p + 1)..Len(s)
      <4>1. j - 1 < k - 1
        BY <1>6, <1>3
      <4> QED
        BY <2>5, <3>1, <3>4, <4>1 DEF Ascends
    <3> QED
      BY <2>1, <3>2, <3>3, <3>4
  <2> QED
    BY <2>2, <2>6, <2>7, <2>8
<1> QED
  BY <1>6 DEF Ascends, t

(* Sorting keeps what is sorted, and orders what can be ordered. *)
Prefix(s, n) == {s[k] : k \in 1..n}

LEMMA SortedFacts ==
  ASSUME NEW A, NEW s \in Seq(A), NEW less
  PROVE  /\ Sorted(less, s) \in Seq(A)
         /\ Range(Sorted(less, s)) = Range(s)
         /\ Orders(less, A) => Ascends(less, Sorted(less, s))
<1> DEFINE N == Len(s)
           S == Seq(A)
           Longer(t, n) == Inserted(less, t, s[n])
           next == [a \in S \X (1..N) |-> Longer(a[1], a[2])]
           Walked(w) == [n \in 0..N |-> IF n = 0 THEN << >> ELSE Longer(w[n - 1], n)]
           chosen == CHOOSE w : w = Walked(w)
<1>1. N \in Nat /\ << >> \in S /\ DOMAIN s = 1..N
  BY EmptySeq, LenProperties
<1>2. \A n \in 1..N : s[n] \in A
  BY <1>1, ElementOfSeq
<1>3. \A t \in S, n \in 1..N :
        /\ Longer(t, n) \in S
        /\ Range(Longer(t, n)) = Range(t) \cup {s[n]}
        /\ Orders(less, A) /\ Ascends(less, t) => Ascends(less, Longer(t, n))
  <2> TAKE t \in S, n \in 1..N
  <2>1. t \in Seq(A) /\ s[n] \in A
    BY <1>2
  <2>2. PICK p \in 0..Len(t) : IsInsertion(Inserted(less, t, s[n]), t, p, s[n])
    BY <2>1, InsertedFacts
  <2>3. Inserted(less, t, s[n]) \in Seq(A)
    BY <2>1, InsertedFacts
  <2>4. Range(Inserted(less, t, s[n])) = Range(t) \cup {s[n]}
    BY <2>1, <2>2, <2>3, InsertionRange
  <2> QED
    BY <2>1, <2>3, <2>4, InsertedAscends
<1>4. next \in [S \X (1..N) -> S]
  BY <1>3
<1>5. \A t \in S, n \in 1..N : next[<<t, n>>] = Longer(t, n)
  OBVIOUS
<1>6. Range(s) = Prefix(s, N)
  BY <1>1 DEF Range, Prefix
<1> HIDE DEF N, S, next, Longer, Walked, chosen
<1>7. PICK f \in [0..N -> S] : f[0] = << >> /\ \A n \in 1..N : f[n] = next[<<f[n - 1], n>>]
  <2>1. \E f : IsIteration(f, N, S, << >>, next)
    BY ONLY Zenon, <1>1, <1>4, Recursion
  <2> QED
    BY <2>1 DEF IsIteration
<1>8. \A n \in 1..N : f[n] = Longer(f[n - 1], n)
  <2>1. \A n \in 1..N : n - 1 \in 0..N
    BY <1>1
  <2> QED
    BY <1>5, <1>7, <2>1
<1>9. f = Walked(f)
  <2>1. \A n \in 0..N : n # 0 => n \in 1..N
    BY <1>1
  <2> QED
    BY <1>7, <1>8, <2>1 DEF Walked
<1>10. chosen = Walked(chosen)
  BY <1>9 DEF chosen
<1>11. Sorted(less, s) = chosen[N]
  BY DEF Sorted, N, Longer, Walked, chosen
<1>12. chosen[0] = << >> /\ \A n \in 1..N : chosen[n] = Longer(chosen[n - 1], n)
  BY <1>1, <1>10 DEF Walked
<1> DEFINE G == {n \in 0..N : /\ chosen[n] \in S
                              /\ Range(chosen[n]) = Prefix(s, n)
                              /\ Orders(less, A) => Ascends(less, chosen[n])}
<1>13. 0 \in G
  <2>1. DOMAIN << >> = {} /\ 1..0 = {} /\ 0 \in 0..N
    BY <1>1
  <2>2. Range(<< >>) = {} /\ Prefix(s, 0) = {} /\ Ascends(less, << >>)
    BY <2>1 DEF Range, Prefix, Ascends
  <2>3. chosen[0] \in S /\ chosen[0] = << >>
    BY <1>1, <1>12
  <2> QED
    BY <2>1, <2>2, <2>3
<1>14. ASSUME NEW n \in G, n \in 0..(N - 1)
       PROVE  n + 1 \in G
  <2>1. n \in Nat /\ n + 1 \in 1..N /\ n + 1 \in 0..N /\ (n + 1) - 1 = n
    BY <1>1, <1>14
  <2>2. chosen[n + 1] = Longer(chosen[n], n + 1)
    BY <1>12, <2>1
  <2>3. /\ chosen[n] \in S /\ Range(chosen[n]) = Prefix(s, n)
        /\ Orders(less, A) => Ascends(less, chosen[n])
    BY <1>14
  <2>4. /\ chosen[n + 1] \in S
        /\ Range(chosen[n + 1]) = Range(chosen[n]) \cup {s[n + 1]}
        /\ Orders(less, A) => Ascends(less, chosen[n + 1])
    BY <1>3, <2>1, <2>2, <2>3
  <2>5. Prefix(s, n + 1) = Prefix(s, n) \cup {s[n + 1]}
    <3>1. 1..(n + 1) = 1..n \cup {n + 1}
      BY ONLY <2>1
    <3> QED
      BY <3>1 DEF Prefix
  <2> QED
    BY <2>1, <2>3, <2>4, <2>5
<1>15. 0..N \subseteq G
  <2> HIDE DEF G
  <2> QED
    BY <1>1, <1>13, <1>14, Inductive
<1>16. N \in G
  BY <1>1, <1>15
<1> QED
  BY <1>6, <1>11, <1>16 DEF S
-----------------------------------------------------------------------------
(* The order of submission.  Evaluations with a time each, not too late    *)
(* for a number.                                                           *)
Datable(S) ==
  /\ S \subseteq Evaluation /\ S # {}
  /\ IsFiniteSet(S)
  /\ \A a, b \in S : a.submitted = b.submitted => a = b
  /\ \E n \in Nat : \A e \in S : e.submitted <= n

(* How many are newer than e. *)
Rank(S, e) == Cardinality({f \in S : f.submitted > e.submitted})

LEMMA RankGrows ==
  ASSUME NEW S, Datable(S)
  PROVE  /\ \A e \in S : Rank(S, e) \in 0..(Cardinality(S) - 1)
         /\ \A e, f \in S : f.submitted > e.submitted => Rank(S, f) < Rank(S, e)
<1> DEFINE Newer(e) == {f \in S : f.submitted > e.submitted}
<1>1. \A e \in S : e.submitted \in Nat
  BY DEF Datable, Evaluation
<1>2. \A e \in S : Newer(e) \in SUBSET S /\ e \notin Newer(e)
  BY <1>1
<1>3. \A e, f \in S : f.submitted > e.submitted => Newer(f) \cup {f} \in SUBSET Newer(e)
  BY <1>1
<1>4. \A e \in S : Rank(S, e) = Cardinality(Newer(e))
  BY DEF Rank
<1>5. IsFiniteSet(S) /\ Cardinality(S) \in Nat
  BY FS_CardinalityType DEF Datable
<1> HIDE DEF Newer
<1>6. \A e \in S : /\ IsFiniteSet(Newer(e))
                   /\ Cardinality(Newer(e)) \in Nat
                   /\ Cardinality(Newer(e) \cup {e}) = Cardinality(Newer(e)) + 1
  BY <1>2, <1>5, FS_Subset, FS_CardinalityType, FS_AddElement
<1>7. ASSUME NEW e \in S
      PROVE  Rank(S, e) \in 0..(Cardinality(S) - 1)
  <2>1. Newer(e) \cup {e} \in SUBSET S
    BY <1>2
  <2>2. Cardinality(Newer(e) \cup {e}) <= Cardinality(S)
    BY <1>5, <2>1, FS_Subset
  <2>3. Cardinality(Newer(e)) \in Nat /\ Cardinality(Newer(e)) + 1 <= Cardinality(S)
    BY <1>6, <2>2
  <2>4. Rank(S, e) = Cardinality(Newer(e)) /\ Cardinality(S) \in Nat
    BY <1>4, <1>5
  <2> QED
    BY ONLY <2>3, <2>4
<1>8. ASSUME NEW e \in S, NEW f \in S, f.submitted > e.submitted
      PROVE  Rank(S, f) < Rank(S, e)
  <2>1. Newer(f) \cup {f} \in SUBSET Newer(e)
    BY <1>3, <1>8
  <2>2. Cardinality(Newer(f) \cup {f}) <= Cardinality(Newer(e))
    BY <1>6, <2>1, FS_Subset
  <2>3. /\ Cardinality(Newer(f)) \in Nat /\ Cardinality(Newer(e)) \in Nat
        /\ Cardinality(Newer(f)) + 1 <= Cardinality(Newer(e))
    BY <1>6, <2>2
  <2>4. Rank(S, f) = Cardinality(Newer(f)) /\ Rank(S, e) = Cardinality(Newer(e))
    BY <1>4
  <2> QED
    BY ONLY <2>3, <2>4
<1> QED
  BY <1>7, <1>8

LEMMA NewestFirstFacts ==
  ASSUME NEW S, Datable(S)
  PROVE  NewestFirst(S) \in Seq(Evaluation) /\ Range(NewestFirst(S)) = S
<1> DEFINE N == Cardinality(S)
           P == 0..(N - 1)
           rank == [e \in S |-> Rank(S, e)]
           listed == [n \in 1..N |-> CHOOSE e \in S : Rank(S, e) = n - 1]
<1>1. /\ IsFiniteSet(S) /\ N \in Nat /\ S \subseteq Evaluation
      /\ \A e \in S : e.submitted \in Nat
      /\ \A a, b \in S : a.submitted = b.submitted => a = b
  BY FS_CardinalityType DEF Datable, Evaluation
<1>2. \A e \in S : Rank(S, e) \in P
  BY RankGrows
<1>3. ASSUME NEW a \in S, NEW b \in S, Rank(S, a) = Rank(S, b)
      PROVE  a = b
  <2>1. Rank(S, a) \in Int /\ Rank(S, b) \in Int
    BY <1>2
  <2>2. ~(a.submitted > b.submitted) /\ ~(b.submitted > a.submitted)
    BY <1>3, <2>1, RankGrows
  <2> QED
    BY <1>1, <2>2
<1>4. rank \in Injection(S, P)
  BY <1>2, <1>3 DEF Injection, IsInjective
<1>5. IsFiniteSet(P) /\ Cardinality(P) = N
  <2>1. 0 \in Int /\ N - 1 \in Int /\ (IF 0 > N - 1 THEN 0 ELSE (N - 1) - 0 + 1) = N
    BY <1>1
  <2> QED
    BY <2>1, FS_Interval
<1>6. rank \in Surjection(S, P)
  <2> HIDE DEF rank, P
  <2> QED
    BY <1>4, <1>5, FS_Injection
<1>7. \A n \in P : \E e \in S : Rank(S, e) = n
  BY <1>6 DEF Surjection
<1>8. \A n \in 1..N : n - 1 \in P
  BY <1>1
<1>9. NewestFirst(S) = listed
  BY DEF NewestFirst, Rank
<1>10. \A n \in 1..N : listed[n] \in S /\ Rank(S, listed[n]) = n - 1
  BY <1>7, <1>8
<1> HIDE DEF listed, P
<1>11. listed \in Seq(Evaluation) /\ DOMAIN listed = 1..N
  <2>1. listed = [n \in 1..N |-> listed[n]]
    BY DEF listed
  <2>2. listed \in [1..N -> Evaluation]
    BY <1>1, <1>10, <2>1
  <2> QED
    BY <1>1, <2>2
<1>12. Range(listed) \subseteq S
  BY <1>10, <1>11 DEF Range
<1>13. ASSUME NEW e \in S
       PROVE  e \in Range(listed)
  <2> DEFINE n == Rank(S, e) + 1
  <2>1. n \in 1..N /\ n - 1 = Rank(S, e)
    BY <1>1, <1>2 DEF P
  <2>2. listed[n] = e
    BY <1>3, <1>10, <2>1
  <2> HIDE DEF n
  <2> QED
    BY <1>11, <2>1, <2>2 DEF Range
<1> QED
  BY <1>9, <1>11, <1>12, <1>13

LEMMA LatestOfDatable ==
  ASSUME NEW S, Datable(S)
  PROVE  Latest({e.submitted : e \in S}) \in Nat
<1> DEFINE times == {e.submitted : e \in S}
<1>1. PICK n \in Nat : \A e \in S : e.submitted <= n
  BY DEF Datable
<1>2. times \subseteq 0..n /\ times # {}
  <2>1. \A e \in S : e.submitted \in 0..n
    BY <1>1 DEF Datable, Evaluation
  <2> QED
    BY <2>1 DEF Datable
<1> HIDE DEF times
<1>3. PICK t \in times : \A l \in times : l <= t
  BY <1>2, GreatestUpTo
<1>4. Latest(times) \in times
  BY <1>3 DEF Latest
<1> QED
  BY <1>2, <1>4 DEF times
-----------------------------------------------------------------------------
(* The order of rounds, and of evaluations. *)
BeforePairs == {pair \in Rounds \X Rounds : Before(pair[1], pair[2])}
LessPairs(S) == {pair \in S \X S : Less(pair[1], pair[2])}

LEMMA BeforePrecedes ==
  ASSUME NEW a \in Rounds, NEW b \in Rounds
  PROVE  /\ Before(a, b) <=> Precedes(a, b)
         /\ ~Precedes(a, a)
         /\ a # b => Precedes(a, b) \/ Precedes(b, a)
         /\ ~(Precedes(a, b) /\ Precedes(b, a))
<1>1. /\ a.number \in Nat /\ a.place \in Nat /\ b.number \in Nat /\ b.place \in Nat
      /\ a # b => a.place # b.place
  BY ReportAssumption DEF Round
<1>2. Before(a, b) <=> Precedes(a, b)
  BY <1>1 DEF Before, Precedes
<1>3. ~Precedes(a, a)
  BY <1>1 DEF Precedes
<1>4. a # b => Precedes(a, b) \/ Precedes(b, a)
  BY <1>1 DEF Precedes
<1>5. ~(Precedes(a, b) /\ Precedes(b, a))
  BY <1>1 DEF Precedes
<1> QED
  BY <1>2, <1>3, <1>4, <1>5

LEMMA RoundsOrder ==
  ASSUME NEW names \in SUBSET Rounds, Orderable(names)
  PROVE  Orders(BeforePairs, names)
<1>1. \A a, b \in Rounds : <<a, b>> \in BeforePairs <=> Precedes(a, b)
  BY BeforePrecedes DEF BeforePairs
<1> QED
  BY <1>1, BeforePrecedes DEF Orders, Orderable

LEMMA EvaluationsOrder ==
  ASSUME NEW S, Datable(S), Orderable({e.round : e \in S})
  PROVE  Orders(LessPairs(S), S)
<1>1. \A e \in S : /\ e.round \in Rounds /\ e.interview \in Nat
                   /\ e.interviewer \in Nat /\ e.submitted \in Nat
  BY ReportAssumption DEF Datable, Evaluation
<1>2. \A a, b \in S : /\ ~Before(a.round, a.round)
                      /\ a.round # b.round => Before(a.round, b.round) \/ Before(b.round, a.round)
                      /\ ~(Before(a.round, b.round) /\ Before(b.round, a.round))
  BY <1>1, BeforePrecedes
<1>3. \A a, b, c \in S :
        Before(a.round, b.round) /\ Before(b.round, c.round) => Before(a.round, c.round)
  <2> TAKE a, b, c \in S
  <2>1. /\ a.round \in {e.round : e \in S} /\ b.round \in {e.round : e \in S}
        /\ c.round \in {e.round : e \in S}
    OBVIOUS
  <2>2. Precedes(a.round, b.round) /\ Precedes(b.round, c.round) => Precedes(a.round, c.round)
    BY <2>1 DEF Orderable
  <2> QED
    BY <1>1, <2>2, BeforePrecedes
<1>4. \A a, b \in S : <<a, b>> \in LessPairs(S) <=> Less(a, b)
  BY DEF LessPairs
<1>5. ASSUME NEW a \in S, NEW b \in S, a # b
      PROVE  Less(a, b) \/ Less(b, a)
  <2>1. a.submitted # b.submitted
    BY <1>5 DEF Datable
  <2> QED
    BY <1>1, <1>2, <2>1 DEF Less
<1>6. ASSUME NEW a \in S, NEW b \in S, NEW c \in S, Less(a, b), Less(b, c)
      PROVE  Less(a, c)
  <2>1. CASE a.round = b.round /\ b.round = c.round
    BY <1>1, <1>6, <2>1 DEF Less
  <2>2. CASE a.round # b.round /\ b.round = c.round
    BY <1>6, <2>2 DEF Less
  <2>3. CASE a.round = b.round /\ b.round # c.round
    BY <1>6, <2>3 DEF Less
  <2>4. CASE a.round # b.round /\ b.round # c.round
    <3>1. Before(a.round, b.round) /\ Before(b.round, c.round)
      BY <1>6, <2>4 DEF Less
    <3>2. Before(a.round, c.round)
      BY <1>3, <3>1
    <3>3. a.round # c.round
      BY <1>2, <3>2
    <3> QED
      BY <3>2, <3>3 DEF Less
  <2> QED
    BY <2>1, <2>2, <2>3, <2>4
<1>7. \A a \in S : ~Less(a, a)
  BY <1>1 DEF Less
<1> QED
  BY <1>4, <1>5, <1>6, <1>7 DEF Orders

(* The evaluations of a request, made from those of a view. *)
Ordered(S) == Sorted(LessPairs(S), NewestFirst(S))

RoundsOfAll(s) == [k \in DOMAIN s |-> s[k].round]

LEMMA OrderedFacts ==
  ASSUME NEW S, Datable(S)
  PROVE  /\ Ordered(S) \in Seq(Evaluation)
         /\ Range(Ordered(S)) = S
         /\ Orderable(Range(RoundsOfAll(Ordered(S)))) => InOrder(RoundsOfAll(Ordered(S)))
<1> DEFINE s == NewestFirst(S)
           t == Ordered(S)
<1>1. s \in Seq(Evaluation) /\ Range(s) = S /\ S \subseteq Evaluation
  BY NewestFirstFacts DEF Datable
<1>2. s \in Seq(S)
  <2>1. Len(s) \in Nat /\ DOMAIN s = 1..Len(s) /\ \A k \in 1..Len(s) : s[k] \in S
    BY <1>1, LenProperties DEF Range
  <2>2. s = [k \in 1..Len(s) |-> s[k]]
    BY <1>1
  <2>3. s \in [1..Len(s) -> S]
    BY <2>1, <2>2
  <2> QED
    BY <2>1, <2>3
<1>3. /\ t \in Seq(Evaluation)
      /\ Range(t) = S
  BY <1>1, SortedFacts DEF Ordered
<1>4. t \in Seq(S) /\ (Orders(LessPairs(S), S) => Ascends(LessPairs(S), t))
  BY <1>2, SortedFacts DEF Ordered
<1> HIDE DEF s, t
<1>5. Range(RoundsOfAll(t)) = {e.round : e \in S}
  BY <1>3 DEF Range, RoundsOfAll
<1>6. ASSUME Orderable(Range(RoundsOfAll(t)))
      PROVE  InOrder(RoundsOfAll(t))
  <2>1. Ascends(LessPairs(S), t)
    BY <1>4, <1>5, <1>6, EvaluationsOrder
  <2>2. SUFFICES ASSUME NEW j \in DOMAIN t, NEW k \in DOMAIN t, j < k,
                        Precedes(t[k].round, t[j].round)
                 PROVE  FALSE
    BY DEF InOrder, RoundsOfAll
  <2>3. t[j] \in S /\ t[k] \in S
    BY <1>3 DEF Range
  <2>4. t[j].round \in Rounds /\ t[k].round \in Rounds
    BY <1>1, <2>3 DEF Evaluation
  <2>5. Before(t[k].round, t[j].round) /\ t[k].round # t[j].round
    BY <2>2, <2>4, BeforePrecedes
  <2>6. <<t[k], t[j]>> \in LessPairs(S)
    BY <2>3, <2>5 DEF LessPairs, Less
  <2> QED
    BY <2>1, <2>2, <2>6 DEF Ascends
<1> QED
  BY <1>3, <1>6 DEF t
-----------------------------------------------------------------------------
(* What is stored, and what requests hold. *)
ProfilesKept ==
  /\ profile \in Profiles
  /\ changes \in Nat
  /\ candidate \in [Users -> Profiles \cup {NoProfile}]
  /\ \A u \in Users : phase[u] \in {"candidate", "view"} => candidate[u] \in Profiles

Submissions ==
  /\ submitted \in Nat
  /\ latest \subseteq Evaluation
  /\ IsFiniteSet(latest)
  /\ \A e \in latest : e.submitted <= submitted
  /\ \A a, b \in latest : a.submitted = b.submitted => a = b
  /\ \A a, b \in latest :
       a.interview = b.interview /\ a.interviewer = b.interviewer => a = b

(* A view is of evaluations that were the latest at one time, in the one   *)
(* order they have.                                                        *)
ViewsKept ==
  /\ phase \in [Users -> {"idle", "candidate", "view"}]
  /\ view \in [Users -> Seq(Evaluation)]
  /\ \A u \in Users : phase[u] = "view" =>
       Datable(Range(view[u])) /\ view[u] = NewestFirst(Range(view[u]))

RoundsKept ==
  /\ rounds \in [Users -> Seq(Rounds)]
  /\ \A u \in Users : Orderable(Range(rounds[u])) => InOrder(rounds[u])

MadeKept ==
  \A m \in made :
    /\ m.evidence \subseteq Evaluation
    /\ m.id = [candidate |-> m.candidate, evaluations |-> Ordered(m.evidence), by |-> m.by]

(* A report says what its id says. *)
ReportOf(id) ==
  [candidate |-> id.candidate, scores |-> id.evaluations, by |-> id.by,
   generated |-> Latest({e.submitted : e \in Range(id.evaluations)})]

ReportsKept ==
  \A id \in DOMAIN reports :
    /\ id \in Request
    /\ reports[id] = ReportOf(id)
    /\ reports[id] \in Stored
    /\ Orderable(Range(RoundsOf(reports[id]))) => InOrder(RoundsOf(reports[id]))

RInv == /\ ProfilesKept /\ Submissions /\ ViewsKept
        /\ RoundsKept /\ MadeKept /\ ReportsKept

LEMMA InitRInv == Init => RInv
<1> SUFFICES ASSUME Init
             PROVE  RInv
  OBVIOUS
<1>1. Submissions
  BY FS_EmptySet DEF Init, Submissions
<1>2. ViewsKept
  BY DEF Init, ViewsKept
<1>3. RoundsKept
  BY DEF Init, RoundsKept, InOrder
<1>4. MadeKept
  BY DEF Init, MadeKept
<1>5. ReportsKept
  BY DEF Init, ReportsKept
<1>6. ProfilesKept
  BY DEF Init, ProfilesKept
<1> QED
  BY <1>1, <1>2, <1>3, <1>4, <1>5, <1>6 DEF RInv

LEMMA ChangeStep ==
  ASSUME RInv, NEW p \in Profiles, ChangeCandidate(p)
  PROVE  RInv'
<1>1. /\ profile' = p /\ changes' = changes + 1
      /\ UNCHANGED <<latest, submitted, phase, candidate, view, rounds, reports, made>>
  BY DEF ChangeCandidate
<1>2. ProfilesKept'
  BY <1>1 DEF RInv, ProfilesKept
<1>3. Submissions' /\ ViewsKept' /\ RoundsKept' /\ MadeKept' /\ ReportsKept'
  BY <1>1 DEF RInv, Submissions, ViewsKept, RoundsKept, MadeKept, ReportsKept
<1> QED
  BY <1>2, <1>3 DEF RInv

LEMMA SubmitStep ==
  ASSUME RInv, NEW i \in Interviews, NEW p \in Interviewers, NEW round \in Rounds,
         Submit(i, p, round)
  PROVE  RInv'
<1> DEFINE new == [interview |-> i, interviewer |-> p, round |-> round,
                   submitted |-> submitted + 1]
           others == {e \in latest : e.interview # i \/ e.interviewer # p}
<1>1. /\ latest' = others \cup {new}
      /\ submitted' = submitted + 1
      /\ UNCHANGED <<profile, changes, phase, candidate, view, rounds, reports, made>>
  BY DEF Submit
<1>2. Submissions
  BY DEF RInv
<1>3. others \in SUBSET latest /\ submitted + 1 \in Nat /\ new \in Evaluation
  BY <1>2 DEF Submissions, Evaluation
<1>4. IsFiniteSet(latest')
  <2>1. IsFiniteSet(others)
    BY <1>2, <1>3, FS_Subset DEF Submissions
  <2> HIDE DEF others, new
  <2> QED
    BY <1>1, <2>1, FS_AddElement
<1>5. \A e \in others : e.submitted \in Nat /\ e.submitted <= submitted /\ e.submitted # submitted + 1
  BY <1>2, <1>3 DEF Submissions, Evaluation
<1>6. \A e \in latest' : e.submitted <= submitted'
  BY <1>1, <1>2, <1>3, <1>5 DEF Submissions
<1>7. \A a, b \in latest' : a.submitted = b.submitted => a = b
  BY <1>1, <1>2, <1>3, <1>5 DEF Submissions
<1>8. \A a, b \in latest' :
        a.interview = b.interview /\ a.interviewer = b.interviewer => a = b
  BY <1>1, <1>2, <1>3 DEF Submissions
<1>9. latest' \subseteq Evaluation /\ submitted' \in Nat
  BY <1>1, <1>2, <1>3 DEF Submissions
<1>10. Submissions'
  BY <1>4, <1>6, <1>7, <1>8, <1>9 DEF Submissions
<1>11. ProfilesKept' /\ ViewsKept' /\ RoundsKept' /\ MadeKept' /\ ReportsKept'
  BY <1>1 DEF RInv, ProfilesKept, ViewsKept, RoundsKept, MadeKept, ReportsKept
<1> QED
  BY <1>10, <1>11 DEF RInv

(* The profile is read; a request without evaluations ends. *)
LEMMA CandidateStep ==
  ASSUME RInv, NEW u \in Users, GetCandidate(u) \/ NothingToReport(u)
  PROVE  RInv'
<1>1. /\ UNCHANGED <<storeVars, view, rounds, reports, made>>
      /\ \/ /\ candidate' = [candidate EXCEPT ![u] = profile]
            /\ phase' = [phase EXCEPT ![u] = "candidate"]
         \/ /\ candidate' = [candidate EXCEPT ![u] = NoProfile]
            /\ phase' = [phase EXCEPT ![u] = "idle"]
  BY DEF GetCandidate, NothingToReport
<1>2. ProfilesKept'
  BY <1>1 DEF RInv, ProfilesKept, ViewsKept, storeVars
<1>3. ViewsKept'
  BY <1>1 DEF RInv, ViewsKept
<1>4. Submissions' /\ RoundsKept' /\ MadeKept' /\ ReportsKept'
  BY <1>1 DEF RInv, Submissions, RoundsKept, MadeKept, ReportsKept, storeVars
<1> QED
  BY <1>2, <1>3, <1>4 DEF RInv

LEMMA LatestDatable ==
  ASSUME Submissions, latest # {}
  PROVE  Datable(latest)
BY DEF Submissions, Datable

LEMMA ViewStep ==
  ASSUME RInv, NEW u \in Users, BuildCandidateLatestEvaluationsView(u)
  PROVE  RInv'
<1> DEFINE names == {e.round : e \in latest}
<1>1. /\ latest # {} /\ phase[u] = "candidate"
      /\ view' = [view EXCEPT ![u] = NewestFirst(latest)]
      /\ phase' = [phase EXCEPT ![u] = "view"]
      /\ UNCHANGED <<profile, changes, latest, submitted, candidate, reports, made>>
  BY DEF BuildCandidateLatestEvaluationsView, storeVars
<1>2. PICK order \in SetToSeqs(names) : rounds' = [rounds EXCEPT ![u] = Sorted(BeforePairs, order)]
  BY DEF BuildCandidateLatestEvaluationsView, BeforePairs
<1>3. /\ phase \in [Users -> {"idle", "candidate", "view"}] /\ view \in [Users -> Seq(Evaluation)]
      /\ rounds \in [Users -> Seq(Rounds)]
      /\ latest \subseteq Evaluation /\ IsFiniteSet(latest)
  BY DEF RInv, ViewsKept, RoundsKept, Submissions
<1>4. /\ NewestFirst(latest) \in Seq(Evaluation) /\ Range(NewestFirst(latest)) = latest
      /\ Datable(latest)
  BY <1>1, LatestDatable, NewestFirstFacts DEF RInv
<1>5. ViewsKept'
  <2>1. view'[u] = NewestFirst(latest) /\ phase'[u] = "view"
    BY <1>1, <1>3
  <2>2. \A v \in Users : v # u => view'[v] = view[v] /\ phase'[v] = phase[v]
    BY <1>1, <1>3
  <2>3. phase' \in [Users -> {"idle", "candidate", "view"}] /\ view' \in [Users -> Seq(Evaluation)]
    BY <1>1, <1>3, <1>4
  <2>4. ASSUME NEW v \in Users, phase'[v] = "view"
        PROVE  Datable(Range(view'[v])) /\ view'[v] = NewestFirst(Range(view'[v]))
    <3>1. CASE v = u
      BY <1>4, <2>1, <3>1
    <3>2. CASE v # u
      BY <2>2, <2>4, <3>2 DEF RInv, ViewsKept
    <3> QED
      BY <3>1, <3>2
  <2> QED
    BY <2>3, <2>4 DEF ViewsKept
<1>6. order \in Seq(Rounds)
  <2>1. names \subseteq Rounds
    BY <1>3 DEF Evaluation
  <2>2. IsFiniteSet(names)
    <3> DEFINE f == [e \in latest |-> e.round]
    <3>1. f \in Surjection(latest, names)
      BY DEF Surjection
    <3> HIDE DEF f, names
    <3> QED
      BY <1>3, <3>1, FS_Surjection
  <2>3. Cardinality(names) \in Nat
    BY <2>2, FS_CardinalityType
  <2>4. order \in [1..Cardinality(names) -> names]
    BY DEF SetToSeqs
  <2> HIDE DEF names
  <2> QED
    BY <2>1, <2>3, <2>4
<1>7. /\ Sorted(BeforePairs, order) \in Seq(Rounds)
      /\ Range(Sorted(BeforePairs, order)) = Range(order)
  BY <1>6, SortedFacts
<1>8. ASSUME Orderable(Range(Sorted(BeforePairs, order)))
      PROVE  InOrder(Sorted(BeforePairs, order))
  <2> DEFINE s == Sorted(BeforePairs, order)
  <2>1. Range(order) \in SUBSET Rounds
    BY <1>6 DEF Range
  <2>2. order \in Seq(Range(order))
    <3>1. /\ Len(order) \in Nat /\ DOMAIN order = 1..Len(order)
          /\ order = [k \in 1..Len(order) |-> order[k]]
      BY <1>6, LenProperties
    <3>2. order \in [1..Len(order) -> Range(order)]
      BY <3>1 DEF Range
    <3> QED
      BY <3>1, <3>2
  <2>3. Orders(BeforePairs, Range(order))
    BY <1>7, <1>8, <2>1, RoundsOrder
  <2>4. Ascends(BeforePairs, s)
    BY <2>2, <2>3, SortedFacts
  <2>5. \A k \in DOMAIN s : s[k] \in Rounds
    BY <1>7 DEF Range
  <2> HIDE DEF s
  <2>6. \A a, b \in Rounds : Precedes(a, b) => <<a, b>> \in BeforePairs
    BY BeforePrecedes DEF BeforePairs
  <2>7. InOrder(s)
    BY <2>4, <2>5, <2>6 DEF InOrder, Ascends
  <2> QED
    BY <2>7 DEF s
<1>9. RoundsKept'
  <2>1. rounds' \in [Users -> Seq(Rounds)] /\ rounds'[u] = Sorted(BeforePairs, order)
    BY <1>2, <1>3, <1>7
  <2>2. \A v \in Users : v # u => rounds'[v] = rounds[v]
    BY <1>2, <1>3
  <2>3. ASSUME NEW v \in Users, Orderable(Range(rounds'[v]))
        PROVE  InOrder(rounds'[v])
    <3>1. CASE v = u
      BY <1>8, <2>1, <2>3, <3>1
    <3>2. CASE v # u
      BY <2>2, <2>3, <3>2 DEF RInv, RoundsKept
    <3> QED
      BY <3>1, <3>2
  <2> QED
    BY <2>1, <2>3 DEF RoundsKept
<1>10. Submissions' /\ MadeKept' /\ ReportsKept'
  BY <1>1 DEF RInv, Submissions, MadeKept, ReportsKept
<1>11. ProfilesKept'
  BY <1>1, <1>3 DEF RInv, ProfilesKept
<1> QED
  BY <1>5, <1>9, <1>10, <1>11 DEF RInv

(* What a request makes of the evidence it has. *)
IdFor(c, S, u) == [candidate |-> c, evaluations |-> Ordered(S), by |-> u]

LEMMA GeneratedFrom ==
  ASSUME RInv, NEW u \in Users, Generate(u)
  PROVE  LET S == Range(view[u])
             id == IdFor(candidate[u], S, u) IN
         /\ Datable(S)
         /\ id \in Request
         /\ DOMAIN reports' = DOMAIN reports \cup {id}
         /\ reports'[id] = ReportOf(id)
         /\ \A k \in DOMAIN reports : k # id => reports'[k] = reports[k]
         /\ made' = made \cup {[evidence |-> S, candidate |-> candidate[u], by |-> u, id |-> id]}
<1> DEFINE S == Range(view[u])
           id == IdFor(candidate[u], S, u)
<1>1. Datable(S) /\ view[u] = NewestFirst(S)
  BY DEF RInv, ViewsKept, Generate
<1>2. Ordered(S) \in Seq(Evaluation) /\ Range(Ordered(S)) = S
  BY <1>1, OrderedFacts
<1>3. id \in Request
  <2>1. candidate[u] \in Profiles
    BY DEF RInv, ProfilesKept, Generate
  <2> QED
    BY <1>2, <2>1 DEF Request, IdFor
<1>4. normalizeRequest(u) = id
  BY <1>1 DEF normalizeRequest, IdFor, Ordered, LessPairs
<1> DEFINE report == [candidate |-> candidate[u], scores |-> id.evaluations, by |-> u,
                      generated |-> Latest({e.submitted : e \in S})]
<1>5. /\ reports' = [k \in DOMAIN reports \cup {id} |-> IF k = id THEN report ELSE reports[k]]
      /\ made' = made \cup {[evidence |-> S, candidate |-> candidate[u], by |-> u, id |-> id]}
  BY <1>4 DEF Generate, deterministicReportID
<1>6. report = ReportOf(id)
  BY <1>2 DEF ReportOf, IdFor
<1> HIDE DEF report, id, S
<1> QED
  BY <1>1, <1>3, <1>5, <1>6 DEF S, id

LEMMA ReportOfIsStored ==
  ASSUME NEW c \in Profiles, NEW S, Datable(S), NEW u \in Users
  PROVE  LET report == ReportOf(IdFor(c, S, u)) IN
         /\ report \in Stored
         /\ Orderable(Range(RoundsOf(report))) => InOrder(RoundsOf(report))
<1>1. /\ Ordered(S) \in Seq(Evaluation) /\ Range(Ordered(S)) = S
      /\ Orderable(Range(RoundsOfAll(Ordered(S)))) => InOrder(RoundsOfAll(Ordered(S)))
  BY OrderedFacts
<1>2. ReportOf(IdFor(c, S, u)) = [candidate |-> c, scores |-> Ordered(S), by |-> u,
                                  generated |-> Latest({e.submitted : e \in S})]
  BY <1>1 DEF ReportOf, IdFor
<1>3. Latest({e.submitted : e \in S}) \in Nat
  BY LatestOfDatable
<1>4. ReportOf(IdFor(c, S, u)) \in Stored
  BY <1>1, <1>2, <1>3 DEF Stored
<1>5. RoundsOf(ReportOf(IdFor(c, S, u))) = RoundsOfAll(Ordered(S))
  BY <1>2 DEF RoundsOf, RoundsOfAll
<1> QED
  BY <1>1, <1>4, <1>5

LEMMA GenerateStep ==
  ASSUME RInv, NEW u \in Users, Generate(u)
  PROVE  RInv'
<1> DEFINE S == Range(view[u])
           id == IdFor(candidate[u], S, u)
<1>1. /\ Datable(S) /\ id \in Request
      /\ DOMAIN reports' = DOMAIN reports \cup {id}
      /\ reports'[id] = ReportOf(id)
      /\ \A k \in DOMAIN reports : k # id => reports'[k] = reports[k]
      /\ made' = made \cup {[evidence |-> S, candidate |-> candidate[u], by |-> u, id |-> id]}
  BY GeneratedFrom
<1>2. /\ phase' = [phase EXCEPT ![u] = "idle"]
      /\ candidate' = [candidate EXCEPT ![u] = NoProfile]
      /\ view' = [view EXCEPT ![u] = << >>]
      /\ rounds' = [rounds EXCEPT ![u] = << >>]
      /\ UNCHANGED <<profile, changes, latest, submitted>>
  BY DEF Generate, storeVars
<1>3. /\ ReportOf(id) \in Stored
      /\ Orderable(Range(RoundsOf(ReportOf(id)))) => InOrder(RoundsOf(ReportOf(id)))
  <2>1. candidate[u] \in Profiles
    BY DEF RInv, ProfilesKept, Generate
  <2> QED
    BY <1>1, <2>1, ReportOfIsStored
<1>4. ReportsKept'
  <2> HIDE DEF id
  <2> QED
    BY <1>1, <1>3 DEF RInv, ReportsKept
<1>5. MadeKept'
  <2>1. S \subseteq Evaluation
    BY <1>1 DEF Datable
  <2>2. id = [candidate |-> candidate[u], evaluations |-> Ordered(S), by |-> u]
    BY DEF IdFor
  <2> HIDE DEF S, id
  <2> QED
    BY <1>1, <2>1, <2>2 DEF RInv, MadeKept
<1>6. ViewsKept'
  <2>1. << >> \in Seq(Evaluation)
    OBVIOUS
  <2> QED
    BY <1>2, <2>1 DEF RInv, ViewsKept
<1>7. RoundsKept'
  <2>1. << >> \in Seq(Rounds) /\ InOrder(<< >>)
    BY DEF InOrder
  <2> QED
    BY <1>2, <2>1 DEF RInv, RoundsKept
<1>8. Submissions'
  BY <1>2 DEF RInv, Submissions
<1>9. ProfilesKept'
  BY <1>2 DEF RInv, ProfilesKept, ViewsKept
<1> QED
  BY <1>4, <1>5, <1>6, <1>7, <1>8, <1>9 DEF RInv

LEMMA StepRInv == RInv /\ [Next]_vars => RInv'
<1> SUFFICES ASSUME RInv, [Next]_vars
             PROVE  RInv'
  OBVIOUS
<1>1. CASE UNCHANGED vars
  BY <1>1 DEF vars, storeVars, RInv, ProfilesKept, Submissions, ViewsKept, RoundsKept,
              MadeKept, ReportsKept
<1> QED
  BY <1>1, ChangeStep, SubmitStep, CandidateStep, ViewStep, GenerateStep DEF Next

LEMMA RInvHolds == Spec => []RInv
  BY InitRInv, StepRInv, PTL DEF Spec

(* Type correctness: the latest evaluations are one per interview and      *)
(* interviewer, and reports and ids are made of evaluations.               *)
THEOREM ReportTypeCorrect == Spec => []TypeOK
<1>1. RInv => TypeOK
  BY DEF RInv, ProfilesKept, Submissions, ViewsKept, RoundsKept, MadeKept, ReportsKept, TypeOK
<1> QED
  BY <1>1, RInvHolds, PTL

(* The same profile, evaluations and user give the same id, and with it    *)
(* the same order of scores: the evaluations come out of a map in any      *)
(* order, and are sorted by a time that no two of them share before        *)
(* anything else.  Another profile gives another id.                       *)
THEOREM GenerationIsStable == Spec => []RepeatedGenerationIsStable
<1>1. RInv => RepeatedGenerationIsStable
  <2> SUFFICES ASSUME RInv, NEW m \in made, NEW n \in made,
                      m.evidence = n.evidence, m.by = n.by
               PROVE  m.id = n.id <=> m.candidate = n.candidate
    BY DEF RepeatedGenerationIsStable
  <2>1. /\ m.id = IdFor(m.candidate, m.evidence, m.by)
        /\ n.id = IdFor(n.candidate, n.evidence, n.by)
    BY DEF RInv, MadeKept, IdFor
  <2>2. m.id.candidate = m.candidate /\ n.id.candidate = n.candidate
    BY <2>1 DEF IdFor
  <2> QED
    BY <2>1, <2>2
<1> QED
  BY <1>1, RInvHolds, PTL

(* Scores and rounds are in the order of rounds whenever their names have  *)
(* one, however many there are: insertion puts each where it belongs, by   *)
(* comparing it to neighbours only.                                        *)
THEOREM RoundsAreInOrder == Spec => []RoundsInOrder
<1>1. RInv => RoundsInOrder
  BY DEF RInv, ReportsKept, RoundsKept, RoundsInOrder
<1> QED
  BY <1>1, RInvHolds, PTL

(* A report under an id is never another one later: an id says everything  *)
(* that is in the report.                                                  *)
THEOREM ReportsStay == Spec => ReportsNeverChange
<1>1. RInv /\ [Next]_vars =>
        \A id \in DOMAIN reports : id \in DOMAIN reports' /\ reports'[id] = reports[id]
  <2> SUFFICES ASSUME RInv, [Next]_vars, NEW id \in DOMAIN reports
               PROVE  id \in DOMAIN reports' /\ reports'[id] = reports[id]
    OBVIOUS
  <2>1. CASE UNCHANGED reports
    BY <2>1
  <2>2. ASSUME NEW u \in Users, Generate(u)
        PROVE  id \in DOMAIN reports' /\ reports'[id] = reports[id]
    <3>1. reports[id] = ReportOf(id)
      BY DEF RInv, ReportsKept
    <3> QED
      BY <2>2, <3>1, GeneratedFrom
  <2>3. ASSUME NEW u \in Users,
               GetCandidate(u) \/ BuildCandidateLatestEvaluationsView(u) \/ NothingToReport(u)
        PROVE  UNCHANGED reports
    BY <2>3 DEF GetCandidate, BuildCandidateLatestEvaluationsView, NothingToReport
  <2>4. ASSUME NEW i \in Interviews, NEW p \in Interviewers, NEW r \in Rounds, Submit(i, p, r)
        PROVE  UNCHANGED reports
    BY <2>4 DEF Submit
  <2>5. ASSUME NEW p \in Profiles, ChangeCandidate(p)
        PROVE  UNCHANGED reports
    BY <2>5 DEF ChangeCandidate
  <2> QED
    BY <2>1, <2>2, <2>3, <2>4, <2>5 DEF Next, vars
<1> QED
  BY <1>1, RInvHolds, PTL DEF Spec, ReportsNeverChange
=============================================================================
