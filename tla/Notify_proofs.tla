---------------------------- MODULE Notify_proofs ----------------------------
(***************************************************************************)
(* Proofs about unlock notification, for any number of connections and     *)
(* callbacks: the blocked list is exact and grouped by callback, nobody    *)
(* waits in a circle, and nobody waits for a connection that has nothing   *)
(* left to release.                                                        *)
(***************************************************************************)
EXTENDS Notify, WellFoundedInduction, SequenceTheorems, TLAPS

-----------------------------------------------------------------------------
(* Natural numbers.                                                        *)

\* A set of natural numbers that is not empty has a least element.
LEMMA LeastExists ==
  ASSUME NEW T \in SUBSET Nat, T # {}
  PROVE  \E x \in T : \A y \in T : x <= y
<1>1. IsWellFoundedOn(OpToRel(<, Nat), Nat)
  BY NatLessThanWellFounded, Zenon
<1>2. PICK x \in T : \A y \in T : ~(<<y, x>> \in OpToRel(<, Nat))
  BY <1>1, WFMin, Zenon
<1>3. \A y \in T : ~(y < x)
  BY <1>2, Zenon DEF OpToRel
<1> QED BY <1>3

\* Induction up to a number, over a set.
LEMMA InductionUpTo ==
  ASSUME NEW N \in Nat, NEW S, 0 \in S, \A n \in 0..N : n < N /\ n \in S => n + 1 \in S
  PROVE  \A n \in 0..N : n \in S
<1> DEFINE T == {n \in 0..N : n \notin S}
<1>1. SUFFICES ASSUME T # {} PROVE FALSE
  OBVIOUS
<1>2. PICK x \in T : \A y \in T : x <= y
  <2>1. T \in SUBSET Nat
    OBVIOUS
  <2> HIDE DEF T
  <2> QED BY <1>1, <2>1, LeastExists
<1>3. x # 0 /\ x - 1 \in 0..N /\ x - 1 \notin T
  BY <1>2
<1>4. x - 1 \in S /\ x - 1 < N
  BY <1>2, <1>3
<1> QED BY <1>2, <1>3, <1>4

-----------------------------------------------------------------------------
(* The list operators.                                                     *)

\* KeptSoFar satisfies the equation that defines it.
LEMMA KeptSoFarDef ==
  ASSUME NEW list, Len(list) \in Nat, NEW S
  PROVE  KeptSoFar(list, S) =
           [n \in 0..Len(list) |->
              IF n = 0 THEN <<>>
              ELSE IF list[n] \in S THEN Append(KeptSoFar(list, S)[n - 1], list[n])
              ELSE KeptSoFar(list, S)[n - 1]]
<1> DEFINE Body(f, n) == IF n = 0 THEN <<>>
                         ELSE IF list[n] \in S THEN Append(f[n - 1], list[n]) ELSE f[n - 1]
           T == {m \in Nat : \E f : f = [n \in 0..m |-> Body(f, n)]}
<1>1. 0 \in T
  <2>1. [n \in 0..0 |-> <<>>] = [n \in 0..0 |-> Body([k \in 0..0 |-> <<>>], n)]
    OBVIOUS
  <2> QED BY <2>1, Zenon
<1>2. ASSUME NEW m \in 0..Len(list), m < Len(list), m \in T PROVE m + 1 \in T
  <2>1. PICK f : f = [n \in 0..m |-> Body(f, n)]
    BY <1>2, Zenon
  <2>2. \A n \in 0..m : f[n] = Body(f, n)
    <3> HIDE DEF Body
    <3> QED BY <2>1
  <2> DEFINE g == [n \in 0..(m + 1) |-> IF n <= m THEN f[n] ELSE Body(f, n)]
  <2>3. ASSUME NEW n \in 0..(m + 1) PROVE g[n] = Body(g, n)
    <3>1. g[n] = Body(f, n)
      <4> HIDE DEF Body
      <4> QED BY <2>2
    <3>2. n # 0 => g[n - 1] = f[n - 1]
      <4> HIDE DEF Body
      <4> QED OBVIOUS
    <3>3. Body(f, n) = Body(g, n)
      <4> HIDE DEF g
      <4> QED BY <3>2
    <3> QED BY <3>1, <3>3
  <2>4. g = [n \in 0..(m + 1) |-> Body(g, n)]
    <3>1. g = [n \in 0..(m + 1) |-> g[n]]
      <4> HIDE DEF Body
      <4> QED OBVIOUS
    <3> HIDE DEF g, Body
    <3> QED BY <2>3, <3>1, Zenon
  <2>5. m + 1 \in Nat
    OBVIOUS
  <2> HIDE DEF g, Body
  <2> QED BY <2>4, <2>5
<1>3. Len(list) \in T
  <2>1. \A n \in 0..Len(list) : n < Len(list) /\ n \in T => n + 1 \in T
    BY <1>2, Zenon
  <2> HIDE DEF T
  <2>2. \A n \in 0..Len(list) : n \in T
    BY <1>1, <2>1, InductionUpTo, SMTT(20)
  <2> QED BY <2>2
<1>4. PICK f : f = [n \in 0..Len(list) |-> Body(f, n)]
  BY <1>3
<1> QED BY <1>4, Zenon DEF KeptSoFar
\* A list names nobody twice.
Once(list) == \A i, j \in 1..Len(list) : list[i] = list[j] => i = j

\* x is in the list.
In(x, list) == \E i \in 1..Len(list) : list[i] = x

\* x stands before y in the list.
Precedes(x, y, list) == \E i, j \in 1..Len(list) : i < j /\ list[i] = x /\ list[j] = y

\* After n steps over a list, s holds the entries of S among the first n, in
\* their order.
Filtered(s, list, n, S, X) ==
  /\ s \in Seq(X)
  /\ \A k \in 1..Len(s) : \E a \in 1..n : s[k] = list[a] /\ list[a] \in S
  /\ \A a \in 1..n : list[a] \in S => \E k \in 1..Len(s) : s[k] = list[a]
  /\ \A p, q \in 1..Len(s) : p < q =>
       \E a, b \in 1..n : a < b /\ list[a] = s[p] /\ list[b] = s[q]

\* One step of the loop that keeps the entry it has come to.
LEMMA FilterKeeps ==
  ASSUME NEW X, NEW list \in Seq(X), NEW S, NEW n \in Nat, n + 1 \in 1..Len(list),
         NEW s, Filtered(s, list, n, S, X), list[n + 1] \in S
  PROVE  Filtered(Append(s, list[n + 1]), list, n + 1, S, X)
<1> DEFINE e == list[n + 1]
           t == Append(s, e)
           m == Len(s)
<1>1. s \in Seq(X) /\ e \in X /\ m \in Nat
  BY DEF Filtered
<1>2. t \in Seq(X) /\ Len(t) = m + 1 /\ t[m + 1] = e /\ \A k \in 1..m : t[k] = s[k]
  BY <1>1
<1> HIDE DEF t, m
<1>3. \A k \in 1..(m + 1) : k \in 1..m \/ k = m + 1
  BY <1>1
<1>4. \A k \in 1..m : k \in 1..(m + 1)
  BY <1>1
<1>5. \A a \in 1..(n + 1) : a \in 1..n \/ a = n + 1
  OBVIOUS
<1>6. \A a \in 1..n : a \in 1..(n + 1) /\ a < n + 1
  OBVIOUS
<1>7. n + 1 \in 1..(n + 1) /\ m + 1 \in 1..(m + 1)
  BY <1>1
<1> HIDE DEF e
<1>8. ASSUME NEW k \in 1..(m + 1)
      PROVE  \E a \in 1..(n + 1) : t[k] = list[a] /\ list[a] \in S
  <2>1. CASE k = m + 1
    BY <1>2, <1>7, <2>1 DEF e
  <2>2. CASE k \in 1..m
    <3>1. PICK a \in 1..n : s[k] = list[a] /\ list[a] \in S
      BY <2>2 DEF Filtered, m
    <3> QED BY <1>2, <1>6, <2>2, <3>1
  <2> QED BY <1>3, <2>1, <2>2
<1>9. ASSUME NEW a \in 1..(n + 1), list[a] \in S
      PROVE  \E k \in 1..(m + 1) : t[k] = list[a]
  <2>1. CASE a = n + 1
    BY <1>2, <1>7, <2>1 DEF e
  <2>2. CASE a \in 1..n
    <3>1. PICK k \in 1..m : s[k] = list[a]
      BY <1>9, <2>2 DEF Filtered, m
    <3> QED BY <1>2, <1>4, <3>1
  <2> QED BY <1>5, <2>1, <2>2
<1>10. ASSUME NEW p \in 1..(m + 1), NEW q \in 1..(m + 1), p < q
       PROVE  \E a, b \in 1..(n + 1) : a < b /\ list[a] = t[p] /\ list[b] = t[q]
  <2>0. p \in 1..m
    BY <1>1, <1>10
  <2>1. CASE q = m + 1
    <3>1. PICK a \in 1..n : s[p] = list[a]
      BY <2>0 DEF Filtered, m
    <3> QED BY <1>2, <1>6, <1>7, <2>0, <2>1, <3>1 DEF e
  <2>2. CASE q \in 1..m
    <3>1. PICK a \in 1..n, b \in 1..n : a < b /\ list[a] = s[p] /\ list[b] = s[q]
      BY <1>10, <2>0, <2>2, Zenon DEF Filtered, m
    <3> QED BY <1>2, <1>6, <2>0, <2>2, <3>1
  <2> QED BY <1>3, <2>1, <2>2
<1>11. Filtered(t, list, n + 1, S, X)
  BY <1>2, <1>8, <1>9, <1>10 DEF Filtered
<1> QED BY <1>11 DEF t, e

\* One step of the loop that drops the entry it has come to.
LEMMA FilterDrops ==
  ASSUME NEW X, NEW list \in Seq(X), NEW S, NEW n \in Nat, n + 1 \in 1..Len(list),
         NEW s, Filtered(s, list, n, S, X), list[n + 1] \notin S
  PROVE  Filtered(s, list, n + 1, S, X)
<1>1. \A a \in 1..(n + 1) : a \in 1..n \/ a = n + 1
  OBVIOUS
<1>2. \A a \in 1..n : a \in 1..(n + 1)
  OBVIOUS
<1>3. s \in Seq(X)
  BY DEF Filtered
<1>4. \A k \in 1..Len(s) : \E a \in 1..(n + 1) : s[k] = list[a] /\ list[a] \in S
  BY <1>2, Zenon DEF Filtered
<1>5. ASSUME NEW a \in 1..(n + 1), list[a] \in S PROVE \E k \in 1..Len(s) : s[k] = list[a]
  <2>1. CASE a = n + 1
    BY <1>5, <2>1
  <2>2. CASE a \in 1..n
    BY <1>5, <2>2, Zenon DEF Filtered
  <2> QED BY <1>1, <2>1, <2>2
<1>6. ASSUME NEW p \in 1..Len(s), NEW q \in 1..Len(s), p < q
      PROVE  \E a, b \in 1..(n + 1) : a < b /\ list[a] = s[p] /\ list[b] = s[q]
  <2>1. PICK a \in 1..n, b \in 1..n : a < b /\ list[a] = s[p] /\ list[b] = s[q]
    BY <1>6, Zenon DEF Filtered
  <2> QED BY <1>2, <2>1, Zenon
<1> QED BY <1>3, <1>4, <1>5, <1>6, Zenon DEF Filtered

\* What Kept keeps: the entries that are in the set, and their order.
LEMMA KeptIs ==
  ASSUME NEW X, NEW list \in Seq(X), NEW S
  PROVE  /\ Kept(list, S) \in Seq(X)
         /\ \A x : In(x, Kept(list, S)) <=> In(x, list) /\ x \in S
         /\ \A p, q \in 1..Len(Kept(list, S)) :
              p < q => Precedes(Kept(list, S)[p], Kept(list, S)[q], list)
<1> DEFINE N == Len(list)
           F == KeptSoFar(list, S)
           T == {n \in 0..N : Filtered(F[n], list, n, S, X)}
<1>0. N \in Nat
  OBVIOUS
<1>1. /\ F[0] = <<>>
      /\ \A n \in 1..N : F[n] = IF list[n] \in S THEN Append(F[n - 1], list[n]) ELSE F[n - 1]
  <2>1. F = [n \in 0..N |-> IF n = 0 THEN <<>>
                            ELSE IF list[n] \in S THEN Append(F[n - 1], list[n]) ELSE F[n - 1]]
    <3>1. KeptSoFar(list, S) =
             [n \in 0..Len(list) |->
                IF n = 0 THEN <<>>
                ELSE IF list[n] \in S THEN Append(KeptSoFar(list, S)[n - 1], list[n])
                ELSE KeptSoFar(list, S)[n - 1]]
      BY <1>0, KeptSoFarDef
    <3> QED BY <3>1, Zenon
  <2> HIDE DEF F, N
  <2>2. 0 \in 0..N /\ \A n \in 1..N : n \in 0..N /\ n # 0
    BY <1>0
  <2> QED BY <2>1, <2>2, Zenon
<1> HIDE DEF F
<1>2. 0 \in T
  <2>1. F[0] \in Seq(X) /\ 1..Len(F[0]) = {} /\ 1..0 = {}
    BY <1>1
  <2>2. Filtered(F[0], list, 0, S, X)
    BY <2>1, Zenon DEF Filtered
  <2> QED BY <1>0, <2>2
<1>3. ASSUME NEW n \in 0..N, n < N, n \in T PROVE n + 1 \in T
  <2>1. n + 1 \in 1..N /\ (n + 1) - 1 = n /\ n + 1 \in 0..N /\ n \in Nat
    BY <1>0, <1>3
  <2>2. Filtered(F[n], list, n, S, X)
    BY <1>3
  <2>3. Filtered(F[n + 1], list, n + 1, S, X)
    BY <1>1, <2>1, <2>2, FilterKeeps, FilterDrops
  <2> QED BY <2>1, <2>3
<1>4. N \in T
  <2>1. \A n \in 0..N : n < N /\ n \in T => n + 1 \in T
    BY <1>3
  <2> HIDE DEF T
  <2>2. \A n \in 0..N : n \in T
    BY <1>0, <1>2, <2>1, InductionUpTo, SMTT(20)
  <2> QED BY <1>0, <2>2
<1> DEFINE t == Kept(list, S)
<1>5. Filtered(t, list, N, S, X)
  BY <1>4 DEF Kept, F
<1> HIDE DEF t
<1>6. t \in Seq(X)
  BY <1>5 DEF Filtered
<1>7. ASSUME NEW x PROVE In(x, t) <=> In(x, list) /\ x \in S
  <2>1. ASSUME In(x, t) PROVE In(x, list) /\ x \in S
    <3>1. PICK k \in 1..Len(t) : t[k] = x
      BY <2>1 DEF In
    <3>2. PICK a \in 1..N : t[k] = list[a] /\ list[a] \in S
      BY <1>5, Zenon DEF Filtered
    <3> QED BY <3>1, <3>2 DEF In
  <2>2. ASSUME In(x, list), x \in S PROVE In(x, t)
    <3>1. PICK a \in 1..N : list[a] = x
      BY <2>2 DEF In
    <3> QED BY <1>5, <2>2, <3>1, Zenon DEF Filtered, In
  <2> QED BY <2>1, <2>2
<1>8. \A p, q \in 1..Len(t) : p < q => Precedes(t[p], t[q], list)
  BY <1>5, Zenon DEF Filtered, Precedes
<1> QED BY <1>6, <1>7, <1>8 DEF t

\* Entries with the same callback stand together.
Grouped(list, f) ==
  \A i, j, k \in 1..Len(list) :
    i < j /\ j < k /\ f[list[i]] = f[list[k]] => f[list[j]] = f[list[i]]

\* Taking entries off a list leaves it without repetition and grouped.
LEMMA KeptGrouped ==
  ASSUME NEW X, NEW list \in Seq(X), NEW S, NEW f, Once(list), Grouped(list, f)
  PROVE  Once(Kept(list, S)) /\ Grouped(Kept(list, S), f)
<1> DEFINE t == Kept(list, S)
<1>1. t \in Seq(X) /\ \A p, q \in 1..Len(t) : p < q => Precedes(t[p], t[q], list)
  BY KeptIs, Zenon
<1> HIDE DEF t
<1>2. Len(t) \in Nat /\ Len(list) \in Nat
  BY <1>1
<1>3. ASSUME NEW p \in 1..Len(t), NEW q \in 1..Len(t), p < q PROVE t[p] # t[q]
  <2>1. PICK a \in 1..Len(list), b \in 1..Len(list) : a < b /\ list[a] = t[p] /\ list[b] = t[q]
    BY <1>1, <1>3, Zenon DEF Precedes
  <2>2. list[a] = list[b] => a = b
    BY DEF Once
  <2> QED BY <1>2, <2>1, <2>2
<1>4. Once(t)
  <2> SUFFICES ASSUME NEW p \in 1..Len(t), NEW q \in 1..Len(t), t[p] = t[q] PROVE p = q
    BY DEF Once
  <2>1. ~(p < q) /\ ~(q < p)
    BY <1>3
  <2> QED BY <1>2, <2>1
<1>5. Grouped(t, f)
  <2> SUFFICES ASSUME NEW i \in 1..Len(t), NEW j \in 1..Len(t), NEW k \in 1..Len(t),
                      i < j, j < k, f[t[i]] = f[t[k]]
               PROVE  f[t[j]] = f[t[i]]
    BY DEF Grouped
  <2>1. PICK a \in 1..Len(list), b \in 1..Len(list) : a < b /\ list[a] = t[i] /\ list[b] = t[j]
    BY <1>1, Zenon DEF Precedes
  <2>2. PICK c \in 1..Len(list), d \in 1..Len(list) : c < d /\ list[c] = t[j] /\ list[d] = t[k]
    BY <1>1, Zenon DEF Precedes
  <2>3. b = c
    BY <2>1, <2>2 DEF Once
  <2>4. a < b /\ b < d /\ f[list[a]] = f[list[d]] => f[list[b]] = f[list[a]]
    BY SMTT(30) DEF Grouped
  <2> QED BY <2>1, <2>2, <2>3, <2>4
<1> QED BY <1>4, <1>5 DEF t

\* The list with an entry put at a place, entry by entry.
Inserted(list, at, e) == SubSeq(list, 1, at - 1) \o <<e>> \o SubSeq(list, at, Len(list))

\* The entries before the place stay, the others move up by one.
LEMMA InsertedIs ==
  ASSUME NEW X, NEW list \in Seq(X), NEW at \in 1..(Len(list) + 1), NEW e \in X
  PROVE  /\ Inserted(list, at, e) \in Seq(X)
         /\ Len(Inserted(list, at, e)) = Len(list) + 1
         /\ \A k \in 1..(Len(list) + 1) :
              Inserted(list, at, e)[k] = IF k < at THEN list[k]
                                         ELSE IF k = at THEN e ELSE list[k - 1]
<1> DEFINE N == Len(list)
           front == SubSeq(list, 1, at - 1)
           back == SubSeq(list, at, N)
<1>0. N \in Nat /\ at \in Nat /\ 1 <= at /\ at <= N + 1
  OBVIOUS
<1>1. front \in Seq(X) /\ Len(front) = at - 1 /\ \A k \in 1..(at - 1) : front[k] = list[k]
  BY <1>0
<1>2. back \in Seq(X) /\ Len(back) = N - at + 1 /\ \A k \in 1..(N - at + 1) : back[k] = list[at + k - 1]
  BY <1>0
<1> HIDE DEF front, back, N
<1> DEFINE mid == front \o <<e>>
<1>3. <<e>> \in Seq(X) /\ Len(<<e>>) = 1 /\ <<e>>[1] = e
  OBVIOUS
<1>4. /\ mid \in Seq(X) /\ Len(mid) = at
      /\ \A k \in 1..at : mid[k] = IF k < at THEN list[k] ELSE e
  BY <1>0, <1>1, <1>3
<1> HIDE DEF mid
<1> DEFINE all == mid \o back
<1>5. /\ all \in Seq(X) /\ Len(all) = Len(mid) + Len(back)
      /\ \A k \in 1..(Len(mid) + Len(back)) :
           all[k] = IF k <= Len(mid) THEN mid[k] ELSE back[k - Len(mid)]
  <2>1. mid \in Seq(X) /\ back \in Seq(X)
    BY <1>2, <1>4
  <2> QED BY <2>1, ConcatProperties, Zenon
<1> HIDE DEF all
<1>6. Len(all) = N + 1
  BY <1>0, <1>2, <1>4, <1>5
<1>7. ASSUME NEW k \in 1..(N + 1)
      PROVE  all[k] = IF k < at THEN list[k] ELSE IF k = at THEN e ELSE list[k - 1]
  <2>1. all[k] = IF k <= at THEN mid[k] ELSE back[k - at]
    BY <1>0, <1>2, <1>4, <1>5
  <2>2. CASE k <= at
    <3>1. k \in 1..at /\ all[k] = mid[k]
      BY <1>0, <2>1, <2>2
    <3> QED BY <1>0, <1>4, <3>1
  <2>3. CASE ~(k <= at)
    <3>1. k - at \in 1..(N - at + 1) /\ at + (k - at) - 1 = k - 1
      BY <1>0, <2>3
    <3>2. all[k] = back[k - at]
      BY <2>1, <2>3
    <3>3. back[k - at] = list[k - 1]
      BY <1>2, <3>1
    <3>4. ~(k < at) /\ k # at
      BY <1>0, <2>3
    <3> QED BY <3>2, <3>3, <3>4
  <2> QED BY <2>2, <2>3
<1>8. Inserted(list, at, e) = all
  BY DEF Inserted, all, mid, front, back, N
<1> QED BY <1>5, <1>6, <1>7, <1>8 DEF N

\* addToBlockedList puts an entry that is not on the list there, once, and
\* among the entries with its callback.
LEMMA AddedIs ==
  ASSUME NEW X, NEW list \in Seq(X), NEW f, NEW db \in X,
         ~In(db, list), Once(list), Grouped(list, f)
  PROVE  /\ addToBlockedList(list, f, db) \in Seq(X)
         /\ Once(addToBlockedList(list, f, db))
         /\ \A x : In(x, addToBlockedList(list, f, db)) <=> In(x, list) \/ x = db
         /\ Grouped(addToBlockedList(list, f, db), f)
<1> DEFINE N == Len(list)
           same == {i \in DOMAIN list : f[list[i]] = f[db]}
           at == IF same = {} THEN N + 1 ELSE CHOOSE i \in same : \A j \in same : i <= j
           u == Inserted(list, at, db)
<1>0. N \in Nat /\ DOMAIN list = 1..N
  OBVIOUS
<1>1. /\ at \in 1..(N + 1)
      /\ \A i \in 1..N : i < at => f[list[i]] # f[db]
      /\ at \in 1..N => f[list[at]] = f[db]
  <2>1. CASE same = {}
    BY <1>0, <2>1
  <2>2. CASE same # {}
    <3>1. same \subseteq Nat
      BY <1>0
    <3>2. \E i \in same : \A j \in same : i <= j
      <4> HIDE DEF same
      <4> QED BY <2>2, <3>1, LeastExists
    <3>3. at \in same /\ \A j \in same : at <= j
      <4> HIDE DEF same
      <4> QED BY <2>2, <3>2
    <3>4. \A i \in 1..N : f[list[i]] = f[db] => i \in same
      BY <1>0
    <3>5. at \in 1..N /\ f[list[at]] = f[db]
      BY <1>0, <3>3
    <3> HIDE DEF same, at
    <3> QED BY <1>0, <3>3, <3>4, <3>5
  <2> QED BY <2>1, <2>2, Zenon
<1>2. addToBlockedList(list, f, db) = u
  BY DEF addToBlockedList, Inserted
<1> HIDE DEF at, same
<1>3. /\ u \in Seq(X) /\ Len(u) = N + 1
      /\ \A k \in 1..(N + 1) : u[k] = IF k < at THEN list[k] ELSE IF k = at THEN db ELSE list[k - 1]
  <2>1. at \in 1..(Len(list) + 1)
    BY <1>1
  <2>2. /\ Inserted(list, at, db) \in Seq(X)
        /\ Len(Inserted(list, at, db)) = Len(list) + 1
        /\ \A k \in 1..(Len(list) + 1) :
             Inserted(list, at, db)[k] = IF k < at THEN list[k]
                                         ELSE IF k = at THEN db ELSE list[k - 1]
    BY <2>1, InsertedIs
  <2> QED BY <2>2
<1> HIDE DEF u
<1> DEFINE h(k) == IF k < at THEN k ELSE k - 1
<1>4. u[at] = db
  BY <1>0, <1>1, <1>3
<1>5. \A k \in 1..(N + 1) : k # at => h(k) \in 1..N /\ u[k] = list[h(k)]
  BY <1>0, <1>1, <1>3
<1>6. \A k, l \in 1..(N + 1) : k # at /\ l # at /\ k < l => h(k) < h(l)
  BY <1>0, <1>1
<1>7. \A k \in 1..(N + 1) : (k < at => h(k) < at) /\ (at < k => at <= h(k) /\ at \in 1..N)
  BY <1>0, <1>1
<1>8. \A i \in 1..N : \E k \in 1..(N + 1) : k # at /\ h(k) = i
  <2> SUFFICES ASSUME NEW i \in 1..N PROVE \E k \in 1..(N + 1) : k # at /\ h(k) = i
    OBVIOUS
  <2>1. CASE i < at
    BY <1>0, <1>1, <2>1
  <2>2. CASE ~(i < at)
    <3>1. i + 1 \in 1..(N + 1) /\ i + 1 # at /\ h(i + 1) = i
      BY <1>0, <1>1, <2>2
    <3> HIDE DEF h
    <3> QED BY <3>1
  <2> QED BY <2>1, <2>2
<1> HIDE DEF h
<1>9. \A i \in 1..N : list[i] # db
  BY DEF In
<1>10. Once(u)
  <2> SUFFICES ASSUME NEW k \in 1..(N + 1), NEW l \in 1..(N + 1), u[k] = u[l], k # l PROVE FALSE
    BY <1>3 DEF Once
  <2>1. k # at /\ l # at
    BY <1>4, <1>5, <1>9
  <2>2. h(k) = h(l)
    BY <1>5, <2>1 DEF Once
  <2>3. k < l \/ l < k
    BY <1>0
  <2>4. h(k) \in 1..N /\ h(l) \in 1..N
    BY <1>5, <2>1
  <2> QED BY <1>0, <1>6, <2>1, <2>2, <2>3, <2>4
<1>11. ASSUME NEW x PROVE In(x, u) <=> In(x, list) \/ x = db
  <2>1. ASSUME In(x, u) PROVE In(x, list) \/ x = db
    BY <1>3, <1>4, <1>5, <2>1 DEF In
  <2>2. ASSUME In(x, list) PROVE In(x, u)
    <3>1. PICK i \in 1..N : list[i] = x
      BY <2>2 DEF In
    <3>2. PICK k \in 1..(N + 1) : k # at /\ h(k) = i
      BY <1>8
    <3> QED BY <1>3, <1>5, <3>1, <3>2 DEF In
  <2>3. In(db, u)
    BY <1>1, <1>3, <1>4 DEF In
  <2> QED BY <2>1, <2>2, <2>3
<1>12. Grouped(u, f)
  <2> SUFFICES ASSUME NEW i \in 1..(N + 1), NEW j \in 1..(N + 1), NEW k \in 1..(N + 1),
                      i < j, j < k, f[u[i]] = f[u[k]]
               PROVE  f[u[j]] = f[u[i]]
    BY <1>3, Zenon DEF Grouped
  <2>0. \A a, b, c \in 1..N :
          a < b /\ b < c /\ f[list[a]] = f[list[c]] => f[list[b]] = f[list[a]]
    BY DEF Grouped
  <2>a. i < k /\ at \in Nat
    BY <1>0, <1>1
  <2>1. CASE i # at /\ j # at /\ k # at
    <3>1. h(i) \in 1..N /\ h(j) \in 1..N /\ h(k) \in 1..N /\ h(i) < h(j) /\ h(j) < h(k)
      BY <1>5, <1>6, <2>1
    <3> QED BY <1>5, <2>0, <2>1, <3>1
  <2>2. CASE i = at
    <3>1. j # at /\ k # at /\ at < j /\ at < k
      BY <2>a, <2>2
    <3>2. at \in 1..N /\ at <= h(j) /\ h(j) < h(k) /\ h(j) \in 1..N /\ h(k) \in 1..N
      BY <1>5, <1>6, <1>7, <3>1
    <3>3. f[list[at]] = f[db] /\ f[list[h(k)]] = f[db] /\ u[j] = list[h(j)]
      BY <1>1, <1>4, <1>5, <2>2, <3>1, <3>2
    <3>4. CASE h(j) = at
      BY <1>4, <2>2, <3>3, <3>4
    <3>5. CASE at < h(j)
      BY <1>4, <2>0, <2>2, <3>2, <3>3, <3>5
    <3> QED BY <1>0, <3>2, <3>4, <3>5
  <2>3. CASE j = at
    <3>1. i # at /\ k # at /\ i < at /\ at < k
      BY <2>a, <2>3
    <3>2. at \in 1..N /\ at <= h(k) /\ h(i) < at /\ h(i) \in 1..N /\ h(k) \in 1..N
      BY <1>5, <1>7, <3>1
    <3>3. f[list[at]] = f[db] /\ f[list[h(k)]] = f[list[h(i)]] /\ u[i] = list[h(i)]
      BY <1>1, <1>5, <3>1, <3>2
    <3>4. CASE h(k) = at
      BY <1>4, <2>3, <3>3, <3>4
    <3>5. CASE at < h(k)
      BY <1>4, <2>0, <2>3, <3>2, <3>3, <3>5
    <3> QED BY <1>0, <3>2, <3>4, <3>5
  <2>4. CASE k = at
    <3>1. i # at /\ i < at
      BY <2>a, <2>4
    <3>2. h(i) \in 1..N /\ h(i) < at /\ u[i] = list[h(i)]
      BY <1>5, <1>7, <3>1
    <3>3. f[list[h(i)]] # f[db]
      BY <1>1, <3>2
    <3> QED BY <1>4, <2>4, <3>2, <3>3
  <2> QED BY <2>1, <2>2, <2>3, <2>4
<1> QED BY <1>2, <1>3, <1>10, <1>11, <1>12

-----------------------------------------------------------------------------
(* Waiting in a circle.                                                    *)

All == Conns \cup {NoConn}

\* A set of connections that contains whatever its members wait for.
Closed(S, u) == S \in SUBSET All /\ \A x \in S \ {NoConn} : u[x] \in S

\* Nobody is among those they wait for.
Acyclic(u) == \A c \in Conns : u[c] # NoConn => \E S : Closed(S, u) /\ u[c] \in S /\ c \notin S

\* WaitsFor is the least closed set.
LEMMA WaitsForIs ==
  ASSUME NEW b, NEW c \in All
  PROVE  c \notin WaitsFor(b) <=> \E S : Closed(S, pUnlockConnection) /\ b \in S /\ c \notin S
BY Zenon DEF WaitsFor, Closed, All

\* Nobody new waits when a connection stops waiting.
LEMMA StopWaiting ==
  ASSUME NEW u \in [Conns -> All], NEW db \in Conns, Acyclic(u)
  PROVE  Acyclic([u EXCEPT ![db] = NoConn])
<1> DEFINE v == [u EXCEPT ![db] = NoConn]
<1>0. \A x \in Conns : v[x] = IF x = db THEN NoConn ELSE u[x]
  OBVIOUS
<1> HIDE DEF v
<1>1. SUFFICES ASSUME NEW c \in Conns, v[c] # NoConn
               PROVE  \E S : Closed(S, v) /\ v[c] \in S /\ c \notin S
  BY Zenon DEF Acyclic, v
<1>2. c # db /\ v[c] = u[c] /\ c # NoConn
  BY <1>0, <1>1, NotifyAssumption
<1>3. PICK S : Closed(S, u) /\ u[c] \in S /\ c \notin S
  BY <1>1, <1>2 DEF Acyclic
<1> DEFINE T == S \cup {NoConn}
<1>4. Closed(T, v)
  BY <1>0, <1>3 DEF Closed, All
<1>5. v[c] \in T /\ c \notin T
  BY <1>2, <1>3
<1> QED BY <1>4, <1>5

\* The check of unlock_notify is enough: with db outside a closed set around
\* the connection it starts to wait for, nobody waits in a circle after.
LEMMA StartWaiting ==
  ASSUME NEW u \in [Conns -> All], NEW db \in Conns, NEW b \in Conns, Acyclic(u),
         NEW W, Closed(W, u), b \in W, db \notin W
  PROVE  Acyclic([u EXCEPT ![db] = b])
<1> DEFINE v == [u EXCEPT ![db] = b]
<1>0. \A x \in Conns : v[x] = IF x = db THEN b ELSE u[x]
  OBVIOUS
<1> HIDE DEF v
<1>1. SUFFICES ASSUME NEW c \in Conns, v[c] # NoConn
               PROVE  \E S : Closed(S, v) /\ v[c] \in S /\ c \notin S
  BY Zenon DEF Acyclic, v
<1>2. ASSUME NEW S, Closed(S, u), db \notin S PROVE Closed(S, v)
  BY <1>0, <1>2 DEF Closed, All
<1>3. CASE c = db
  <2>1. Closed(W, v)
    BY <1>2
  <2> QED BY <1>0, <1>3, <2>1
<1>4. CASE c # db
  <2>1. v[c] = u[c]
    BY <1>0, <1>4
  <2>2. PICK S : Closed(S, u) /\ u[c] \in S /\ c \notin S
    BY <1>1, <2>1 DEF Acyclic
  <2>3. CASE c \in W
    <3>1. Closed(S \cap W, u)
      BY <2>2 DEF Closed
    <3>2. u[c] \in W
      BY <2>3, NotifyAssumption DEF Closed
    <3>3. Closed(S \cap W, v)
      BY <1>2, <3>1
    <3> QED BY <2>1, <2>2, <3>2, <3>3
  <2>4. CASE c \notin W
    <3>1. Closed(S \cup W, v)
      BY <1>0, <2>2 DEF Closed, All
    <3> QED BY <2>1, <2>2, <2>4, <3>1
  <2> QED BY <2>3, <2>4
<1> QED BY <1>3, <1>4

-----------------------------------------------------------------------------
(* The inductive invariant.                                                *)

Phases == {"idle", "locks", "released"}

NotifyTypes ==
  /\ sqlite3BlockedList \in Seq(Conns)
  /\ pBlockingConnection \in [Conns -> All] /\ pUnlockConnection \in [Conns -> All]
  /\ xUnlockNotify \in [Conns -> Callbacks \cup {NoCallback}]
  /\ phase \in [Conns -> Phases]

Waiting(c) == pBlockingConnection[c] # NoConn \/ pUnlockConnection[c] # NoConn

ListInv ==
  /\ Once(sqlite3BlockedList) /\ Grouped(sqlite3BlockedList, xUnlockNotify)
  /\ \A c \in Conns : In(c, sqlite3BlockedList) <=> Waiting(c)

\* A connection that is waited for, or that a callback may still be registered
\* for, has locks to release or has released them without telling.
HoldersInv ==
  ~panicked => \A c \in Conns :
    /\ pUnlockConnection[c] # NoConn => phase[pUnlockConnection[c]] # "idle"
    /\ pBlockingConnection[c] # NoConn => phase[pBlockingConnection[c]] # "idle"

CallbackInv == \A c \in Conns : pUnlockConnection[c] # NoConn <=> xUnlockNotify[c] # NoCallback

NotifyInv ==
  /\ NotifyTypes /\ ListInv /\ HoldersInv /\ CallbackInv
  /\ Acyclic(pUnlockConnection)

\* Nobody is blocked and nobody waits when the first connection opens.
LEMMA NotifyInitial == NotifyInit => NotifyInv
<1> SUFFICES ASSUME NotifyInit PROVE NotifyInv
  OBVIOUS
<1>1. Len(sqlite3BlockedList) = 0 /\ sqlite3BlockedList \in Seq(Conns) /\ 1..0 = {}
  BY DEF NotifyInit
<1>2. NotifyTypes
  BY <1>1 DEF NotifyInit, NotifyTypes, All, Phases
<1>3. Once(sqlite3BlockedList) /\ Grouped(sqlite3BlockedList, xUnlockNotify)
  BY <1>1 DEF Once, Grouped
<1>4. \A c \in Conns : ~In(c, sqlite3BlockedList) /\ ~Waiting(c)
  BY <1>1, Zenon DEF NotifyInit, In, Waiting
<1>5. HoldersInv /\ CallbackInv /\ Acyclic(pUnlockConnection)
  BY DEF NotifyInit, HoldersInv, CallbackInv, Acyclic
<1> QED BY <1>2, <1>3, <1>4, <1>5 DEF NotifyInv, ListInv

\* The list after entries have been taken off it.
LEMMA ListAfterRemoval ==
  ASSUME NotifyInv, NEW S, NEW f,
         \A c \in Conns \cap S : f[c] = xUnlockNotify[c]
  PROVE  LET t == Kept(sqlite3BlockedList, S)
         IN  /\ t \in Seq(Conns) /\ Once(t) /\ Grouped(t, f)
             /\ \A c \in Conns : In(c, t) <=> Waiting(c) /\ c \in S
<1> DEFINE list == sqlite3BlockedList
           t == Kept(list, S)
<1>1. list \in Seq(Conns) /\ Once(list) /\ Grouped(list, xUnlockNotify)
  BY DEF NotifyInv, NotifyTypes, ListInv
<1>2. t \in Seq(Conns) /\ \A x : In(x, t) <=> In(x, list) /\ x \in S
  BY <1>1, KeptIs, Zenon
<1>3. Once(t) /\ Grouped(t, xUnlockNotify)
  BY <1>1, KeptGrouped, Zenon
<1> HIDE DEF t, list
<1>4. \A k \in 1..Len(t) : f[t[k]] = xUnlockNotify[t[k]]
  <2> TAKE k \in 1..Len(t)
  <2>1. t[k] \in Conns
    BY <1>2
  <2>2. In(t[k], t)
    BY DEF In
  <2> QED BY <1>2, <2>1, <2>2
<1>5. Grouped(t, f)
  BY <1>3, <1>4 DEF Grouped
<1>6. \A c \in Conns : In(c, t) <=> Waiting(c) /\ c \in S
  BY <1>2, Zenon DEF NotifyInv, ListInv, list
<1> QED BY <1>2, <1>3, <1>5, <1>6 DEF t, list

\* unlock_notify with a nil callback keeps the invariant.
LEMMA NotifyCancel ==
  ASSUME NotifyInv, NEW db \in Conns, Cancel(db)
  PROVE  NotifyInv'
<1> USE NotifyAssumption
<1> DEFINE S == Conns \ {db}
<1>0. /\ pBlockingConnection' \in [Conns -> All] /\ pUnlockConnection' \in [Conns -> All]
      /\ xUnlockNotify' \in [Conns -> Callbacks \cup {NoCallback}] /\ phase' \in [Conns -> Phases]
      /\ \A c \in Conns :
           /\ pBlockingConnection'[c] = IF c = db THEN NoConn ELSE pBlockingConnection[c]
           /\ pUnlockConnection'[c] = IF c = db THEN NoConn ELSE pUnlockConnection[c]
           /\ xUnlockNotify'[c] = IF c = db THEN NoCallback ELSE xUnlockNotify[c]
  BY DEF NotifyInv, NotifyTypes, Cancel, All
<1>1. \A c \in Conns \cap S : xUnlockNotify'[c] = xUnlockNotify[c]
  BY <1>0
<1>2. sqlite3BlockedList' = Kept(sqlite3BlockedList, S)
  BY DEF Cancel, removeFromBlockedList
<1>3. /\ sqlite3BlockedList' \in Seq(Conns)
      /\ Once(sqlite3BlockedList') /\ Grouped(sqlite3BlockedList', xUnlockNotify')
      /\ \A c \in Conns : In(c, sqlite3BlockedList') <=> Waiting(c) /\ c \in S
  BY <1>1, <1>2, ListAfterRemoval, Zenon
<1>4. NotifyTypes'
  BY <1>0, <1>3 DEF NotifyTypes
<1>5. ListInv'
  BY <1>0, <1>3 DEF ListInv, Waiting
<1>6. HoldersInv' /\ CallbackInv'
  BY <1>0 DEF NotifyInv, HoldersInv, CallbackInv, Cancel
<1>7. Acyclic(pUnlockConnection')
  <2>1. pUnlockConnection' = [pUnlockConnection EXCEPT ![db] = NoConn]
    BY DEF Cancel
  <2> QED BY <2>1, StopWaiting, Zenon DEF NotifyInv, NotifyTypes
<1> QED BY <1>4, <1>5, <1>6, <1>7 DEF NotifyInv

\* unlock_notify that registers a callback keeps the invariant: what it checks
\* is enough for no circle to close.
LEMMA NotifyRegister ==
  ASSUME NotifyInv, NEW db \in Conns, NEW xNotify \in Callbacks, Register(db, xNotify)
  PROVE  NotifyInv'
<1> USE NotifyAssumption
<1> DEFINE S == Conns \ {db}
           b == pBlockingConnection[db]
           t == Kept(sqlite3BlockedList, S)
<1>0. /\ pUnlockConnection' \in [Conns -> All]
      /\ xUnlockNotify' \in [Conns -> Callbacks \cup {NoCallback}]
      /\ b \in Conns
      /\ \A c \in Conns :
           /\ pUnlockConnection'[c] = IF c = db THEN b ELSE pUnlockConnection[c]
           /\ xUnlockNotify'[c] = IF c = db THEN xNotify ELSE xUnlockNotify[c]
      /\ pBlockingConnection' = pBlockingConnection /\ phase' = phase /\ panicked' = panicked
  BY DEF NotifyInv, NotifyTypes, Register, All
<1>1. \A c \in Conns \cap S : xUnlockNotify'[c] = xUnlockNotify[c]
  BY <1>0
<1>2. /\ t \in Seq(Conns) /\ Once(t) /\ Grouped(t, xUnlockNotify')
      /\ \A c \in Conns : In(c, t) <=> Waiting(c) /\ c \in S
  BY <1>1, ListAfterRemoval, Zenon
<1>3. sqlite3BlockedList' = addToBlockedList(t, xUnlockNotify', db)
  BY DEF Register, removeFromBlockedList
<1> HIDE DEF t
<1>4. /\ sqlite3BlockedList' \in Seq(Conns)
      /\ Once(sqlite3BlockedList') /\ Grouped(sqlite3BlockedList', xUnlockNotify')
      /\ \A x : In(x, sqlite3BlockedList') <=> In(x, t) \/ x = db
  <2>1. ~In(db, t)
    BY <1>2
  <2> QED BY <1>2, <1>3, <2>1, AddedIs, Zenon
<1>5. NotifyTypes'
  BY <1>0, <1>4 DEF NotifyInv, NotifyTypes
<1>6. ListInv'
  BY <1>0, <1>2, <1>4 DEF ListInv, Waiting
<1>7. CallbackInv'
  BY <1>0 DEF NotifyInv, CallbackInv
<1>8. HoldersInv'
  BY <1>0 DEF NotifyInv, HoldersInv
<1>9. Acyclic(pUnlockConnection')
  <2>1. pUnlockConnection' = [pUnlockConnection EXCEPT ![db] = b]
    BY DEF Register
  <2>2. db \notin WaitsFor(b) /\ db \in All
    BY DEF Register, All
  <2>3. PICK W : Closed(W, pUnlockConnection) /\ b \in W /\ db \notin W
    BY <2>2, WaitsForIs
  <2>4. pUnlockConnection \in [Conns -> All] /\ Acyclic(pUnlockConnection)
    BY DEF NotifyInv, NotifyTypes
  <2> HIDE DEF b
  <2> QED BY <1>0, <2>1, <2>3, <2>4, StartWaiting, Zenon
<1> QED BY <1>5, <1>6, <1>7, <1>8, <1>9 DEF NotifyInv

\* ConnectionBlocked keeps the invariant.
LEMMA NotifyBlocked ==
  ASSUME NotifyInv, NEW db \in Conns, NEW blocker \in Conns, ConnectionBlocked(db, blocker)
  PROVE  NotifyInv'
<1> USE NotifyAssumption
<1> DEFINE list == sqlite3BlockedList
<1>0. /\ pBlockingConnection' \in [Conns -> All]
      /\ \A c \in Conns : pBlockingConnection'[c] = IF c = db THEN blocker ELSE pBlockingConnection[c]
      /\ blocker # NoConn /\ phase[blocker] = "locks"
      /\ pUnlockConnection' = pUnlockConnection /\ xUnlockNotify' = xUnlockNotify
      /\ phase' = phase /\ panicked' = panicked
  BY DEF NotifyInv, NotifyTypes, ConnectionBlocked, All
<1>1. list \in Seq(Conns) /\ Once(list) /\ Grouped(list, xUnlockNotify)
  BY DEF NotifyInv, NotifyTypes, ListInv
<1>2. /\ sqlite3BlockedList' \in Seq(Conns)
      /\ Once(sqlite3BlockedList') /\ Grouped(sqlite3BlockedList', xUnlockNotify)
      /\ \A x : In(x, sqlite3BlockedList') <=> In(x, list) \/ x = db
  <2>1. CASE Waiting(db)
    <3>1. sqlite3BlockedList' = list
      BY <2>1 DEF ConnectionBlocked, Waiting
    <3>2. In(db, list)
      BY <2>1 DEF NotifyInv, ListInv
    <3> HIDE DEF list
    <3> QED BY <1>1, <3>1, <3>2
  <2>2. CASE ~Waiting(db)
    <3>1. sqlite3BlockedList' = addToBlockedList(list, xUnlockNotify, db)
      BY <2>2 DEF ConnectionBlocked, Waiting
    <3>2. ~In(db, list)
      BY <2>2 DEF NotifyInv, ListInv
    <3> HIDE DEF list
    <3> QED BY <1>1, <3>1, <3>2, AddedIs, Zenon
  <2> QED BY <2>1, <2>2
<1>3. NotifyTypes'
  BY <1>0, <1>2 DEF NotifyInv, NotifyTypes
<1>4. ListInv'
  BY <1>0, <1>2 DEF NotifyInv, ListInv, Waiting
<1>5. HoldersInv'
  BY <1>0 DEF NotifyInv, HoldersInv
<1>6. CallbackInv' /\ Acyclic(pUnlockConnection')
  BY <1>0 DEF NotifyInv, CallbackInv
<1> QED BY <1>3, <1>4, <1>5, <1>6 DEF NotifyInv

\* Taking and releasing locks keeps the invariant: a connection that released
\* its locks is not idle before its ConnectionUnlocked.
LEMMA NotifyLocks ==
  ASSUME NotifyInv, NEW db \in Conns, TakeLocks(db) \/ ReleaseLocks(db)
  PROVE  NotifyInv'
<1>0. /\ UNCHANGED notifyVars /\ panicked' = panicked
      /\ phase' \in [Conns -> Phases]
      /\ \A c \in Conns : phase[c] # "idle" => phase'[c] # "idle"
  BY DEF NotifyInv, NotifyTypes, TakeLocks, ReleaseLocks, Phases
<1>1. NotifyTypes' /\ ListInv' /\ CallbackInv' /\ Acyclic(pUnlockConnection')
  BY <1>0 DEF NotifyInv, NotifyTypes, ListInv, Waiting, CallbackInv, notifyVars
<1>2. HoldersInv'
  BY <1>0 DEF NotifyInv, NotifyTypes, HoldersInv, notifyVars, All
<1> QED BY <1>1, <1>2 DEF NotifyInv

\* A step that ends in the call of a nil callback changes phase at most.
LEMMA NotifyPanic ==
  ASSUME NotifyInv, UNCHANGED notifyVars, panicked', phase' \in [Conns -> Phases]
  PROVE  NotifyInv'
BY DEF NotifyInv, NotifyTypes, ListInv, Waiting, CallbackInv, HoldersInv, notifyVars

\* ConnectionUnlocked keeps the invariant.
LEMMA NotifyUnlocked ==
  ASSUME NotifyInv, NEW db \in Conns, ConnectionUnlocked(db)
  PROVE  NotifyInv'
<1> USE NotifyAssumption
<1>0. /\ phase' \in [Conns -> Phases]
      /\ \A c \in Conns : c # db => phase'[c] = phase[c]
  BY DEF NotifyInv, NotifyTypes, ConnectionUnlocked, Phases
<1>1. CASE Notifies(db)
  <2>1. UNCHANGED notifyVars /\ panicked'
    BY <1>1 DEF ConnectionUnlocked
  <2> QED BY <1>0, <2>1, NotifyPanic
<1>2. CASE ~Notifies(db)
  <2> DEFINE S == {c \in Conns : pBlockingConnection'[c] # NoConn \/ pUnlockConnection[c] # NoConn}
  <2>1. /\ pBlockingConnection' \in [Conns -> All]
        /\ \A c \in Conns : pBlockingConnection'[c] = IF pBlockingConnection[c] = db THEN NoConn
                                                      ELSE pBlockingConnection[c]
        /\ pUnlockConnection' = pUnlockConnection /\ xUnlockNotify' = xUnlockNotify
        /\ panicked' = panicked
    BY <1>2 DEF NotifyInv, NotifyTypes, ConnectionUnlocked, Unblocked, All
  <2>2. sqlite3BlockedList' = Kept(sqlite3BlockedList, S)
    BY <1>2 DEF ConnectionUnlocked, Unblocked
  <2>3. /\ sqlite3BlockedList' \in Seq(Conns)
        /\ Once(sqlite3BlockedList') /\ Grouped(sqlite3BlockedList', xUnlockNotify)
        /\ \A c \in Conns : In(c, sqlite3BlockedList') <=> Waiting(c) /\ c \in S
    BY <2>2, ListAfterRemoval, Zenon
  <2>4. NotifyTypes'
    BY <1>0, <2>1, <2>3 DEF NotifyInv, NotifyTypes
  <2>5. ListInv'
    BY <2>1, <2>3 DEF NotifyInv, ListInv, Waiting
  <2>6. HoldersInv'
    BY <1>0, <1>2, <2>1 DEF NotifyInv, NotifyTypes, HoldersInv, Notifies, All
  <2>7. CallbackInv' /\ Acyclic(pUnlockConnection')
    BY <2>1 DEF NotifyInv, CallbackInv
  <2> QED BY <2>4, <2>5, <2>6, <2>7 DEF NotifyInv
<1> QED BY <1>1, <1>2

\* ConnectionClosed keeps the invariant.
LEMMA NotifyClosed ==
  ASSUME NotifyInv, NEW db \in Conns, ConnectionClosed(db)
  PROVE  NotifyInv'
<1> USE NotifyAssumption
<1>0. /\ phase' \in [Conns -> Phases]
      /\ \A c \in Conns : c # db => phase'[c] = phase[c]
  BY DEF NotifyInv, NotifyTypes, ConnectionClosed, Phases
<1>1. CASE Notifies(db)
  <2>1. UNCHANGED notifyVars /\ panicked'
    BY <1>1 DEF ConnectionClosed
  <2> QED BY <1>0, <2>1, NotifyPanic
<1>2. CASE ~Notifies(db)
  <2> DEFINE S == {c \in Conns \ {db} :
                     pBlockingConnection[c] \notin {NoConn, db} \/ pUnlockConnection[c] # NoConn}
  <2>1. /\ pBlockingConnection' \in [Conns -> All] /\ pUnlockConnection' \in [Conns -> All]
        /\ xUnlockNotify' \in [Conns -> Callbacks \cup {NoCallback}]
        /\ \A c \in Conns :
             /\ pBlockingConnection'[c] = IF c = db \/ pBlockingConnection[c] = db THEN NoConn
                                          ELSE pBlockingConnection[c]
             /\ pUnlockConnection'[c] = IF c = db THEN NoConn ELSE pUnlockConnection[c]
             /\ xUnlockNotify'[c] = IF c = db THEN NoCallback ELSE xUnlockNotify[c]
        /\ panicked' = panicked
    BY <1>2 DEF NotifyInv, NotifyTypes, ConnectionClosed, All
  <2>2. sqlite3BlockedList' = Kept(sqlite3BlockedList, S)
    BY <1>2 DEF ConnectionClosed
  <2>3. \A c \in Conns \cap S : xUnlockNotify'[c] = xUnlockNotify[c]
    BY <2>1
  <2>4. /\ sqlite3BlockedList' \in Seq(Conns)
        /\ Once(sqlite3BlockedList') /\ Grouped(sqlite3BlockedList', xUnlockNotify')
        /\ \A c \in Conns : In(c, sqlite3BlockedList') <=> Waiting(c) /\ c \in S
    BY <2>2, <2>3, ListAfterRemoval, Zenon
  <2>5. NotifyTypes'
    BY <1>0, <2>1, <2>4 DEF NotifyTypes
  <2>6. ListInv'
    BY <2>1, <2>4 DEF ListInv, Waiting
  <2>7. HoldersInv'
    BY <1>0, <1>2, <2>1 DEF NotifyInv, NotifyTypes, HoldersInv, Notifies, All
  <2>8. CallbackInv'
    BY <2>1 DEF NotifyInv, CallbackInv
  <2>9. Acyclic(pUnlockConnection')
    <3>1. pUnlockConnection' = [pUnlockConnection EXCEPT ![db] = NoConn]
      BY <1>2 DEF ConnectionClosed
    <3> QED BY <3>1, StopWaiting, Zenon DEF NotifyInv, NotifyTypes
  <2> QED BY <2>5, <2>6, <2>7, <2>8, <2>9 DEF NotifyInv
<1> QED BY <1>1, <1>2

\* Every step of notify.go and of the transactions around it keeps the invariant.
THEOREM NotifyInductive == NotifySpec => []NotifyInv
<1>1. NotifyInit => NotifyInv
  BY NotifyInitial
<1>2. NotifyInv /\ [NotifyNext]_vars => NotifyInv'
  <2> SUFFICES ASSUME NotifyInv, [NotifyNext]_vars PROVE NotifyInv'
    OBVIOUS
  <2>1. CASE NotifyNext
    BY <2>1, NotifyCancel, NotifyRegister, NotifyBlocked, NotifyLocks, NotifyUnlocked, NotifyClosed
       DEF NotifyNext
  <2>2. CASE UNCHANGED vars
    BY <2>2 DEF vars, notifyVars, NotifyInv, NotifyTypes, ListInv, Waiting, HoldersInv, CallbackInv
  <2> QED BY <2>1, <2>2
<1> QED BY <1>1, <1>2, PTL DEF NotifySpec

\* The blocked list of notify.go holds, once each, exactly the connections that
\* are blocked or wait for a callback, those with one callback next to each
\* other: whatever the order in which connections block, register, cancel,
\* unlock and close.
THEOREM NotifyListExact == NotifySpec => []BlockedListExact
<1>1. NotifyInv => BlockedListExact
  <2> SUFFICES ASSUME NotifyInv PROVE BlockedListExact
    OBVIOUS
  <2> DEFINE list == sqlite3BlockedList
  <2>1. list \in Seq(Conns) /\ DOMAIN list = 1..Len(list)
    BY DEF NotifyInv, NotifyTypes
  <2>2. \A i, j \in DOMAIN list : list[i] = list[j] => i = j
    BY <2>1 DEF NotifyInv, ListInv, Once
  <2>3. {list[i] : i \in DOMAIN list}
          = {c \in Conns : pBlockingConnection[c] # NoConn \/ pUnlockConnection[c] # NoConn}
    BY <2>1 DEF NotifyInv, ListInv, In, Waiting
  <2>4. \A i, j, k \in DOMAIN list :
          i < j /\ j < k /\ xUnlockNotify[list[i]] = xUnlockNotify[list[k]]
            => xUnlockNotify[list[j]] = xUnlockNotify[list[i]]
    BY <2>1 DEF NotifyInv, ListInv, Grouped
  <2> QED BY <2>2, <2>3, <2>4 DEF BlockedListExact
<1> QED BY <1>1, NotifyInductive, PTL

\* unlock_notify never lets connections wait for each other in a circle: its
\* walk along pUnlockConnection refuses (SQLITE_LOCKED) every registration
\* that would close one.
THEOREM NotifyNoCycle == NotifySpec => []NoWaitCycle
<1>1. NotifyInv => NoWaitCycle
  <2> SUFFICES ASSUME NotifyInv, NEW c \in Conns, pUnlockConnection[c] # NoConn
               PROVE  c \notin WaitsFor(pUnlockConnection[c])
    BY DEF NoWaitCycle
  <2>1. c \in All
    BY DEF All
  <2>2. PICK S : Closed(S, pUnlockConnection) /\ pUnlockConnection[c] \in S /\ c \notin S
    BY DEF NotifyInv, Acyclic
  <2> QED BY <2>1, <2>2, WaitsForIs
<1> QED BY <1>1, NotifyInductive, PTL

\* No wakeup is lost: a connection that waits for a callback waits for one that
\* has its ConnectionUnlocked ahead of it, and it has a callback.
THEOREM NotifyHolder == NotifySpec => []WaitsForHolder
<1>1. NotifyInv => WaitsForHolder
  BY Zenon DEF NotifyInv, HoldersInv, CallbackInv, WaitsForHolder
<1> QED BY <1>1, NotifyInductive, PTL

=============================================================================
