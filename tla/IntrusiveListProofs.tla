------------------------ MODULE IntrusiveListProofs ------------------------
(***************************************************************************)
(* The doubly linked lists are queues, for any number of lists and items.  *)
(* The argument names the sequence that a list stands for: Chained says    *)
(* how head, tail, Prev, Next and Link lay a sequence out, each operation  *)
(* takes one layout to the next, and a walk along Next finds the sequence  *)
(* again.                                                                  *)
(***************************************************************************)
EXTENDS IntrusiveList, SequenceLemmas, FiniteSetTheorems

Pointer(S) == S \cup {NULL}

TypeOK ==
    /\ head \in [Lists -> Pointer(Items)]
    /\ tail \in [Lists -> Pointer(Items)]
    /\ Prev \in [Items -> Pointer(Items)]
    /\ Next \in [Items -> Pointer(Items)]
    /\ Link \in [Items -> Pointer(Lists)]

\* The list l is laid out as the sequence s.
Chained(l, s) ==
    /\ head[l] = IF Len(s) = 0 THEN NULL ELSE s[1]
    /\ tail[l] = IF Len(s) = 0 THEN NULL ELSE s[Len(s)]
    /\ \A k \in 1..Len(s) :
          /\ Link[s[k]] = l
          /\ Prev[s[k]] = IF k = 1 THEN NULL ELSE s[k - 1]
          /\ Next[s[k]] = IF k = Len(s) THEN NULL ELSE s[k + 1]

\* The lists are laid out as the sequences q, and everything else is unlinked.
LaidOut(q) ==
    /\ q \in [Lists -> Seq(Items)]
    /\ \A l \in Lists : Distinct(q[l]) /\ Chained(l, q[l])
    /\ \A i \in Items :
          IF Link[i] = NULL THEN Prev[i] = NULL /\ Next[i] = NULL
          ELSE Contains(q[Link[i]], i)

\* The inductive invariant.
ListInv == TypeOK /\ \E q : LaidOut(q)

-----------------------------------------------------------------------------
(* A walk finds the sequence *)

\* A sequence of different items is no longer than there are items.
LEMMA DistinctIsShort ==
    ASSUME NEW s \in Seq(Items), Distinct(s)
    PROVE  Len(s) <= Cardinality(Items)
<1> DEFINE n == Len(s)
<1>1. n \in Nat
  OBVIOUS
<1>2. s \in Injection(1..n, Items)
  <2>1. s \in [1..n -> Items]
    OBVIOUS
  <2>2. \A a, b \in 1..n : s[a] = s[b] => a = b
    BY DEF Distinct
  <2> QED
    BY <2>1, <2>2 DEF Injection, IsInjective
<1>3. Cardinality(1..n) = n
  <2>1. 1 \in Int /\ n \in Int /\ 1 <= n + 1 /\ n - 1 + 1 = n
    BY <1>1
  <2> HIDE DEF n
  <2>2. Cardinality(1..n) = IF 1 > n THEN 0 ELSE n - 1 + 1
    BY <2>1, FS_Interval
  <2> QED
    BY <1>1, <2>1, <2>2
<1>4. Cardinality(1..n) <= Cardinality(Items)
  BY <1>2, ItemsAssumption, FS_Injection
<1> QED
  BY <1>3, <1>4

\* From the head of a list a walk along Next finds the sequence that the list
\* is laid out as.
LEMMA WalkFinds ==
    ASSUME TypeOK, NEW q, LaidOut(q), NEW l \in Lists
    PROVE  Contents(l) = q[l]
<1> DEFINE N == Cardinality(Items)
           s == q[l]
           n == Len(s)
           P(f) == f = [k \in 0..N |-> IF k = 0 THEN head[l]
                                       ELSE IF f[k - 1] = NULL THEN NULL ELSE Next[f[k - 1]]]
           at == CHOOSE f : P(f)
           w == [k \in 0..N |-> IF k < n THEN s[k + 1] ELSE NULL]
<1>1. s \in Seq(Items) /\ n \in Nat /\ N \in Nat /\ n <= N
  <2>1. s \in Seq(Items) /\ Distinct(s)
    BY DEF LaidOut
  <2>2. N \in Nat
    BY ItemsAssumption, FS_CardinalityType
  <2>3. n \in Nat
    BY <2>1
  <2> HIDE DEF s
  <2>4. n <= N
    BY <2>1, DistinctIsShort
  <2> QED
    BY <2>1, <2>2, <2>3, <2>4
<1>2. /\ head[l] = IF n = 0 THEN NULL ELSE s[1]
      /\ \A k \in 1..n : Next[s[k]] = IF k = n THEN NULL ELSE s[k + 1]
  BY DEF LaidOut, Chained
<1>3. \A k \in 1..n : s[k] \in Items /\ s[k] # NULL
  BY <1>1, NullAssumption
<1> HIDE DEF s, n, N
<1>4. P(w)
  <2>1. ASSUME NEW k \in 0..N
        PROVE  w[k] = IF k = 0 THEN head[l]
                      ELSE IF w[k - 1] = NULL THEN NULL ELSE Next[w[k - 1]]
    <3>1. CASE k = 0
      <4>1. w[k] = IF n = 0 THEN NULL ELSE s[1]
        BY <1>1, <3>1
      <4> QED
        BY <1>2, <3>1, <4>1
    <3>2. CASE k # 0
      <4>1. k - 1 \in 0..N
        BY <1>1, <3>2
      <4>2. w[k - 1] = IF k - 1 < n THEN s[k] ELSE NULL
        BY <1>1, <4>1
      <4>3. w[k] = IF k < n THEN s[k + 1] ELSE NULL
        OBVIOUS
      <4>4. CASE k <= n
        <5>1. k \in 1..n /\ k - 1 < n
          BY <1>1, <3>2, <4>4
        <5>2. w[k - 1] = s[k] /\ s[k] # NULL
          BY <1>3, <4>2, <5>1
        <5>3. Next[s[k]] = IF k = n THEN NULL ELSE s[k + 1]
          BY <1>2, <5>1
        <5>4. w[k] = Next[s[k]]
          BY <1>1, <4>3, <4>4, <5>3
        <5> QED
          BY <3>2, <5>2, <5>4, Zenon
      <4>5. CASE ~ (k <= n)
        <5>1. w[k - 1] = NULL /\ w[k] = NULL
          BY <1>1, <4>2, <4>3, <4>5
        <5> QED
          BY <3>2, <5>1, Zenon
      <4> QED
        BY <4>4, <4>5
    <3> QED
      BY <3>1, <3>2
  <2> QED
    BY <2>1
<1>5. P(at)
  <2> HIDE DEF P
  <2> QED
    BY <1>4
<1>6. \A k \in 0..N : at[k] = w[k]
  <2> DEFINE G == {k \in 0..N : at[k] = w[k]}
  <2> HIDE DEF w, at
  <2>1. 0 \in G
    BY <1>1, <1>4, <1>5
  <2>2. ASSUME NEW k \in Nat, k < N, k \in G
        PROVE  k + 1 \in G
    <3>1. k + 1 \in 0..N /\ k + 1 # 0 /\ (k + 1) - 1 = k
      BY <1>1, <2>2
    <3>2. at[k] = w[k]
      BY <2>2
    <3>3. at[k + 1] = IF at[k] = NULL THEN NULL ELSE Next[at[k]]
      BY <1>5, <3>1
    <3>4. w[k + 1] = IF w[k] = NULL THEN NULL ELSE Next[w[k]]
      BY <1>4, <3>1
    <3> QED
      BY <3>1, <3>2, <3>3, <3>4
  <2> HIDE DEF G
  <2>3. \A k \in 0..N : k \in G
    BY <1>1, <2>1, <2>2, InductionUpTo
  <2> QED
    BY <2>3 DEF G
<1> DEFINE found == {k \in 0..N : at[k] # NULL}
<1>7. Contents(l) = [k \in 1..Cardinality(found) |-> at[k - 1]]
  BY DEF Contents, N
<1> HIDE DEF P, at
<1>8. Cardinality(found) = n
  <2>1. found = 0..(n - 1)
    BY <1>1, <1>3, <1>6
  <2>2. Cardinality(0..(n - 1)) = n
    <3>1. 0 \in Int /\ n - 1 \in Int
      BY <1>1
    <3>2. Cardinality(0..(n - 1)) = IF 0 > n - 1 THEN 0 ELSE (n - 1) - 0 + 1
      BY <3>1, FS_Interval
    <3> QED
      BY <1>1, <3>2
  <2> QED
    BY <2>1, <2>2
<1> HIDE DEF found
<1>9. \A k \in 1..n : at[k - 1] = s[k]
  <2> SUFFICES ASSUME NEW k \in 1..n
               PROVE  at[k - 1] = s[k]
    OBVIOUS
  <2>1. k - 1 \in 0..N /\ k - 1 < n /\ (k - 1) + 1 = k
    BY <1>1
  <2>2. w[k - 1] = s[(k - 1) + 1]
    BY <2>1
  <2> QED
    BY <1>6, <2>1, <2>2
<1>10. s = [k \in 1..n |-> s[k]]
  BY <1>1 DEF n
<1> QED
  BY <1>7, <1>8, <1>9, <1>10 DEF s

-----------------------------------------------------------------------------
(* Every operation takes a layout to a layout *)

\* What a layout says of the items of one list.
LEMMA LaidItems ==
    ASSUME TypeOK, NEW q, LaidOut(q), NEW l \in Lists
    PROVE  /\ q[l] \in Seq(Items) /\ Len(q[l]) \in Nat
           /\ Distinct(q[l]) /\ Chained(l, q[l])
           /\ \A k \in 1..Len(q[l]) : q[l][k] \in Items /\ q[l][k] # NULL /\ Link[q[l][k]] = l
           /\ l # NULL
           /\ tail[l] = NULL <=> Len(q[l]) = 0
<1>1. q[l] \in Seq(Items) /\ Distinct(q[l]) /\ Chained(l, q[l])
  BY DEF LaidOut
<1> DEFINE s == q[l]
<1>2. s \in Seq(Items) /\ Chained(l, s)
  BY <1>1
<1> HIDE DEF s
<1>3. Len(s) \in Nat /\ \A k \in 1..Len(s) : s[k] \in Items /\ s[k] # NULL /\ Link[s[k]] = l
  BY <1>2, NullAssumption DEF Chained
<1>4. tail[l] = NULL <=> Len(s) = 0
  BY <1>2, <1>3 DEF Chained
<1> QED
  BY <1>1, <1>3, <1>4, NullAssumption DEF s

\* A list whose ends and whose items are left alone stays as it is.
LEMMA ChainStays ==
    ASSUME NEW l, NEW s, Chained(l, s), head'[l] = head[l], tail'[l] = tail[l],
           \A k \in 1..Len(s) : /\ Link'[s[k]] = Link[s[k]]
                                /\ Prev'[s[k]] = Prev[s[k]]
                                /\ Next'[s[k]] = Next[s[k]]
    PROVE  Chained(l, s)'
BY DEF Chained

\* AddTail lays out the list with the item behind it.
LEMMA AddTailLays ==
    ASSUME TypeOK, NEW q, LaidOut(q), NEW l \in Lists, NEW i \in Items, AddTail(l, i)
    PROVE  /\ TypeOK'
           /\ LaidOut([q EXCEPT ![l] = Append(q[l], i)])'
           /\ ~ \E m \in Lists : Contains(q[m], i)
<1> DEFINE s == q[l]
           r == Append(s, i)
           n == Len(s)
           u == [q EXCEPT ![l] = r]
<1>1. /\ s \in Seq(Items) /\ n \in Nat /\ Distinct(s) /\ Chained(l, s)
      /\ \A k \in 1..n : s[k] \in Items /\ s[k] # NULL /\ Link[s[k]] = l
      /\ l # NULL
      /\ tail[l] = NULL <=> n = 0
  BY LaidItems
<1>2. Link[i] = NULL /\ i # NULL
  BY NullAssumption DEF AddTail
<1>3. q \in [Lists -> Seq(Items)]
  BY DEF LaidOut
<1> HIDE DEF s
<1>4. /\ r \in Seq(Items) /\ Len(r) = n + 1 /\ r[n + 1] = i
      /\ \A k \in 1..n : r[k] = s[k]
      /\ u \in [Lists -> Seq(Items)] /\ u[l] = r
      /\ \A m \in Lists : m # l => u[m] = q[m]
  BY <1>1, <1>3
<1> HIDE DEF r, n, u
<1>5. tail[l] \in Pointer(Items) /\ head[l] \in Pointer(Items)
      /\ tail[l] = (IF n = 0 THEN NULL ELSE s[n])
      /\ head[l] = (IF n = 0 THEN NULL ELSE s[1])
  BY <1>1 DEF TypeOK, Chained, n
<1>6. tail[l] # i
  BY <1>1, <1>2, <1>5
<1>7. /\ tail' = [tail EXCEPT ![l] = i]
      /\ head' = IF n = 0 THEN [head EXCEPT ![l] = i] ELSE head
      /\ Next' = IF n = 0 THEN [Next EXCEPT ![i] = NULL]
                 ELSE [[Next EXCEPT ![tail[l]] = i] EXCEPT ![i] = NULL]
      /\ Prev' = [Prev EXCEPT ![i] = tail[l]]
      /\ Link' = [Link EXCEPT ![i] = l]
  BY <1>1 DEF AddTail, Set
<1>8. TypeOK'
  <2>1. tail' \in [Lists -> Pointer(Items)] /\ head' \in [Lists -> Pointer(Items)]
    BY <1>7 DEF TypeOK, Pointer
  <2>2. Next' \in [Items -> Pointer(Items)]
    BY <1>7 DEF TypeOK, Pointer
  <2>3. Prev' \in [Items -> Pointer(Items)]
    BY <1>5, <1>7 DEF TypeOK, Pointer
  <2>4. Link' \in [Items -> Pointer(Lists)]
    BY <1>7 DEF TypeOK, Pointer
  <2> QED
    BY <2>1, <2>2, <2>3, <2>4 DEF TypeOK
<1>9. /\ tail'[l] = i
      /\ head'[l] = (IF n = 0 THEN i ELSE head[l])
      /\ \A m \in Lists : m # l => head'[m] = head[m] /\ tail'[m] = tail[m]
      /\ Link'[i] = l /\ Prev'[i] = tail[l] /\ Next'[i] = NULL
      /\ \A x \in Items : x # i =>
            /\ Link'[x] = Link[x] /\ Prev'[x] = Prev[x]
            /\ Next'[x] = IF x = tail[l] THEN i ELSE Next[x]
  <2>1. tail'[l] = i /\ head'[l] = (IF n = 0 THEN i ELSE head[l])
    BY <1>7 DEF TypeOK
  <2>2. \A m \in Lists : m # l => head'[m] = head[m] /\ tail'[m] = tail[m]
    BY <1>7 DEF TypeOK
  <2>3. Link'[i] = l /\ Prev'[i] = tail[l] /\ Next'[i] = NULL
    BY <1>7 DEF TypeOK
  <2>4. \A x \in Items : x # i => Link'[x] = Link[x] /\ Prev'[x] = Prev[x]
    BY <1>7 DEF TypeOK
  <2>5. ASSUME NEW x \in Items, x # i
        PROVE  Next'[x] = IF x = tail[l] THEN i ELSE Next[x]
    <3>1. CASE n = 0
      BY <1>1, <1>7, <2>5, <3>1, NullAssumption DEF TypeOK
    <3>2. CASE n # 0
      BY <1>7, <2>5, <3>2 DEF TypeOK
    <3> QED
      BY <3>1, <3>2
  <2> QED
    BY <2>1, <2>2, <2>3, <2>4, <2>5
<1>10. \A k \in 1..n : s[k] # i
  BY <1>1, <1>2
<1>11. Chained(l, r)'
  <2>1. ASSUME NEW k \in 1..n
        PROVE  /\ Link'[s[k]] = l
               /\ Prev'[s[k]] = IF k = 1 THEN NULL ELSE s[k - 1]
               /\ Next'[s[k]] = IF k = n THEN i ELSE s[k + 1]
    <3>1. Prev[s[k]] = (IF k = 1 THEN NULL ELSE s[k - 1])
          /\ Next[s[k]] = (IF k = n THEN NULL ELSE s[k + 1])
      BY <1>1 DEF Chained, n
    <3>2. s[k] = tail[l] <=> k = n
      <4>1. n \in 1..n /\ n # 0
        BY <1>1
      <4> QED
        BY <1>1, <1>5, <4>1 DEF Distinct, n
    <3> QED
      BY <1>1, <1>9, <1>10, <3>1, <3>2
  <2>2. head'[l] = r[1] /\ tail'[l] = r[n + 1]
    BY <1>1, <1>4, <1>5, <1>9
  <2>3. ASSUME NEW k \in 1..(n + 1)
        PROVE  /\ Link'[r[k]] = l
               /\ Prev'[r[k]] = IF k = 1 THEN NULL ELSE r[k - 1]
               /\ Next'[r[k]] = IF k = n + 1 THEN NULL ELSE r[k + 1]
    <3>1. CASE k = n + 1
      <4>1. k - 1 = n
        BY <1>1, <3>1
      <4>2. tail[l] = IF k = 1 THEN NULL ELSE r[k - 1]
        BY <1>1, <1>4, <1>5, <3>1, <4>1
      <4> QED
        BY <1>4, <1>9, <3>1, <4>2
    <3>2. CASE k # n + 1
      <4>1. k \in 1..n
        BY <1>1, <3>2
      <4>2. k # 1 => k - 1 \in 1..n
        BY <1>1, <4>1
      <4>3. k # n => k + 1 \in 1..n
        BY <1>1, <4>1
      <4>4. r[k] = s[k] /\ (k # 1 => r[k - 1] = s[k - 1])
        BY <1>4, <4>1, <4>2
      <4>5. r[k + 1] = IF k = n THEN i ELSE s[k + 1]
        BY <1>4, <4>3
      <4> QED
        BY <2>1, <3>2, <4>1, <4>4, <4>5
    <3> QED
      BY <3>1, <3>2
  <2> QED
    BY <1>1, <1>4, <2>2, <2>3 DEF Chained
<1>12. Distinct(r)
  <2>1. \A k \in 1..Len(r) : k \in 1..n \/ k = n + 1
    BY <1>1, <1>4
  <2> QED
    BY <1>1, <1>4, <1>10, <2>1 DEF Distinct, n
<1>13. \A x : Contains(r, x) <=> Contains(s, x) \/ x = i
  <2>1. /\ \A k \in 1..Len(r) : k \in 1..n \/ k = n + 1
        /\ \A k \in 1..n : k \in 1..Len(r)
        /\ n + 1 \in 1..Len(r)
    BY <1>1, <1>4
  <2> QED
    BY <1>4, <2>1 DEF Contains, n
<1>14. ASSUME NEW m \in Lists, m # l
       PROVE  Distinct(q[m]) /\ Chained(m, q[m])'
  <2>1. Distinct(q[m]) /\ Chained(m, q[m])
        /\ \A k \in 1..Len(q[m]) : q[m][k] \in Items /\ Link[q[m][k]] = m
        /\ m # NULL
    BY LaidItems
  <2> DEFINE p == q[m]
  <2>2. tail[l] # NULL => Link[tail[l]] = l
    BY <1>1, <1>5
  <2>3. \A k \in 1..Len(p) : p[k] \in Items /\ p[k] # i /\ p[k] # tail[l]
    BY <1>2, <1>14, <2>1, <2>2, NullAssumption
  <2>4. Chained(m, p)
    BY <2>1
  <2> HIDE DEF p
  <2>5. Chained(m, p)'
    BY <1>9, <1>14, <2>3, <2>4, ChainStays
  <2> QED
    BY <2>1, <2>5 DEF p
<1>15. ASSUME NEW m \in Lists
       PROVE  Distinct(u[m]) /\ Chained(m, u[m])'
  <2>1. CASE m = l
    BY <1>4, <1>11, <1>12, <2>1
  <2>2. CASE m # l
    BY <1>4, <1>14, <2>2
  <2> QED
    BY <2>1, <2>2
<1>16. ASSUME NEW x \in Items
       PROVE  IF Link'[x] = NULL THEN Prev'[x] = NULL /\ Next'[x] = NULL
              ELSE Contains(u[Link'[x]], x)
  <2>1. CASE x = i
    BY <1>1, <1>4, <1>9, <1>13, <2>1
  <2>2. CASE x # i
    <3>1. IF Link[x] = NULL THEN Prev[x] = NULL /\ Next[x] = NULL
          ELSE Contains(q[Link[x]], x)
      BY DEF LaidOut
    <3>2. Link[x] # NULL => Link[x] \in Lists
      BY DEF TypeOK, Pointer
    <3>3. CASE Link[x] = NULL
      <4>1. x # tail[l]
        BY <1>1, <1>5, <3>3, NullAssumption
      <4> QED
        BY <1>9, <2>2, <3>1, <3>3, <4>1
    <3>4. CASE Link[x] # NULL
      <4>1. Contains(u[Link[x]], x)
        BY <1>4, <1>13, <3>1, <3>2, <3>4 DEF s
      <4> QED
        BY <1>9, <2>2, <3>4, <4>1
    <3> QED
      BY <3>3, <3>4
  <2> QED
    BY <2>1, <2>2
<1>17. ASSUME NEW m \in Lists, Contains(q[m], i)
       PROVE  FALSE
  BY <1>2, <1>17, LaidItems DEF Contains
<1> QED
  BY <1>4, <1>8, <1>15, <1>16, <1>17 DEF LaidOut, u, r, s

\* RemoveFromWheel lays out the list without the item.
LEMMA RemoveLays ==
    ASSUME TypeOK, NEW q, LaidOut(q), NEW i \in Items, RemoveFromWheel(i),
           NEW l \in Lists, Link[i] = l
    PROVE  /\ TypeOK'
           /\ Contains(q[l], i)
           /\ LaidOut([q EXCEPT ![l] = Excluding(q[l], {i})])'
<1> DEFINE s == q[l]
           n == Len(s)
           before == Prev[i]
           after == Next[i]
<1>1. l \in Lists /\ l # NULL /\ Contains(s, i)
  BY DEF RemoveFromWheel, LaidOut, TypeOK, Pointer
<1>2. /\ s \in Seq(Items) /\ n \in Nat /\ Distinct(s) /\ Chained(l, s)
      /\ \A k \in 1..n : s[k] \in Items /\ s[k] # NULL /\ Link[s[k]] = l
  BY <1>1, LaidItems
<1>3. PICK k \in 1..n : s[k] = i
  BY <1>1 DEF Contains
<1> DEFINE r == LeavingOut(s, k)
           u == [q EXCEPT ![l] = r]
<1>4. /\ Excluding(s, {i}) = r /\ r \in Seq(Items) /\ Len(r) = n - 1
      /\ \A j \in 1..(n - 1) : r[j] = IF j < k THEN s[j] ELSE s[j + 1]
  <2> HIDE DEF s
  <2>1. Excluding(s, {s[k]}) = r /\ r \in Seq(Items) /\ Len(r) = n - 1
    BY <1>2, ExcludingOne
  <2> QED
    BY <1>3, <2>1 DEF LeavingOut
<1>5. q \in [Lists -> Seq(Items)]
  BY DEF LaidOut
<1>6. /\ head[l] = s[1] /\ tail[l] = s[n]
      /\ before = (IF k = 1 THEN NULL ELSE s[k - 1])
      /\ after = (IF k = n THEN NULL ELSE s[k + 1])
  <2>1. n # 0
    BY <1>2
  <2> QED
    BY <1>2, <1>3, <2>1 DEF Chained
<1> HIDE DEF s, n, r
<1>7. /\ u \in [Lists -> Seq(Items)] /\ u[l] = r
      /\ \A m \in Lists : m # l => u[m] = q[m]
  BY <1>1, <1>4, <1>5
<1> HIDE DEF u
<1>8. /\ \A a, b \in 1..n : s[a] = s[b] => a = b
      /\ 1 \in 1..n /\ n \in 1..n
      /\ k # 1 => k - 1 \in 1..n
      /\ k # n => k + 1 \in 1..n
  BY <1>2 DEF Distinct, n
<1>9. head[l] = i <=> k = 1
  BY <1>3, <1>6, <1>8
<1>10. tail[l] = i <=> k = n
  BY <1>3, <1>6, <1>8
<1>11. /\ before \in Pointer(Items) /\ (before = NULL <=> k = 1)
       /\ after \in Pointer(Items) /\ (after = NULL <=> k = n)
       /\ before # i /\ after # i /\ i # NULL
       /\ before # NULL => Link[before] = l
       /\ after # NULL => Link[after] = l
  <2>1. CASE k = 1
    <3>1. before = NULL
      BY <1>6, <2>1
    <3>2. CASE k = n
      BY <1>6, <3>1, <3>2, <2>1, NullAssumption DEF Pointer
    <3>3. CASE k # n
      BY <1>2, <1>3, <1>6, <1>8, <3>1, <3>3, <2>1, NullAssumption DEF Pointer
    <3> QED
      BY <3>2, <3>3
  <2>2. CASE k # 1
    <3>1. before = s[k - 1] /\ k - 1 # k
      BY <1>2, <1>6, <2>2
    <3>2. before \in Items /\ before # NULL /\ before # i /\ Link[before] = l
      BY <1>2, <1>3, <1>8, <2>2, <3>1
    <3>3. CASE k = n
      BY <1>6, <2>2, <3>2, <3>3, NullAssumption DEF Pointer
    <3>4. CASE k # n
      BY <1>2, <1>3, <1>6, <1>8, <2>2, <3>2, <3>4, NullAssumption DEF Pointer
    <3> QED
      BY <3>3, <3>4
  <2> QED
    BY <2>1, <2>2
<1> HIDE DEF before, after
<1>12. /\ head' = IF k = 1 THEN [head EXCEPT ![l] = after] ELSE head
       /\ tail' = IF k = n THEN [tail EXCEPT ![l] = before] ELSE tail
       /\ Prev' = [(IF k = 1 THEN Set(Prev, after, NULL)
                    ELSE IF k = n THEN Prev
                    ELSE [Prev EXCEPT ![after] = before]) EXCEPT ![i] = NULL]
       /\ Next' = [(IF k = n THEN Set(Next, before, NULL)
                    ELSE IF k = 1 THEN Next
                    ELSE Set(Next, before, after)) EXCEPT ![i] = NULL]
       /\ Link' = [Link EXCEPT ![i] = NULL]
  <2>1. /\ head' = IF head[l] = i THEN [head EXCEPT ![l] = after] ELSE head
        /\ tail' = IF tail[l] = i THEN [tail EXCEPT ![l] = before] ELSE tail
        /\ Prev' = [(IF head[l] = i THEN Set(Prev, after, NULL)
                     ELSE IF tail[l] = i THEN Prev
                     ELSE [Prev EXCEPT ![after] = before]) EXCEPT ![i] = NULL]
        /\ Next' = [(IF tail[l] = i THEN Set(Next, before, NULL)
                     ELSE IF head[l] = i THEN Next
                     ELSE Set(Next, before, after)) EXCEPT ![i] = NULL]
        /\ Link' = [Link EXCEPT ![i] = NULL]
    BY DEF RemoveFromWheel, before, after
  <2> QED
    BY <1>9, <1>10, <2>1
<1>13. /\ Prev \in [Items -> Pointer(Items)] /\ Next \in [Items -> Pointer(Items)]
       /\ Link \in [Items -> Pointer(Lists)]
       /\ head \in [Lists -> Pointer(Items)] /\ tail \in [Lists -> Pointer(Items)]
  BY DEF TypeOK
<1>14. /\ Prev' \in [Items -> Pointer(Items)]
       /\ Prev'[i] = NULL
       /\ \A x \in Items : x # i => Prev'[x] = IF x = after THEN before ELSE Prev[x]
  <2>1. CASE k = n
    <3>1. Prev' = [Prev EXCEPT ![i] = NULL]
      BY <1>11, <1>12, <2>1 DEF Set
    <3> QED
      BY <1>11, <1>13, <2>1, <3>1, NullAssumption DEF Pointer
  <2>2. CASE k # n
    <3>1. after \in Items
      BY <1>11, <2>2 DEF Pointer
    <3>2. Prev' = [[Prev EXCEPT ![after] = before] EXCEPT ![i] = NULL]
      BY <1>11, <1>12, <2>2 DEF Set
    <3> QED
      BY <1>11, <1>13, <3>1, <3>2 DEF Pointer
  <2> QED
    BY <2>1, <2>2
<1>15. /\ Next' \in [Items -> Pointer(Items)]
       /\ Next'[i] = NULL
       /\ \A x \in Items : x # i => Next'[x] = IF x = before THEN after ELSE Next[x]
  <2>1. CASE k = 1
    <3>1. Next' = [Next EXCEPT ![i] = NULL]
      BY <1>11, <1>12, <2>1 DEF Set
    <3> QED
      BY <1>11, <1>13, <2>1, <3>1, NullAssumption DEF Pointer
  <2>2. CASE k # 1
    <3>1. before \in Items
      BY <1>11, <2>2 DEF Pointer
    <3>2. Next' = [[Next EXCEPT ![before] = after] EXCEPT ![i] = NULL]
      BY <1>11, <1>12, <2>2 DEF Set
    <3> QED
      BY <1>11, <1>13, <3>1, <3>2 DEF Pointer
  <2> QED
    BY <2>1, <2>2
<1>16. /\ Link' \in [Items -> Pointer(Lists)]
       /\ Link'[i] = NULL
       /\ \A x \in Items : x # i => Link'[x] = Link[x]
  BY <1>12, <1>13 DEF Pointer
<1>17. /\ head' \in [Lists -> Pointer(Items)] /\ tail' \in [Lists -> Pointer(Items)]
       /\ head'[l] = (IF k = 1 THEN after ELSE s[1])
       /\ tail'[l] = (IF k = n THEN before ELSE s[n])
       /\ \A m \in Lists : m # l => head'[m] = head[m] /\ tail'[m] = tail[m]
  BY <1>1, <1>6, <1>11, <1>12, <1>13
<1>18. Chained(l, r)'
  <2>1. /\ head'[l] = IF n - 1 = 0 THEN NULL ELSE r[1]
        /\ tail'[l] = IF n - 1 = 0 THEN NULL ELSE r[n - 1]
    <3>1. CASE n = 1
      BY <1>2, <1>6, <1>17, <3>1
    <3>2. CASE n # 1
      <4>1. 1 \in 1..(n - 1) /\ n - 1 \in 1..(n - 1) /\ (n - 1) + 1 = n /\ n - 1 # 0
        BY <1>2, <3>2
      <4>2. r[1] = IF 1 < k THEN s[1] ELSE s[2]
        BY <1>4, <4>1
      <4>3. r[n - 1] = IF n - 1 < k THEN s[n - 1] ELSE s[n]
        BY <1>4, <4>1
      <4>4. head'[l] = r[1]
        BY <1>2, <1>6, <1>17, <3>2, <4>2
      <4>5. tail'[l] = r[n - 1]
        BY <1>2, <1>6, <1>17, <3>2, <4>3
      <4> QED
        BY <4>1, <4>4, <4>5
    <3> QED
      BY <3>1, <3>2
  <2>2. ASSUME NEW a \in 1..n, a # k
        PROVE  /\ Link'[s[a]] = l
               /\ Prev'[s[a]] = IF a = k + 1 THEN before ELSE IF a = 1 THEN NULL ELSE s[a - 1]
               /\ Next'[s[a]] = IF a = k - 1 THEN after ELSE IF a = n THEN NULL ELSE s[a + 1]
    <3>1. s[a] \in Items /\ s[a] # i /\ s[a] # NULL /\ Link[s[a]] = l
      BY <1>2, <1>3, <1>8, <2>2
    <3>2. /\ Prev[s[a]] = (IF a = 1 THEN NULL ELSE s[a - 1])
          /\ Next[s[a]] = (IF a = n THEN NULL ELSE s[a + 1])
      BY <1>2 DEF Chained, n
    <3>3. s[a] = after <=> a = k + 1
      BY <1>2, <1>6, <1>8, <3>1
    <3>4. s[a] = before <=> a = k - 1
      BY <1>2, <1>6, <1>8, <3>1
    <3> QED
      BY <1>14, <1>15, <1>16, <3>1, <3>2, <3>3, <3>4
  <2>3. ASSUME NEW j \in 1..(n - 1)
        PROVE  /\ Link'[r[j]] = l
               /\ Prev'[r[j]] = IF j = 1 THEN NULL ELSE r[j - 1]
               /\ Next'[r[j]] = IF j = n - 1 THEN NULL ELSE r[j + 1]
    <3>1. /\ r[j] = IF j < k THEN s[j] ELSE s[j + 1]
          /\ j # 1 => r[j - 1] = IF j - 1 < k THEN s[j - 1] ELSE s[(j - 1) + 1]
          /\ j # n - 1 => r[j + 1] = IF j + 1 < k THEN s[j + 1] ELSE s[(j + 1) + 1]
      <4>1. j # 1 => j - 1 \in 1..(n - 1)
        BY <1>2
      <4>2. j # n - 1 => j + 1 \in 1..(n - 1)
        BY <1>2
      <4> QED
        BY <1>4, <4>1, <4>2
    <3>2. (j - 1) + 1 = j
      OBVIOUS
    <3>3. CASE j < k
      <4>1. j \in 1..n /\ j # k /\ j # k + 1 /\ j # n
        BY <1>2, <3>3
      <4>2. r[j] = s[j] /\ (j # 1 => r[j - 1] = s[j - 1])
        BY <3>1, <3>3
      <4>3. Link'[s[j]] = l /\ Prev'[s[j]] = (IF j = 1 THEN NULL ELSE s[j - 1])
            /\ Next'[s[j]] = (IF j = k - 1 THEN after ELSE s[j + 1])
        BY <2>2, <4>1
      <4>4. CASE j = k - 1
        <5>1. ~ (j + 1 < k) /\ (j + 1) + 1 = k + 1 /\ (j = n - 1 <=> k = n)
          BY <1>2, <4>4
        <5>2. after = IF j = n - 1 THEN NULL ELSE r[j + 1]
          BY <1>6, <3>1, <5>1
        <5> QED
          BY <4>2, <4>3, <4>4, <5>2
      <4>5. CASE j # k - 1
        <5>1. j + 1 < k /\ j # n - 1
          BY <1>2, <3>3, <4>5
        <5> QED
          BY <3>1, <4>2, <4>3, <4>5, <5>1
      <4> QED
        BY <4>4, <4>5
    <3>4. CASE ~ (j < k)
      <4> DEFINE a == j + 1
      <4>1. a \in 1..n /\ a # k /\ a # k - 1 /\ a # 1 /\ a - 1 = j
            /\ (a = n <=> j = n - 1) /\ (a = k + 1 <=> j = k)
            /\ ~ (a < k)
        <5>1. j \in Int /\ k \in Int /\ n \in Int /\ 1 <= k /\ k <= n /\ k <= j /\ j <= n - 1
          BY <1>2, <3>4
        <5>2. a \in 1..n /\ a # k /\ a # k - 1 /\ a # 1 /\ a - 1 = j /\ ~ (a < k)
          BY <5>1
        <5>3. a = n <=> j = n - 1
          BY <5>1
        <5>4. a = k + 1 <=> j = k
          BY <5>1
        <5> QED
          BY <5>2, <5>3, <5>4
      <4>2. r[j] = s[a] /\ (j # n - 1 => r[j + 1] = s[a + 1])
        BY <3>1, <3>4, <4>1
      <4> HIDE DEF a
      <4>3. Link'[s[a]] = l /\ Prev'[s[a]] = (IF j = k THEN before ELSE s[j])
            /\ Next'[s[a]] = (IF j = n - 1 THEN NULL ELSE s[a + 1])
        BY <2>2, <4>1
      <4>4. CASE j = k
        <5>1. j # 1 => r[j - 1] = s[j - 1]
          BY <3>1, <4>4
        <5>2. before = IF j = 1 THEN NULL ELSE r[j - 1]
          BY <1>6, <4>4, <5>1
        <5> QED
          BY <4>2, <4>3, <4>4, <5>2
      <4>5. CASE j # k
        <5>1. j # 1 /\ ~ (j - 1 < k)
          BY <1>2, <3>4, <4>5
        <5>2. r[j - 1] = s[j]
          BY <3>1, <3>2, <5>1
        <5> QED
          BY <4>2, <4>3, <4>5, <5>1, <5>2
      <4> QED
        BY <4>4, <4>5
    <3> QED
      BY <3>3, <3>4
  <2> QED
    BY <1>4, <2>1, <2>3 DEF Chained
<1>19. Distinct(r) /\ \A x : Contains(r, x) <=> Contains(s, x) /\ x # i
  BY <1>2, <1>4, ExcludingElements
<1>20. ASSUME NEW m \in Lists, m # l
       PROVE  Distinct(q[m]) /\ Chained(m, q[m])'
  <2> DEFINE p == q[m]
  <2>1. Distinct(p) /\ Chained(m, p)
        /\ \A a \in 1..Len(p) : p[a] \in Items /\ Link[p[a]] = m /\ p[a] # NULL
    BY LaidItems
  <2> HIDE DEF p
  <2>2. \A a \in 1..Len(p) : p[a] # i /\ p[a] # before /\ p[a] # after
    BY <1>2, <1>3, <1>11, <1>20, <2>1
  <2>3. Chained(m, p)'
    BY <1>14, <1>15, <1>16, <1>17, <1>20, <2>1, <2>2, ChainStays
  <2> QED
    BY <2>1, <2>3 DEF p
<1>21. ASSUME NEW m \in Lists
       PROVE  Distinct(u[m]) /\ Chained(m, u[m])'
  <2>1. CASE m = l
    BY <1>7, <1>18, <1>19, <2>1
  <2>2. CASE m # l
    BY <1>7, <1>20, <2>2
  <2> QED
    BY <2>1, <2>2
<1>22. ASSUME NEW x \in Items
       PROVE  IF Link'[x] = NULL THEN Prev'[x] = NULL /\ Next'[x] = NULL
              ELSE Contains(u[Link'[x]], x)
  <2>1. CASE x = i
    BY <1>14, <1>15, <1>16, <2>1
  <2>2. CASE x # i
    <3>1. IF Link[x] = NULL THEN Prev[x] = NULL /\ Next[x] = NULL
          ELSE Contains(q[Link[x]], x)
      BY DEF LaidOut
    <3>2. Link[x] # NULL => Link[x] \in Lists
      BY DEF TypeOK, Pointer
    <3>3. CASE Link[x] = NULL
      <4>1. x # before /\ x # after
        BY <1>1, <1>11, <3>3, NullAssumption
      <4> QED
        BY <1>14, <1>15, <1>16, <2>2, <3>1, <3>3, <4>1
    <3>4. CASE Link[x] # NULL
      <4>1. Contains(u[Link[x]], x)
        BY <1>7, <1>19, <2>2, <3>1, <3>2, <3>4 DEF s
      <4> QED
        BY <1>16, <2>2, <3>4, <4>1
    <3> QED
      BY <3>3, <3>4
  <2> QED
    BY <2>1, <2>2
<1>23. TypeOK'
  BY <1>14, <1>15, <1>16, <1>17 DEF TypeOK
<1>24. LaidOut(u)'
  BY <1>7, <1>21, <1>22 DEF LaidOut
<1> QED
  BY <1>1, <1>4, <1>23, <1>24 DEF u, s

\* PopHead is RemoveFromWheel of the head.
LEMMA PopHeadRemoves ==
    ASSUME TypeOK, NEW q, LaidOut(q), NEW l \in Lists, PopHead(l)
    PROVE  /\ head[l] \in Items /\ Link[head[l]] = l
           /\ RemoveFromWheel(head[l])
<1> DEFINE s == q[l]
           n == Len(s)
           i == head[l]
<1>1. /\ s \in Seq(Items) /\ n \in Nat /\ Distinct(s) /\ Chained(l, s)
      /\ \A k \in 1..n : s[k] \in Items /\ s[k] # NULL /\ Link[s[k]] = l
      /\ l # NULL
  BY LaidItems
<1> HIDE DEF s
<1>2. i # NULL
  BY DEF PopHead
<1>3. n # 0 /\ i = s[1] /\ tail[l] = s[n] /\ 1 \in 1..n /\ n \in 1..n
  <2>1. n # 0
    BY <1>1, <1>2 DEF Chained
  <2>2. i = s[1] /\ tail[l] = s[n]
    BY <1>1, <2>1 DEF Chained
  <2> QED
    BY <1>1, <2>1, <2>2
<1>4. i \in Items /\ Link[i] = l
  BY <1>1, <1>3
<1>5. Prev[i] = NULL /\ Next[i] = IF n = 1 THEN NULL ELSE s[2]
  <2>1. \A k \in 1..n : /\ Prev[s[k]] = (IF k = 1 THEN NULL ELSE s[k - 1])
                        /\ Next[s[k]] = (IF k = n THEN NULL ELSE s[k + 1])
    BY <1>1 DEF Chained
  <2>2. Prev[s[1]] = NULL /\ Next[s[1]] = IF 1 = n THEN NULL ELSE s[1 + 1]
    <3> HIDE DEF n
    <3> QED
      BY <1>3, <2>1
  <2>3. 1 + 1 = 2
    OBVIOUS
  <2> HIDE DEF n, i
  <2> QED
    BY <1>3, <2>2, <2>3
<1>6. i = tail[l] <=> n = 1
  BY <1>1, <1>3 DEF Distinct
<1>7. /\ head' = [head EXCEPT ![l] = IF i = tail[l] THEN NULL ELSE Next[i]]
      /\ tail' = IF i = tail[l] THEN [tail EXCEPT ![l] = NULL] ELSE tail
      /\ Next' = [Next EXCEPT ![i] = NULL]
      /\ Prev' = [Set(Prev, head'[l], NULL) EXCEPT ![i] = NULL]
      /\ Link' = [Link EXCEPT ![i] = NULL]
  BY DEF PopHead
<1>8. (IF i = tail[l] THEN NULL ELSE Next[i]) = Next[i]
  BY <1>5, <1>6
<1>9. head' = [head EXCEPT ![l] = Next[i]]
  BY <1>7, <1>8
<1>10. head'[l] = Next[i]
  BY <1>9 DEF TypeOK
<1>11. Set(Next, Prev[i], NULL) = Next
  BY <1>5 DEF Set
<1> HIDE DEF i
<1>12. /\ head[Link[i]] = i
       /\ tail' = IF tail[Link[i]] = i THEN [tail EXCEPT ![Link[i]] = Prev[i]] ELSE tail
       /\ head' = [head EXCEPT ![Link[i]] = Next[i]]
  BY <1>4, <1>5, <1>7, <1>9 DEF i
<1>13. Prev' = [Set(Prev, Next[i], NULL) EXCEPT ![i] = NULL]
  BY <1>7, <1>10
<1>14. Next' = [(IF tail[Link[i]] = i THEN Set(Next, Prev[i], NULL) ELSE Next) EXCEPT ![i] = NULL]
  BY <1>7, <1>11
<1>15. RemoveFromWheel(i)
  BY <1>1, <1>4, <1>7, <1>12, <1>13, <1>14 DEF RemoveFromWheel
<1> QED
  BY <1>4, <1>15 DEF i

\* Join lays out the first list with the second behind it, and empties that.
LEMMA JoinLays ==
    ASSUME TypeOK, NEW q, LaidOut(q), NEW to \in Lists, NEW from \in Lists,
           to # from, Join(to, from)
    PROVE  /\ TypeOK'
           /\ LaidOut([q EXCEPT ![to] = q[to] \o q[from], ![from] = <<>>])'
<1> DEFINE a == q[to]
           b == q[from]
           r == a \o b
           na == Len(a)
           nb == Len(b)
           u == [q EXCEPT ![to] = r, ![from] = <<>>]
<1>1. /\ a \in Seq(Items) /\ na \in Nat /\ Distinct(a) /\ Chained(to, a)
      /\ \A k \in 1..na : a[k] \in Items /\ a[k] # NULL /\ Link[a[k]] = to
      /\ to # NULL
      /\ tail[to] = NULL <=> na = 0
  BY LaidItems
<1>2. /\ b \in Seq(Items) /\ nb \in Nat /\ Distinct(b) /\ Chained(from, b)
      /\ \A k \in 1..nb : b[k] \in Items /\ b[k] # NULL /\ Link[b[k]] = from
      /\ from # NULL
      /\ Contents(from) = b
  BY LaidItems, WalkFinds
<1>3. q \in [Lists -> Seq(Items)]
  BY DEF LaidOut
<1> HIDE DEF a, b
<1>4. nb # 0 /\ 1 \in 1..nb /\ nb \in 1..nb /\ head[from] = b[1] /\ tail[from] = b[nb]
  <2>1. nb # 0
    BY <1>2 DEF Join, Chained
  <2>2. head[from] = b[1] /\ tail[from] = b[nb]
    BY <1>2, <2>1 DEF Chained
  <2> QED
    BY <1>2, <2>1, <2>2
<1>5. /\ r \in Seq(Items) /\ Len(r) = na + nb
      /\ \A k \in 1..na : r[k] = a[k]
      /\ \A k \in 1..nb : r[na + k] = b[k]
      /\ \A k \in 1..(na + nb) : k \in 1..na \/ (k - na \in 1..nb /\ na + (k - na) = k)
  <2>1. r \in Seq(Items) /\ Len(r) = na + nb
    BY <1>1, <1>2
  <2>2. \A k \in 1..na : r[k] = a[k]
    BY <1>1, <1>2
  <2>3. \A k \in 1..nb : r[na + k] = b[k]
    BY <1>1, <1>2
  <2> QED
    BY <1>1, <1>2, <2>1, <2>2, <2>3
<1> HIDE DEF r, na, nb
<1>6. /\ u \in [Lists -> Seq(Items)] /\ u[to] = r /\ u[from] = <<>>
      /\ \A m \in Lists : m # to /\ m # from => u[m] = q[m]
  <2> DEFINE v == <<>>
             w == [q EXCEPT ![to] = r]
  <2>1. v \in Seq(Items) /\ r \in Seq(Items)
    BY <1>5
  <2>2. u = [w EXCEPT ![from] = v]
    OBVIOUS
  <2> HIDE DEF v, u
  <2>3. w \in [Lists -> Seq(Items)] /\ w[to] = r /\ \A m \in Lists : m # to => w[m] = q[m]
    BY <1>3, <2>1
  <2> HIDE DEF w
  <2>4. u \in [Lists -> Seq(Items)] /\ u[to] = r /\ u[from] = v
        /\ \A m \in Lists : m # to /\ m # from => u[m] = q[m]
    BY <2>1, <2>2, <2>3
  <2> QED
    BY <2>4 DEF v
<1> HIDE DEF u
<1>7. /\ tail[to] = (IF na = 0 THEN NULL ELSE a[na])
      /\ head[to] = (IF na = 0 THEN NULL ELSE a[1])
      /\ tail[to] # NULL => tail[to] \in Items /\ Link[tail[to]] = to
      /\ b[1] \in Items /\ Link[b[1]] = from /\ b[nb] \in Items
  <2>1. /\ tail[to] = (IF na = 0 THEN NULL ELSE a[na])
        /\ head[to] = (IF na = 0 THEN NULL ELSE a[1])
    BY <1>1 DEF Chained, na
  <2>2. na # 0 => na \in 1..na
    BY <1>1
  <2> QED
    BY <1>1, <1>2, <1>4, <2>1, <2>2
<1>8. /\ Link' = [i \in Items |-> IF i \in ToSet(b) THEN to ELSE Link[i]]
      /\ Next' = Set(Next, tail[to], b[1])
      /\ Prev' = IF tail[to] = NULL THEN Prev ELSE [Prev EXCEPT ![b[1]] = tail[to]]
      /\ head' = [head EXCEPT ![to] = IF tail[to] = NULL THEN b[1] ELSE head[to],
                              ![from] = NULL]
      /\ tail' = [tail EXCEPT ![to] = b[nb], ![from] = NULL]
  BY <1>2, <1>4 DEF Join
<1>9. \A x : x \in ToSet(b) <=> Contains(b, x)
  BY <1>2 DEF ToSet, Contains
<1>10. /\ Link' \in [Items -> Pointer(Lists)]
       /\ \A x \in Items : Link'[x] = IF Contains(b, x) THEN to ELSE Link[x]
  BY <1>8, <1>9 DEF TypeOK, Pointer
<1>11. /\ Next' \in [Items -> Pointer(Items)]
       /\ \A x \in Items : Next'[x] = IF x = tail[to] THEN b[1] ELSE Next[x]
  <2>1. CASE tail[to] = NULL
    BY <1>8, <2>1, NullAssumption DEF TypeOK, Pointer, Set
  <2>2. CASE tail[to] # NULL
    BY <1>7, <1>8, <2>2 DEF TypeOK, Pointer, Set
  <2> QED
    BY <2>1, <2>2
<1>12. /\ Prev' \in [Items -> Pointer(Items)]
       /\ \A x \in Items : Prev'[x] = IF na # 0 /\ x = b[1] THEN tail[to] ELSE Prev[x]
  <2>1. CASE tail[to] = NULL
    BY <1>1, <1>8, <2>1 DEF TypeOK
  <2>2. CASE tail[to] # NULL
    BY <1>1, <1>7, <1>8, <2>2 DEF TypeOK, Pointer
  <2> QED
    BY <2>1, <2>2
<1>13. /\ head' \in [Lists -> Pointer(Items)] /\ tail' \in [Lists -> Pointer(Items)]
       /\ head'[to] = (IF na = 0 THEN b[1] ELSE a[1]) /\ tail'[to] = b[nb]
       /\ head'[from] = NULL /\ tail'[from] = NULL
       /\ \A m \in Lists : m # to /\ m # from => head'[m] = head[m] /\ tail'[m] = tail[m]
  <2>1. head \in [Lists -> Pointer(Items)] /\ tail \in [Lists -> Pointer(Items)]
    BY DEF TypeOK
  <2>2. (IF tail[to] = NULL THEN b[1] ELSE head[to]) = (IF na = 0 THEN b[1] ELSE a[1])
    BY <1>1, <1>7
  <2>3. head' = [head EXCEPT ![to] = IF na = 0 THEN b[1] ELSE a[1], ![from] = NULL]
    BY <1>8, <2>2
  <2>4. /\ head' \in [Lists -> Pointer(Items)]
        /\ head'[to] = (IF na = 0 THEN b[1] ELSE a[1])
        /\ head'[from] = NULL
        /\ \A m \in Lists : m # to /\ m # from => head'[m] = head[m]
    <3>1. (IF na = 0 THEN b[1] ELSE a[1]) \in Pointer(Items)
      BY <1>7, <2>1, <2>2 DEF Pointer
    <3> QED
      BY <2>1, <2>3, <3>1 DEF Pointer
  <2>5. /\ tail' \in [Lists -> Pointer(Items)] /\ tail'[to] = b[nb] /\ tail'[from] = NULL
        /\ \A m \in Lists : m # to /\ m # from => tail'[m] = tail[m]
    BY <1>7, <1>8, <2>1 DEF Pointer
  <2> QED
    BY <2>4, <2>5
<1>14. /\ \A x, y \in 1..na : a[x] = a[y] => x = y
       /\ \A x, y \in 1..nb : b[x] = b[y] => x = y
       /\ \A x \in 1..na, y \in 1..nb : a[x] # b[y]
  BY <1>1, <1>2 DEF Distinct, na, nb
<1>15. ASSUME NEW k \in 1..na
       PROVE  /\ Link'[a[k]] = to
              /\ Prev'[a[k]] = IF k = 1 THEN NULL ELSE a[k - 1]
              /\ Next'[a[k]] = IF k = na THEN b[1] ELSE a[k + 1]
  <2>1. /\ Prev[a[k]] = (IF k = 1 THEN NULL ELSE a[k - 1])
        /\ Next[a[k]] = (IF k = na THEN NULL ELSE a[k + 1])
    BY <1>1 DEF Chained, na
  <2>2. a[k] \in Items /\ Link[a[k]] = to /\ a[k] # b[1]
    BY <1>1, <1>4, <1>14
  <2>3. a[k] = tail[to] <=> k = na
    <3>1. na \in 1..na /\ na # 0
      BY <1>1
    <3> QED
      BY <1>7, <1>14, <3>1
  <2>4. Link'[a[k]] = to
    BY <1>10, <2>2
  <2> QED
    BY <1>11, <1>12, <2>1, <2>2, <2>3, <2>4
<1>16. ASSUME NEW k \in 1..nb
       PROVE  /\ Link'[b[k]] = to
              /\ Prev'[b[k]] = IF k = 1 THEN tail[to] ELSE b[k - 1]
              /\ Next'[b[k]] = IF k = nb THEN NULL ELSE b[k + 1]
  <2>1. /\ Prev[b[k]] = (IF k = 1 THEN NULL ELSE b[k - 1])
        /\ Next[b[k]] = (IF k = nb THEN NULL ELSE b[k + 1])
    BY <1>2 DEF Chained, nb
  <2>2. b[k] \in Items /\ b[k] # tail[to] /\ Contains(b, b[k])
    BY <1>2, <1>7 DEF Contains, nb
  <2>3. b[k] = b[1] <=> k = 1
    BY <1>4, <1>14
  <2>4. na = 0 => tail[to] = NULL
    BY <1>1
  <2> QED
    BY <1>10, <1>11, <1>12, <2>1, <2>2, <2>3, <2>4
<1>17. Chained(to, r)'
  <2>1. na + nb # 0 /\ head'[to] = r[1] /\ tail'[to] = r[na + nb]
    <3>1. tail'[to] = r[na + nb] /\ na + nb # 0
      BY <1>1, <1>2, <1>4, <1>5, <1>13
    <3>2. CASE na = 0
      <4>1. na + 1 = 1
        BY <3>2
      <4> QED
        BY <1>4, <1>5, <1>13, <3>1, <3>2, <4>1
    <3>3. CASE na # 0
      <4>1. 1 \in 1..na
        BY <1>1, <3>3
      <4> QED
        BY <1>5, <1>13, <3>1, <3>3, <4>1
    <3> QED
      BY <3>2, <3>3
  <2>2. ASSUME NEW k \in 1..(na + nb)
        PROVE  /\ Link'[r[k]] = to
               /\ Prev'[r[k]] = IF k = 1 THEN NULL ELSE r[k - 1]
               /\ Next'[r[k]] = IF k = na + nb THEN NULL ELSE r[k + 1]
    <3>1. CASE k \in 1..na
      <4>1. k # 1 => k - 1 \in 1..na
        BY <1>1, <3>1
      <4>2. k # na => k + 1 \in 1..na
        BY <1>1, <3>1
      <4>3. k # na + nb
        BY <1>1, <1>2, <1>4, <3>1
      <4>4. k = na => r[k + 1] = b[1]
        BY <1>4, <1>5
      <4>5. r[k] = a[k] /\ (k # 1 => r[k - 1] = a[k - 1]) /\ (k # na => r[k + 1] = a[k + 1])
        BY <1>5, <3>1, <4>1, <4>2
      <4> QED
        BY <1>15, <3>1, <4>3, <4>4, <4>5
    <3>2. CASE k - na \in 1..nb /\ na + (k - na) = k
      <4> DEFINE c == k - na
      <4>1. /\ c \in 1..nb /\ na + c = k
            /\ (c = nb <=> k = na + nb)
            /\ c # 1 => c - 1 \in 1..nb /\ na + (c - 1) = k - 1
            /\ c # nb => c + 1 \in 1..nb /\ na + (c + 1) = k + 1
        <5>1. c \in 1..nb /\ na + c = k
          BY <3>2
        <5>2. c = nb <=> k = na + nb
          BY <1>1, <1>2, <5>1
        <5>3. c # 1 => c - 1 \in 1..nb /\ na + (c - 1) = k - 1
          BY <1>1, <1>2, <5>1
        <5>4. c # nb => c + 1 \in 1..nb /\ na + (c + 1) = k + 1
          BY <1>1, <1>2, <5>1
        <5> QED
          BY <5>1, <5>2, <5>3, <5>4
      <4> HIDE DEF c
      <4>2. /\ r[k] = b[c]
            /\ c # 1 => r[k - 1] = b[c - 1]
            /\ c # nb => r[k + 1] = b[c + 1]
        BY <1>5, <4>1
      <4>3. CASE c = 1
        <5>1. k - 1 = na /\ (k = 1 <=> na = 0)
          BY <1>1, <4>1, <4>3
        <5>2. tail[to] = IF k = 1 THEN NULL ELSE r[k - 1]
          <6>1. na # 0 => na \in 1..na
            BY <1>1
          <6> QED
            BY <1>5, <1>7, <5>1, <6>1
        <5> QED
          BY <1>16, <4>1, <4>2, <4>3, <5>2
      <4>4. CASE c # 1
        <5>1. k # 1
          BY <1>1, <4>1, <4>4
        <5> QED
          BY <1>16, <4>1, <4>2, <4>4, <5>1
      <4> QED
        BY <4>3, <4>4
    <3> QED
      BY <1>5, <3>1, <3>2
  <2> QED
    BY <1>5, <2>1, <2>2 DEF Chained
<1>18. Distinct(r)
  <2> SUFFICES ASSUME NEW x \in 1..(na + nb), NEW y \in 1..(na + nb), r[x] = r[y]
               PROVE  x = y
    BY <1>5 DEF Distinct
  <2>1. x \in 1..na \/ (x - na \in 1..nb /\ na + (x - na) = x)
    BY <1>5
  <2>2. y \in 1..na \/ (y - na \in 1..nb /\ na + (y - na) = y)
    BY <1>5
  <2>3. CASE x \in 1..na /\ y \in 1..na
    BY <1>5, <1>14, <2>3
  <2>4. CASE x \in 1..na /\ y - na \in 1..nb /\ na + (y - na) = y
    <3>1. r[x] = a[x] /\ r[y] = b[y - na]
      BY <1>5, <2>4
    <3> QED
      BY <1>14, <2>4, <3>1
  <2>5. CASE x - na \in 1..nb /\ na + (x - na) = x /\ y \in 1..na
    <3>1. r[y] = a[y] /\ r[x] = b[x - na]
      BY <1>5, <2>5
    <3> QED
      BY <1>14, <2>5, <3>1
  <2>6. CASE x - na \in 1..nb /\ na + (x - na) = x /\ y - na \in 1..nb /\ na + (y - na) = y
    <3>1. r[y] = b[y - na] /\ r[x] = b[x - na]
      BY <1>5, <2>6
    <3>2. x - na = y - na
      BY <1>14, <2>6, <3>1
    <3> QED
      BY <2>6, <3>2
  <2> QED
    BY <2>1, <2>2, <2>3, <2>4, <2>5, <2>6
<1>19. \A x : Contains(a, x) \/ Contains(b, x) => Contains(r, x)
  <2>1. /\ \A k \in 1..na : k \in 1..(na + nb)
        /\ \A k \in 1..nb : na + k \in 1..(na + nb)
    BY <1>1, <1>2
  <2> QED
    BY <1>5, <2>1 DEF Contains, na, nb
<1>20. Chained(from, <<>>)' /\ Distinct(<<>>)
  BY <1>13 DEF Chained, Distinct
<1>21. ASSUME NEW m \in Lists, m # to, m # from
       PROVE  Distinct(q[m]) /\ Chained(m, q[m])'
  <2> DEFINE p == q[m]
  <2>1. Distinct(p) /\ Chained(m, p)
        /\ \A k \in 1..Len(p) : p[k] \in Items /\ Link[p[k]] = m /\ p[k] # NULL
    BY LaidItems
  <2> HIDE DEF p
  <2>2. \A k \in 1..Len(p) : p[k] # tail[to] /\ p[k] # b[1] /\ ~ Contains(b, p[k])
    <3> SUFFICES ASSUME NEW k \in 1..Len(p)
                 PROVE  p[k] # tail[to] /\ p[k] # b[1] /\ ~ Contains(b, p[k])
      OBVIOUS
    <3>1. Link[p[k]] = m /\ p[k] # NULL
      BY <2>1
    <3>2. p[k] # tail[to] /\ p[k] # b[1]
      BY <1>7, <1>21, <3>1
    <3>3. ~ Contains(b, p[k])
      BY <1>2, <1>21, <3>1 DEF Contains, nb
    <3> QED
      BY <3>2, <3>3
  <2>3. Chained(m, p)'
    BY <1>10, <1>11, <1>12, <1>13, <1>21, <2>1, <2>2, ChainStays
  <2> QED
    BY <2>1, <2>3 DEF p
<1>22. ASSUME NEW m \in Lists
       PROVE  Distinct(u[m]) /\ Chained(m, u[m])'
  <2>1. CASE m = to
    BY <1>6, <1>17, <1>18, <2>1
  <2>2. CASE m = from
    BY <1>6, <1>20, <2>2
  <2>3. CASE m # to /\ m # from
    BY <1>6, <1>21, <2>3
  <2> QED
    BY <2>1, <2>2, <2>3
<1>23. ASSUME NEW x \in Items
       PROVE  IF Link'[x] = NULL THEN Prev'[x] = NULL /\ Next'[x] = NULL
              ELSE Contains(u[Link'[x]], x)
  <2>1. IF Link[x] = NULL THEN Prev[x] = NULL /\ Next[x] = NULL
        ELSE Contains(q[Link[x]], x)
    BY DEF LaidOut
  <2>2. Link[x] # NULL => Link[x] \in Lists
    BY DEF TypeOK, Pointer
  <2>3. CASE Contains(b, x)
    BY <1>1, <1>6, <1>10, <1>19, <2>3
  <2>4. CASE ~ Contains(b, x) /\ Link[x] = NULL
    <3>1. x # b[1]
      BY <1>2, <1>7, <2>4
    <3>2. x # tail[to]
      <4>1. x # NULL
        BY NullAssumption
      <4>2. to # NULL
        BY NullAssumption
      <4> QED
        BY <1>7, <2>4, <4>1, <4>2
    <3> QED
      BY <1>10, <1>11, <1>12, <2>1, <2>4, <3>1, <3>2
  <2>5. CASE ~ Contains(b, x) /\ Link[x] # NULL
    <3>1. Link'[x] = Link[x] /\ Link[x] # from
      BY <1>10, <2>1, <2>5 DEF b
    <3>2. Contains(u[Link[x]], x)
      BY <1>6, <1>19, <2>1, <2>2, <2>5, <3>1 DEF a
    <3> QED
      BY <2>5, <3>1, <3>2
  <2> QED
    BY <2>3, <2>4, <2>5
<1>24. TypeOK'
  BY <1>10, <1>11, <1>12, <1>13 DEF TypeOK
<1>25. LaidOut(u)'
  BY <1>6, <1>22, <1>23 DEF LaidOut
<1> QED
  BY <1>24, <1>25 DEF u, r, a, b

-----------------------------------------------------------------------------
(* The theorems *)

\* What WalkFinds says, as a state predicate, and that it holds after a step.
WalksFind ==
    TypeOK => \A q : LaidOut(q) => [l \in Lists |-> Contents(l)] = q

\* What a walk along Next finds, in the present state.
LEMMA WalksFindNow == WalksFind
<1> SUFFICES ASSUME TypeOK, NEW q, LaidOut(q)
             PROVE  [l \in Lists |-> Contents(l)] = q
  BY DEF WalksFind
<1>1. \A l \in Lists : Contents(l) = q[l]
  BY WalkFinds
<1>2. q = [l \in Lists |-> q[l]]
  BY DEF LaidOut
<1> QED
  BY <1>1, <1>2

\* The same in the next state.
LEMMA WalksFindNext == WalksFind'
BY WalksFindNow, PTL

Walked == [l \in Lists |-> Contents(l)]

\* Initially every list is laid out as the empty sequence.
LEMMA InitLays == Init => TypeOK /\ LaidOut([l \in Lists |-> <<>>])
<1> SUFFICES ASSUME Init
             PROVE  TypeOK /\ LaidOut([l \in Lists |-> <<>>])
  OBVIOUS
<1> DEFINE q == [l \in Lists |-> <<>>]
<1>1. TypeOK
  BY DEF Init, TypeOK, Pointer
<1>2. q \in [Lists -> Seq(Items)]
  OBVIOUS
<1>3. \A l \in Lists : Distinct(q[l]) /\ Chained(l, q[l])
  BY DEF Init, Distinct, Chained
<1>4. \A i \in Items : Link[i] = NULL /\ Prev[i] = NULL /\ Next[i] = NULL
  BY DEF Init
<1> QED
  BY <1>1, <1>2, <1>3, <1>4 DEF LaidOut

\* Every step takes a layout to a layout, as the queues do.
LEMMA StepLays ==
    ASSUME TypeOK, NEW q, LaidOut(q), [ListNext]_listVars
    PROVE  /\ TypeOK'
           /\ \E u : LaidOut(u)'
           /\ [Q!Next]_Walked
<1>1. Walked = q
  BY WalksFindNow DEF WalksFind, Walked
<1>2. ASSUME NEW u, TypeOK', LaidOut(u)'
      PROVE  Walked' = u
  BY <1>2, WalksFindNext DEF WalksFind, Walked
<1>3. q \in [Lists -> Seq(Items)]
  BY DEF LaidOut
<1>4. \A l \in Lists : \A i : i \in ToSet(q[l]) <=> Contains(q[l], i)
  BY <1>3 DEF ToSet, Contains
<1>a. \A s : Q!ToSet(s) = ToSet(s)
  BY DEF Q!ToSet, ToSet
<1>b. \A s, S : Q!Excluding(s, S) = Excluding(s, S)
  BY DEF Q!Excluding, Excluding
<1>5. ASSUME NEW l \in Lists, NEW i \in Items, AddTail(l, i)
      PROVE  /\ TypeOK'
             /\ \E u : LaidOut(u)'
             /\ [Q!Next]_Walked
  <2> DEFINE u == [q EXCEPT ![l] = Append(q[l], i)]
  <2>1. TypeOK' /\ LaidOut(u)' /\ ~ \E m \in Lists : Contains(q[m], i)
    BY <1>5, AddTailLays
  <2>2. Walked' = u
    BY <1>2, <2>1
  <2>3. i \notin Q!Waiting
    BY <1>a, <1>1, <1>4, <2>1 DEF Q!Waiting, Walked
  <2>4. Q!Append1(l, i)
    BY <1>1, <2>2, <2>3 DEF Q!Append1, Walked
  <2> QED
    BY <2>1, <2>4 DEF Q!Next
<1>6. ASSUME NEW i \in Items, RemoveFromWheel(i)
      PROVE  /\ TypeOK'
             /\ \E u : LaidOut(u)'
             /\ [Q!Next]_Walked
  <2>1. Link[i] \in Lists
    BY <1>6 DEF RemoveFromWheel, TypeOK, Pointer
  <2>2. PICK l \in Lists : Link[i] = l
    BY <2>1
  <2> DEFINE u == [q EXCEPT ![l] = Excluding(q[l], {i})]
  <2>3. TypeOK' /\ LaidOut(u)' /\ Contains(q[l], i)
    BY <1>6, <2>2, RemoveLays
  <2>4. Walked' = u
    BY <1>2, <2>3
  <2>5. Q!Take(l, i)
    BY <1>a, <1>b, <1>1, <1>4, <2>3, <2>4 DEF Q!Take, Walked
  <2> QED
    BY <2>3, <2>5 DEF Q!Next
<1>7. ASSUME NEW l \in Lists, PopHead(l)
      PROVE  /\ TypeOK'
             /\ \E u : LaidOut(u)'
             /\ [Q!Next]_Walked
  <2>1. head[l] \in Items /\ RemoveFromWheel(head[l])
    BY <1>7, PopHeadRemoves
  <2> QED
    BY <1>6, <2>1
<1>8. ASSUME NEW to \in Lists, NEW from \in Lists, to # from, Join(to, from)
      PROVE  /\ TypeOK'
             /\ \E u : LaidOut(u)'
             /\ [Q!Next]_Walked
  <2> DEFINE u == [q EXCEPT ![to] = q[to] \o q[from], ![from] = <<>>]
  <2>1. TypeOK' /\ LaidOut(u)'
    BY <1>8, JoinLays
  <2>2. Walked' = u
    BY <1>2, <2>1
  <2>3. Q!Splice(to, from)
    BY <1>1, <2>2 DEF Q!Splice, Walked
  <2> QED
    BY <1>8, <2>1, <2>3 DEF Q!Next
<1>9. CASE UNCHANGED listVars
  <2>1. /\ head' = head /\ tail' = tail /\ Prev' = Prev /\ Next' = Next /\ Link' = Link
    BY <1>9 DEF listVars
  <2>2. TypeOK'
    BY <2>1 DEF TypeOK
  <2>3. LaidOut(q)'
    BY <2>1 DEF LaidOut, Chained
  <2>4. Walked' = Walked
    BY <1>1, <1>2, <2>2, <2>3
  <2> QED
    BY <2>2, <2>3, <2>4
<1> QED
  BY <1>5, <1>6, <1>7, <1>8, <1>9 DEF ListNext

\* A layout has sound links.
LEMMA LaidIsSound ==
    ASSUME TypeOK, NEW q, LaidOut(q)
    PROVE  LinksSound
<1>1. ASSUME NEW l \in Lists
      PROVE  LET s == Contents(l)
             IN  /\ tail[l] = IF s = <<>> THEN NULL ELSE Last(s)
                 /\ \A k \in DOMAIN s : /\ Link[s[k]] = l
                                        /\ Prev[s[k]] = IF k = 1 THEN NULL ELSE s[k - 1]
  <2> DEFINE s == q[l]
  <2>1. Contents(l) = s
    BY WalkFinds
  <2>2. s \in Seq(Items) /\ Chained(l, s)
    BY LaidItems
  <2> HIDE DEF s
  <2>3. tail[l] = IF s = <<>> THEN NULL ELSE Last(s)
    BY <2>2 DEF Chained, Last
  <2>4. \A k \in DOMAIN s : /\ Link[s[k]] = l
                            /\ Prev[s[k]] = IF k = 1 THEN NULL ELSE s[k - 1]
    BY <2>2 DEF Chained
  <2> QED
    BY <2>1, <2>3, <2>4
<1>2. ASSUME NEW i \in Items
      PROVE  IF Link[i] = NULL THEN Prev[i] = NULL /\ Next[i] = NULL
             ELSE i \in ToSet(Contents(Link[i]))
  <2>1. CASE Link[i] = NULL
    BY <2>1 DEF LaidOut
  <2>2. CASE Link[i] # NULL
    <3>1. Link[i] \in Lists
      BY <2>2 DEF TypeOK, Pointer
    <3>2. Contains(q[Link[i]], i) /\ Contents(Link[i]) = q[Link[i]]
          /\ q[Link[i]] \in Seq(Items)
      BY <2>2, <3>1, WalkFinds DEF LaidOut
    <3> QED
      BY <2>2, <3>2 DEF ToSet, Contains
  <2> QED
    BY <2>1, <2>2
<1> QED
  BY <1>1, <1>2 DEF LinksSound

\* Empty lists satisfy the invariant.
LEMMA InitListInv == Init => ListInv
BY InitLays DEF ListInv

\* Every operation on the lists keeps the invariant.
LEMMA NextListInv == ListInv /\ [ListNext]_listVars => ListInv'
BY StepLays DEF ListInv

\* The lists are laid out as sequences, always.
THEOREM ListInvariance == ListSpec => []ListInv
BY InitListInv, NextListInv, PTL DEF ListSpec

\* Whatever is added, joined, popped and taken out, an item's Link is the list
\* that a walk finds it in, Prev is the walk backwards, and tail its end.
THEOREM LinksAreSound == ListSpec => []LinksSound
<1>1. ListInv => LinksSound
  BY LaidIsSound DEF ListInv
<1> QED
  BY <1>1, ListInvariance, PTL

\* The lists are queues: nothing is lost, moved ahead of another, or found in
\* two lists.
THEOREM ListsAreQueues == ListSpec => ImplementsQueues
<1>1. Init => Q!Init
  <2> SUFFICES ASSUME Init
               PROVE  Q!Init
    OBVIOUS
  <2>1. Walked = [l \in Lists |-> <<>>]
    BY InitLays, WalksFindNow DEF WalksFind, Walked
  <2> QED
    BY <2>1 DEF Q!Init, Walked
<1>2. ListInv /\ [ListNext]_listVars => [Q!Next]_Walked
  BY StepLays DEF ListInv
<1>3. ListSpec => Q!QueuesSpec
  BY <1>1, <1>2, ListInvariance, PTL DEF ListSpec, Q!QueuesSpec, Walked
<1> QED
  BY <1>3 DEF ImplementsQueues

=============================================================================
