--------------------------- MODULE SequenceLemmas ---------------------------
(***************************************************************************)
(* Facts about Excluding and FlattenSeq, both recursive, that the proofs   *)
(* about lists need.  The induction theorems of the library cannot be used *)
(* here, as their parameter is an operator; induction is stated for a set  *)
(* instead, and rests on the well-foundedness of the natural numbers.      *)
(***************************************************************************)
EXTENDS ListOps, SequencesExt, WellFoundedInduction, TLAPS

\* A set of natural numbers that is not empty has a least element.
LEMMA LeastNatural ==
    ASSUME NEW T, T \subseteq Nat, T # {}
    PROVE  \E x \in T : \A y \in T : x <= y
<1> DEFINE R == OpToRel(<, Nat)
<1>1. IsWellFoundedOn(R, Nat)
  BY NatLessThanWellFounded
<1>2. \A a, b \in Nat : a < b => <<a, b>> \in R
  BY DEF OpToRel
<1> HIDE DEF R
<1>3. PICK x \in T : \A y \in T : ~ (<<y, x>> \in R)
  BY <1>1, WFMin
<1>4. ASSUME NEW y \in T
      PROVE  x <= y
  <2>1. x \in Nat /\ y \in Nat
    OBVIOUS
  <2>2. ~ (y < x)
    BY <1>2, <1>3, <2>1
  <2> QED
    BY <2>1, <2>2
<1> QED
  BY <1>4

\* Induction: a set with 0 and the successor of each of its numbers below m
\* has every number up to m.
LEMMA InductionUpTo ==
    ASSUME NEW m \in Nat, NEW T,
           0 \in T,
           \A n \in Nat : n < m /\ n \in T => n + 1 \in T
    PROVE  \A n \in 0..m : n \in T
<1> DEFINE D == (0..m) \ T
<1> SUFFICES ASSUME D # {}
             PROVE  FALSE
  OBVIOUS
<1>1. D \subseteq Nat
  OBVIOUS
<1>2. PICK x \in D : \A y \in D : x <= y
  <2> HIDE DEF D
  <2> QED
    BY <1>1, LeastNatural
<1>3. x - 1 \in Nat /\ x - 1 < m /\ x - 1 \in T
  BY <1>2
<1> QED
  BY <1>2, <1>3

\* The functions by which each of m values may be made of the one before, and
\* the values they make, from a on.
Steps(m, V) == [1..m -> [V -> V]]

Iterates(k, m, V, a, g) ==
    k \in [0..m -> V] /\ k[0] = a /\ \A n \in 1..m : k[n] = g[n][k[n - 1]]

\* Recursion: values are defined one after the other by a function g of the
\* index and the value before.
LEMMA RecursionUpTo ==
    ASSUME NEW m \in Nat, NEW V, NEW a \in V, NEW g \in Steps(m, V)
    PROVE  \E k : Iterates(k, m, V, a, g)
<1> SUFFICES ASSUME g \in [1..m -> [V -> V]]
             PROVE  \E k \in [0..m -> V] : k[0] = a /\ \A n \in 1..m : k[n] = g[n][k[n - 1]]
  BY DEF Steps, Iterates
<1> DEFINE Good(j) == \E k \in [0..j -> V] :
                         k[0] = a /\ \A n \in 1..j : k[n] = g[n][k[n - 1]]
           G == {j \in Nat : Good(j)}
<1>1. Good(0)
  <2> DEFINE k == [n \in 0..0 |-> a]
  <2>1. k \in [0..0 -> V] /\ k[0] = a /\ \A n \in 1..0 : k[n] = g[n][k[n - 1]]
    OBVIOUS
  <2> QED
    BY <2>1
<1>2. ASSUME NEW j \in Nat, j < m, Good(j)
      PROVE  Good(j + 1)
  <2>1. PICK k \in [0..j -> V] : k[0] = a /\ \A n \in 1..j : k[n] = g[n][k[n - 1]]
    BY <1>2
  <2> DEFINE x == g[j + 1][k[j]]
             h == [n \in 0..(j + 1) |-> IF n = j + 1 THEN x ELSE k[n]]
  <2>2. x \in V
    BY <1>2
  <2> HIDE DEF x
  <2>3. h \in [0..(j + 1) -> V] /\ h[0] = a
    BY <2>1, <2>2
  <2>4. ASSUME NEW n \in 1..(j + 1)
        PROVE  h[n] = g[n][h[n - 1]]
    <3>1. CASE n = j + 1
      BY <3>1 DEF x
    <3>2. CASE n \in 1..j
      BY <3>2, <2>1
    <3> QED
      BY <3>1, <3>2
  <2> HIDE DEF h
  <2> QED
    BY <2>3, <2>4
<1> HIDE DEF Good
<1>3. 0 \in G /\ \A n \in Nat : n < m /\ n \in G => n + 1 \in G
  BY <1>1, <1>2
<1>4. m \in G
  <2> HIDE DEF G
  <2>1. \A n \in 0..m : n \in G
    BY <1>3, InductionUpTo
  <2> QED
    BY <2>1
<1> QED
  BY <1>4 DEF Good

-----------------------------------------------------------------------------
(* Excluding *)

\* The recursion in Excluding defines a function.
LEMMA ExcludingDefined ==
    ASSUME NEW T, NEW s \in Seq(T), NEW S
    PROVE  \E k : /\ Excluding(s, S) = k[Len(s)]
                  /\ k[0] = <<>>
                  /\ \A n \in 1..Len(s) :
                        k[n] = IF s[n] \in S THEN k[n - 1] ELSE Append(k[n - 1], s[n])
<1> DEFINE P(k) == k = [n \in 0..Len(s) |->
                          IF n = 0 THEN <<>>
                          ELSE IF s[n] \in S THEN k[n - 1] ELSE Append(k[n - 1], s[n])]
           f == CHOOSE k : P(k)
           V == Seq(T)
           a == <<>>
           m == Len(s)
           g == [n \in 1..m |-> [v \in V |-> IF s[n] \in S THEN v ELSE Append(v, s[n])]]
<1>1. g \in [1..m -> [V -> V]] /\ a \in V /\ m \in Nat
  OBVIOUS
<1>2. PICK k \in [0..m -> V] : k[0] = a /\ \A n \in 1..m : k[n] = g[n][k[n - 1]]
  <2>1. g \in Steps(m, V) /\ a \in V /\ m \in Nat
    BY <1>1 DEF Steps
  <2> HIDE DEF g, V, a, m, P, f
  <2>2. \E k : Iterates(k, m, V, a, g)
    BY <2>1, RecursionUpTo
  <2> QED
    BY <2>2 DEF Iterates
<1>3. \A n \in 1..Len(s) : k[n] = IF s[n] \in S THEN k[n - 1] ELSE Append(k[n - 1], s[n])
  <2> SUFFICES ASSUME NEW n \in 1..m
               PROVE  k[n] = IF s[n] \in S THEN k[n - 1] ELSE Append(k[n - 1], s[n])
    OBVIOUS
  <2>1. n - 1 \in 0..m
    OBVIOUS
  <2>2. k[n - 1] \in V
    BY <2>1
  <2>3. k[n] = g[n][k[n - 1]]
    <3> HIDE DEF g, V, a, m
    <3> QED
      BY <1>2, Zenon
  <2>4. \A v \in V : g[n][v] = IF s[n] \in S THEN v ELSE Append(v, s[n])
    OBVIOUS
  <2> HIDE DEF g, V
  <2> QED
    BY <2>2, <2>3, <2>4
<1>4. P(k)
  <2>1. k = [n \in 0..m |-> k[n]]
    OBVIOUS
  <2>2. \A n \in 0..m : k[n] = IF n = 0 THEN <<>>
                     ELSE IF s[n] \in S THEN k[n - 1] ELSE Append(k[n - 1], s[n])
    <3> SUFFICES ASSUME NEW n \in 0..m
                 PROVE  k[n] = IF n = 0 THEN <<>>
                               ELSE IF s[n] \in S THEN k[n - 1] ELSE Append(k[n - 1], s[n])
      OBVIOUS
    <3>1. CASE n = 0
      BY <3>1, <1>2
    <3>2. CASE n \in 1..m
      <4>1. n # 0
        BY <3>2
      <4>2. k[n] = IF s[n] \in S THEN k[n - 1] ELSE Append(k[n - 1], s[n])
        BY <3>2, <1>3
      <4> QED
        BY <4>1, <4>2, Zenon
    <3> QED
      BY <3>1, <3>2
  <2> QED
    BY <2>1, <2>2
<1> HIDE DEF g, V
<1>5. P(f)
  <2> HIDE DEF P
  <2> QED
    BY <1>4
<1>6. Excluding(s, S) = f[Len(s)]
  BY DEF Excluding
<1> HIDE DEF f
<1>7. f[0] = <<>>
  BY <1>5
<1>8. \A n \in 1..Len(s) : f[n] = IF s[n] \in S THEN f[n - 1] ELSE Append(f[n - 1], s[n])
  <2> SUFFICES ASSUME NEW n \in 1..Len(s)
               PROVE  f[n] = IF s[n] \in S THEN f[n - 1] ELSE Append(f[n - 1], s[n])
    OBVIOUS
  <2>1. n \in 0..Len(s) /\ n # 0
    OBVIOUS
  <2> QED
    BY <1>5, <2>1
<1> HIDE DEF P
<1> QED
  BY <1>6, <1>7, <1>8

\* h maps the positions of e, in order, to those positions up to n at which s
\* has no element of S.
Selects(e, h, s, n, S) ==
    /\ h \in [1..Len(e) -> 1..n]
    /\ \A i \in 1..Len(e) : e[i] = s[h[i]] /\ s[h[i]] \notin S
    /\ \A i, j \in 1..Len(e) : i < j => h[i] < h[j]
    /\ \A m \in 1..n : s[m] \notin S => \E i \in 1..Len(e) : h[i] = m

\* Excluding keeps exactly the elements that are not in S, in their order.
LEMMA ExcludingSelects ==
    ASSUME NEW T, NEW s \in Seq(T), NEW S
    PROVE  /\ Excluding(s, S) \in Seq(T)
           /\ \E h : Selects(Excluding(s, S), h, s, Len(s), S)
<1>1. PICK k : /\ Excluding(s, S) = k[Len(s)]
               /\ k[0] = <<>>
               /\ \A n \in 1..Len(s) :
                     k[n] = IF s[n] \in S THEN k[n - 1] ELSE Append(k[n - 1], s[n])
  BY ExcludingDefined
<1> DEFINE Good(n) == k[n] \in Seq(T) /\ \E h : Selects(k[n], h, s, n, S)
           G == {n \in 0..Len(s) : Good(n)}
<1>2. Good(0)
  <2> DEFINE h == [i \in 1..0 |-> 0]
  <2>1. Selects(<<>>, h, s, 0, S)
    BY DEF Selects
  <2> QED
    BY <1>1, <2>1
<1>3. ASSUME NEW n \in Nat, n < Len(s), Good(n)
      PROVE  Good(n + 1)
  <2> DEFINE e == k[n]
             x == s[n + 1]
  <2>1. PICK h : Selects(e, h, s, n, S)
    BY <1>3
  <2>2. e \in Seq(T) /\ x \in T /\ n + 1 \in 1..Len(s)
    BY <1>3
  <2>3. k[n + 1] = IF x \in S THEN e ELSE Append(e, x)
    <3>1. (n + 1) - 1 = n
      OBVIOUS
    <3> QED
      BY <1>1, <2>2, <3>1
  <2> HIDE DEF e
  <2>4. CASE x \in S
    <3>1. Selects(e, h, s, n + 1, S)
      BY <2>1, <2>2, <2>4 DEF Selects
    <3> QED
      BY <2>2, <2>3, <2>4, <3>1
  <2>5. CASE x \notin S
    <3> DEFINE d == Append(e, x)
               g == [i \in 1..Len(d) |-> IF i = Len(d) THEN n + 1 ELSE h[i]]
    <3>1. /\ d \in Seq(T) /\ Len(d) = Len(e) + 1 /\ d[Len(d)] = x
          /\ \A i \in 1..Len(e) : d[i] = e[i]
      BY <2>2
    <3> HIDE DEF d
    <3>2. h \in [1..Len(e) -> 1..n] /\ Len(e) \in Nat
      BY <2>1, <2>2 DEF Selects
    <3>3. /\ g \in [1..Len(d) -> 1..(n + 1)]
          /\ g[Len(d)] = n + 1
          /\ \A i \in 1..Len(e) : g[i] = h[i]
      BY <3>1, <3>2
    <3> HIDE DEF g
    <3>4. \A i \in 1..Len(d) : i = Len(d) \/ i \in 1..Len(e)
      BY <3>1, <3>2
    <3>5. \A i \in 1..Len(d) : d[i] = s[g[i]] /\ s[g[i]] \notin S
      BY <2>1, <2>5, <3>1, <3>3, <3>4 DEF Selects
    <3>6. \A i, j \in 1..Len(d) : i < j => g[i] < g[j]
      <4> SUFFICES ASSUME NEW i \in 1..Len(d), NEW j \in 1..Len(d), i < j
                   PROVE  g[i] < g[j]
        OBVIOUS
      <4>1. i \in 1..Len(e)
        BY <3>1, <3>2
      <4>2. CASE j = Len(d)
        BY <4>1, <4>2, <3>2, <3>3
      <4>3. CASE j \in 1..Len(e)
        BY <4>1, <4>3, <3>3, <2>1 DEF Selects
      <4> QED
        BY <4>2, <4>3, <3>4
    <3>7. ASSUME NEW m \in 1..(n + 1), s[m] \notin S
          PROVE  \E i \in 1..Len(d) : g[i] = m
      <4>1. CASE m = n + 1
        BY <4>1, <3>1, <3>2, <3>3
      <4>2. CASE m \in 1..n
        <5>1. PICK i \in 1..Len(e) : h[i] = m
          BY <4>2, <3>7, <2>1 DEF Selects
        <5>2. i \in 1..Len(d)
          BY <3>1, <3>2
        <5> QED
          BY <5>1, <5>2, <3>3
      <4> QED
        BY <4>1, <4>2
    <3>8. Selects(d, g, s, n + 1, S)
      BY <3>3, <3>5, <3>6, <3>7 DEF Selects
    <3> QED
      BY <2>3, <2>5, <3>1, <3>8 DEF d
  <2> QED
    BY <2>4, <2>5
<1> HIDE DEF Good
<1>4. 0 \in G /\ \A n \in Nat : n < Len(s) /\ n \in G => n + 1 \in G
  BY <1>2, <1>3
<1>5. Good(Len(s))
  <2>1. Len(s) \in Nat
    OBVIOUS
  <2> HIDE DEF G
  <2>2. \A n \in 0..Len(s) : n \in G
    BY <1>4, <2>1, InductionUpTo
  <2> QED
    BY <2>1, <2>2 DEF G
<1> QED
  BY <1>1, <1>5 DEF Good

Distinct(q) == \A j, k \in 1..Len(q) : q[j] = q[k] => j = k

\* What is left of a list is in it, is not excluded, and is there once if it
\* was there once; and everything else is left.
LEMMA ExcludingElements ==
    ASSUME NEW T, NEW q \in Seq(T), NEW S
    PROVE  /\ Excluding(q, S) \in Seq(T)
           /\ \A x : Contains(Excluding(q, S), x) <=> Contains(q, x) /\ x \notin S
           /\ Distinct(q) => Distinct(Excluding(q, S))
<1> DEFINE e == Excluding(q, S)
<1>1. e \in Seq(T) /\ \E h : Selects(e, h, q, Len(q), S)
  BY ExcludingSelects
<1>2. PICK h : Selects(e, h, q, Len(q), S)
  BY <1>1
<1> HIDE DEF e
<1>3. ASSUME NEW x
      PROVE  Contains(e, x) <=> Contains(q, x) /\ x \notin S
  <2>1. ASSUME NEW i \in 1..Len(e), e[i] = x
        PROVE  Contains(q, x) /\ x \notin S
    <3>1. h[i] \in 1..Len(q) /\ q[h[i]] = x /\ x \notin S
      BY <1>2, <2>1 DEF Selects
    <3> QED
      BY <3>1 DEF Contains
  <2>2. ASSUME NEW m \in 1..Len(q), q[m] = x, x \notin S
        PROVE  Contains(e, x)
    <3>1. PICK i \in 1..Len(e) : h[i] = m
      BY <1>2, <2>2 DEF Selects
    <3>2. e[i] = q[h[i]]
      BY <1>2 DEF Selects
    <3> QED
      BY <2>2, <3>1, <3>2 DEF Contains
  <2> QED
    BY <2>1, <2>2 DEF Contains
<1>4. ASSUME Distinct(q)
      PROVE  Distinct(e)
  <2> SUFFICES ASSUME NEW j \in 1..Len(e), NEW k \in 1..Len(e), e[j] = e[k]
               PROVE  j = k
    BY DEF Distinct
  <2>1. h[j] \in 1..Len(q) /\ h[k] \in 1..Len(q)
    BY <1>2 DEF Selects
  <2>2. h[j] = h[k]
    <3>1. e[j] = q[h[j]] /\ e[k] = q[h[k]]
      BY <1>2 DEF Selects
    <3>2. q[h[j]] = q[h[k]]
      BY <3>1
    <3> QED
      BY <1>4, <2>1, <3>2 DEF Distinct
  <2>3. ~ (j < k) /\ ~ (k < j)
    BY <1>2, <2>1, <2>2 DEF Selects
  <2>4. j \in Int /\ k \in Int
    BY <1>1
  <2> QED
    BY <2>3, <2>4
<1> QED
  BY <1>1, <1>3, <1>4 DEF e

\* One of the two maps of a selection agrees with the other.
LEMMA SelectsAgree ==
    ASSUME NEW T, NEW e \in Seq(T), NEW f \in Seq(T), NEW g, NEW h, NEW s, NEW n \in Nat, NEW S,
           Selects(e, g, s, n, S), Selects(f, h, s, n, S)
    PROVE  \A i \in 1..Len(e) : i \in 1..Len(f) /\ g[i] = h[i]
<1> DEFINE D == {i \in 1..Len(e) : ~ (i \in 1..Len(f) /\ g[i] = h[i])}
<1> SUFFICES ASSUME D # {}
             PROVE  FALSE
  OBVIOUS
<1>1. Len(e) \in Nat /\ Len(f) \in Nat
  OBVIOUS
<1>2. g \in [1..Len(e) -> 1..n] /\ h \in [1..Len(f) -> 1..n]
  BY DEF Selects
<1>3. /\ \A i, j \in 1..Len(e) : i < j => g[i] < g[j]
      /\ \A i, j \in 1..Len(f) : i < j => h[i] < h[j]
  BY DEF Selects
<1>4. /\ \A i \in 1..Len(e) : \E j \in 1..Len(f) : h[j] = g[i]
      /\ \A i \in 1..Len(f) : \E j \in 1..Len(e) : g[j] = h[i]
  <2>1. \A i \in 1..Len(e) : g[i] \in 1..n /\ s[g[i]] \notin S
    BY <1>2 DEF Selects
  <2>2. \A i \in 1..Len(f) : h[i] \in 1..n /\ s[h[i]] \notin S
    BY <1>2 DEF Selects
  <2> QED
    BY <2>1, <2>2 DEF Selects
<1>5. PICK x \in D : \A y \in D : x <= y
  <2>1. D \subseteq Nat
    BY <1>1
  <2> HIDE DEF D
  <2> QED
    BY <2>1, LeastNatural
<1>6. ASSUME NEW i \in 1..Len(e), i < x
      PROVE  i \in 1..Len(f) /\ g[i] = h[i]
  BY <1>1, <1>5, <1>6
<1>7. PICK j \in 1..Len(f) : h[j] = g[x]
  BY <1>4, <1>5
<1>8. x \in 1..Len(e) /\ ~ (x \in 1..Len(f) /\ g[x] = h[x])
  BY <1>5
<1> HIDE DEF D
<1>9. ~ (j < x)
  <2> SUFFICES ASSUME j < x
               PROVE  FALSE
    OBVIOUS
  <2>1. j \in 1..Len(e)
    BY <1>1, <1>8
  <2>2. g[j] < g[x]
    BY <1>3, <1>8, <2>1
  <2>3. g[j] = g[x]
    BY <1>6, <1>7, <2>1
  <2>4. g[x] \in 1..n
    BY <1>2, <1>8
  <2> QED
    BY <2>2, <2>3, <2>4
<1>10. x \in 1..Len(f) /\ j > x
  BY <1>1, <1>7, <1>8, <1>9
<1>11. PICK k \in 1..Len(e) : g[k] = h[x]
  BY <1>4, <1>10
<1>12. h[x] < g[x]
  BY <1>3, <1>7, <1>10
<1>13. k < x
  <2>1. g[k] \in 1..n /\ g[x] \in 1..n
    BY <1>2, <1>8
  <2>2. ~ (x < k) /\ ~ (x = k)
    BY <1>3, <1>8, <1>11, <1>12, <2>1
  <2> QED
    BY <1>1, <1>8, <2>2
<1>14. k \in 1..Len(f) /\ h[k] = h[x]
  BY <1>6, <1>11, <1>13
<1>15. h[k] < h[x] /\ h[x] \in 1..n
  BY <1>2, <1>3, <1>10, <1>13, <1>14
<1> QED
  BY <1>14, <1>15

\* A selection is unique.
LEMMA SelectsUnique ==
    ASSUME NEW T, NEW e \in Seq(T), NEW f \in Seq(T), NEW g, NEW h, NEW s, NEW n \in Nat, NEW S,
           Selects(e, g, s, n, S), Selects(f, h, s, n, S)
    PROVE  e = f
<1>1. \A i \in 1..Len(e) : i \in 1..Len(f) /\ g[i] = h[i]
  BY SelectsAgree
<1>2. \A i \in 1..Len(f) : i \in 1..Len(e)
  BY SelectsAgree
<1>3. Len(e) \in Nat /\ Len(f) \in Nat
  OBVIOUS
<1>4. Len(e) = Len(f)
  <2>1. ~ (Len(e) < Len(f))
    BY <1>2, <1>3
  <2>2. ~ (Len(f) < Len(e))
    BY <1>1, <1>3
  <2> QED
    BY <1>3, <2>1, <2>2
<1>5. \A i \in 1..Len(e) : e[i] = f[i]
  BY <1>1 DEF Selects
<1> QED
  BY <1>3, <1>4, <1>5

\* The list q with its k-th element left out.
LeavingOut(q, k) == [j \in 1..(Len(q) - 1) |-> IF j < k THEN q[j] ELSE q[j + 1]]

\* To exclude one element of a list without repetitions is to leave out its place.
LEMMA ExcludingOne ==
    ASSUME NEW T, NEW q \in Seq(T), Distinct(q), NEW k \in 1..Len(q)
    PROVE  /\ Excluding(q, {q[k]}) = LeavingOut(q, k)
           /\ LeavingOut(q, k) \in Seq(T)
           /\ Len(LeavingOut(q, k)) = Len(q) - 1
<1> DEFINE w == LeavingOut(q, k)
           n == Len(q)
           S == {q[k]}
           h == [j \in 1..(n - 1) |-> IF j < k THEN j ELSE j + 1]
<1>1. n \in Nat /\ k \in 1..n /\ n - 1 \in Nat
  OBVIOUS
<1>2. w \in Seq(T) /\ Len(w) = n - 1
      /\ \A j \in 1..(n - 1) : w[j] = IF j < k THEN q[j] ELSE q[j + 1]
  <2>1. \A j \in 1..(n - 1) : (IF j < k THEN q[j] ELSE q[j + 1]) \in T
    BY <1>1
  <2> QED
    BY <1>1, <2>1 DEF LeavingOut
<1> HIDE DEF w, n
<1>3. h \in [1..Len(w) -> 1..n]
  BY <1>1, <1>2
<1>4. \A j \in 1..(n - 1) : h[j] # k /\ h[j] = IF j < k THEN j ELSE j + 1
  BY <1>1
<1>5. \A m \in 1..n : q[m] \notin S <=> m # k
  BY DEF Distinct, n
<1>6. \A j \in 1..Len(w) : w[j] = q[h[j]] /\ q[h[j]] \notin S
  <2> SUFFICES ASSUME NEW j \in 1..Len(w)
               PROVE  w[j] = q[h[j]] /\ q[h[j]] \notin S
    OBVIOUS
  <2>1. j \in 1..(n - 1) /\ h[j] \in 1..n
    BY <1>2, <1>3
  <2>2. h[j] = (IF j < k THEN j ELSE j + 1) /\ h[j] # k
    BY <1>4, <2>1
  <2> HIDE DEF h, S
  <2> QED
    BY <1>2, <1>5, <2>1, <2>2
<1>7. \A i, j \in 1..Len(w) : i < j => h[i] < h[j]
  BY <1>1, <1>2
<1>8. \A m \in 1..n : q[m] \notin S => \E j \in 1..Len(w) : h[j] = m
  <2> SUFFICES ASSUME NEW m \in 1..n, m # k
               PROVE  \E j \in 1..Len(w) : h[j] = m
    BY <1>5
  <2> DEFINE j == IF m < k THEN m ELSE m - 1
  <2>1. j \in 1..(n - 1)
    BY <1>1
  <2>2. h[j] = m
    BY <1>1, <2>1
  <2> QED
    BY <1>2, <2>1, <2>2
<1> HIDE DEF h, S
<1>9. Selects(w, h, q, n, S)
  BY <1>3, <1>6, <1>7, <1>8 DEF Selects
<1>10. Excluding(q, S) \in Seq(T) /\ \E g : Selects(Excluding(q, S), g, q, n, S)
  BY ExcludingSelects DEF n
<1>11. Excluding(q, S) = w
  BY <1>1, <1>2, <1>9, <1>10, SelectsUnique
<1> QED
  BY <1>2, <1>11 DEF w, S, n

-----------------------------------------------------------------------------
(* FlattenSeq *)

\* The recursion in FlattenSeq defines a function.
LEMMA FlattenDefined ==
    \A T : \A s \in Seq(Seq(T)) : Len(s) # 0 =>
        \E f : /\ FlattenSeq(s) = f[Len(s)]
               /\ f[1] = s[1]
               /\ \A n \in 2..Len(s) : f[n] = f[n - 1] \o s[n]
<1>0. SUFFICES ASSUME NEW T, NEW s, s \in Seq(Seq(T)), Len(s) # 0
               PROVE  \E f : /\ FlattenSeq(s) = f[Len(s)]
                             /\ f[1] = s[1]
                             /\ \A n \in 2..Len(s) : f[n] = f[n - 1] \o s[n]
  OBVIOUS
<1> DEFINE P(f) == f = [i \in 1..Len(s) |-> IF i = 1 THEN s[i] ELSE f[i - 1] \o s[i]]
           c == CHOOSE f : P(f)
           V == Seq(T)
           a == <<>>
           m == Len(s)
           g == [n \in 1..m |-> [v \in V |-> v \o s[n]]]
<1>1. g \in [1..m -> [V -> V]] /\ a \in V /\ m \in Nat
  BY <1>0
<1>2. PICK k \in [0..m -> V] : k[0] = a /\ \A n \in 1..m : k[n] = g[n][k[n - 1]]
  <2>1. g \in Steps(m, V) /\ a \in V /\ m \in Nat
    BY <1>1 DEF Steps
  <2> HIDE DEF g, V, a, m, P, c
  <2>2. \E k : Iterates(k, m, V, a, g)
    BY <2>1, RecursionUpTo
  <2> QED
    BY <2>2 DEF Iterates
<1>3. ASSUME NEW n \in 1..m
      PROVE  k[n] = k[n - 1] \o s[n]
  <2>1. n - 1 \in 0..m
    BY <1>0
  <2>2. k[n - 1] \in V
    BY <2>1
  <2>3. k[n] = g[n][k[n - 1]]
    <3> HIDE DEF g, V, a, m
    <3> QED
      BY <1>2, Zenon
  <2>4. \A v \in V : g[n][v] = v \o s[n]
    OBVIOUS
  <2> HIDE DEF g, V
  <2> QED
    BY <2>2, <2>3, <2>4
<1> DEFINE f == [n \in 1..m |-> k[n]]
<1>4. P(f)
  <2>1. ASSUME NEW n \in 1..m
        PROVE  f[n] = IF n = 1 THEN s[n] ELSE f[n - 1] \o s[n]
    <3>1. CASE n = 1
      <4>1. k[n] = k[0] \o s[n]
        <5>1. n - 1 = 0
          BY <3>1
        <5>2. k[n] = k[n - 1] \o s[n]
          BY <1>3
        <5> QED
          BY <5>1, <5>2
      <4>2. s[n] \in Seq(T) /\ k[0] = <<>>
        BY <1>0, <1>2
      <4>3. f[n] = s[n]
        BY <4>1, <4>2
      <4> QED
        BY <3>1, <4>3
    <3>2. CASE n # 1
      <4>1. n - 1 \in 1..m
        BY <1>0, <3>2
      <4>2. f[n] = f[n - 1] \o s[n]
        BY <1>3, <4>1
      <4> QED
        BY <3>2, <4>2
    <3> QED
      BY <3>1, <3>2
  <2> QED
    BY <2>1
<1> HIDE DEF g, V, a, f
<1>5. P(c)
  <2> HIDE DEF P
  <2> QED
    BY <1>4
<1>6. FlattenSeq(s) = c[Len(s)]
  BY <1>0 DEF FlattenSeq
<1> HIDE DEF c
<1>7. c[1] = s[1]
  BY <1>0, <1>5
<1>8. \A n \in 2..Len(s) : c[n] = c[n - 1] \o s[n]
  <2> SUFFICES ASSUME NEW n \in 2..Len(s)
               PROVE  c[n] = c[n - 1] \o s[n]
    OBVIOUS
  <2>1. n \in 1..Len(s) /\ n # 1
    BY <1>0
  <2> QED
    BY <1>5, <2>1
<1> HIDE DEF P
<1> QED
  BY <1>6, <1>7, <1>8

\* p and q map the positions of f, in order, to the positions of the first n
\* sequences of s: the element j of f is the q[j]-th of the p[j]-th sequence.
Joins(f, p, q, s, n) ==
    /\ p \in [1..Len(f) -> 1..n]
    /\ q \in [1..Len(f) -> Nat]
    /\ \A j \in 1..Len(f) : q[j] \in 1..Len(s[p[j]]) /\ f[j] = s[p[j]][q[j]]
    /\ \A i, j \in 1..Len(f) : i < j => p[i] < p[j] \/ (p[i] = p[j] /\ q[i] < q[j])
    /\ \A a \in 1..n : \A b \in 1..Len(s[a]) : \E j \in 1..Len(f) : p[j] = a /\ q[j] = b

\* What Joins says of the first n sequences and a sequence behind them.
LEMMA JoinsOneMore ==
    ASSUME NEW T, NEW s \in Seq(Seq(T)), NEW n \in Nat, n < Len(s),
           NEW f \in Seq(T), NEW p, NEW q, Joins(f, p, q, s, n)
    PROVE  /\ f \o s[n + 1] \in Seq(T)
           /\ \E pp, qq : Joins(f \o s[n + 1], pp, qq, s, n + 1)
<1> DEFINE x == s[n + 1]
           d == f \o x
           pp == [j \in 1..Len(d) |-> IF j <= Len(f) THEN p[j] ELSE n + 1]
           qq == [j \in 1..Len(d) |-> IF j <= Len(f) THEN q[j] ELSE j - Len(f)]
<1>1. x \in Seq(T)
  OBVIOUS
<1> HIDE DEF x
<1>2. /\ d \in Seq(T) /\ Len(d) = Len(f) + Len(x)
      /\ Len(f) \in Nat /\ Len(x) \in Nat
      /\ \A j \in 1..Len(f) : d[j] = f[j]
      /\ \A j \in 1..Len(d) : j > Len(f) => d[j] = x[j - Len(f)]
  BY <1>1
<1> HIDE DEF d
<1>3. /\ p \in [1..Len(f) -> 1..n]
      /\ q \in [1..Len(f) -> Nat]
  BY DEF Joins
<1>4. /\ pp \in [1..Len(d) -> 1..(n + 1)]
      /\ qq \in [1..Len(d) -> Nat]
      /\ \A j \in 1..Len(f) : pp[j] = p[j] /\ qq[j] = q[j]
      /\ \A j \in 1..Len(d) : j > Len(f) => pp[j] = n + 1 /\ qq[j] = j - Len(f)
  <2>1. \A j \in 1..Len(f) : j \in 1..Len(d) /\ j <= Len(f)
    BY <1>2
  <2>2. \A j \in 1..Len(d) : j <= Len(f) => j \in 1..Len(f)
    BY <1>2
  <2>3. pp \in [1..Len(d) -> 1..(n + 1)]
    BY <2>2, <1>3
  <2>4. qq \in [1..Len(d) -> Nat]
    BY <2>2, <1>2, <1>3
  <2>5. \A j \in 1..Len(f) : pp[j] = p[j] /\ qq[j] = q[j]
    BY <2>1
  <2>6. \A j \in 1..Len(d) : j > Len(f) => pp[j] = n + 1 /\ qq[j] = j - Len(f)
    BY <1>2
  <2> QED
    BY <2>3, <2>4, <2>5, <2>6
<1> HIDE DEF pp, qq
<1>5. ASSUME NEW j \in 1..Len(d)
      PROVE  j \in 1..Len(f) \/ (j > Len(f) /\ j - Len(f) \in 1..Len(x))
  BY <1>2
<1>6. ASSUME NEW j \in 1..Len(d)
      PROVE  qq[j] \in 1..Len(s[pp[j]]) /\ d[j] = s[pp[j]][qq[j]]
  <2>1. CASE j \in 1..Len(f)
    BY <2>1, <1>2, <1>4 DEF Joins
  <2>2. CASE j > Len(f) /\ j - Len(f) \in 1..Len(x)
    BY <2>2, <1>2, <1>4 DEF x
  <2> QED
    BY <2>1, <2>2, <1>5
<1>7. ASSUME NEW i \in 1..Len(d), NEW j \in 1..Len(d), i < j
      PROVE  pp[i] < pp[j] \/ (pp[i] = pp[j] /\ qq[i] < qq[j])
  <2>1. CASE i \in 1..Len(f) /\ j \in 1..Len(f)
    BY <1>7, <2>1, <1>4 DEF Joins
  <2>2. CASE i \in 1..Len(f) /\ j > Len(f)
    <3>1. pp[i] \in 1..n /\ pp[j] = n + 1
      BY <2>2, <1>3, <1>4
    <3> QED
      BY <3>1
  <2>3. CASE i > Len(f)
    <3>1. j > Len(f)
      BY <2>3, <1>7, <1>2
    <3> QED
      BY <1>7, <2>3, <3>1, <1>2, <1>4
  <2> QED
    BY <2>1, <2>2, <2>3, <1>5
<1>8. ASSUME NEW a \in 1..(n + 1), NEW b \in 1..Len(s[a])
      PROVE  \E j \in 1..Len(d) : pp[j] = a /\ qq[j] = b
  <2>1. CASE a \in 1..n
    <3>1. PICK j \in 1..Len(f) : p[j] = a /\ q[j] = b
      BY <2>1 DEF Joins
    <3>2. j \in 1..Len(d)
      BY <1>2
    <3> QED
      BY <3>1, <3>2, <1>4
  <2>2. CASE a = n + 1
    <3>1. b \in 1..Len(x)
      BY <2>2 DEF x
    <3> DEFINE j == Len(f) + b
    <3>2. j \in 1..Len(d) /\ j > Len(f) /\ j - Len(f) = b
      BY <3>1, <1>2
    <3> HIDE DEF j
    <3> QED
      BY <2>2, <3>2, <1>4
  <2> QED
    BY <2>1, <2>2
<1>9. Joins(d, pp, qq, s, n + 1)
  BY <1>4, <1>6, <1>7, <1>8 DEF Joins
<1> QED
  BY <1>2, <1>9 DEF d, x

\* FlattenSeq puts the sequences one behind the other.
LEMMA FlattenJoins ==
    ASSUME NEW T, NEW s \in Seq(Seq(T))
    PROVE  /\ FlattenSeq(s) \in Seq(T)
           /\ \E p, q : Joins(FlattenSeq(s), p, q, s, Len(s))
<1>1. CASE Len(s) = 0
  <2>1. FlattenSeq(s) = s /\ s = <<>>
    BY <1>1 DEF FlattenSeq
  <2> DEFINE z == [j \in 1..0 |-> 0]
  <2>2. Joins(<<>>, z, z, s, 0)
    BY DEF Joins
  <2> QED
    BY <1>1, <2>1, <2>2
<1>2. CASE Len(s) # 0
  <2>1. PICK f : /\ FlattenSeq(s) = f[Len(s)]
                 /\ f[1] = s[1]
                 /\ \A n \in 2..Len(s) : f[n] = f[n - 1] \o s[n]
    BY <1>2, FlattenDefined
  <2> DEFINE Good(n) == f[n] \in Seq(T) /\ \E p, q : Joins(f[n], p, q, s, n)
             G == {n \in 0..(Len(s) - 1) : Good(n + 1)}
  <2>2. Good(1)
    <3> DEFINE z == [j \in 1..0 |-> 0]
    <3>1. Joins(<<>>, z, z, s, 0)
      BY DEF Joins
    <3> DEFINE e == <<>>
               o == 0
    <3>2. e \in Seq(T) /\ o \in Nat /\ o < Len(s) /\ Joins(e, z, z, s, o)
      BY <1>2, <3>1
    <3> HIDE DEF e, o, z
    <3>4. \E p, q : Joins(e \o s[o + 1], p, q, s, o + 1)
      BY <3>2, JoinsOneMore
    <3>5. o + 1 = 1
      BY DEF o
    <3>3. s[1] \in Seq(T) /\ <<>> \o s[1] = s[1]
      BY <1>2
    <3> QED
      BY <2>1, <3>3, <3>4, <3>5 DEF e
  <2>3. ASSUME NEW n \in Nat, n + 1 < Len(s), Good(n + 1)
        PROVE  Good(n + 2)
    <3>1. f[n + 2] = f[n + 1] \o s[(n + 1) + 1]
      <4> DEFINE i == n + 2
      <4>1. i \in 2..Len(s) /\ i - 1 = n + 1 /\ i = (n + 1) + 1
        BY <2>3
      <4>2. f[i] = f[i - 1] \o s[i]
        BY <2>1, <4>1
      <4> QED
        BY <4>1, <4>2
    <3>2. PICK p, q : Joins(f[n + 1], p, q, s, n + 1)
      BY <2>3
    <3> QED
      BY <2>3, <3>1, <3>2, JoinsOneMore
  <2> HIDE DEF Good
  <2>4. 0 \in G /\ \A n \in Nat : n < Len(s) - 1 /\ n \in G => n + 1 \in G
    BY <1>2, <2>2, <2>3
  <2>5. Good(Len(s))
    <3>1. Len(s) - 1 \in Nat
      BY <1>2
    <3> DEFINE m == Len(s) - 1
    <3> HIDE DEF G
    <3>2. \A n \in 0..m : n \in G
      <4> HIDE DEF m
      <4> QED
        BY <2>4, <3>1, InductionUpTo DEF m
    <3>3. m \in G /\ m + 1 = Len(s)
      BY <3>1, <3>2
    <3>4. Good(m + 1)
      BY <3>3 DEF G
    <3> QED
      BY <3>3, <3>4
  <2> QED
    BY <2>1, <2>5 DEF Good
<1> QED
  BY <1>1, <1>2

-----------------------------------------------------------------------------
(* The lists, as the sets of what is in them *)

\* The elements of a list.
LEMMA InToSet ==
    ASSUME NEW q, NEW T, q \in Seq(T)
    PROVE  /\ ToSet(q) = {q[k] : k \in 1..Len(q)}
           /\ ToSet(q) \subseteq T
           /\ \A x : Contains(q, x) <=> x \in ToSet(q)
           /\ q = <<>> <=> ToSet(q) = {}
<1>1. ToSet(q) = {q[k] : k \in 1..Len(q)}
  BY DEF ToSet
<1>2. ToSet(q) \subseteq T
  BY <1>1
<1>3. \A x : Contains(q, x) <=> x \in ToSet(q)
  BY <1>1 DEF Contains
<1>4. ASSUME q # <<>>
      PROVE  ToSet(q) # {}
  <2>1. 1 \in 1..Len(q)
    BY <1>4
  <2> QED
    BY <1>1, <2>1
<1>5. ASSUME q = <<>>
      PROVE  ToSet(q) = {}
  BY <1>1, <1>5
<1> QED
  BY <1>1, <1>2, <1>3, <1>4, <1>5

\* AddTail of a new item.
LEMMA AppendElements ==
    ASSUME NEW T, NEW q \in Seq(T), NEW x \in T
    PROVE  /\ Append(q, x) \in Seq(T)
           /\ ToSet(Append(q, x)) = ToSet(q) \cup {x}
           /\ Distinct(q) /\ x \notin ToSet(q) => Distinct(Append(q, x))
<1> DEFINE a == Append(q, x)
<1>1. a \in Seq(T)
  OBVIOUS
<1>2. /\ Len(a) = Len(q) + 1 /\ a[Len(q) + 1] = x /\ Len(q) \in Nat
      /\ \A k \in 1..Len(q) : a[k] = q[k]
  OBVIOUS
<1>3. /\ ToSet(q) = {q[k] : k \in 1..Len(q)}
      /\ ToSet(a) = {a[k] : k \in 1..Len(a)}
  BY <1>1, InToSet
<1> HIDE DEF a
<1>4. /\ Len(q) + 1 \in 1..Len(a)
      /\ \A k \in 1..Len(q) : k \in 1..Len(a)
      /\ \A k \in 1..Len(a) : k \in 1..Len(q) \/ k = Len(q) + 1
  BY <1>2
<1>5. ToSet(a) = ToSet(q) \cup {x}
  BY <1>2, <1>3, <1>4
<1>6. ASSUME Distinct(q), x \notin ToSet(q)
      PROVE  Distinct(a)
  BY <1>2, <1>3, <1>4, <1>6 DEF Distinct
<1> QED
  BY <1>1, <1>5, <1>6 DEF a

\* The first n items of a list, and the others.
LEMMA PartsElements ==
    ASSUME NEW T, NEW q \in Seq(T), Distinct(q), NEW n \in 0..Len(q)
    PROVE  LET a == SubSeq(q, 1, n)
               b == SubSeq(q, n + 1, Len(q))
           IN  /\ a \in Seq(T) /\ Distinct(a) /\ Len(a) = n
               /\ b \in Seq(T) /\ Distinct(b)
               /\ ToSet(a) \cup ToSet(b) = ToSet(q)
               /\ ToSet(a) \cap ToSet(b) = {}
<1> DEFINE a == SubSeq(q, 1, n)
           b == SubSeq(q, n + 1, Len(q))
<1>1. /\ a \in Seq(T) /\ Len(a) = n
      /\ \A k \in 1..n : a[k] = q[k]
  OBVIOUS
<1>2. /\ b \in Seq(T) /\ Len(b) = Len(q) - n
      /\ \A k \in 1..(Len(q) - n) : b[k] = q[n + k]
  <2>1. CASE n = Len(q)
    BY <2>1
  <2>2. CASE n < Len(q)
    <3>1. b \in Seq(T) /\ Len(b) = Len(q) - n
      BY <2>2
    <3>2. ASSUME NEW k \in 1..(Len(q) - n)
          PROVE  b[k] = q[n + k]
      <4>1. b[k] = q[(n + 1) + k - 1] /\ (n + 1) + k - 1 = n + k
        BY <2>2
      <4> QED
        BY <4>1
    <3> QED
      BY <3>1, <3>2
  <2> QED
    BY <2>1, <2>2
<1>3. /\ ToSet(q) = {q[k] : k \in 1..Len(q)}
      /\ ToSet(a) = {a[k] : k \in 1..Len(a)}
      /\ ToSet(b) = {b[k] : k \in 1..Len(b)}
  BY <1>1, <1>2, InToSet
<1>4. Len(q) \in Nat /\ n \in Nat /\ n <= Len(q)
  OBVIOUS
<1> HIDE DEF a, b
<1>5. /\ \A k \in 1..n : k \in 1..Len(q)
      /\ \A k \in 1..(Len(q) - n) : n + k \in 1..Len(q) /\ n + k \notin 1..n
      /\ \A k \in 1..Len(q) : k \in 1..n \/ (k - n \in 1..(Len(q) - n) /\ n + (k - n) = k)
      /\ \A j, k \in 1..(Len(q) - n) : n + j = n + k => j = k
  BY <1>4
<1>6. ToSet(a) \cup ToSet(b) = ToSet(q)
  <2>1. ASSUME NEW x \in ToSet(q)
        PROVE  x \in ToSet(a) \cup ToSet(b)
    <3>1. PICK k \in 1..Len(q) : x = q[k]
      BY <1>3
    <3>2. CASE k \in 1..n
      BY <1>1, <1>3, <3>1, <3>2
    <3>3. CASE k - n \in 1..(Len(q) - n) /\ n + (k - n) = k
      <4>1. b[k - n] = x
        BY <1>2, <3>1, <3>3
      <4> QED
        BY <1>2, <1>3, <3>3, <4>1
    <3> QED
      BY <1>5, <3>2, <3>3
  <2>2. ASSUME NEW x \in ToSet(a) \cup ToSet(b)
        PROVE  x \in ToSet(q)
    BY <1>1, <1>2, <1>3, <1>5
  <2> QED
    BY <2>1, <2>2
<1>7. ToSet(a) \cap ToSet(b) = {}
  <2> SUFFICES ASSUME NEW x \in ToSet(a), x \in ToSet(b)
               PROVE  FALSE
    OBVIOUS
  <2>1. PICK j \in 1..n : x = q[j]
    BY <1>1, <1>3
  <2>2. PICK k \in 1..(Len(q) - n) : x = q[n + k]
    BY <1>2, <1>3
  <2>3. j \in 1..Len(q) /\ n + k \in 1..Len(q) /\ n + k # j
    BY <1>5
  <2> QED
    BY <2>1, <2>2, <2>3 DEF Distinct
<1>8. Distinct(a)
  BY <1>1, <1>5 DEF Distinct
<1>9. Distinct(b)
  BY <1>2, <1>5 DEF Distinct
<1> QED
  BY <1>1, <1>2, <1>6, <1>7, <1>8, <1>9 DEF a, b

\* What the head of a list leaves behind.
LEMMA TailElements ==
    ASSUME NEW T, NEW q \in Seq(T), Distinct(q), q # <<>>
    PROVE  /\ Head(q) \in ToSet(q)
           /\ Tail(q) \in Seq(T) /\ Distinct(Tail(q))
           /\ ToSet(Tail(q)) = ToSet(q) \ {Head(q)}
<1> DEFINE b == Tail(q)
<1>1. /\ Len(q) \in Nat /\ Len(q) >= 1 /\ Head(q) = q[1]
      /\ b \in Seq(T) /\ Len(b) = Len(q) - 1
      /\ \A k \in 1..(Len(q) - 1) : b[k] = q[k + 1]
  OBVIOUS
<1>2. /\ ToSet(q) = {q[k] : k \in 1..Len(q)}
      /\ ToSet(b) = {b[k] : k \in 1..Len(b)}
  BY <1>1, InToSet
<1> HIDE DEF b
<1>3. /\ 1 \in 1..Len(q)
      /\ \A k \in 1..(Len(q) - 1) : k + 1 \in 1..Len(q) /\ k + 1 # 1
      /\ \A k \in 1..Len(q) : k = 1 \/ (k - 1 \in 1..(Len(q) - 1) /\ (k - 1) + 1 = k)
      /\ \A j, k \in 1..(Len(q) - 1) : j + 1 = k + 1 => j = k
  BY <1>1
<1>4. Head(q) \in ToSet(q)
  BY <1>1, <1>2, <1>3
<1>5. ToSet(b) = ToSet(q) \ {Head(q)}
  <2>1. ASSUME NEW x \in ToSet(b)
        PROVE  x \in ToSet(q) /\ x # Head(q)
    <3>1. PICK k \in 1..(Len(q) - 1) : x = q[k + 1]
      BY <1>1, <1>2
    <3> QED
      BY <1>1, <1>2, <1>3, <3>1 DEF Distinct
  <2>2. ASSUME NEW x \in ToSet(q), x # Head(q)
        PROVE  x \in ToSet(b)
    <3>1. PICK k \in 1..Len(q) : x = q[k]
      BY <1>2
    <3>2. k - 1 \in 1..(Len(q) - 1) /\ (k - 1) + 1 = k
      BY <1>1, <1>3, <2>2, <3>1
    <3> QED
      BY <1>1, <1>2, <3>1, <3>2
  <2> QED
    BY <2>1, <2>2
<1>6. Distinct(b)
  BY <1>1, <1>3 DEF Distinct
<1> QED
  BY <1>1, <1>4, <1>5, <1>6 DEF b

\* A list joined to another.
LEMMA JoinedParts ==
    ASSUME NEW T, NEW a \in Seq(T), NEW b \in Seq(T)
    PROVE  /\ a \o b \in Seq(T)
           /\ Len(a) \in Nat /\ Len(b) \in Nat
           /\ Len(a \o b) = Len(a) + Len(b)
           /\ \A i \in 1..Len(a) : (a \o b)[i] = a[i]
           /\ \A i \in 1..Len(b) : (a \o b)[Len(a) + i] = b[i]
<1>1. a \o b \in Seq(T) /\ Len(a) \in Nat /\ Len(b) \in Nat
  OBVIOUS
<1>2. Len(a \o b) = Len(a) + Len(b)
  OBVIOUS
<1>3. ASSUME NEW i \in 1..Len(a)
      PROVE  (a \o b)[i] = a[i]
  OBVIOUS
<1>4. ASSUME NEW i \in 1..Len(b)
      PROVE  (a \o b)[Len(a) + i] = b[i]
  OBVIOUS
<1> QED
  BY <1>1, <1>2, <1>3, <1>4

\* What is joined to a list and not excluded is joined to what is left of it.
LEMMA ExcludingJoined ==
    ASSUME NEW T, NEW a \in Seq(T), NEW b \in Seq(T), NEW S,
           \A i \in 1..Len(b) : b[i] \notin S
    PROVE  Excluding(a \o b, S) = Excluding(a, S) \o b
<1> DEFINE e == Excluding(a, S)
           w == e \o b
           s == a \o b
<1>1. e \in Seq(T) /\ \E h : Selects(e, h, a, Len(a), S)
  BY ExcludingSelects
<1>2. PICK h : Selects(e, h, a, Len(a), S)
  BY <1>1
<1> HIDE DEF e
<1>3. /\ w \in Seq(T) /\ Len(w) = Len(e) + Len(b)
      /\ Len(e) \in Nat /\ Len(b) \in Nat
      /\ \A i \in 1..Len(e) : w[i] = e[i]
      /\ \A i \in 1..Len(b) : w[Len(e) + i] = b[i]
  BY <1>1, JoinedParts
<1>4. /\ s \in Seq(T) /\ Len(s) = Len(a) + Len(b) /\ Len(a) \in Nat
      /\ \A i \in 1..Len(a) : s[i] = a[i]
      /\ \A i \in 1..Len(b) : s[Len(a) + i] = b[i]
  BY JoinedParts
<1> HIDE DEF w, s
<1> DEFINE g == [i \in 1..Len(w) |-> IF i \in 1..Len(e) THEN h[i] ELSE Len(a) + (i - Len(e))]
<1>5. h \in [1..Len(e) -> 1..Len(a)]
  BY <1>2 DEF Selects
<1>6. ASSUME NEW i \in 1..Len(w)
      PROVE  i \in 1..Len(e) \/ \E k \in 1..Len(b) : i = Len(e) + k
  <2>1. i \in 1..Len(e) \/ (i - Len(e) \in 1..Len(b) /\ i = Len(e) + (i - Len(e)))
    BY <1>3
  <2> QED
    BY <2>1
<1>7. /\ \A i \in 1..Len(e) : i \in 1..Len(w) /\ g[i] = h[i]
      /\ \A i \in 1..Len(b) : /\ Len(e) + i \in 1..Len(w)
                              /\ g[Len(e) + i] = Len(a) + i
  <2>1. ASSUME NEW i \in 1..Len(e)
        PROVE  i \in 1..Len(w) /\ g[i] = h[i]
    BY <1>3
  <2>2. ASSUME NEW i \in 1..Len(b)
        PROVE  Len(e) + i \in 1..Len(w) /\ g[Len(e) + i] = Len(a) + i
    BY <1>3, <1>4
  <2> QED
    BY <2>1, <2>2
<1>8. g \in [1..Len(w) -> 1..Len(s)]
  <2>1. ASSUME NEW i \in 1..Len(w)
        PROVE  g[i] \in 1..Len(s)
    <3>1. CASE i \in 1..Len(e)
      <4>1. h[i] \in 1..Len(a) /\ g[i] = h[i]
        BY <1>5, <1>7, <3>1
      <4> QED
        BY <1>3, <1>4, <4>1
    <3>2. ASSUME NEW k \in 1..Len(b), i = Len(e) + k
          PROVE  g[i] \in 1..Len(s)
      <4>1. g[i] = Len(a) + k
        BY <1>7, <3>2
      <4> QED
        BY <1>3, <1>4, <4>1
    <3> QED
      BY <1>6, <3>1, <3>2
  <2> QED
    BY <2>1
<1> HIDE DEF g
<1>9. ASSUME NEW i \in 1..Len(w)
      PROVE  w[i] = s[g[i]] /\ s[g[i]] \notin S
  <2>1. CASE i \in 1..Len(e)
    <3>1. h[i] \in 1..Len(a) /\ e[i] = a[h[i]] /\ a[h[i]] \notin S
      BY <1>2, <2>1 DEF Selects
    <3> QED
      BY <1>3, <1>4, <1>7, <2>1, <3>1
  <2>2. ASSUME NEW k \in 1..Len(b), i = Len(e) + k
        PROVE  w[i] = s[g[i]] /\ s[g[i]] \notin S
    <3>1. w[i] = b[k] /\ g[i] = Len(a) + k
      BY <1>3, <1>7, <2>2
    <3>2. s[g[i]] = b[k]
      BY <1>4, <3>1
    <3> QED
      BY <3>1, <3>2
  <2> QED
    BY <1>6, <2>1, <2>2
<1>10. ASSUME NEW i \in 1..Len(w), NEW j \in 1..Len(w), i < j
       PROVE  g[i] < g[j]
  <2>1. CASE i \in 1..Len(e) /\ j \in 1..Len(e)
    <3>1. h[i] < h[j]
      BY <1>2, <1>10, <2>1 DEF Selects
    <3> QED
      BY <1>7, <2>1, <3>1
  <2>2. ASSUME i \in 1..Len(e), NEW k \in 1..Len(b), j = Len(e) + k
        PROVE  g[i] < g[j]
    <3>1. g[i] \in 1..Len(a)
      BY <1>5, <1>7, <2>2
    <3>2. g[j] = Len(a) + k
      BY <1>7, <2>2
    <3>3. Len(a) + k > Len(a)
      BY <1>4
    <3>4. g[i] <= Len(a) /\ g[i] \in Nat
      BY <1>4, <3>1
    <3> HIDE DEF g
    <3> QED
      BY <1>4, <3>2, <3>3, <3>4
  <2>3. ASSUME NEW k \in 1..Len(b), i = Len(e) + k
        PROVE  g[i] < g[j]
    <3>1. j \notin 1..Len(e)
      BY <1>3, <1>10, <2>3
    <3>2. PICK l \in 1..Len(b) : j = Len(e) + l
      BY <1>6, <3>1
    <3>3. g[i] = Len(a) + k /\ g[j] = Len(a) + l
      BY <1>7, <2>3, <3>2
    <3>4. k < l
      BY <1>3, <1>10, <2>3, <3>2
    <3> QED
      BY <1>4, <3>3, <3>4
  <2> QED
    BY <1>6, <2>1, <2>2, <2>3
<1>11. ASSUME NEW m \in 1..Len(s), s[m] \notin S
       PROVE  \E i \in 1..Len(w) : g[i] = m
  <2>1. CASE m \in 1..Len(a)
    <3>1. PICK i \in 1..Len(e) : h[i] = m
      BY <1>2, <1>4, <1>11, <2>1 DEF Selects
    <3> QED
      BY <1>7, <3>1
  <2>2. CASE m \notin 1..Len(a)
    <3>1. m - Len(a) \in 1..Len(b) /\ Len(a) + (m - Len(a)) = m
      BY <1>4, <2>2
    <3> QED
      BY <1>7, <3>1
  <2> QED
    BY <2>1, <2>2
<1>12. Selects(w, g, s, Len(s), S)
  BY <1>8, <1>9, <1>10, <1>11 DEF Selects
<1>13. Excluding(s, S) \in Seq(T) /\ \E k : Selects(Excluding(s, S), k, s, Len(s), S)
  BY <1>4, ExcludingSelects
<1>14. Len(s) \in Nat
  BY <1>4
<1>15. Excluding(s, S) = w
  BY <1>3, <1>12, <1>13, <1>14, SelectsUnique
<1> QED
  BY <1>15 DEF e, w, s

\* What is joined to a list and excluded leaves nothing.
LEMMA ExcludingIgnores ==
    ASSUME NEW T, NEW a \in Seq(T), NEW b \in Seq(T), NEW S,
           \A i \in 1..Len(b) : b[i] \in S
    PROVE  Excluding(a \o b, S) = Excluding(a, S)
<1> DEFINE e == Excluding(a, S)
           s == a \o b
<1>1. e \in Seq(T) /\ \E h : Selects(e, h, a, Len(a), S)
  BY ExcludingSelects
<1>2. PICK h : Selects(e, h, a, Len(a), S)
  BY <1>1
<1>3. /\ s \in Seq(T) /\ Len(s) = Len(a) + Len(b) /\ Len(a) \in Nat /\ Len(b) \in Nat
      /\ \A i \in 1..Len(a) : s[i] = a[i]
      /\ \A i \in 1..Len(b) : s[Len(a) + i] = b[i]
  BY JoinedParts
<1> HIDE DEF e, s
<1>4. h \in [1..Len(e) -> 1..Len(s)]
  BY <1>2, <1>3 DEF Selects
<1>5. ASSUME NEW i \in 1..Len(e)
      PROVE  e[i] = s[h[i]] /\ s[h[i]] \notin S
  <2>1. h[i] \in 1..Len(a) /\ e[i] = a[h[i]] /\ a[h[i]] \notin S
    BY <1>2 DEF Selects
  <2> QED
    BY <1>3, <2>1
<1>6. \A i, j \in 1..Len(e) : i < j => h[i] < h[j]
  BY <1>2 DEF Selects
<1>7. ASSUME NEW m \in 1..Len(s), s[m] \notin S
      PROVE  \E i \in 1..Len(e) : h[i] = m
  <2>1. m \in 1..Len(a)
    <3> SUFFICES ASSUME m \notin 1..Len(a)
                 PROVE  FALSE
      OBVIOUS
    <3>1. m - Len(a) \in 1..Len(b) /\ Len(a) + (m - Len(a)) = m
      BY <1>3
    <3> QED
      BY <1>3, <1>7, <3>1
  <2> QED
    BY <1>2, <1>3, <1>7, <2>1 DEF Selects
<1>8. Selects(e, h, s, Len(s), S)
  BY <1>4, <1>5, <1>6, <1>7 DEF Selects
<1>9. Excluding(s, S) \in Seq(T) /\ \E k : Selects(Excluding(s, S), k, s, Len(s), S)
  BY <1>3, ExcludingSelects
<1>10. Len(s) \in Nat
  BY <1>3
<1>11. Excluding(s, S) = e
  BY <1>1, <1>8, <1>9, <1>10, SelectsUnique DEF e
<1> QED
  BY <1>11 DEF e, s

\* What is left of a list is not longer than the list.
LEMMA ExcludingShorter ==
    ASSUME NEW T, NEW s \in Seq(T), NEW S
    PROVE  Len(Excluding(s, S)) \in Nat /\ Len(Excluding(s, S)) <= Len(s)
<1> DEFINE e == Excluding(s, S)
           n == Len(e)
<1>1. e \in Seq(T) /\ \E h : Selects(e, h, s, Len(s), S)
  BY ExcludingSelects
<1>2. PICK h : Selects(e, h, s, Len(s), S)
  BY <1>1
<1>3. n \in Nat /\ Len(s) \in Nat
  BY <1>1
<1>4. /\ h \in [1..n -> 1..Len(s)]
      /\ \A i, j \in 1..n : i < j => h[i] < h[j]
  BY <1>2 DEF Selects
<1> HIDE DEF e, n
<1> DEFINE G == {i \in 0..n : i = 0 \/ h[i] >= i}
<1>5. 0 \in G
  BY <1>3
<1>6. ASSUME NEW i \in Nat, i < n, i \in G
      PROVE  i + 1 \in G
  <2>1. i + 1 \in 1..n /\ h[i + 1] \in 1..Len(s)
    BY <1>3, <1>4, <1>6
  <2>2. CASE i = 0
    BY <2>1, <2>2
  <2>3. CASE i # 0
    <3>1. i \in 1..n /\ h[i] \in 1..Len(s) /\ h[i] >= i /\ h[i] < h[i + 1]
      BY <1>4, <1>6, <2>1, <2>3
    <3> QED
      BY <2>1, <3>1
  <2> QED
    BY <2>2, <2>3
<1> HIDE DEF G
<1>7. \A i \in 0..n : i \in G
  BY <1>3, <1>5, <1>6, InductionUpTo
<1>8. n <= Len(s)
  <2>1. n = 0 \/ h[n] >= n
    BY <1>3, <1>7 DEF G
  <2>2. CASE n = 0
    BY <1>3, <2>2
  <2>3. CASE n # 0
    <3>1. n \in 1..n
      BY <1>3, <2>3
    <3>2. h[n] \in 1..Len(s)
      BY <1>4, <3>1
    <3> QED
      BY <1>3, <2>1, <2>3, <3>2
  <2> QED
    BY <2>2, <2>3
<1> QED
  BY <1>3, <1>8 DEF e, n

=============================================================================
