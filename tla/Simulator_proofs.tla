-------------------------- MODULE Simulator_proofs --------------------------
(***************************************************************************)
(* What holds of the backtester service.  First, of the figures of one     *)
(* run: the sums, which do not depend on the order of what is summed, and  *)
(* the drawdown.  Then, of any number of concurrent calls and restarts,    *)
(* and for any signals.                                                    *)
(***************************************************************************)
EXTENDS Simulator, FiniteSetTheorems, WellFoundedInduction, TLAPS

-----------------------------------------------------------------------------
(* Induction, with the set of the numbers for which a fact holds in place  *)
(* of the fact.                                                            *)

\* A set with 0, and with the successor of each of its elements, has all numbers
\* up to a bound.
LEMMA SetInduction ==
    ASSUME NEW n \in Nat, NEW T, 0 \in T, \A k \in 0..n : k < n /\ k \in T => k + 1 \in T
    PROVE  \A k \in 0..n : k \in T
<1>. DEFINE U == {k \in 0..n : k \notin T}
<1>. SUFFICES ASSUME U # {}
              PROVE  FALSE
  OBVIOUS
<1>1. U \subseteq Nat
  OBVIOUS
<1>. HIDE DEF U
<1>2. PICK k \in U : \A j \in U : <<j, k>> \notin OpToRel(<, Nat)
  BY <1>1, NatLessThanWellFounded, WFMin
<1>3. \A j \in U : ~(j < k)
  BY <1>1, <1>2, Zenon DEF OpToRel
<1>4. k \in 1..n /\ k - 1 \in 0..n /\ k - 1 < n /\ k - 1 < k
  BY DEF U
<1>5. k - 1 \in T
  BY <1>3, <1>4 DEF U
<1>6. (k - 1) + 1 \in T
  BY <1>4, <1>5
<1>. QED
  BY <1>4, <1>6 DEF U

-----------------------------------------------------------------------------
(* Sums.                                                                   *)

Numbers(n) == [1..n -> Int]

\* g has the sums of the first numbers of c, up to k.
Summing(g, c, k) == g \in [0..k -> Int] /\ g[0] = 0 /\ \A i \in 1..k : g[i] = g[i - 1] + c[i]

\* The sums are those of the recursion that defines them.
LEMMA SumsStep ==
    ASSUME NEW n \in Nat, NEW c \in Numbers(n)
    PROVE  /\ Sums(c)[0] = 0
           /\ SumOf(c) = Sums(c)[n]
           /\ \A k \in 0..n :
                 /\ Sums(c)[k] \in Int
                 /\ k < n => c[k + 1] \in Int /\ Sums(c)[k + 1] = Sums(c)[k] + c[k + 1]
<1>. USE DEF Numbers
<1>. DEFINE T == {k \in 0..n : \E g : Summing(g, c, k)}
<1>1. 0 \in T
  <2>1. Summing([i \in 0..0 |-> 0], c, 0)
    BY DEF Summing
  <2>2. 0 \in 0..n
    OBVIOUS
  <2>. QED
    BY <2>1, <2>2
<1>2. ASSUME NEW k \in 0..n, k < n, k \in T
      PROVE  k + 1 \in T
  <2>1. PICK g : Summing(g, c, k)
    BY <1>2
  <2>. DEFINE h == [i \in 0..(k + 1) |-> IF i = k + 1 THEN g[k] + c[k + 1] ELSE g[i]]
  <2>2. g[k] + c[k + 1] \in Int
    BY <1>2, <2>1 DEF Summing
  <2>3. h \in [0..(k + 1) -> Int]
    BY <2>1, <2>2 DEF Summing
  <2>4. h[0] = 0
    BY <2>1 DEF Summing
  <2>5. ASSUME NEW i \in 1..(k + 1)
        PROVE  h[i] = h[i - 1] + c[i]
    <3>1. CASE i = k + 1
      BY <3>1
    <3>2. CASE i \in 1..k
      BY <2>1, <3>2 DEF Summing
    <3>. QED
      BY <3>1, <3>2
  <2>. HIDE DEF h
  <2>6. Summing(h, c, k + 1)
    BY <2>3, <2>4, <2>5 DEF Summing
  <2>7. k + 1 \in 0..n
    BY <1>2
  <2>. QED
    BY <2>6, <2>7
<1>. HIDE DEF T
<1>3. n \in T
  <2>1. \A k \in 0..n : k < n /\ k \in T => k + 1 \in T
    BY <1>2
  <2>2. \A k \in 0..n : k \in T
    BY <1>1, <2>1, SetInduction
  <2>. QED
    BY <2>2
<1>4. PICK g : Summing(g, c, n)
  BY <1>3 DEF T
<1>5. g = [i \in 0..n |-> IF i = 0 THEN 0 ELSE g[i - 1] + c[i]]
  BY <1>4 DEF Summing
<1>6. Len(c) = n
  OBVIOUS
<1>7. Sums(c) = CHOOSE h : h = [i \in 0..n |-> IF i = 0 THEN 0 ELSE h[i - 1] + c[i]]
  BY <1>6, Zenon DEF Sums
<1>8. Sums(c) = [i \in 0..n |-> IF i = 0 THEN 0 ELSE Sums(c)[i - 1] + c[i]]
  BY <1>5, <1>7, Zenon
<1>. DEFINE V == {k \in 0..n : Sums(c)[k] \in Int}
<1>9. 0 \in V
  BY <1>8
<1>10. ASSUME NEW k \in 0..n, k < n, k \in V
       PROVE  k + 1 \in V
  <2>1. Sums(c)[k + 1] = Sums(c)[k] + c[k + 1]
    BY <1>8, <1>10
  <2>. QED
    BY <1>10, <2>1
<1>. HIDE DEF V
<1>11. \A k \in 0..n : k \in V
  BY <1>9, <1>10, SetInduction
<1>12. ASSUME NEW k \in 0..n, k < n
       PROVE  c[k + 1] \in Int /\ Sums(c)[k + 1] = Sums(c)[k] + c[k + 1]
  BY <1>8, <1>12
<1>. QED
  BY <1>6, <1>8, <1>11, <1>12 DEF V, SumOf

\* Sequences that begin alike have the same sums that far.
LEMMA SamePrefix ==
    ASSUME NEW n \in Nat, NEW c \in Numbers(n), NEW m \in Nat, NEW d \in Numbers(m),
           NEW p \in 0..n, p <= m, \A i \in 1..p : c[i] = d[i]
    PROVE  Sums(c)[p] = Sums(d)[p]
<1>. DEFINE T == {k \in 0..p : Sums(c)[k] = Sums(d)[k]}
<1>1. 0 \in T
  BY SumsStep
<1>2. ASSUME NEW k \in 0..p, k < p, k \in T
      PROVE  k + 1 \in T
  <2>1. k \in 0..m /\ k < m /\ k < n /\ k + 1 \in 1..p
    BY <1>2
  <2>2. Sums(c)[k + 1] = Sums(c)[k] + c[k + 1] /\ Sums(d)[k + 1] = Sums(d)[k] + d[k + 1]
    BY <2>1, SumsStep
  <2>. QED
    BY <1>2, <2>1, <2>2
<1>. HIDE DEF T
<1>3. \A k \in 0..p : k \in T
  BY <1>1, <1>2, SetInduction
<1>. QED
  BY <1>3 DEF T

\* The sum of differences is the difference of the sums.
LEMMA SumOfDifferences ==
    ASSUME NEW n \in Nat, NEW c \in Numbers(n), NEW d \in Numbers(n), NEW e \in Numbers(n),
           \A i \in 1..n : c[i] = d[i] - e[i]
    PROVE  SumOf(c) = SumOf(d) - SumOf(e)
<1>. DEFINE T == {k \in 0..n : Sums(c)[k] = Sums(d)[k] - Sums(e)[k]}
<1>1. 0 \in T
  BY SumsStep
<1>2. ASSUME NEW k \in 0..n, k < n, k \in T
      PROVE  k + 1 \in T
  <2>1. k + 1 \in 1..n
    BY <1>2
  <2>2. /\ Sums(c)[k + 1] = Sums(c)[k] + c[k + 1]
        /\ Sums(d)[k + 1] = Sums(d)[k] + d[k + 1]
        /\ Sums(e)[k + 1] = Sums(e)[k] + e[k + 1]
    BY <1>2, SumsStep
  <2>3. Sums(d)[k] \in Int /\ Sums(e)[k] \in Int /\ d[k + 1] \in Int /\ e[k + 1] \in Int
    BY <1>2, SumsStep
  <2>4. c[k + 1] = d[k + 1] - e[k + 1] /\ Sums(c)[k] = Sums(d)[k] - Sums(e)[k]
    BY <1>2, <2>1
  <2>5. Sums(c)[k + 1] = Sums(d)[k + 1] - Sums(e)[k + 1]
    BY <2>2, <2>3, <2>4
  <2>. QED
    BY <2>1, <2>5
<1>. HIDE DEF T
<1>3. \A k \in 0..n : k \in T
  BY <1>1, <1>2, SetInduction
<1>. QED
  BY <1>3, SumsStep DEF T

\* A sum that is not 0 is of something.
LEMMA SumOfZeros ==
    ASSUME NEW n \in Nat, NEW c \in Numbers(n), \A i \in 1..n : c[i] = 0
    PROVE  SumOf(c) = 0
<1>1. SumOf(c) = SumOf(c) - SumOf(c)
  BY SumOfDifferences
<1>2. SumOf(c) \in Int
  BY SumsStep
<1>. QED
  BY <1>1, <1>2

\* A change of one number changes the sum by as much.
LEMMA ChangeOne ==
    ASSUME NEW n \in Nat, NEW c \in Numbers(n), NEW d \in Numbers(n), NEW j \in 1..n,
           \A i \in 1..n : i # j => d[i] = c[i]
    PROVE  SumOf(d) = SumOf(c) - c[j] + d[j]
<1>. DEFINE T == {k \in 0..n : Sums(d)[k] = IF k < j THEN Sums(c)[k] ELSE Sums(c)[k] - c[j] + d[j]}
<1>1. 0 \in T
  BY SumsStep
<1>2. ASSUME NEW k \in 0..n, k < n, k \in T
      PROVE  k + 1 \in T
  <2>1. k + 1 \in 1..n
    BY <1>2
  <2>2. Sums(c)[k + 1] = Sums(c)[k] + c[k + 1] /\ Sums(d)[k + 1] = Sums(d)[k] + d[k + 1]
    BY <1>2, SumsStep
  <2>3. Sums(c)[k] \in Int /\ c[k + 1] \in Int /\ c[j] \in Int /\ d[j] \in Int
    BY <1>2, SumsStep DEF Numbers
  <2>4. CASE k + 1 = j
    BY <1>2, <2>1, <2>2, <2>3, <2>4
  <2>5. CASE k + 1 # j
    BY <1>2, <2>1, <2>2, <2>3, <2>5
  <2>. QED
    BY <2>4, <2>5
<1>. HIDE DEF T
<1>3. \A k \in 0..n : k \in T
  BY <1>1, <1>2, SetInduction
<1>4. n \in T /\ ~(n < j)
  BY <1>3
<1>5. Sums(d)[n] = Sums(c)[n] - c[j] + d[j]
  BY <1>4 DEF T
<1>. QED
  BY <1>5, SumsStep

\* f takes every number from 1 to n to another one.
Permutes(f, n) ==
    /\ f \in [1..n -> 1..n]
    /\ \A i, j \in 1..n : f[i] = f[j] => i = j
    /\ \A i \in 1..n : \E j \in 1..n : f[j] = i

\* The sum does not depend on the order.
LEMMA SumPermuted ==
    ASSUME NEW n \in Nat, NEW c \in Numbers(n), NEW f, Permutes(f, n)
    PROVE  SumOf([i \in 1..n |-> c[f[i]]]) = SumOf(c)
<1>. DEFINE T == {k \in 0..n : \A d \in Numbers(k) : \A g :
                     Permutes(g, k) => SumOf([i \in 1..k |-> d[g[i]]]) = SumOf(d)}
<1>1. 0 \in T
  <2>1. ASSUME NEW d \in Numbers(0)
        PROVE  SumOf(d) = 0
    BY SumsStep
  <2>2. \A d \in Numbers(0) : \A g : [i \in 1..0 |-> d[g[i]]] \in Numbers(0)
    BY DEF Numbers
  <2>. QED
    BY <2>1, <2>2
<1>2. ASSUME NEW k \in 0..n, k < n, k \in T
      PROVE  k + 1 \in T
  <2>. DEFINE m == k + 1
  <2>. SUFFICES ASSUME NEW d \in Numbers(m), NEW g, Permutes(g, m)
                PROVE  SumOf([i \in 1..m |-> d[g[i]]]) = SumOf(d)
    BY <1>2
  <2>1. k \in Nat /\ m \in Nat /\ m \in 1..m /\ m - 1 = k /\ 1..m = (1..k) \union {m} /\ m \notin 1..k
    BY <1>2
  <2>. HIDE DEF m
  <2>. DEFINE a == [i \in 1..m |-> d[g[i]]]
              b == [i \in 1..k |-> d[g[i]]]
              r == [i \in 1..k |-> d[i]]
  <2>2. a \in Numbers(m) /\ b \in Numbers(k) /\ r \in Numbers(k)
    BY <2>1 DEF Permutes, Numbers
  <2>3. SumOf(a) = SumOf(b) + d[g[m]]
    <3>1. SumOf(a) = Sums(a)[k] + a[m]
      <4>. HIDE DEF a
      <4>. QED
        BY <2>1, <2>2, SumsStep DEF m
    <3>2. Sums(a)[k] = Sums(b)[k]
      <4>1. \A i \in 1..k : a[i] = b[i]
        BY <2>1
      <4>. HIDE DEF a, b
      <4>. QED
        BY <2>1, <2>2, <4>1, SamePrefix
    <3>3. Sums(b)[k] = SumOf(b)
      BY <2>1, <2>2, SumsStep
    <3>. QED
      BY <2>1, <3>1, <3>2, <3>3
  <2>4. SumOf(d) = SumOf(r) + d[m]
    <3>1. SumOf(d) = Sums(d)[k] + d[m]
      BY <2>1, SumsStep DEF m
    <3>2. Sums(d)[k] = Sums(r)[k]
      <4>1. \A i \in 1..k : d[i] = r[i]
        BY <2>1
      <4>. HIDE DEF r
      <4>. QED
        BY <2>1, <2>2, <4>1, SamePrefix
    <3>3. Sums(r)[k] = SumOf(r)
      BY <2>1, <2>2, SumsStep
    <3>. QED
      BY <3>1, <3>2, <3>3
  <2>5. PICK j \in 1..m : g[j] = m
    BY <2>1 DEF Permutes
  <2>. DEFINE h == [i \in 1..k |-> IF i = j THEN g[m] ELSE g[i]]
              e == [i \in 1..k |-> r[h[i]]]
  <2>6. Permutes(h, k)
    <3>1. \A i \in 1..k : h[i] \in 1..k
      <4>1. \A i \in 1..m : i # j => g[i] \in 1..k
        <5>1. ASSUME NEW i \in 1..m, i # j
              PROVE  g[i] \in 1..m /\ g[i] # m
          BY <2>1, <2>5, <5>1 DEF Permutes
        <5>. QED
          BY <2>1, <5>1
      <4>2. j \in 1..k => g[m] \in 1..k
        BY <2>1, <4>1
      <4>. QED
        BY <2>1, <4>1, <4>2
    <3>2. \A i, l \in 1..k : h[i] = h[l] => i = l
      BY <2>1 DEF Permutes
    <3>3. ASSUME NEW i \in 1..k
          PROVE  \E l \in 1..k : h[l] = i
      <4>1. PICK l \in 1..m : g[l] = i
        BY <2>1 DEF Permutes
      <4>2. l # j
        BY <2>1, <2>5, <4>1
      <4>3. CASE l = m
        <5>1. j \in 1..k
          BY <2>1, <4>2, <4>3
        <5>. QED
          BY <4>1, <4>3, <5>1
      <4>4. CASE l \in 1..k
        BY <4>1, <4>2, <4>4
      <4>. QED
        BY <2>1, <4>3, <4>4
    <3>. HIDE DEF h
    <3>4. h \in [1..k -> 1..k]
      <4>1. h = [i \in 1..k |-> h[i]]
        BY DEF h
      <4>. QED
        BY <3>1, <4>1
    <3>. QED
      BY <3>2, <3>3, <3>4 DEF Permutes
  <2>7. SumOf(e) = SumOf(r)
    <3>. HIDE DEF h, r
    <3>. QED
      BY <1>2, <2>2, <2>6
  <2>8. \A i \in 1..k : e[i] = d[h[i]]
    <3>. HIDE DEF h
    <3>. QED
      BY <2>6 DEF Permutes
  <2>9. CASE j = m
    <3>1. e = b
      <4>1. \A i \in 1..k : h[i] = g[i]
        BY <2>1, <2>9
      <4>. HIDE DEF h
      <4>. QED
        BY <2>8, <4>1
    <3>. QED
      BY <2>3, <2>4, <2>5, <2>7, <2>9, <3>1
  <2>10. CASE j # m
    <3>1. j \in 1..k
      BY <2>1, <2>10
    <3>2. /\ \A i \in 1..k : i # j => e[i] = b[i]
          /\ e[j] = d[g[m]] /\ b[j] = d[m]
      <4>1. /\ \A i \in 1..k : i # j => h[i] = g[i]
            /\ h[j] = g[m]
        BY <3>1
      <4>. HIDE DEF h, e
      <4>. QED
        BY <2>5, <2>8, <3>1, <4>1
    <3>3. e \in Numbers(k)
      <4>1. \A i \in 1..k : h[i] \in 1..k
        BY <2>6 DEF Permutes
      <4>. HIDE DEF h
      <4>. QED
        BY <2>2, <4>1 DEF Numbers
    <3>. HIDE DEF e, b
    <3>4. SumOf(e) = SumOf(b) - b[j] + e[j]
      BY <2>1, <2>2, <3>1, <3>2, <3>3, ChangeOne
    <3>5. SumOf(b) \in Int /\ d[m] \in Int /\ d[g[m]] \in Int
      <4>1. d[m] \in Int /\ d[g[m]] \in Int
        BY <2>1 DEF Permutes, Numbers
      <4>2. SumOf(b) \in Int
        BY <2>1, <2>2, SumsStep
      <4>. QED
        BY <4>1, <4>2
    <3>6. SumOf(a) = SumOf(d)
      <4>. HIDE DEF a, r
      <4>. QED
        BY <2>3, <2>4, <2>7, <3>2, <3>4, <3>5
    <3>. QED
      BY <3>6
  <2>. QED
    BY <2>9, <2>10
<1>. HIDE DEF T
<1>3. n \in T
  <2>1. \A k \in 0..n : k < n /\ k \in T => k + 1 \in T
    BY <1>2
  <2>2. \A k \in 0..n : k \in T
    BY <1>1, <2>1, SetInduction
  <2>. QED
    BY <2>2
<1>. QED
  BY <1>3 DEF T

-----------------------------------------------------------------------------
(* The drawdown.                                                           *)

Points == [peak : Int, max : Int]

\* A point of the pass over e, from the one before it.
After(e, i, x) ==
    LET peak == IF e[i] > x.peak THEN e[i] ELSE x.peak
    IN  [peak |-> peak, max |-> IF peak - e[i] > x.max THEN peak - e[i] ELSE x.max]

\* g has the points of the pass over e, up to k.
Passing(g, e, k) ==
    /\ g \in [0..k -> Points]
    /\ g[0] = [peak |-> e[1], max |-> 0]
    /\ \A i \in 1..k : g[i] = After(e, i, g[i - 1])

\* The pass is that of the recursion that defines it.
LEMMA PassStep ==
    ASSUME NEW n \in Nat \ {0}, NEW e \in Numbers(n)
    PROVE  /\ Pass(e)[0] = [peak |-> e[1], max |-> 0]
           /\ \A k \in 0..n : k < n => Pass(e)[k + 1] = After(e, k + 1, Pass(e)[k])
<1>. DEFINE T == {k \in 0..n : \E g : Passing(g, e, k)}
<1>1. 0 \in T
  <2>1. e[1] \in Int
    BY DEF Numbers
  <2>2. Passing([i \in 0..0 |-> [peak |-> e[1], max |-> 0]], e, 0)
    BY <2>1 DEF Passing, Points
  <2>. QED
    BY <2>2
<1>2. ASSUME NEW k \in 0..n, k < n, k \in T
      PROVE  k + 1 \in T
  <2>1. PICK g : Passing(g, e, k)
    BY <1>2
  <2>. DEFINE h == [i \in 0..(k + 1) |-> IF i = k + 1 THEN After(e, k + 1, g[k]) ELSE g[i]]
  <2>2. After(e, k + 1, g[k]) \in Points
    <3>1. e[k + 1] \in Int /\ g[k].peak \in Int /\ g[k].max \in Int
      BY <1>2, <2>1 DEF Passing, Points, Numbers
    <3>. QED
      BY <3>1 DEF After, Points
  <2>3. h \in [0..(k + 1) -> Points]
    BY <2>1, <2>2 DEF Passing
  <2>4. h[0] = [peak |-> e[1], max |-> 0]
    BY <2>1 DEF Passing
  <2>5. ASSUME NEW i \in 1..(k + 1)
        PROVE  h[i] = After(e, i, h[i - 1])
    <3>1. CASE i = k + 1
      BY <3>1
    <3>2. CASE i \in 1..k
      BY <2>1, <3>2 DEF Passing
    <3>. QED
      BY <3>1, <3>2
  <2>. HIDE DEF h
  <2>6. Passing(h, e, k + 1)
    BY <2>3, <2>4, <2>5 DEF Passing
  <2>. QED
    BY <1>2, <2>6
<1>. HIDE DEF T
<1>3. n \in T
  <2>1. \A k \in 0..n : k < n /\ k \in T => k + 1 \in T
    BY <1>2
  <2>2. \A k \in 0..n : k \in T
    BY <1>1, <2>1, SetInduction
  <2>. QED
    BY <2>2
<1>4. PICK g : Passing(g, e, n)
  BY <1>3 DEF T
<1>. DEFINE Passed(h) ==
         [i \in 0..n |-> IF i = 0 THEN [peak |-> e[1], max |-> 0] ELSE After(e, i, h[i - 1])]
<1>5. g = Passed(g)
  BY <1>4 DEF Passing
<1>6. Len(e) = n
  BY DEF Numbers
<1>7. Pass(e) = CHOOSE h : h = Passed(h)
  BY <1>6, Zenon DEF Pass, After
<1>8. Pass(e) = Passed(Pass(e))
  <2>. HIDE DEF Passed
  <2>. QED
    BY <1>5, <1>7, Zenon
<1>9. ASSUME NEW k \in 0..n, k < n
      PROVE  Pass(e)[k + 1] = After(e, k + 1, Pass(e)[k])
  BY <1>8, <1>9
<1>. QED
  BY <1>8, <1>9

\* p is the highest of the first k points of e, or its first.
PeakOf(e, k, p) ==
    /\ \A i \in 1..k : e[i] <= p
    /\ \E i \in 1..Len(e) : (i <= k \/ i = 1) /\ p = e[i]

\* m is the largest fall within the first k points of e, or 0.
FallOf(e, k, m) ==
    /\ \A i, j \in 1..k : i <= j => e[i] - e[j] <= m
    /\ \E i, j \in 1..Len(e) : i <= j /\ (j <= k \/ j = 1) /\ m = e[i] - e[j]

\* The pass has the peak and the largest fall at each point.
LEMMA PassIsLargest ==
    ASSUME NEW n \in Nat \ {0}, NEW e \in Numbers(n)
    PROVE  \A k \in 0..n : PeakOf(e, k, Pass(e)[k].peak) /\ FallOf(e, k, Pass(e)[k].max)
<1>. DEFINE T == {k \in 0..n : /\ PeakOf(e, k, Pass(e)[k].peak)
                               /\ FallOf(e, k, Pass(e)[k].max)}
<1>1. Len(e) = n /\ \A i \in 1..n : e[i] \in Int
  BY DEF Numbers
<1>2. 0 \in T
  <2>1. Pass(e)[0].peak = e[1] /\ Pass(e)[0].max = 0
    <3>1. Pass(e)[0] = [peak |-> e[1], max |-> 0]
      BY PassStep
    <3>. QED
      BY <3>1
  <2>2. PeakOf(e, 0, e[1]) /\ FallOf(e, 0, 0)
    BY <1>1 DEF PeakOf, FallOf
  <2>. QED
    BY <2>1, <2>2
<1>3. ASSUME NEW k \in 0..n, k < n, k \in T
      PROVE  k + 1 \in T
  <2>. DEFINE p == Pass(e)[k].peak
              m == Pass(e)[k].max
              v == e[k + 1]
              pp == Pass(e)[k + 1].peak
              mm == Pass(e)[k + 1].max
  <2>1. /\ pp = IF v > p THEN v ELSE p
        /\ mm = IF pp - v > m THEN pp - v ELSE m
    <3>1. Pass(e)[k + 1] = After(e, k + 1, Pass(e)[k])
      BY <1>3, PassStep
    <3>. QED
      BY <3>1 DEF After
  <2>2. PeakOf(e, k, p) /\ FallOf(e, k, m)
    BY <1>3
  <2>3. k + 1 \in 1..n /\ v \in Int
    BY <1>1, <1>3
  <2>. HIDE DEF p, m, v, pp, mm
  <2>4. PICK i \in 1..n : (i <= k \/ i = 1) /\ p = e[i]
    BY <1>1, <2>2 DEF PeakOf
  <2>5. PICK x \in 1..n, y \in 1..n : x <= y /\ (y <= k \/ y = 1) /\ m = e[x] - e[y]
    BY <1>1, <2>2 DEF FallOf
  <2>6. p \in Int /\ m \in Int /\ pp \in Int /\ mm \in Int
    BY <1>1, <2>1, <2>3, <2>4, <2>5
  <2>7. pp >= p /\ pp >= v /\ mm >= m /\ mm >= pp - v
    BY <2>1, <2>3, <2>6
  <2>8. PeakOf(e, k + 1, pp)
    <3>1. ASSUME NEW l \in 1..(k + 1)
          PROVE  e[l] <= pp
      <4>1. CASE l = k + 1
        BY <2>7, <4>1 DEF v
      <4>2. CASE l \in 1..k
        <5>1. e[l] <= p /\ e[l] \in Int
          BY <1>1, <1>3, <2>2, <4>2 DEF PeakOf
        <5>. QED
          BY <2>6, <2>7, <5>1
      <4>. QED
        BY <4>1, <4>2
    <3>2. \E l \in 1..n : (l <= k + 1 \/ l = 1) /\ pp = e[l]
      <4>1. CASE pp = p
        BY <1>3, <2>4, <4>1
      <4>2. CASE pp = v
        BY <2>3, <4>2 DEF v
      <4>. QED
        BY <2>1, <4>1, <4>2
    <3>. QED
      BY <1>1, <3>1, <3>2 DEF PeakOf
  <2>9. FallOf(e, k + 1, mm)
    <3>1. ASSUME NEW l \in 1..(k + 1), NEW j \in 1..(k + 1), l <= j
          PROVE  e[l] - e[j] <= mm
      <4>1. e[l] \in Int /\ e[j] \in Int
        BY <1>1, <1>3
      <4>2. CASE j = k + 1
        <5>1. e[l] <= pp /\ e[j] = v
          BY <2>8, <4>2 DEF PeakOf, v
        <5>. QED
          BY <2>3, <2>6, <2>7, <4>1, <5>1
      <4>3. CASE j \in 1..k
        <5>1. e[l] - e[j] <= m
          BY <1>3, <2>2, <3>1, <4>3 DEF FallOf
        <5>. QED
          BY <2>6, <2>7, <4>1, <5>1
      <4>. QED
        BY <4>2, <4>3
    <3>2. \E l, j \in 1..n : l <= j /\ (j <= k + 1 \/ j = 1) /\ mm = e[l] - e[j]
      <4>1. CASE mm = m
        BY <1>3, <2>5, <4>1
      <4>2. CASE mm = pp - v
        <5>1. PICK l \in 1..n : (l <= k + 1 \/ l = 1) /\ pp = e[l]
          BY <1>1, <2>8 DEF PeakOf
        <5>2. l <= k + 1
          BY <1>3, <5>1
        <5>. QED
          BY <2>3, <4>2, <5>1, <5>2 DEF v
      <4>. QED
        BY <2>1, <4>1, <4>2
    <3>. QED
      BY <1>1, <3>1, <3>2 DEF FallOf
  <2>. QED
    BY <2>3, <2>8, <2>9 DEF pp, mm
<1>. HIDE DEF T
<1>4. \A k \in 0..n : k \in T
  <2>1. \A k \in 0..n : k < n /\ k \in T => k + 1 \in T
    BY <1>3
  <2>. QED
    BY <1>2, <2>1, SetInduction
<1>. QED
  BY <1>4 DEF T

\* The one-pass drawdown of any curve is its largest fall.
THEOREM DrawdownCorrect ==
    ASSUME NEW n \in Nat \ {0}, NEW e \in Numbers(n)
    PROVE  MaxDrawdown(e) = Max(Falls(e))
<1>1. Len(e) = n /\ DOMAIN e = 1..n /\ \A i \in 1..n : e[i] \in Int
  BY DEF Numbers
<1>2. FallOf(e, n, MaxDrawdown(e))
  <2>1. CASE n = 1
    <3>1. MaxDrawdown(e) = 0
      BY <1>1, <2>1 DEF MaxDrawdown
    <3>. QED
      BY <1>1, <2>1, <3>1 DEF FallOf
  <2>2. CASE n # 1
    <3>1. MaxDrawdown(e) = Pass(e)[n].max
      BY <1>1, <2>2 DEF MaxDrawdown
    <3>. QED
      BY <3>1, PassIsLargest
  <2>. QED
    BY <2>1, <2>2
<1>3. MaxDrawdown(e) \in Falls(e)
  <2>1. PICK i \in 1..n, j \in 1..n : i <= j /\ MaxDrawdown(e) = e[i] - e[j]
    BY <1>1, <1>2 DEF FallOf
  <2>2. <<i, j>> \in {x \in (DOMAIN e) \X (DOMAIN e) : x[1] <= x[2]}
    BY <1>1, <2>1
  <2>. QED
    BY <2>1, <2>2 DEF Falls
<1>4. \A x \in Falls(e) : x \in Int /\ x <= MaxDrawdown(e)
  <2>. SUFFICES ASSUME NEW x \in Falls(e)
                PROVE  x \in Int /\ x <= MaxDrawdown(e)
    OBVIOUS
  <2>1. PICK p \in {y \in (DOMAIN e) \X (DOMAIN e) : y[1] <= y[2]} : x = e[p[1]] - e[p[2]]
    BY DEF Falls
  <2>2. p[1] \in 1..n /\ p[2] \in 1..n /\ p[1] <= p[2]
    BY <1>1, <2>1
  <2>3. e[p[1]] \in Int /\ e[p[2]] \in Int
    BY <1>1, <2>2
  <2>4. e[p[1]] - e[p[2]] <= MaxDrawdown(e)
    BY <1>2, <2>2 DEF FallOf
  <2>. QED
    BY <2>1, <2>3, <2>4
<1>5. \A x \in Falls(e) : (\A y \in Falls(e) : x >= y) <=> x = MaxDrawdown(e)
  BY <1>3, <1>4
<1>. QED
  BY <1>3, <1>5 DEF Max

-----------------------------------------------------------------------------
(* The figures of signals.                                                 *)

\* The RR of a signal is a number.
LEMMA RRNumber ==
    ASSUME NEW s \in Signals
    PROVE  /\ RR(s) \in Int
           /\ ~TpHit(s) /\ ~SlHit(s) => RR(s) = 0
<1>1. Entry(s) \in Int /\ s.stop \in Int /\ Risk(s) \in Int /\ RRUnit \in Int
  BY PricesAssumption DEF Entry, Risk
<1>2. TpHit(s) => s.tp[1] \in Int
  BY PricesAssumption DEF TpHit
<1>3. CASE Infinite(s)
  <2>1. TpHit(s) /\ ~SlHit(s)
    BY <1>3 DEF Infinite, SlHit
  <2>2. RR(s) = 0
    BY <1>3, <2>1, Zenon DEF RR
  <2>. QED
    BY <2>1, <2>2
<1>4. CASE ~Infinite(s) /\ TpHit(s)
  <2>. DEFINE n == IF s.buy THEN s.tp[1] - Entry(s) ELSE Entry(s) - s.tp[1]
  <2>1. RR(s) = Quotient(n, Risk(s))
    <3>1. ~SlHit(s)
      BY <1>4 DEF SlHit
    <3>. QED
      BY <1>4, <3>1, Zenon DEF RR
  <2>2. n \in Int
    BY <1>1, <1>2, <1>4
  <2>3. Risk(s) # 0
    BY <1>4 DEF Infinite
  <2>. HIDE DEF n
  <2>4. n * RRUnit \in Int /\ (-n) * RRUnit \in Int
    BY <1>1, <2>2
  <2>5. Quotient(n, Risk(s)) \in Int
    BY <1>1, <2>3, <2>4 DEF Quotient
  <2>. QED
    BY <1>4, <2>1, <2>5
<1>5. CASE ~TpHit(s) /\ SlHit(s)
  <2>1. RR(s) = -RRUnit
    BY <1>5, Zenon DEF RR
  <2>. QED
    BY <1>1, <1>5, <2>1
<1>6. CASE ~TpHit(s) /\ ~SlHit(s)
  <2>1. RR(s) = 0
    BY <1>6, Zenon DEF RR
  <2>. QED
    BY <2>1
<1>. QED
  BY <1>3, <1>4, <1>5, <1>6

\* A trade at its take profit has a negative RR only with its stop above the
\* entry.
LEMMA NegativeRR ==
    ASSUME NEW s \in Signals, ~Infinite(s), RR(s) # 0, ~(RR(s) > 0)
    PROVE  SlHit(s) \/ (TpHit(s) /\ s.stop > Entry(s))
<1>. SUFFICES ASSUME ~SlHit(s), ~(s.stop > Entry(s))
              PROVE  FALSE
  BY RRNumber
<1>1. Entry(s) \in Int /\ s.stop \in Int /\ RRUnit \in Nat \ {0}
  BY PricesAssumption DEF Entry
<1>2. TpHit(s)
  BY RRNumber
<1>. DEFINE n == IF s.buy THEN s.tp[1] - Entry(s) ELSE Entry(s) - s.tp[1]
<1>3. RR(s) = Quotient(n, Risk(s))
  BY <1>2, Zenon DEF RR
<1>4. n \in Int /\ n > 0
  <2>1. s.tp[1] \in Int
    BY <1>2, PricesAssumption DEF TpHit
  <2>. QED
    BY <1>1, <1>2, <2>1 DEF TpHit
<1>. HIDE DEF n
<1>5. Risk(s) \in Int /\ Risk(s) > 0
  BY <1>1, <1>2 DEF Risk, Infinite
<1>6. n * RRUnit \in Int /\ n * RRUnit > 0
  BY <1>1, <1>4
<1>7. RR(s) = (n * RRUnit) \div Risk(s)
  BY <1>3, <1>5 DEF Quotient
<1>8. \A x \in Int, d \in Int : x > 0 /\ d > 0 => x \div d >= 0 /\ x \div d \in Int
  OBVIOUS
<1>. QED
  BY <1>5, <1>6, <1>7, <1>8

\* The three sequences of numbers of a run.
LEMMA FigureNumbers ==
    ASSUME NEW s \in Seq(Signals)
    PROVE  /\ Gains(s) \in Numbers(Len(s))
           /\ Profits(s) \in Numbers(Len(s))
           /\ Losses(s) \in Numbers(Len(s))
           /\ \A i \in 1..Len(s) : Gains(s)[i] = Profits(s)[i] - Losses(s)[i]
<1>1. DOMAIN s = 1..Len(s) /\ \A i \in 1..Len(s) : s[i] \in Signals
  OBVIOUS
<1>2. \A i \in 1..Len(s) :
          RR(s[i]) \in Int /\ (~TpHit(s[i]) /\ ~SlHit(s[i]) => RR(s[i]) = 0)
  BY <1>1, RRNumber
<1>. QED
  BY <1>1, <1>2 DEF Gains, Profits, Losses, Numbers

\* The equity curve of a run that has signals, and its last point.
LEMMA EquityNumbers ==
    ASSUME NEW s \in Seq(Signals), s # <<>>
    PROVE  /\ Len(s) \in Nat \ {0}
           /\ EquityCurve(s) \in Numbers(Len(s))
           /\ Last(EquityCurve(s)) = SumOf(Gains(s))
<1>1. Len(s) \in Nat \ {0} /\ DOMAIN s = 1..Len(s)
  OBVIOUS
<1>2. /\ \A i \in 0..Len(s) : Sums(Gains(s))[i] \in Int
      /\ SumOf(Gains(s)) = Sums(Gains(s))[Len(s)]
  BY FigureNumbers, SumsStep
<1>3. EquityCurve(s) = [i \in 1..Len(s) |-> Sums(Gains(s))[i]]
  BY <1>1 DEF EquityCurve
<1>4. EquityCurve(s) \in Numbers(Len(s))
  BY <1>1, <1>2, <1>3 DEF Numbers
<1>5. Len(EquityCurve(s)) = Len(s)
  BY <1>1, <1>3
<1>. QED
  BY <1>1, <1>2, <1>3, <1>4, <1>5 DEF Last

\* The total of a run is its gross profit less its gross loss.
THEOREM TotalIsNet ==
    ASSUME NEW s \in Seq(Signals), s # <<>>
    PROVE  Result(s).total = Result(s).profit - Result(s).loss
<1>1. Last(EquityCurve(s)) = SumOf(Profits(s)) - SumOf(Losses(s))
  <2>1. Len(s) \in Nat
    OBVIOUS
  <2>. QED
    BY <2>1, EquityNumbers, FigureNumbers, SumOfDifferences
<1>. QED
  BY <1>1 DEF Result, GrossProfit, GrossLoss

\* The wins, the losses and the total are the same in any order of the signals.
LEMMA OrderDoesNotMatter ==
    ASSUME NEW s \in Seq(Signals), NEW t \in Seq(Signals), SameBag(s, t)
    PROVE  /\ CountOf(s, TpHit) = CountOf(t, TpHit)
           /\ CountOf(s, SlHit) = CountOf(t, SlHit)
           /\ SumOf(Gains(s)) = SumOf(Gains(t))
<1>. DEFINE n == Len(s)
<1>1. /\ n \in Nat /\ DOMAIN s = 1..n
      /\ Len(t) \in Nat /\ DOMAIN t = 1..Len(t)
  OBVIOUS
<1>2. PICK f \in Bijection(DOMAIN s, DOMAIN t) : \A i \in DOMAIN s : s[i] = t[f[i]]
  BY DEF SameBag
<1>3. Len(t) = n
  <2>1. \A m \in Nat : IsFiniteSet(1..m) /\ Cardinality(1..m) = m
    <3>. SUFFICES ASSUME NEW m \in Nat
                  PROVE  IsFiniteSet(1..m) /\ Cardinality(1..m) = m
      OBVIOUS
    <3>1. m \in Int /\ 1 \in Int
      OBVIOUS
    <3>2. IsFiniteSet(1..m) /\ Cardinality(1..m) = IF 1 > m THEN 0 ELSE m - 1 + 1
      BY <3>1, FS_Interval
    <3>. QED
      BY <3>2
  <2>2. Cardinality(DOMAIN t) = Cardinality(DOMAIN s)
    BY <1>1, <1>2, <2>1, FS_Bijection DEF ExistsBijection
  <2>. QED
    BY <1>1, <2>1, <2>2
<1>4. Permutes(f, n)
  BY <1>1, <1>2, <1>3 DEF Permutes, Bijection, Injection, Surjection, IsInjective
<1>. HIDE DEF n
<1>5. SumOf(Gains(s)) = SumOf(Gains(t))
  <2>1. Gains(t) \in Numbers(n)
    BY <1>3, FigureNumbers
  <2>2. Gains(s) = [i \in 1..n |-> Gains(t)[f[i]]]
    BY <1>1, <1>2, <1>3, <1>4 DEF Gains, Permutes
  <2>. QED
    BY <1>1, <1>4, <2>1, <2>2, SumPermuted
<1>6. ASSUME NEW S \in SUBSET Signals
      PROVE  Cardinality({i \in DOMAIN s : s[i] \in S}) = Cardinality({i \in DOMAIN t : t[i] \in S})
  <2>. DEFINE A == {i \in 1..n : s[i] \in S}
              B == {i \in 1..n : t[i] \in S}
              h == [i \in A |-> f[i]]
  <2>1. h \in Bijection(A, B)
    <3>1. h \in [A -> B]
      BY <1>1, <1>2, <1>4 DEF Permutes
    <3>2. \A i, j \in A : h[i] = h[j] => i = j
      BY <1>4 DEF Permutes
    <3>3. \A j \in B : \E i \in A : h[i] = j
      <4>. SUFFICES ASSUME NEW j \in B
                    PROVE  \E i \in A : h[i] = j
        OBVIOUS
      <4>1. PICK i \in 1..n : f[i] = j
        BY <1>4 DEF Permutes
      <4>2. i \in A
        BY <1>1, <1>2, <4>1
      <4>. QED
        BY <4>1, <4>2
    <3>. QED
      BY <3>1, <3>2, <3>3 DEF Bijection, Injection, IsInjective, Surjection
  <2>2. IsFiniteSet(A)
    <3>1. n \in Int /\ 1 \in Int
      BY <1>1
    <3>. QED
      BY <3>1, FS_Interval, FS_Subset
  <2>3. Cardinality(A) = Cardinality(B)
    BY <2>1, <2>2, FS_Bijection DEF ExistsBijection
  <2>. QED
    BY <1>1, <1>3, <2>3
<1>7. /\ CountOf(s, TpHit) = Cardinality({i \in DOMAIN s : s[i] \in {x \in Signals : TpHit(x)}})
      /\ CountOf(t, TpHit) = Cardinality({i \in DOMAIN t : t[i] \in {x \in Signals : TpHit(x)}})
      /\ CountOf(s, SlHit) = Cardinality({i \in DOMAIN s : s[i] \in {x \in Signals : SlHit(x)}})
      /\ CountOf(t, SlHit) = Cardinality({i \in DOMAIN t : t[i] \in {x \in Signals : SlHit(x)}})
  <2>1. /\ {i \in DOMAIN s : TpHit(s[i])} = {i \in DOMAIN s : s[i] \in {x \in Signals : TpHit(x)}}
        /\ {i \in DOMAIN t : TpHit(t[i])} = {i \in DOMAIN t : t[i] \in {x \in Signals : TpHit(x)}}
        /\ {i \in DOMAIN s : SlHit(s[i])} = {i \in DOMAIN s : s[i] \in {x \in Signals : SlHit(x)}}
        /\ {i \in DOMAIN t : SlHit(t[i])} = {i \in DOMAIN t : t[i] \in {x \in Signals : SlHit(x)}}
    OBVIOUS
  <2>. QED
    BY <2>1 DEF CountOf
<1>. QED
  BY <1>5, <1>6, <1>7

-----------------------------------------------------------------------------
(* The service.                                                            *)

\* The calls that this life of the service has given a run id.
Live(q) == life[q] = boots /\ run[q] # 0

\* The ids of a life are its calls' own, and a call has one until its end.
RunInv ==
    /\ \A q \in Requests : pc[q] = "idle" => run[q] = 0
    /\ \A q \in Requests : life[q] <= boots
    /\ \A q \in Requests : pc[q] \in {"counted", "streaming"} => Live(q)
    /\ \A q \in Requests : Live(q) => run[q] \in 1..runCounter
    /\ \A q, r \in Requests : (Live(q) /\ Live(r) /\ run[q] = run[r]) => q = r

\* A call's result is in the cache once its simulation is over, and not before.
StageInv ==
    /\ \A q \in Requests : pc[q] = "counted" => sigs[q] # <<>> /\ run[q] \notin DOMAIN cache
    /\ \A q \in Requests :
          (life[q] = boots /\ pc[q] \in {"streaming", "answered"}) => run[q] \in DOMAIN cache
    /\ \A q \in Requests : pc[q] = "answered" => Serializable(sigs[q])

\* What is in the cache: the figures of a sequence of signals, and for a call of
\* this life, of that call's own.
IsFigures(r) == r.order \in Seq(Signals) /\ r.order # <<>> /\ r = Result(r.order)

CacheInv ==
    /\ \A id \in DOMAIN cache : IsFigures(cache[id])
    /\ \A q \in Requests :
          (Live(q) /\ run[q] \in DOMAIN cache) => SameBag(cache[run[q]].order, sigs[q])

IInv == TypeOK /\ RunInv /\ StageInv /\ CacheInv

-----------------------------------------------------------------------------
(* Sorting.                                                                *)

\* Whatever the order of the signals of one timestamp, the sorted ones are the
\* signals of the request, each as often as it came.
LEMMA SortedKeepsSignals ==
    ASSUME NEW s \in Seq(Signals), NEW o \in Sorted(s)
    PROVE  LET u == [i \in DOMAIN o |-> o[i][2]]
           IN  SameBag(u, s) /\ u \in Seq(Signals) /\ (s # <<>> => u # <<>>)
<1>. DEFINE n == Len(s)
            I == 1..n
            S == {<<i, s[i]>> : i \in I}
            g == [i \in I |-> <<i, s[i]>>]
            f == [i \in I |-> o[i][1]]
            u == [i \in DOMAIN o |-> o[i][2]]
<1>1. n \in Nat /\ DOMAIN s = I /\ \A i \in I : s[i] \in Signals
  OBVIOUS
<1>2. IsFiniteSet(I) /\ Cardinality(I) = n
  <2>. HIDE DEF n
  <2>1. n \in Int /\ 1 \in Int
    BY <1>1
  <2>2. Cardinality(I) = IF 1 > n THEN 0 ELSE n - 1 + 1
    BY <2>1, FS_Interval
  <2>. QED
    BY <1>1, <2>1, <2>2, FS_Interval
<1>3. IsFiniteSet(S) /\ Cardinality(S) = n
  <2>1. g \in Bijection(I, S)
    BY DEF Bijection, Injection, IsInjective, Surjection
  <2>. QED
    BY <1>2, <2>1, FS_Bijection DEF ExistsBijection
<1>4. o \in [I -> S] /\ \A i, j \in I : i # j => o[i] # o[j]
  BY <1>1, <1>3 DEF Sorted, SetToSeqs
<1>5. \A i \in I : f[i] \in I /\ o[i] = <<f[i], s[f[i]]>>
  BY <1>4
<1>6. f \in Bijection(I, I)
  <2>1. f \in Injection(I, I)
    BY <1>4, <1>5 DEF Injection, IsInjective
  <2>2. f \in Surjection(I, I)
    BY <1>2, <2>1, FS_Injection
  <2>. QED
    BY <2>1, <2>2 DEF Bijection
<1>. HIDE DEF f, I, S, g
<1>7. u = [i \in I |-> s[f[i]]]
  BY <1>4, <1>5
<1>. HIDE DEF u
<1>8. DOMAIN u = I /\ \A i \in I : u[i] = s[f[i]] /\ f[i] \in I
  BY <1>5, <1>7
<1>9. SameBag(u, s)
  BY <1>1, <1>6, <1>8 DEF SameBag
<1>10. u \in Seq(Signals)
  <2>1. u \in [1..n -> Signals]
    BY <1>1, <1>7, <1>8 DEF I
  <2>. QED
    BY <1>1, <2>1
<1>11. s # <<>> => u # <<>>
  <2>1. s # <<>> => n # 0
    BY DEF n
  <2>2. n # 0 => 1 \in I
    BY <1>1 DEF I
  <2>3. u = <<>> => 1 \notin DOMAIN u
    OBVIOUS
  <2>. QED
    BY <1>8, <2>1, <2>2, <2>3
<1>. QED
  BY <1>9, <1>10, <1>11 DEF u

-----------------------------------------------------------------------------
(* The steps.                                                              *)

\* A call that starts is given a run id that no call of this life has.
LEMMA StartStep ==
    ASSUME IInv, NEW q \in Requests, NEW s \in Seq(Signals), NEW valid \in BOOLEAN,
           Start(q, s, valid)
    PROVE  IInv'
<1>1. /\ pc[q] = "idle" /\ run[q] = 0
      /\ sigs' = [sigs EXCEPT ![q] = s]
      /\ UNCHANGED <<boots, cache>>
      /\ boots \in Nat /\ runCounter \in Nat /\ DOMAIN cache \subseteq 1..runCounter
  BY DEF Start, IInv, TypeOK, RunInv
<1>2. CASE pc' = [pc EXCEPT ![q] = "error"] /\ UNCHANGED <<runCounter, run, life>>
  <2>1. TypeOK'
    BY <1>1, <1>2 DEF IInv, TypeOK, States
  <2>2. RunInv'
    BY <1>1, <1>2 DEF IInv, TypeOK, RunInv, Live
  <2>3. StageInv'
    BY <1>1, <1>2 DEF IInv, TypeOK, StageInv
  <2>4. CacheInv'
    BY <1>1, <1>2 DEF IInv, TypeOK, CacheInv, Live
  <2>. QED
    BY <2>1, <2>2, <2>3, <2>4 DEF IInv
<1>3. CASE /\ s # <<>>
           /\ pc' = [pc EXCEPT ![q] = "counted"]
           /\ runCounter' = runCounter + 1
           /\ run' = [run EXCEPT ![q] = runCounter + 1]
           /\ life' = [life EXCEPT ![q] = boots]
  <2>1. TypeOK'
    <3>1. runCounter + 1 \in Nat /\ 1..runCounter \subseteq 1..(runCounter + 1)
      BY <1>1
    <3>. QED
      BY <1>1, <1>3, <3>1 DEF IInv, TypeOK, States
  <2>2. \A r \in Requests : r # q =>
            /\ Live(r)' <=> Live(r)
            /\ run'[r] = run[r] /\ life'[r] = life[r] /\ pc'[r] = pc[r] /\ sigs'[r] = sigs[r]
    BY <1>1, <1>3 DEF IInv, TypeOK, Live
  <2>3. /\ Live(q)' /\ run'[q] = runCounter + 1 /\ life'[q] = boots
        /\ pc'[q] = "counted" /\ sigs'[q] = s
    BY <1>1, <1>3 DEF IInv, TypeOK, Live
  <2>4. RunInv'
    BY <1>1, <1>3, <2>2, <2>3 DEF IInv, RunInv
  <2>5. runCounter + 1 \notin DOMAIN cache
    BY <1>1
  <2>6. StageInv'
    BY <1>1, <1>3, <2>2, <2>3, <2>5 DEF IInv, StageInv
  <2>7. CacheInv'
    BY <1>1, <2>2, <2>3, <2>5 DEF IInv, CacheInv
  <2>. QED
    BY <2>1, <2>4, <2>6, <2>7 DEF IInv
<1>. QED
  BY <1>2, <1>3 DEF Start, Goto

\* A simulation stores the figures of its own call, under an id of its own.
LEMMA SimulateStep ==
    ASSUME IInv, NEW q \in Requests, Simulate(q)
    PROVE  IInv'
<1>1. PICK o \in Sorted(sigs[q]) :
          cache' = [id \in DOMAIN cache \union {run[q]} |->
                       IF id = run[q] THEN Result([i \in DOMAIN o |-> o[i][2]]) ELSE cache[id]]
  BY DEF Simulate
<1>2. /\ pc[q] = "counted" /\ pc' = [pc EXCEPT ![q] = "streaming"]
      /\ UNCHANGED <<boots, runCounter, sigs, run, life>>
  BY DEF Simulate, Goto
<1>. DEFINE t == [i \in DOMAIN o |-> o[i][2]]
<1>3. SameBag(t, sigs[q]) /\ t \in Seq(Signals) /\ t # <<>>
  <2>1. sigs[q] \in Seq(Signals) /\ sigs[q] # <<>>
    BY <1>2 DEF IInv, TypeOK, StageInv
  <2>. QED
    BY <1>1, <2>1, SortedKeepsSignals
<1>. HIDE DEF t
<1>4. Result(t).order = t /\ IsFigures(Result(t))
  <2>1. Result(t).order = t
    BY DEF Result
  <2>. QED
    BY <1>3, <2>1 DEF IsFigures
<1>5. /\ DOMAIN cache' = DOMAIN cache \union {run[q]}
      /\ cache'[run[q]] = Result(t)
      /\ \A id \in DOMAIN cache : id # run[q] => cache'[id] = cache[id]
  BY <1>1 DEF t
<1>6. Live(q) /\ run[q] \in 1..runCounter
  BY <1>2 DEF IInv, RunInv
<1>7. \A r \in Requests : Live(r)' <=> Live(r)
  BY <1>2 DEF Live
<1>8. /\ pc'[q] = "streaming"
      /\ \A r \in Requests : r # q => pc'[r] = pc[r]
  BY <1>2 DEF IInv, TypeOK
<1>9. TypeOK'
  BY <1>2, <1>5, <1>6 DEF IInv, TypeOK, States
<1>10. RunInv'
  BY <1>2, <1>6, <1>7, <1>8 DEF IInv, RunInv
<1>11. StageInv'
  <2>1. \A r \in Requests : r # q /\ pc[r] = "counted" => run[r] # run[q]
    BY <1>6 DEF IInv, RunInv
  <2>. QED
    BY <1>2, <1>5, <1>8, <2>1 DEF IInv, StageInv
<1>12. CacheInv'
  <2>1. \A id \in DOMAIN cache' : IsFigures(cache'[id])
    BY <1>4, <1>5 DEF IInv, CacheInv
  <2>2. ASSUME NEW r \in Requests, Live(r), run[r] \in DOMAIN cache'
        PROVE  SameBag(cache'[run[r]].order, sigs[r])
    <3>1. CASE r = q
      BY <1>3, <1>4, <1>5, <3>1
    <3>2. CASE r # q
      <4>1. run[r] # run[q]
        BY <1>6, <2>2, <3>2 DEF IInv, RunInv
      <4>. QED
        BY <1>5, <2>2, <4>1 DEF IInv, CacheInv
    <3>. QED
      BY <3>1, <3>2
  <2>. QED
    BY <1>2, <1>7, <2>1, <2>2 DEF CacheInv, IsFigures
<1>. QED
  BY <1>9, <1>10, <1>11, <1>12 DEF IInv

\* A restart leaves no call with a result to look for.
LEMMA RestartStep ==
    ASSUME IInv, Restart
    PROVE  IInv'
<1>1. TypeOK'
  BY DEF Restart, IInv, TypeOK, States
<1>2. \A q \in Requests : life'[q] # boots' /\ life'[q] <= boots'
  BY DEF Restart, IInv, TypeOK, RunInv
<1>3. /\ DOMAIN cache' = {}
      /\ UNCHANGED <<sigs, run, life>>
      /\ \A q \in Requests :
            /\ pc'[q] \notin {"counted", "streaming"}
            /\ pc'[q] = pc[q] \/ pc'[q] = "error"
  BY DEF Restart
<1>4. RunInv'
  BY <1>2, <1>3 DEF IInv, RunInv, Live
<1>5. StageInv'
  BY <1>2, <1>3 DEF IInv, StageInv
<1>6. CacheInv'
  BY <1>3 DEF CacheInv
<1>. QED
  BY <1>1, <1>4, <1>5, <1>6 DEF IInv

\* A stream changes where its call is, and no more; it ends with an answer only
\* if the result can be serialized.
LEMMA StreamStep ==
    ASSUME IInv, NEW q \in Requests, Stream(q) \/ StreamError(q)
    PROVE  IInv'
<1>1. PICK s \in {"answered", "error"} :
          pc' = [pc EXCEPT ![q] = s] /\ (s = "answered" => Serializable(sigs[q]))
  BY Zenon DEF Stream, StreamError, Goto
<1>2. pc[q] = "streaming" /\ UNCHANGED <<boots, runCounter, cache, sigs, run, life>>
  BY DEF Stream, StreamError
<1>3. TypeOK'
  BY <1>1, <1>2 DEF IInv, TypeOK, States
<1>4. RunInv'
  BY <1>1, <1>2 DEF IInv, TypeOK, RunInv, Live
<1>5. StageInv'
  BY <1>1, <1>2 DEF IInv, TypeOK, StageInv
<1>6. CacheInv'
  BY <1>2 DEF IInv, CacheInv, Live, IsFigures
<1>. QED
  BY <1>3, <1>4, <1>5, <1>6 DEF IInv

-----------------------------------------------------------------------------
(* The theorems.                                                           *)

\* Run ids are not given twice in a life of the service, and the cache has under
\* each the figures of its call.
THEOREM Invariance == Spec => []IInv
<1>1. Init => IInv
  <2>. SUFFICES ASSUME Init
                PROVE  IInv
    OBVIOUS
  <2>1. DOMAIN cache = {}
    BY DEF Init
  <2>. QED
    BY <2>1 DEF Init, IInv, TypeOK, RunInv, StageInv, CacheInv, Live, States
<1>2. IInv /\ [Next]_vars => IInv'
  <2>. SUFFICES ASSUME IInv, [Next]_vars
                PROVE  IInv'
    OBVIOUS
  <2>1. ASSUME NEW q \in Requests, NEW s \in BoundedSeq(Signals, MaxSignals - Sent),
               NEW valid \in BOOLEAN, Start(q, s, valid)
        PROVE  IInv'
    <3>1. s \in Seq(Signals)
      BY DEF BoundedSeq, SeqOf
    <3>. QED
      BY <2>1, <3>1, StartStep
  <2>2. CASE UNCHANGED vars
    BY <2>2 DEF vars, IInv, TypeOK, RunInv, StageInv, CacheInv, Live, IsFigures
  <2>. QED
    BY <2>1, <2>2, SimulateStep, StreamStep, RestartStep DEF Next
<1>. QED
  BY <1>1, <1>2, PTL DEF Spec

\* The counter, the cache and the calls are what they should be.
THEOREM TypeCorrect == Spec => []TypeOK
<1>1. IInv => TypeOK
  BY DEF IInv
<1>. QED
  BY <1>1, Invariance, PTL

\* GetResult gives a call the trades of its own signals, however many calls run
\* concurrently.
THEOREM ResultsNotMixed == Spec => []OwnResult
<1>1. IInv => OwnResult
  <2>. SUFFICES ASSUME IInv, NEW q \in Requests, life[q] = boots,
                       pc[q] \in {"streaming", "answered"}
                PROVE  \E r \in GetResult(run[q]) : SameBag(r.order, sigs[q])
    BY DEF OwnResult
  <2>1. run[q] \in DOMAIN cache
    BY DEF IInv, StageInv
  <2>2. Live(q)
    BY <2>1 DEF IInv, TypeOK, Live
  <2>. QED
    BY <2>1, <2>2 DEF IInv, CacheInv, GetResult
<1>. QED
  BY <1>1, Invariance, PTL

\* Two calls with the same signals agree on the wins, the losses and the total,
\* in whatever order they were simulated, and the total is the net of the gross
\* figures, for any signals.
THEOREM TotalsAlwaysAgree == Spec => []TotalsAgree
<1>1. ASSUME IInv, NEW id \in DOMAIN cache
      PROVE  cache[id].total = cache[id].profit - cache[id].loss
  <2>1. IsFigures(cache[id])
    BY <1>1 DEF IInv, CacheInv
  <2>. QED
    BY <2>1, TotalIsNet DEF IsFigures
<1>2. ASSUME IInv, NEW q \in Requests, NEW r \in Requests, Simulated(q), Simulated(r),
             SameBag(sigs[q], sigs[r])
      PROVE  /\ cache[run[q]].wins = cache[run[r]].wins
             /\ cache[run[q]].losses = cache[run[r]].losses
             /\ cache[run[q]].total = cache[run[r]].total
  <2>1. sigs[q] \in Seq(Signals) /\ sigs[r] \in Seq(Signals)
    BY <1>2 DEF IInv, TypeOK
  <2>2. ASSUME NEW p \in Requests, Simulated(p), sigs[p] \in Seq(Signals)
        PROVE  /\ cache[run[p]].wins = CountOf(sigs[p], TpHit)
               /\ cache[run[p]].losses = CountOf(sigs[p], SlHit)
               /\ cache[run[p]].total = SumOf(Gains(sigs[p]))
    <3>1. run[p] \in DOMAIN cache /\ Live(p)
      BY <1>2, <2>2 DEF IInv, TypeOK, Simulated, Live
    <3>. DEFINE t == cache[run[p]].order
    <3>2. t \in Seq(Signals) /\ t # <<>> /\ cache[run[p]] = Result(t) /\ SameBag(t, sigs[p])
      BY <1>2, <3>1 DEF IInv, CacheInv, IsFigures
    <3>. HIDE DEF t
    <3>3. /\ Result(t).wins = CountOf(t, TpHit)
          /\ Result(t).losses = CountOf(t, SlHit)
          /\ Result(t).total = Last(EquityCurve(t))
      BY DEF Result
    <3>4. Last(EquityCurve(t)) = SumOf(Gains(t))
      BY <3>2, EquityNumbers
    <3>5. /\ CountOf(t, TpHit) = CountOf(sigs[p], TpHit)
          /\ CountOf(t, SlHit) = CountOf(sigs[p], SlHit)
          /\ SumOf(Gains(t)) = SumOf(Gains(sigs[p]))
      BY <2>2, <3>2, OrderDoesNotMatter
    <3>. QED
      BY <3>2, <3>3, <3>4, <3>5
  <2>3. /\ CountOf(sigs[q], TpHit) = CountOf(sigs[r], TpHit)
        /\ CountOf(sigs[q], SlHit) = CountOf(sigs[r], SlHit)
        /\ SumOf(Gains(sigs[q])) = SumOf(Gains(sigs[r]))
    BY <1>2, <2>1, OrderDoesNotMatter
  <2>. QED
    BY <1>2, <2>1, <2>2, <2>3
<1>3. IInv => TotalsAgree
  BY <1>1, <1>2 DEF TotalsAgree
<1>. QED
  BY <1>3, Invariance, PTL

\* The drawdown in the cache is the largest fall of the equity curve, however
\* long the run was.
THEOREM DrawdownAlwaysLargest == Spec => []DrawdownIsLargestFall
<1>1. ASSUME IInv, NEW id \in DOMAIN cache
      PROVE  cache[id].drawdown = Max(Falls(cache[id].equity))
  <2>. DEFINE s == cache[id].order
  <2>1. s \in Seq(Signals) /\ s # <<>> /\ cache[id] = Result(s)
    BY <1>1 DEF IInv, CacheInv, IsFigures
  <2>. HIDE DEF s
  <2>2. Result(s).drawdown = MaxDrawdown(EquityCurve(s)) /\ Result(s).equity = EquityCurve(s)
    BY DEF Result
  <2>3. MaxDrawdown(EquityCurve(s)) = Max(Falls(EquityCurve(s)))
    BY <2>1, EquityNumbers, DrawdownCorrect
  <2>. QED
    BY <2>1, <2>2, <2>3
<1>2. IInv => DrawdownIsLargestFall
  BY <1>1 DEF DrawdownIsLargestFall
<1>. QED
  BY <1>2, Invariance, PTL

\* An answered call had a loss: without one the sum of the losses is 0, and the
\* result cannot be serialized.
THEOREM AnswersHaveLosses == Spec => []AnsweredHasLoss
<1>1. ASSUME IInv, NEW q \in Requests, pc[q] = "answered"
      PROVE  \E i \in DOMAIN sigs[q] :
                 LET s == sigs[q][i] IN SlHit(s) \/ (TpHit(s) /\ s.stop > Entry(s))
  <2>. DEFINE t == sigs[q]
              n == Len(t)
  <2>1. t \in Seq(Signals) /\ Serializable(t)
    BY <1>1 DEF IInv, TypeOK, StageInv
  <2>. HIDE DEF t
  <2>2. n \in Nat /\ DOMAIN t = 1..n /\ \A i \in 1..n : t[i] \in Signals
    BY <2>1
  <2>. HIDE DEF n
  <2>3. Losses(t) \in Numbers(n)
    BY <2>1, FigureNumbers DEF n
  <2>4. SumOf(Losses(t)) # 0
    BY <2>1 DEF Serializable, GrossLoss
  <2>5. PICK i \in 1..n : Losses(t)[i] # 0
    BY <2>2, <2>3, <2>4, SumOfZeros
  <2>6. Losses(t)[i] = IF RR(t[i]) > 0 THEN 0 ELSE -RR(t[i])
    BY <2>2 DEF Losses
  <2>7. ~(RR(t[i]) > 0) /\ RR(t[i]) # 0
    BY <2>5, <2>6
  <2>8. t[i] \in Signals /\ ~Infinite(t[i])
    BY <2>1, <2>2 DEF Serializable, Finite
  <2>9. SlHit(t[i]) \/ (TpHit(t[i]) /\ t[i].stop > Entry(t[i]))
    BY <2>7, <2>8, NegativeRR
  <2>. QED
    BY <2>2, <2>9 DEF t
<1>2. IInv => AnsweredHasLoss
  BY <1>1 DEF AnsweredHasLoss
<1>. QED
  BY <1>2, Invariance, PTL

=============================================================================
