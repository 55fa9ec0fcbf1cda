-------------------------- MODULE Extractor_proofs --------------------------
(***************************************************************************)
(* What the extractor makes of any message under any rules: which levels   *)
(* its two patterns read, and that every price it answers is allowed.      *)
(***************************************************************************)
EXTENDS Extractor, FiniteSetTheorems, WellFoundedInduction, TLAPS

Token == [word : STRING] \union [price : Nat, written : Nat]

\* The price and the places of a number.
LEMMA NumberTyped ==
    ASSUME NEW t \in Token, IsNumber(t)
    PROVE  t.price \in Nat /\ t.written \in Nat
BY DEF Token, IsNumber

\* A set with 0, and with the successor of each of its elements, has all numbers
\* up to a bound.
LEMMA SetInduction ==
    ASSUME NEW n \in Nat, NEW T, 0 \in T, \A k \in 0..n : k < n /\ k \in T => k + 1 \in T
    PROVE  \A k \in 0..n : k \in T
<1>. DEFINE U == {k \in 0..n : k \notin T}
<1>. SUFFICES ASSUME U # {}
              PROVE  FALSE
  OBVIOUS
<1>1. U \subseteq Nat
  OBVIOUS
<1>. HIDE DEF U
<1>2. PICK k \in U : \A j \in U : <<j, k>> \notin OpToRel(<, Nat)
  BY <1>1, NatLessThanWellFounded, WFMin
<1>3. \A j \in U : ~(j < k)
  BY <1>1, <1>2, Zenon DEF OpToRel
<1>4. k \in 1..n /\ k - 1 \in 0..n /\ k - 1 < n /\ k - 1 < k
  BY DEF U
<1>5. k - 1 \in T
  BY <1>3, <1>4 DEF U
<1>6. (k - 1) + 1 \in T
  BY <1>4, <1>5
<1>. QED
  BY <1>4, <1>6 DEF U

-----------------------------------------------------------------------------
(* Levels.                                                                 *)

IsLevels(f) ==
    /\ f = [l \in DOMAIN f |-> f[l]]
    /\ DOMAIN f \subseteq Nat
    /\ IsFiniteSet(DOMAIN f)

AllAllowed(f, sym) == \A l \in DOMAIN f : Allowed(f[l], sym)

\* A level that is given a price is there, and the others keep theirs.
LEMMA WithLevels ==
    ASSUME NEW f, IsLevels(f), NEW l \in Nat, NEW p
    PROVE  /\ IsLevels(With(f, l, p))
           /\ DOMAIN With(f, l, p) = DOMAIN f \union {l}
           /\ With(f, l, p)[l] = p
           /\ \A k \in DOMAIN f : k # l => With(f, l, p)[k] = f[k]
<1>1. IsFiniteSet(DOMAIN f \union {l})
  BY FS_AddElement DEF IsLevels
<1>. QED
  BY <1>1 DEF IsLevels, With

\* With an allowed price all are allowed.
LEMMA WithAllowed ==
    ASSUME NEW f, IsLevels(f), NEW l, l \in Nat, NEW p, NEW sym, AllAllowed(f, sym), Allowed(p, sym)
    PROVE  IsLevels(With(f, l, p)) /\ AllAllowed(With(f, l, p), sym)
<1>. DEFINE h == With(f, l, p)
<1>1. /\ IsLevels(h) /\ DOMAIN h = DOMAIN f \union {l}
      /\ h[l] = p /\ \A k \in DOMAIN f : k # l => h[k] = f[k]
  BY WithLevels
<1>. QED
  BY <1>1 DEF AllAllowed

\* There is a free level, and FirstFree is one.
LEMMA FirstFreeIsFree ==
    ASSUME NEW f, IsLevels(f), NEW from \in Nat
    PROVE  FirstFree(f, from) \in Nat /\ FirstFree(f, from) \notin DOMAIN f
<1>. DEFINE c == Cardinality(DOMAIN f)
            U == {l \in from..(from + c) : l \notin DOMAIN f}
<1>1. c \in Nat
  BY FS_CardinalityType DEF IsLevels
<1>2. U # {}
  <2>. SUFFICES ASSUME from..(from + c) \subseteq DOMAIN f
                PROVE  FALSE
    OBVIOUS
  <2>1. Cardinality(from..(from + c)) = c + 1
    BY <1>1, FS_Interval
  <2>2. Cardinality(from..(from + c)) <= c
    BY FS_Subset DEF IsLevels
  <2>. HIDE DEF c
  <2>. QED
    BY <1>1, <2>1, <2>2
<1>. HIDE DEF c
<1>3. U \subseteq Nat
  BY <1>1
<1>. HIDE DEF U
<1>4. PICK l \in U : \A k \in U : <<k, l>> \notin OpToRel(<, Nat)
  BY <1>2, <1>3, NatLessThanWellFounded, WFMin
<1>5. \A k \in U : ~(k < l)
  BY <1>3, <1>4, Zenon DEF OpToRel
<1>6. /\ l \in from..(from + c) /\ l \notin DOMAIN f
      /\ \A k \in from..(l - 1) : k \in DOMAIN f
  BY <1>1, <1>5 DEF U
<1>7. FirstFree(f, from) \in from..(from + c) /\ FirstFree(f, from) \notin DOMAIN f
  <2>1. FirstFree(f, from) =
            CHOOSE x \in from..(from + c) : x \notin DOMAIN f /\ \A k \in from..(x - 1) : k \in DOMAIN f
    BY DEF FirstFree, c
  <2>. QED
    BY <1>6, <2>1
<1>. QED
  BY <1>1, <1>7

-----------------------------------------------------------------------------
(* The first pattern.                                                      *)

\* The levels are those of the recursion that defines them.
LEMMA IndexedStep ==
    ASSUME NEW m \in Seq(Token)
    PROVE  /\ IndexedTo(m)[0] = NoLevels
           /\ \A k \in 0..Len(m) :
                 k < Len(m) => IndexedTo(m)[k + 1] = IndexedAt(m, k + 1, IndexedTo(m)[k])
<1>. DEFINE n == Len(m)
            Body(g, k) == [i \in 0..k |-> IF i = 0 THEN NoLevels ELSE IndexedAt(m, i, g[i - 1])]
            T == {k \in 0..n : \E g : g = Body(g, k)}
<1>0. n \in Nat
  OBVIOUS
<1>1. 0 \in T
  <2>. DEFINE g == [i \in 0..0 |-> NoLevels]
  <2>1. g = Body(g, 0)
    OBVIOUS
  <2>. HIDE DEF g, Body
  <2>2. \E h : h = Body(h, 0)
    BY <2>1
  <2>3. 0 \in 0..n
    BY <1>0
  <2>. QED
    BY <2>2, <2>3
<1>2. ASSUME NEW k \in 0..n, k < n, k \in T
      PROVE  k + 1 \in T
  <2>1. PICK g : g = Body(g, k)
    BY <1>2
  <2>. DEFINE h == [i \in 0..(k + 1) |-> IF i = k + 1 THEN IndexedAt(m, k + 1, g[k]) ELSE g[i]]
  <2>2. ASSUME NEW i \in 0..(k + 1)
        PROVE  h[i] = Body(h, k + 1)[i]
    <3>1. CASE i = 0
      BY <2>1, <3>1
    <3>2. CASE i \in 1..k
      <4>1. g[i] = IndexedAt(m, i, g[i - 1])
        BY <2>1, <3>2
      <4>2. h[i] = g[i] /\ h[i - 1] = g[i - 1]
        BY <3>2
      <4>. QED
        BY <3>2, <4>1, <4>2
    <3>3. CASE i = k + 1
      <4>1. h[i] = IndexedAt(m, i, g[i - 1]) /\ h[i - 1] = g[i - 1]
        BY <3>3
      <4>. QED
        BY <3>3, <4>1
    <3>. QED
      BY <3>1, <3>2, <3>3
  <2>3. h = Body(h, k + 1)
    BY <2>2
  <2>. HIDE DEF h, Body
  <2>. QED
    BY <1>2, <2>3
<1>3. n \in T
  <2>. HIDE DEF T, n
  <2>1. \A k \in 0..n : k < n /\ k \in T => k + 1 \in T
    BY <1>2
  <2>2. \A k \in 0..n : k \in T
    BY <1>0, <1>1, <2>1, SetInduction
  <2>. QED
    BY <1>0, <2>2
<1>4. PICK g : g = Body(g, n)
  BY <1>3
<1>5. IndexedTo(m) = CHOOSE h : h = Body(h, n)
  BY Zenon DEF IndexedTo
<1>6. IndexedTo(m) = Body(IndexedTo(m), n)
  <2>. HIDE DEF Body
  <2>. QED
    BY <1>4, <1>5, Zenon
<1>. QED
  BY <1>6

\* What a token adds: nothing, or one allowed level.
LEMMA IndexedAtIs ==
    ASSUME NEW m \in Seq(Token), NEW i \in 1..Len(m), NEW f
    PROVE  \/ /\ IndexedAt(m, i, f) = f
              /\ \A x \in Indexed(m, i) : ~Allowed(x.price, Symbol(m))
           \/ \E x \in Indexed(m, i) :
                 /\ Allowed(x.price, Symbol(m))
                 /\ IndexedAt(m, i, f) = With(f, x.level, x.price)
<1>. DEFINE allowed == {x \in Indexed(m, i) : Allowed(x.price, Symbol(m))}
<1>1. CASE allowed = {}
  BY <1>1 DEF IndexedAt
<1>2. CASE allowed # {}
  <2>. DEFINE x == CHOOSE y \in allowed : TRUE
  <2>1. x \in allowed
    BY <1>2
  <2>2. IndexedAt(m, i, f) = With(f, x.level, x.price)
    BY <1>2 DEF IndexedAt
  <2>. HIDE DEF x
  <2>. QED
    BY <2>1, <2>2
<1>. QED
  BY <1>1, <1>2

\* The number of a level is a natural number.
LEMMA IndexedTyped ==
    ASSUME NEW m \in Seq(Token), NEW i \in 1..Len(m), NEW x \in Indexed(m, i)
    PROVE  x.level \in Nat
<1>1. i + 1 \in DOMAIN m /\ IsNumber(m[i + 1])
  BY DEF Indexed
<1>2. m[i + 1] \in Token
  BY <1>1
<1>. DEFINE y == m[i + 1]
            w == Whole(y.price)
<1>3. y.price \in Nat /\ y.written \in Nat
  BY <1>1, <1>2, NumberTyped
<1>4. w \in Nat /\ w \div 10 \in Nat
  <2>. HIDE DEF y
  <2>1. w \in Nat
    BY <1>3, SMT DEF Whole, Unit
  <2>. HIDE DEF w
  <2>. QED
    BY <2>1, SMT
<1>5. \/ x = [level |-> w, price |-> y.price % Unit]
      \/ x = [level |-> w, price |-> m[i + 2].price]
      \/ x \in {[level |-> v \div 10, price |-> Unit * (v % 10)] : v \in {w} \ 0..9}
  BY <1>1 DEF Indexed
<1>. QED
  BY <1>4, <1>5

\* The levels of the first tokens are finitely many, with allowed prices.
LEMMA IndexedAllowed ==
    ASSUME NEW m \in Seq(Token)
    PROVE  \A k \in 0..Len(m) : IsLevels(IndexedTo(m)[k]) /\ AllAllowed(IndexedTo(m)[k], Symbol(m))
<1>. DEFINE F == IndexedTo(m)
            T == {k \in 0..Len(m) : IsLevels(F[k]) /\ AllAllowed(F[k], Symbol(m))}
<1>0. Len(m) \in Nat
  OBVIOUS
<1>1. 0 \in T
  <2>1. F[0] = NoLevels
    BY IndexedStep
  <2>2. IsLevels(NoLevels) /\ AllAllowed(NoLevels, Symbol(m))
    BY FS_EmptySet DEF NoLevels, IsLevels, AllAllowed
  <2>. QED
    BY <1>0, <2>1, <2>2
<1>2. ASSUME NEW k \in 0..Len(m), k < Len(m), k \in T
      PROVE  k + 1 \in T
  <2>1. F[k + 1] = IndexedAt(m, k + 1, F[k])
    BY <1>2, IndexedStep
  <2>2. k + 1 \in 1..Len(m)
    BY <1>2
  <2>. HIDE DEF F
  <2>3. CASE F[k + 1] = F[k]
    BY <1>2, <2>2, <2>3
  <2>4. ASSUME NEW x \in Indexed(m, k + 1), Allowed(x.price, Symbol(m)),
               F[k + 1] = With(F[k], x.level, x.price)
        PROVE  k + 1 \in T
    <3>1. x.level \in Nat
      BY <2>2, IndexedTyped
    <3>2. IsLevels(F[k]) /\ AllAllowed(F[k], Symbol(m))
      BY <1>2
    <3>3. /\ IsLevels(With(F[k], x.level, x.price))
          /\ AllAllowed(With(F[k], x.level, x.price), Symbol(m))
      BY <2>4, <3>1, <3>2, WithAllowed, Zenon
    <3>. QED
      BY <2>2, <2>4, <3>3
  <2>. QED
    BY <2>1, <2>2, <2>3, <2>4, IndexedAtIs
<1>. HIDE DEF T
<1>3. \A k \in 0..Len(m) : k \in T
  BY <1>0, <1>1, <1>2, SetInduction
<1>. QED
  BY <1>3 DEF T

-----------------------------------------------------------------------------
(* The first pattern on a message that quotes its levels.                  *)

\* Level l is quoted with the allowed price p among the first k tokens.
QuotedTo(m, k, l, p) ==
    \E i \in 1..k : /\ QuotedAt(m, i)
                    /\ l = Whole(m[i + 1].price) /\ p = m[i + 2].price
                    /\ Allowed(p, Symbol(m))

\* At a quotation the pattern reads the level quoted, elsewhere none.
LEMMA IndexedIsQuoted ==
    ASSUME NEW m \in Seq(Token), WellQuoted(m), NEW i \in 1..Len(m)
    PROVE  /\ QuotedAt(m, i) =>
                Indexed(m, i) = {[level |-> Whole(m[i + 1].price), price |-> m[i + 2].price]}
           /\ ~QuotedAt(m, i) => Indexed(m, i) = {}
<1>1. ASSUME QuotedAt(m, i)
      PROVE  Indexed(m, i) = {[level |-> Whole(m[i + 1].price), price |-> m[i + 2].price]}
  <2>1. /\ i + 1 \in DOMAIN m /\ i + 2 \in DOMAIN m
        /\ IsTerm(m[i], {ProfitTerm}) /\ IsNumber(m[i + 1]) /\ IsNumber(m[i + 2])
        /\ m[i + 1].written = 0
    BY <1>1 DEF QuotedAt
  <2>. QED
    BY <2>1 DEF Indexed
<1>2. ASSUME ~QuotedAt(m, i)
      PROVE  Indexed(m, i) = {}
  <2>1. \A j \in DOMAIN m : IsTerm(m[j], {ProfitTerm}) => QuotedAt(m, j)
    BY Zenon DEF WellQuoted
  <2>2. i \in DOMAIN m
    OBVIOUS
  <2>3. ~IsTerm(m[i], {ProfitTerm})
    BY <1>2, <2>1, <2>2, Zenon
  <2>. QED
    BY <2>3, Zenon DEF Indexed
<1>. QED
  BY <1>1, <1>2

\* Two quotations of one level are of one price.
LEMMA QuotedOnce ==
    ASSUME NEW m \in Seq(Token), WellQuoted(m), NEW i \in 1..Len(m), NEW j \in 1..Len(m),
           QuotedAt(m, i), QuotedAt(m, j), Whole(m[i + 1].price) = Whole(m[j + 1].price)
    PROVE  m[i + 2].price = m[j + 2].price
<1>. DEFINE x == [level |-> Whole(m[i + 1].price), price |-> m[i + 2].price]
            y == [level |-> Whole(m[j + 1].price), price |-> m[j + 2].price]
<1>1. x \in Quoted(m) /\ y \in Quoted(m)
  BY DEF Quoted
<1>2. x.level = y.level
  OBVIOUS
<1>3. x = y
  BY <1>1, <1>2, Zenon DEF WellQuoted
<1>. QED
  BY <1>3

\* The first pattern reads what is quoted, if its price is allowed.
LEMMA IndexedQuoted ==
    ASSUME NEW m \in Seq(Token), WellQuoted(m)
    PROVE  \A k \in 0..Len(m) : \A l, p :
               (l \in DOMAIN IndexedTo(m)[k] /\ IndexedTo(m)[k][l] = p) <=> QuotedTo(m, k, l, p)
<1>. DEFINE F == IndexedTo(m)
            Reads(k) == \A l, p : (l \in DOMAIN F[k] /\ F[k][l] = p) <=> QuotedTo(m, k, l, p)
            T == {k \in 0..Len(m) : Reads(k)}
<1>0. Len(m) \in Nat
  OBVIOUS
<1>1. 0 \in T
  <2>1. DOMAIN F[0] = {}
    BY IndexedStep DEF NoLevels
  <2>2. \A l, p : ~QuotedTo(m, 0, l, p)
    BY DEF QuotedTo
  <2>. QED
    BY <1>0, <2>1, <2>2
<1>2. ASSUME NEW k \in 0..Len(m), k < Len(m), k \in T
      PROVE  k + 1 \in T
  <2>1. F[k + 1] = IndexedAt(m, k + 1, F[k])
    BY <1>2, IndexedStep
  <2>2. k + 1 \in 1..Len(m) /\ k + 1 \in 0..Len(m)
    BY <1>2
  <2>. DEFINE level == Whole(m[(k + 1) + 1].price)
              price == m[(k + 1) + 2].price
              good  == QuotedAt(m, k + 1) /\ Allowed(price, Symbol(m))
  <2>3. Indexed(m, k + 1) = IF QuotedAt(m, k + 1) THEN {[level |-> level, price |-> price]} ELSE {}
    BY <2>2, IndexedIsQuoted, Zenon
  <2>4. IF good THEN F[k + 1] = With(F[k], level, price) ELSE F[k + 1] = F[k]
    <3>. HIDE DEF F
    <3>1. \/ /\ F[k + 1] = F[k]
             /\ \A x \in Indexed(m, k + 1) : ~Allowed(x.price, Symbol(m))
          \/ \E x \in Indexed(m, k + 1) :
                /\ Allowed(x.price, Symbol(m))
                /\ F[k + 1] = With(F[k], x.level, x.price)
      BY <2>1, <2>2, IndexedAtIs
    <3>2. CASE QuotedAt(m, k + 1)
      <4>. DEFINE r == [level |-> level, price |-> price]
      <4>1. Indexed(m, k + 1) = {r}
        BY <2>3, <3>2, Zenon
      <4>2. r.level = level /\ r.price = price
        OBVIOUS
      <4>. HIDE DEF r, level, price
      <4>3. \A x \in Indexed(m, k + 1) : x = r
        BY <4>1, Zenon
      <4>4. r \in Indexed(m, k + 1)
        BY <4>1, Zenon
      <4>. QED
        BY <3>1, <3>2, <4>2, <4>3, <4>4, Zenon
    <3>3. CASE ~QuotedAt(m, k + 1)
      <4>1. Indexed(m, k + 1) = {}
        BY <2>3, <3>3, Zenon
      <4>. HIDE DEF level, price
      <4>. QED
        BY <3>1, <3>3, <4>1, Zenon
    <3>. QED
      BY <3>2, <3>3, Zenon
  <2>5. \A l, p : QuotedTo(m, k + 1, l, p) <=>
                    (QuotedTo(m, k, l, p) \/ (good /\ l = level /\ p = price))
    <3>1. 1..(k + 1) = (1..k) \union {k + 1}
      BY <1>2
    <3>. QED
      BY <3>1 DEF QuotedTo
  <2>6. CASE ~good
    BY <1>2, <2>2, <2>4, <2>5, <2>6
  <2>7. CASE good
    <3>1. \A l, p : QuotedTo(m, k, l, p) /\ l = level => p = price
      <4>. SUFFICES ASSUME NEW p, QuotedTo(m, k, level, p)
                    PROVE  p = price
        OBVIOUS
      <4>1. PICK i \in 1..k : /\ QuotedAt(m, i)
                              /\ level = Whole(m[i + 1].price) /\ p = m[i + 2].price
        BY DEF QuotedTo
      <4>2. i \in 1..Len(m)
        BY <1>2
      <4>. QED
        BY <2>2, <2>7, <4>1, <4>2, QuotedOnce
    <3>2. DOMAIN F[k + 1] = DOMAIN F[k] \union {level}
      BY <2>4, <2>7 DEF With
    <3>3. \A l \in DOMAIN F[k + 1] : F[k + 1][l] = IF l = level THEN price ELSE F[k][l]
      BY <2>4, <2>7 DEF With
    <3>. HIDE DEF F, level, price
    <3>4. Reads(k + 1)
      BY <1>2, <2>5, <2>7, <3>1, <3>2, <3>3
    <3>. QED
      BY <2>2, <3>4
  <2>. QED
    BY <2>6, <2>7
<1>. HIDE DEF T
<1>3. \A k \in 0..Len(m) : k \in T
  BY <1>0, <1>1, <1>2, SetInduction
<1>. QED
  BY <1>3 DEF T

-----------------------------------------------------------------------------
(* The list pattern.                                                       *)

\* The levels are those of the recursion that defines them.
LEMMA ListedStep ==
    ASSUME NEW m \in Seq(Token), NEW indexed
    PROVE  /\ ListedTo(m, indexed)[0] = [levels |-> indexed, next |-> 1, open |-> FALSE]
           /\ \A k \in 0..Len(m) : k < Len(m) =>
                 ListedTo(m, indexed)[k + 1] = Listed(m, m[k + 1], ListedTo(m, indexed)[k])
<1>. DEFINE n == Len(m)
            start == [levels |-> indexed, next |-> 1, open |-> FALSE]
            Body(g, k) == [i \in 0..k |-> IF i = 0 THEN start ELSE Listed(m, m[i], g[i - 1])]
            T == {k \in 0..n : \E g : g = Body(g, k)}
<1>0. n \in Nat
  OBVIOUS
<1>5. ListedTo(m, indexed) = CHOOSE h : h = Body(h, n)
  BY Zenon DEF ListedTo
<1>7. start = [levels |-> indexed, next |-> 1, open |-> FALSE]
  OBVIOUS
<1>. HIDE DEF start
<1>1. 0 \in T
  <2>. DEFINE g == [i \in 0..0 |-> start]
  <2>1. g = Body(g, 0)
    OBVIOUS
  <2>. HIDE DEF g, Body
  <2>2. \E h : h = Body(h, 0)
    BY <2>1
  <2>3. 0 \in 0..n
    BY <1>0
  <2>. QED
    BY <2>2, <2>3
<1>2. ASSUME NEW k \in 0..n, k < n, k \in T
      PROVE  k + 1 \in T
  <2>1. PICK g : g = Body(g, k)
    BY <1>2
  <2>. DEFINE h == [i \in 0..(k + 1) |-> IF i = k + 1 THEN Listed(m, m[k + 1], g[k]) ELSE g[i]]
  <2>2. ASSUME NEW i \in 0..(k + 1)
        PROVE  h[i] = Body(h, k + 1)[i]
    <3>1. CASE i = 0
      BY <2>1, <3>1
    <3>2. CASE i \in 1..k
      <4>1. g[i] = Listed(m, m[i], g[i - 1])
        BY <2>1, <3>2
      <4>2. h[i] = g[i] /\ h[i - 1] = g[i - 1]
        BY <3>2
      <4>. QED
        BY <3>2, <4>1, <4>2
    <3>3. CASE i = k + 1
      <4>1. h[i] = Listed(m, m[i], g[i - 1]) /\ h[i - 1] = g[i - 1]
        BY <3>3
      <4>. QED
        BY <3>3, <4>1
    <3>. QED
      BY <3>1, <3>2, <3>3
  <2>3. h = Body(h, k + 1)
    BY <2>2
  <2>. HIDE DEF h, Body
  <2>. QED
    BY <1>2, <2>3
<1>3. n \in T
  <2>. HIDE DEF T, n
  <2>1. \A k \in 0..n : k < n /\ k \in T => k + 1 \in T
    BY <1>2
  <2>2. \A k \in 0..n : k \in T
    BY <1>0, <1>1, <2>1, SetInduction
  <2>. QED
    BY <1>0, <2>2
<1>4. PICK g : g = Body(g, n)
  BY <1>3
<1>6. ListedTo(m, indexed) = Body(ListedTo(m, indexed), n)
  <2>. HIDE DEF Body
  <2>. QED
    BY <1>4, <1>5, Zenon
<1>8. /\ ListedTo(m, indexed)[0] = start
      /\ \A k \in 0..n : k < n =>
            ListedTo(m, indexed)[k + 1] = Listed(m, m[k + 1], ListedTo(m, indexed)[k])
  <2>. DEFINE L == ListedTo(m, indexed)
  <2>1. \A i \in 0..n : L[i] = IF i = 0 THEN start ELSE Listed(m, m[i], L[i - 1])
    BY <1>6
  <2>. HIDE DEF L
  <2>2. \A k \in 0..n : k < n => k + 1 \in 0..n /\ k + 1 # 0 /\ (k + 1) - 1 = k
    BY <1>0
  <2>3. 0 \in 0..n
    BY <1>0
  <2>. HIDE DEF n
  <2>4. L[0] = start
    BY <2>1, <2>3
  <2>5. ASSUME NEW k \in 0..n, k < n
        PROVE  L[k + 1] = Listed(m, m[k + 1], L[k])
    <3>1. L[k + 1] = Listed(m, m[k + 1], L[(k + 1) - 1])
      BY <2>1, <2>2, <2>5, Zenon
    <3>2. (k + 1) - 1 = k
      BY <2>2, <2>5
    <3>. QED
      BY <3>1, <3>2
  <2>. QED
    BY <2>4, <2>5 DEF L
<1>. QED
  BY <1>7, <1>8, Zenon

\* What the pattern keeps while it reads.
IsListing(acc, sym) ==
    /\ acc = [levels |-> acc.levels, next |-> acc.next, open |-> acc.open]
    /\ IsLevels(acc.levels) /\ AllAllowed(acc.levels, sym)
    /\ acc.next \in Nat /\ acc.open \in BOOLEAN

\* The pattern takes this number for a price.
Takes(m, token) == IsNumber(token) /\ Allowed(Unit * Whole(token.price), Symbol(m))

\* What a token does: it may open or close the list, and only a number that is
\* taken in an open list adds a level, a free one.
Lists(m, token, acc, next) ==
    /\ IsListing(next, Symbol(m))
    /\ next.open <=> \/ IsTerm(token, {ProfitTerm})
                     \/ (acc.open /\ (IsNumber(token) => token.written = 0))
    /\ acc.open /\ Takes(m, token) =>
         \E l \in Nat \ DOMAIN acc.levels :
             next.levels = With(acc.levels, l, Unit * Whole(token.price))
    /\ ~(acc.open /\ Takes(m, token)) => next.levels = acc.levels

\* It is what the code does with a token.
LEMMA ListedIs ==
    ASSUME NEW m \in Seq(Token), NEW token \in Token, NEW acc, IsListing(acc, Symbol(m))
    PROVE  Lists(m, token, acc, Listed(m, token, acc))
<1>. DEFINE next  == Listed(m, token, acc)
            term  == IsTerm(token, {ProfitTerm})
            price == Unit * Whole(token.price)
            open  == token.written = 0
            free  == FirstFree(acc.levels, acc.next)
            sym   == Symbol(m)
<1>1. term => ~IsNumber(token)
  BY DEF IsTerm
<1>2. /\ acc = [levels |-> acc.levels, next |-> acc.next, open |-> acc.open]
      /\ IsLevels(acc.levels) /\ AllAllowed(acc.levels, sym)
      /\ acc.next \in Nat /\ acc.open \in BOOLEAN
  BY DEF IsListing
<1>3. CASE term /\ ~acc.open
  <2>. DEFINE c == Cardinality(DOMAIN acc.levels) + 1
  <2>1. c \in Nat
    BY <1>2, FS_CardinalityType DEF IsLevels
  <2>2. next = [acc EXCEPT !.open = TRUE, !.next = c]
    BY <1>3 DEF Listed
  <2>. HIDE DEF c
  <2>3. next = [levels |-> acc.levels, next |-> c, open |-> TRUE]
    BY <1>2, <2>2
  <2>. HIDE DEF next
  <2>4. next.levels = acc.levels /\ next.next = c /\ next.open = TRUE
    BY <2>3
  <2>5. IsListing(next, sym)
    BY <1>2, <2>1, <2>3, <2>4 DEF IsListing
  <2>. QED
    <3>1. ~Takes(m, token)
      BY <1>1, <1>3 DEF Takes
    <3>2. Lists(m, token, acc, next)
      BY <1>3, <2>4, <2>5, <3>1 DEF Lists
    <3>. QED
      BY <3>2 DEF next
<1>4. CASE acc.open /\ Takes(m, token)
  <2>0. IsNumber(token) /\ Allowed(price, sym)
    BY <1>4 DEF Takes
  <2>1. next = [levels |-> With(acc.levels, free, price), next |-> free + 1, open |-> open]
    BY <1>1, <1>4, <2>0 DEF Listed
  <2>2. free \in Nat /\ free \notin DOMAIN acc.levels
    BY <1>2, FirstFreeIsFree
  <2>. HIDE DEF free, price, next, sym
  <2>3. IsLevels(With(acc.levels, free, price)) /\ AllAllowed(With(acc.levels, free, price), sym)
    BY <1>2, <2>0, <2>2, WithAllowed
  <2>4. next.levels = With(acc.levels, free, price) /\ next.next = free + 1 /\ next.open = open
    BY <2>1
  <2>5. IsListing(next, sym)
    <3>1. free + 1 \in Nat
      BY <2>2
    <3>2. open \in BOOLEAN
      OBVIOUS
    <3>. HIDE DEF open
    <3>. QED
      BY <2>1, <2>3, <2>4, <3>1, <3>2 DEF IsListing
  <2>6. next.open <=> (term \/ (acc.open /\ (IsNumber(token) => token.written = 0)))
    BY <1>1, <1>4, <2>0, <2>4
  <2>. QED
    <3>1. IsListing(next, Symbol(m))
      BY <2>5 DEF sym
    <3>2. next.open <=> \/ IsTerm(token, {ProfitTerm})
                        \/ (acc.open /\ (IsNumber(token) => token.written = 0))
      BY <2>6, Zenon DEF term
    <3>3. \E l \in Nat \ DOMAIN acc.levels :
              next.levels = With(acc.levels, l, Unit * Whole(token.price))
      BY <2>2, <2>4 DEF price
    <3>. HIDE DEF term, open
    <3>4. Lists(m, token, acc, next)
      BY <1>4, <3>1, <3>2, <3>3, Zenon DEF Lists
    <3>. QED
      BY <3>4 DEF next
<1>5. CASE acc.open /\ IsNumber(token) /\ ~Takes(m, token)
  <2>0. ~Allowed(price, sym)
    BY <1>5 DEF Takes
  <2>1. next = [acc EXCEPT !.open = open]
    BY <1>1, <1>5, <2>0 DEF Listed
  <2>2. open \in BOOLEAN
    OBVIOUS
  <2>3. next = [levels |-> acc.levels, next |-> acc.next, open |-> open]
    BY <1>2, <2>1
  <2>. HIDE DEF next
  <2>4. next.levels = acc.levels /\ next.next = acc.next /\ next.open = open
    BY <2>3
  <2>5. IsListing(next, sym)
    <3>. HIDE DEF open
    <3>. QED
      BY <1>2, <2>2, <2>3, <2>4 DEF IsListing
  <2>. QED
    <3>1. Lists(m, token, acc, next)
      BY <1>1, <1>5, <2>4, <2>5 DEF Lists
    <3>. QED
      BY <3>1 DEF next
<1>6. CASE ~(term /\ ~acc.open) /\ ~(acc.open /\ IsNumber(token))
  <2>1. next = acc
    BY <1>6 DEF Listed
  <2>. HIDE DEF next
  <2>2. ~(acc.open /\ Takes(m, token))
    BY <1>6 DEF Takes
  <2>3. acc.open <=> (term \/ (acc.open /\ (IsNumber(token) => token.written = 0)))
    BY <1>2, <1>6
  <2>. QED
    <3>1. Lists(m, token, acc, acc)
      <4>. HIDE DEF term, open
      <4>1. acc.open <=> \/ IsTerm(token, {ProfitTerm})
                         \/ (acc.open /\ (IsNumber(token) => token.written = 0))
        BY <2>3, Zenon DEF term
      <4>. QED
        BY <2>2, <4>1, Zenon DEF Lists
    <3>. QED
      BY <2>1, <3>1, Zenon DEF next
<1>. QED
  BY <1>3, <1>4, <1>5, <1>6

\* After the first k tokens a list is open: after a keyword, with no decimal
\* point since.
OpenAt(m, k) ==
    \E i \in 1..k : /\ IsTerm(m[i], {ProfitTerm})
                    /\ \A j \in (i + 1)..k : IsNumber(m[j]) => m[j].written = 0

\* Among the first k tokens the list pattern takes a price.
RelistedTo(m, k) == \E j \in 1..k : OpenAt(m, j - 1) /\ Takes(m, m[j])

\* A token opens or closes the list.
LEMMA OpenAtNext ==
    ASSUME NEW m \in Seq(Token), NEW k \in Nat
    PROVE  OpenAt(m, k + 1) <=> \/ IsTerm(m[k + 1], {ProfitTerm})
                                \/ (OpenAt(m, k) /\ (IsNumber(m[k + 1]) => m[k + 1].written = 0))
<1>. DEFINE last == IsNumber(m[k + 1]) => m[k + 1].written = 0
            free(i, n) == \A j \in (i + 1)..n : IsNumber(m[j]) => m[j].written = 0
<1>1. \A i \in 1..k : free(i, k + 1) <=> free(i, k) /\ last
  <2>. SUFFICES ASSUME NEW i \in 1..k
                PROVE  free(i, k + 1) <=> free(i, k) /\ last
    OBVIOUS
  <2>1. (i + 1)..(k + 1) = ((i + 1)..k) \union {k + 1}
    OBVIOUS
  <2>. QED
    BY <2>1, Zenon
<1>2. free(k + 1, k + 1)
  OBVIOUS
<1>3. 1..(k + 1) = (1..k) \union {k + 1}
  OBVIOUS
<1>4. OpenAt(m, k + 1) <=> \E i \in 1..(k + 1) : IsTerm(m[i], {ProfitTerm}) /\ free(i, k + 1)
  BY DEF OpenAt
<1>5. OpenAt(m, k) <=> \E i \in 1..k : IsTerm(m[i], {ProfitTerm}) /\ free(i, k)
  BY DEF OpenAt
<1>6. OpenAt(m, k + 1) <=> \/ IsTerm(m[k + 1], {ProfitTerm})
                           \/ (OpenAt(m, k) /\ last)
  <2>. HIDE DEF free, last
  <2>. QED
    BY <1>1, <1>2, <1>3, <1>4, <1>5, Zenon
<1>. QED
  BY <1>6

\* The pattern takes the whole prices behind a keyword.
LEMMA RelistedIs ==
    ASSUME NEW m \in Seq(Token), WellQuoted(m)
    PROVE  Relisted(m) <=> RelistedTo(m, Len(m))
<1>. DEFINE closed(i, k) == \A j \in (i + 1)..(k - 1) : IsNumber(m[j]) => m[j].written = 0
<1>0. DOMAIN m = 1..Len(m)
  OBVIOUS
<1>1. ASSUME NEW i \in DOMAIN m, IsTerm(m[i], {ProfitTerm}), NEW k \in DOMAIN m
      PROVE  (IsNumber(m[k]) /\ WholePrice(m[k], Symbol(m))) <=> Takes(m, m[k])
  <2>1. Symbol(m) \in DOMAIN Rules /\ Rules[Symbol(m)].places # {}
    BY <1>1, Zenon DEF WellQuoted
  <2>. QED
    BY <2>1, Zenon DEF WholePrice, Takes, Allowed
<1>2. Relisted(m) <=> \E i, k \in 1..Len(m) : /\ i < k /\ IsTerm(m[i], {ProfitTerm})
                                              /\ closed(i, k) /\ Takes(m, m[k])
  BY <1>0, <1>1, Zenon DEF Relisted
<1>3. RelistedTo(m, Len(m)) <=>
          \E k \in 1..Len(m) : /\ Takes(m, m[k])
                               /\ \E i \in 1..(k - 1) : IsTerm(m[i], {ProfitTerm}) /\ closed(i, k)
  BY DEF RelistedTo, OpenAt
<1>. HIDE DEF closed
<1>4. \A k \in 1..Len(m) : \A i : i \in 1..(k - 1) <=> i \in 1..Len(m) /\ i < k
  OBVIOUS
<1>. QED
  BY <1>2, <1>3, <1>4, Zenon

\* What the list pattern has made of the first k tokens.
ListingAt(m, indexed, k, acc) ==
    /\ IsListing(acc, Symbol(m))
    /\ acc.open <=> OpenAt(m, k)
    /\ \A l \in DOMAIN indexed : l \in DOMAIN acc.levels /\ acc.levels[l] = indexed[l]
    /\ RelistedTo(m, k) => DOMAIN acc.levels # DOMAIN indexed
    /\ ~RelistedTo(m, k) => acc.levels = indexed

\* It keeps every level of the first pattern, and adds one exactly if it takes a
\* price.
LEMMA Listing ==
    ASSUME NEW m \in Seq(Token), NEW indexed, IsLevels(indexed), AllAllowed(indexed, Symbol(m))
    PROVE  \A k \in 0..Len(m) : ListingAt(m, indexed, k, ListedTo(m, indexed)[k])
<1>. DEFINE F == ListedTo(m, indexed)
            T == {k \in 0..Len(m) : ListingAt(m, indexed, k, F[k])}
<1>0. Len(m) \in Nat
  OBVIOUS
<1>1. 0 \in T
  <2>. DEFINE acc == F[0]
  <2>1. acc = [levels |-> indexed, next |-> 1, open |-> FALSE]
    BY ListedStep
  <2>. HIDE DEF acc
  <2>2. acc.levels = indexed /\ acc.next = 1 /\ acc.open = FALSE
    BY <2>1
  <2>3. IsListing(acc, Symbol(m))
    BY <2>1, <2>2 DEF IsListing
  <2>4. ~OpenAt(m, 0) /\ ~RelistedTo(m, 0)
    BY DEF OpenAt, RelistedTo
  <2>5. ListingAt(m, indexed, 0, acc)
    BY <2>2, <2>3, <2>4 DEF ListingAt
  <2>. QED
    BY <1>0, <2>5 DEF acc
<1>2. ASSUME NEW k \in 0..Len(m), k < Len(m), k \in T
      PROVE  k + 1 \in T
  <2>. DEFINE acc   == F[k]
              next  == F[k + 1]
              token == m[k + 1]
              price == Unit * Whole(token.price)
              taken == OpenAt(m, k) /\ Takes(m, token)
  <2>1. k + 1 \in 1..Len(m) /\ k + 1 \in 0..Len(m) /\ k \in Nat /\ (k + 1) - 1 = k
    BY <1>2
  <2>2. token \in Token
    BY <2>1
  <2>3. next = Listed(m, token, acc)
    BY <1>2, ListedStep
  <2>4. ListingAt(m, indexed, k, acc)
    BY <1>2
  <2>5. RelistedTo(m, k + 1) <=> RelistedTo(m, k) \/ taken
    <3>1. 1..(k + 1) = (1..k) \union {k + 1}
      BY <2>1
    <3>. QED
      BY <2>1, <3>1, Zenon DEF RelistedTo
  <2>6. OpenAt(m, k + 1) <=> \/ IsTerm(token, {ProfitTerm})
                             \/ (OpenAt(m, k) /\ (IsNumber(token) => token.written = 0))
    BY <2>1, OpenAtNext
  <2>. HIDE DEF acc, next, token, price
  <2>7. Lists(m, token, acc, next)
    <3>1. IsListing(acc, Symbol(m))
      BY <2>4, Zenon DEF ListingAt
    <3>. QED
      BY <2>2, <2>3, <3>1, ListedIs, Zenon
  <2>8. next.open <=> OpenAt(m, k + 1)
    BY <2>4, <2>6, <2>7, Zenon DEF ListingAt, Lists
  <2>9. IsListing(next, Symbol(m))
    BY <2>7, Zenon DEF Lists
  <2>10. CASE taken
    <3>1. PICK l \in Nat : l \notin DOMAIN acc.levels /\ next.levels = With(acc.levels, l, price)
      BY <2>4, <2>7, <2>10, Zenon DEF ListingAt, Lists, price
    <3>2. IsLevels(acc.levels)
      BY <2>4, Zenon DEF ListingAt, IsListing
    <3>3. /\ l \in DOMAIN next.levels
          /\ \A d \in DOMAIN acc.levels : d \in DOMAIN next.levels /\ next.levels[d] = acc.levels[d]
      <4>. DEFINE levels == acc.levels
      <4>1. next.levels = With(levels, l, price) /\ l \notin DOMAIN levels /\ IsLevels(levels)
        BY <3>1, <3>2
      <4>. HIDE DEF levels
      <4>2. /\ DOMAIN With(levels, l, price) = DOMAIN levels \union {l}
            /\ \A d \in DOMAIN levels : d # l => With(levels, l, price)[d] = levels[d]
        BY DEF With
      <4>3. /\ l \in DOMAIN next.levels
            /\ \A d \in DOMAIN levels : d \in DOMAIN next.levels /\ next.levels[d] = levels[d]
        BY <4>1, <4>2, Zenon
      <4>. QED
        BY <4>3 DEF levels
    <3>4. /\ l \notin DOMAIN indexed
          /\ \A d \in DOMAIN indexed : d \in DOMAIN next.levels /\ next.levels[d] = indexed[d]
      BY <2>4, <3>1, <3>3, Zenon DEF ListingAt
    <3>5. RelistedTo(m, k + 1)
      BY <2>5, <2>10, Zenon
    <3>6. ListingAt(m, indexed, k + 1, next)
      BY <2>8, <2>9, <3>3, <3>4, <3>5, Zenon DEF ListingAt
    <3>. QED
      BY <2>1, <3>6 DEF next
  <2>11. CASE ~taken
    <3>1. next.levels = acc.levels
      BY <2>4, <2>7, <2>11, Zenon DEF ListingAt, Lists
    <3>2. ListingAt(m, indexed, k + 1, next)
      BY <2>4, <2>5, <2>8, <2>9, <2>11, <3>1, Zenon DEF ListingAt
    <3>. QED
      BY <2>1, <3>2 DEF next
  <2>. QED
    BY <2>10, <2>11, Zenon
<1>. HIDE DEF T
<1>3. \A k \in 0..Len(m) : k \in T
  BY <1>0, <1>1, <1>2, SetInduction
<1>. QED
  BY <1>3 DEF T

-----------------------------------------------------------------------------
(* The take profits of any message.                                        *)

\* The levels of both patterns.
LEMMA TakeProfitIs ==
    ASSUME NEW m \in Seq(Token)
    PROVE  /\ IsLevels(TakeProfit(m)) /\ AllAllowed(TakeProfit(m), Symbol(m))
           /\ \A l \in DOMAIN IndexedLevels(m) :
                 l \in DOMAIN TakeProfit(m) /\ TakeProfit(m)[l] = IndexedLevels(m)[l]
           /\ RelistedTo(m, Len(m)) => DOMAIN TakeProfit(m) # DOMAIN IndexedLevels(m)
           /\ ~RelistedTo(m, Len(m)) => TakeProfit(m) = IndexedLevels(m)
<1>. DEFINE indexed == IndexedLevels(m)
            acc     == ListedTo(m, indexed)[Len(m)]
<1>0. Len(m) \in 0..Len(m)
  OBVIOUS
<1>1. IsLevels(indexed) /\ AllAllowed(indexed, Symbol(m))
  BY <1>0, IndexedAllowed DEF IndexedLevels
<1>. HIDE DEF indexed
<1>2. ListingAt(m, indexed, Len(m), acc)
  BY <1>0, <1>1, Listing
<1>3. TakeProfit(m) = acc.levels
  BY DEF TakeProfit, ListLevels, indexed
<1>. HIDE DEF acc
<1>4. /\ IsLevels(acc.levels) /\ AllAllowed(acc.levels, Symbol(m))
      /\ \A l \in DOMAIN indexed : l \in DOMAIN acc.levels /\ acc.levels[l] = indexed[l]
      /\ RelistedTo(m, Len(m)) => DOMAIN acc.levels # DOMAIN indexed
      /\ ~RelistedTo(m, Len(m)) => acc.levels = indexed
  BY <1>2, Zenon DEF ListingAt, IsListing
<1>. QED
  BY <1>3, <1>4, Zenon DEF indexed

\* Every price the extractor reads from any message, as the entry, the stop or a
\* take profit, is one the rules allow for its symbol; a price that is not is left
\* out, validatePrice being asked on each of the ways a number can take.
THEOREM PricesAllowed ==
    ASSUME NEW m \in Seq(Token)
    PROVE  LET p == Parse(m)
           IN  /\ p.entry = 0 \/ Allowed(p.entry, p.symbol)
               /\ p.stop = 0 \/ Allowed(p.stop, p.symbol)
               /\ \A l \in DOMAIN p.tp : Allowed(p.tp[l], p.symbol)
<1>. DEFINE p == Parse(m)
<1>1. ASSUME NEW terms
      PROVE  PriceOf(m, terms) = 0 \/ Allowed(PriceOf(m, terms), Symbol(m))
  <2>. DEFINE good == {v \in Value(m, terms) : IsNumber(v) /\ Allowed(v.price, Symbol(m))}
  <2>1. CASE good = {}
    BY <2>1 DEF PriceOf
  <2>2. CASE good # {}
    <3>. DEFINE v == CHOOSE x \in good : TRUE
    <3>1. v \in good
      BY <2>2
    <3>2. PriceOf(m, terms) = v.price
      BY <2>2 DEF PriceOf
    <3>3. Allowed(v.price, Symbol(m))
      BY <3>1
    <3>. HIDE DEF v
    <3>. QED
      BY <3>2, <3>3
  <2>. QED
    BY <2>1, <2>2
<1>2. /\ p.symbol = Symbol(m) /\ p.tp = TakeProfit(m)
      /\ p.entry = PriceOf(m, EntryTerms) /\ p.stop = PriceOf(m, StopTerms)
  BY DEF Parse
<1>3. AllAllowed(TakeProfit(m), Symbol(m))
  BY TakeProfitIs
<1>. HIDE DEF p
<1>. QED
  BY <1>1, <1>2, <1>3, Zenon DEF AllAllowed, p

-----------------------------------------------------------------------------
(* The take profits of a message that quotes its levels.                   *)

\* A level as a record.
LEMMA LevelSetIs ==
    ASSUME NEW f, NEW l, NEW p
    PROVE  [level |-> l, price |-> p] \in LevelSet(f) <=> l \in DOMAIN f /\ f[l] = p
<1>1. ASSUME [level |-> l, price |-> p] \in LevelSet(f)
      PROVE  l \in DOMAIN f /\ f[l] = p
  <2>1. PICK d \in DOMAIN f : [level |-> l, price |-> p] = [level |-> d, price |-> f[d]]
    BY <1>1 DEF LevelSet
  <2>. QED
    BY <2>1
<1>2. ASSUME l \in DOMAIN f, f[l] = p
      PROVE  [level |-> l, price |-> p] \in LevelSet(f)
  BY <1>2 DEF LevelSet
<1>. QED
  BY <1>1, <1>2

\* The price of a quoted level is allowed exactly if it has enough places.
LEMMA QuotedAllowed ==
    ASSUME NEW m \in Seq(Token), WellQuoted(m), NEW x \in Quoted(m)
    PROVE  Allowed(x.price, Symbol(m)) <=> Places(x.price) \in Rules[Symbol(m)].places
<1>1. PICK i \in DOMAIN m :
          QuotedAt(m, i) /\ x = [level |-> Whole(m[i + 1].price), price |-> m[i + 2].price]
  BY DEF Quoted
<1>2. x.price = m[i + 2].price
  BY <1>1
<1>3. IsTerm(m[i], {ProfitTerm})
  BY <1>1 DEF QuotedAt
<1>4. /\ Symbol(m) \in DOMAIN Rules
      /\ m[i + 2].written \in Rules[Symbol(m)].places
      /\ Rules[Symbol(m)].min <= m[i + 2].price /\ m[i + 2].price <= Rules[Symbol(m)].max
  BY <1>3, Zenon DEF WellQuoted
<1>5. Rules[Symbol(m)].places # {}
  BY <1>4, Zenon
<1>. QED
  BY <1>2, <1>4, <1>5, Zenon DEF Allowed

\* The first pattern reads the quoted levels whose price is allowed.
LEMMA IndexedLevelSet ==
    ASSUME NEW m \in Seq(Token), WellQuoted(m)
    PROVE  LevelSet(IndexedLevels(m)) = {x \in Quoted(m) : Allowed(x.price, Symbol(m))}
<1>. DEFINE f    == IndexedLevels(m)
            good == {x \in Quoted(m) : Allowed(x.price, Symbol(m))}
<1>0. Len(m) \in 0..Len(m) /\ DOMAIN m = 1..Len(m)
  OBVIOUS
<1>1. \A l, p : (l \in DOMAIN f /\ f[l] = p) <=> QuotedTo(m, Len(m), l, p)
  BY <1>0, IndexedQuoted DEF IndexedLevels
<1>. HIDE DEF f
<1>2. ASSUME NEW x \in LevelSet(f)
      PROVE  x \in good
  <2>1. PICK l \in DOMAIN f : x = [level |-> l, price |-> f[l]]
    BY DEF LevelSet
  <2>2. QuotedTo(m, Len(m), l, f[l])
    BY <1>1
  <2>3. PICK i \in DOMAIN m : /\ QuotedAt(m, i) /\ l = Whole(m[i + 1].price)
                              /\ f[l] = m[i + 2].price /\ Allowed(f[l], Symbol(m))
    BY <1>0, <2>2, Zenon DEF QuotedTo
  <2>4. x = [level |-> Whole(m[i + 1].price), price |-> m[i + 2].price]
    BY <2>1, <2>3, Zenon
  <2>5. x \in Quoted(m)
    BY <2>3, <2>4, Zenon DEF Quoted
  <2>6. x.price = f[l]
    BY <2>1
  <2>. QED
    BY <2>3, <2>5, <2>6, Zenon
<1>3. ASSUME NEW x \in good
      PROVE  x \in LevelSet(f)
  <2>1. PICK i \in DOMAIN m :
            QuotedAt(m, i) /\ x = [level |-> Whole(m[i + 1].price), price |-> m[i + 2].price]
    BY DEF Quoted
  <2>. DEFINE l == Whole(m[i + 1].price)
              p == m[i + 2].price
  <2>2. Allowed(p, Symbol(m))
    BY <2>1
  <2>3. QuotedTo(m, Len(m), l, p)
    BY <1>0, <2>1, <2>2, Zenon DEF QuotedTo
  <2>4. x = [level |-> l, price |-> p]
    BY <2>1
  <2>. HIDE DEF l, p
  <2>5. l \in DOMAIN f /\ f[l] = p
    BY <1>1, <2>3
  <2>6. [level |-> l, price |-> p] \in LevelSet(f)
    BY <2>5, LevelSetIs
  <2>. QED
    BY <2>4, <2>6
<1>4. LevelSet(f) = good
  <2>. HIDE DEF good
  <2>. QED
    BY <1>2, <1>3
<1>. QED
  BY <1>4 DEF f

\* A message that quotes its levels loses those whose price has too few places
\* without its trailing zeros, and no other; and it gains a level exactly if the
\* list pattern takes one of its numbers.  So it is read as it is quoted but for
\* these two cases: in convertToFloat and countDecimalPlaces, and in the second
\* pattern of extractTakeProfit.
THEOREM QuotedRead ==
    ASSUME NEW m \in Seq(Token), WellQuoted(m)
    PROVE  /\ \A x \in Quoted(m) :
                 x \in LevelSet(TakeProfit(m)) <=> Places(x.price) \in Rules[Symbol(m)].places
           /\ LevelSet(TakeProfit(m)) = Quoted(m) <=> PlacesKept(m) /\ ~Relisted(m)
<1>. DEFINE f  == IndexedLevels(m)
            tp == TakeProfit(m)
            kept(x) == Places(x.price) \in Rules[Symbol(m)].places
<1>1. /\ AllAllowed(tp, Symbol(m))
      /\ \A l \in DOMAIN f : l \in DOMAIN tp /\ tp[l] = f[l]
      /\ Relisted(m) => DOMAIN tp # DOMAIN f
      /\ ~Relisted(m) => tp = f
  BY TakeProfitIs, RelistedIs, Zenon
<1>2. \A x \in Quoted(m) : x \in LevelSet(f) <=> kept(x)
  BY IndexedLevelSet, QuotedAllowed
<1>3. LevelSet(f) \subseteq Quoted(m)
  BY IndexedLevelSet
<1>. HIDE DEF f, tp, kept
<1>4. \A x \in LevelSet(f) : x \in LevelSet(tp)
  BY <1>1, Zenon DEF LevelSet
<1>5. ASSUME NEW x \in Quoted(m), x \in LevelSet(tp)
      PROVE  kept(x)
  <2>1. PICK l \in DOMAIN tp : x = [level |-> l, price |-> tp[l]]
    BY <1>5 DEF LevelSet
  <2>2. x.price = tp[l]
    BY <2>1
  <2>3. Allowed(x.price, Symbol(m))
    BY <1>1, <2>2, Zenon DEF AllAllowed
  <2>. QED
    BY <2>3, QuotedAllowed DEF kept
<1>6. \A x \in Quoted(m) : x \in LevelSet(tp) <=> kept(x)
  BY <1>2, <1>4, <1>5, Zenon
<1>7. ASSUME LevelSet(tp) = Quoted(m)
      PROVE  PlacesKept(m) /\ ~Relisted(m)
  <2>1. \A x \in Quoted(m) : kept(x)
    BY <1>6, <1>7, Zenon
  <2>2. LevelSet(f) = LevelSet(tp)
    BY <1>2, <1>3, <1>7, <2>1
  <2>3. DOMAIN f = DOMAIN tp
    <3>1. \A l \in DOMAIN tp : l \in DOMAIN f
      <4>1. SUFFICES ASSUME NEW l \in DOMAIN tp
                     PROVE  l \in DOMAIN f
        OBVIOUS
      <4>2. [level |-> l, price |-> tp[l]] \in LevelSet(f)
        BY <2>2, LevelSetIs, Zenon
      <4>. QED
        BY <4>2, LevelSetIs, Zenon
    <3>. QED
      BY <1>1, <3>1
  <2>. QED
    BY <1>1, <2>1, <2>3, Zenon DEF PlacesKept, kept
<1>8. ASSUME PlacesKept(m), ~Relisted(m)
      PROVE  LevelSet(tp) = Quoted(m)
  <2>1. \A x \in Quoted(m) : kept(x)
    BY <1>8, Zenon DEF PlacesKept, kept
  <2>2. tp = f
    BY <1>1, <1>8
  <2>. QED
    BY <1>2, <1>3, <2>1, <2>2
<1>. QED
  BY <1>6, <1>7, <1>8, Zenon DEF tp, kept

=============================================================================
