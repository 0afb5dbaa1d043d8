----------------------------- MODULE FiniteIntegers -----------------------------
(***************************************************************************)
(* Facts about sets of integers that the proofs of several components      *)
(* need: that a set of natural numbers has a least element, and that Min   *)
(* and Max of a finite set of integers are what their names say.           *)
(***************************************************************************)
EXTENDS Integers, FiniteSetsExt, FiniteSetTheorems, WellFoundedInduction, TLAPS

\* The least-number principle.
LEMMA LeastElement ==
  ASSUME NEW T \in SUBSET Nat, T /= {}
  PROVE  \E x \in T : \A y \in T : x =< y
<1>1. PICK R : R = OpToRel(<, Nat)
  OBVIOUS
<1>2. IsWellFoundedOn(R, Nat)
  BY <1>1, NatLessThanWellFounded
<1>3. \A y \in Nat, z \in Nat : y < z => <<y, z>> \in R
  BY <1>1 DEF OpToRel
<1>4. PICK x \in T : \A y \in T : ~(<<y, x>> \in R)
  BY <1>2, WFMin
<1>5. \A y \in T : ~(y < x)
  BY <1>3, <1>4
<1> QED
  BY <1>5

\* Induction over the natural numbers, for a set.
LEMMA Induction ==
  ASSUME NEW S, 0 \in S, \A n \in Nat : n \in S => n + 1 \in S
  PROVE  \A n \in Nat : n \in S
<1> SUFFICES ASSUME Nat \ S /= {}
             PROVE  FALSE
  OBVIOUS
<1>1. PICK x \in Nat \ S : \A y \in Nat \ S : x =< y
  BY LeastElement
<1>2. x - 1 \in Nat /\ x - 1 \in S
  BY <1>1
<1> QED
  BY <1>1, <1>2

(***************************************************************************)
(* A value for 0, and a function that gives each next value, have a        *)
(* sequence of values.  The finite ones up to n exist by induction, any    *)
(* two of them agree, and the last values of all of them are the infinite  *)
(* one.                                                                    *)
(***************************************************************************)
Steps(G, D) == \A k \in Nat, x \in D : G[<<k, x>>] \in D

UpTo(g, n, D, first, G) ==
  /\ g \in [0..n -> D] /\ g[0] = first
  /\ \A k \in 0 .. n-1 : g[k+1] = G[<<k, g[k]>>]

LEMMA UpToAgree ==
  ASSUME NEW D, NEW first, NEW G, NEW n \in Nat, NEW m \in Nat, NEW g, NEW h,
         UpTo(g, n, D, first, G), UpTo(h, m, D, first, G)
  PROVE  \A k \in Nat : k =< n /\ k =< m => g[k] = h[k]
<1> DEFINE S == {k \in Nat : k =< n /\ k =< m => g[k] = h[k]}
<1>1. 0 \in S
  BY DEF UpTo
<1>2. ASSUME NEW k \in Nat, k \in S
      PROVE  k + 1 \in S
  <2> SUFFICES ASSUME k + 1 =< n, k + 1 =< m
               PROVE  g[k+1] = h[k+1]
    OBVIOUS
  <2>1. k \in 0 .. n-1 /\ k \in 0 .. m-1
    OBVIOUS
  <2>2. g[k] = h[k]
    BY <1>2, <2>1
  <2>3. g[k+1] = G[<<k, g[k]>>] /\ h[k+1] = G[<<k, h[k]>>]
    BY <2>1 DEF UpTo
  <2> QED
    BY <2>2, <2>3
<1> HIDE DEF S
<1>3. \A k \in Nat : k \in S
  BY <1>1, <1>2, Induction
<1> QED
  BY <1>3 DEF S

LEMMA UpToExists ==
  ASSUME NEW D, NEW first \in D, NEW G, Steps(G, D)
  PROVE  \A n \in Nat : \E g : UpTo(g, n, D, first, G)
<1> DEFINE S == {n \in Nat : \E g : UpTo(g, n, D, first, G)}
<1>1. 0 \in S
  <2>1. UpTo([k \in 0..0 |-> first], 0, D, first, G)
    BY DEF UpTo
  <2> QED
    BY <2>1
<1>2. ASSUME NEW n \in Nat, n \in S
      PROVE  n + 1 \in S
  <2>1. PICK g : UpTo(g, n, D, first, G)
    BY <1>2
  <2>2. PICK next : next = G[<<n, g[n]>>]
    OBVIOUS
  <2>3. g[n] \in D /\ next \in D
    BY <2>1, <2>2 DEF UpTo, Steps
  <2>4. PICK h : h = [k \in 0 .. n+1 |-> IF k = n+1 THEN next ELSE g[k]]
    OBVIOUS
  <2>5. \A k \in 0..n : h[k] = g[k]
    BY <2>4
  <2>6. h[n+1] = next /\ h \in [0 .. n+1 -> D]
    BY <2>1, <2>3, <2>4 DEF UpTo
  <2>7. \A k \in 0..n : h[k+1] = G[<<k, h[k]>>]
    <3> SUFFICES ASSUME NEW k \in 0..n
                 PROVE  h[k+1] = G[<<k, h[k]>>]
      OBVIOUS
    <3>1. CASE k = n
      BY <2>2, <2>5, <2>6, <3>1
    <3>2. CASE k < n
      <4>1. k \in 0 .. n-1 /\ k + 1 \in 0..n
        BY <3>2
      <4> QED
        BY <2>1, <2>5, <4>1 DEF UpTo
    <3> QED
      BY <3>1, <3>2
  <2>8. UpTo(h, n+1, D, first, G)
    BY <2>1, <2>5, <2>6, <2>7 DEF UpTo
  <2> QED
    BY <2>8
<1> HIDE DEF S
<1>3. \A n \in Nat : n \in S
  BY <1>1, <1>2, Induction
<1> QED
  BY <1>3 DEF S

LEMMA Recursion ==
  ASSUME NEW D, NEW first \in D, NEW G, Steps(G, D)
  PROVE  \E f : /\ f \in [Nat -> D] /\ f[0] = first
                /\ \A k \in Nat : f[k+1] = G[<<k, f[k]>>]
<1>1. PICK part : part = [n \in Nat |-> CHOOSE g : UpTo(g, n, D, first, G)]
  OBVIOUS
<1>2. \A n \in Nat : UpTo(part[n], n, D, first, G)
  BY <1>1, UpToExists
<1>3. PICK f : f = [n \in Nat |-> part[n][n]]
  OBVIOUS
<1>4. \A n \in Nat : f[n] = part[n][n]
  BY <1>3
<1>5. \A n \in Nat : part[n][n] \in D
  BY <1>2 DEF UpTo
<1>6. f \in [Nat -> D]
  BY <1>3, <1>5
<1>7. f[0] = first
  BY <1>2, <1>4 DEF UpTo
<1>8. ASSUME NEW k \in Nat
      PROVE  f[k+1] = G[<<k, f[k]>>]
  <2>1. UpTo(part[k], k, D, first, G) /\ UpTo(part[k+1], k+1, D, first, G)
    BY <1>2
  <2>2. PICK g, h : g = part[k] /\ h = part[k+1]
    OBVIOUS
  <2>3. \A i \in Nat : i =< k /\ i =< k+1 => g[i] = h[i]
    <3>1. UpTo(g, k, D, first, G) /\ UpTo(h, k+1, D, first, G)
      BY <2>1, <2>2
    <3>2. k + 1 \in Nat
      OBVIOUS
    <3> QED
      BY <3>1, <3>2, UpToAgree
  <2>4. part[k][k] = part[k+1][k]
    BY <2>2, <2>3
  <2>5. part[k+1][k+1] = G[<<k, part[k+1][k]>>]
    BY <2>1 DEF UpTo
  <2> QED
    BY <1>4, <2>4, <2>5
<1> QED
  BY <1>6, <1>7, <1>8

\* A finite set has an element that is minimal in a strict order: one with the fewest
\* others below it.
LEMMA MinimalElement ==
  ASSUME NEW S, IsFiniteSet(S), S /= {},
         NEW R, \A x \in S : <<x, x>> \notin R,
         \A x \in S, y \in S, z \in S : <<x, y>> \in R /\ <<y, z>> \in R => <<x, z>> \in R
  PROVE  \E x \in S : \A y \in S : <<y, x>> \notin R
<1>1. PICK below : below = [x \in S |-> {y \in S : <<y, x>> \in R}]
  OBVIOUS
<1>2. PICK count : count = [x \in S |-> Cardinality(below[x])]
  OBVIOUS
<1>3. \A x \in S : below[x] \in SUBSET S /\ IsFiniteSet(below[x])
  BY <1>1, FS_Subset
<1>4. \A x \in S : count[x] \in Nat
  BY <1>2, <1>3, FS_CardinalityType
<1>5. \A x \in S, y \in S : <<y, x>> \in R => count[y] < count[x]
  <2> SUFFICES ASSUME NEW x \in S, NEW y \in S, <<y, x>> \in R
               PROVE  count[y] < count[x]
    OBVIOUS
  <2>1. below[y] \in SUBSET below[x] /\ y \in below[x] /\ y \notin below[y]
    BY <1>1
  <2>2. below[y] /= below[x]
    BY <2>1
  <2>3. Cardinality(below[y]) =< Cardinality(below[x])
        /\ Cardinality(below[y]) /= Cardinality(below[x])
    BY <1>3, <2>1, <2>2, FS_Subset
  <2> QED
    BY <1>2, <1>4, <2>3
<1>6. PICK counts : counts = {count[x] : x \in S}
  OBVIOUS
<1>7. counts \in SUBSET Nat /\ counts /= {}
  BY <1>4, <1>6
<1>8. PICK c \in counts : \A d \in counts : c =< d
  BY <1>7, LeastElement
<1>9. PICK x \in S : c = count[x]
  BY <1>6, <1>8
<1>10. \A y \in S : count[x] =< count[y]
  BY <1>6, <1>8, <1>9
<1> QED
  BY <1>4, <1>5, <1>10

LEMMA MaxOfFinite ==
  ASSUME NEW S \in SUBSET Int, IsFiniteSet(S), S /= {}
  PROVE  Max(S) \in S /\ \A y \in S : Max(S) >= y
<1>1. PICK R : R = {p \in Int \X Int : p[1] > p[2]}
  OBVIOUS
<1>2. \A x \in Int, y \in Int : <<x, y>> \in R <=> x > y
  BY <1>1
<1>3. \A x \in S : <<x, x>> \notin R
  BY <1>2
<1>4. \A x \in S, y \in S, z \in S : <<x, y>> \in R /\ <<y, z>> \in R => <<x, z>> \in R
  BY <1>2
<1>5. PICK x \in S : \A y \in S : <<y, x>> \notin R
  BY <1>3, <1>4, MinimalElement
<1>6. ASSUME NEW y \in S
      PROVE  x >= y
  <2>1. x \in Int /\ y \in Int
    OBVIOUS
  <2>2. ~(y > x)
    BY <1>2, <1>5, <2>1
  <2> QED
    BY <2>1, <2>2
<1> QED
  BY <1>6 DEF Max

LEMMA MinOfFinite ==
  ASSUME NEW S \in SUBSET Int, IsFiniteSet(S), S /= {}
  PROVE  Min(S) \in S /\ \A y \in S : Min(S) =< y
<1>1. PICK R : R = {p \in Int \X Int : p[1] < p[2]}
  OBVIOUS
<1>2. \A x \in Int, y \in Int : <<x, y>> \in R <=> x < y
  BY <1>1
<1>3. \A x \in S : <<x, x>> \notin R
  BY <1>2
<1>4. \A x \in S, y \in S, z \in S : <<x, y>> \in R /\ <<y, z>> \in R => <<x, z>> \in R
  BY <1>2
<1>5. PICK x \in S : \A y \in S : <<y, x>> \notin R
  BY <1>3, <1>4, MinimalElement
<1>6. ASSUME NEW y \in S
      PROVE  x =< y
  <2>1. x \in Int /\ y \in Int
    OBVIOUS
  <2>2. ~(y < x)
    BY <1>2, <1>5, <2>1
  <2> QED
    BY <2>1, <2>2
<1> QED
  BY <1>6 DEF Min

\* Max() of a nonempty set of numbers with an upper bound.
LEMMA MaxOfBounded ==
  ASSUME NEW n \in Nat, NEW T \in SUBSET (0..n), T /= {}
  PROVE  Max(T) \in T /\ \A y \in T : Max(T) >= y
<1>1. IsFiniteSet(0..n)
  BY FS_Interval
<1>2. IsFiniteSet(T)
  BY <1>1, FS_Subset
<1>3. T \in SUBSET Int
  OBVIOUS
<1> QED
  BY <1>2, <1>3, MaxOfFinite

\* Min() and Max() of two numbers.
LEMMA MinMaxOfTwo ==
  ASSUME NEW a \in Int, NEW b \in Int
  PROVE  /\ Min({a, b}) = IF a =< b THEN a ELSE b
         /\ Max({a, b}) = IF a =< b THEN b ELSE a
<1>1. {a, b} \in SUBSET Int /\ {a, b} /= {}
  OBVIOUS
<1>2. IsFiniteSet({a, b})
  <2>1. {a, b} = {a} \cup {b}
    OBVIOUS
  <2>2. IsFiniteSet({a})
    BY FS_Singleton
  <2>3. IsFiniteSet({a} \cup {b})
    BY <2>2, FS_AddElement
  <2> QED
    BY <2>1, <2>3
<1>3. /\ Min({a, b}) \in {a, b} /\ \A y \in {a, b} : Min({a, b}) =< y
      /\ Max({a, b}) \in {a, b} /\ \A y \in {a, b} : Max({a, b}) >= y
  BY <1>1, <1>2, MinOfFinite, MaxOfFinite
<1>4. PICK p, q : p = Min({a, b}) /\ q = Max({a, b})
  OBVIOUS
<1> QED
  BY <1>3, <1>4

-------------------------------------------------------------------------------

(***************************************************************************)
(* The sum x of the integers f[1] .. f[n], by way of the sums up to each.  *)
(***************************************************************************)
PartialSums(g, f, n) == /\ g[0] = 0
                        /\ \A k \in 0..n : g[k] \in Int
                        /\ \A k \in 1..n : f[k] \in Int /\ g[k] = g[k-1] + f[k]

SumIs(f, n, x) == \E g : PartialSums(g, f, n) /\ g[n] = x

LEMMA SumOfZeros ==
  ASSUME NEW n \in Nat, NEW f, \A k \in 1..n : f[k] = 0
  PROVE  SumIs(f, n, 0)
<1>1. PICK g : g = [k \in 0..n |-> 0]
  OBVIOUS
<1>2. PartialSums(g, f, n) /\ g[n] = 0
  BY <1>1 DEF PartialSums
<1> QED
  BY <1>2 DEF SumIs

\* One more integer.
LEMMA SumGrows ==
  ASSUME NEW n \in Nat, NEW f, NEW x, SumIs(f, n, x),
         NEW e, \A k \in 1..n : e[k] = f[k], e[n+1] \in Int
  PROVE  SumIs(e, n+1, x + e[n+1]) /\ x \in Int
<1>1. PICK g : PartialSums(g, f, n) /\ g[n] = x
  BY DEF SumIs
<1>2. x \in Int
  BY <1>1 DEF PartialSums
<1>3. PICK h : h = [k \in 0..n+1 |-> IF k = n+1 THEN x + e[n+1] ELSE g[k]]
  OBVIOUS
<1>4. /\ h[0] = 0 /\ h[n+1] = x + e[n+1]
      /\ \A k \in 0..n+1 : h[k] \in Int
  BY <1>1, <1>2, <1>3 DEF PartialSums
<1>5. ASSUME NEW k \in 1..n+1
      PROVE  e[k] \in Int /\ h[k] = h[k-1] + e[k]
  <2>1. CASE k = n+1
    <3>1. k-1 = n /\ h[k-1] = x
      BY <1>1, <1>3, <2>1
    <3> QED
      BY <1>4, <2>1, <3>1
  <2>2. CASE k \in 1..n
    <3>1. h[k] = g[k] /\ h[k-1] = g[k-1] /\ e[k] = f[k]
      BY <1>3, <2>2
    <3> QED
      BY <1>1, <2>2, <3>1 DEF PartialSums
  <2> QED
    BY <2>1, <2>2
<1>6. PartialSums(h, e, n+1)
  BY <1>4, <1>5 DEF PartialSums
<1> QED
  BY <1>2, <1>4, <1>6 DEF SumIs

\* One of the integers becomes larger by one.
LEMMA SumRaised ==
  ASSUME NEW n \in Nat, NEW f, NEW x, SumIs(f, n, x), NEW i \in 1..n,
         NEW e, e[i] = f[i] + 1, \A k \in 1..n : k /= i => e[k] = f[k]
  PROVE  SumIs(e, n, x+1) /\ x \in Int
<1>1. PICK g : PartialSums(g, f, n) /\ g[n] = x
  BY DEF SumIs
<1>2. x \in Int /\ f[i] \in Int
  BY <1>1 DEF PartialSums
<1>3. PICK h : h = [k \in 0..n |-> IF k < i THEN g[k] ELSE g[k] + 1]
  OBVIOUS
<1>4. h[0] = 0 /\ h[n] = x + 1 /\ \A k \in 0..n : h[k] \in Int
  BY <1>1, <1>3 DEF PartialSums
<1>5. ASSUME NEW k \in 1..n
      PROVE  e[k] \in Int /\ h[k] = h[k-1] + e[k]
  <2>1. k-1 \in 0..n /\ g[k] \in Int /\ g[k-1] \in Int /\ f[k] \in Int /\ g[k] = g[k-1] + f[k]
    BY <1>1 DEF PartialSums
  <2>2. CASE k = i
    <3>1. h[k] = g[k] + 1 /\ h[k-1] = g[k-1]
      BY <1>3, <2>1, <2>2
    <3> QED
      BY <2>1, <2>2, <3>1
  <2>3. CASE k < i
    <3>1. h[k] = g[k] /\ h[k-1] = g[k-1] /\ e[k] = f[k]
      BY <1>3, <2>1, <2>3
    <3> QED
      BY <2>1, <3>1
  <2>4. CASE k > i
    <3>1. h[k] = g[k] + 1 /\ h[k-1] = g[k-1] + 1 /\ e[k] = f[k]
      BY <1>3, <2>1, <2>4
    <3> QED
      BY <2>1, <3>1
  <2> QED
    BY <2>2, <2>3, <2>4
<1>6. PartialSums(h, e, n)
  BY <1>4, <1>5 DEF PartialSums
<1> QED
  BY <1>2, <1>4, <1>6 DEF SumIs

\* Larger integers have a larger sum.
LEMMA SumCompare ==
  ASSUME NEW n \in Nat, NEW f, NEW x, SumIs(f, n, x), NEW e, NEW y, SumIs(e, n, y),
         \A k \in 1..n : f[k] =< e[k]
  PROVE  x \in Int /\ y \in Int /\ x =< y
<1>1. PICK g : PartialSums(g, f, n) /\ g[n] = x
  BY DEF SumIs
<1>2. PICK h : PartialSums(h, e, n) /\ h[n] = y
  BY DEF SumIs
<1> DEFINE S == {k \in Nat : k =< n => g[k] =< h[k]}
<1>3. 0 \in S
  BY <1>1, <1>2 DEF PartialSums
<1>4. ASSUME NEW k \in Nat, k \in S
      PROVE  k + 1 \in S
  <2> SUFFICES ASSUME k + 1 =< n
               PROVE  g[k+1] =< h[k+1]
    OBVIOUS
  <2>1. PICK m \in 1..n : m = k + 1 /\ m - 1 = k
    OBVIOUS
  <2>2. g[k] =< h[k] /\ k \in 0..n
    BY <1>4
  <2>3. g[m] = g[k] + f[m] /\ h[m] = h[k] + e[m] /\ f[m] \in Int /\ e[m] \in Int /\ f[m] =< e[m]
    BY <1>1, <1>2, <2>1 DEF PartialSums
  <2>4. g[k] \in Int /\ h[k] \in Int
    BY <1>1, <1>2, <2>2 DEF PartialSums
  <2> QED
    BY <2>1, <2>2, <2>3, <2>4
<1> HIDE DEF S
<1>5. \A k \in Nat : k \in S
  BY <1>3, <1>4, Induction
<1> QED
  BY <1>1, <1>2, <1>5 DEF S, PartialSums

\* The same integers have the same sum, and no other.
LEMMA SumIsOne ==
  ASSUME NEW n \in Nat, NEW f, NEW x, SumIs(f, n, x), NEW e, NEW y, SumIs(e, n, y),
         \A k \in 1..n : f[k] = e[k]
  PROVE  x = y
<1>1. \A k \in 1..n : f[k] \in Int /\ e[k] \in Int
  BY DEF SumIs, PartialSums
<1>2. \A k \in 1..n : f[k] =< e[k] /\ e[k] =< f[k]
  BY <1>1
<1>3. x \in Int /\ y \in Int /\ x =< y
  BY <1>2, SumCompare
<1>4. y =< x
  BY <1>2, SumCompare
<1> QED
  BY <1>3, <1>4
=================================================================================
