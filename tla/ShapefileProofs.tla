---------------------------- MODULE ShapefileProofs ----------------------------
(***************************************************************************)
(* Proofs about the shapefile writer and what the import makes of its      *)
(* files, for every type, any parts, features and fields.                  *)
(***************************************************************************)
EXTENDS ShapefileReader, FiniteIntegers, SequenceTheorems

\* What the sums of the model are.
LEMMA SumFacts ==
  ASSUME NEW s \in Seq(Nat)
  PROVE  /\ SumTo(s, 0) = 0
         /\ \A n \in 0 .. Len(s) : SumTo(s, n) \in Nat
         /\ \A n \in 1 .. Len(s) : SumTo(s, n) = SumTo(s, n-1) + s[n]
<1>1. PICK size : size = Len(s)
  OBVIOUS
<1>2. size \in Nat /\ \A k \in 1..size : s[k] \in Nat
  BY <1>1
<1> DEFINE Sum(f) == f = [k \in 0..Len(s) |-> IF k = 0 THEN 0 ELSE f[k-1] + s[k]]
<1>3. PICK G : G = [p \in Nat \X Nat |-> p[2] + (IF p[1] < size THEN s[p[1]+1] ELSE 0)]
  OBVIOUS
<1>4. \A k \in Nat, x \in Nat : G[<<k, x>>] = x + (IF k < size THEN s[k+1] ELSE 0)
  BY <1>3
<1>5. \A k \in Nat, x \in Nat : x + (IF k < size THEN s[k+1] ELSE 0) \in Nat
  BY <1>2
<1>6. Steps(G, Nat)
  BY <1>4, <1>5 DEF Steps
<1>7. PICK g : g \in [Nat -> Nat] /\ g[0] = 0 /\ \A k \in Nat : g[k+1] = G[<<k, g[k]>>]
  <2>1. PICK D, zero : D = Nat /\ zero = 0
    OBVIOUS
  <2>2. zero \in D /\ Steps(G, D)
    BY <1>6, <2>1
  <2>3. PICK g : g \in [Nat -> D] /\ g[0] = zero /\ \A k \in Nat : g[k+1] = G[<<k, g[k]>>]
    BY SMTT(30), <2>2, Recursion
  <2> QED
    BY <2>1, <2>3
<1>8. \A k \in 1..size : g[k] = g[k-1] + s[k]
  <2> SUFFICES ASSUME NEW k \in 1..size
               PROVE  g[k] = g[k-1] + s[k]
    OBVIOUS
  <2>1. k - 1 \in Nat /\ k - 1 < size /\ g[k-1] \in Nat
    BY <1>2, <1>7
  <2>2. g[(k-1)+1] = G[<<k-1, g[k-1]>>]
    BY <1>7, <2>1
  <2>3. G[<<k-1, g[k-1]>>] = g[k-1] + s[(k-1)+1]
    BY <1>4, <2>1
  <2>4. (k-1)+1 = k
    BY <1>2
  <2> QED
    BY <2>2, <2>3, <2>4
<1>9. PICK f : f = [k \in 0..size |-> g[k]]
  OBVIOUS
<1>10. Sum(f)
  <2>1. \A k \in 0..size : g[k] = IF k = 0 THEN 0 ELSE f[k-1] + s[k]
    BY <1>2, <1>7, <1>8, <1>9
  <2> QED
    BY <1>1, <1>9, <2>1
<1>11. PICK sum : sum = CHOOSE h : Sum(h)
  OBVIOUS
<1>12. Sum(sum)
  BY <1>10, <1>11
<1>13. \A n : SumTo(s, n) = sum[n]
  BY <1>11 DEF SumTo
<1> HIDE DEF Sum
<1>14. sum[0] = 0 /\ \A n \in 1..size : sum[n] = sum[n-1] + s[n]
  <2>1. PICK h : h = [k \in 0..size |-> IF k = 0 THEN 0 ELSE sum[k-1] + s[k]]
    OBVIOUS
  <2>2. sum = h
    BY <1>1, <1>12, <2>1 DEF Sum
  <2>3. \A k \in 0..size : h[k] = IF k = 0 THEN 0 ELSE sum[k-1] + s[k]
    BY <2>1
  <2> QED
    BY <1>2, <2>2, <2>3
<1> DEFINE S == {n \in Nat : n =< size => sum[n] \in Nat}
<1>15. 0 \in S
  BY <1>14
<1>16. \A n \in Nat : n \in S => n + 1 \in S
  BY <1>2, <1>14
<1> HIDE DEF S
<1>17. \A n \in Nat : n \in S
  BY <1>15, <1>16, Induction
<1>18. \A n \in 0..size : sum[n] \in Nat
  BY <1>2, <1>17 DEF S
<1>19. \A n \in 1..size : SumTo(s, n) = SumTo(s, n-1) + s[n]
  BY <1>2, <1>13, <1>14
<1> QED
  BY <1>1, <1>13, <1>14, <1>18, <1>19

-------------------------------------------------------------------------------

(***************************************************************************)
(* What Put() does to the memory: it writes its cells and leaves all       *)
(* others as they were.                                                    *)
(***************************************************************************)
Cell(a, size, k) == a + size * (k - 1)

LEMMA CellIndex ==
  ASSUME NEW a \in Int, NEW size \in {4, 8, 16}, NEW k \in Nat
  PROVE  (Cell(a, size, k) - a) \div size + 1 = k /\ Cell(a, size, k) \in Int
<1>1. CASE size = 4
  BY <1>1 DEF Cell
<1>2. CASE size = 8
  BY <1>2 DEF Cell
<1>3. CASE size = 16
  BY <1>3 DEF Cell
<1> QED
  BY <1>1, <1>2, <1>3

LEMMA PutFacts ==
  ASSUME NEW a \in Int, NEW size \in {4, 8, 16}, NEW n \in Nat,
         NEW mem, NEW vs, DOMAIN vs = 1..n, NEW m, m = Put(mem, a, size, vs)
  PROVE  /\ \A b : b \in DOMAIN m <=> b \in DOMAIN mem \/ \E k \in 1..n : b = Cell(a, size, k)
         /\ \A k \in 1..n : m[Cell(a, size, k)] = vs[k]
         /\ \A b : (\A k \in 1..n : b /= Cell(a, size, k)) => At(m, b) = At(mem, b)
<1>1. PICK C : C = {Cell(a, size, k) : k \in 1..n}
  OBVIOUS
<1>2. m = [b \in C \cup DOMAIN mem |-> IF b \in C THEN vs[(b - a) \div size + 1] ELSE mem[b]]
  BY <1>1 DEF Put, Cell
<1>3. DOMAIN m = C \cup DOMAIN mem
  BY <1>2
<1>4. \A k \in 1..n : m[Cell(a, size, k)] = vs[k]
  <2> SUFFICES ASSUME NEW k \in 1..n
               PROVE  m[Cell(a, size, k)] = vs[k]
    OBVIOUS
  <2>1. PICK b : b = Cell(a, size, k)
    OBVIOUS
  <2>2. b \in C
    BY <1>1, <2>1
  <2>3. (b - a) \div size + 1 = k
    <3>1. k \in Nat
      OBVIOUS
    <3>2. (Cell(a, size, k) - a) \div size + 1 = k
      BY <3>1, CellIndex
    <3> QED
      BY <2>1, <3>2
  <2>4. m[b] = vs[(b - a) \div size + 1]
    BY <1>2, <2>2
  <2> QED
    BY <2>1, <2>3, <2>4
<1>5. \A b \in DOMAIN mem : b \notin C => m[b] = mem[b]
  BY <1>2
<1>6. \A b : b \in C <=> \E k \in 1..n : b = Cell(a, size, k)
  BY <1>1
<1>7. \A b : b \in DOMAIN m <=> b \in DOMAIN mem \/ \E k \in 1..n : b = Cell(a, size, k)
  BY <1>3, <1>6
<1>8. \A b : b \notin C => At(m, b) = At(mem, b)
  BY <1>3, <1>5 DEF At
<1> QED
  BY <1>4, <1>6, <1>7, <1>8

LEMMA PutElsewhere ==
  ASSUME NEW mem, NEW a \in Int, NEW value, NEW m, m = Put(mem, a, 4, <<value>>)
  PROVE  \A b : b /= a => At(m, b) = At(mem, b)
<1>1. PICK one, v : one = 1 /\ v = <<value>>
  OBVIOUS
<1>2. one \in Nat /\ DOMAIN v = 1..one /\ m = Put(mem, a, 4, v)
  BY <1>1
<1>3. \A b : (\A k \in 1..one : b /= Cell(a, 4, k)) => At(m, b) = At(mem, b)
  BY <1>2, PutFacts
<1>4. \A k \in 1..one : Cell(a, 4, k) = a
  BY <1>1 DEF Cell
<1> QED
  BY <1>3, <1>4

\* Cells of numbers between the header of the file and hi.
Cells(mem, hi) == \A b \in DOMAIN mem : b \in HeaderSize .. hi-1 /\ mem[b] \in Int

LEMMA AtInt ==
  ASSUME NEW mem, NEW hi, Cells(mem, hi)
  PROVE  \A b : At(mem, b) \in Int
BY DEF Cells, At

\* A range or a row of values is written inside of the file, and moves no cell before
\* or behind it.
Fits(a, size, n, hi) == a \in HeaderSize .. hi-1 /\ (n > 0 => Cell(a, size, n) < hi)
Values(vs, n)        == DOMAIN vs = 1..n /\ \A k \in 1..n : vs[k] \in Int

LEMMA CellOrder ==
  ASSUME NEW a \in Int, NEW size \in {4, 8, 16}, NEW n \in Nat, NEW k \in 1..n
  PROVE  a =< Cell(a, size, k) /\ Cell(a, size, k) =< Cell(a, size, n)
<1>1. CASE size = 4
  BY <1>1 DEF Cell
<1>2. CASE size = 8
  BY <1>2 DEF Cell
<1>3. CASE size = 16
  BY <1>3 DEF Cell
<1> QED
  BY <1>1, <1>2, <1>3

LEMMA PutInside ==
  ASSUME NEW mem, NEW hi \in Nat, Cells(mem, hi),
         NEW a \in Int, NEW size \in {4, 8, 16}, NEW n \in Nat, Fits(a, size, n, hi),
         NEW vs, Values(vs, n), NEW m, m = Put(mem, a, size, vs)
  PROVE  /\ Cells(m, hi)
         /\ \A b \in Int : b < a \/ b > Cell(a, size, n) => At(m, b) = At(mem, b)
         /\ \A k \in 1..n : At(m, Cell(a, size, k)) = vs[k]
<1>1. /\ \A b : b \in DOMAIN m <=> b \in DOMAIN mem \/ \E k \in 1..n : b = Cell(a, size, k)
      /\ \A k \in 1..n : m[Cell(a, size, k)] = vs[k]
      /\ \A b : (\A k \in 1..n : b /= Cell(a, size, k)) => At(m, b) = At(mem, b)
  <2>1. DOMAIN vs = 1..n
    BY DEF Values
  <2> QED
    BY <2>1, PutFacts
<1>2. \A k \in 1..n : a =< Cell(a, size, k) /\ Cell(a, size, k) =< Cell(a, size, n)
                    /\ Cell(a, size, k) \in Int
  <2> SUFFICES ASSUME NEW k \in 1..n
               PROVE  a =< Cell(a, size, k) /\ Cell(a, size, k) =< Cell(a, size, n)
                      /\ Cell(a, size, k) \in Int
    OBVIOUS
  <2>1. k \in Nat
    OBVIOUS
  <2> QED
    BY <2>1, CellOrder, CellIndex
<1>3. \A b : \A k \in 1..n : b = Cell(a, size, k) => b \in HeaderSize .. hi-1 /\ m[b] \in Int
  <2> SUFFICES ASSUME NEW k \in 1..n
               PROVE  Cell(a, size, k) \in HeaderSize .. hi-1 /\ m[Cell(a, size, k)] \in Int
    OBVIOUS
  <2>1. n > 0 /\ n \in Nat /\ Cell(a, size, n) \in Int
    BY <1>2
  <2>2. Cell(a, size, k) \in HeaderSize .. hi-1
    BY <1>2, <2>1 DEF Fits, HeaderSize
  <2>3. m[Cell(a, size, k)] \in Int
    BY <1>1 DEF Values
  <2> QED
    BY <2>2, <2>3
<1>4. Cells(m, hi)
  <2> SUFFICES ASSUME NEW b \in DOMAIN m
               PROVE  b \in HeaderSize .. hi-1 /\ m[b] \in Int
    BY DEF Cells
  <2>1. CASE \E k \in 1..n : b = Cell(a, size, k)
    BY <1>3, <2>1
  <2>2. CASE \A k \in 1..n : b /= Cell(a, size, k)
    <3>1. b \in DOMAIN mem /\ At(m, b) = At(mem, b)
      BY <1>1, <2>2
    <3> QED
      BY <3>1 DEF Cells, At
  <2> QED
    BY <2>1, <2>2
<1>5. \A b \in Int : b < a \/ b > Cell(a, size, n) => At(m, b) = At(mem, b)
  <2> SUFFICES ASSUME NEW b \in Int, b < a \/ b > Cell(a, size, n)
               PROVE  \A k \in 1..n : b /= Cell(a, size, k)
    BY <1>1
  <2> SUFFICES ASSUME NEW k \in 1..n
               PROVE  b /= Cell(a, size, k)
    OBVIOUS
  <2>1. n \in 1..n
    OBVIOUS
  <2> QED
    BY <1>2, <2>1
<1>6. \A k \in 1..n : At(m, Cell(a, size, k)) = vs[k]
  BY <1>1 DEF At
<1> QED
  BY <1>4, <1>5, <1>6

-------------------------------------------------------------------------------

\* The values of a part form a finite set.
LEMMA RangeFinite ==
  ASSUME NEW n \in Nat, NEW vs, Values(vs, n)
  PROVE  IsFiniteSet(Range(vs)) /\ Range(vs) \in SUBSET Int
<1>1. Range(vs) = {vs[k] : k \in 1..n}
  BY DEF Range, Values
<1>2. IsFiniteSet(1..n)
  BY FS_Interval
<1>3. PICK f : f = [k \in 1..n |-> vs[k]]
  OBVIOUS
<1>4. f \in Surjection(1..n, Range(vs))
  BY <1>1, <1>3 DEF Surjection
<1>5. IsFiniteSet(Range(vs))
  BY <1>2, <1>4, FS_Surjection
<1> QED
  BY <1>1, <1>5 DEF Values

\* Widen() gives the smallest range around the old one and the new values.
LEMMA WidenFacts ==
  ASSUME NEW r, r[1] \in Int, r[2] \in Int, NEW S \in SUBSET Int, IsFiniteSet(S),
         NEW w, w = Widen(r, S)
  PROVE  /\ w = <<w[1], w[2]>> /\ w[1] \in Int /\ w[2] \in Int
         /\ w[1] \in {r[1]} \cup S /\ \A x \in {r[1]} \cup S : w[1] =< x
         /\ w[2] \in {r[2]} \cup S /\ \A x \in {r[2]} \cup S : x =< w[2]
<1>1. PICK L, H : L = {r[1]} \cup S /\ H = {r[2]} \cup S
  OBVIOUS
<1>2. w[1] = Min(L) /\ w[2] = Max(H) /\ w = <<w[1], w[2]>>
  BY <1>1 DEF Widen
<1>3. /\ L \in SUBSET Int /\ IsFiniteSet(L) /\ L /= {}
      /\ H \in SUBSET Int /\ IsFiniteSet(H) /\ H /= {}
  <2>1. IsFiniteSet({r[1]}) /\ IsFiniteSet({r[2]})
    BY FS_Singleton
  <2> QED
    BY <1>1, <2>1, FS_Union
<1>4. Min(L) \in L /\ \A x \in L : Min(L) =< x
  BY <1>3, MinOfFinite
<1>5. Max(H) \in H /\ \A x \in H : x =< Max(H)
  <2>1. Max(H) \in H /\ \A x \in H : Max(H) >= x
    BY <1>3, MaxOfFinite
  <2> QED
    BY <1>3, <2>1
<1> QED
  BY <1>1, <1>2, <1>3, <1>4, <1>5

-------------------------------------------------------------------------------

\* Vertices, and their four columns.
Vertices(vs, n) ==
  DOMAIN vs = 1..n /\ Len(vs) = n /\ \A i \in 1..n : vs[i] \in Int \X Int \X Int \X Int

LEMMA ColumnValues ==
  ASSUME NEW n \in Nat, NEW vs, Vertices(vs, n), NEW k \in 1..4
  PROVE  Values(Column(vs, k), n)
BY DEF Vertices, Values, Column

LEMMA NoDataValues ==
  ASSUME NEW n \in Nat, NEW vs, Vertices(vs, n)
  PROVE  Values([i \in DOMAIN vs |-> NoData], n)
BY DEF Vertices, Values, NoData

\* The points of n vertices at a, one after the other.
LEMMA PointsInside ==
  ASSUME NEW mem, NEW hi \in Nat, Cells(mem, hi),
         NEW a \in Int, a >= HeaderSize, NEW n \in Nat \ {0}, a + 16 * n =< hi,
         NEW vs, Vertices(vs, n),
         NEW m, m = Put(Put(mem, a, 16, Column(vs, 1)), a + 8, 16, Column(vs, 2))
  PROVE  Cells(m, hi) /\ \A b \in Int : b < a => At(m, b) = At(mem, b)
<1>1. PICK x : x = Put(mem, a, 16, Column(vs, 1))
  OBVIOUS
<1>2. Values(Column(vs, 1), n) /\ Values(Column(vs, 2), n)
  BY ColumnValues
<1>3. Fits(a, 16, n, hi) /\ Fits(a + 8, 16, n, hi)
  BY DEF Fits, Cell, HeaderSize
<1>4. Cells(x, hi) /\ \A b \in Int : b < a => At(x, b) = At(mem, b)
  BY <1>1, <1>2, <1>3, PutInside
<1>5. m = Put(x, a + 8, 16, Column(vs, 2)) /\ a + 8 \in Int
  BY <1>1
<1>6. Cells(m, hi) /\ \A b \in Int : b < a + 8 => At(m, b) = At(x, b)
  BY <1>2, <1>3, <1>4, <1>5, PutInside
<1> QED
  BY <1>4, <1>6

\* A block of Z or M values at a: a range, and room for the values behind the old ones.
LEMMA BlockInside ==
  ASSUME NEW mem, NEW hi \in Nat, Cells(mem, hi),
         NEW a \in Int, a >= HeaderSize, NEW old \in Nat, NEW n \in Nat \ {0},
         a + 16 + 8 * (old + n) =< hi,
         NEW vs, Values(vs, n), NEW m, m = PutBlock(mem, a, old, vs)
  PROVE  /\ Cells(m, hi)
         /\ \A b \in Int : b < a => At(m, b) = At(mem, b)
         /\ \A x \in Range(vs) : At(m, a) =< x /\ x =< At(m, a + 8)
<1>1. PICK before : before = IF old > 0 THEN <<At(mem, a), At(mem, a + 8)>> ELSE NoRange
  OBVIOUS
<1>2. PICK w : w = Widen(before, Range(vs))
  OBVIOUS
<1>3. PICK x, c : x = Put(mem, a, 8, w) /\ c = a + 16 + 8 * old
  OBVIOUS
<1>4. m = Put(x, c, 8, vs) /\ c \in Int
  BY <1>1, <1>2, <1>3 DEF PutBlock
<1>5. before[1] \in Int /\ before[2] \in Int
  BY <1>1, AtInt DEF NoRange, Huge
<1>6. IsFiniteSet(Range(vs)) /\ Range(vs) \in SUBSET Int
  BY RangeFinite
<1>7. /\ w = <<w[1], w[2]>> /\ w[1] \in Int /\ w[2] \in Int
      /\ \A v \in Range(vs) : w[1] =< v /\ v =< w[2]
  BY <1>2, <1>5, <1>6, WidenFacts
<1>8. Values(w, 2)
  BY <1>7 DEF Values
<1>9. Fits(a, 8, 2, hi) /\ Fits(c, 8, n, hi)
  BY <1>3 DEF Fits, Cell, HeaderSize
<1>10. /\ Cells(x, hi)
       /\ \A b \in Int : b < a => At(x, b) = At(mem, b)
       /\ \A k \in 1..2 : At(x, Cell(a, 8, k)) = w[k]
  BY <1>3, <1>8, <1>9, PutInside
<1>11. Cells(m, hi) /\ \A b \in Int : b < c => At(m, b) = At(x, b)
  BY <1>4, <1>9, <1>10, PutInside
<1>12. At(m, a) = w[1] /\ At(m, a + 8) = w[2]
  <2>1. At(x, Cell(a, 8, 1)) = w[1] /\ At(x, Cell(a, 8, 2)) = w[2]
    BY <1>10
  <2>2. Cell(a, 8, 1) = a /\ Cell(a, 8, 2) = a + 8
    BY DEF Cell
  <2>3. a < c /\ a + 8 < c
    BY <1>3
  <2> QED
    BY <1>11, <2>1, <2>2, <2>3
<1>13. \A b \in Int : b < a => At(m, b) = At(mem, b)
  BY <1>3, <1>10, <1>11
<1> QED
  BY <1>7, <1>11, <1>12, <1>13

-------------------------------------------------------------------------------

\* The structure of a record: the order of what is in it, the length of it in words,
\* and that it has room for twice the points it was announced with.
LEMMA Layout ==
  ASSUME type \in ShpType \ PointTypes, NEW points \in Nat \ {0}, points =< 2 * feat.numPoints,
         feat.rec \in Nat, feat.numParts \in Nat, feat.numPoints \in Nat,
         NEW c, c = Content, NEW n, n = feat.numParts, NEW np, np = feat.numPoints,
         NEW xy, xy = PointsAt(type, c, n), NEW z, z = ZBlockAt(type, c, n, np),
         NEW mb, mb = MBlockAt(type, c, n, np), NEW at, at = NumPointsAt(type, c)
  PROVE  /\ c = feat.rec + 8
         /\ c + 36 =< at /\ at =< c + 40 /\ at + 4 =< xy
         /\ type \notin MultiPointTypes => at = c + 40 /\ PartsAt(c) = c + 44 /\ xy >= c + 44 + 4 * n
         /\ type = MultiPatch => PatchTypesAt(c, n) = c + 44 + 4 * n /\ xy = c + 44 + 8 * n
         /\ xy \in Int /\ z \in Int /\ mb \in Int /\ at \in Int /\ xy < z /\ z =< mb
         /\ HasZ(type) => z + 16 < mb
         /\ xy + 16 * points =< End(points)
         /\ HasZ(type) => z + 16 + 8 * points =< End(points)
         /\ HasM(type) => mb + 16 + 8 * points =< End(points)
         /\ End(points) \in Nat
<1>1. c = feat.rec + 8 /\ c \in Nat /\ n \in Nat /\ np \in Nat
  BY DEF Content, RecordSize
<1>2. at = IF type \in MultiPointTypes THEN c + 36 ELSE c + 40
  BY DEF NumPointsAt
<1>3. xy = IF type \in MultiPointTypes THEN c + 40
           ELSE IF type = MultiPatch THEN c + 44 + 8 * n ELSE c + 44 + 4 * n
  BY <1>1 DEF PointsAt, PartsAt
<1>4. z = xy + 16 * np
  BY DEF ZBlockAt
<1>5. mb = IF HasZ(type) THEN z + 16 + 8 * np ELSE z
  BY <1>1, <1>3, <1>4 DEF MBlockAt
<1>6. End(points) = IF HasM(type) THEN mb + 16 + 8 * points ELSE xy + 16 * points
  BY DEF End
<1>7. np >= 1
  BY <1>1
<1>8. xy \in Nat /\ z \in Nat /\ mb \in Nat
  BY <1>1, <1>3, <1>4, <1>5
<1>9. HasZ(type) => HasM(type)
  BY DEF HasM
<1>10. type = MultiPatch => type \notin MultiPointTypes
  BY DEF MultiPatch, MultiPointTypes
<1>11. End(points) \in Nat
  BY <1>6, <1>8
<1> QED
  BY <1>1, <1>2, <1>3, <1>4, <1>5, <1>6, <1>7, <1>8, <1>9, <1>10, <1>11 DEF PartsAt, PatchTypesAt


\* s is a range of numbers with all of S in it.
Covers(s, S) == s[1] \in Int /\ s[2] \in Int /\ \A x \in S : s[1] =< x /\ x =< s[2]

\* The box of a record with new vertices is the smallest one around both.
LEMMA BoxValues ==
  ASSUME NEW k \in 1..4, NEW n \in Nat, NEW vs, Vertices(vs, n), NEW hi, Cells(shp, hi),
         NEW w, w = BoxWith(k, vs)
  PROVE  w = <<w[1], w[2]>> /\ w[1] \in Int /\ w[2] \in Int
<1>1. PICK r : r = IF NumPoints > 0
                   THEN <<At(shp, Content + 4 + 8*(k-1)), At(shp, Content + 4 + 8*(k+1))>>
                   ELSE NoRange
  OBVIOUS
<1>2. r[1] \in Int /\ r[2] \in Int
  BY <1>1, AtInt DEF NoRange, Huge
<1>3. PICK S : S = Range(Column(vs, k))
  OBVIOUS
<1>4. IsFiniteSet(S) /\ S \in SUBSET Int
  BY <1>3, ColumnValues, RangeFinite
<1>5. w = Widen(r, S)
  BY <1>1, <1>3 DEF BoxWith
<1> QED
  BY <1>2, <1>4, <1>5, WidenFacts

\* The end of the file, and the memory, with n vertices vs more of the part p.
NewEnd(n)            == End(NumPoints + n)
PutAll(p, vs, mem)   == PutM(p, vs, PutZ(p, vs, PutPoints(vs, mem)))
PutRecord(p, vs, n, mem) ==
  Put(Put(PutAll(p, vs, mem), Content, 4, <<type>>),
      feat.rec + 4, 4, <<ContentLength(NewEnd(n))>>)

\* There is room for n vertices more.
RoomFor(n) ==
  /\ type \in ShpType \ PointTypes
  /\ feat.rec \in Nat /\ feat.rec >= HeaderSize
  /\ feat.numParts \in Nat /\ feat.numPoints \in Nat
  /\ NumPoints \in Nat /\ NumPoints + n =< 2 * feat.numPoints
  /\ Cells(shp, NewEnd(n))

\* new is mem with them: the record is closed, nothing in front of its content is
\* touched but its length, the counter of points is the only one that moves, and the
\* ranges of the record have the new values in them.
RecordHas(p, vs, n, mem, new) ==
  /\ Cells(new, NewEnd(n)) /\ At(new, feat.rec + 4) = ContentLength(NewEnd(n))
  /\ At(new, NumPointsAt(type, Content)) = NumPoints + n
  /\ \A b \in Int : b < feat.rec + 4 => At(new, b) = At(mem, b)
  /\ type \notin MultiPointTypes => At(new, NumPartsAt(Content)) = At(mem, NumPartsAt(Content))
  /\ At(new, Content + 4)  = BoxWith(1, vs)[1]
  /\ At(new, Content + 12) = BoxWith(2, vs)[1]
  /\ At(new, Content + 20) = BoxWith(1, vs)[2]
  /\ At(new, Content + 28) = BoxWith(2, vs)[2]

RangesHave(p, vs, put) ==
  /\ HasZ(type) => Covers(<<At(put, ZAt), At(put, ZAt + 8)>>, Range(ColumnOr(p.hasZ, vs, 3)))
  /\ HasM(type) => Covers(<<At(put, MAt), At(put, MAt + 8)>>, Range(ColumnOr(p.hasM, vs, 4)))

LEMMA RecordWritten ==
  ASSUME NEW p, NEW n \in Nat \ {0}, RoomFor(n), NEW vs, Vertices(vs, n),
         NEW mem, Cells(mem, NewEnd(n))
  PROVE  /\ NewEnd(n) \in Nat /\ NewEnd(n) >= feat.rec + 48
         /\ RecordHas(p, vs, n, mem, PutRecord(p, vs, n, mem))
         /\ RangesHave(p, vs, PutAll(p, vs, mem))
<1>1. PICK rec \in Nat, old \in Nat, hi \in Nat, c \in Int, at \in Int, xy \in Int, z \in Int,
           mb \in Int :
        /\ rec = feat.rec /\ old = NumPoints /\ hi = NewEnd(n)
        /\ c = Content /\ at = NumPointsAt(type, c) /\ xy = PointsAt(type, c, feat.numParts)
        /\ z = ZAt /\ mb = MAt
        /\ rec >= 100 /\ c = rec + 8 /\ c + 36 =< at /\ at =< c + 40 /\ at + 4 =< xy
        /\ type \notin MultiPointTypes => at = c + 40
        /\ xy < z /\ z =< mb
        /\ HasZ(type) => z + 16 < mb
        /\ xy + 16 * (old + n) =< hi
        /\ HasZ(type) => z + 16 + 8 * (old + n) =< hi
        /\ HasM(type) => mb + 16 + 8 * (old + n) =< hi
  <2>1. PICK c, at, xy, z, mb :
          /\ c = Content /\ at = NumPointsAt(type, c) /\ xy = PointsAt(type, c, feat.numParts)
          /\ z = ZBlockAt(type, c, feat.numParts, feat.numPoints)
          /\ mb = MBlockAt(type, c, feat.numParts, feat.numPoints)
    OBVIOUS
  <2>2. z = ZAt /\ mb = MAt
    BY <2>1 DEF ZAt, MAt
  <2>3. PICK rec, old, total : rec = feat.rec /\ old = NumPoints /\ total = old + n
    OBVIOUS
  <2>4. /\ rec \in Nat /\ rec >= 100 /\ old \in Nat /\ feat.numParts \in Nat
        /\ feat.numPoints \in Nat /\ type \in ShpType \ PointTypes /\ feat.rec \in Nat
    BY <2>3 DEF RoomFor, HeaderSize
  <2>5. total \in Nat \ {0} /\ total =< 2 * feat.numPoints
    BY <2>3, <2>4 DEF RoomFor
  <2>6. /\ c + 36 =< at /\ at =< c + 40 /\ at + 4 =< xy
        /\ type \notin MultiPointTypes => at = c + 40
        /\ xy \in Int /\ z \in Int /\ mb \in Int /\ at \in Int /\ xy < z /\ z =< mb
        /\ HasZ(type) => z + 16 < mb
        /\ xy + 16 * total =< End(total)
        /\ HasZ(type) => z + 16 + 8 * total =< End(total)
        /\ HasM(type) => mb + 16 + 8 * total =< End(total)
        /\ End(total) \in Nat
    BY <2>1, <2>4, <2>5, Layout
  <2>7. c = rec + 8 /\ c \in Int
    BY <2>1, <2>3, <2>4 DEF Content, RecordSize
  <2>8. PICK hi \in Nat : hi = NewEnd(n) /\ hi = End(total)
    BY <2>3, <2>6 DEF NewEnd
  <2>9. /\ xy + 16 * (old + n) =< hi
        /\ HasZ(type) => z + 16 + 8 * (old + n) =< hi
        /\ HasM(type) => mb + 16 + 8 * (old + n) =< hi
    BY <2>3, <2>6, <2>8
  <2>10. rec \in Nat /\ old \in Nat /\ c \in Int /\ at \in Int /\ xy \in Int /\ z \in Int /\ mb \in Int
    BY <2>4, <2>6, <2>7
  <2>11. /\ rec = feat.rec /\ old = NumPoints /\ hi = NewEnd(n)
         /\ c = Content /\ at = NumPointsAt(type, c) /\ xy = PointsAt(type, c, feat.numParts)
         /\ z = ZAt /\ mb = MAt
    BY <2>1, <2>2, <2>3, <2>8
  <2>12. /\ rec >= 100 /\ c = rec + 8 /\ c + 36 =< at /\ at =< c + 40 /\ at + 4 =< xy
         /\ type \notin MultiPointTypes => at = c + 40
         /\ xy < z /\ z =< mb
         /\ HasZ(type) => z + 16 < mb
    BY <2>4, <2>6, <2>7
  <2> QED
    BY <2>8, <2>9, <2>10, <2>11, <2>12, ZenonT(60)
<1>2. PICK points \in Int : points = xy + 16 * old
  OBVIOUS
<1>3. /\ rec >= 100 /\ c = rec + 8 /\ c + 36 =< at /\ at =< c + 40 /\ at + 4 =< xy
      /\ type \notin MultiPointTypes => at = c + 40
      /\ xy < z /\ z =< mb
      /\ HasZ(type) => z + 16 < mb
      /\ xy + 16 * (old + n) =< hi
      /\ HasZ(type) => z + 16 + 8 * (old + n) =< hi
      /\ HasM(type) => mb + 16 + 8 * (old + n) =< hi
  BY <1>1, Zenon
<1>4. c >= 108
  BY <1>3
<1>5. Cells(mem, hi) /\ Cells(shp, hi)
  BY <1>1 DEF RoomFor
<1>6. PICK bx, by, box : /\ bx = BoxWith(1, vs) /\ by = BoxWith(2, vs)
                         /\ box = <<bx[1], by[1], bx[2], by[2]>>
  OBVIOUS
<1>7. PICK zs, ms : zs = ColumnOr(p.hasZ, vs, 3) /\ ms = ColumnOr(p.hasM, vs, 4)
  OBVIOUS
<1>8. PICK m1, m2, m3, m4, m5, m6 :
        /\ m1 = Put(Put(mem, points, 16, Column(vs, 1)), points + 8, 16, Column(vs, 2))
        /\ m2 = Put(m1, c + 4, 8, box)
        /\ m3 = Put(m2, at, 4, <<old + n>>)
        /\ m4 = IF HasZ(type) THEN PutBlock(m3, z, old, zs) ELSE m3
        /\ m5 = IF HasM(type) THEN PutBlock(m4, mb, old, ms) ELSE m4
        /\ m6 = Put(m5, c, 4, <<type>>)
  OBVIOUS
<1>9. m3 = PutPoints(vs, mem)
  BY <1>1, <1>2, <1>6, <1>8 DEF PutPoints, Vertices
<1>10. m4 = PutZ(p, vs, m3) /\ m5 = PutM(p, vs, m4)
  BY <1>1, <1>7, <1>8 DEF PutZ, PutM
<1>11. Values(box, 4)
  BY <1>5, <1>6, BoxValues DEF Values
<1>12. Values(zs, n) /\ Values(ms, n)
  <2>1. Values(Column(vs, 3), n) /\ Values(Column(vs, 4), n)
    BY ColumnValues
  <2>2. Values([i \in DOMAIN vs |-> NoData], n)
    BY NoDataValues
  <2> QED
    BY <1>7, <2>1, <2>2 DEF ColumnOr
<1>13. PICK length : length = ContentLength(NewEnd(n))
  OBVIOUS
<1>14. type \in Int /\ length \in Int
  <2>1. type \in Int
    BY DEF RoomFor, ShpType, PointTypes, MultiPointTypes, PolylineTypes, PolygonTypes, MultiPatch
  <2>2. length \in Int
    BY <1>1, <1>13 DEF ContentLength
  <2> QED
    BY <2>1, <2>2
<1>15. points \in Int /\ points >= xy /\ points + 16 * n =< hi
  BY <1>2, <1>3
<1>16. Cells(m1, hi) /\ \A b \in Int : b < xy => At(m1, b) = At(mem, b)
  <2>1. points >= HeaderSize
    BY <1>3, <1>4, <1>15 DEF HeaderSize
  <2>2. Cells(m1, hi) /\ \A b \in Int : b < points => At(m1, b) = At(mem, b)
    BY <1>1, <1>8, <1>15, <2>1, PointsInside
  <2> QED
    BY <1>15, <2>2
<1>17. /\ Cells(m2, hi) /\ \A b \in Int : b < c + 4 \/ b > c + 28 => At(m2, b) = At(m1, b)
       /\ \A k \in 1..4 : At(m2, Cell(c + 4, 8, k)) = box[k]
  <2>1. Fits(c + 4, 8, 4, hi) /\ Cell(c + 4, 8, 4) = c + 28
    BY <1>3, <1>4, <1>15 DEF Fits, Cell, HeaderSize
  <2> QED
    BY <1>3, <1>4, <1>8, <1>11, <1>16, <2>1, PutInside
<1>18. /\ Cells(m3, hi) /\ At(m3, at) = old + n
       /\ \A b \in Int : b < at \/ b > at => At(m3, b) = At(m2, b)
  <2>1. PICK v : v = <<old + n>>
    OBVIOUS
  <2>2. Values(v, 1) /\ v[1] = old + n
    BY <2>1 DEF Values
  <2>3. Fits(at, 4, 1, hi) /\ Cell(at, 4, 1) = at
    BY <1>3, <1>4, <1>15 DEF Fits, Cell, HeaderSize
  <2>4. m3 = Put(m2, at, 4, v)
    BY <1>8, <2>1
  <2>5. /\ Cells(m3, hi)
        /\ \A b \in Int : b < at \/ b > Cell(at, 4, 1) => At(m3, b) = At(m2, b)
        /\ \A k \in 1..1 : At(m3, Cell(at, 4, k)) = v[k]
    BY <1>3, <1>17, <2>2, <2>3, <2>4, PutInside
  <2>6. At(m3, Cell(at, 4, 1)) = v[1]
    BY <2>5
  <2> QED
    BY <2>2, <2>3, <2>5, <2>6
<1>19. /\ Cells(m4, hi) /\ \A b \in Int : b < xy => At(m4, b) = At(m3, b)
       /\ HasZ(type) => \A x \in Range(zs) : At(m4, z) =< x /\ x =< At(m4, z + 8)
  <2>1. CASE HasZ(type)
    <3>1. m4 = PutBlock(m3, z, old, zs) /\ z >= HeaderSize /\ z + 16 + 8 * (old + n) =< hi
      BY <1>3, <1>4, <1>8, <2>1 DEF HeaderSize
    <3>2. Cells(m4, hi) /\ \A b \in Int : b < z => At(m4, b) = At(m3, b)
      BY <1>3, <1>12, <1>18, <3>1, BlockInside
    <3>3. \A x \in Range(zs) : At(m4, z) =< x /\ x =< At(m4, z + 8)
      BY <1>3, <1>12, <1>18, <3>1, BlockInside
    <3> QED
      BY <1>3, <1>4, <2>1, <3>2, <3>3
  <2>2. CASE ~HasZ(type)
    BY <1>8, <1>18, <2>2
  <2> QED
    BY <2>1, <2>2
<1>20. /\ Cells(m5, hi) /\ \A b \in Int : b < mb => At(m5, b) = At(m4, b)
       /\ HasM(type) => \A x \in Range(ms) : At(m5, mb) =< x /\ x =< At(m5, mb + 8)
  <2>1. CASE HasM(type)
    <3>1. m5 = PutBlock(m4, mb, old, ms) /\ mb >= HeaderSize /\ mb + 16 + 8 * (old + n) =< hi
      BY <1>3, <1>4, <1>8, <2>1 DEF HeaderSize
    <3>2. Cells(m5, hi) /\ \A b \in Int : b < mb => At(m5, b) = At(m4, b)
      BY <1>3, <1>12, <1>19, <3>1, BlockInside
    <3>3. \A x \in Range(ms) : At(m5, mb) =< x /\ x =< At(m5, mb + 8)
      BY <1>3, <1>12, <1>19, <3>1, BlockInside
    <3> QED
      BY <1>3, <1>4, <2>1, <3>2, <3>3
  <2>2. CASE ~HasM(type)
    BY <1>8, <1>19, <2>2
  <2> QED
    BY <2>1, <2>2
<1>21. Cells(m6, hi) /\ \A b \in Int : b < c \/ b > c => At(m6, b) = At(m5, b)
  <2>1. PICK v : v = <<type>>
    OBVIOUS
  <2>2. Values(v, 1)
    BY <1>14, <2>1 DEF Values
  <2>3. Fits(c, 4, 1, hi) /\ Cell(c, 4, 1) = c
    BY <1>3, <1>4, <1>15 DEF Fits, Cell, HeaderSize
  <2>4. m6 = Put(m5, c, 4, v)
    BY <1>8, <2>1
  <2>5. Cells(m5, hi)
    BY <1>20
  <2> QED
    BY <1>3, <1>4, <2>2, <2>3, <2>4, <2>5, PutInside
<1>22. PICK r, w : r = c - 4 /\ w = PutRecord(p, vs, n, mem)
  OBVIOUS
<1>23. PutAll(p, vs, mem) = m5
  BY <1>9, <1>10 DEF PutAll
<1>24. w = Put(m6, r, 4, <<length>>)
  <2>1. r = feat.rec + 4
    BY <1>1, <1>22
  <2> QED
    BY <1>1, <1>8, <1>13, <1>22, <1>23, <2>1 DEF PutRecord
<1>25. /\ Cells(w, hi) /\ At(w, r) = length
       /\ \A b \in Int : b < r \/ b > r => At(w, b) = At(m6, b)
  <2>1. PICK v : v = <<length>>
    OBVIOUS
  <2>2. Values(v, 1) /\ v[1] = length
    BY <1>14, <2>1 DEF Values
  <2>3. Fits(r, 4, 1, hi) /\ Cell(r, 4, 1) = r
    BY <1>3, <1>4, <1>15, <1>22 DEF Fits, Cell, HeaderSize
  <2>4. w = Put(m6, r, 4, v) /\ r \in Int
    BY <1>3, <1>22, <1>24, <2>1
  <2>5. /\ Cells(w, hi)
        /\ \A b \in Int : b < r \/ b > Cell(r, 4, 1) => At(w, b) = At(m6, b)
        /\ \A k \in 1..1 : At(w, Cell(r, 4, k)) = v[k]
    BY <1>3, <1>21, <2>2, <2>3, <2>4, PutInside
  <2>6. At(w, Cell(r, 4, 1)) = v[1]
    BY <2>5
  <2> QED
    BY <2>2, <2>3, <2>5, <2>6
<1>26. \A b \in Int : b < r => At(w, b) = At(mem, b)
  <2> SUFFICES ASSUME NEW b \in Int, b < r
               PROVE  At(w, b) = At(mem, b)
    OBVIOUS
  <2>1. b < c /\ b < at /\ b < xy /\ b < c + 4 /\ b < mb
    BY <1>3, <1>4, <1>22
  <2> QED
    BY <1>16, <1>17, <1>18, <1>19, <1>20, <1>21, <1>25, <2>1
<1>27. At(w, at) = old + n
  <2>1. at > r /\ at > c /\ at < xy /\ at < mb
    BY <1>3, <1>4, <1>22
  <2> QED
    BY <1>18, <1>19, <1>20, <1>21, <1>25, <2>1
<1>28. ASSUME at = c + 40
       PROVE  At(w, c + 36) = At(mem, c + 36)
  <2>1. PICK b \in Int : b = c + 36
    OBVIOUS
  <2>2. b > r /\ b > c /\ b > c + 28 /\ b < at /\ b < xy /\ b < mb
    BY <1>3, <1>4, <1>22, <1>28, <2>1
  <2> QED
    BY <1>16, <1>17, <1>18, <1>19, <1>20, <1>21, <1>25, <2>1, <2>2
<1>29. \A k \in 1..4 : At(w, Cell(c + 4, 8, k)) = box[k]
  <2> SUFFICES ASSUME NEW k \in 1..4
               PROVE  At(w, Cell(c + 4, 8, k)) = box[k]
    OBVIOUS
  <2>1. PICK b \in Int : b = Cell(c + 4, 8, k) /\ b > c /\ b < at /\ b < xy
    BY <1>3, <1>4 DEF Cell
  <2>2. At(m2, b) = box[k]
    BY <1>17, <2>1
  <2>3. b > r /\ b < mb
    BY <1>3, <1>4, <1>22, <2>1
  <2>4. At(w, b) = At(m2, b)
    BY <1>18, <1>19, <1>20, <1>21, <1>25, <2>1, <2>3
  <2> QED
    BY <2>1, <2>2, <2>4
<1>30. ASSUME HasZ(type)
       PROVE  /\ At(m5, z) \in Int /\ At(m5, z + 8) \in Int
              /\ \A x \in Range(zs) : At(m5, z) =< x /\ x =< At(m5, z + 8)
  <2>1. z < mb /\ z + 8 < mb
    BY <1>3, <1>4, <1>30
  <2>2. At(m5, z) = At(m4, z) /\ At(m5, z + 8) = At(m4, z + 8)
    BY <1>20, <2>1
  <2>3. At(m5, z) \in Int /\ At(m5, z + 8) \in Int
    BY <1>20, AtInt
  <2> QED
    BY <1>19, <1>30, <2>2, <2>3
<1>31. ASSUME HasM(type)
       PROVE  /\ At(m5, mb) \in Int /\ At(m5, mb + 8) \in Int
              /\ \A x \in Range(ms) : At(m5, mb) =< x /\ x =< At(m5, mb + 8)
  <2>1. At(m5, mb) \in Int /\ At(m5, mb + 8) \in Int
    BY <1>20, AtInt
  <2> QED
    BY <1>20, <1>31, <2>1
<1>32. hi >= rec + 48 /\ r = rec + 4
  BY <1>3, <1>22
<1>33. /\ Cells(w, hi) /\ At(w, rec + 4) = length /\ At(w, at) = old + n
       /\ \A b \in Int : b < rec + 4 => At(w, b) = At(mem, b)
       /\ type \notin MultiPointTypes => At(w, c + 36) = At(mem, c + 36)
  BY <1>3, <1>25, <1>26, <1>27, <1>28, <1>32
<1>34. /\ At(w, c + 4)  = bx[1] /\ At(w, c + 12) = by[1]
       /\ At(w, c + 20) = bx[2] /\ At(w, c + 28) = by[2]
  <2>1. /\ box[1] = bx[1] /\ box[2] = by[1] /\ box[3] = bx[2] /\ box[4] = by[2]
    BY <1>6
  <2>2. /\ Cell(c + 4, 8, 1) = c + 4  /\ Cell(c + 4, 8, 2) = c + 12
        /\ Cell(c + 4, 8, 3) = c + 20 /\ Cell(c + 4, 8, 4) = c + 28
    BY DEF Cell
  <2>3. /\ At(w, Cell(c + 4, 8, 1)) = box[1] /\ At(w, Cell(c + 4, 8, 2)) = box[2]
        /\ At(w, Cell(c + 4, 8, 3)) = box[3] /\ At(w, Cell(c + 4, 8, 4)) = box[4]
    BY <1>29
  <2> QED
    BY <2>1, <2>2, <2>3
<1>35. RecordHas(p, vs, n, mem, w)
  BY <1>1, <1>6, <1>13, <1>33, <1>34 DEF RecordHas, NumPartsAt
<1>36. /\ HasZ(type) => Covers(<<At(m5, z), At(m5, z + 8)>>, Range(zs))
       /\ HasM(type) => Covers(<<At(m5, mb), At(m5, mb + 8)>>, Range(ms))
  BY <1>30, <1>31 DEF Covers
<1>37. RangesHave(p, vs, m5)
  BY <1>1, <1>7, <1>36 DEF RangesHave
<1> QED
  BY <1>1, <1>22, <1>23, <1>32, <1>35, <1>37

(***************************************************************************)
(* What a call of AddPoints(), AddLinestring(), AddRing() or AddPatch()    *)
(* does with n vertices: the file ends behind them, the record and its     *)
(* entry in the index have the length that follows from it, and the boxes  *)
(* of both headers are those of all the points.                            *)
(***************************************************************************)
HullOf(p, vs, put) ==
  [x |-> Hull(header.box.x, BoxWith(1, vs)), y |-> Hull(header.box.y, BoxWith(2, vs)),
   z |-> IF HasZ(type) /\ p.hasZ THEN Hull(header.box.z, <<At(put, ZAt), At(put, ZAt + 8)>>)
         ELSE header.box.z,
   m |-> IF HasM(type) /\ p.hasM THEN Hull(header.box.m, <<At(put, MAt), At(put, MAt + 8)>>)
         ELSE header.box.m]

LEMMA VerticesWritten ==
  ASSUME NEW p, NEW n \in Nat \ {0}, RoomFor(n), NEW vs, Vertices(vs, n),
         NEW mem, Cells(mem, NewEnd(n)), AddVertices(p, vs, mem)
  PROVE  /\ shpSize' = NewEnd(n) /\ NewEnd(n) \in Nat /\ NewEnd(n) >= feat.rec + 48
         /\ RecordHas(p, vs, n, mem, shp')
         /\ shx' = [shx EXCEPT ![Len(shx)].length = ContentLength(NewEnd(n))]
         /\ header' = [length |-> NewEnd(n) \div 2, box |-> HullOf(p, vs, PutAll(p, vs, mem))]
         /\ shxHeader' = [shxHeader EXCEPT !.box = header'.box]
         /\ RangesHave(p, vs, PutAll(p, vs, mem))
<1>1. PICK put, hull, hi : /\ put = PutAll(p, vs, mem) /\ hull = HullOf(p, vs, put)
                           /\ hi = NewEnd(n)
  OBVIOUS
<1>2. Finish(hi, Put(put, Content, 4, <<type>>), hull)
  BY <1>1 DEF AddVertices, PutAll, NewEnd, Vertices, HullOf
<1>3. /\ shpSize' = hi
      /\ shp' = Put(Put(put, Content, 4, <<type>>), feat.rec + 4, 4, <<ContentLength(hi)>>)
      /\ shx' = [shx EXCEPT ![Len(shx)].length = ContentLength(hi)]
      /\ header' = [length |-> hi \div 2, box |-> hull]
      /\ shxHeader' = [shxHeader EXCEPT !.box = hull]
  BY <1>2 DEF Finish
<1>4. shp' = PutRecord(p, vs, n, mem)
  BY <1>1, <1>3 DEF PutRecord
<1>5. header'.box = hull
  BY <1>3
<1>6. /\ NewEnd(n) \in Nat /\ NewEnd(n) >= feat.rec + 48
      /\ RecordHas(p, vs, n, mem, PutRecord(p, vs, n, mem))
      /\ RangesHave(p, vs, PutAll(p, vs, mem))
  BY RecordWritten
<1> QED
  BY <1>1, <1>3, <1>4, <1>5, <1>6

-------------------------------------------------------------------------------

\* The parts of the caller.
LEMMA PartFacts ==
  ASSUME type \in Types, NEW p \in Parts[type], NEW n, n = Len(p.verts)
  PROVE  /\ type \in ShpType /\ n \in Nat \ {0} /\ p.type \in Int
         /\ p.verts \in Seq(Int \X Int \X Int \X Int) /\ Vertices(p.verts, n)
         /\ type \in PointTypes => n = 1
<1>1. type \in ShpType /\ p \in Part /\ p.verts /= << >> /\ (type \in PointTypes => n = 1)
  BY InputAssumption
<1>2. PICK vs : vs = p.verts
  OBVIOUS
<1>3. vs \in Seq(Int \X Int \X Int \X Int) /\ vs /= << >> /\ p.type \in Int /\ n = Len(vs)
  BY <1>1, <1>2 DEF Part
<1>4. n \in Nat \ {0} /\ DOMAIN vs = 1..n /\ \A i \in 1..n : vs[i] \in Int \X Int \X Int \X Int
  BY <1>3
<1> QED
  BY <1>1, <1>2, <1>3, <1>4 DEF Vertices

\* The sums of the sizes of parts, with which the points of a feature are counted.
LEMMA SizesFacts ==
  ASSUME type \in Types, NEW parts \in Seq(Parts[type]), NEW s, s = Sizes(parts)
  PROVE  /\ SumTo(s, 0) = 0 /\ Total(parts) \in Nat
         /\ \A k \in 0 .. Len(parts) : SumTo(s, k) \in Nat /\ SumTo(s, k) =< Total(parts)
         /\ \A k \in 1 .. Len(parts) : SumTo(s, k) = SumTo(s, k-1) + Len(parts[k].verts)
<1>1. PICK m \in Nat : m = Len(parts) /\ DOMAIN parts = 1..m
  OBVIOUS
<1>2. \A k \in 1..m : Len(parts[k].verts) \in Nat
  <2> SUFFICES ASSUME NEW k \in 1..m
               PROVE  Len(parts[k].verts) \in Nat
    OBVIOUS
  <2>1. parts[k] \in Parts[type]
    BY <1>1
  <2> QED
    BY <2>1, PartFacts
<1>3. s = [k \in 1..m |-> Len(parts[k].verts)]
  BY <1>1 DEF Sizes
<1>4. s \in Seq(Nat) /\ Len(s) = m
  BY <1>2, <1>3
<1>5. PICK sum : sum = [k \in 0..m |-> SumTo(s, k)]
  OBVIOUS
<1>6. /\ sum[0] = 0 /\ \A k \in 0..m : sum[k] \in Nat
      /\ \A k \in 1..m : sum[k] = sum[k-1] + s[k]
  <2>1. /\ SumTo(s, 0) = 0 /\ \A k \in 0..m : SumTo(s, k) \in Nat
        /\ \A k \in 1..m : SumTo(s, k) = SumTo(s, k-1) + s[k]
    BY <1>4, SumFacts
  <2>2. \A k \in 1..m : k - 1 \in 0..m
    OBVIOUS
  <2> QED
    BY <1>5, <2>1, <2>2
<1>7. Total(parts) = sum[m]
  BY <1>1, <1>3, <1>5 DEF Total
<1> DEFINE S == {j \in Nat : j =< m => sum[m-j] =< sum[m]}
<1>8. 0 \in S
  BY <1>6
<1>9. \A j \in Nat : j \in S => j + 1 \in S
  <2> SUFFICES ASSUME NEW j \in Nat, j \in S, j + 1 =< m
               PROVE  sum[m-(j+1)] =< sum[m]
    OBVIOUS
  <2>1. PICK k \in 1..m : k = m - j /\ k - 1 = m - (j+1)
    OBVIOUS
  <2>2. sum[k] =< sum[m] /\ sum[k] = sum[k-1] + s[k] /\ s[k] \in Nat /\ sum[k-1] \in Nat
    BY <1>2, <1>3, <1>6, <2>1
  <2>3. sum[m] \in Nat
    BY <1>6
  <2> QED
    BY <2>1, <2>2, <2>3
<1> HIDE DEF S
<1>10. \A j \in Nat : j \in S
  BY <1>8, <1>9, Induction
<1>11. \A k \in 0..m : sum[k] =< sum[m]
  <2> SUFFICES ASSUME NEW k \in 0..m
               PROVE  sum[k] =< sum[m]
    OBVIOUS
  <2>1. PICK j \in Nat : j = m - k /\ k = m - j
    OBVIOUS
  <2> QED
    BY SMTT(30), <1>10, <2>1 DEF S
<1>12. \A k \in 0..m : SumTo(s, k) = sum[k]
  BY <1>5
<1>13. \A k \in 1..m : SumTo(s, k) = SumTo(s, k-1) + Len(parts[k].verts)
  BY <1>3, <1>6, <1>12
<1> QED
  BY <1>1, <1>6, <1>7, <1>11, <1>12, <1>13

\* The end of the file grows with the points, and by whole words.
LEMMA EndFacts ==
  ASSUME type \in ShpType \ PointTypes, feat.rec \in Nat, feat.numParts \in Nat,
         feat.numPoints \in Nat
  PROVE  \E a \in Nat, q \in {8, 16} : \A points \in Nat : End(points) = feat.rec + 2*a + q*points
<1>1. PICK rec \in Nat, n \in Nat, np \in Nat :
        rec = feat.rec /\ n = feat.numParts /\ np = feat.numPoints
  OBVIOUS
<1>2. PICK c \in Nat : c = Content /\ c = rec + 8
  BY <1>1 DEF Content, RecordSize
<1>3. PICK d \in Nat : PointsAt(type, c, n) = rec + 2*d
  <2>1. CASE type \in MultiPointTypes
    BY <1>2, <2>1 DEF PointsAt
  <2>2. CASE type \notin MultiPointTypes /\ type = MultiPatch
    <3>1. PointsAt(type, c, n) = rec + 2*(26 + 4*n)
      BY <1>2, <2>2 DEF PointsAt, PartsAt
    <3> QED
      BY <3>1
  <2>3. CASE type \notin MultiPointTypes /\ type /= MultiPatch
    <3>1. PointsAt(type, c, n) = rec + 2*(26 + 2*n)
      BY <1>2, <2>3 DEF PointsAt, PartsAt
    <3> QED
      BY <3>1
  <2> QED
    BY <2>1, <2>2, <2>3
<1>4. CASE ~HasM(type)
  <2>1. \A points \in Nat : End(points) = rec + 2*d + 16*points
    BY <1>1, <1>2, <1>3, <1>4 DEF End
  <2> QED
    BY <1>1, <2>1
<1>5. CASE HasM(type)
  <2>1. PICK m \in Nat : MBlockAt(type, c, n, np) = rec + 2*m
    <3>1. CASE HasZ(type)
      <4>1. PICK m \in Nat : m = d + 8*np + 8 + 4*np
        OBVIOUS
      <4>2. MBlockAt(type, c, n, np) = rec + 2*m
        BY <1>3, <3>1, <4>1 DEF MBlockAt, ZBlockAt
      <4> QED
        BY <4>2
    <3>2. CASE ~HasZ(type)
      <4>1. MBlockAt(type, c, n, np) = rec + 2*(d + 8*np)
        BY <1>3, <3>2 DEF MBlockAt, ZBlockAt
      <4> QED
        BY <4>1
    <3> QED
      BY <3>1, <3>2
  <2>2. PICK a \in Nat : a = m + 8
    OBVIOUS
  <2>3. \A points \in Nat : End(points) = rec + 2*a + 8*points
    BY <1>1, <1>2, <1>5, <2>1, <2>2 DEF End
  <2> QED
    BY <1>1, <2>3
<1> QED
  BY <1>4, <1>5

\* Half of an even number is a number.
LEMMA Halves ==
  ASSUME NEW x \in Int
  PROVE  (2 * x) \div 2 = x
OBVIOUS

-------------------------------------------------------------------------------

(***************************************************************************)
(* The inductive invariant.  What the caller has given, and how often it   *)
(* has called.                                                             *)
(***************************************************************************)
CallsInv ==
  /\ type \in Types
  /\ given \in Seq(Seq(Parts[type])) /\ calls \in Seq(Nat) /\ Len(calls) = Len(given)
  /\ \A k \in 1..Len(given) : /\ calls[k] =< Len(given[k]) + 1
                              /\ given[k] = << >> => calls[k] = 0
  /\ \A k \in 1 .. Len(given)-1 : calls[k] >= Len(given[k])
  /\ feat \in [numParts : Nat, numPoints : Nat, rec : Nat]
  /\ given /= << >> => /\ feat.numParts = Len(given[Len(given)])
                       /\ feat.numPoints = Total(given[Len(given)])
  /\ given = << >> => feat.rec = 0

\* Where the record of feature k starts, and that the last feature has a part.
RecordAt(k) == 2 * shx[k].offset
Begun       == given /= << >> /\ calls[Len(given)] > 0

\* Where the record of a point ends.
PointEnd == feat.rec + 12 + 8 * (IF HasZ(type) THEN 4 ELSE IF HasM(type) THEN 3 ELSE 2)

\* The records follow each other, each as long as its length says.
RecordsInv ==
  /\ shx \in Seq([offset : Nat, length : Nat]) /\ Len(shx) = Len(given)
  /\ given /= << >> => RecordAt(1) = HeaderSize /\ feat.rec = RecordAt(Len(given))
  /\ \A k \in 1 .. Len(given)-1 :
       /\ given[k] /= << >> => /\ RecordAt(k+1) = RecordAt(k) + RecordSize + 2 * shx[k].length
                               /\ At(shp, RecordAt(k) + 4) = shx[k].length
       /\ given[k] = << >> => RecordAt(k+1) = RecordAt(k) + RecordSize + NullSize
       /\ RecordAt(k) + RecordSize =< feat.rec
  /\ \A k \in 1 .. Len(given) : RecordAt(k) >= HeaderSize

\* The file ends with the last record, and that with its last point.
LastInv ==
  /\ given = << >> => shpSize = HeaderSize /\ 2 * header.length = shpSize
  /\ given /= << >> /\ ~Begun =>
       /\ shpSize = feat.rec + RecordSize + NullSize
       /\ \A a \in DOMAIN shp : a =< feat.rec
       /\ Len(given) = 1 \/ given[Len(given)-1] /= << >> => 2 * header.length = feat.rec
  /\ Begun => /\ shpSize = feat.rec + RecordSize + 2 * shx[Len(given)].length
              /\ At(shp, feat.rec + 4) = shx[Len(given)].length
              /\ shpSize >= feat.rec + RecordSize + NullSize
              /\ 2 * header.length = shpSize
              /\ type \in PointTypes => shpSize = PointEnd
              /\ type \notin PointTypes => shpSize = End(NumPoints) /\ shpSize >= feat.rec + 48

\* The headers of the index and of the attributes.
HeadersInv ==
  /\ header.length \in Nat
  /\ shxHeader = [length |-> 50 + 4 * Len(given), box |-> header.box]
  /\ dbf \in [fields : Seq(Nat), records : Nat, size : Int] /\ dbf.records = Len(given)
  /\ dbf.size = 34 + 32 * Len(dbf.fields) + DbfRecord(dbf) * dbf.records

CellsInv == shpSize \in Nat /\ Cells(shp, shpSize)

\* The counters of the last record.  A part too many is counted, and its points too by
\* AddPoints() and AddPatch().
CountsInv ==
  LET n == Len(given)
  IN  given /= << >> =>
        /\ type \notin PointTypes \cup MultiPointTypes => PartIdx = calls[n]
        /\ type \notin PointTypes =>
             /\ NumPoints \in Nat /\ NumPoints =< 2 * feat.numPoints
             /\ calls[n] =< Len(given[n]) => NumPoints = SumTo(Sizes(given[n]), calls[n])

ShpInv == CallsInv /\ RecordsInv /\ LastInv /\ HeadersInv /\ CellsInv /\ CountsInv

LEMMA ShpInit == Init => ShpInv
<1> SUFFICES ASSUME Init
             PROVE  ShpInv
  OBVIOUS
<1>1. /\ type \in Types /\ shp = << >> /\ shpSize = HeaderSize /\ header.length = 50
      /\ shxHeader = header /\ header = [length |-> 50, box |-> header.box]
      /\ shx = << >> /\ dbf = [fields |-> << >>, records |-> 0, size |-> 34]
      /\ feat = [numParts |-> 0, numPoints |-> 0, rec |-> 0]
      /\ given = << >> /\ calls = << >>
  BY DEF Init, HeaderSize
<1>2. CallsInv
  BY <1>1 DEF CallsInv
<1>3. RecordsInv
  BY <1>1 DEF RecordsInv
<1>4. LastInv
  BY <1>1 DEF LastInv, Begun, HeaderSize
<1>5. HeadersInv
  <2>1. PICK r : r = DbfRecord(dbf)
    OBVIOUS
  <2>2. r \in Int
    <3>1. PICK s : s = dbf.fields
      OBVIOUS
    <3>2. s \in Seq(Nat) /\ Len(s) = 0
      BY <1>1, <3>1
    <3>3. SumTo(s, 0) = 0
      BY <3>2, SumFacts
    <3> QED
      BY <2>1, <3>1, <3>2, <3>3 DEF DbfRecord
  <2> QED
    BY <1>1, <2>1, <2>2 DEF HeadersInv
<1>6. CellsInv
  BY <1>1 DEF CellsInv, Cells, HeaderSize
<1>7. CountsInv
  BY <1>1 DEF CountsInv
<1> QED
  BY <1>2, <1>3, <1>4, <1>5, <1>6, <1>7 DEF ShpInv

LEMMA FieldInv ==
  ASSUME ShpInv, NEW len \in {1, 8}, CreateField(len)
  PROVE  ShpInv'
<1>1. given = << >> /\ given' = << >> /\ UNCHANGED <<type, shp, shpSize, header, shxHeader, shx, feat, calls>>
  BY DEF CreateField
<1>2. CallsInv' /\ RecordsInv' /\ LastInv' /\ CellsInv' /\ CountsInv'
  <2>1. CallsInv'
    BY <1>1 DEF ShpInv, CallsInv
  <2>2. RecordsInv'
    BY <1>1 DEF ShpInv, RecordsInv, RecordAt, At
  <2>3. LastInv'
    BY <1>1 DEF ShpInv, LastInv, Begun
  <2>4. CellsInv' /\ CountsInv'
    BY <1>1 DEF ShpInv, CellsInv, Cells, CountsInv
  <2> QED
    BY <2>1, <2>2, <2>3, <2>4
<1>3. HeadersInv'
  <2>1. PICK fields, new : fields = dbf.fields /\ new = Append(fields, len)
    OBVIOUS
  <2>2. fields \in Seq(Nat) /\ dbf.records = 0 /\ dbf.size = 34 + 32 * Len(fields)
    <3>1. PICK r : r = DbfRecord(dbf)
      OBVIOUS
    <3>2. r \in Int
      <4>1. dbf.fields \in Seq(Nat)
        BY DEF ShpInv, HeadersInv
      <4> QED
        BY <3>1, <4>1, SumFacts DEF DbfRecord
    <3> QED
      BY <1>1, <2>1, <3>1, <3>2 DEF ShpInv, HeadersInv
  <2>3. new \in Seq(Nat) /\ Len(new) = Len(fields) + 1
    BY <2>1, <2>2
  <2>4. /\ dbf' \in [fields : Seq(Nat), records : Nat, size : Int]
        /\ dbf'.fields = new /\ dbf'.records = 0 /\ dbf'.size = 34 + 32 * Len(new)
    <3>1. dbf \in [fields : Seq(Nat), records : Nat, size : Int]
      BY DEF ShpInv, HeadersInv
    <3>2. PICK d : d = [dbf EXCEPT !.fields = new]
      OBVIOUS
    <3>3. d \in [fields : Seq(Nat), records : Nat, size : Int] /\ d.fields = new
          /\ d.records = 0 /\ d.size = 34 + 32 * Len(fields)
      BY <2>2, <2>3, <3>1, <3>2
    <3>4. dbf' = [d EXCEPT !.size = dbf.size + 32]
      BY <2>1, <3>2 DEF CreateField
    <3> QED
      BY <2>2, <2>3, <3>3, <3>4
  <2>5. PICK r : r = DbfRecord(dbf')
    OBVIOUS
  <2>6. r \in Int
    <3>1. SumTo(new, Len(new)) \in Nat
      BY <2>3, SumFacts
    <3> QED
      BY <2>4, <2>5, <3>1 DEF DbfRecord
  <2>7. dbf'.size = 34 + 32 * Len(dbf'.fields) + DbfRecord(dbf') * dbf'.records
    <3>1. DbfRecord(dbf') * dbf'.records = r * 0
      BY <2>4, <2>5, Zenon
    <3>2. r * 0 = 0
      BY <2>6
    <3>3. dbf'.size = 34 + 32 * Len(dbf'.fields)
      BY <2>4
    <3>4. Len(dbf'.fields) \in Nat
      BY <2>3, <2>4
    <3> QED
      BY <3>1, <3>2, <3>3, <3>4
  <2>8. header'.length \in Nat /\ shxHeader' = [length |-> 50 + 4 * Len(given'), box |-> header'.box]
    BY <1>1 DEF ShpInv, HeadersInv
  <2> QED
    BY <1>1, <2>4, <2>7, <2>8 DEF HeadersInv
<1> QED
  BY <1>2, <1>3 DEF ShpInv

\* The parts that a caller may have for a feature.
LEMMA FeatureParts ==
  ASSUME NEW parts \in Features
  PROVE  parts \in Seq(Parts[type])
<1>1. PICK most : most = IF type \in PointTypes THEN 1 ELSE MaxParts
  OBVIOUS
<1>2. most \in Nat
  BY <1>1, InputAssumption
<1>3. PICK n \in (IF NullFeatures THEN 0 ELSE 1) .. most : parts \in [1..n -> Parts[type]]
  BY <1>1 DEF Features
<1>4. n \in Nat
  BY <1>2, <1>3
<1> QED
  BY <1>3, <1>4

\* A new feature starts at the end of the file, where the last record ends by its
\* length, unless it has no part.
LEMMA FeatureInv ==
  ASSUME ShpInv, NEW parts \in Features, AddFeature(parts)
  PROVE  ShpInv'
<1>1. PICK n \in Nat : /\ n = Len(given) /\ n = Len(calls) /\ n = Len(shx)
                        /\ DOMAIN given = 1..n /\ (n = 0 <=> given = << >>)
  <2>1. PICK S : S = Seq(Parts[type])
    OBVIOUS
  <2>2. given \in Seq(S) /\ Len(calls) = Len(given) /\ Len(shx) = Len(given)
    BY <2>1 DEF ShpInv, CallsInv, RecordsInv
  <2> QED
    BY <2>2
<1>2. PICK size \in Nat : size = shpSize /\ size >= 100 /\ (n > 0 => size >= feat.rec + 12)
  <2>1. PICK size \in Nat : size = shpSize
    BY DEF ShpInv, CellsInv
  <2>2. CASE n = 0
    BY <1>1, <2>1, <2>2 DEF ShpInv, LastInv, HeaderSize
  <2>3. CASE n > 0
    <3>1. given /= << >> /\ RecordAt(n) >= 100 /\ feat.rec = RecordAt(n)
      BY <1>1, <2>3 DEF ShpInv, RecordsInv, HeaderSize
    <3>2. feat.rec \in Nat
      BY DEF ShpInv, CallsInv
    <3>3. shpSize >= feat.rec + 12
      BY <1>1, <2>1, <3>1, <3>2 DEF ShpInv, LastInv, RecordSize, NullSize
    <3> QED
      BY <2>1, <3>1, <3>2, <3>3
  <2> QED
    BY <1>1, <2>2, <2>3
<1>3. /\ feat' = [numParts |-> Len(parts), numPoints |-> Total(parts), rec |-> size]
      /\ shp' = Put(shp, size, 4, <<n + 1>>) /\ shpSize' = size + 12
      /\ shx' = Append(shx, [offset |-> size \div 2, length |-> 0])
      /\ shxHeader' = [shxHeader EXCEPT !.length = (100 + 8 * Len(shx')) \div 2]
      /\ given' = Append(given, parts) /\ calls' = Append(calls, 0)
      /\ type' = type /\ header' = header
  BY <1>1, <1>2 DEF AddFeature, Offset, RecordSize, NullSize, HeaderSize
<1>4. parts \in Seq(Parts[type]) /\ type \in Types
  BY FeatureParts DEF ShpInv, CallsInv
<1>5. \A k \in 1..n : calls[k] >= Len(given[k])
  BY <1>1 DEF AddFeature, Written
<1>6. /\ given' \in Seq(Seq(Parts[type])) /\ Len(given') = n + 1 /\ given'[n+1] = parts
      /\ \A k \in 1..n : given'[k] = given[k]
      /\ calls' \in Seq(Nat) /\ Len(calls') = n + 1 /\ calls'[n+1] = 0
      /\ \A k \in 1..n : calls'[k] = calls[k]
  <2>1. PICK S : S = Seq(Parts[type])
    OBVIOUS
  <2>2. given \in Seq(S) /\ parts \in S /\ calls \in Seq(Nat) /\ 0 \in Nat
    BY <1>4, <2>1 DEF ShpInv, CallsInv
  <2>3. /\ given' \in Seq(S) /\ Len(given') = n + 1 /\ given'[n+1] = parts
        /\ \A k \in 1..n : given'[k] = given[k]
    BY <1>1, <1>3, <2>2
  <2>4. /\ calls' \in Seq(Nat) /\ Len(calls') = n + 1 /\ calls'[n+1] = 0
        /\ \A k \in 1..n : calls'[k] = calls[k]
    <3>1. calls' = Append(calls, 0) /\ n = Len(calls)
      BY <1>1, <1>3
    <3> QED
      BY <2>2, <3>1
  <2> QED
    BY <2>1, <2>3, <2>4
<1>7. CallsInv'
  <2>1. \A k \in 1 .. n+1 : calls'[k] =< Len(given'[k]) + 1 /\ (given'[k] = << >> => calls'[k] = 0)
    <3> SUFFICES ASSUME NEW k \in 1 .. n+1
                 PROVE  calls'[k] =< Len(given'[k]) + 1 /\ (given'[k] = << >> => calls'[k] = 0)
      OBVIOUS
    <3>1. CASE k = n + 1
      BY <1>4, <1>6, <3>1
    <3>2. CASE k \in 1..n
      BY <1>1, <1>6, <3>2 DEF ShpInv, CallsInv
    <3> QED
      BY <3>1, <3>2
  <2>2. \A k \in 1..n : calls'[k] >= Len(given'[k])
    BY <1>5, <1>6
  <2>3. feat' \in [numParts : Nat, numPoints : Nat, rec : Nat]
    BY <1>3, <1>4, SizesFacts
  <2>4. feat'.numParts = Len(given'[n+1]) /\ feat'.numPoints = Total(given'[n+1])
    BY <1>3, <1>6
  <2>5. type' \in Types /\ given' \in Seq(Seq(Parts'[type'])) /\ calls' \in Seq(Nat)
    BY <1>3, <1>4, <1>6
  <2> QED
    BY <1>6, <2>1, <2>2, <2>3, <2>4, <2>5 DEF CallsInv
<1>8. /\ Cells(shp', size + 1) /\ Cells(shp', size + 12)
      /\ \A b \in Int : b /= size => At(shp', b) = At(shp, b)
  <2>1. PICK v, hi : v = <<n + 1>> /\ hi = size + 1
    OBVIOUS
  <2>2. Values(v, 1) /\ shp' = Put(shp, size, 4, v) /\ size \in Int /\ hi \in Nat
    BY <1>3, <2>1 DEF Values
  <2>3. Cells(shp, hi)
    BY <1>2, <2>1 DEF ShpInv, CellsInv, Cells, HeaderSize
  <2>4. Fits(size, 4, 1, hi) /\ Cell(size, 4, 1) = size
    BY <1>2, <2>1 DEF Fits, Cell, HeaderSize
  <2>5. /\ Cells(shp', hi)
        /\ \A b \in Int : b < size \/ b > Cell(size, 4, 1) => At(shp', b) = At(shp, b)
    BY <2>2, <2>3, <2>4, PutInside
  <2>6. Cells(shp', size + 12)
    BY <2>1, <2>5 DEF Cells, HeaderSize
  <2> QED
    BY <2>1, <2>4, <2>5, <2>6
<1>9. \A k \in 1..n : shx[k].offset \in Nat /\ shx[k].length \in Nat
  <2>1. PICK R : R = [offset : Nat, length : Nat]
    OBVIOUS
  <2>2. shx \in Seq(R) /\ n = Len(shx)
    BY <1>1, <2>1 DEF ShpInv, RecordsInv
  <2>3. \A k \in 1..n : shx[k] \in R
    BY <2>2
  <2>4. \A e \in R : e.offset \in Nat /\ e.length \in Nat
    BY <2>1
  <2> QED
    BY <2>3, <2>4
<1>10. \E half \in Nat : size = 2 * half
  <2>1. CASE n = 0
    <3>1. size = 2 * 50
      BY <1>1, <1>2, <2>1 DEF ShpInv, LastInv, HeaderSize
    <3> QED
      BY <3>1
  <2>2. CASE n > 0
    <3>1. PICK offset, length : offset = shx[n].offset /\ length = shx[n].length
      OBVIOUS
    <3>2. feat.rec = 2 * offset
      BY <1>1, <2>2, <3>1 DEF ShpInv, RecordsInv, RecordAt
    <3>3. size = 2 * offset + 8 + 4 \/ size = 2 * offset + 8 + 2 * length
      BY <1>1, <1>2, <2>2, <3>1, <3>2 DEF ShpInv, LastInv, RecordSize, NullSize
    <3>4. PICK a, b : a = offset + 6 /\ b = offset + 4 + length
      OBVIOUS
    <3>5. a \in Nat /\ b \in Nat /\ (size = 2 * a \/ size = 2 * b)
      <4>1. offset \in Nat /\ length \in Nat
        BY <1>9, <2>2, <3>1
      <4> QED
        BY <3>3, <3>4, <4>1
    <3> QED
      BY <3>5
  <2> QED
    BY <1>1, <2>1, <2>2
<1>11. /\ shx' \in Seq([offset : Nat, length : Nat]) /\ Len(shx') = n + 1
       /\ \A k \in 1..n : shx'[k] = shx[k]
       /\ 2 * shx'[n+1].offset = size /\ shx'[n+1].length = 0
  <2>1. PICK half \in Nat : size = 2 * half
    BY <1>10
  <2>2. PICK e, R : e = [offset |-> half, length |-> 0] /\ R = [offset : Nat, length : Nat]
    OBVIOUS
  <2>3. shx' = Append(shx, e)
    <3>1. size \div 2 = half
      BY <2>1, Halves
    <3> QED
      BY <1>3, <2>2, <3>1
  <2>4. shx \in Seq(R) /\ e \in R /\ n = Len(shx)
    BY <1>1, <2>2 DEF ShpInv, RecordsInv
  <2>5. /\ shx' \in Seq(R) /\ Len(shx') = n + 1 /\ shx'[n+1] = e
        /\ \A k \in 1..n : shx'[k] = shx[k]
    BY <2>3, <2>4
  <2> QED
    BY <2>1, <2>2, <2>5
<1>12. /\ RecordAt(n+1)' = size
       /\ \A k \in 1..n : RecordAt(k)' = RecordAt(k)
  BY <1>11 DEF RecordAt
<1>13. \A k \in 1..n : RecordAt(k) \in Int /\ RecordAt(k) >= 100 /\ RecordAt(k) + 8 =< size
  <2> SUFFICES ASSUME NEW k \in 1..n
               PROVE  RecordAt(k) \in Int /\ RecordAt(k) >= 100 /\ RecordAt(k) + 8 =< size
    OBVIOUS
  <2>1. RecordAt(k) \in Int
    BY <1>9 DEF RecordAt
  <2>2. RecordAt(k) >= 100
    BY <1>1 DEF ShpInv, RecordsInv, HeaderSize
  <2>3. feat.rec \in Nat
    BY DEF ShpInv, CallsInv
  <2>4. CASE k = n
    <3>1. feat.rec = RecordAt(k)
      BY <1>1, <2>4 DEF ShpInv, RecordsInv
    <3> QED
      BY <1>2, <2>1, <2>2, <2>3, <3>1
  <2>5. CASE k \in 1 .. n-1
    <3>1. RecordAt(k) + 8 =< feat.rec
      BY <1>1, <2>5 DEF ShpInv, RecordsInv, RecordSize
    <3> QED
      BY <1>2, <2>1, <2>2, <2>3, <3>1
  <2> QED
    BY <2>4, <2>5
<1>14. \A k \in 1..n :
         /\ given[k] /= << >> => /\ RecordAt(k+1)' = RecordAt(k) + 8 + 2 * shx[k].length
                                 /\ At(shp, RecordAt(k) + 4) = shx[k].length
         /\ given[k] = << >> => RecordAt(k+1)' = RecordAt(k) + 8 + 4
  <2> SUFFICES ASSUME NEW k \in 1..n
               PROVE  /\ given[k] /= << >> =>
                           /\ RecordAt(k+1)' = RecordAt(k) + 8 + 2 * shx[k].length
                           /\ At(shp, RecordAt(k) + 4) = shx[k].length
                      /\ given[k] = << >> => RecordAt(k+1)' = RecordAt(k) + 8 + 4
    OBVIOUS
  <2>1. CASE k = n
    <3>1. feat.rec = RecordAt(n) /\ Len(given) = n /\ given /= << >>
      BY <1>1, <2>1 DEF ShpInv, RecordsInv
    <3>2. CASE given[k] /= << >>
      <4>1. Begun
        <5>1. given[n] \in Seq(Parts[type]) /\ calls[n] \in Nat
          BY <1>1, <2>1 DEF ShpInv, CallsInv
        <5>2. Len(given[n]) > 0
          BY <2>1, <3>2, <5>1
        <5> QED
          BY <1>5, <2>1, <3>1, <5>1, <5>2 DEF Begun
      <4>2. size = feat.rec + 8 + 2 * shx[n].length /\ At(shp, feat.rec + 4) = shx[n].length
        BY <1>2, <3>1, <4>1 DEF ShpInv, LastInv, RecordSize
      <4> QED
        BY <1>12, <2>1, <3>1, <3>2, <4>2
    <3>3. CASE given[k] = << >>
      <4>1. ~Begun
        <5>1. calls[n] = 0
          BY <1>1, <2>1, <3>3 DEF ShpInv, CallsInv
        <5> QED
          BY <3>1, <5>1 DEF Begun
      <4>2. size = feat.rec + 8 + 4
        BY <1>2, <3>1, <4>1 DEF ShpInv, LastInv, RecordSize, NullSize
      <4> QED
        BY <1>12, <2>1, <3>1, <3>3, <4>2
    <3> QED
      BY <3>2, <3>3
  <2>2. CASE k \in 1 .. n-1
    <3>1. RecordAt(k+1)' = RecordAt(k+1)
      <4>1. k + 1 \in 1..n
        BY <2>2
      <4> QED
        BY <1>12, <4>1
    <3> QED
      BY <1>1, <2>2, <3>1 DEF ShpInv, RecordsInv, RecordSize, NullSize
  <2> QED
    BY <2>1, <2>2
<1>15. RecordsInv'
  <2>1. given' /= << >> => RecordAt(1)' = 100 /\ feat'.rec = RecordAt(n+1)'
    <3>1. CASE n = 0
      <4>1. size = 100
        BY <1>1, <1>2, <3>1 DEF ShpInv, LastInv, HeaderSize
      <4> QED
        BY <1>3, <1>12, <3>1, <4>1
    <3>2. CASE n > 0
      <4>1. RecordAt(1) = 100
        <5>1. given /= << >>
          BY <1>1, <3>2
        <5>2. RecordAt(1) = HeaderSize
          BY <5>1, Zenon DEF ShpInv, RecordsInv
        <5> QED
          BY <5>2 DEF HeaderSize
      <4>2. RecordAt(1)' = RecordAt(1) /\ RecordAt(n+1)' = size /\ feat'.rec = size
        <5>1. shx'[1] = shx[1]
          BY <1>11, <3>2
        <5> QED
          BY <1>3, <1>12, <5>1 DEF RecordAt
      <4> QED
        BY <4>1, <4>2
    <3> QED
      BY <3>1, <3>2
  <2>2. ASSUME NEW k \in 1..n
        PROVE  /\ given'[k] /= << >> => /\ RecordAt(k+1)' = RecordAt(k)' + 8 + 2 * shx'[k].length
                                        /\ At(shp', RecordAt(k)' + 4) = shx'[k].length
               /\ given'[k] = << >> => RecordAt(k+1)' = RecordAt(k)' + 8 + 4
               /\ RecordAt(k)' + 8 =< feat'.rec
    <3>1. RecordAt(k)' = RecordAt(k) /\ given'[k] = given[k] /\ shx'[k] = shx[k]
      BY <1>6, <1>11, <1>12
    <3>2. PICK b \in Int : b = RecordAt(k) + 4 /\ b /= size
      BY <1>13
    <3>3. At(shp', b) = At(shp, b)
      BY <1>8, <3>2
    <3>4. RecordAt(k)' + 8 =< feat'.rec
      BY <1>3, <1>13, <3>1
    <3> QED
      BY <1>14, <3>1, <3>2, <3>3, <3>4
  <2>3. ASSUME NEW k \in 1 .. n+1
        PROVE  RecordAt(k)' >= 100
    <3>1. CASE k = n + 1
      BY <1>2, <1>12, <3>1
    <3>2. CASE k \in 1..n
      BY <1>12, <1>13, <3>2
    <3> QED
      BY <3>1, <3>2
  <2> QED
    BY <1>6, <1>11, <2>1, <2>2, <2>3 DEF RecordsInv, RecordSize, NullSize, HeaderSize
<1>16. LastInv'
  <2>1. given' /= << >> /\ Len(given') = n + 1 /\ ~Begun'
    BY <1>6 DEF Begun
  <2>2. shpSize' = feat'.rec + 8 + 4
    BY <1>3
  <2>3. \A a \in DOMAIN shp' : a =< feat'.rec
    BY <1>3, <1>8 DEF Cells, HeaderSize
  <2>4. Len(given') = 1 \/ given'[n] /= << >> => 2 * header'.length = feat'.rec
    <3>1. CASE n = 0
      BY <1>1, <1>2, <1>3, <3>1 DEF ShpInv, LastInv
    <3>2. CASE n > 0 /\ given[n] /= << >>
      <4>1. given[n] \in Seq(Parts[type]) /\ calls[n] \in Nat
        BY <1>1, <3>2 DEF ShpInv, CallsInv
      <4>2. Len(given[n]) > 0
        BY <3>2, <4>1
      <4>3. Begun
        BY <1>1, <1>5, <3>2, <4>1, <4>2 DEF Begun
      <4>4. 2 * header.length = shpSize
        BY <4>3 DEF ShpInv, LastInv
      <4> QED
        BY <1>2, <1>3, <4>4
    <3>3. CASE n > 0 /\ given[n] = << >>
      BY <1>6, <3>3
    <3> QED
      BY <3>1, <3>2, <3>3
  <2> QED
    BY <2>1, <2>2, <2>3, <2>4 DEF LastInv, RecordSize, NullSize
<1>17. HeadersInv'
  <2>1. PICK fields, r, k : fields = dbf.fields /\ r = DbfRecord(dbf) /\ k = Len(fields)
    OBVIOUS
  <2>2. /\ dbf \in [fields : Seq(Nat), records : Nat, size : Int] /\ dbf.records = n
        /\ fields \in Seq(Nat) /\ k \in Nat
    BY <1>1, <2>1 DEF ShpInv, HeadersInv
  <2>3. r \in Int
    <3>1. SumTo(fields, Len(fields)) \in Nat
      BY <2>1, <2>2, SumFacts
    <3> QED
      BY <2>1, <3>1 DEF DbfRecord
  <2>4. dbf.size = 34 + 32 * k + r * n
    BY <2>1, <2>2 DEF ShpInv, HeadersInv
  <2>5. /\ dbf' \in [fields : Seq(Nat), records : Nat, size : Int]
        /\ dbf'.fields = fields /\ dbf'.records = n + 1 /\ dbf'.size = dbf.size + r
    <3>1. PICK d, x : d = [dbf EXCEPT !.records = dbf.records + 1] /\ x = dbf.size + r
      OBVIOUS
    <3>2. dbf' = [d EXCEPT !.size = x] /\ x \in Int
      BY <2>1, <2>2, <2>3, <3>1 DEF AddFeature
    <3>3. d \in [fields : Seq(Nat), records : Nat, size : Int] /\ d.fields = fields
          /\ d.records = n + 1 /\ d.size = dbf.size
      BY <2>1, <2>2, <3>1
    <3> QED
      BY <3>1, <3>2, <3>3
  <2>6. DbfRecord(dbf') = r
    BY <2>1, <2>5 DEF DbfRecord
  <2>7. r * (n + 1) = r * n + r
    BY <2>3
  <2>8. dbf'.size = 34 + 32 * Len(dbf'.fields) + DbfRecord(dbf') * dbf'.records
    <3>1. DbfRecord(dbf') * dbf'.records = r * n + r
      BY <2>5, <2>6, <2>7
    <3>2. r * n \in Int
      BY <2>3
    <3> QED
      BY <2>1, <2>3, <2>4, <2>5, <3>1, <3>2
  <2>9. shxHeader' = [length |-> 50 + 4 * (n + 1), box |-> header'.box]
    <3>1. PICK half \in Nat : half = 50 + 4 * (n + 1)
      OBVIOUS
    <3>2. (100 + 8 * Len(shx')) \div 2 = half
      <4>1. 100 + 8 * Len(shx') = 2 * half
        BY <1>11, <3>1
      <4> QED
        BY <4>1, Halves
    <3>3. shxHeader = [length |-> 50 + 4 * n, box |-> header.box]
      BY <1>1 DEF ShpInv, HeadersInv
    <3> QED
      BY <1>3, <3>1, <3>2, <3>3
  <2>10. header'.length \in Nat
    BY <1>3 DEF ShpInv, HeadersInv
  <2> QED
    BY <1>6, <2>5, <2>8, <2>9, <2>10 DEF HeadersInv
<1>18. CellsInv'
  BY <1>3, <1>8 DEF CellsInv
<1>19. CountsInv'
  <2>1. \A b \in Int : b > size => At(shp', b) = 0
    BY <1>8 DEF Cells, At, HeaderSize
  <2>2. PartIdx' = 0
    <3>1. PICK b \in Int : b = size + 8 + 36 /\ b > size
      OBVIOUS
    <3>2. PartIdx' = At(shp', b)
      BY <1>3, <3>1 DEF PartIdx, NumPartsAt, Content, RecordSize
    <3> QED
      BY <2>1, <3>1, <3>2
  <2>3. NumPoints' = 0
    <3>1. PICK b \in Int : b = NumPointsAt(type, size + 8) /\ b > size
      BY DEF NumPointsAt
    <3>2. NumPoints' = At(shp', b)
      BY <1>3, <3>1 DEF NumPoints, NumPointsAt, Content, RecordSize
    <3> QED
      BY <2>1, <3>1, <3>2
  <2>4. SumTo(Sizes(given'[n+1]), calls'[n+1]) = 0 /\ feat'.numPoints \in Nat
    BY <1>3, <1>4, <1>6, SizesFacts
  <2> QED
    BY <1>6, <2>2, <2>3, <2>4 DEF CountsInv
<1> QED
  BY <1>7, <1>15, <1>16, <1>17, <1>18, <1>19 DEF ShpInv

(***************************************************************************)
(* What every call of AddPart does, whichever function it is: the last     *)
(* record grows, nothing in front of its length is touched, and its length *)
(* is the one in the index and leads to the end of the file.  The counters *)
(* in it have the new part and its points.                                 *)
(***************************************************************************)
Grown ==
  LET length == At(shp', feat.rec + 4)
      n      == Len(shx)
  IN  /\ shpSize' \in Nat /\ Cells(shp', shpSize') /\ length \in Nat
      /\ shpSize' = feat.rec + RecordSize + 2 * length
      /\ shpSize' >= feat.rec + RecordSize + NullSize
      /\ \A b \in Int : b < feat.rec + 4 => At(shp', b) = At(shp, b)
      /\ shx' \in Seq([offset : Nat, length : Nat]) /\ Len(shx') = n
      /\ \A k \in 1..n : shx'[k].offset = shx[k].offset
      /\ \A k \in 1 .. n-1 : shx'[k].length = shx[k].length
      /\ shx'[n].length = length
      /\ header'.length \in Nat /\ 2 * header'.length = shpSize'
      /\ shxHeader' = [length |-> shxHeader.length, box |-> header'.box]

Counted ==
  LET points == At(shp', NumPointsAt(type, Content))
      done   == calls[Len(given)]
      parts  == given[Len(given)]
  IN  /\ type \in PointTypes => shpSize' = PointEnd
      /\ type \notin PointTypes \cup MultiPointTypes => At(shp', NumPartsAt(Content)) = done + 1
      /\ type \notin PointTypes =>
           /\ points \in Nat /\ points =< 2 * feat.numPoints
           /\ shpSize' = End(points) /\ shpSize' >= feat.rec + 48
           /\ done < Len(parts) => points = NumPoints + Len(parts[done+1].verts)

\* What AddPart does to the record of its caller.
Called ==
  /\ given /= << >> /\ given[Len(given)] /= << >>
  /\ calls[Len(given)] =< Len(given[Len(given)])
  /\ calls' = [calls EXCEPT ![Len(calls)] = calls[Len(given)] + 1]
  /\ UNCHANGED <<type, dbf, feat, given>>

LEMMA GrownInv ==
  ASSUME ShpInv, Called, Grown, Counted
  PROVE  ShpInv'
<1>1. PICK n \in Nat \ {0} : /\ n = Len(given) /\ n = Len(calls) /\ n = Len(shx) /\ n = Len(shx')
                              /\ n \in 1 .. Len(given)
  <2>1. PICK S : S = Seq(Parts[type])
    OBVIOUS
  <2>2. given \in Seq(S) /\ Len(calls) = Len(given) /\ Len(shx) = Len(given) /\ given /= << >>
    BY <2>1 DEF ShpInv, CallsInv, RecordsInv, Called
  <2>3. Len(shx') = Len(shx)
    BY DEF Grown
  <2> QED
    BY <2>2, <2>3
<1>2. PICK parts, done : parts = given[n] /\ done = calls[n]
  OBVIOUS
<1>3. /\ parts \in Seq(Parts[type]) /\ parts /= << >> /\ done \in Nat /\ done =< Len(parts)
      /\ type \in Types /\ given' = given /\ calls' = [calls EXCEPT ![n] = done + 1]
      /\ type' = type /\ dbf' = dbf /\ feat' = feat /\ feat.rec \in Nat
  <2>1. PICK S : S = Seq(Parts[type])
    OBVIOUS
  <2>2. given \in Seq(S) /\ calls \in Seq(Nat) /\ n \in 1 .. Len(calls) /\ n \in 1 .. Len(given)
    BY <1>1, <2>1 DEF ShpInv, CallsInv
  <2>3. parts \in S /\ done \in Nat
    BY <1>2, <2>2
  <2>4. /\ parts /= << >> /\ done =< Len(parts) /\ calls' = [calls EXCEPT ![n] = done + 1]
        /\ type' = type /\ dbf' = dbf /\ feat' = feat /\ given' = given
    BY <1>1, <1>2 DEF Called
  <2>5. type \in Types /\ feat.rec \in Nat
    BY DEF ShpInv, CallsInv
  <2> QED
    BY <2>1, <2>3, <2>4, <2>5
<1>4. /\ calls' \in Seq(Nat) /\ Len(calls') = n /\ calls'[n] = done + 1
      /\ \A k \in 1 .. n-1 : calls'[k] = calls[k]
  <2>1. calls \in Seq(Nat) /\ n = Len(calls) /\ done + 1 \in Nat
    BY <1>1, <1>3 DEF ShpInv, CallsInv
  <2> QED
    BY <1>3, <2>1
<1>5. CallsInv'
  <2>1. \A k \in 1..n : calls'[k] =< Len(given'[k]) + 1 /\ (given'[k] = << >> => calls'[k] = 0)
    <3> SUFFICES ASSUME NEW k \in 1..n
                 PROVE  calls'[k] =< Len(given[k]) + 1 /\ (given[k] = << >> => calls'[k] = 0)
      BY <1>3
    <3>1. CASE k = n
      BY <1>2, <1>3, <1>4, <3>1
    <3>2. CASE k \in 1 .. n-1
      BY <1>1, <1>4, <3>2 DEF ShpInv, CallsInv
    <3> QED
      BY <3>1, <3>2
  <2>2. \A k \in 1 .. n-1 : calls'[k] >= Len(given'[k])
    BY <1>1, <1>3, <1>4 DEF ShpInv, CallsInv
  <2> QED
    BY <1>1, <1>3, <1>4, <2>1, <2>2 DEF ShpInv, CallsInv
<1>6. PICK length \in Nat : length = At(shp', feat.rec + 4)
  BY DEF Grown
<1>7. /\ shpSize' \in Nat /\ Cells(shp', shpSize')
      /\ shpSize' = feat.rec + 8 + 2 * length /\ shpSize' >= feat.rec + 12
      /\ \A b \in Int : b < feat.rec + 4 => At(shp', b) = At(shp, b)
      /\ shx' \in Seq([offset : Nat, length : Nat])
      /\ \A k \in 1..n : shx'[k].offset = shx[k].offset
      /\ \A k \in 1 .. n-1 : shx'[k].length = shx[k].length
      /\ shx'[n].length = length
      /\ header'.length \in Nat /\ 2 * header'.length = shpSize'
      /\ shxHeader' = [length |-> shxHeader.length, box |-> header'.box]
  <2>1. /\ shpSize' \in Nat /\ Cells(shp', shpSize')
        /\ shpSize' = feat.rec + 8 + 2 * length /\ shpSize' >= feat.rec + 12
    BY <1>3, <1>6 DEF Grown, RecordSize, NullSize
  <2>2. \A b \in Int : b < feat.rec + 4 => At(shp', b) = At(shp, b)
    BY DEF Grown
  <2>3. /\ shx' \in Seq([offset : Nat, length : Nat])
        /\ \A k \in 1..n : shx'[k].offset = shx[k].offset
        /\ \A k \in 1 .. n-1 : shx'[k].length = shx[k].length
        /\ shx'[n].length = length
    BY <1>1, <1>6, Zenon DEF Grown
  <2>4. /\ header'.length \in Nat /\ 2 * header'.length = shpSize'
        /\ shxHeader' = [length |-> shxHeader.length, box |-> header'.box]
    BY DEF Grown
  <2> QED
    BY <2>1, <2>2, <2>3, <2>4
<1>8. \A k \in 1..n : RecordAt(k)' = RecordAt(k)
  BY <1>7 DEF RecordAt
<1>9. RecordsInv'
  <2>1. RecordAt(1)' = 100 /\ feat'.rec = RecordAt(n)'
    <3>1. RecordAt(1) = HeaderSize /\ feat.rec = RecordAt(n)
      BY <1>1, Zenon DEF ShpInv, RecordsInv, Called
    <3>2. shx'[1].offset = shx[1].offset /\ shx'[n].offset = shx[n].offset
      BY <1>1, <1>7
    <3> QED
      BY <1>3, <3>1, <3>2 DEF RecordAt, HeaderSize
  <2>2. ASSUME NEW k \in 1 .. n-1
        PROVE  /\ given'[k] /= << >> => /\ RecordAt(k+1)' = RecordAt(k)' + 8 + 2 * shx'[k].length
                                        /\ At(shp', RecordAt(k)' + 4) = shx'[k].length
               /\ given'[k] = << >> => RecordAt(k+1)' = RecordAt(k)' + 8 + 4
               /\ RecordAt(k)' + 8 =< feat'.rec
    <3>1. /\ given[k] /= << >> => /\ RecordAt(k+1) = RecordAt(k) + 8 + 2 * shx[k].length
                                  /\ At(shp, RecordAt(k) + 4) = shx[k].length
          /\ given[k] = << >> => RecordAt(k+1) = RecordAt(k) + 8 + 4
          /\ RecordAt(k) + 8 =< feat.rec
      BY <1>1 DEF ShpInv, RecordsInv, RecordSize, NullSize
    <3>2. RecordAt(k)' = RecordAt(k) /\ RecordAt(k+1)' = RecordAt(k+1)
      BY <1>8
    <3>3. RecordAt(k) \in Int /\ feat.rec \in Nat
      <4>1. PICK R : R = [offset : Nat, length : Nat]
        OBVIOUS
      <4>2. shx \in Seq(R) /\ k \in 1 .. Len(shx)
        BY <1>1, <4>1 DEF ShpInv, RecordsInv
      <4>3. shx[k] \in R
        BY <4>2
      <4> QED
        BY <1>3, <4>1, <4>3 DEF RecordAt
    <3>4. PICK b \in Int : b = RecordAt(k) + 4 /\ b < feat.rec + 4
      BY <3>1, <3>3
    <3>5. At(shp', b) = At(shp, b)
      BY <1>7, <3>4
    <3> QED
      BY <1>3, <1>7, <3>1, <3>2, <3>4, <3>5
  <2>3. ASSUME NEW k \in 1..n
        PROVE  RecordAt(k)' >= 100
    BY <1>1, <1>8 DEF ShpInv, RecordsInv, HeaderSize
  <2> QED
    BY <1>1, <1>3, <1>7, <2>1, <2>2, <2>3 DEF RecordsInv, RecordSize, NullSize, HeaderSize
<1>10. LastInv'
  <2>1. Begun' /\ given' /= << >>
    BY <1>1, <1>3, <1>4 DEF Begun, Called
  <2>2. ASSUME type \notin PointTypes
        PROVE  shpSize' = End(NumPoints)' /\ shpSize' >= feat.rec + 48
    <3>1. PICK points : points = At(shp', NumPointsAt(type, Content))
      OBVIOUS
    <3>2. shpSize' = End(points) /\ shpSize' >= feat.rec + 48
      BY <2>2, <3>1 DEF Counted
    <3>3. NumPoints' = points
      BY <1>3, <3>1 DEF NumPoints, Content, NumPointsAt
    <3>4. End(NumPoints)' = End(points)
      BY <1>3, <3>3 DEF End, Content, NumPoints
    <3> QED
      BY <3>2, <3>4
  <2> QED
    <3>1. /\ shpSize' = feat'.rec + RecordSize + 2 * shx'[Len(given')].length
          /\ At(shp', feat'.rec + 4) = shx'[Len(given')].length
          /\ shpSize' >= feat'.rec + RecordSize + NullSize
      <4>1. Len(given') = n /\ shx'[n].length = length
        BY <1>1, <1>3, <1>7
      <4>2. feat'.rec = feat.rec /\ feat.rec \in Nat
        BY <1>3, Zenon
      <4>3. /\ shpSize' = feat.rec + 8 + 2 * length /\ shpSize' >= feat.rec + 12
            /\ shpSize' \in Nat
        BY <1>7, Zenon
      <4>4. shpSize' = feat'.rec + 8 + 2 * length /\ shpSize' >= feat'.rec + 8 + 4
        BY <4>2, <4>3
      <4>5. At(shp', feat'.rec + 4) = length
        BY <1>6, <4>2
      <4> QED
        BY <4>1, <4>4, <4>5 DEF RecordSize, NullSize
    <3>2. 2 * header'.length = shpSize'
      BY <1>7
    <3>3. type' \notin PointTypes => shpSize' = End(NumPoints)' /\ shpSize' >= feat'.rec + 48
      BY <1>3, <2>2
    <3>4. type' \in PointTypes => shpSize' = PointEnd'
      BY <1>3 DEF Counted, PointEnd
    <3> QED
      BY <2>1, <3>1, <3>2, <3>3, <3>4, Zenon DEF LastInv
<1>11. HeadersInv'
  BY <1>1, <1>3, <1>7 DEF ShpInv, HeadersInv, DbfRecord
<1>12. CellsInv'
  BY <1>7 DEF CellsInv
<1>13. CountsInv'
  <2>1. type \notin PointTypes \cup MultiPointTypes => PartIdx' = done + 1
    BY <1>1, <1>2, <1>3 DEF Counted, PartIdx, NumPartsAt, Content
  <2>2. ASSUME type \notin PointTypes
        PROVE  /\ NumPoints' \in Nat /\ NumPoints' =< 2 * feat'.numPoints
               /\ calls'[n] =< Len(given'[n]) =>
                    NumPoints' = SumTo(Sizes(given'[n]), calls'[n])
    <3>1. PICK points : points = At(shp', NumPointsAt(type, Content))
      OBVIOUS
    <3>2. /\ points \in Nat /\ points =< 2 * feat.numPoints
          /\ done < Len(parts) => points = NumPoints + Len(parts[done+1].verts)
      BY <1>1, <1>2, <2>2, <3>1 DEF Counted
    <3>3. NumPoints' = points
      BY <1>3, <3>1 DEF NumPoints, Content, NumPointsAt
    <3>4. ASSUME done + 1 =< Len(parts)
          PROVE  points = SumTo(Sizes(parts), done + 1)
      <4>1. done < Len(parts) /\ done + 1 \in 1 .. Len(parts)
        BY <1>3, <3>4
      <4>2. NumPoints = SumTo(Sizes(parts), done)
        BY <1>1, <1>2, <1>3, <2>2, Zenon DEF ShpInv, CountsInv, Called
      <4>3. SumTo(Sizes(parts), done + 1) = SumTo(Sizes(parts), (done + 1) - 1) + Len(parts[done+1].verts)
        BY <1>3, <4>1, SizesFacts
      <4>4. (done + 1) - 1 = done
        BY <1>3
      <4> QED
        BY <3>2, <4>1, <4>2, <4>3, <4>4
    <3> QED
      BY <1>2, <1>3, <1>4, <3>2, <3>3, <3>4
  <2> QED
    BY <1>1, <1>3, <1>4, <2>1, <2>2 DEF CountsInv
<1> QED
  BY <1>5, <1>9, <1>10, <1>11, <1>12, <1>13 DEF ShpInv

\* Replacing the last element of a sequence leaves the others.
LEMMA LastReplaced ==
  ASSUME NEW R, NEW s \in Seq(R), NEW n \in 1 .. Len(s), n = Len(s), NEW e \in R
  PROVE  /\ [s EXCEPT ![n] = e] \in Seq(R) /\ Len([s EXCEPT ![n] = e]) = n
         /\ [s EXCEPT ![n] = e][n] = e
         /\ \A k \in 1 .. n-1 : [s EXCEPT ![n] = e][k] = s[k]
  BY ExceptSeq

\* The end of a call, which writes a record of that length, makes the record grow.
LEMMA FinishGrown ==
  ASSUME ShpInv, given /= << >>, NEW length \in Nat, length >= 2,
         At(shp', feat.rec + 4) = length, shpSize' = feat.rec + 8 + 2 * length,
         Cells(shp', shpSize'), \A b \in Int : b < feat.rec + 4 => At(shp', b) = At(shp, b),
         shx' = [shx EXCEPT ![Len(shx)].length = length],
         header'.length = shpSize' \div 2,
         shxHeader' = [shxHeader EXCEPT !.box = header'.box]
  PROVE  Grown
<1>1. PICK n : n = Len(shx)
  OBVIOUS
<1>2. PICK R : R = [offset : Nat, length : Nat]
  OBVIOUS
<1>3. shx \in Seq(R) /\ n \in Nat /\ n \in 1..n
  <2>1. PICK S : S = Seq(Parts[type])
    OBVIOUS
  <2>2. given \in Seq(S) /\ Len(shx) = Len(given)
    BY <2>1 DEF ShpInv, CallsInv, RecordsInv
  <2>3. shx \in Seq(R)
    BY <1>2 DEF ShpInv, RecordsInv
  <2> QED
    BY <1>1, <2>2, <2>3
<1>4. shx[n] \in R /\ \A k \in 1..n : shx[k] \in R
  BY <1>1, <1>3
<1>5. PICK e : e = [shx[n] EXCEPT !.length = length]
  OBVIOUS
<1>6. e \in R /\ e.offset = shx[n].offset /\ e.length = length
  BY <1>2, <1>4, <1>5
<1>7. shx' = [shx EXCEPT ![n] = e]
  BY <1>1, <1>5
<1>8. /\ shx' \in Seq(R) /\ Len(shx') = n /\ shx'[n] = e
      /\ \A k \in 1 .. n-1 : shx'[k] = shx[k]
  <2>1. PICK s, t : s = shx /\ t = shx'
    OBVIOUS
  <2>2. s \in Seq(R) /\ n = Len(s) /\ n \in 1 .. Len(s) /\ t = [s EXCEPT ![n] = e]
    BY <1>1, <1>3, <1>7, <2>1
  <2>3. t \in Seq(R) /\ Len(t) = n /\ t[n] = e /\ \A k \in 1 .. n-1 : t[k] = s[k]
    BY <1>6, <2>2, LastReplaced
  <2> QED
    BY <2>1, <2>3
<1>9. \A k \in 1..n : shx'[k].offset = shx[k].offset
  <2> SUFFICES ASSUME NEW k \in 1..n
               PROVE  shx'[k].offset = shx[k].offset
    OBVIOUS
  <2>1. CASE k = n
    BY <1>6, <1>8, <2>1
  <2>2. CASE k \in 1 .. n-1
    BY <1>8, <2>2
  <2> QED
    BY <1>3, <2>1, <2>2
<1>10. PICK half \in Nat : feat.rec = 2 * half
  <2>1. feat.rec = RecordAt(n) /\ shx[n].offset \in Nat
    BY <1>1, <1>2, <1>4 DEF ShpInv, RecordsInv
  <2> QED
    BY <2>1 DEF RecordAt
<1>11. PICK x \in Nat : x = half + 4 + length /\ shpSize' = 2 * x
  BY <1>10
<1>12. header'.length = x /\ 2 * header'.length = shpSize'
  BY <1>11, Halves
<1>13. shxHeader' = [length |-> shxHeader.length, box |-> header'.box]
  <2>1. shxHeader = [length |-> 50 + 4 * Len(given), box |-> header.box]
    BY DEF ShpInv, HeadersInv
  <2>2. PICK len, box, new : len = 50 + 4 * Len(given) /\ box = header.box /\ new = header'.box
    OBVIOUS
  <2>3. shxHeader = [length |-> len, box |-> box] /\ shxHeader' = [shxHeader EXCEPT !.box = new]
    BY <2>1, <2>2
  <2>4. shxHeader' = [length |-> len, box |-> new] /\ shxHeader.length = len
    BY <2>3
  <2> QED
    BY <2>2, <2>4
<1>14. shpSize' \in Nat /\ shpSize' >= feat.rec + 12
  BY <1>10
<1> QED
  <2>1. shx' \in Seq([offset : Nat, length : Nat])
    BY <1>2, <1>8
  <2>2. \A k \in 1 .. n-1 : shx'[k].length = shx[k].length
    BY <1>8
  <2>3. Len(shx') = n /\ shx'[n].length = length
    BY <1>6, <1>8
  <2>4. /\ shpSize' = feat.rec + RecordSize + 2 * length
        /\ shpSize' >= feat.rec + RecordSize + NullSize
    BY <1>10, <1>14 DEF RecordSize, NullSize
  <2>5. header'.length \in Nat
    BY <1>12
  <2> QED
    BY <1>1, <1>9, <1>12, <1>13, <1>14, <2>1, <2>2, <2>3, <2>4, <2>5 DEF Grown

\* The record of the last feature starts behind the header.
LEMMA RecStart ==
  ASSUME ShpInv, given /= << >>
  PROVE  feat.rec \in Nat /\ feat.rec >= 100
<1>1. PICK S : S = Seq(Parts[type])
  OBVIOUS
<1>2. given \in Seq(S)
  BY <1>1 DEF ShpInv, CallsInv
<1>3. PICK n : n = Len(given)
  OBVIOUS
<1>4. n \in 1 .. Len(given)
  BY <1>2, <1>3
<1>5. feat.rec = RecordAt(n) /\ RecordAt(n) >= 100
  BY <1>3, <1>4 DEF ShpInv, RecordsInv, HeaderSize
<1> QED
  BY <1>5 DEF ShpInv, CallsInv

LEMMA PointGrown ==
  ASSUME ShpInv, given /= << >>, NEW p \in Parts[type], AddPoint(p)
  PROVE  Grown /\ Counted
<1>1. PICK v : v = p.verts[1]
  OBVIOUS
<1>2. PICK m \in {2, 3, 4} : m = IF HasZ(type) THEN 4 ELSE IF HasM(type) THEN 3 ELSE 2
  OBVIOUS
<1>3. PICK vals : vals = <<v[1], v[2]>> \o (IF HasZ(type) THEN <<v[3]>> ELSE << >>)
                                       \o (IF HasM(type) THEN <<v[4]>> ELSE << >>)
  OBVIOUS
<1>4. type \in PointTypes /\ type \in Types /\ type \in Int
  <2>1. type \in PointTypes /\ type \in Types
    BY DEF AddPoint, ShpInv, CallsInv
  <2> QED
    BY <2>1 DEF PointTypes
<1>5. Values(vals, m) /\ Len(vals) = m
  <2>1. v[1] \in Int /\ v[2] \in Int /\ v[3] \in Int /\ v[4] \in Int
    <3>1. Len(p.verts) = 1 /\ Vertices(p.verts, Len(p.verts))
      BY <1>4, PartFacts
    <3>2. v \in Int \X Int \X Int \X Int
      BY <1>1, <3>1 DEF Vertices
    <3> QED
      BY <3>2
  <2>2. PICK a, b, d : /\ a = <<v[1], v[2]>> /\ b = (IF HasZ(type) THEN <<v[3]>> ELSE << >>)
                       /\ d = (IF HasM(type) THEN <<v[4]>> ELSE << >>)
    OBVIOUS
  <2>3. a \in Seq(Int) /\ b \in Seq(Int) /\ d \in Seq(Int)
    BY <2>1, <2>2
  <2>4. Len(a) = 2 /\ Len(b) = (IF HasZ(type) THEN 1 ELSE 0) /\ Len(d) = (IF HasM(type) THEN 1 ELSE 0)
    BY <2>2
  <2>5. vals = (a \o b) \o d
    BY <1>3, <2>2
  <2>6. vals \in Seq(Int) /\ Len(vals) = (Len(a) + Len(b)) + Len(d)
    BY <2>3, <2>5
  <2>7. Len(vals) = m
    BY <1>2, <2>4, <2>6 DEF HasM
  <2> QED
    BY <2>6, <2>7 DEF Values
<1>6. PICK rec \in Nat, c \in Nat, hi \in Nat, length \in Nat :
        /\ rec = feat.rec /\ c = Content /\ c = rec + 8 /\ hi = Content + 4 + 8 * Len(vals)
        /\ hi = rec + 12 + 8 * m /\ length = 2 + 4 * m /\ ContentLength(hi) = length
        /\ rec >= 100
  <2>1. PICK rec \in Nat : rec = feat.rec /\ rec >= 100
    <3>1. feat.rec \in Nat /\ feat.rec >= 100
      BY RecStart
    <3> QED
      BY <3>1
  <2>2. PICK c \in Nat, hi \in Nat, length \in Nat :
          c = rec + 8 /\ hi = rec + 12 + 8 * m /\ length = 2 + 4 * m
    OBVIOUS
  <2>3. c = Content /\ hi = Content + 4 + 8 * Len(vals)
    BY <1>5, <2>1, <2>2 DEF Content, RecordSize
  <2>4. ContentLength(hi) = length
    <3>1. hi - Content = 2 * length
      BY <2>2, <2>3
    <3> QED
      BY <2>2, <3>1, Halves DEF ContentLength
  <2> QED
    BY <2>1, <2>2, <2>3, <2>4
<1>7. rec = feat.rec /\ c = rec + 8 /\ hi = rec + 12 + 8 * m /\ length = 2 + 4 * m /\ rec >= 100
  BY <1>6, Zenon
<1>8. c = rec + 8 /\ hi = rec + 12 + 8 * m /\ length = 2 + 4 * m /\ rec >= 100
  BY <1>6, Zenon
<1>9. Cells(shp, hi)
  <2>1. Cells(shp, shpSize)
    BY DEF ShpInv, CellsInv
  <2>2. CASE Begun
    <3>1. shpSize = PointEnd
      BY <1>4, <2>2 DEF ShpInv, LastInv
    <3>2. shpSize = hi
      BY <1>2, <1>7, <3>1 DEF PointEnd
    <3> QED
      BY <2>1, <3>2
  <2>3. CASE ~Begun
    <3>1. \A a \in DOMAIN shp : a =< feat.rec
      BY <2>3 DEF ShpInv, LastInv
    <3> QED
      BY SMTT(30), <1>7, <2>1, <3>1 DEF Cells, HeaderSize
  <2> QED
    BY <2>2, <2>3
<1>10. PICK m1, m2, new : /\ m1 = Put(shp, c, 4, <<type>>) /\ m2 = Put(m1, c + 4, 8, vals)
                         /\ new = shp'
  OBVIOUS
<1>11. /\ shpSize' = hi /\ shp' = Put(m2, rec + 4, 4, <<length>>)
       /\ shx' = [shx EXCEPT ![Len(shx)].length = length]
       /\ header'.length = hi \div 2
       /\ shxHeader' = [shxHeader EXCEPT !.box = header'.box]
  <2>1. PICK box : Finish(hi, m2, box)
    <3>1. PICK len, t : len = Len(vals) /\ t = Content + 4 + 8 * len
      OBVIOUS
    <3>2. t = hi /\ m2 = Put(Put(shp, Content, 4, <<type>>), Content + 4, 8, vals)
      BY <1>6, <1>10, <3>1
    <3> QED
      BY <1>1, <1>3, <3>1, <3>2, Zenon DEF AddPoint
  <2>2. /\ shpSize' = hi /\ shp' = Put(m2, feat.rec + 4, 4, <<length>>)
        /\ shx' = [shx EXCEPT ![Len(shx)].length = length]
        /\ header' = [length |-> hi \div 2, box |-> box]
        /\ shxHeader' = [shxHeader EXCEPT !.box = box]
    BY <1>6, <2>1, Zenon DEF Finish
  <2>3. header'.length = hi \div 2 /\ header'.box = box
    BY <2>2
  <2> QED
    BY <1>6, <2>2, <2>3, Zenon
<1>12. Cells(m1, hi) /\ \A b \in Int : b < c => At(m1, b) = At(shp, b)
  <2>1. PICK w : w = <<type>>
    OBVIOUS
  <2>2. Values(w, 1) /\ m1 = Put(shp, c, 4, w)
    BY <1>4, <1>10, <2>1 DEF Values
  <2>3. Fits(c, 4, 1, hi)
    BY <1>8 DEF Fits, Cell, HeaderSize
  <2> QED
    BY <1>9, <2>2, <2>3, PutInside
<1>13. Cells(m2, hi) /\ \A b \in Int : b < c => At(m2, b) = At(m1, b)
  <2>1. Fits(c + 4, 8, m, hi) /\ m \in Nat /\ c + 4 \in Int
    BY <1>8 DEF Fits, Cell, HeaderSize
  <2>2. Cells(m2, hi) /\ \A b \in Int : b < c + 4 => At(m2, b) = At(m1, b)
    BY <1>5, <1>10, <1>12, <2>1, PutInside
  <2> QED
    BY <2>2
<1>14. /\ Cells(new, hi) /\ At(new, rec + 4) = length
       /\ \A b \in Int : b < rec + 4 => At(new, b) = At(m2, b)
  <2>1. PICK r \in Int : r = rec + 4
    OBVIOUS
  <2>2. PICK w : w = <<length>>
    OBVIOUS
  <2>3. Values(w, 1) /\ w[1] = length /\ new = Put(m2, r, 4, w)
    BY <1>10, <1>11, <2>1, <2>2 DEF Values
  <2>4. Fits(r, 4, 1, hi) /\ Cell(r, 4, 1) = r
    BY <1>8, <2>1 DEF Fits, Cell, HeaderSize
  <2>5. /\ Cells(new, hi)
        /\ \A b \in Int : b < r \/ b > Cell(r, 4, 1) => At(new, b) = At(m2, b)
        /\ \A k \in 1..1 : At(new, Cell(r, 4, k)) = w[k]
    BY <1>13, <2>3, <2>4, PutInside
  <2>6. At(new, Cell(r, 4, 1)) = w[1]
    BY <2>5
  <2> QED
    BY <2>1, <2>3, <2>4, <2>5, <2>6
<1>15. Grown
  <2>1. \A b \in Int : b < rec + 4 => At(new, b) = At(shp, b)
    BY <1>8, <1>12, <1>13, <1>14
  <2>2. shpSize' = rec + 8 + 2 * length /\ Cells(new, shpSize') /\ header'.length = shpSize' \div 2
    <3>1. shpSize' = hi /\ header'.length = hi \div 2
      BY <1>11
    <3>2. hi = rec + 8 + 2 * length
      BY <1>8
    <3> QED
      BY <1>14, <3>1, <3>2
  <2>3. length >= 2
    BY <1>8
  <2>4. rec = feat.rec /\ new = shp'
    BY <1>6, <1>10
  <2>5. /\ \A b \in Int : b < feat.rec + 4 => At(shp', b) = At(shp, b)
        /\ shpSize' = feat.rec + 8 + 2 * length /\ Cells(shp', shpSize')
        /\ At(shp', feat.rec + 4) = length
    BY <1>14, <2>1, <2>2, <2>4, Zenon
  <2> QED
    BY <1>11, <2>2, <2>3, <2>5, FinishGrown
<1>16. Counted
  BY <1>2, <1>4, <1>7, <1>11 DEF Counted, PointEnd
<1> QED
  BY <1>15, <1>16

\* A part that comes next, or that comes again, has room.
LEMMA RoomThere ==
  ASSUME ShpInv, given /= << >>, type \notin PointTypes,
         NEW parts, parts = given[Len(given)], parts /= << >>,
         NEW done, done = calls[Len(given)], done =< Len(parts),
         NEW p, p = parts[Min({done + 1, Len(parts)})], NEW n, n = Len(p.verts)
  PROVE  /\ p \in Parts[type] /\ n \in Nat \ {0} /\ RoomFor(n)
         /\ done < Len(parts) => p = parts[done+1]
<1>1. PICK S : S = Seq(Parts[type])
  OBVIOUS
<1>2. /\ given \in Seq(S) /\ calls \in Seq(Nat) /\ Len(calls) = Len(given) /\ type \in Types
      /\ feat.rec \in Nat /\ feat.numParts \in Nat /\ feat.numPoints \in Nat
      /\ feat.numPoints = Total(parts)
  BY <1>1 DEF ShpInv, CallsInv
<1>3. Len(given) \in 1 .. Len(given) /\ parts \in S /\ done \in Nat
  BY <1>2
<1>4. PICK m \in Nat \ {0} : m = Len(parts) /\ DOMAIN parts = 1..m
  BY <1>1, <1>3
<1>5. PICK k \in 1..m : k = Min({done + 1, m}) /\ k = IF done < m THEN done + 1 ELSE m
  <2>1. done + 1 \in Int /\ m \in Int
    BY <1>3
  <2>2. Min({done + 1, m}) = IF done + 1 =< m THEN done + 1 ELSE m
    BY <2>1, MinMaxOfTwo
  <2> QED
    BY <1>3, <2>2
<1>6. p = parts[k] /\ p \in Parts[type]
  <2>1. p = parts[k]
    BY <1>4, <1>5
  <2> QED
    BY <1>1, <1>3, <1>4, <2>1
<1>7. n \in Nat \ {0} /\ type \in ShpType
  BY <1>2, <1>6, PartFacts
<1>8. NumPoints \in Nat /\ NumPoints = SumTo(Sizes(parts), done)
  BY <1>2, <1>3, Zenon DEF ShpInv, CountsInv
<1>9. NumPoints + n =< 2 * feat.numPoints
  <2>1. /\ \A i \in 0..m : SumTo(Sizes(parts), i) \in Nat /\ SumTo(Sizes(parts), i) =< Total(parts)
        /\ \A i \in 1..m : SumTo(Sizes(parts), i) = SumTo(Sizes(parts), i-1) + Len(parts[i].verts)
    BY <1>1, <1>2, <1>3, <1>4, SizesFacts
  <2>2. PICK sum : sum = [i \in 0..m |-> SumTo(Sizes(parts), i)]
    OBVIOUS
  <2>3. PICK total \in Nat, x \in Nat : total = Total(parts) /\ x = Len(p.verts)
    BY <1>1, <1>2, <1>3, <1>7, SizesFacts
  <2>4. \A i \in 0..m : sum[i] \in Nat /\ sum[i] =< total /\ sum[i] = SumTo(Sizes(parts), i)
    BY <2>1, <2>2, <2>3
  <2>5. PICK low \in Nat, high \in Nat :
          low = sum[k-1] /\ high = sum[k] /\ high = low + x /\ high =< total
    <3>1. k - 1 \in 0..m /\ k \in 0..m
      OBVIOUS
    <3>2. SumTo(Sizes(parts), k) = SumTo(Sizes(parts), k-1) + x
      BY <1>6, <2>1, <2>3
    <3> QED
      BY <2>4, <3>1, <3>2
  <2>6. NumPoints = IF done < m THEN low ELSE high
    <3>1. done \in 0..m /\ NumPoints = sum[done]
      BY <1>3, <1>4, <1>8, <2>4
    <3> QED
      BY <1>5, <2>5, <3>1
  <2>7. low + x =< total /\ high + x =< 2 * total
    BY <2>5
  <2>8. n = x /\ feat.numPoints = total
    BY <1>2, <2>3
  <2> QED
    BY <2>6, <2>7, <2>8
<1>10. Cells(shp, NewEnd(n))
  <2>1. PICK a \in Nat, q \in {8, 16} :
          \A points \in Nat : End(points) = feat.rec + 2*a + q*points
    BY <1>2, <1>7, EndFacts
  <2>2. PICK old \in Nat, rec \in Nat, x \in Nat \ {0} :
          old = NumPoints /\ rec = feat.rec /\ x = Len(p.verts)
    BY <1>2, <1>7, <1>8
  <2>3. PICK low \in Nat, high \in Nat :
          low = rec + 2*a + q*old /\ high = rec + 2*a + q*(old + x) /\ low =< high /\ high > rec
    <3>1. CASE q = 8
      BY <3>1
    <3>2. CASE q = 16
      BY <3>2
    <3> QED
      BY <3>1, <3>2
  <2>4. End(old) = low /\ End(old + x) = high
    <3>1. old + x \in Nat
      OBVIOUS
    <3> QED
      BY <2>1, <2>2, <2>3, <3>1
  <2>5. NewEnd(n) = high
    BY <2>2, <2>4 DEF NewEnd
  <2>6. low =< high /\ high > rec
    BY <2>3, Zenon
  <2>7. Cells(shp, shpSize)
    BY DEF ShpInv, CellsInv
  <2>8. CASE Begun
    <3>1. shpSize = low
      BY <2>2, <2>4, <2>8 DEF ShpInv, LastInv
    <3>2. Cells(shp, low)
      BY <2>7, <3>1
    <3>3. Cells(shp, high)
      BY <2>6, <3>2 DEF Cells, HeaderSize
    <3> QED
      BY <2>5, <3>3
  <2>9. CASE ~Begun
    <3>1. \A b \in DOMAIN shp : b =< rec
      BY <2>2, <2>9 DEF ShpInv, LastInv
    <3>2. \A b \in DOMAIN shp : b \in Int /\ b >= 100 /\ shp[b] \in Int
      <4>1. PICK size \in Nat : size = shpSize
        BY DEF ShpInv, CellsInv
      <4> QED
        BY <2>7, <4>1 DEF Cells, HeaderSize
    <3>3. Cells(shp, high)
      BY <2>6, <3>1, <3>2 DEF Cells, HeaderSize
    <3> QED
      BY <2>5, <3>3
  <2> QED
    BY <2>8, <2>9
<1>11. RoomFor(n)
  BY <1>2, <1>7, <1>8, <1>9, <1>10, RecStart DEF RoomFor, HeaderSize
<1> QED
  BY <1>4, <1>5, <1>6, <1>7, <1>11

\* mem is the memory with a part more in the last record, which counts it.
PartNoted(mem, n) ==
  /\ Cells(mem, NewEnd(n)) /\ \A b \in Int : b < feat.rec + 4 => At(mem, b) = At(shp, b)
  /\ type \notin MultiPointTypes => At(mem, NumPartsAt(Content)) = calls[Len(given)] + 1

LEMMA VerticesGrown ==
  ASSUME ShpInv, given /= << >>, NEW p, NEW n \in Nat \ {0}, RoomFor(n),
         NEW vs, Vertices(vs, n), NEW mem, PartNoted(mem, n), AddVertices(p, vs, mem),
         calls[Len(given)] < Len(given[Len(given)]) =>
           n = Len(given[Len(given)][calls[Len(given)] + 1].verts)
  PROVE  Grown /\ Counted
<1>1. PICK new, c, at, L : /\ new = shp' /\ c = Content /\ at = NumPointsAt(type, c)
                          /\ L = ContentLength(NewEnd(n))
  OBVIOUS
<1>2. Cells(mem, NewEnd(n)) /\ \A b \in Int : b < feat.rec + 4 => At(mem, b) = At(shp, b)
  BY DEF PartNoted
<1>3. /\ shpSize' = NewEnd(n) /\ NewEnd(n) \in Nat /\ NewEnd(n) >= feat.rec + 48
      /\ RecordHas(p, vs, n, mem, new)
      /\ shx' = [shx EXCEPT ![Len(shx)].length = L]
      /\ header'.length = NewEnd(n) \div 2
      /\ shxHeader' = [shxHeader EXCEPT !.box = header'.box]
  <2>1. /\ shpSize' = NewEnd(n) /\ NewEnd(n) \in Nat /\ NewEnd(n) >= feat.rec + 48
        /\ RecordHas(p, vs, n, mem, shp')
        /\ shx' = [shx EXCEPT ![Len(shx)].length = ContentLength(NewEnd(n))]
        /\ header' = [length |-> NewEnd(n) \div 2, box |-> HullOf(p, vs, PutAll(p, vs, mem))]
        /\ shxHeader' = [shxHeader EXCEPT !.box = header'.box]
    BY <1>2, VerticesWritten
  <2>2. header'.length = NewEnd(n) \div 2
    BY <2>1
  <2> QED
    BY <1>1, <2>1, <2>2, Zenon
<1>4. /\ Cells(new, NewEnd(n)) /\ At(new, feat.rec + 4) = L
      /\ At(new, at) = NumPoints + n
      /\ \A b \in Int : b < feat.rec + 4 => At(new, b) = At(shp, b)
      /\ type \notin MultiPointTypes => At(new, NumPartsAt(c)) = At(mem, NumPartsAt(c))
  BY <1>1, <1>2, <1>3 DEF RecordHas
<1>5. PICK rec \in Nat, old \in Nat : rec = feat.rec /\ old = NumPoints
  BY DEF RoomFor
<1>6. PICK length \in Nat : length = L /\ NewEnd(n) = rec + 8 + 2 * length /\ length >= 2
  <2>1. type \in ShpType \ PointTypes /\ feat.rec \in Nat /\ feat.numParts \in Nat
        /\ feat.numPoints \in Nat
    BY DEF RoomFor
  <2>2. PICK a \in Nat, q \in {8, 16} :
          \A points \in Nat : End(points) = feat.rec + 2*a + q*points
    BY <2>1, EndFacts
  <2>3. PICK x \in Nat, hi \in Nat : x = old + n /\ hi = NewEnd(n)
    BY <1>3, <1>5
  <2>4. hi = rec + 2*a + q*x
    BY <1>5, <2>2, <2>3 DEF NewEnd
  <2>5. hi >= rec + 48
    BY <1>3, <1>5, <2>3
  <2>6. PICK length \in Nat : hi = rec + 8 + 2 * length /\ length >= 2
    <3>1. CASE q = 8
      <4>1. PICK length \in Int : length = a + 4*x - 4 /\ hi = rec + 8 + 2 * length
        BY <2>4, <3>1
      <4>2. length >= 2 /\ length \in Nat
        BY <2>5, <4>1
      <4> QED
        BY <4>1, <4>2
    <3>2. CASE q = 16
      <4>1. PICK length \in Int : length = a + 8*x - 4 /\ hi = rec + 8 + 2 * length
        BY <2>4, <3>2
      <4>2. length >= 2 /\ length \in Nat
        BY <2>5, <4>1
      <4> QED
        BY <4>1, <4>2
    <3> QED
      BY <3>1, <3>2
  <2>7. L = length
    <3>1. Content = rec + 8
      BY <1>5 DEF Content, RecordSize
    <3>2. hi - Content = 2 * length
      BY <2>6, <3>1
    <3>3. (hi - Content) \div 2 = length
      BY <3>2, Halves
    <3> QED
      BY <1>1, <2>3, <3>3 DEF ContentLength
  <2> QED
    BY <2>3, <2>6, <2>7
<1>7. Grown
  <2>1. /\ At(shp', feat.rec + 4) = length /\ shpSize' = feat.rec + 8 + 2 * length
        /\ Cells(shp', shpSize') /\ header'.length = shpSize' \div 2
        /\ shx' = [shx EXCEPT ![Len(shx)].length = length]
        /\ shxHeader' = [shxHeader EXCEPT !.box = header'.box] /\ length >= 2
        /\ \A b \in Int : b < feat.rec + 4 => At(shp', b) = At(shp, b)
    BY <1>1, <1>3, <1>4, <1>5, <1>6, Zenon
  <2> QED
    BY <2>1, FinishGrown
<1>8. Counted
  <2>1. PICK points, done, parts : points = At(new, at) /\ done = calls[Len(given)]
                                   /\ parts = given[Len(given)]
    OBVIOUS
  <2>2. points = NumPoints + n /\ points \in Nat /\ points =< 2 * feat.numPoints
    BY <1>4, <1>5, <2>1 DEF RoomFor
  <2>3. shpSize' = End(points) /\ shpSize' >= feat.rec + 48
    BY <1>3, <2>2 DEF NewEnd
  <2>4. done < Len(parts) => points = NumPoints + Len(parts[done+1].verts)
    BY <2>1, <2>2
  <2>5. type \notin MultiPointTypes => At(new, NumPartsAt(c)) = done + 1
    BY <1>1, <1>4, <2>1 DEF PartNoted
  <2>6. type \notin PointTypes
    BY DEF RoomFor
  <2> QED
    BY <1>1, <2>1, <2>2, <2>3, <2>4, <2>5, <2>6 DEF Counted
<1> QED
  BY <1>7, <1>8

\* One value is written inside of the file.
LEMMA PutOne ==
  ASSUME NEW mem, NEW hi \in Nat, Cells(mem, hi), NEW a \in Int, a >= 100, a < hi, NEW x \in Int
  PROVE  /\ Cells(Put(mem, a, 4, <<x>>), hi) /\ At(Put(mem, a, 4, <<x>>), a) = x
         /\ \A b \in Int : b /= a => At(Put(mem, a, 4, <<x>>), b) = At(mem, b)
<1>1. PICK v, new : v = <<x>> /\ new = Put(mem, a, 4, <<x>>)
  OBVIOUS
<1>2. Values(v, 1) /\ v[1] = x /\ new = Put(mem, a, 4, v)
  BY <1>1 DEF Values
<1>3. Fits(a, 4, 1, hi) /\ Cell(a, 4, 1) = a
  BY DEF Fits, Cell, HeaderSize
<1>4. /\ Cells(new, hi)
      /\ \A b \in Int : b < a \/ b > Cell(a, 4, 1) => At(new, b) = At(mem, b)
      /\ \A k \in 1..1 : At(new, Cell(a, 4, k)) = v[k]
  BY <1>2, <1>3, PutInside
<1>5. At(new, Cell(a, 4, 1)) = v[1]
  BY <1>4
<1> QED
  BY <1>1, <1>2, <1>3, <1>4, <1>5

\* A part that is begun is counted in front of the points, and so is the type of a patch.
LEMMA BegunNoted ==
  ASSUME ShpInv, given /= << >>, type \notin PointTypes \cup MultiPointTypes,
         NEW n \in Nat \ {0}, RoomFor(n),
         PartIdx < feat.numParts \/ (type = MultiPatch /\ PartIdx =< feat.numParts)
  PROVE  /\ PartNoted(PartBegun, n)
         /\ type = MultiPatch => \A code \in Int :
              PartNoted(Put(PartBegun, PatchTypesAt(Content, feat.numParts) + 4 * PartIdx, 4, <<code>>), n)
<1>1. PICK done \in Nat : done = calls[Len(given)] /\ done = PartIdx
  <2>1. PICK S : S = Seq(Parts[type])
    OBVIOUS
  <2>2. given \in Seq(S) /\ calls \in Seq(Nat) /\ Len(calls) = Len(given)
    BY <2>1 DEF ShpInv, CallsInv
  <2>3. calls[Len(given)] \in Nat
    BY <2>2
  <2>4. PartIdx = calls[Len(given)]
    BY DEF ShpInv, CountsInv
  <2> QED
    BY <2>3, <2>4
<1>2. PICK rec \in Nat, parts \in Nat, hi \in Nat, old \in Nat :
        /\ rec = feat.rec /\ parts = feat.numParts /\ hi = NewEnd(n) /\ old = NumPoints
        /\ rec >= 100
        /\ hi > rec + 52 + 4 * parts
        /\ type = MultiPatch => hi > rec + 52 + 8 * parts
        /\ Content = rec + 8 /\ NumPartsAt(Content) = rec + 44 /\ PartsAt(Content) = rec + 52
        /\ type = MultiPatch => PatchTypesAt(Content, parts) = rec + 52 + 4 * parts
  <2>1. PICK rec \in Nat, old \in Nat, np \in Nat, parts \in Nat :
          rec = feat.rec /\ old = NumPoints /\ np = feat.numPoints /\ parts = feat.numParts
    BY DEF RoomFor
  <2>2. PICK c, at, xy, z, mb :
          /\ c = Content /\ at = NumPointsAt(type, c) /\ xy = PointsAt(type, c, feat.numParts)
          /\ z = ZBlockAt(type, c, feat.numParts, feat.numPoints)
          /\ mb = MBlockAt(type, c, feat.numParts, feat.numPoints)
    OBVIOUS
  <2>3. PICK total : total = old + n
    OBVIOUS
  <2>4. /\ type \in ShpType \ PointTypes /\ total \in Nat \ {0} /\ total =< 2 * feat.numPoints
        /\ feat.rec \in Nat /\ feat.numParts \in Nat /\ feat.numPoints \in Nat /\ rec >= 100
    BY <2>1, <2>3 DEF RoomFor, HeaderSize
  <2>5. /\ c = feat.rec + 8
        /\ type \notin MultiPointTypes => at = c + 40 /\ PartsAt(c) = c + 44 /\ xy >= c + 44 + 4 * feat.numParts
    BY <2>2, <2>4, Layout
  <2>6. ASSUME type = MultiPatch
        PROVE  PatchTypesAt(c, feat.numParts) = c + 44 + 4 * feat.numParts
               /\ xy = c + 44 + 8 * feat.numParts
    <3>1. type \notin MultiPointTypes
      BY <2>6 DEF MultiPointTypes, MultiPatch
    <3>2. xy = PartsAt(c) + 8 * feat.numParts
      BY <2>2, <2>6, <3>1 DEF PointsAt
    <3> QED
      BY <2>5, <3>1, <3>2 DEF PatchTypesAt
  <2>7. xy \in Int /\ xy + 16 * total =< End(total) /\ End(total) \in Nat
    BY <2>2, <2>4, Layout
  <2>8. PICK hi \in Nat : hi = NewEnd(n) /\ hi = End(total)
    BY <2>1, <2>3, <2>7 DEF NewEnd
  <2>9. c = rec + 8 /\ xy >= rec + 52 + 4 * parts /\ (type = MultiPatch => xy = rec + 52 + 8 * parts)
    BY <2>1, <2>5, <2>6
  <2>10. xy < hi
    BY <2>4, <2>7, <2>8
  <2>11. hi > rec + 52 + 4 * parts /\ (type = MultiPatch => hi > rec + 52 + 8 * parts)
    BY <2>7, <2>9, <2>10
  <2>12. Content = rec + 8
    BY <2>2, <2>9
  <2>13. NumPartsAt(Content) = rec + 44
    BY <2>1, <2>12 DEF NumPartsAt
  <2>14. PartsAt(Content) = rec + 52
    BY <2>1, <2>12 DEF PartsAt
  <2>15. type = MultiPatch => PatchTypesAt(Content, parts) = rec + 52 + 4 * parts
    BY <2>1, <2>14 DEF PatchTypesAt
  <2> QED
    BY <2>1, <2>4, <2>8, <2>11, <2>12, <2>13, <2>14, <2>15
<1>3. /\ rec >= 100 /\ hi > rec + 52 + 4 * parts /\ done =< parts
      /\ type = MultiPatch => hi > rec + 52 + 8 * parts
      /\ done < parts \/ type = MultiPatch
  <2>1. /\ rec >= 100 /\ hi > rec + 52 + 4 * parts /\ parts = feat.numParts
        /\ type = MultiPatch => hi > rec + 52 + 8 * parts
    BY <1>2, Zenon
  <2>2. done =< parts /\ (done < parts \/ type = MultiPatch)
    BY <1>1, <2>1
  <2> QED
    BY <2>1, <2>2
<1>4. PICK m1, m2 : /\ m1 = Put(shp, rec + 44, 4, <<done + 1>>)
                    /\ m2 = Put(m1, rec + 52 + 4 * done, 4, <<old>>)
  OBVIOUS
<1>5. m2 = PartBegun
  BY <1>1, <1>2, <1>4 DEF PartBegun
<1>6. Cells(shp, hi)
  BY <1>2 DEF RoomFor
<1>7. PICK a1 \in Int, a2 \in Int, a3 \in Int :
        a1 = rec + 44 /\ a2 = rec + 52 + 4 * done /\ a3 = rec + 52 + 4 * parts + 4 * done
  OBVIOUS
<1>8. /\ a1 >= 100 /\ a1 < hi /\ a2 > a1 /\ a2 < hi /\ a3 > a1 /\ (type = MultiPatch => a3 < hi)
      /\ a1 > rec + 4 /\ a2 > rec + 4 /\ a3 > rec + 4
  BY <1>3, <1>7
<1>9. /\ Cells(m1, hi) /\ At(m1, rec + 44) = done + 1
      /\ \A b \in Int : b < rec + 4 => At(m1, b) = At(shp, b)
  <2>1. m1 = Put(shp, a1, 4, <<done + 1>>) /\ done + 1 \in Int
    BY <1>4, <1>7
  <2>2. /\ Cells(m1, hi) /\ At(m1, a1) = done + 1
        /\ \A b \in Int : b /= a1 => At(m1, b) = At(shp, b)
    BY <1>6, <1>8, <2>1, PutOne
  <2> QED
    BY <1>7, <1>8, <2>2
<1>10. /\ Cells(m2, hi) /\ At(m2, rec + 44) = done + 1
       /\ \A b \in Int : b < rec + 4 => At(m2, b) = At(shp, b)
  <2>1. m2 = Put(m1, a2, 4, <<old>>) /\ old \in Int /\ a2 >= 100
    BY <1>4, <1>7, <1>8
  <2>2. /\ Cells(m2, hi)
        /\ \A b \in Int : b /= a2 => At(m2, b) = At(m1, b)
    BY <1>8, <1>9, <2>1, PutOne
  <2>3. At(m2, a1) = At(m1, a1)
    BY <1>8, <2>2
  <2> QED
    BY <1>7, <1>8, <1>9, <2>2, <2>3
<1>11. PartNoted(m2, n)
  BY <1>1, <1>2, <1>10 DEF PartNoted
<1>12. ASSUME type = MultiPatch, NEW code \in Int
       PROVE  PartNoted(Put(PartBegun, PatchTypesAt(Content, feat.numParts) + 4 * PartIdx, 4, <<code>>), n)
  <2>1. PICK m3 : m3 = Put(m2, a3, 4, <<code>>)
    OBVIOUS
  <2>2. a3 >= 100 /\ a3 < hi
    BY <1>8, <1>12
  <2>3. /\ Cells(m3, hi)
        /\ \A b \in Int : b /= a3 => At(m3, b) = At(m2, b)
    BY <1>10, <2>1, <2>2, PutOne
  <2>4. At(m3, a1) = At(m2, a1)
    BY <1>8, <2>3
  <2>5. /\ At(m3, rec + 44) = done + 1
        /\ \A b \in Int : b < rec + 4 => At(m3, b) = At(shp, b)
    BY <1>7, <1>8, <1>10, <2>3, <2>4
  <2>6. PartNoted(m3, n)
    BY <1>1, <1>2, <2>3, <2>5 DEF PartNoted
  <2>7. PatchTypesAt(Content, feat.numParts) + 4 * PartIdx = a3
    BY <1>1, <1>2, <1>7, <1>12
  <2> QED
    BY <1>5, <2>1, <2>6, <2>7
<1> QED
  BY <1>5, <1>11, <1>12

\* A part that is refused moves nothing but its counter.
LEMMA RefusedGrown ==
  ASSUME ShpInv, given /= << >>, given[Len(given)] /= << >>, RefusePart
  PROVE  Grown /\ Counted
<1>1. PICK n, parts, done : n = Len(given) /\ parts = given[n] /\ done = calls[n]
  OBVIOUS
<1>2. /\ n \in Nat /\ n \in 1..n /\ n = Len(shx) /\ done \in Nat /\ Len(parts) \in Nat \ {0}
      /\ feat.numParts = Len(parts) /\ type \in Types
  <2>1. PICK S, P : S = Seq(P) /\ P = Parts[type]
    OBVIOUS
  <2>2. given \in Seq(S) /\ calls \in Seq(Nat) /\ Len(calls) = Len(given) /\ Len(shx) = Len(given)
    BY <2>1 DEF ShpInv, CallsInv, RecordsInv
  <2>3. n \in Nat /\ n \in 1..n /\ done \in Nat /\ parts \in S
    BY <1>1, <2>2
  <2>4. Len(parts) \in Nat \ {0}
    BY <1>1, <2>1, <2>3
  <2>5. feat.numParts = Len(parts) /\ type \in Types
    BY <1>1 DEF ShpInv, CallsInv
  <2> QED
    BY <1>1, <2>2, <2>3, <2>4, <2>5
<1>3. type \notin PointTypes /\ type \notin MultiPointTypes /\ type \in ShpType
  <2>1. type \in PolylineTypes \cup PolygonTypes
    BY DEF RefusePart
  <2> QED
    BY <2>1 DEF PolylineTypes, PolygonTypes, PointTypes, MultiPointTypes, ShpType
<1>4. PartIdx = done /\ done >= Len(parts)
  <2>1. PartIdx = done
    BY <1>1, <1>3 DEF ShpInv, CountsInv
  <2> QED
    BY <1>2, <2>1 DEF RefusePart
<1>5. PICK rec \in Nat, size \in Nat, length \in Nat :
        rec = feat.rec /\ size = shpSize /\ length = shx[n].length
  <2>1. PICK R : R = [offset : Nat, length : Nat]
    OBVIOUS
  <2>2. shx \in Seq(R)
    BY <2>1 DEF ShpInv, RecordsInv
  <2>3. shx[n] \in R
    BY <1>2, <2>2
  <2>4. shx[n].length \in Nat
    BY <2>1, <2>3
  <2> QED
    BY <2>4 DEF ShpInv, CallsInv, CellsInv
<1>6. /\ size >= rec + 48 /\ shpSize = End(NumPoints) /\ Cells(shp, size)
      /\ At(shp, rec + 4) = length /\ size = rec + 8 + 2 * length /\ 2 * header.length = size
  <2>1. Begun
    <3>1. done > 0
      BY <1>2, <1>4
    <3> QED
      BY <1>1, <3>1 DEF Begun
  <2>2. Cells(shp, size)
    BY <1>5 DEF ShpInv, CellsInv
  <2> QED
    BY <1>1, <1>3, <1>5, <2>1, <2>2 DEF ShpInv, LastInv, RecordSize
<1>7. PICK new : new = shp'
  OBVIOUS
<1>8. /\ Cells(new, size) /\ At(new, rec + 44) = done + 1
      /\ \A b \in Int : b /= rec + 44 => At(new, b) = At(shp, b)
  <2>1. PICK a \in Int : a = rec + 44 /\ a >= 100 /\ a < size
    <3>1. rec >= 100
      BY <1>5, RecStart
    <3>2. size >= rec + 48
      BY <1>6
    <3> QED
      BY <3>1, <3>2
  <2>2. new = Put(shp, a, 4, <<done + 1>>) /\ done + 1 \in Int
    BY SMTT(30), <1>2, <1>4, <1>5, <1>7, <2>1 DEF RefusePart, NumPartsAt, Content, RecordSize
  <2>3. /\ Cells(new, size) /\ At(new, a) = done + 1
        /\ \A b \in Int : b /= a => At(new, b) = At(shp, b)
    BY <1>6, <2>1, <2>2, PutOne
  <2> QED
    BY <2>1, <2>3
<1>9. Grown
  <2>1. UNCHANGED <<shpSize, header, shxHeader, shx>>
    BY DEF RefusePart
  <2>2. At(new, rec + 4) = length
    BY <1>6, <1>8
  <2>3. shxHeader' = [length |-> shxHeader.length, box |-> header'.box]
    <3>1. shxHeader = [length |-> 50 + 4 * Len(given), box |-> header.box]
      BY DEF ShpInv, HeadersInv
    <3>2. shxHeader.length = 50 + 4 * Len(given)
      BY <3>1
    <3>3. shxHeader' = shxHeader /\ header' = header
      BY <2>1
    <3> QED
      BY <3>1, <3>2, <3>3, Zenon
  <2>4. shx' \in Seq([offset : Nat, length : Nat]) /\ header'.length \in Nat
    BY <2>1 DEF ShpInv, RecordsInv, HeadersInv
  <2>5. /\ shpSize' = feat.rec + RecordSize + 2 * length
        /\ shpSize' >= feat.rec + RecordSize + NullSize
    BY SMTT(30), <1>5, <1>6, <2>1 DEF RecordSize, NullSize
  <2>6. \A b \in Int : b < feat.rec + 4 => At(new, b) = At(shp, b)
    BY <1>5, <1>8
  <2>7. Cells(new, shpSize') /\ shpSize' \in Nat /\ 2 * header'.length = shpSize'
    BY <1>5, <1>6, <1>8, <2>1
  <2>8. shx' = shx /\ shx'[Len(shx)].length = length
    BY <1>2, <1>5, <2>1
  <2> QED
    BY <1>5, <1>7, <2>2, <2>3, <2>4, <2>5, <2>6, <2>7, <2>8, Zenon DEF Grown
<1>10. Counted
  <2>1. PICK at \in Int : at = NumPointsAt(type, Content) /\ at /= rec + 44
    BY <1>3, <1>5 DEF NumPointsAt, Content, RecordSize
  <2>2. At(new, at) = NumPoints
    BY <1>8, <2>1 DEF NumPoints
  <2>3. At(new, NumPartsAt(Content)) = done + 1
    BY <1>5, <1>8 DEF NumPartsAt, Content, RecordSize
  <2>4. NumPoints \in Nat /\ NumPoints =< 2 * feat.numPoints
    BY <1>3 DEF ShpInv, CountsInv
  <2>5. shpSize' = End(NumPoints) /\ shpSize' >= feat.rec + 48
    BY <1>5, <1>6 DEF RefusePart
  <2>6. ~(done < Len(parts))
    BY <1>2, <1>4
  <2> QED
    BY <1>1, <1>3, <1>7, <2>1, <2>2, <2>3, <2>4, <2>5, <2>6 DEF Counted
<1> QED
  BY <1>9, <1>10

\* A ring that goes the other way has the same vertices.
SameValues(vs, ws) == \A c \in 1..4 : Range(Column(vs, c)) = Range(Column(ws, c))

LEMMA Reversed ==
  ASSUME NEW n \in Nat, NEW vs, Vertices(vs, n)
  PROVE  Vertices(Reverse(vs), n) /\ SameValues(Reverse(vs), vs)
<1>1. PICK V, w : V = Int \X Int \X Int \X Int /\ w = Reverse(vs)
  OBVIOUS
<1>2. Len(vs) = n /\ DOMAIN vs = 1..n /\ \A i \in 1..n : vs[i] \in V
  BY <1>1 DEF Vertices
<1>3. w = [i \in 1..n |-> vs[(n - i) + 1]]
  BY <1>1, <1>2 DEF Reverse
<1>4. \A i \in 1..n : w[i] \in V
  BY <1>2, <1>3
<1>5. DOMAIN w = 1..n /\ Len(w) = n
  BY <1>3
<1>6. ASSUME NEW c \in 1..4
      PROVE  Range(Column(w, c)) = Range(Column(vs, c))
  <2>1. Range(Column(w, c)) = {w[i][c] : i \in 1..n}
    BY <1>5 DEF Range, Column
  <2>2. Range(Column(vs, c)) = {vs[i][c] : i \in 1..n}
    BY <1>2 DEF Range, Column
  <2>3. \A i \in 1..n : (n - i) + 1 \in 1..n /\ w[i] = vs[(n - i) + 1]
    BY <1>3
  <2>4. \A i \in 1..n : w[(n - i) + 1] = vs[i]
    <3> SUFFICES ASSUME NEW i \in 1..n
                 PROVE  w[(n - i) + 1] = vs[i]
      OBVIOUS
    <3>1. PICK j \in 1..n : j = (n - i) + 1 /\ (n - j) + 1 = i
      OBVIOUS
    <3>2. w[j] = vs[(n - j) + 1]
      BY <2>3
    <3> QED
      BY <3>1, <3>2
  <2>5. {w[i][c] : i \in 1..n} \subseteq {vs[i][c] : i \in 1..n}
    BY <2>3
  <2>6. {vs[i][c] : i \in 1..n} \subseteq {w[i][c] : i \in 1..n}
    <3> SUFFICES ASSUME NEW i \in 1..n
                 PROVE  vs[i][c] \in {w[j][c] : j \in 1..n}
      OBVIOUS
    <3>1. PICK j \in 1..n : j = (n - i) + 1
      OBVIOUS
    <3>2. w[j] = vs[i]
      BY <2>4, <3>1
    <3> QED
      BY <3>2
  <2> QED
    BY <2>1, <2>2, <2>5, <2>6
<1> QED
  BY <1>1, <1>4, <1>5, <1>6 DEF Vertices, SameValues

\* p is the part that AddPart adds: the next one, or the last one again.
IsNext(p) ==
  LET parts == given[Len(given)]
      done  == calls[Len(given)]
  IN  /\ p \in Parts[type] /\ p = parts[Min({done + 1, Len(parts)})]
      /\ done < Len(parts) => p = parts[done+1]

\* ... and it is laid out with the n vertices vs of it, after it has been noted in mem.
Lays(p, n, vs, mem) ==
  /\ n = Len(p.verts) /\ RoomFor(n) /\ PartNoted(mem, n)
  /\ Vertices(vs, n) /\ SameValues(vs, p.verts)
  /\ AddVertices(p, vs, mem)

\* The calls of the four functions with vertices have this in common.
LEMMA PartKinds ==
  ASSUME ShpInv, AddPart
  PROVE  /\ Called
         /\ \E p : /\ IsNext(p)
                   /\ \/ AddPoint(p)
                      \/ \E n \in Nat \ {0} : \E vs, mem : Lays(p, n, vs, mem)
                      \/ RefusePart
<1>1. PICK n, parts, done, p : /\ n = Len(given) /\ parts = given[n] /\ done = calls[n]
                               /\ p = parts[Min({done + 1, Len(parts)})]
  OBVIOUS
<1>2. /\ Last(given) = parts /\ Last(calls) = done /\ Len(calls) = n
  BY <1>1 DEF ShpInv, CallsInv, Last
<1>3. /\ given /= << >> /\ parts /= << >> /\ done =< Len(parts)
      /\ AddPoint(p) \/ AddPoints(p) \/ AddLinestring(p) \/ AddRing(p) \/ AddPatch(p) \/ RefusePart
      /\ calls' = [calls EXCEPT ![n] = done + 1]
      /\ UNCHANGED <<type, dbf, feat, given>>
  BY <1>1, <1>2 DEF AddPart
<1>4. Called
  BY <1>1, <1>2, <1>3 DEF Called
<1>5. type \in Types
  BY DEF ShpInv, CallsInv
<1>6. IsNext(p)
  <2>1. PICK P : P = Parts[type]
    OBVIOUS
  <2>2. parts \in Seq(P) /\ done \in Nat
    <3>1. PICK S : S = Seq(P)
      OBVIOUS
    <3>2. given \in Seq(S) /\ calls \in Seq(Nat)
      BY <2>1, <3>1 DEF ShpInv, CallsInv
    <3> QED
      BY <1>1, <1>2, <1>3, <3>1, <3>2
  <2>3. PICK m \in Nat \ {0} : m = Len(parts) /\ DOMAIN parts = 1..m
    BY <1>3, <2>2
  <2>4. PICK k : k = Min({done + 1, m})
    OBVIOUS
  <2>5. k \in 1..m /\ (done < m => k = done + 1)
    <3>1. done + 1 \in Int /\ m \in Int
      BY <2>2
    <3>2. Min({done + 1, m}) = IF done + 1 =< m THEN done + 1 ELSE m
      BY <3>1, MinMaxOfTwo
    <3> QED
      BY <2>2, <2>4, <3>2
  <2>6. p = parts[k]
    BY <1>1, <2>3, <2>4
  <2>7. p \in P
    BY <2>2, <2>3, <2>5, <2>6
  <2>8. done < Len(parts) => p = parts[done+1]
    BY <2>3, <2>5, <2>6
  <2> QED
    BY <1>1, <2>1, <2>7, <2>8 DEF IsNext
<1>7. PICK size : size = Len(p.verts)
  OBVIOUS
<1>8. ASSUME type \notin PointTypes
      PROVE  /\ size \in Nat \ {0} /\ RoomFor(size)
             /\ Vertices(p.verts, size) /\ SameValues(p.verts, p.verts)
  <2>1. p \in Parts[type] /\ size \in Nat \ {0} /\ RoomFor(size)
    BY <1>1, <1>3, <1>7, <1>8, RoomThere
  <2>2. Vertices(p.verts, size)
    BY <1>5, <1>7, <2>1, PartFacts
  <2> QED
    BY <2>1, <2>2 DEF SameValues
<1>9. p.type \in Int
  BY <1>5, <1>6, PartFacts DEF IsNext
<1>10. ASSUME AddPoints(p)
       PROVE  Lays(p, size, p.verts, shp) /\ size \in Nat \ {0}
  <2>1. type \notin PointTypes /\ type \in MultiPointTypes /\ AddVertices(p, p.verts, shp)
    BY <1>10 DEF AddPoints, PointTypes, MultiPointTypes
  <2>2. size \in Nat \ {0} /\ RoomFor(size) /\ Vertices(p.verts, size) /\ SameValues(p.verts, p.verts)
    BY <1>8, <2>1
  <2>3. PartNoted(shp, size)
    BY <2>1, <2>2 DEF PartNoted, RoomFor
  <2> QED
    BY <1>7, <2>1, <2>2, <2>3 DEF Lays
<1>11. ASSUME AddLinestring(p)
       PROVE  Lays(p, size, p.verts, PartBegun) /\ size \in Nat \ {0}
  <2>1. /\ type \notin PointTypes \cup MultiPointTypes /\ PartIdx < feat.numParts
        /\ AddVertices(p, p.verts, PartBegun)
    BY <1>11 DEF AddLinestring, PolylineTypes, PointTypes, MultiPointTypes
  <2>2. size \in Nat \ {0} /\ RoomFor(size) /\ Vertices(p.verts, size) /\ SameValues(p.verts, p.verts)
    BY <1>8, <2>1
  <2>3. PartNoted(PartBegun, size)
    BY <1>3, <2>1, <2>2, BegunNoted
  <2> QED
    BY <1>7, <2>1, <2>2, <2>3 DEF Lays
<1>12. ASSUME AddRing(p)
       PROVE  \E vs : Lays(p, size, vs, PartBegun) /\ size \in Nat \ {0}
  <2>1. PICK vs : vs = IF Orientation(p.verts) = p.type THEN p.verts ELSE Reverse(p.verts)
    OBVIOUS
  <2>2. /\ type \notin PointTypes \cup MultiPointTypes /\ PartIdx < feat.numParts
        /\ AddVertices(p, vs, PartBegun)
    BY <1>12, <2>1 DEF AddRing, PolygonTypes, PointTypes, MultiPointTypes
  <2>3. size \in Nat \ {0} /\ RoomFor(size) /\ Vertices(p.verts, size) /\ SameValues(p.verts, p.verts)
    BY <1>8, <2>2
  <2>4. Vertices(vs, size) /\ SameValues(vs, p.verts)
    BY <2>1, <2>3, Reversed
  <2>5. PartNoted(PartBegun, size)
    BY <1>3, <2>2, <2>3, BegunNoted
  <2> QED
    BY <1>7, <2>2, <2>3, <2>4, <2>5 DEF Lays
<1>13. ASSUME AddPatch(p)
       PROVE  \E mem : Lays(p, size, p.verts, mem) /\ size \in Nat \ {0}
  <2>1. PICK mem, code : /\ mem = Put(PartBegun, PatchTypesAt(Content, feat.numParts) + 4 * PartIdx,
                                      4, <<code>>)
                         /\ code = p.type
    OBVIOUS
  <2>2. type = MultiPatch /\ AddVertices(p, p.verts, mem)
    BY <1>13, <2>1 DEF AddPatch
  <2>3. type \notin PointTypes \cup MultiPointTypes
    BY <2>2 DEF MultiPatch, PointTypes, MultiPointTypes
  <2>4. /\ size \in Nat \ {0} /\ RoomFor(size) /\ Vertices(p.verts, size) /\ SameValues(p.verts, p.verts)
        /\ code \in Int
    BY <1>8, <1>9, <2>1, <2>3
  <2>5. PartIdx =< feat.numParts
    <3>1. PartIdx = done
      BY <1>1, <1>3, <2>3 DEF ShpInv, CountsInv
    <3>2. feat.numParts = Len(parts)
      BY <1>1, <1>3 DEF ShpInv, CallsInv
    <3> QED
      BY <1>3, <3>1, <3>2
  <2>6. PartNoted(mem, size)
    BY <1>3, <2>1, <2>2, <2>3, <2>4, <2>5, BegunNoted
  <2> QED
    BY <1>7, <2>2, <2>4, <2>6 DEF Lays
<1> QED
  BY <1>3, <1>4, <1>6, <1>10, <1>11, <1>12, <1>13

\* Every call makes the last record grow.
\* Whichever of the Add...() it is, the file grows, and the points are counted.
LEMMA PartGrown ==
  ASSUME ShpInv, AddPart
  PROVE  Called /\ Grown /\ Counted
<1>1. PICK p : /\ Called /\ IsNext(p)
               /\ \/ AddPoint(p)
                  \/ \E n \in Nat \ {0} : \E vs, mem : Lays(p, n, vs, mem)
                  \/ RefusePart
  BY PartKinds
<1>2. /\ given /= << >> /\ given[Len(given)] /= << >> /\ p \in Parts[type]
      /\ calls[Len(given)] < Len(given[Len(given)]) => p = given[Len(given)][calls[Len(given)] + 1]
  BY <1>1 DEF Called, IsNext
<1>3. CASE AddPoint(p)
  BY <1>1, <1>2, <1>3, PointGrown
<1>4. ASSUME NEW n \in Nat \ {0}, NEW vs, NEW mem, Lays(p, n, vs, mem)
      PROVE  Grown /\ Counted
  <2>1. /\ RoomFor(n) /\ Vertices(vs, n) /\ PartNoted(mem, n) /\ AddVertices(p, vs, mem)
        /\ calls[Len(given)] < Len(given[Len(given)]) =>
             n = Len(given[Len(given)][calls[Len(given)] + 1].verts)
    BY <1>2, <1>4 DEF Lays
  <2> QED
    BY <1>2, <2>1, VerticesGrown
<1>5. CASE RefusePart
  BY <1>1, <1>2, <1>5, RefusedGrown
<1> QED
  BY <1>1, <1>3, <1>4, <1>5

LEMMA PartInv ==
  ASSUME ShpInv, AddPart
  PROVE  ShpInv'
BY PartGrown, GrownInv

LEMMA StutterInv ==
  ASSUME ShpInv, UNCHANGED shpVars
  PROVE  ShpInv'
<1>1. UNCHANGED <<type, shp, shpSize, header, shxHeader, shx, dbf, feat, given, calls>>
  BY DEF shpVars
<1>2. CallsInv'
  BY <1>1 DEF ShpInv, CallsInv
<1>3. RecordsInv'
  BY <1>1 DEF ShpInv, RecordsInv, RecordAt, At
<1>4. LastInv'
  BY <1>1 DEF ShpInv, LastInv, Begun, PointEnd, At, End, Content, NumPoints
<1>5. HeadersInv'
  <2>1. PICK d : d = DbfRecord(dbf) /\ d = DbfRecord(dbf')
    BY <1>1, Zenon
  <2> QED
    BY <1>1, <2>1 DEF ShpInv, HeadersInv
<1>6. CellsInv'
  BY <1>1 DEF ShpInv, CellsInv, Cells
<1>7. CountsInv'
  BY <1>1 DEF ShpInv, CountsInv, PartIdx, NumPoints, At, Content
<1> QED
  BY <1>2, <1>3, <1>4, <1>5, <1>6, <1>7 DEF ShpInv

LEMMA ShpInvariant == ShpSpec => []ShpInv
<1>1. ASSUME ShpInv, [Next]_shpVars
      PROVE  ShpInv'
  <2>1. ASSUME NEW len \in {1, 8}, CreateField(len)
        PROVE  ShpInv'
    BY <1>1, <2>1, FieldInv
  <2>2. ASSUME NEW parts \in Features, AddFeature(parts)
        PROVE  ShpInv'
    BY <1>1, <2>2, FeatureInv
  <2>3. CASE AddPart
    BY <1>1, <2>3, PartInv
  <2>4. CASE Saved \/ UNCHANGED shpVars
    BY <1>1, <2>4, StutterInv DEF Saved
  <2> QED
    BY <1>1, <2>1, <2>2, <2>3, <2>4 DEF Next
<1> QED
  BY <1>1, ShpInit, PTL DEF ShpSpec

-------------------------------------------------------------------------------

(***************************************************************************)
(* The writer keeps its types, and it writes nothing into the .shp file    *)
(* but between the header and the end of the file, whatever the sequence   *)
(* of its calls (include/geotypes-shp.cpp).                                *)
(***************************************************************************)
THEOREM ShpTypeCorrect == ShpSpec => []ShpTypeOK
<1>1. ASSUME ShpInv
      PROVE  ShpTypeOK
  <2>1. shpSize \in Nat /\ \A a \in DOMAIN shp : a \in HeaderSize .. shpSize - 1 /\ shp[a] \in Int
    BY <1>1 DEF ShpInv, CellsInv, Cells
  <2>2. type \in Types /\ Len(calls) = Len(given) /\ feat.numParts \in Nat /\ feat.rec \in Nat
    BY <1>1 DEF ShpInv, CallsInv
  <2>3. Len(shx) = Len(given) /\ \A k \in DOMAIN shx : shx[k].offset \in Nat /\ shx[k].length \in Nat
    <3>1. PICK R : R = [offset : Nat, length : Nat]
      OBVIOUS
    <3>2. shx \in Seq(R) /\ Len(shx) = Len(given)
      BY <1>1, <3>1 DEF ShpInv, RecordsInv
    <3>3. \A k \in DOMAIN shx : shx[k] \in R
      BY <3>2
    <3> QED
      BY <3>1, <3>2, <3>3
  <2>4. header.length \in Nat /\ shxHeader.length \in Nat /\ dbf.records = Len(given)
    BY <1>1 DEF ShpInv, HeadersInv
  <2>5. feat.rec =< shpSize
    <3>1. CASE given = << >>
      BY <1>1, <2>2, <3>1 DEF ShpInv, CallsInv, LastInv, HeaderSize
    <3>2. CASE given /= << >>
      BY <1>1, <2>1, <2>2, <3>2 DEF ShpInv, LastInv, RecordSize, NullSize
    <3> QED
      BY <3>1, <3>2
  <2> QED
    BY <2>1, <2>2, <2>3, <2>4, <2>5 DEF ShpTypeOK
<1> QED
  BY <1>1, ShpInvariant, PTL

(***************************************************************************)
(* The three files that raster-outline-util builds for its polygons stay   *)
(* inside of the one buffer it has allocated for them by OutFullSize       *)
(* (utils/raster-outline-util.cpp), whatever the rings are, after every    *)
(* call of AddRing() that it has a ring for.                               *)
(***************************************************************************)
THEOREM ToolBufferAlwaysFits == ShpSpec => []ToolBufferFits
<1>1. ASSUME ShpInv
      PROVE  ToolBufferFits
  <2>1. SUFFICES ASSUME type = 5, Len(given) = 1, dbf.fields = << >>, calls[1] =< Len(given[1])
                 PROVE  /\ shpSize =< OutFullSize(feat.numParts, feat.numPoints) - 35 - 108
                        /\ HeaderSize + RecordSize * Len(shx) =< 108
                        /\ dbf.size =< 35
    BY DEF ToolBufferFits
  <2>2. PICK S : S = Seq(Parts[type])
    OBVIOUS
  <2>3. /\ given \in Seq(S) /\ calls \in Seq(Nat) /\ Len(calls) = Len(given) /\ type \in Types
        /\ feat.numParts \in Nat /\ feat.numPoints \in Nat /\ feat.rec \in Nat
    BY <1>1, <2>2 DEF ShpInv, CallsInv
  <2>4. given /= << >> /\ given[1] \in S /\ calls[1] \in Nat /\ Len(given) = 1
    <3>1. Len(given) = 1 /\ 1 \in 1..Len(given) /\ 1 \in 1..Len(calls)
      BY <2>1, <2>3
    <3>2. given \in Seq(S)
      BY <2>3
    <3>3. given[1] \in S
      BY <3>1, <3>2
    <3>4. given /= << >>
      BY <3>1, <3>2
    <3>5. calls \in Seq(Nat)
      BY <2>3
    <3>6. calls[1] \in Nat
      BY <3>1, <3>5
    <3> QED
      BY <3>1, <3>3, <3>4, <3>6
  <2>5. feat.numPoints = Total(given[1])
    BY <1>1, <2>1, <2>4 DEF ShpInv, CallsInv
  <2>6. feat.rec = 100
    BY <1>1, <2>1, <2>4 DEF ShpInv, RecordsInv, HeaderSize
  <2>7. shpSize =< 4 * feat.numParts + 16 * feat.numPoints + 152
    <3>1. CASE ~Begun
      BY SMTT(30), <1>1, <2>1, <2>3, <2>4, <2>6, <3>1 DEF ShpInv, LastInv, RecordSize, NullSize
    <3>2. CASE Begun
      <4>1. shpSize = End(NumPoints) /\ NumPoints \in Nat
        BY <1>1, <2>1, <2>4, <3>2 DEF ShpInv, LastInv, CountsInv, PointTypes
      <4>2. End(NumPoints) = 152 + 4 * feat.numParts + 16 * NumPoints
        BY <2>1, <2>3, <2>6, <4>1
        DEF End, PointsAt, PartsAt, Content, RecordSize, HasM, HasZ, MultiPatch, MultiPointTypes
      <4>3. NumPoints = SumTo(Sizes(given[1]), calls[1])
        BY <1>1, <2>1, <2>4 DEF ShpInv, CountsInv, PointTypes
      <4>4. NumPoints =< Total(given[1])
        <5>1. calls[1] \in 0 .. Len(given[1])
          BY <2>1, <2>2, <2>4
        <5> QED
          BY <2>2, <2>3, <2>4, <4>3, <5>1, SizesFacts
      <4> QED
        BY <2>3, <2>5, <4>1, <4>2, <4>4
    <3> QED
      BY <3>1, <3>2
  <2>8. Len(shx) = 1
    BY <1>1, <2>1 DEF ShpInv, RecordsInv
  <2>9. dbf.size = 35
    <3>1. PICK s, d : s = dbf.fields /\ d = DbfRecord(dbf)
      OBVIOUS
    <3>2. s \in Seq(Nat) /\ Len(s) = 0
      BY <2>1, <3>1
    <3>3. d = 1
      <4>1. SumTo(s, 0) = 0
        BY <3>2, SumFacts
      <4> QED
        BY <3>1, <3>2, <4>1 DEF DbfRecord
    <3>4. dbf.size = 34 + 32 * Len(s) + d * 1
      BY <1>1, <2>1, <3>1 DEF ShpInv, HeadersInv
    <3> QED
      BY <3>2, <3>3, <3>4
  <2> QED
    BY SMTT(30), <2>3, <2>7, <2>8, <2>9 DEF OutFullSize, HeaderSize, RecordSize
<1> QED
  BY <1>1, ShpInvariant, PTL

-------------------------------------------------------------------------------

\* How the loop of ImportShp() goes from one record to the next.
LEMMA PtrFacts ==
  ASSUME Cells(shp, shpSize)
  PROVE  /\ RecordPtr[0] = HeaderSize
         /\ \A k \in Nat : /\ RecordPtr[k] \in Int
                           /\ RecordPtr[k+1] = RecordPtr[k] + RecordSize + 2 * At(shp, RecordPtr[k] + 4)
<1> DEFINE Ptr(f) == f = [k \in Nat |-> IF k = 0 THEN HeaderSize
                                        ELSE LET r == f[k-1] IN r + RecordSize + 2 * At(shp, r + 4)]
           Next_(r) == r + RecordSize + 2 * At(shp, r + 4)
<1>1. PICK G : G = [p \in Nat \X Int |-> Next_(p[2])]
  OBVIOUS
<1>2. \A r \in Int : Next_(r) \in Int
  BY AtInt DEF RecordSize
<1>3. \A k \in Nat, r \in Int : G[<<k, r>>] = Next_(r)
  BY <1>1
<1> HIDE DEF Next_
<1>4. Steps(G, Int)
  BY <1>2, <1>3 DEF Steps
<1>5. PICK g : g \in [Nat -> Int] /\ g[0] = HeaderSize /\ \A k \in Nat : g[k+1] = G[<<k, g[k]>>]
  <2>1. PICK D, zero : D = Int /\ zero = HeaderSize
    OBVIOUS
  <2>2. zero \in D /\ Steps(G, D)
    BY <1>4, <2>1 DEF HeaderSize
  <2>3. PICK g : g \in [Nat -> D] /\ g[0] = zero /\ \A k \in Nat : g[k+1] = G[<<k, g[k]>>]
    BY <2>2, Recursion
  <2> QED
    BY <2>1, <2>3
<1>6. \A k \in Nat : k /= 0 => g[k] = Next_(g[k-1])
  <2> SUFFICES ASSUME NEW k \in Nat, k /= 0
               PROVE  g[k] = Next_(g[k-1])
    OBVIOUS
  <2>1. PICK j \in Nat : j = k - 1 /\ k = j + 1
    OBVIOUS
  <2>2. g[j] \in Int
    BY <1>5
  <2> QED
    BY <1>3, <1>5, <2>1, <2>2
<1>7. Ptr(g)
  <2>1. PICK h : h = [k \in Nat |-> IF k = 0 THEN HeaderSize ELSE Next_(g[k-1])]
    OBVIOUS
  <2>2. \A k \in Nat : h[k] = g[k]
    BY <1>5, <1>6, <2>1
  <2>3. g = h
    BY <1>5, <2>1, <2>2
  <2> QED
    BY <2>1, <2>3 DEF Next_
<1>8. Ptr(RecordPtr)
  <2>1. RecordPtr = CHOOSE f : Ptr(f)
    BY DEF RecordPtr
  <2> HIDE DEF Ptr
  <2> QED
    BY <1>7, <2>1
<1>9. RecordPtr[0] = HeaderSize /\ \A k \in Nat : k /= 0 => RecordPtr[k] = Next_(RecordPtr[k-1])
  <2>1. PICK f : f = RecordPtr
    OBVIOUS
  <2>2. PICK h : h = [k \in Nat |-> IF k = 0 THEN HeaderSize ELSE Next_(f[k-1])]
    OBVIOUS
  <2>3. f = h
    BY <1>8, <2>1, <2>2 DEF Next_
  <2>4. f[0] = HeaderSize /\ \A k \in Nat : k /= 0 => f[k] = Next_(f[k-1])
    BY <2>2, <2>3
  <2> QED
    BY <2>1, <2>4
<1> HIDE DEF Ptr
<1>10. \A k \in Nat : RecordPtr[k+1] = Next_(RecordPtr[k])
  <2> SUFFICES ASSUME NEW k \in Nat
               PROVE  RecordPtr[k+1] = Next_(RecordPtr[k])
    OBVIOUS
  <2>1. PICK j \in Nat : j = k + 1 /\ j /= 0 /\ j - 1 = k
    OBVIOUS
  <2> QED
    BY <1>9, <2>1
<1>11. PICK S : S = {k \in Nat : RecordPtr[k] \in Int}
  OBVIOUS
<1>12. 0 \in S
  BY <1>9, <1>11 DEF HeaderSize
<1>13. \A k \in Nat : k \in S => k + 1 \in S
  BY <1>2, <1>10, <1>11
<1>14. \A k \in Nat : k \in S
  BY <1>12, <1>13, Induction
<1> QED
  BY <1>9, <1>10, <1>11, <1>14 DEF Next_

(***************************************************************************)
(* Where every feature but the last has geometry, the files can be         *)
(* imported if the last one has, and only then: the records of the .shp    *)
(* file follow each other by the lengths in them, up to the length in the  *)
(* header, which counts the last record only when geometry is added to it. *)
(***************************************************************************)
LEMMA ImportsUnlessLastIsNull ==
  ShpInv /\ Written /\ (\A k \in 1 .. Len(given) - 1 : given[k] /= << >>)
    => (Imports <=> given = << >> \/ given[Len(given)] /= << >>)
<1>1. ASSUME ShpInv, Written, \A k \in 1 .. Len(given) - 1 : given[k] /= << >>
      PROVE  Imports <=> given = << >> \/ given[Len(given)] /= << >>
  <2>1. Written /\ \A k \in 1 .. Len(given) - 1 : given[k] /= << >>
    BY <1>1
  <2>2. PICK n \in Nat : n = Len(given) /\ n = Len(shx) /\ (n = 0 <=> given = << >>)
    <3>1. PICK S : S = Seq(Parts[type])
      OBVIOUS
    <3>2. given \in Seq(S) /\ Len(shx) = Len(given)
      BY <1>1, <3>1 DEF ShpInv, CallsInv, RecordsInv
    <3> QED
      BY <3>2
  <2>3. ShxNumRecords = n /\ 2 * shxHeader.length = HeaderSize + RecordSize * n
    <3>1. PICK l : l = shxHeader.length /\ l = 50 + 4 * n
      BY <1>1, <2>2 DEF ShpInv, HeadersInv
    <3> QED
      BY <2>2, <3>1 DEF ShxNumRecords, HeaderSize, RecordSize
  <2>4. dbf.records = n /\ DbfReadSize =< dbf.size
    <3>1. PICK r, s, m : r = DbfRecord(dbf) * dbf.records /\ s = dbf.size /\ m = Len(dbf.fields)
      OBVIOUS
    <3>2. s = 34 + 32 * m + r /\ s \in Int /\ m \in Nat /\ dbf.records = n
      <4>1. dbf.fields \in Seq(Nat) /\ dbf.size \in Int /\ dbf.records = n
        BY <1>1, <2>2 DEF ShpInv, HeadersInv
      <4>2. Len(dbf.fields) \in Nat
        BY <4>1
      <4>3. dbf.size = 34 + 32 * Len(dbf.fields) + DbfRecord(dbf) * dbf.records
        BY <1>1 DEF ShpInv, HeadersInv
      <4> QED
        BY <3>1, <4>1, <4>2, <4>3, Zenon
    <3>3. r \in Int
      <4>1. dbf.fields \in Seq(Nat)
        BY <1>1 DEF ShpInv, HeadersInv
      <4>2. DbfRecord(dbf) \in Int
        BY <4>1, SumFacts DEF DbfRecord
      <4> QED
        BY <2>2, <3>1, <3>2, <4>2
    <3>4. DbfReadSize = 33 + 32 * m + r
      BY <3>1 DEF DbfReadSize
    <3> QED
      BY <3>1, <3>2, <3>3, <3>4
  <2>5. Imports <=> 2 * header.length =< shpSize /\ ShpNumRecordsIs(n)
    BY <2>2, <2>3, <2>4 DEF Imports, HeaderSize, RecordSize
  <2>6. /\ RecordPtr[0] = HeaderSize
        /\ \A k \in Nat : /\ RecordPtr[k] \in Int
                          /\ RecordPtr[k+1] = RecordPtr[k] + RecordSize + 2 * At(shp, RecordPtr[k] + 4)
    BY <1>1, PtrFacts DEF ShpInv, CellsInv
  <2>7. CASE given = << >>
    <3>1. n = 0 /\ shpSize = HeaderSize /\ 2 * header.length = shpSize
      BY <1>1, <2>2, <2>7 DEF ShpInv, LastInv
    <3>2. RecordPtr[0] >= 2 * header.length
      BY <2>6, <3>1 DEF HeaderSize
    <3>3. ShpNumRecordsIs(n)
      BY <3>1, <3>2 DEF ShpNumRecordsIs
    <3> QED
      BY <2>5, <2>7, <3>1, <3>3 DEF HeaderSize
  <2>8. CASE given /= << >>
    <3>1. PICK at : at = [k \in 1..n |-> RecordAt(k)]
      OBVIOUS
    <3>2. \A k \in 1..n : at[k] \in Int /\ at[k] = RecordAt(k)
      <4>1. PICK R : R = [offset : Nat, length : Nat]
        OBVIOUS
      <4>2. shx \in Seq(R)
        BY <1>1, <4>1 DEF ShpInv, RecordsInv
      <4>3. \A k \in 1..n : shx[k] \in R
        BY <2>2, <4>2
      <4>4. \A k \in 1..n : shx[k].offset \in Nat
        BY <4>1, <4>3
      <4> QED
        BY <3>1, <4>4 DEF RecordAt
    <3>3. at[1] = HeaderSize /\ feat.rec = at[n] /\ n >= 1 /\ feat.rec \in Int
      BY <1>1, <2>2, <2>8, <3>2 DEF ShpInv, RecordsInv
    <3>4. \A k \in 1 .. n-1 : /\ at[k+1] = at[k] + RecordSize + 2 * At(shp, at[k] + 4)
                              /\ at[k] < feat.rec
      <4> SUFFICES ASSUME NEW k \in 1 .. n-1
                   PROVE  /\ at[k+1] = at[k] + RecordSize + 2 * At(shp, at[k] + 4)
                          /\ at[k] < feat.rec
        OBVIOUS
      <4>1. given[k] /= << >>
        BY <2>1, <2>2
      <4>2. /\ RecordAt(k+1) = RecordAt(k) + RecordSize + 2 * shx[k].length
            /\ At(shp, RecordAt(k) + 4) = shx[k].length
            /\ RecordAt(k) + RecordSize =< feat.rec
        BY <1>1, <2>2, <4>1 DEF ShpInv, RecordsInv
      <4>3. k \in 1..n /\ k + 1 \in 1..n
        OBVIOUS
      <4>4. at[k] = RecordAt(k) /\ at[k+1] = RecordAt(k+1) /\ at[k] \in Int
        BY <3>2, <4>3
      <4> QED
        BY <3>3, <4>2, <4>4 DEF RecordSize
    <3>5. \A k \in Nat : k < n => RecordPtr[k] = at[k+1]
      <4>1. PICK T : T = {k \in Nat : k < n => RecordPtr[k] = at[k+1]}
        OBVIOUS
      <4>2. 0 \in T
        BY <2>6, <3>3, <4>1
      <4>3. ASSUME NEW k \in Nat, k \in T, k + 1 < n
            PROVE  RecordPtr[k+1] = at[(k+1)+1]
        <5>1. RecordPtr[k] = at[k+1]
          BY <4>1, <4>3
        <5>2. PICK j \in 1 .. n-1 : j = k + 1
          BY <4>3
        <5>3. RecordPtr[k+1] = at[j] + RecordSize + 2 * At(shp, at[j] + 4)
          BY <2>6, <5>1, <5>2
        <5>4. at[j+1] = at[j] + RecordSize + 2 * At(shp, at[j] + 4)
          BY <3>4
        <5> QED
          BY <5>2, <5>3, <5>4
      <4>4. \A k \in Nat : k \in T => k + 1 \in T
        BY <4>1, <4>3
      <4>5. \A k \in Nat : k \in T
        BY <4>2, <4>4, Induction
      <4> QED
        BY <4>1, <4>5
    <3>6. RecordPtr[n-1] = feat.rec /\ n - 1 \in 0 .. n-1
      BY <3>3, <3>5
    <3>7. CASE given[n] = << >>
      <4>1. ~Begun
        <5>1. \A k \in 1..Len(given) : given[k] = << >> => calls[k] = 0
          BY <1>1 DEF ShpInv, CallsInv
        <5>2. n \in 1..n
          BY <3>3
        <5>3. calls[n] = 0
          BY <2>2, <3>7, <5>1, <5>2
        <5> QED
          BY <2>2, <5>3 DEF Begun
      <4>2. n = 1 \/ given[n-1] /= << >>
        BY <2>1, <2>2, <3>3
      <4>3. 2 * header.length = feat.rec
        BY <1>1, <2>2, <2>8, <4>1, <4>2 DEF ShpInv, LastInv
      <4>4. ~(RecordPtr[n-1] < 2 * header.length)
        BY <3>3, <3>6, <4>3
      <4>5. ~ShpNumRecordsIs(n)
        BY <3>6, <4>4 DEF ShpNumRecordsIs
      <4> QED
        BY <2>2, <2>5, <2>8, <3>7, <4>5
    <3>8. CASE given[n] /= << >>
      <4>1. Begun
        <5>1. PICK S, parts : S = Seq(Parts[type]) /\ parts = given[n]
          OBVIOUS
        <5>2. given \in Seq(S) /\ calls \in Seq(Nat) /\ Len(calls) = Len(given)
          BY <1>1, <5>1 DEF ShpInv, CallsInv
        <5>3. n \in DOMAIN given /\ parts \in S /\ calls[n] \in Nat
          <6>1. n \in 1..Len(given) /\ n \in 1..Len(calls)
            <7>1. Len(given) = n /\ Len(calls) = n
              BY <2>2, <5>2, Zenon
            <7> QED
              BY <3>3, <7>1
          <6>2. given \in Seq(S) /\ calls \in Seq(Nat)
            BY <5>2
          <6>3. given[n] \in S /\ n \in DOMAIN given
            BY <6>1, <6>2
          <6>4. calls[n] \in Nat
            BY <6>1, <6>2
          <6> QED
            BY <5>1, <6>3, <6>4
        <5>4. calls[n] >= Len(parts)
          BY <2>1, <5>1, <5>3 DEF Written
        <5>5. Len(parts) \in Nat /\ Len(parts) /= 0
          BY <3>8, <5>1, <5>3
        <5> QED
          BY <2>2, <2>8, <5>3, <5>4, <5>5 DEF Begun
      <4>2. PICK size \in Nat, last \in Int :
              size = shpSize /\ 2 * header.length = size /\ last = feat.rec /\ last < size
              /\ size = last + RecordSize + 2 * At(shp, last + 4)
        <5>1. shpSize \in Nat /\ feat.rec \in Int
          BY <1>1, <3>3 DEF ShpInv, CellsInv
        <5>2. /\ shpSize = feat.rec + RecordSize + 2 * At(shp, feat.rec + 4)
              /\ shpSize >= feat.rec + RecordSize + NullSize /\ 2 * header.length = shpSize
          BY <1>1, <4>1 DEF ShpInv, LastInv
        <5>3. feat.rec < shpSize
          BY <5>1, <5>2 DEF RecordSize, NullSize
        <5> QED
          BY <5>1, <5>2, <5>3
      <4>3. RecordPtr[n] = size
        <5>1. PICK k \in Nat : k = n - 1 /\ n = k + 1
          BY <3>3
        <5>2. RecordPtr[k+1] = RecordPtr[k] + RecordSize + 2 * At(shp, RecordPtr[k] + 4)
          BY <2>6
        <5> QED
          BY <3>6, <4>2, <5>1, <5>2
      <4>4. \A k \in 0 .. n-1 : RecordPtr[k] < size
        <5> SUFFICES ASSUME NEW k \in 0 .. n-1
                     PROVE  RecordPtr[k] < size
          OBVIOUS
        <5>1. CASE k = n - 1
          BY <3>6, <4>2, <5>1
        <5>2. CASE k < n - 1
          <6>1. k \in Nat /\ k + 1 \in 1 .. n-1 /\ k + 1 \in 1..n /\ k < n
            BY <5>2
          <6>2. RecordPtr[k] = at[k+1] /\ at[k+1] < feat.rec /\ at[k+1] \in Int
            BY <3>2, <3>4, <3>5, <6>1
          <6> QED
            BY <4>2, <6>2
        <5> QED
          BY <5>1, <5>2
      <4>5. ShpNumRecordsIs(n)
        BY <4>2, <4>3, <4>4 DEF ShpNumRecordsIs
      <4> QED
        BY <2>2, <2>5, <3>8, <4>2, <4>5
    <3> QED
      BY <3>7, <3>8
  <2> QED
    BY <2>7, <2>8
<1> QED
  BY <1>1

(***************************************************************************)
(* The files that the writer leaves when the caller has added all it has,  *)
(* and geometry to every feature, can be imported: their lengths and the   *)
(* chain of records fit together, for every type, all parts and any number *)
(* of features (include/geotypes-shp.cpp, ImportShp()).                    *)
(***************************************************************************)
THEOREM GeometryAlwaysImports == ShpSpec => []GeometryImports
<1>1. ASSUME ShpInv
      PROVE  GeometryImports
  <2> SUFFICES ASSUME \A k \in DOMAIN given : given[k] /= << >>, Written
               PROVE  Imports
    BY DEF GeometryImports, FilesImport
  <2>1. PICK n \in Nat : n = Len(given) /\ DOMAIN given = 1..n /\ (n = 0 <=> given = << >>)
    <3>1. PICK S : S = Seq(Parts[type])
      OBVIOUS
    <3>2. given \in Seq(S)
      BY <1>1, <3>1 DEF ShpInv, CallsInv
    <3> QED
      BY <3>2
  <2>2. \A k \in 1 .. n-1 : given[k] /= << >>
    BY <2>1
  <2>3. given = << >> \/ given[n] /= << >>
    BY <2>1
  <2> QED
    BY <1>1, <2>1, <2>2, <2>3, ImportsUnlessLastIsNull
<1> QED
  BY <1>1, ShpInvariant, PTL

-------------------------------------------------------------------------------

(***************************************************************************)
(* The boxes.  What has been added by now, and the smallest range around   *)
(* values.                                                                 *)
(***************************************************************************)
Added == UNION {{given[k][i] : i \in {i \in DOMAIN given[k] : i =< calls[k]}} : k \in DOMAIN given}

ValuesOf(parts, c) == UNION {Range(Column(p.verts, c)) : p \in parts}

Smallest(r, S) ==
  /\ r = <<r[1], r[2]>> /\ r[1] \in Int /\ r[2] \in Int
  /\ r[1] \in {Huge} \cup S /\ \A x \in {Huge} \cup S : r[1] =< x
  /\ r[2] \in {-Huge} \cup S /\ \A x \in {-Huge} \cup S : x =< r[2]

LEMMA SmallestIsWidened ==
  ASSUME NEW S \in SUBSET Int, IsFiniteSet(S), NEW r, Smallest(r, S)
  PROVE  r = Widen(NoRange, S)
<1>1. PICK w, none : w = Widen(none, S) /\ none = NoRange
  OBVIOUS
<1>2. none[1] = Huge /\ none[2] = -Huge /\ Huge \in Int
  BY <1>1 DEF NoRange, Huge
<1>3. none[1] \in Int /\ none[2] \in Int
  BY <1>2
<1>4. /\ w = <<w[1], w[2]>> /\ w[1] \in Int /\ w[2] \in Int
      /\ w[1] \in {Huge} \cup S /\ \A x \in {Huge} \cup S : w[1] =< x
      /\ w[2] \in {-Huge} \cup S /\ \A x \in {-Huge} \cup S : x =< w[2]
  BY <1>1, <1>2, <1>3, WidenFacts
<1>5. w[1] = r[1] /\ w[2] = r[2]
  BY <1>4 DEF Smallest
<1>6. w = r
  BY <1>4, <1>5 DEF Smallest
<1> QED
  BY <1>1, <1>6

\* Widening it by more values leaves it the smallest one.
LEMMA WidenSmallest ==
  ASSUME NEW S \in SUBSET Int, NEW T \in SUBSET Int, IsFiniteSet(T), NEW h, Smallest(h, S),
         NEW r, r = Widen(h, T)
  PROVE  Smallest(r, S \cup T)
<1>1. h[1] \in Int /\ h[2] \in Int
  BY DEF Smallest
<1>2. /\ r = <<r[1], r[2]>> /\ r[1] \in Int /\ r[2] \in Int
      /\ r[1] \in {h[1]} \cup T /\ \A x \in {h[1]} \cup T : r[1] =< x
      /\ r[2] \in {h[2]} \cup T /\ \A x \in {h[2]} \cup T : x =< r[2]
  BY <1>1, WidenFacts
<1>3. r[1] \in {Huge} \cup (S \cup T) /\ r[2] \in {-Huge} \cup (S \cup T)
  BY <1>2 DEF Smallest
<1>4. \A x \in {Huge} \cup (S \cup T) : r[1] =< x
  BY <1>1, <1>2 DEF Smallest, Huge
<1>5. \A x \in {-Huge} \cup (S \cup T) : x =< r[2]
  BY <1>1, <1>2 DEF Smallest, Huge
<1> QED
  BY <1>2, <1>3, <1>4, <1>5 DEF Smallest

\* So does the hull with the range of a record, which was inside of it.
LEMMA HullSmallest ==
  ASSUME NEW S \in SUBSET Int, NEW T \in SUBSET Int, IsFiniteSet(T), T /= {},
         NEW h, Smallest(h, S), NEW r, r[1] \in Int, r[2] \in Int, h[1] =< r[1], r[2] =< h[2],
         NEW b, b = Widen(r, T), NEW g, g = Hull(h, b)
  PROVE  Smallest(g, S \cup T) /\ g[1] =< b[1] /\ b[2] =< g[2]
<1>1. h[1] \in Int /\ h[2] \in Int
  BY DEF Smallest
<1>2. /\ b[1] \in Int /\ b[2] \in Int
      /\ b[1] \in {r[1]} \cup T /\ \A x \in {r[1]} \cup T : b[1] =< x
      /\ b[2] \in {r[2]} \cup T /\ \A x \in {r[2]} \cup T : x =< b[2]
  BY WidenFacts
<1>3. PICK B : B = {b[1], b[2]}
  OBVIOUS
<1>4. B \in SUBSET Int /\ IsFiniteSet(B)
  <2>1. IsFiniteSet({b[1]}) /\ IsFiniteSet({b[2]})
    BY FS_Singleton
  <2>2. B = {b[1]} \cup {b[2]}
    BY <1>3
  <2>3. IsFiniteSet(B)
    BY <2>1, <2>2, FS_Union
  <2> QED
    BY <1>2, <1>3, <2>3
<1>5. g = Widen(h, B)
  BY <1>3 DEF Hull
<1>6. /\ g = <<g[1], g[2]>> /\ g[1] \in Int /\ g[2] \in Int
      /\ g[1] \in {h[1]} \cup B /\ \A x \in {h[1]} \cup B : g[1] =< x
      /\ g[2] \in {h[2]} \cup B /\ \A x \in {h[2]} \cup B : x =< g[2]
  BY <1>1, <1>4, <1>5, WidenFacts
<1>7. g[1] =< h[1] /\ h[2] =< g[2] /\ g[1] =< b[1] /\ b[2] =< g[2]
  BY <1>3, <1>6
<1>8. b[1] =< b[2]
  <2>1. PICK x \in T : x \in Int
    OBVIOUS
  <2> QED
    BY <1>2, <2>1
<1>9. g[1] \in {h[1]} \cup T /\ g[2] \in {h[2]} \cup T
  <2>1. g[1] \in {h[1], b[1]} /\ g[2] \in {h[2], b[2]}
    BY <1>1, <1>2, <1>3, <1>6, <1>7, <1>8
  <2>2. b[1] = r[1] => g[1] \in {h[1]} \cup T
    BY <1>1, <1>2, <1>6, <1>7, <2>1
  <2>3. b[2] = r[2] => g[2] \in {h[2]} \cup T
    BY <1>1, <1>2, <1>6, <1>7, <2>1
  <2> QED
    BY <1>2, <2>1, <2>2, <2>3
<1>10. g[1] \in {Huge} \cup (S \cup T) /\ g[2] \in {-Huge} \cup (S \cup T)
  BY <1>9 DEF Smallest
<1>11. \A x \in {Huge} \cup (S \cup T) : g[1] =< x
  BY <1>1, <1>2, <1>6, <1>7 DEF Smallest, Huge
<1>12. \A x \in {-Huge} \cup (S \cup T) : x =< g[2]
  BY <1>1, <1>2, <1>6, <1>7 DEF Smallest, Huge
<1> QED
  BY <1>6, <1>7, <1>10, <1>11, <1>12 DEF Smallest

\* A call adds its part, if it is one too many nothing else.
LEMMA AddedNext ==
  ASSUME ShpInv, Called, NEW p, IsNext(p)
  PROVE  /\ Added' = Added \cup {p}
         /\ calls[Len(given)] >= Len(given[Len(given)]) => p \in Added
<1>1. PICK P, S : P = Parts[type] /\ S = Seq(P)
  OBVIOUS
<1>2. PICK n, parts, done, m : n = Len(given) /\ parts = given[n] /\ done = calls[n] /\ m = Len(parts)
  OBVIOUS
<1>3. /\ n \in Nat \ {0} /\ DOMAIN given = 1..n /\ DOMAIN calls = 1..n /\ Len(calls) = n
      /\ parts \in S /\ done \in Nat
  <2>1. given \in Seq(S) /\ calls \in Seq(Nat) /\ Len(calls) = Len(given) /\ given /= << >>
    BY <1>1 DEF ShpInv, CallsInv, Called
  <2>2. n \in Nat \ {0} /\ DOMAIN given = 1..n /\ DOMAIN calls = 1..n /\ Len(calls) = n
    BY <1>2, <2>1
  <2> QED
    BY <1>2, <2>1, <2>2
<1>4. m \in Nat \ {0} /\ DOMAIN parts = 1..m /\ done =< m
  <2>1. parts \in Seq(P) /\ parts /= << >> /\ done =< m
    BY <1>1, <1>2, <1>3 DEF Called
  <2> QED
    BY <1>2, <2>1
<1>5. PICK j \in 1..m : p = parts[j] /\ j = IF done < m THEN done + 1 ELSE m
  <2>1. p = parts[Min({done + 1, m})]
    BY <1>2 DEF IsNext
  <2>2. done + 1 \in Int /\ m \in Int
    BY <1>3, <1>4
  <2>3. Min({done + 1, m}) = IF done + 1 =< m THEN done + 1 ELSE m
    BY <2>2, MinMaxOfTwo
  <2> QED
    BY <1>3, <1>4, <2>1, <2>3
<1>6. PICK new : new = calls' /\ new = [calls EXCEPT ![n] = done + 1] /\ given' = given
  BY <1>2, <1>3 DEF Called
<1>7. \A k \in 1..n : new[k] = IF k = n THEN done + 1 ELSE calls[k]
  BY <1>3, <1>6
<1>8. \A x : x \in Added <=> \E k \in 1..n : \E i \in DOMAIN given[k] : i =< calls[k] /\ x = given[k][i]
  BY <1>3 DEF Added
<1>9. \A x : x \in Added' <=> \E k \in 1..n : \E i \in DOMAIN given[k] : i =< new[k] /\ x = given[k][i]
  BY <1>3, <1>6 DEF Added
<1>10. \A k \in 1..n : \A i \in DOMAIN given[k] : i =< calls[k] => i =< new[k]
  BY <1>2, <1>3, <1>4, <1>7
<1>11. n \in 1..n
  BY <1>3
<1>12. p \in Added'
  <2>1. j =< new[n] /\ j \in DOMAIN given[n] /\ p = given[n][j]
    BY <1>2, <1>3, <1>4, <1>5, <1>7, <1>11
  <2> QED
    BY <1>9, <1>11, <2>1
<1>13. \A k \in 1..n : \A i \in DOMAIN given[k] : i =< new[k] => i =< calls[k] \/ given[k][i] = p
  <2> SUFFICES ASSUME NEW k \in 1..n, NEW i \in DOMAIN given[k], i =< new[k], ~(i =< calls[k])
               PROVE  given[k][i] = p
    OBVIOUS
  <2>1. k = n
    BY <1>7
  <2>2. i \in 1..m /\ i =< done + 1 /\ ~(i =< done)
    BY <1>2, <1>4, <1>7, <2>1
  <2>3. i = done + 1 /\ done < m
    BY <1>3, <1>4, <2>2
  <2>4. i = j
    BY <1>5, <2>3
  <2> QED
    BY <1>2, <1>5, <2>1, <2>4
<1>14. \A x : x \in Added' <=> x \in Added \/ x = p
  BY <1>8, <1>9, <1>10, <1>12, <1>13
<1>15. done >= m => p \in Added
  <2> SUFFICES ASSUME done >= m
               PROVE  p \in Added
    OBVIOUS
  <2>1. j =< calls[n] /\ j \in DOMAIN given[n] /\ p = given[n][j]
    BY <1>2, <1>3, <1>4, <1>5
  <2> QED
    BY <1>8, <1>11, <2>1
<1> QED
  BY <1>2, <1>14, <1>15

(***************************************************************************)
(* The invariant of the boxes.  The one of the last record, which a call   *)
(* starts from, is inside of that of the file.                             *)
(***************************************************************************)
RecordInBox ==
  /\ header.box.x[1] =< At(shp, Content + 4)  /\ At(shp, Content + 20) =< header.box.x[2]
  /\ header.box.y[1] =< At(shp, Content + 12) /\ At(shp, Content + 28) =< header.box.y[2]

WithZ(parts) == {p \in parts : HasZ(type) /\ p.hasZ}
WithM(parts) == {p \in parts : HasM(type) /\ p.hasM}

BoxesInv ==
  /\ \A c \in 1..4 : IsFiniteSet(ValuesOf(Added, c)) /\ ValuesOf(Added, c) \in SUBSET Int
  /\ Smallest(header.box.x, ValuesOf(Added, 1)) /\ Smallest(header.box.y, ValuesOf(Added, 2))
  /\ Covers(header.box.z, ValuesOf(WithZ(Added), 3))
  /\ Covers(header.box.m, ValuesOf(WithM(Added), 4))
  /\ given /= << >> /\ type \notin PointTypes /\ NumPoints > 0 => RecordInBox

LEMMA ValuesGrow ==
  ASSUME NEW parts, NEW p, NEW c
  PROVE  ValuesOf(parts \cup {p}, c) = ValuesOf(parts, c) \cup Range(Column(p.verts, c))
BY DEF ValuesOf

LEMMA CoversHull ==
  ASSUME NEW S \in SUBSET Int, NEW T \in SUBSET Int, NEW h, Covers(h, S), NEW r, Covers(r, T), NEW g, g = Hull(h, r)
  PROVE  Covers(g, S \cup T)
<1>1. PICK B : B = {r[1], r[2]}
  OBVIOUS
<1>2. h[1] \in Int /\ h[2] \in Int /\ r[1] \in Int /\ r[2] \in Int
  BY DEF Covers
<1>3. B \in SUBSET Int /\ IsFiniteSet(B)
  <2>1. IsFiniteSet({r[1]}) /\ IsFiniteSet({r[2]})
    BY FS_Singleton
  <2>2. B = {r[1]} \cup {r[2]}
    BY <1>1
  <2>3. IsFiniteSet(B)
    BY <2>1, <2>2, FS_Union
  <2> QED
    BY <1>1, <1>2, <2>3
<1>4. g = Widen(h, B)
  BY <1>1 DEF Hull
<1>5. /\ g[1] \in Int /\ g[2] \in Int
      /\ \A x \in {h[1]} \cup B : g[1] =< x
      /\ \A x \in {h[2]} \cup B : x =< g[2]
  BY <1>2, <1>3, <1>4, WidenFacts
<1>6. g[1] =< h[1] /\ h[2] =< g[2] /\ g[1] =< r[1] /\ r[2] =< g[2]
  BY <1>1, <1>5
<1> QED
  BY <1>2, <1>5, <1>6 DEF Covers

\* What a call adds to one direction of the box.
Widened(k, new, p) == Smallest(new, ValuesOf(Added, k) \cup Range(Column(p.verts, k)))

\* It is the smallest one if what the record had was inside of it.
LEMMA VerticesWiden ==
  ASSUME ShpInv, BoxesInv, given /= << >>, NEW k \in 1..2, NEW p, NEW n \in Nat \ {0},
         RoomFor(n), NEW vs, Vertices(vs, n), SameValues(vs, p.verts),
         NEW h, h = IF k = 1 THEN header.box.x ELSE header.box.y,
         NEW b, b = BoxWith(k, vs), NEW g, g = Hull(h, b)
  PROVE  Widened(k, g, p) /\ g[1] =< b[1] /\ b[2] =< g[2]
<1>1. PICK S, T : S = ValuesOf(Added, k) /\ T = Range(Column(vs, k))
  OBVIOUS
<1>2. IsFiniteSet(S) /\ S \in SUBSET Int /\ Smallest(h, S)
  <2>1. k = 1 \/ k = 2
    OBVIOUS
  <2> QED
    BY <1>1, <2>1 DEF BoxesInv
<1>3. Values(Column(vs, k), n)
  BY ColumnValues
<1>4. IsFiniteSet(T) /\ T \in SUBSET Int
  BY <1>1, <1>3, RangeFinite
<1>5. T /= {}
  <2>1. 1 \in DOMAIN Column(vs, k)
    BY <1>3 DEF Values
  <2>2. Column(vs, k)[1] \in T
    BY <1>1, <2>1 DEF Range
  <2> QED
    BY <2>2
<1>6. PICK r : r = IF NumPoints > 0
                   THEN <<At(shp, Content + 4 + 8*(k-1)), At(shp, Content + 4 + 8*(k+1))>>
                   ELSE NoRange
  OBVIOUS
<1>7. b = Widen(r, T)
  BY <1>1, <1>6 DEF BoxWith
<1>8. r[1] \in Int /\ r[2] \in Int
  <2>1. Cells(shp, shpSize)
    BY DEF ShpInv, CellsInv
  <2> QED
    BY <1>6, <2>1, AtInt DEF NoRange, Huge
<1>9. h[1] =< r[1] /\ r[2] =< h[2]
  <2>1. CASE NumPoints > 0
    <3>1. type \notin PointTypes
      BY DEF RoomFor
    <3>2. RecordInBox
      BY <2>1, <3>1 DEF BoxesInv
    <3>3. PICK c \in Int : c = Content
      BY DEF RoomFor, Content, RecordSize
    <3>4. r = <<At(shp, c + 4 + 8*(k-1)), At(shp, c + 4 + 8*(k+1))>>
      BY <1>6, <2>1, <3>3
    <3>5. CASE k = 1
      <4>1. r = <<At(shp, c + 4), At(shp, c + 20)>>
        BY <3>4, <3>5
      <4> QED
        BY <3>2, <3>3, <3>5, <4>1 DEF RecordInBox
    <3>6. CASE k = 2
      <4>1. r = <<At(shp, c + 12), At(shp, c + 28)>>
        BY <3>4, <3>6
      <4> QED
        BY <3>2, <3>3, <3>6, <4>1 DEF RecordInBox
    <3> QED
      BY <3>5, <3>6
  <2>2. CASE ~(NumPoints > 0)
    <3>1. r[1] = Huge /\ r[2] = -Huge
      BY <1>6, <2>2 DEF NoRange
    <3> QED
      BY <1>2, <3>1 DEF Smallest
  <2> QED
    BY <2>1, <2>2
<1>10. Smallest(g, S \cup T) /\ g[1] =< b[1] /\ b[2] =< g[2]
  BY <1>2, <1>4, <1>5, <1>7, <1>8, <1>9, HullSmallest
<1>11. T = Range(Column(p.verts, k))
  <2>1. k \in 1..4
    OBVIOUS
  <2> QED
    BY <1>1, <2>1 DEF SameValues
<1> QED
  BY <1>1, <1>10, <1>11 DEF Widened

LEMMA NextValues ==
  ASSUME ShpInv, NEW p, IsNext(p), NEW c \in 1..4
  PROVE  IsFiniteSet(Range(Column(p.verts, c))) /\ Range(Column(p.verts, c)) \in SUBSET Int
<1>1. type \in Types /\ p \in Parts[type]
  BY DEF ShpInv, CallsInv, IsNext
<1>2. PICK n \in Nat : Vertices(p.verts, n)
  <2>1. Len(p.verts) \in Nat /\ Vertices(p.verts, Len(p.verts))
    BY <1>1, PartFacts
  <2> QED
    BY <2>1
<1>3. Values(Column(p.verts, c), n)
  BY <1>2, ColumnValues
<1> QED
  BY <1>3, RangeFinite

\* Whatever is widened in this way keeps the invariant.
LEMMA BoxesKept ==
  ASSUME ShpInv, BoxesInv, Called, NEW p, IsNext(p),
         Widened(1, header'.box.x, p), Widened(2, header'.box.y, p),
         Covers(header'.box.z, ValuesOf(WithZ(Added \cup {p}), 3)),
         Covers(header'.box.m, ValuesOf(WithM(Added \cup {p}), 4)),
         type \notin PointTypes /\ NumPoints' > 0 => RecordInBox'
  PROVE  BoxesInv'
<1>1. PICK new : new = Added' /\ new = Added \cup {p}
  BY AddedNext
<1>2. type' = type /\ given' = given
  BY DEF Called
<1>3. \A c \in 1..4 : ValuesOf(new, c) = ValuesOf(Added, c) \cup Range(Column(p.verts, c))
  BY <1>1, ValuesGrow
<1>4. \A c \in 1..4 : IsFiniteSet(ValuesOf(new, c)) /\ ValuesOf(new, c) \in SUBSET Int
  <2> SUFFICES ASSUME NEW c \in 1..4
               PROVE  IsFiniteSet(ValuesOf(new, c)) /\ ValuesOf(new, c) \in SUBSET Int
    OBVIOUS
  <2>1. IsFiniteSet(Range(Column(p.verts, c))) /\ Range(Column(p.verts, c)) \in SUBSET Int
    BY NextValues
  <2>2. IsFiniteSet(ValuesOf(Added, c)) /\ ValuesOf(Added, c) \in SUBSET Int
    BY DEF BoxesInv
  <2> QED
    BY <1>3, <2>1, <2>2, FS_Union
<1>5. Smallest(header'.box.x, ValuesOf(new, 1)) /\ Smallest(header'.box.y, ValuesOf(new, 2))
  <2>1. 1 \in 1..4 /\ 2 \in 1..4
    OBVIOUS
  <2>2. /\ ValuesOf(new, 1) = ValuesOf(Added, 1) \cup Range(Column(p.verts, 1))
        /\ ValuesOf(new, 2) = ValuesOf(Added, 2) \cup Range(Column(p.verts, 2))
    BY <1>3, <2>1
  <2> QED
    BY <2>2 DEF Widened
<1>6. /\ Covers(header'.box.z, ValuesOf(WithZ(new), 3))
      /\ Covers(header'.box.m, ValuesOf(WithM(new), 4))
  BY <1>1
<1> QED
  BY <1>1, <1>2, <1>4, <1>5, <1>6 DEF BoxesInv, WithZ, WithM

LEMMA CoversWiden ==
  ASSUME NEW S \in SUBSET Int, NEW h, Covers(h, S), NEW i \in Int, NEW g, g = Widen(h, {i})
  PROVE  Covers(g, S \cup {i})
<1>1. PICK T : T = {i} /\ IsFiniteSet(T) /\ T \in SUBSET Int
  BY FS_Singleton
<1>2. g = Widen(h, T) /\ h[1] \in Int /\ h[2] \in Int
  BY <1>1 DEF Covers
<1>3. /\ g[1] \in Int /\ g[2] \in Int
      /\ \A j \in {h[1]} \cup T : g[1] =< j
      /\ \A j \in {h[2]} \cup T : j =< g[2]
  BY <1>1, <1>2, WidenFacts
<1>4. g[1] =< h[1] /\ h[2] =< g[2] /\ g[1] =< i /\ i =< g[2]
  BY <1>1, <1>3
<1>5. PICK a \in Int, b \in Int, l \in Int, u \in Int : a = h[1] /\ b = h[2] /\ l = g[1] /\ u = g[2]
  BY <1>2, <1>3
<1>6. \A x \in S : a =< x /\ x =< b
  BY <1>5 DEF Covers
<1>7. \A x \in S \cup {i} : l =< x /\ x =< u
  BY <1>4, <1>5, <1>6
<1> QED
  BY <1>5, <1>7 DEF Covers

LEMMA ZMore ==
  ASSUME NEW parts, NEW p, NEW S, S = ValuesOf(WithZ(parts), 3)
  PROVE  /\ HasZ(type) /\ p.hasZ =>
              ValuesOf(WithZ(parts \cup {p}), 3) = S \cup Range(Column(p.verts, 3))
         /\ ~(HasZ(type) /\ p.hasZ) => ValuesOf(WithZ(parts \cup {p}), 3) = S
<1>1. ASSUME HasZ(type), p.hasZ
      PROVE  ValuesOf(WithZ(parts \cup {p}), 3) = S \cup Range(Column(p.verts, 3))
  <2>1. PICK old, new : old = WithZ(parts) /\ new = WithZ(parts \cup {p})
    OBVIOUS
  <2>2. new = old \cup {p}
    BY <1>1, <2>1 DEF WithZ
  <2>3. ValuesOf(new, 3) = ValuesOf(old, 3) \cup Range(Column(p.verts, 3))
    BY <2>2, ValuesGrow
  <2> QED
    BY <2>1, <2>3
<1>2. ASSUME ~(HasZ(type) /\ p.hasZ)
      PROVE  ValuesOf(WithZ(parts \cup {p}), 3) = S
  <2>1. WithZ(parts \cup {p}) = WithZ(parts)
    BY <1>2 DEF WithZ
  <2> QED
    BY <2>1
<1> QED
  BY <1>1, <1>2

LEMMA MMore ==
  ASSUME NEW parts, NEW p, NEW S, S = ValuesOf(WithM(parts), 4)
  PROVE  /\ HasM(type) /\ p.hasM =>
              ValuesOf(WithM(parts \cup {p}), 4) = S \cup Range(Column(p.verts, 4))
         /\ ~(HasM(type) /\ p.hasM) => ValuesOf(WithM(parts \cup {p}), 4) = S
<1>1. ASSUME HasM(type), p.hasM
      PROVE  ValuesOf(WithM(parts \cup {p}), 4) = S \cup Range(Column(p.verts, 4))
  <2>1. PICK old, new : old = WithM(parts) /\ new = WithM(parts \cup {p})
    OBVIOUS
  <2>2. new = old \cup {p}
    BY <1>1, <2>1 DEF WithM
  <2>3. ValuesOf(new, 4) = ValuesOf(old, 4) \cup Range(Column(p.verts, 4))
    BY <2>2, ValuesGrow
  <2> QED
    BY <2>1, <2>3
<1>2. ASSUME ~(HasM(type) /\ p.hasM)
      PROVE  ValuesOf(WithM(parts \cup {p}), 4) = S
  <2>1. WithM(parts \cup {p}) = WithM(parts)
    BY <1>2 DEF WithM
  <2> QED
    BY <2>1
<1> QED
  BY <1>1, <1>2

LEMMA CoveredNow ==
  ASSUME BoxesInv, ShpInv, NEW p, IsNext(p)
  PROVE  /\ Covers(header.box.z, ValuesOf(WithZ(Added), 3)) /\ ValuesOf(WithZ(Added), 3) \in SUBSET Int
         /\ Covers(header.box.m, ValuesOf(WithM(Added), 4)) /\ ValuesOf(WithM(Added), 4) \in SUBSET Int
         /\ Range(Column(p.verts, 3)) \in SUBSET Int /\ Range(Column(p.verts, 4)) \in SUBSET Int
<1>1. 3 \in 1..4 /\ 4 \in 1..4
  OBVIOUS
<1>2. ValuesOf(Added, 3) \in SUBSET Int /\ ValuesOf(Added, 4) \in SUBSET Int
  BY <1>1 DEF BoxesInv
<1>3. WithZ(Added) \subseteq Added /\ WithM(Added) \subseteq Added
  BY DEF WithZ, WithM
<1>4. ValuesOf(WithZ(Added), 3) \subseteq ValuesOf(Added, 3) /\ ValuesOf(WithM(Added), 4) \subseteq ValuesOf(Added, 4)
  BY <1>3 DEF ValuesOf
<1>5. Range(Column(p.verts, 3)) \in SUBSET Int /\ Range(Column(p.verts, 4)) \in SUBSET Int
  BY <1>1, NextValues
<1> QED
  BY <1>2, <1>4, <1>5 DEF BoxesInv

LEMMA VerticesBoxed ==
  ASSUME ShpInv, BoxesInv, Called, NEW p, IsNext(p), NEW n \in Nat \ {0}, NEW vs, NEW mem,
         Lays(p, n, vs, mem)
  PROVE  BoxesInv'
<1>1. /\ RoomFor(n) /\ PartNoted(mem, n) /\ Vertices(vs, n) /\ SameValues(vs, p.verts)
      /\ AddVertices(p, vs, mem) /\ given /= << >>
  BY DEF Lays, Called
<1>2. PICK put, box, new : put = PutAll(p, vs, mem) /\ box = header'.box /\ new = shp'
  OBVIOUS
<1>3. box = HullOf(p, vs, put) /\ RecordHas(p, vs, n, mem, new) /\ RangesHave(p, vs, put)
  <2>1. Cells(mem, NewEnd(n))
    BY <1>1 DEF PartNoted
  <2>2. /\ header' = [length |-> NewEnd(n) \div 2, box |-> HullOf(p, vs, put)]
        /\ RecordHas(p, vs, n, mem, new) /\ RangesHave(p, vs, put)
    BY <1>1, <1>2, <2>1, VerticesWritten
  <2> QED
    BY <1>2, <2>2
<1>4. PICK bx, by : bx = BoxWith(1, vs) /\ by = BoxWith(2, vs)
  OBVIOUS
<1>5. /\ box.x = Hull(header.box.x, bx) /\ box.y = Hull(header.box.y, by)
      /\ box.z = IF HasZ(type) /\ p.hasZ THEN Hull(header.box.z, <<At(put, ZAt), At(put, ZAt + 8)>>)
                 ELSE header.box.z
      /\ box.m = IF HasM(type) /\ p.hasM THEN Hull(header.box.m, <<At(put, MAt), At(put, MAt + 8)>>)
                 ELSE header.box.m
  BY <1>3, <1>4 DEF HullOf
<1>6. /\ Widened(1, box.x, p) /\ box.x[1] =< bx[1] /\ bx[2] =< box.x[2]
      /\ Widened(2, box.y, p) /\ box.y[1] =< by[1] /\ by[2] =< box.y[2]
  <2>1. 1 \in 1..2 /\ 2 \in 1..2
    OBVIOUS
  <2>2. Widened(1, box.x, p) /\ box.x[1] =< bx[1] /\ bx[2] =< box.x[2]
    BY <1>1, <1>4, <1>5, <2>1, VerticesWiden
  <2>3. PICK k, h, b, g : /\ k = 2 /\ h = header.box.y /\ b = BoxWith(k, vs) /\ g = Hull(h, b)
    OBVIOUS
  <2>4. k \in 1..2 /\ h = IF k = 1 THEN header.box.x ELSE header.box.y
    BY <2>3
  <2>5. Widened(k, g, p) /\ g[1] =< b[1] /\ b[2] =< g[2]
    BY <1>1, <2>3, <2>4, VerticesWiden
  <2>6. k = 2 /\ b = by /\ g = box.y
    BY <1>4, <1>5, <2>3
  <2> QED
    BY <2>2, <2>5, <2>6
<1>7. /\ Covers(box.z, ValuesOf(WithZ(Added \cup {p}), 3))
      /\ Covers(box.m, ValuesOf(WithM(Added \cup {p}), 4))
  <2>1. PICK Z, M, z, m : /\ Z = ValuesOf(WithZ(Added), 3) /\ M = ValuesOf(WithM(Added), 4)
                          /\ z = Range(Column(p.verts, 3)) /\ m = Range(Column(p.verts, 4))
    OBVIOUS
  <2>2. /\ Covers(header.box.z, Z) /\ Covers(header.box.m, M)
        /\ Z \in SUBSET Int /\ M \in SUBSET Int /\ z \in SUBSET Int /\ m \in SUBSET Int
    BY <2>1, CoveredNow
  <2>3. z = Range(Column(vs, 3)) /\ m = Range(Column(vs, 4))
    <3>1. 3 \in 1..4 /\ 4 \in 1..4
      OBVIOUS
    <3> QED
      BY <1>1, <2>1, <3>1 DEF SameValues
  <2>4. ASSUME HasZ(type) /\ p.hasZ
       PROVE  Covers(box.z, ValuesOf(WithZ(Added \cup {p}), 3))
    <3>1. Covers(<<At(put, ZAt), At(put, ZAt + 8)>>, z)
      BY <1>3, <2>3, <2>4 DEF RangesHave, ColumnOr
    <3>2. Covers(box.z, Z \cup z)
      BY <1>5, <2>2, <2>4, <3>1, CoversHull
    <3> QED
      BY <2>1, <2>4, <3>2, ZMore
  <2>5. ASSUME ~(HasZ(type) /\ p.hasZ)
       PROVE  Covers(box.z, ValuesOf(WithZ(Added \cup {p}), 3))
    BY <1>5, <2>1, <2>2, <2>5, ZMore
  <2>6. ASSUME HasM(type) /\ p.hasM
       PROVE  Covers(box.m, ValuesOf(WithM(Added \cup {p}), 4))
    <3>1. Covers(<<At(put, MAt), At(put, MAt + 8)>>, m)
      BY <1>3, <2>3, <2>6 DEF RangesHave, ColumnOr
    <3>2. Covers(box.m, M \cup m)
      BY <1>5, <2>2, <2>6, <3>1, CoversHull
    <3> QED
      BY <2>1, <2>6, <3>2, MMore
  <2>7. ASSUME ~(HasM(type) /\ p.hasM)
       PROVE  Covers(box.m, ValuesOf(WithM(Added \cup {p}), 4))
    BY <1>5, <2>1, <2>2, <2>7, MMore
  <2> QED
    BY <2>4, <2>5, <2>6, <2>7
<1>8. RecordInBox'
  <2>1. Content' = Content
    BY DEF Called, Content
  <2>2. /\ At(new, Content + 4)  = bx[1] /\ At(new, Content + 20) = bx[2]
        /\ At(new, Content + 12) = by[1] /\ At(new, Content + 28) = by[2]
    BY <1>3, <1>4 DEF RecordHas
  <2> QED
    BY <1>2, <1>6, <2>1, <2>2 DEF RecordInBox
<1> QED
  BY <1>2, <1>6, <1>7, <1>8, BoxesKept

\* A point is in the box as it is.
LEMMA PointBoxed ==
  ASSUME ShpInv, BoxesInv, Called, NEW p, IsNext(p), AddPoint(p)
  PROVE  BoxesInv'
<1>1. type \in PointTypes /\ type \in Types /\ type \in Int /\ p \in Parts[type]
  <2>1. type \in PointTypes /\ type \in Types /\ p \in Parts[type]
    BY DEF AddPoint, ShpInv, CallsInv, IsNext
  <2> QED
    BY <2>1 DEF PointTypes
<1>2. PICK v, box : v = p.verts[1] /\ box = header'.box
  OBVIOUS
<1>3. /\ box.x = Widen(header.box.x, {v[1]}) /\ box.y = Widen(header.box.y, {v[2]})
      /\ box.z = IF HasZ(type) THEN Widen(header.box.z, {v[3]}) ELSE <<0, 0>>
      /\ box.m = IF HasM(type) THEN Widen(header.box.m, {v[4]}) ELSE <<0, 0>>
  <2>1. PICK b : b = [x |-> Widen(header.box.x, {v[1]}), y |-> Widen(header.box.y, {v[2]}),
                      z |-> IF HasZ(type) THEN Widen(header.box.z, {v[3]}) ELSE <<0, 0>>,
                      m |-> IF HasM(type) THEN Widen(header.box.m, {v[4]}) ELSE <<0, 0>>]
    OBVIOUS
  <2>2. PICK end, mem : Finish(end, mem, b)
    BY <1>2, <2>1 DEF AddPoint
  <2>3. box = b
    BY <1>2, <2>2 DEF Finish
  <2> QED
    BY <2>1, <2>3
<1>4. \A c \in 1..4 : Range(Column(p.verts, c)) = {v[c]} /\ v[c] \in Int
  <2>1. Len(p.verts) = 1 /\ Vertices(p.verts, Len(p.verts))
    <3>1. PICK n \in Nat : n = Len(p.verts) /\ Vertices(p.verts, n)
      <4>1. Len(p.verts) \in Nat /\ Vertices(p.verts, Len(p.verts))
        BY <1>1, PartFacts
      <4> QED
        BY <4>1
    <3>2. Len(p.verts) = 1
      BY <1>1, InputAssumption
    <3> QED
      BY <3>1, <3>2
  <2>2. DOMAIN p.verts = {1}
    BY <2>1 DEF Vertices
  <2>3. \A c \in 1..4 : Range(Column(p.verts, c)) = {v[c]}
    BY <1>2, <2>2 DEF Range, Column
  <2>4. \A c \in 1..4 : v[c] \in Int
    <3>1. v \in Int \X Int \X Int \X Int
      BY <1>2, <2>1 DEF Vertices
    <3> QED
      BY <3>1
  <2> QED
    BY <2>3, <2>4
<1>5. PICK x \in Int, y \in Int, z \in Int, m \in Int :
        /\ x = v[1] /\ y = v[2] /\ z = v[3] /\ m = v[4]
        /\ Range(Column(p.verts, 1)) = {x} /\ Range(Column(p.verts, 2)) = {y}
        /\ Range(Column(p.verts, 3)) = {z} /\ Range(Column(p.verts, 4)) = {m}
  BY <1>4
<1>6. \A i \in Int : IsFiniteSet({i}) /\ {i} \in SUBSET Int
  BY FS_Singleton
<1>7. Widened(1, box.x, p) /\ Widened(2, box.y, p)
  <2>1. PICK S, T : S = ValuesOf(Added, 1) /\ T = ValuesOf(Added, 2)
    OBVIOUS
  <2>2. S \in SUBSET Int /\ T \in SUBSET Int /\ Smallest(header.box.x, S) /\ Smallest(header.box.y, T)
    BY <2>1 DEF BoxesInv
  <2>3. Smallest(box.x, S \cup {x})
    BY <1>3, <1>5, <1>6, <2>2, WidenSmallest
  <2>4. Smallest(box.y, T \cup {y})
    BY <1>3, <1>5, <1>6, <2>2, WidenSmallest
  <2> QED
    BY <1>5, <2>1, <2>3, <2>4 DEF Widened
<1>8. /\ Covers(box.z, ValuesOf(WithZ(Added \cup {p}), 3))
      /\ Covers(box.m, ValuesOf(WithM(Added \cup {p}), 4))
  <2>1. PICK Z, M : Z = ValuesOf(WithZ(Added), 3) /\ M = ValuesOf(WithM(Added), 4)
    OBVIOUS
  <2>2. /\ Covers(header.box.z, Z) /\ Covers(header.box.m, M)
        /\ Z \in SUBSET Int /\ M \in SUBSET Int
    BY <2>1, CoveredNow
  <2>3. ASSUME HasZ(type)
       PROVE  Covers(box.z, ValuesOf(WithZ(Added \cup {p}), 3))
    <3>1. Covers(box.z, Z \cup {z})
      BY <1>3, <1>5, <2>2, <2>3, CoversWiden
    <3> QED
      <4>1. ValuesOf(WithZ(Added \cup {p}), 3) \subseteq Z \cup {z}
        BY <1>5, <2>1, ZMore
      <4> QED
        BY <3>1, <4>1 DEF Covers
  <2>4. ASSUME ~HasZ(type)
       PROVE  Covers(box.z, ValuesOf(WithZ(Added \cup {p}), 3))
    <3>1. WithZ(Added \cup {p}) = {}
      BY <2>4 DEF WithZ
    <3>2. ValuesOf(WithZ(Added \cup {p}), 3) = {}
      BY <3>1 DEF ValuesOf
    <3> QED
      BY <1>3, <2>4, <3>2 DEF Covers
  <2>5. ASSUME HasM(type)
       PROVE  Covers(box.m, ValuesOf(WithM(Added \cup {p}), 4))
    <3>1. Covers(box.m, M \cup {m})
      BY <1>3, <1>5, <2>2, <2>5, CoversWiden
    <3> QED
      <4>1. ValuesOf(WithM(Added \cup {p}), 4) \subseteq M \cup {m}
        BY <1>5, <2>1, MMore
      <4> QED
        BY <3>1, <4>1 DEF Covers
  <2>6. ASSUME ~HasM(type)
       PROVE  Covers(box.m, ValuesOf(WithM(Added \cup {p}), 4))
    <3>1. WithM(Added \cup {p}) = {}
      BY <2>6 DEF WithM
    <3>2. ValuesOf(WithM(Added \cup {p}), 4) = {}
      BY <3>1 DEF ValuesOf
    <3> QED
      BY <1>3, <2>6, <3>2 DEF Covers
  <2> QED
    BY <2>3, <2>4, <2>5, <2>6
<1> QED
  BY <1>1, <1>2, <1>7, <1>8, BoxesKept

\* What adds no part and leaves the headers as they were.
LEMMA BoxesStay ==
  ASSUME BoxesInv, Added' = Added, type' = type, header' = header,
         given' /= << >> /\ type \notin PointTypes /\ NumPoints' > 0 => RecordInBox'
  PROVE  BoxesInv'
<1>1. PICK new : new = Added' /\ new = Added
  OBVIOUS
<1>2. WithZ(new) = WithZ(Added) /\ WithM(new) = WithM(Added)
  BY <1>1
<1> QED
  BY <1>1, <1>2 DEF BoxesInv, WithZ, WithM

LEMMA RefusedBoxed ==
  ASSUME ShpInv, BoxesInv, Called, NEW p, IsNext(p), RefusePart
  PROVE  BoxesInv'
<1>1. type \notin PointTypes /\ type \notin MultiPointTypes /\ given /= << >>
  <2>1. type \in PolylineTypes \cup PolygonTypes /\ given /= << >>
    BY DEF RefusePart, Called
  <2> QED
    BY <2>1 DEF PolylineTypes, PolygonTypes, PointTypes, MultiPointTypes
<1>2. PICK done, parts : done = calls[Len(given)] /\ parts = given[Len(given)]
  OBVIOUS
<1>3. done >= Len(parts)
  <2>1. PartIdx = done
    BY <1>1, <1>2 DEF ShpInv, CountsInv
  <2>2. feat.numParts = Len(parts)
    BY <1>1, <1>2 DEF ShpInv, CallsInv
  <2> QED
    BY <2>1, <2>2 DEF RefusePart
<1>4. Added' = Added
  <2>1. PICK new : new = Added' /\ new = Added \cup {p}
    BY AddedNext
  <2>2. p \in Added
    BY <1>2, <1>3, AddedNext
  <2> QED
    BY <2>1, <2>2
<1>5. type' = type /\ header' = header /\ feat' = feat /\ given' = given
  BY DEF RefusePart, Called
<1>6. PICK new : new = shp'
  OBVIOUS
<1>7. PICK rec \in Nat, c \in Nat : rec = feat.rec /\ c = rec + 8 /\ c = Content
  BY <1>1, RecStart DEF Content, RecordSize
<1>8. \A b \in Int : b /= c + 36 => At(new, b) = At(shp, b)
  <2>1. PICK a \in Int : a = c + 36
    OBVIOUS
  <2>2. new = Put(shp, a, 4, <<PartIdx + 1>>)
    BY <1>6, <1>7, <2>1 DEF RefusePart, NumPartsAt
  <2>3. \A b : b /= a => At(new, b) = At(shp, b)
    BY <2>2, PutElsewhere
  <2> QED
    BY <2>1, <2>3
<1>9. /\ At(new, c + 4) = At(shp, c + 4)   /\ At(new, c + 12) = At(shp, c + 12)
      /\ At(new, c + 20) = At(shp, c + 20) /\ At(new, c + 28) = At(shp, c + 28)
      /\ At(new, c + 40) = At(shp, c + 40)
  BY <1>7, <1>8
<1>10. Content' = c
  BY <1>5, <1>7 DEF Content
<1>11. NumPoints' = NumPoints
  <2>1. NumPoints = At(shp, c + 40)
    BY <1>1, <1>7 DEF NumPoints, NumPointsAt
  <2>2. NumPoints' = At(new, c + 40)
    BY <1>1, <1>5, <1>6, <1>7, <1>10 DEF NumPoints, NumPointsAt
  <2> QED
    BY <1>9, <2>1, <2>2
<1>12. NumPoints > 0 => RecordInBox'
  <2>1. NumPoints > 0 => RecordInBox
    BY <1>1 DEF BoxesInv
  <2> QED
    BY <1>5, <1>6, <1>7, <1>9, <1>10, <2>1 DEF RecordInBox
<1>13. given' /= << >> /\ type \notin PointTypes /\ NumPoints' > 0 => RecordInBox'
  BY <1>11, <1>12
<1> QED
  BY <1>4, <1>5, <1>13, BoxesStay

\* A new record has no points.
LEMMA FeatureBoxed ==
  ASSUME ShpInv, BoxesInv, NEW parts \in Features, AddFeature(parts)
  PROVE  BoxesInv'
<1>1. PICK n, S : n = Len(given) /\ S = Seq(Parts[type])
  OBVIOUS
<1>2. /\ given \in Seq(S) /\ calls \in Seq(Nat) /\ Len(calls) = n
      /\ n \in Nat /\ DOMAIN given = 1..n /\ parts \in S
  <2>1. given \in Seq(S) /\ calls \in Seq(Nat) /\ Len(calls) = n
    BY <1>1 DEF ShpInv, CallsInv
  <2>2. n \in Nat /\ DOMAIN given = 1..n
    BY <1>1, <2>1
  <2> QED
    BY <1>1, <2>1, <2>2, FeatureParts
<1>3. PICK g, c : g = given' /\ c = calls'
  OBVIOUS
<1>4. /\ DOMAIN g = 1 .. n+1 /\ g[n+1] = parts /\ c[n+1] = 0
      /\ \A k \in 1..n : g[k] = given[k] /\ c[k] = calls[k]
  <2>1. g = Append(given, parts) /\ c = Append(calls, 0)
    BY <1>3 DEF AddFeature
  <2>2. DOMAIN g = 1 .. n+1 /\ g[n+1] = parts /\ \A k \in 1..n : g[k] = given[k]
    BY <1>1, <1>2, <2>1
  <2>3. c[n+1] = 0 /\ \A k \in 1..n : c[k] = calls[k]
    BY <1>2, <2>1
  <2> QED
    BY <2>2, <2>3
<1>5. Added' = Added
  <2>1. \A x : x \in Added <=> \E k \in 1..n : \E i \in DOMAIN given[k] : i =< calls[k] /\ x = given[k][i]
    BY <1>2 DEF Added
  <2>2. \A x : x \in Added' <=> \E k \in 1 .. n+1 : \E i \in DOMAIN g[k] : i =< c[k] /\ x = g[k][i]
    BY <1>3, <1>4 DEF Added
  <2>3. \A i \in DOMAIN g[n+1] : ~(i =< c[n+1])
    <3>1. \A i \in DOMAIN parts : i \in Int /\ i >= 1
      BY <1>1, <1>2
    <3> QED
      BY <1>4, <3>1
  <2>4. \A k \in 1 .. n+1 : k \in 1..n \/ k = n+1
    BY <1>2
  <2>5. \A k \in 1..n : k \in 1 .. n+1
    BY <1>2
  <2>6. \A x : x \in Added' <=> x \in Added
    BY <1>4, <2>1, <2>2, <2>3, <2>4, <2>5
  <2> QED
    BY <2>6
<1>6. type' = type /\ header' = header
  BY DEF AddFeature
<1>7. ~(NumPoints' > 0)
  <2>1. PICK new : new = shp'
    OBVIOUS
  <2>2. PICK size \in Nat : size = shpSize
    BY DEF ShpInv, CellsInv
  <2>3. new = Put(shp, size, 4, <<Len(shx) + 1>>)
    BY <2>1, <2>2 DEF AddFeature
  <2>4. \A b : b /= size => At(new, b) = At(shp, b)
    <3>1. size \in Int
      OBVIOUS
    <3> QED
      BY <2>3, <3>1, PutElsewhere
  <2>5. PICK at \in Int : at = NumPointsAt(type', Content') /\ at > size
    <3>1. feat'.rec = size
      BY <2>2 DEF AddFeature
    <3>2. Content' = size + 8
      BY <3>1 DEF Content, RecordSize
    <3> QED
      BY <3>2 DEF NumPointsAt
  <2>6. At(new, at) = At(shp, at)
    BY <2>4, <2>5
  <2>7. at \notin DOMAIN shp
    BY <2>2, <2>5 DEF ShpInv, CellsInv, Cells
  <2>8. At(new, at) = 0
    BY <2>6, <2>7 DEF At
  <2>9. NumPoints' = 0
    BY <2>1, <2>2, <2>5, <2>8 DEF NumPoints
  <2> QED
    BY <2>9
<1> QED
  BY <1>5, <1>6, <1>7, BoxesStay

LEMMA BoxesSame ==
  ASSUME BoxesInv, UNCHANGED <<type, shp, header, feat, given, calls>>
  PROVE  BoxesInv'
<1>1. Added' = Added
  BY DEF Added
<1>2. NumPoints' = NumPoints /\ (RecordInBox => RecordInBox')
  BY DEF NumPoints, RecordInBox, At, Content
<1>3. given' /= << >> /\ type \notin PointTypes /\ NumPoints' > 0 => RecordInBox'
  BY <1>2 DEF BoxesInv
<1> QED
  BY <1>1, <1>3, BoxesStay

LEMMA BoxesInit == Init => BoxesInv
<1> SUFFICES ASSUME Init
             PROVE  BoxesInv
  OBVIOUS
<1>1. PICK box : box = header.box
  OBVIOUS
<1>2. /\ box.x = NoRange /\ box.y = NoRange
      /\ box.z = NoRange \/ box.z = <<0, 0>>
      /\ box.m = NoRange \/ box.m = <<0, 0>>
      /\ given = << >>
  <2>1. PICK b : b = [x |-> NoRange, y |-> NoRange,
                      z |-> IF HasZ(type) THEN NoRange ELSE <<0, 0>>,
                      m |-> IF HasM(type) THEN NoRange ELSE <<0, 0>>]
    OBVIOUS
  <2>2. header = [length |-> HeaderSize \div 2, box |-> b] /\ given = << >>
    BY <2>1 DEF Init
  <2>3. box = b
    BY <1>1, <2>2
  <2> QED
    BY <2>1, <2>2, <2>3
<1>3. Added = {}
  BY <1>2 DEF Added
<1>4. \A c : ValuesOf(Added, c) = {}
  BY <1>3 DEF ValuesOf
<1>5. ValuesOf(WithZ(Added), 3) = {} /\ ValuesOf(WithM(Added), 4) = {}
  BY <1>3 DEF ValuesOf, WithZ, WithM
<1>6. Smallest(NoRange, {})
  BY DEF Smallest, NoRange, Huge
<1>7. Covers(NoRange, {}) /\ Covers(<<0, 0>>, {})
  BY DEF Covers, NoRange, Huge
<1>8. \A c \in 1..4 : IsFiniteSet(ValuesOf(Added, c)) /\ ValuesOf(Added, c) \in SUBSET Int
  BY <1>4, FS_EmptySet
<1>9. Smallest(box.x, ValuesOf(Added, 1)) /\ Smallest(box.y, ValuesOf(Added, 2))
  BY <1>2, <1>4, <1>6
<1>10. Covers(box.z, ValuesOf(WithZ(Added), 3)) /\ Covers(box.m, ValuesOf(WithM(Added), 4))
  BY <1>2, <1>5, <1>7
<1> QED
  BY <1>1, <1>2, <1>8, <1>9, <1>10 DEF BoxesInv

LEMMA BoxesInvariant == ShpSpec => []BoxesInv
<1>1. ASSUME ShpInv, BoxesInv, [Next]_shpVars
      PROVE  BoxesInv'
  <2>1. ASSUME NEW len \in {1, 8}, CreateField(len)
        PROVE  BoxesInv'
    <3>1. UNCHANGED <<type, shp, header, feat, given, calls>>
      BY <2>1 DEF CreateField
    <3> QED
      BY <1>1, <3>1, BoxesSame
  <2>2. ASSUME NEW parts \in Features, AddFeature(parts)
        PROVE  BoxesInv'
    BY <1>1, <2>2, FeatureBoxed
  <2>3. CASE AddPart
    <3>1. PICK p : /\ Called /\ IsNext(p)
                   /\ \/ AddPoint(p)
                      \/ \E n \in Nat \ {0} : \E vs, mem : Lays(p, n, vs, mem)
                      \/ RefusePart
      BY <1>1, <2>3, PartKinds
    <3>2. CASE AddPoint(p)
      BY <1>1, <3>1, <3>2, PointBoxed
    <3>3. ASSUME NEW n \in Nat \ {0}, NEW vs, NEW mem, Lays(p, n, vs, mem)
          PROVE  BoxesInv'
      BY <1>1, <3>1, <3>3, VerticesBoxed
    <3>4. CASE RefusePart
      BY <1>1, <3>1, <3>4, RefusedBoxed
    <3> QED
      BY <3>1, <3>2, <3>3, <3>4
  <2>4. CASE Saved \/ UNCHANGED shpVars
    <3>1. UNCHANGED <<type, shp, header, feat, given, calls>>
      BY <2>4 DEF Saved, shpVars
    <3> QED
      BY <1>1, <3>1, BoxesSame
  <2> QED
    BY <1>1, <2>1, <2>2, <2>3, <2>4 DEF Next
<1> QED
  BY <1>1, BoxesInit, ShpInvariant, PTL DEF ShpSpec

(***************************************************************************)
(* Both headers always hold the smallest box around the points that have   *)
(* been added, over all features, though every call starts from the box of *)
(* its record; and no Z or M that was given is outside of it               *)
(* (include/geotypes-shp.cpp).                                             *)
(***************************************************************************)
THEOREM BoxesAlwaysCover == ShpSpec => []BoxesCover
<1>1. ASSUME ShpInv, BoxesInv
      PROVE  BoxesCover
  <2>1. header.box = shxHeader.box
    BY <1>1 DEF ShpInv, HeadersInv
  <2>2. /\ header.box.x = Widen(NoRange, ValuesOf(Added, 1))
        /\ header.box.y = Widen(NoRange, ValuesOf(Added, 2))
    <3>1. 1 \in 1..4 /\ 2 \in 1..4
      OBVIOUS
    <3>2. /\ IsFiniteSet(ValuesOf(Added, 1)) /\ ValuesOf(Added, 1) \in SUBSET Int
          /\ IsFiniteSet(ValuesOf(Added, 2)) /\ ValuesOf(Added, 2) \in SUBSET Int
          /\ Smallest(header.box.x, ValuesOf(Added, 1)) /\ Smallest(header.box.y, ValuesOf(Added, 2))
      BY <1>1, <3>1 DEF BoxesInv
    <3> QED
      BY <3>2, SmallestIsWidened
  <2>3. \A c : UNION {UNION {Range(Column(given[k][i].verts, c)) :
                               i \in {i \in DOMAIN given[k] : i =< calls[k] /\ TRUE}} :
                        k \in DOMAIN given} = ValuesOf(Added, c)
    BY DEF ValuesOf, Added
  <2>4. UNION {UNION {Range(Column(given[k][i].verts, 3)) :
                        i \in {i \in DOMAIN given[k] : i =< calls[k] /\ (HasZ(type) /\ given[k][i].hasZ)}} :
                 k \in DOMAIN given} = ValuesOf(WithZ(Added), 3)
    BY DEF ValuesOf, Added, WithZ
  <2>5. UNION {UNION {Range(Column(given[k][i].verts, 4)) :
                        i \in {i \in DOMAIN given[k] : i =< calls[k] /\ (HasM(type) /\ given[k][i].hasM)}} :
                 k \in DOMAIN given} = ValuesOf(WithM(Added), 4)
    BY DEF ValuesOf, Added, WithM
  <2>6. /\ \A z \in ValuesOf(WithZ(Added), 3) : header.box.z[1] =< z /\ z =< header.box.z[2]
        /\ \A m \in ValuesOf(WithM(Added), 4) : header.box.m[1] =< m /\ m =< header.box.m[2]
    BY <1>1 DEF BoxesInv, Covers
  <2> QED
    BY <2>1, <2>2, <2>3, <2>4, <2>5, <2>6 DEF BoxesCover, Stored
<1> QED
  BY <1>1, ShpInvariant, BoxesInvariant, PTL

-------------------------------------------------------------------------------

(***************************************************************************)
(* Reading back.  First what is in the cells that Put() and what is made   *)
(* of it write, and that all other cells are as they were.                 *)
(***************************************************************************)
Row(vs, n) == DOMAIN vs = 1..n

LEMMA RowFacts ==
  ASSUME NEW a \in Int, NEW size \in {4, 8, 16}, NEW n \in Nat,
         NEW mem, NEW vs, Row(vs, n), NEW m, m = Put(mem, a, size, vs)
  PROVE  /\ \A k \in 1..n : At(m, Cell(a, size, k)) = vs[k]
         /\ \A b : (\A k \in 1..n : b /= Cell(a, size, k)) => At(m, b) = At(mem, b)
         /\ \A b \in Int : b < a \/ b > Cell(a, size, n) => At(m, b) = At(mem, b)
<1>1. /\ \A k \in 1..n : Cell(a, size, k) \in DOMAIN m /\ m[Cell(a, size, k)] = vs[k]
      /\ \A b : (\A k \in 1..n : b /= Cell(a, size, k)) => At(m, b) = At(mem, b)
  <2>1. DOMAIN vs = 1..n
    BY DEF Row
  <2> QED
    BY <2>1, PutFacts
<1>2. \A k \in 1..n : At(m, Cell(a, size, k)) = vs[k]
  BY <1>1 DEF At
<1>3. ASSUME NEW b \in Int, b < a \/ b > Cell(a, size, n)
      PROVE  At(m, b) = At(mem, b)
  <2>1. ASSUME NEW k \in 1..n
        PROVE  b /= Cell(a, size, k)
    <3>1. a =< Cell(a, size, k) /\ Cell(a, size, k) =< Cell(a, size, n)
      BY CellOrder
    <3>2. Cell(a, size, k) \in Int /\ Cell(a, size, n) \in Int
      <4>1. k \in Nat
        OBVIOUS
      <4> QED
        BY <4>1, CellIndex
    <3> QED
      BY <1>3, <3>1, <3>2
  <2> QED
    BY <1>1, <2>1
<1> QED
  BY <1>1, <1>2, <1>3

\* The points of n vertices at a, one after the other.
LEMMA PointRows ==
  ASSUME NEW a \in Int, NEW n \in Nat, NEW mem, NEW vs, Vertices(vs, n),
         NEW m, m = Put(Put(mem, a, 16, Column(vs, 1)), a + 8, 16, Column(vs, 2))
  PROVE  /\ \A j \in 1..n : /\ At(m, a + 16 * (j - 1)) = vs[j][1]
                            /\ At(m, a + 16 * (j - 1) + 8) = vs[j][2]
         /\ \A b \in Int : b < a \/ b >= a + 16 * n => At(m, b) = At(mem, b)
<1> PICK e \in Int : e = a + 8
  OBVIOUS
<1>1. PICK x, c1, c2 : /\ c1 = Column(vs, 1) /\ c2 = Column(vs, 2)
                       /\ x = Put(mem, a, 16, c1) /\ e = a + 8
  OBVIOUS
<1>2. /\ Row(c1, n) /\ Row(c2, n)
      /\ \A j \in 1..n : c1[j] = vs[j][1] /\ c2[j] = vs[j][2]
  BY <1>1 DEF Vertices, Column, Row
<1>3. m = Put(x, e, 16, c2)
  BY <1>1
<1>4. /\ \A j \in 1..n : At(x, Cell(a, 16, j)) = c1[j]
      /\ \A b \in Int : b < a \/ b > Cell(a, 16, n) => At(x, b) = At(mem, b)
  BY <1>1, <1>2, RowFacts
<1>5. /\ \A j \in 1..n : At(m, Cell(e, 16, j)) = c2[j]
      /\ \A b \in Int : b < e \/ b > Cell(e, 16, n) => At(m, b) = At(x, b)
  BY <1>2, <1>3, RowFacts
<1>6. \A b : (\A k \in 1..n : b /= Cell(e, 16, k)) => At(m, b) = At(x, b)
  BY <1>2, <1>3, RowFacts
<1>7. ASSUME NEW j \in 1..n
      PROVE  At(m, a + 16 * (j - 1)) = vs[j][1] /\ At(m, a + 16 * (j - 1) + 8) = vs[j][2]
  <2>1. Cell(e, 16, j) = a + 16 * (j - 1) + 8 /\ Cell(a, 16, j) = a + 16 * (j - 1)
    BY <1>1 DEF Cell
  <2>2. \A k \in 1..n : Cell(a, 16, j) /= Cell(e, 16, k)
    BY <1>1 DEF Cell
  <2>3. At(m, Cell(a, 16, j)) = At(x, Cell(a, 16, j))
    BY <1>6, <2>2
  <2>4. At(m, Cell(a, 16, j)) = vs[j][1]
    BY <1>2, <1>4, <2>3
  <2>5. At(m, Cell(e, 16, j)) = vs[j][2]
    BY <1>2, <1>5
  <2> QED
    BY <2>1, <2>4, <2>5
<1>8. ASSUME NEW b \in Int, b < a \/ b >= a + 16 * n
      PROVE  At(m, b) = At(mem, b)
  <2>1. b < e \/ b > Cell(e, 16, n)
    BY <1>1, <1>8 DEF Cell
  <2>2. b < a \/ b > Cell(a, 16, n)
    BY <1>8 DEF Cell
  <2> QED
    BY <1>4, <1>5, <2>1, <2>2
<1> QED
  BY <1>7, <1>8

\* A block at a with the n values vs behind the old ones.
LEMMA BlockRow ==
  ASSUME NEW a \in Int, NEW old \in Nat, NEW n \in Nat, NEW mem, NEW vs, Row(vs, n),
         NEW m, m = PutBlock(mem, a, old, vs)
  PROVE  /\ \A j \in 1..n : At(m, a + 16 + 8 * (old + j - 1)) = vs[j]
         /\ \A b \in Int : \/ b < a \/ b >= a + 16 + 8 * (old + n)
                           \/ a + 16 =< b /\ b < a + 16 + 8 * old
                           => At(m, b) = At(mem, b)
<1> PICK e \in Int, two \in Nat : e = a + 16 + 8 * old /\ two = 2
  OBVIOUS
<1>1. PICK w, x, lo, hi :
        /\ w = <<lo, hi>> /\ x = Put(mem, a, 8, w) /\ e = a + 16 + 8 * old /\ two = 2
        /\ m = Put(x, e, 8, vs)
  <2>1. PICK before : before = IF old > 0 THEN <<At(mem, a), At(mem, a + 8)>> ELSE NoRange
    OBVIOUS
  <2>2. PICK w, x, lo, hi :
          /\ lo = Min({before[1]} \cup Range(vs)) /\ hi = Max({before[2]} \cup Range(vs))
          /\ w = <<lo, hi>> /\ x = Put(mem, a, 8, w)
    OBVIOUS
  <2>3. m = Put(x, e, 8, vs)
    BY <2>1, <2>2 DEF PutBlock, Widen
  <2> QED
    BY <2>2, <2>3
<1>2. Row(w, two)
  BY <1>1 DEF Row
<1>3. \A b \in Int : b < a \/ b > Cell(a, 8, two) => At(x, b) = At(mem, b)
  BY <1>1, <1>2, RowFacts
<1>4. /\ \A j \in 1..n : At(m, Cell(e, 8, j)) = vs[j]
      /\ \A b \in Int : b < e \/ b > Cell(e, 8, n) => At(m, b) = At(x, b)
  BY <1>1, RowFacts
<1>5. \A j \in 1..n : Cell(e, 8, j) = a + 16 + 8 * (old + j - 1)
  BY <1>1 DEF Cell
<1>6. ASSUME NEW b \in Int,
             \/ b < a \/ b >= a + 16 + 8 * (old + n)
             \/ a + 16 =< b /\ b < a + 16 + 8 * old
      PROVE  At(m, b) = At(mem, b)
  <2>1. Cell(a, 8, two) = a + 8 /\ Cell(e, 8, n) = a + 8 + 8 * (old + n)
    BY <1>1 DEF Cell
  <2>2. b < e \/ b > Cell(e, 8, n)
    BY <1>1, <1>6, <2>1
  <2>3. b < a \/ b > Cell(a, 8, two)
    BY <1>6, <2>1
  <2> QED
    BY <1>3, <1>4, <2>2, <2>3
<1> QED
  BY <1>4, <1>5, <1>6

\* Where the parts of a record are: its counters, indices and types of parts, its
\* points, and the two blocks.
Placed(t, c, n, np, at, xy, z, mb) ==
  /\ at \in Nat /\ xy \in Nat /\ z \in Nat /\ mb \in Nat
  /\ c + 36 =< at /\ at + 4 =< xy
  /\ z = xy + 16 * np
  /\ HasZ(t) => mb = z + 16 + 8 * np
  /\ ~HasZ(t) => mb = z
  /\ t \in MultiPointTypes => at = c + 36 /\ xy = c + 40
  /\ t \notin MultiPointTypes => at = c + 40 /\ xy >= c + 44 + 4 * n
  /\ t = MultiPatch => t \notin MultiPointTypes /\ xy = c + 44 + 8 * n
  /\ NumPartsAt(c) = c + 36 /\ PartsAt(c) = c + 44 /\ PatchTypesAt(c, n) = c + 44 + 4 * n

LEMMA Places ==
  ASSUME NEW t \in ShpType \ PointTypes, NEW c \in Nat, NEW n \in Nat, NEW np \in Nat
  PROVE  Placed(t, c, n, np, NumPointsAt(t, c), PointsAt(t, c, n), ZBlockAt(t, c, n, np),
                MBlockAt(t, c, n, np))
<1>1. PICK at, xy, z, mb : /\ at = NumPointsAt(t, c) /\ xy = PointsAt(t, c, n)
                           /\ z = ZBlockAt(t, c, n, np) /\ mb = MBlockAt(t, c, n, np)
  OBVIOUS
<1>2. at = IF t \in MultiPointTypes THEN c + 36 ELSE c + 40
  BY <1>1 DEF NumPointsAt
<1>3. xy = IF t \in MultiPointTypes THEN c + 40
           ELSE IF t = MultiPatch THEN c + 44 + 8 * n ELSE c + 44 + 4 * n
  BY <1>1 DEF PointsAt, PartsAt
<1>4. z = xy + 16 * np
  BY <1>1 DEF ZBlockAt
<1>5. xy \in Nat /\ z \in Nat
  BY <1>3, <1>4
<1>6. mb = IF HasZ(t) THEN z + 16 + 8 * np ELSE z
  BY <1>1, <1>5 DEF MBlockAt
<1>7. t = MultiPatch => t \notin MultiPointTypes
  BY DEF MultiPatch, MultiPointTypes
<1>8. NumPartsAt(c) = c + 36 /\ PartsAt(c) = c + 44 /\ PatchTypesAt(c, n) = c + 44 + 4 * n
  BY DEF NumPartsAt, PartsAt, PatchTypesAt
<1>9. at \in Nat /\ mb \in Nat
  BY <1>2, <1>5, <1>6
<1>10. Placed(t, c, n, np, at, xy, z, mb)
  BY <1>2, <1>3, <1>4, <1>5, <1>6, <1>7, <1>8, <1>9 DEF Placed
<1> QED
  BY <1>1, <1>10

\* The vertex v of the part p is the one with index g, from zero, in the record.
VertexThere(mem, t, xy, z, mb, g, v, p) ==
  /\ At(mem, xy + 16 * g) = v[1] /\ At(mem, xy + 16 * g + 8) = v[2]
  /\ HasZ(t) => At(mem, z + 16 + 8 * g) = IF p.hasZ THEN v[3] ELSE NoData
  /\ HasM(t) => At(mem, mb + 16 + 8 * g) = IF p.hasM THEN v[4] ELSE NoData

\* new is mem, from b on to behind it.
Same(mem, new, from, to) == \A b \in Int : from =< b /\ b < to => At(new, b) = At(mem, b)

\* The vertices vs of p are behind the old ones, and what was between the counter of
\* points and these is as it was.
PointsThere(m, mem, at, xy, old, n, vs) ==
  /\ \A j \in 1..n : /\ At(m, xy + 16 * (old + j - 1)) = vs[j][1]
                     /\ At(m, xy + 16 * (old + j - 1) + 8) = vs[j][2]
  /\ Same(mem, m, at + 4, xy + 16 * old)
  /\ \A b \in Int : b >= xy + 16 * (old + n) => At(m, b) = At(mem, b)

LEMMA PointsPut ==
  ASSUME NEW n \in Nat \ {0}, NEW old \in Nat, NEW c \in Nat, NEW at \in Nat, NEW xy \in Nat,
         NEW mem, NEW vs, Vertices(vs, n),
         old = NumPoints, c = Content, at = NumPointsAt(type, c),
         xy = PointsAt(type, c, feat.numParts), c + 36 =< at, at + 4 =< xy,
         NEW m, m = PutPoints(vs, mem)
  PROVE  PointsThere(m, mem, at, xy, old, n, vs)
<1> PICK a \in Int, e \in Int, four \in Nat, one \in Nat :
      a = xy + 16 * old /\ e = c + 4 /\ four = 4 /\ one = 1
  OBVIOUS
<1>1. PICK x, y, m1, m2, box, count :
        /\ x = BoxWith(1, vs) /\ y = BoxWith(2, vs)
        /\ m1 = Put(Put(mem, a, 16, Column(vs, 1)), a + 8, 16, Column(vs, 2))
        /\ box = <<x[1], y[1], x[2], y[2]>>
        /\ m2 = Put(m1, e, 8, box)
        /\ count = old + Len(vs)
  OBVIOUS
<1>2. m = Put(m2, at, 4, <<count>>)
  BY <1>1 DEF PutPoints
<1>3. /\ \A j \in 1..n : /\ At(m1, a + 16 * (j - 1)) = vs[j][1]
                         /\ At(m1, a + 16 * (j - 1) + 8) = vs[j][2]
      /\ \A b \in Int : b < a \/ b >= a + 16 * n => At(m1, b) = At(mem, b)
  <2>1. n \in Nat /\ Vertices(vs, n) /\ m1 = Put(Put(mem, a, 16, Column(vs, 1)), a + 8, 16, Column(vs, 2))
    BY <1>1
  <2> QED
    BY <2>1, PointRows
<1>4. \A b \in Int : b < e \/ b > Cell(e, 8, four) => At(m2, b) = At(m1, b)
  <2>1. Row(box, four)
    BY <1>1 DEF Row
  <2>2. m2 = Put(m1, e, 8, box)
    BY <1>1
  <2> QED
    BY <2>1, <2>2, RowFacts
<1>5. \A b : b /= at => At(m, b) = At(m2, b)
  BY <1>2, PutElsewhere
<1>6. \A b \in Int : b >= at + 4 => At(m, b) = At(m1, b)
  <2>1. Cell(e, 8, four) = c + 28
    BY DEF Cell
  <2>2. \A b \in Int : b >= at + 4 => b /= at /\ b > c + 28
    OBVIOUS
  <2> QED
    BY <1>4, <1>5, <2>1, <2>2
<1>7. ASSUME NEW j \in 1..n
      PROVE  /\ At(m, xy + 16 * (old + j - 1)) = vs[j][1]
             /\ At(m, xy + 16 * (old + j - 1) + 8) = vs[j][2]
  <2>1. PICK b \in Int : b = a + 16 * (j - 1) /\ b = xy + 16 * (old + j - 1) /\ b >= at + 4
    <3>1. PICK b \in Int : b = a + 16 * (j - 1)
      OBVIOUS
    <3>2. b = xy + 16 * (old + j - 1) /\ b >= at + 4
      BY <3>1
    <3> QED
      BY <3>1, <3>2
  <2>2. At(m, b) = At(m1, b) /\ At(m, b + 8) = At(m1, b + 8)
    BY <1>6, <2>1
  <2>3. At(m1, b) = vs[j][1] /\ At(m1, b + 8) = vs[j][2]
    BY <1>3, <2>1
  <2> QED
    BY <2>1, <2>2, <2>3
<1>8. Same(mem, m, at + 4, xy + 16 * old)
  BY <1>3, <1>6 DEF Same
<1>9. ASSUME NEW b \in Int, b >= xy + 16 * (old + n)
      PROVE  At(m, b) = At(mem, b)
  <2>1. b >= a + 16 * n /\ b >= at + 4
    BY <1>9
  <2> QED
    BY <1>3, <1>6, <2>1
<1> QED
  BY <1>7, <1>8, <1>9 DEF PointsThere

BlockThere(m, mem, a, old, n, k, has, vs) ==
  /\ \A j \in 1..n : At(m, a + 16 + 8 * (old + j - 1)) = IF has THEN vs[j][k] ELSE NoData
  /\ Same(mem, m, a + 16, a + 16 + 8 * old)
  /\ \A b \in Int : b < a \/ b >= a + 16 + 8 * (old + n) => At(m, b) = At(mem, b)

\* A block at a with the values of column k of vs behind the old ones.
LEMMA BlockPut ==
  ASSUME NEW a \in Nat, NEW old \in Nat, NEW n \in Nat, NEW k \in 1..4,
         NEW mem, NEW vs, Vertices(vs, n), NEW has,
         NEW m, m = PutBlock(mem, a, old, ColumnOr(has, vs, k))
  PROVE  BlockThere(m, mem, a, old, n, k, has, vs)
<1>1. PICK row : row = ColumnOr(has, vs, k)
  OBVIOUS
<1>2. Row(row, n) /\ \A j \in 1..n : row[j] = IF has THEN vs[j][k] ELSE NoData
  BY <1>1 DEF ColumnOr, Column, Vertices, Row
<1>3. m = PutBlock(mem, a, old, row) /\ a \in Int
  BY <1>1
<1>4. /\ \A j \in 1..n : At(m, a + 16 + 8 * (old + j - 1)) = row[j]
      /\ \A b \in Int : \/ b < a \/ b >= a + 16 + 8 * (old + n)
                        \/ a + 16 =< b /\ b < a + 16 + 8 * old
                        => At(m, b) = At(mem, b)
  BY <1>2, <1>3, BlockRow
<1> QED
  BY <1>2, <1>4 DEF Same, BlockThere

\* The record with the n vertices vs of a part that is not one too many: what was
\* there of indices, types and vertices stays.
BlocksKept(mem, new, xy, z, mb, old) ==
  /\ Same(mem, new, xy, xy + 16 * old)
  /\ HasZ(type) => Same(mem, new, z + 16, z + 16 + 8 * old)
  /\ HasM(type) => Same(mem, new, mb + 16, mb + 16 + 8 * old)

LaidOut(mem, new, c, at, xy, z, mb, old, n, vs, p) ==
  /\ At(new, c) = type
  /\ Same(mem, new, at + 4, xy)
  /\ BlocksKept(mem, new, xy, z, mb, old)
  /\ \A j \in 1..n : VertexThere(new, type, xy, z, mb, old + j - 1, vs[j], p)

LEMMA RecordLaid ==
  ASSUME NEW n \in Nat \ {0}, NEW old \in Nat, NEW np \in Nat, NEW parts \in Nat,
         NEW c \in Nat, NEW xy, NEW z, NEW mb, NEW p, NEW vs, Vertices(vs, n),
         type \in ShpType \ PointTypes, old = NumPoints, old + n =< np, np = feat.numPoints,
         parts = feat.numParts, c = Content, feat.rec = c - 8, xy = PointsAt(type, c, parts),
         z = ZBlockAt(type, c, parts, np), mb = MBlockAt(type, c, parts, np),
         NEW mem, NEW new, new = PutRecord(p, vs, n, mem)
  PROVE  LaidOut(mem, new, c, NumPointsAt(type, c), xy, z, mb, old, n, vs, p)
<1>1. PICK at : at = NumPointsAt(type, c)
  OBVIOUS
<1>2. /\ at \in Nat /\ xy \in Nat /\ z \in Nat /\ mb \in Nat
      /\ c + 36 =< at /\ at + 4 =< xy
      /\ z = xy + 16 * np
      /\ HasZ(type) => mb = z + 16 + 8 * np
      /\ ~HasZ(type) => mb = z
  <2>1. Placed(type, c, parts, np, at, xy, z, mb)
    BY <1>1, Places
  <2> QED
    BY <2>1 DEF Placed
<1>3. PICK m1, m2, m3, m4, length :
        /\ m1 = PutPoints(vs, mem)
        /\ m2 = PutZ(p, vs, m1)
        /\ m3 = PutM(p, vs, m2)
        /\ m4 = Put(m3, c, 4, <<type>>)
        /\ length = ContentLength(NewEnd(n))
  OBVIOUS
<1>4. PICK rl \in Int : rl = c - 4 /\ rl = feat.rec + 4
  OBVIOUS
<1>5. new = Put(m4, rl, 4, <<length>>)
  BY <1>3, <1>4 DEF PutRecord, PutAll
<1>6. ZAt = z /\ MAt = mb
  BY DEF ZAt, MAt
<1>7. /\ \A j \in 1..n : /\ At(m1, xy + 16 * (old + j - 1)) = vs[j][1]
                         /\ At(m1, xy + 16 * (old + j - 1) + 8) = vs[j][2]
      /\ Same(mem, m1, at + 4, xy + 16 * old)
      /\ \A b \in Int : b >= xy + 16 * (old + n) => At(m1, b) = At(mem, b)
  <2>1. /\ xy = PointsAt(type, c, feat.numParts) /\ m1 = PutPoints(vs, mem)
        /\ at = NumPointsAt(type, c) /\ at \in Nat /\ xy \in Nat
        /\ c + 36 =< at /\ at + 4 =< xy
    BY <1>1, <1>2, <1>3
  <2>2. PointsThere(m1, mem, at, xy, old, n, vs)
    BY <2>1, PointsPut
  <2> QED
    BY <2>2 DEF PointsThere
<1>8. /\ HasZ(type) => \A j \in 1..n : At(m2, z + 16 + 8 * (old + j - 1))
                                         = IF p.hasZ THEN vs[j][3] ELSE NoData
      /\ HasZ(type) => Same(m1, m2, z + 16, z + 16 + 8 * old)
      /\ \A b \in Int : b < z \/ b >= z + 16 + 8 * (old + n) => At(m2, b) = At(m1, b)
      /\ ~HasZ(type) => m2 = m1
  <2>1. CASE HasZ(type)
    <3>1. m2 = PutBlock(m1, z, old, ColumnOr(p.hasZ, vs, 3))
      BY <1>3, <1>6, <2>1 DEF PutZ
    <3>2. PICK k \in 1..4 : k = 3
      OBVIOUS
    <3>3. m2 = PutBlock(m1, z, old, ColumnOr(p.hasZ, vs, k)) /\ n \in Nat /\ z \in Nat
      BY <1>2, <3>1, <3>2
    <3>4. BlockThere(m2, m1, z, old, n, k, p.hasZ, vs)
      BY <3>3, BlockPut
    <3> QED
      BY <2>1, <3>2, <3>4 DEF BlockThere
  <2>2. CASE ~HasZ(type)
    BY <1>3, <2>2 DEF PutZ
  <2> QED
    BY <2>1, <2>2
<1>9. /\ HasM(type) => \A j \in 1..n : At(m3, mb + 16 + 8 * (old + j - 1))
                                         = IF p.hasM THEN vs[j][4] ELSE NoData
      /\ HasM(type) => Same(m2, m3, mb + 16, mb + 16 + 8 * old)
      /\ \A b \in Int : b < mb \/ b >= mb + 16 + 8 * (old + n) => At(m3, b) = At(m2, b)
  <2>1. CASE HasM(type)
    <3>1. m3 = PutBlock(m2, mb, old, ColumnOr(p.hasM, vs, 4))
      BY <1>3, <1>6, <2>1 DEF PutM
    <3>2. PICK k \in 1..4 : k = 4
      OBVIOUS
    <3>3. m3 = PutBlock(m2, mb, old, ColumnOr(p.hasM, vs, k)) /\ n \in Nat /\ mb \in Nat
      BY <1>2, <3>1, <3>2
    <3>4. BlockThere(m3, m2, mb, old, n, k, p.hasM, vs)
      BY <3>3, BlockPut
    <3> QED
      BY <2>1, <3>2, <3>4 DEF BlockThere
  <2>2. CASE ~HasM(type)
    BY <1>3, <2>2 DEF PutM
  <2> QED
    BY <2>1, <2>2
<1>10. At(new, c) = type /\ \A b \in Int : b > c => At(new, b) = At(m3, b)
  <2>1. \A b : b /= rl => At(new, b) = At(m4, b)
    BY <1>5, PutElsewhere
  <2>2. \A b : b /= c => At(m4, b) = At(m3, b)
    <3>1. c \in Int
      OBVIOUS
    <3> QED
      BY <1>3, <3>1, PutElsewhere
  <2>3. At(m4, c) = type
    <3>1. PICK one, row : one = 1 /\ row = <<type>>
      OBVIOUS
    <3>2. one \in Nat /\ Row(row, one) /\ c \in Int /\ m4 = Put(m3, c, 4, row)
      BY <1>3, <3>1 DEF Row
    <3>3. \A k \in 1..one : At(m4, Cell(c, 4, k)) = row[k]
      BY <3>2, RowFacts
    <3>4. Cell(c, 4, 1) = c /\ 1 \in 1..one /\ row[1] = type
      BY <3>1 DEF Cell
    <3> QED
      BY <3>3, <3>4
  <2> QED
    BY <1>4, <2>1, <2>2, <2>3
<1>11. Same(mem, new, at + 4, xy + 16 * old)
  <2> SUFFICES ASSUME NEW b \in Int, at + 4 =< b, b < xy + 16 * old
               PROVE  At(new, b) = At(mem, b)
    BY DEF Same
  <2>1. b > c /\ b < z /\ b < mb
    BY <1>2
  <2> QED
    BY <1>7, <1>8, <1>9, <1>10, <2>1 DEF Same
<1>12. ASSUME HasZ(type)
       PROVE  Same(mem, new, z + 16, z + 16 + 8 * old)
  <2> SUFFICES ASSUME NEW b \in Int, z + 16 =< b, b < z + 16 + 8 * old
               PROVE  At(new, b) = At(mem, b)
    BY DEF Same
  <2>1. b > c /\ b < mb /\ b >= xy + 16 * (old + n)
    BY <1>2, <1>12
  <2> QED
    BY <1>7, <1>8, <1>9, <1>10, <1>12, <2>1 DEF Same
<1>13. ASSUME HasM(type)
       PROVE  Same(mem, new, mb + 16, mb + 16 + 8 * old)
  <2> SUFFICES ASSUME NEW b \in Int, mb + 16 =< b, b < mb + 16 + 8 * old
               PROVE  At(new, b) = At(mem, b)
    BY DEF Same
  <2>1. b > c /\ b >= xy + 16 * (old + n) /\ (HasZ(type) => b >= z + 16 + 8 * (old + n))
    BY <1>2, <1>13
  <2>2. At(m2, b) = At(m1, b)
    BY <1>8, <2>1
  <2> QED
    BY <1>7, <1>9, <1>10, <1>13, <2>1, <2>2 DEF Same
<1>14. ASSUME NEW j \in 1..n
       PROVE  VertexThere(new, type, xy, z, mb, old + j - 1, vs[j], p)
  <2>1. PICK a \in Int : /\ a = xy + 16 * (old + j - 1) /\ a > c /\ a + 8 < z /\ a + 8 < mb
    <3>1. PICK a \in Int : a = xy + 16 * (old + j - 1)
      BY <1>2
    <3>2. a > c /\ a + 8 < z /\ a + 8 < mb
      BY <1>2, <3>1
    <3> QED
      BY <3>1, <3>2
  <2>2. At(m1, a) = vs[j][1] /\ At(m1, a + 8) = vs[j][2]
    BY <1>7, <2>1
  <2>3. \A b \in {a, a + 8} : At(new, b) = At(m1, b)
    BY <1>2, <1>8, <1>9, <1>10, <2>1
  <2>4. ASSUME HasZ(type)
        PROVE  At(new, z + 16 + 8 * (old + j - 1)) = IF p.hasZ THEN vs[j][3] ELSE NoData
    <3>1. PICK b \in Int : b = z + 16 + 8 * (old + j - 1)
      BY <1>2
    <3>2. b > c /\ b < mb
      BY <1>2, <2>4, <3>1
    <3> QED
      BY <1>8, <1>9, <1>10, <2>4, <3>1, <3>2
  <2>5. ASSUME HasM(type)
        PROVE  At(new, mb + 16 + 8 * (old + j - 1)) = IF p.hasM THEN vs[j][4] ELSE NoData
    <3>1. PICK b \in Int : b = mb + 16 + 8 * (old + j - 1)
      BY <1>2
    <3>2. b > c
      BY <1>2, <3>1
    <3> QED
      BY <1>9, <1>10, <2>5, <3>1, <3>2
  <2> QED
    BY <2>1, <2>2, <2>3, <2>4, <2>5 DEF VertexThere
<1>15. Same(mem, new, at + 4, xy) /\ Same(mem, new, xy, xy + 16 * old)
  BY <1>2, <1>11 DEF Same
<1> QED
  BY <1>1, <1>10, <1>12, <1>13, <1>14, <1>15 DEF LaidOut, BlocksKept

\* The vertices of a part that is written as it was given, or a ring that is reversed.
Meant(p, vs) == vs = p.verts \/ (type \in PolygonTypes /\ vs = Reverse(p.verts))

\* Part i of the record at c is there: its first point and type, and its vertices.
Noted(mem, c, parts, i, first) ==
  /\ type \notin MultiPointTypes => At(mem, PartsAt(c) + 4 * (i - 1)) = first
  /\ type = MultiPatch => At(mem, PatchTypesAt(c, Len(parts)) + 4 * (i - 1)) = parts[i].type

VerticesThere(mem, c, parts, p, first, vs) ==
  LET n == Len(parts) np == Total(parts)
  IN  \A j \in 1..Len(p.verts) :
        VertexThere(mem, type, PointsAt(type, c, n), ZBlockAt(type, c, n, np),
                    MBlockAt(type, c, n, np), first + j - 1, vs[j], p)

PartThere(mem, c, parts, i) ==
  LET first == SumTo(Sizes(parts), i - 1)
  IN  /\ Noted(mem, c, parts, i, first)
      /\ \E vs : Meant(parts[i], vs) /\ VerticesThere(mem, c, parts, parts[i], first, vs)

\* new has the vertices and the indices and types of parts that mem has, up to those.
IndexKept(mem, new, c, n, done) ==
  \A i \in 1..done :
    /\ type \notin MultiPointTypes =>
         At(new, PartsAt(c) + 4 * (i - 1)) = At(mem, PartsAt(c) + 4 * (i - 1))
    /\ type = MultiPatch =>
         At(new, PatchTypesAt(c, n) + 4 * (i - 1)) = At(mem, PatchTypesAt(c, n) + 4 * (i - 1))

LEMMA VertexKept ==
  ASSUME NEW xy \in Nat, NEW z \in Nat, NEW mb \in Nat, NEW old \in Nat, NEW g \in 0 .. old-1,
         NEW mem, NEW new, NEW v, NEW p, BlocksKept(mem, new, xy, z, mb, old),
         VertexThere(mem, type, xy, z, mb, g, v, p)
  PROVE  VertexThere(new, type, xy, z, mb, g, v, p)
<1>1. PICK a \in Int, b \in Int, d \in Int :
        a = xy + 16 * g /\ b = z + 16 + 8 * g /\ d = mb + 16 + 8 * g
  OBVIOUS
<1>2. /\ xy =< a /\ a + 8 < xy + 16 * old
      /\ z + 16 =< b /\ b < z + 16 + 8 * old
      /\ mb + 16 =< d /\ d < mb + 16 + 8 * old
  BY <1>1
<1>3. At(new, a) = At(mem, a) /\ At(new, a + 8) = At(mem, a + 8)
  BY <1>2 DEF BlocksKept, Same
<1>4. HasZ(type) => At(new, b) = At(mem, b)
  BY <1>2 DEF BlocksKept, Same
<1>5. HasM(type) => At(new, d) = At(mem, d)
  BY <1>2 DEF BlocksKept, Same
<1> QED
  BY <1>1, <1>3, <1>4, <1>5 DEF VertexThere

\* A part that is there stays there.
LEMMA PartKept ==
  ASSUME NEW c \in Nat, NEW old \in Nat, NEW done \in Nat, NEW i \in 1..done, NEW parts,
         NEW mem, NEW new, type \in Types, type \in ShpType \ PointTypes,
         parts \in Seq(Parts[type]), done =< Len(parts),
         SumTo(Sizes(parts), i) =< old,
         BlocksKept(mem, new, PointsAt(type, c, Len(parts)),
                    ZBlockAt(type, c, Len(parts), Total(parts)),
                    MBlockAt(type, c, Len(parts), Total(parts)), old),
         IndexKept(mem, new, c, Len(parts), done), PartThere(mem, c, parts, i)
  PROVE  PartThere(new, c, parts, i)
<1>1. PICK n \in Nat : n = Len(parts)
  OBVIOUS
<1>2. PICK s, first, p : s = Sizes(parts) /\ first = SumTo(s, i - 1) /\ p = parts[i]
  OBVIOUS
<1>3. /\ Total(parts) \in Nat /\ first \in Nat /\ p \in Parts[type] /\ Len(p.verts) \in Nat
      /\ first + Len(p.verts) =< old
  <2>1. /\ Total(parts) \in Nat
        /\ \A k \in 0 .. Len(parts) : SumTo(s, k) \in Nat /\ SumTo(s, k) =< Total(parts)
        /\ \A k \in 1 .. Len(parts) : SumTo(s, k) = SumTo(s, k-1) + Len(parts[k].verts)
    BY <1>2, SizesFacts
  <2>2. i \in 1..n /\ i - 1 \in 0..n
    BY <1>1
  <2>3. p \in Parts[type]
    BY <1>1, <1>2, <2>2
  <2>4. Len(p.verts) \in Nat
    BY <2>3, PartFacts
  <2>5. first \in Nat /\ SumTo(s, i) = first + Len(p.verts)
    BY <1>1, <1>2, <2>1, <2>2
  <2> QED
    BY <1>2, <2>1, <2>3, <2>4, <2>5
<1>4. PICK at, xy, z, mb, np :
        /\ np = Total(parts) /\ at = NumPointsAt(type, c) /\ xy = PointsAt(type, c, n)
        /\ z = ZBlockAt(type, c, n, np) /\ mb = MBlockAt(type, c, n, np)
  OBVIOUS
<1>5. xy \in Nat /\ z \in Nat /\ mb \in Nat
  <2>1. Placed(type, c, n, np, at, xy, z, mb)
    BY <1>3, <1>4, Places
  <2> QED
    BY <2>1 DEF Placed
<1>6. PICK vs : Meant(p, vs) /\ VerticesThere(mem, c, parts, p, first, vs)
  BY <1>2 DEF PartThere
<1>7. ASSUME NEW j \in 1..Len(p.verts)
      PROVE  VertexThere(new, type, xy, z, mb, first + j - 1, vs[j], p)
  <2>1. PICK g \in 0 .. old-1 : g = first + j - 1
    <3>1. first + j - 1 \in 0 .. old-1
      BY <1>3
    <3> QED
      BY <3>1
  <2>2. VertexThere(mem, type, xy, z, mb, g, vs[j], p)
    BY <1>1, <1>4, <1>6, <2>1 DEF VerticesThere
  <2>3. BlocksKept(mem, new, xy, z, mb, old)
    BY <1>1, <1>4
  <2>4. VertexThere(new, type, xy, z, mb, g, vs[j], p)
    BY <1>5, <2>2, <2>3, VertexKept
  <2> QED
    BY <2>1, <2>4
<1>8. VerticesThere(new, c, parts, p, first, vs)
  BY <1>1, <1>4, <1>7 DEF VerticesThere
<1>9. Noted(new, c, parts, i, first)
  <2>1. Noted(mem, c, parts, i, first)
    BY <1>2 DEF PartThere
  <2> QED
    BY <2>1 DEF Noted, IndexKept
<1> QED
  BY <1>2, <1>6, <1>8, <1>9 DEF PartThere

\* One value is written, and found there.
LEMMA PutHere ==
  ASSUME NEW a \in Int, NEW mem, NEW value, NEW m, m = Put(mem, a, 4, <<value>>)
  PROVE  At(m, a) = value
<1>1. PICK one, row : one = 1 /\ row = <<value>>
  OBVIOUS
<1>2. one \in Nat /\ Row(row, one) /\ m = Put(mem, a, 4, row)
  BY <1>1 DEF Row
<1>3. \A k \in 1..one : At(m, Cell(a, 4, k)) = row[k]
  BY <1>2, RowFacts
<1>4. Cell(a, 4, 1) = a /\ 1 \in 1..one /\ row[1] = value
  BY <1>1 DEF Cell
<1> QED
  BY <1>3, <1>4

\* mem is the memory with the part p, which comes after "done" others, noted.
Begins(mem, c, parts, done, old) ==
  LET n == Len(parts) np == Total(parts)
  IN  /\ IndexKept(shp, mem, c, n, done)
      /\ BlocksKept(shp, mem, PointsAt(type, c, n), ZBlockAt(type, c, n, np),
                    MBlockAt(type, c, n, np), old)
      /\ Noted(mem, c, parts, done + 1, old)

LEMMA PartBegins ==
  ASSUME NEW c \in Nat, NEW n \in Nat, NEW np \in Nat, NEW done \in Nat, NEW old \in Nat,
         NEW parts, done < n, n = Len(parts), np = Total(parts),
         type \in ShpType \ PointTypes, type \notin MultiPointTypes,
         c = Content, n = feat.numParts, done = PartIdx, old = NumPoints
  PROVE  /\ type /= MultiPatch => Begins(PartBegun, c, parts, done, old)
         /\ type = MultiPatch =>
              Begins(Put(PartBegun, PatchTypesAt(Content, feat.numParts) + 4 * PartIdx, 4,
                         <<parts[done+1].type>>), c, parts, done, old)
<1>1. PICK at, xy, z, mb :
        /\ at = NumPointsAt(type, c) /\ xy = PointsAt(type, c, n)
        /\ z = ZBlockAt(type, c, n, np) /\ mb = MBlockAt(type, c, n, np)
  OBVIOUS
<1>2. Placed(type, c, n, np, at, xy, z, mb)
  BY <1>1, Places
<1>3. PICK a1 \in Int, a2 \in Int, a3 \in Int :
        a1 = c + 36 /\ a2 = c + 44 + 4 * done /\ a3 = c + 44 + 4 * n + 4 * done
  OBVIOUS
<1>4. /\ a1 = NumPartsAt(c) /\ a2 = PartsAt(c) + 4 * done /\ a3 = PatchTypesAt(c, n) + 4 * done
      /\ a1 < a2 /\ a2 < a3
      /\ xy \in Nat /\ z \in Nat /\ mb \in Nat /\ z >= xy /\ mb >= xy
      /\ a2 < xy /\ (type = MultiPatch => a3 < xy)
  BY <1>2, <1>3 DEF Placed
<1>5. PICK m1, m2, m3, code :
        /\ code = parts[done+1].type
        /\ m1 = Put(shp, a1, 4, <<done + 1>>)
        /\ m2 = Put(m1, a2, 4, <<old>>)
        /\ m3 = Put(m2, a3, 4, <<code>>)
  OBVIOUS
<1>6. /\ \A b : b /= a1 => At(m1, b) = At(shp, b)
      /\ \A b : b /= a2 => At(m2, b) = At(m1, b)
      /\ \A b : b /= a3 => At(m3, b) = At(m2, b)
      /\ At(m2, a2) = old /\ At(m3, a3) = code
  <2>1. \A b : b /= a1 => At(m1, b) = At(shp, b)
    BY <1>5, PutElsewhere
  <2>2. \A b : b /= a2 => At(m2, b) = At(m1, b)
    BY <1>5, PutElsewhere
  <2>3. \A b : b /= a3 => At(m3, b) = At(m2, b)
    BY <1>5, PutElsewhere
  <2>4. At(m2, a2) = old
    BY <1>5, PutHere
  <2>5. At(m3, a3) = code
    BY <1>5, PutHere
  <2> QED
    BY <2>1, <2>2, <2>3, <2>4, <2>5
<1>7. m2 = PartBegun
  BY <1>4, <1>5 DEF PartBegun
<1>8. ASSUME NEW m, m \in {m2, m3}, type = MultiPatch \/ m = m2
      PROVE  IndexKept(shp, m, c, n, done) /\ BlocksKept(shp, m, xy, z, mb, old)
             /\ At(m, a2) = old
  <2>1. \A b \in Int : b > a1 /\ b /= a2 /\ b /= a3 => At(m, b) = At(shp, b)
    BY <1>6, <1>8
  <2>2. type /= MultiPatch => \A b \in Int : b > a1 /\ b /= a2 => At(m, b) = At(shp, b)
    BY <1>6, <1>8
  <2>3. ASSUME NEW i \in 1..done
        PROVE  /\ At(m, PartsAt(c) + 4 * (i - 1)) = At(shp, PartsAt(c) + 4 * (i - 1))
               /\ type = MultiPatch =>
                    At(m, PatchTypesAt(c, n) + 4 * (i - 1)) = At(shp, PatchTypesAt(c, n) + 4 * (i - 1))
    <3>1. PICK b \in Int, d \in Int : b = c + 44 + 4 * (i - 1) /\ d = c + 44 + 4 * n + 4 * (i - 1)
      OBVIOUS
    <3>2. b = PartsAt(c) + 4 * (i - 1) /\ d = PatchTypesAt(c, n) + 4 * (i - 1)
      BY <1>2, <3>1 DEF Placed
    <3>3. b > a1 /\ b < a2 /\ b < a3 /\ d > a1 /\ d > a2 /\ d < a3
      BY <1>3, <3>1
    <3> QED
      BY <2>1, <3>2, <3>3
  <2>4. IndexKept(shp, m, c, n, done)
    BY <2>3 DEF IndexKept
  <2>5. \A b \in Int : b >= xy => At(m, b) = At(shp, b)
    BY <1>3, <1>4, <2>1, <2>2
  <2>6. BlocksKept(shp, m, xy, z, mb, old)
    BY <1>4, <2>5 DEF BlocksKept, Same
  <2>7. At(m, a2) = old
    BY <1>4, <1>6, <1>8
  <2> QED
    BY <2>4, <2>6, <2>7
<1>9. ASSUME type /= MultiPatch
      PROVE  Begins(PartBegun, c, parts, done, old)
  <2>1. Noted(m2, c, parts, done + 1, old)
    <3>1. At(m2, PartsAt(c) + 4 * (done + 1 - 1)) = old
      BY <1>4, <1>6
    <3> QED
      BY <1>9, <3>1 DEF Noted
  <2>2. IndexKept(shp, m2, c, n, done) /\ BlocksKept(shp, m2, xy, z, mb, old)
    BY <1>8
  <2>3. Begins(m2, c, parts, done, old)
    BY <1>1, <2>1, <2>2 DEF Begins
  <2> QED
    BY <1>7, <2>3
<1>10. ASSUME type = MultiPatch
       PROVE  Begins(Put(PartBegun, PatchTypesAt(Content, feat.numParts) + 4 * PartIdx, 4,
                         <<parts[done+1].type>>), c, parts, done, old)
  <2>1. IndexKept(shp, m3, c, n, done) /\ BlocksKept(shp, m3, xy, z, mb, old) /\ At(m3, a2) = old
    BY <1>8, <1>10
  <2>2. Noted(m3, c, parts, done + 1, old)
    <3>1. /\ At(m3, PartsAt(c) + 4 * (done + 1 - 1)) = old
          /\ At(m3, PatchTypesAt(c, Len(parts)) + 4 * (done + 1 - 1)) = code
      BY <1>4, <1>6, <2>1
    <3> QED
      BY <1>5, <3>1 DEF Noted
  <2>3. Begins(m3, c, parts, done, old)
    BY <1>1, <2>1, <2>2 DEF Begins
  <2>4. m3 = Put(PartBegun, PatchTypesAt(Content, feat.numParts) + 4 * PartIdx, 4,
                         <<parts[done+1].type>>)
    BY <1>4, <1>5, <1>7
  <2> QED
    BY <2>3, <2>4
<1> QED
  BY <1>9, <1>10

\* A part that is not one too many is noted and laid out.
LEMMA PartLaid ==
  ASSUME ShpInv, AddPart, type \notin PointTypes, calls[Len(given)] < Len(given[Len(given)])
  PROVE  LET parts == given[Len(given)]
             done  == calls[Len(given)]
             p     == parts[done+1]
             size  == Len(p.verts)
         IN  \E vs, mem :
               /\ size \in Nat \ {0} /\ RoomFor(size) /\ Vertices(vs, size) /\ Meant(p, vs)
               /\ Begins(mem, Content, parts, done, NumPoints) /\ PartNoted(mem, size)
               /\ AddVertices(p, vs, mem)
<1>1. PICK n, parts, done, p, size :
        /\ n = Len(given) /\ parts = given[n] /\ done = calls[n]
        /\ p = parts[done+1] /\ size = Len(p.verts)
  OBVIOUS
<1>2. /\ Last(given) = parts /\ Last(calls) = done
  BY <1>1 DEF ShpInv, CallsInv, Last
<1>3. /\ given /= << >> /\ parts /= << >> /\ done < Len(parts) /\ done =< Len(parts)
  <2>1. given /= << >> /\ parts /= << >> /\ done =< Len(parts)
    BY <1>1, <1>2 DEF AddPart
  <2> QED
    BY <1>1, <2>1
<1>4. PICK q : q = parts[Min({done + 1, Len(parts)})]
  OBVIOUS
<1>5. /\ q = p /\ size \in Nat \ {0} /\ RoomFor(size) /\ p \in Parts[type]
  BY <1>1, <1>3, <1>4, RoomThere
<1>6. type \in Types /\ type \in ShpType \ PointTypes
  BY <1>5 DEF RoomFor, ShpInv, CallsInv
<1>7. Vertices(p.verts, size) /\ p.type \in Int
  BY <1>1, <1>5, <1>6, PartFacts
<1>8. AddPoints(p) \/ AddLinestring(p) \/ AddRing(p) \/ AddPatch(p) \/ RefusePart
  <2>1. ~AddPoint(p)
    BY <1>6 DEF AddPoint
  <2>2. AddPoint(q) \/ AddPoints(q) \/ AddLinestring(q) \/ AddRing(q) \/ AddPatch(q) \/ RefusePart
    BY <1>2, <1>4 DEF AddPart
  <2> QED
    BY <1>5, <2>1, <2>2
<1>9. PICK c \in Nat, k \in Nat, np \in Nat, d \in Nat, old \in Nat :
        /\ c = Content /\ k = Len(parts) /\ np = Total(parts) /\ d = done /\ old = NumPoints
        /\ k = feat.numParts
  <2>1. feat.rec \in Nat /\ NumPoints \in Nat /\ feat.numParts \in Nat /\ feat.numPoints \in Nat
    BY <1>5 DEF RoomFor
  <2>2. feat.numParts = Len(parts) /\ feat.numPoints = Total(parts)
    BY <1>1, <1>3 DEF ShpInv, CallsInv
  <2>3. Content \in Nat
    BY <2>1 DEF Content, RecordSize
  <2>4. done \in Nat
    <3>1. calls \in Seq(Nat) /\ Len(calls) = n /\ n \in Nat /\ n /= 0
      <4>1. PICK S : S = Seq(Parts[type])
        OBVIOUS
      <4>2. given \in Seq(S) /\ calls \in Seq(Nat) /\ Len(calls) = n
        BY <1>1, <4>1 DEF ShpInv, CallsInv
      <4> QED
        BY <1>1, <1>3, <4>2
    <3> QED
      BY <1>1, <3>1
  <2> QED
    BY <2>1, <2>2, <2>3, <2>4
<1>10. type \notin MultiPointTypes => d = PartIdx
  BY <1>1, <1>3, <1>6, <1>9 DEF ShpInv, CountsInv
<1>11. ASSUME AddPoints(p)
       PROVE  /\ Begins(shp, c, parts, done, old) /\ PartNoted(shp, size)
              /\ AddVertices(p, p.verts, shp)
  <2>1. type \in MultiPointTypes /\ type /= MultiPatch /\ AddVertices(p, p.verts, shp)
    BY <1>11 DEF AddPoints, MultiPointTypes, MultiPatch
  <2>2. PartNoted(shp, size)
    BY <1>5, <2>1 DEF PartNoted, RoomFor
  <2>3. Begins(shp, c, parts, done, old)
    BY <2>1 DEF Begins, IndexKept, BlocksKept, Noted, Same
  <2> QED
    BY <2>1, <2>2, <2>3
<1>12. ASSUME type \notin MultiPointTypes
       PROVE  /\ type /= MultiPatch => Begins(PartBegun, c, parts, d, old)
              /\ type = MultiPatch =>
                   Begins(Put(PartBegun, PatchTypesAt(Content, feat.numParts) + 4 * PartIdx, 4,
                              <<parts[d+1].type>>), c, parts, d, old)
  BY <1>3, <1>6, <1>9, <1>10, <1>12, PartBegins
<1>13. ASSUME type \notin MultiPointTypes
       PROVE  /\ PartNoted(PartBegun, size)
              /\ type = MultiPatch =>
                  PartNoted(Put(PartBegun, PatchTypesAt(Content, feat.numParts) + 4 * PartIdx, 4,
                                <<p.type>>), size)
  <2>1. PartIdx < feat.numParts
    BY <1>3, <1>9, <1>10, <1>13
  <2>2. type \notin PointTypes \cup MultiPointTypes
    BY <1>6, <1>13
  <2> QED
    BY <1>3, <1>5, <1>7, <2>1, <2>2, BegunNoted
<1>14. ASSUME AddLinestring(p)
       PROVE  /\ Begins(PartBegun, c, parts, done, old) /\ PartNoted(PartBegun, size)
              /\ AddVertices(p, p.verts, PartBegun)
  <2>1. type \notin MultiPointTypes /\ type /= MultiPatch /\ AddVertices(p, p.verts, PartBegun)
    BY <1>14 DEF AddLinestring, PolylineTypes, MultiPointTypes, MultiPatch
  <2> QED
    BY <1>9, <1>12, <1>13, <2>1
<1>15. ASSUME AddRing(p)
       PROVE  \E vs : /\ Begins(PartBegun, c, parts, done, old) /\ PartNoted(PartBegun, size)
                      /\ AddVertices(p, vs, PartBegun)
                      /\ Vertices(vs, size) /\ Meant(p, vs)
  <2>1. PICK vs : vs = IF Orientation(p.verts) = p.type THEN p.verts ELSE Reverse(p.verts)
    OBVIOUS
  <2>2. type \in PolygonTypes /\ AddVertices(p, vs, PartBegun)
    BY <1>15, <2>1 DEF AddRing
  <2>3. type \notin MultiPointTypes /\ type /= MultiPatch
    BY <2>2 DEF PolygonTypes, MultiPointTypes, MultiPatch
  <2>4. Vertices(vs, size)
    BY <1>5, <1>7, <2>1, Reversed
  <2>5. Meant(p, vs)
    BY <2>1, <2>2 DEF Meant
  <2>6. Begins(PartBegun, c, parts, done, old) /\ PartNoted(PartBegun, size)
    BY <1>9, <1>12, <1>13, <2>3
  <2> QED
    BY <2>2, <2>4, <2>5, <2>6
<1>16. ASSUME AddPatch(p)
       PROVE  \E mem : /\ Begins(mem, c, parts, done, old) /\ PartNoted(mem, size)
                       /\ AddVertices(p, p.verts, mem)
  <2>1. PICK mem : mem = Put(PartBegun, PatchTypesAt(Content, feat.numParts) + 4 * PartIdx, 4,
                             <<p.type>>)
    OBVIOUS
  <2>2. type = MultiPatch /\ AddVertices(p, p.verts, mem)
    BY <1>16, <2>1 DEF AddPatch
  <2>3. type \notin MultiPointTypes
    BY <2>2 DEF MultiPointTypes, MultiPatch
  <2>4. Begins(mem, c, parts, done, old) /\ PartNoted(mem, size)
    BY <1>1, <1>9, <1>12, <1>13, <2>1, <2>2, <2>3
  <2> QED
    BY <2>2, <2>4
<1>17. ~RefusePart
  <2>1. RefusePart => type \notin MultiPointTypes /\ PartIdx >= feat.numParts
    BY DEF RefusePart, PolylineTypes, PolygonTypes, MultiPointTypes
  <2>2. type \notin MultiPointTypes => PartIdx < feat.numParts /\ PartIdx \in Nat /\ feat.numParts \in Nat
    BY <1>3, <1>9, <1>10
  <2> QED
    BY <2>1, <2>2
<1>18. Meant(p, p.verts)
  BY DEF Meant
<1>19. \E vs, mem : /\ size \in Nat \ {0} /\ RoomFor(size) /\ Vertices(vs, size) /\ Meant(p, vs)
                    /\ Begins(mem, c, parts, done, old) /\ PartNoted(mem, size)
                    /\ AddVertices(p, vs, mem)
  BY <1>5, <1>7, <1>8, <1>11, <1>14, <1>15, <1>16, <1>17, <1>18
<1> QED
  BY <1>1, <1>9, <1>19

\* The record of the parts at c has its first "done" parts, or its point.
PointThere(mem, c, v) ==
  /\ At(mem, c + 4) = v[1] /\ At(mem, c + 12) = v[2]
  /\ HasZ(type) => At(mem, c + 20) = v[3] /\ At(mem, c + 28) = v[4]
  /\ HasM(type) /\ ~HasZ(type) => At(mem, c + 20) = v[4]

RecordThere(mem, c, parts, done) ==
  /\ At(mem, c) = type
  /\ type \in PointTypes => PointThere(mem, c, parts[1].verts[1])
  /\ type \notin PointTypes =>
       /\ At(mem, NumPointsAt(type, c)) = SumTo(Sizes(parts), done)
       /\ type \notin MultiPointTypes => At(mem, NumPartsAt(c)) = done
       /\ \A i \in 1..done : PartThere(mem, c, parts, i)

LEMMA RecordGrows ==
  ASSUME ShpInv, AddPart, type \notin PointTypes,
         NEW parts, parts = given[Len(given)], NEW done, done = calls[Len(given)],
         done < Len(parts), done > 0 => RecordThere(shp, Content, parts, done)
  PROVE  RecordThere(shp', Content, parts, done + 1)
<1>1. PICK p, size : p = parts[done+1] /\ size = Len(p.verts)
  OBVIOUS
<1>2. PICK vs, mem :
        /\ size \in Nat \ {0} /\ RoomFor(size) /\ Vertices(vs, size) /\ Meant(p, vs)
        /\ Begins(mem, Content, parts, done, NumPoints) /\ PartNoted(mem, size)
        /\ AddVertices(p, vs, mem)
  BY <1>1, PartLaid
<1>3. PICK new : new = shp'
  OBVIOUS
<1>4. new = PutRecord(p, vs, size, mem)
  <2>1. PICK put, hull, hi : /\ put = PutAll(p, vs, mem) /\ hull = HullOf(p, vs, put)
                             /\ hi = NewEnd(size)
    OBVIOUS
  <2>2. Finish(hi, Put(put, Content, 4, <<type>>), hull)
    BY <1>2, <2>1 DEF AddVertices, PutAll, NewEnd, Vertices, HullOf
  <2> QED
    BY <1>3, <2>1, <2>2 DEF Finish, PutRecord
<1>5. RecordHas(p, vs, size, mem, new)
  <2>1. Cells(mem, NewEnd(size))
    BY <1>2 DEF PartNoted
  <2> QED
    BY <1>2, <1>4, <2>1, RecordWritten
<1>6. type \in Types /\ type \in ShpType \ PointTypes
  BY <1>2 DEF RoomFor, ShpInv, CallsInv
<1>7. given /= << >> /\ parts \in Seq(Parts[type]) /\ done \in Nat
  <2>1. PICK S : S = Seq(Parts[type])
    OBVIOUS
  <2>2. given \in Seq(S) /\ calls \in Seq(Nat) /\ Len(calls) = Len(given)
    BY <2>1 DEF ShpInv, CallsInv
  <2>3. given /= << >>
    BY DEF AddPart
  <2> QED
    BY <2>1, <2>2, <2>3
<1>8. PICK c \in Nat, k \in Nat, np \in Nat, old \in Nat, rec \in Nat :
        /\ c = Content /\ k = Len(parts) /\ np = Total(parts) /\ old = NumPoints
        /\ k = feat.numParts /\ np = feat.numPoints /\ rec = feat.rec /\ rec = c - 8
  <2>1. feat.rec \in Nat /\ NumPoints \in Nat /\ feat.numParts \in Nat /\ feat.numPoints \in Nat
    BY <1>2 DEF RoomFor
  <2>2. feat.numParts = Len(parts) /\ feat.numPoints = Total(parts)
    BY <1>7 DEF ShpInv, CallsInv
  <2>3. Content \in Nat /\ feat.rec = Content - 8
    BY <2>1 DEF Content, RecordSize
  <2> QED
    BY <2>1, <2>2, <2>3
<1>9. /\ old = SumTo(Sizes(parts), done) /\ old + size = SumTo(Sizes(parts), done + 1)
      /\ old + size =< np
      /\ \A i \in 0..done : SumTo(Sizes(parts), i) \in Nat
  <2>1. PICK s : s = Sizes(parts)
    OBVIOUS
  <2>2. /\ \A i \in 0 .. Len(parts) : SumTo(s, i) \in Nat /\ SumTo(s, i) =< Total(parts)
        /\ \A i \in 1 .. Len(parts) : SumTo(s, i) = SumTo(s, i-1) + Len(parts[i].verts)
    BY <1>6, <1>7, <2>1, SizesFacts
  <2>3. done + 1 \in 1 .. Len(parts) /\ done + 1 \in 0 .. Len(parts) /\ (done + 1) - 1 = done
        /\ \A i \in 0..done : i \in 0 .. Len(parts)
    BY <1>7, <1>8
  <2>4. old = SumTo(s, done)
    BY <1>6, <1>7, <1>8, <2>1 DEF ShpInv, CountsInv
  <2>5. SumTo(s, done + 1) = SumTo(s, done) + Len(parts[done+1].verts)
    BY <2>2, <2>3
  <2> QED
    BY <1>1, <1>8, <2>1, <2>2, <2>3, <2>4, <2>5
<1>10. PICK at, xy, z, mb :
        /\ at = NumPointsAt(type, c) /\ xy = PointsAt(type, c, k)
        /\ z = ZBlockAt(type, c, k, np) /\ mb = MBlockAt(type, c, k, np)
  OBVIOUS
<1>11. Placed(type, c, k, np, at, xy, z, mb)
  BY <1>6, <1>10, Places
<1>12. LaidOut(mem, new, c, at, xy, z, mb, old, size, vs, p)
  BY <1>2, <1>4, <1>6, <1>8, <1>9, <1>10, RecordLaid
<1>13. /\ IndexKept(shp, mem, c, k, done) /\ BlocksKept(shp, mem, xy, z, mb, old)
       /\ Noted(mem, c, parts, done + 1, old)
  BY <1>2, <1>8, <1>10 DEF Begins
<1>14. IndexKept(mem, new, c, k, done + 1)
  <2> SUFFICES ASSUME NEW i \in 1 .. done+1
               PROVE  /\ type \notin MultiPointTypes =>
                           At(new, PartsAt(c) + 4 * (i - 1)) = At(mem, PartsAt(c) + 4 * (i - 1))
                      /\ type = MultiPatch => At(new, PatchTypesAt(c, k) + 4 * (i - 1))
                                                = At(mem, PatchTypesAt(c, k) + 4 * (i - 1))
    BY DEF IndexKept
  <2>1. PICK b \in Int, d \in Int : b = c + 44 + 4 * (i - 1) /\ d = c + 44 + 4 * k + 4 * (i - 1)
    BY <1>7
  <2>2. b = PartsAt(c) + 4 * (i - 1) /\ d = PatchTypesAt(c, k) + 4 * (i - 1)
    BY <1>11, <2>1 DEF Placed
  <2>3. i - 1 \in Nat /\ i - 1 =< done /\ done < k
    BY <1>7, <1>8
  <2>4. type \notin MultiPointTypes => at + 4 =< b /\ b < xy
    <3>1. type \notin MultiPointTypes => at = c + 40 /\ xy >= c + 44 + 4 * k /\ xy \in Nat
      BY <1>11 DEF Placed
    <3> QED
      BY <1>7, <2>1, <2>3, <3>1
  <2>5. type = MultiPatch => at + 4 =< d /\ d < xy
    <3>1. type = MultiPatch => at = c + 40 /\ xy = c + 44 + 8 * k
      BY <1>11 DEF Placed
    <3> QED
      BY <1>7, <2>1, <2>3, <3>1
  <2>6. Same(mem, new, at + 4, xy)
    BY <1>12 DEF LaidOut
  <2> QED
    BY <2>2, <2>4, <2>5, <2>6 DEF Same
<1>15. IndexKept(shp, new, c, k, done)
  <2>1. \A i \in 1..done : i \in 1 .. done+1
    BY <1>7
  <2> QED
    BY <1>13, <1>14, <2>1 DEF IndexKept
<1>16. BlocksKept(shp, new, xy, z, mb, old)
  <2>1. BlocksKept(mem, new, xy, z, mb, old)
    BY <1>12 DEF LaidOut
  <2> QED
    BY <1>13, <2>1 DEF BlocksKept, Same
<1>17. ASSUME NEW i \in 1..done
       PROVE  PartThere(new, c, parts, i)
  <2>1. PartThere(shp, c, parts, i)
    <3>1. RecordThere(shp, c, parts, done)
      BY <1>7, <1>8
    <3> QED
      BY <1>6, <3>1 DEF RecordThere
  <2>2. SumTo(Sizes(parts), i) =< old
    <3>1. PICK s : s = Sizes(parts)
      OBVIOUS
    <3>2. PICK Q : Q = {j \in Nat : j =< done => SumTo(s, done - j) =< old}
      OBVIOUS
    <3>3. 0 \in Q
      BY <1>7, <1>8, <1>9, <3>1, <3>2
    <3>4. ASSUME NEW j \in Nat, j \in Q
          PROVE  j + 1 \in Q
      <4> SUFFICES ASSUME j + 1 =< done
                   PROVE  SumTo(s, done - (j + 1)) =< old
        BY <3>2
      <4>1. PICK l \in Nat : l = done - j /\ l \in 1..k /\ l - 1 = done - (j + 1) /\ l \in 0..done
                             /\ l - 1 \in 0..done
        <5>1. done - j \in Nat /\ done - j >= 1 /\ done - j =< done
          BY <1>7
        <5>2. done < k
          BY <1>8
        <5>3. PICK l \in Nat : l = done - j
          BY <5>1
        <5>4. l >= 1 /\ l =< done /\ l =< k
          <6>1. l >= 1 /\ l =< done
            BY <5>1, <5>3
          <6>2. done \in Nat /\ k \in Nat
            BY <1>7, <1>8
          <6> QED
            BY <5>2, <6>1, <6>2
        <5>5. l \in 1..k /\ l \in 0..done /\ l - 1 \in 0..done
          BY <1>7, <1>8, <5>4
        <5>6. l - 1 = done - (j + 1)
          BY SMTT(30), <1>7, <5>3
        <5> QED
          BY <5>3, <5>6, <5>5
      <4>2. \A m \in 1 .. Len(parts) : SumTo(s, m) = SumTo(s, m-1) + Len(parts[m].verts)
        BY <1>6, <1>7, <3>1, SizesFacts
      <4>3. parts[l] \in Parts[type]
        <5>1. l \in 1 .. Len(parts)
          BY <1>8, <4>1
        <5> QED
          BY <1>7, <5>1
      <4>4. Len(parts[l].verts) \in Nat
        BY <1>6, <4>3, PartFacts
      <4>5. SumTo(s, l) =< old
        BY <1>7, <3>2, <3>4, <4>1
      <4>6. SumTo(s, l) \in Nat /\ SumTo(s, l - 1) \in Nat
        BY <1>9, <3>1, <4>1
      <4>7. SumTo(s, l) = SumTo(s, l - 1) + Len(parts[l].verts)
        BY <1>8, <4>1, <4>2
      <4>8. SumTo(s, l - 1) =< old
        BY SMTT(30), <1>8, <4>4, <4>5, <4>6, <4>7
      <4> QED
        BY <4>1, <4>8
    <3>5. \A j \in Nat : j \in Q
      BY <3>3, <3>4, Induction
    <3>6. done - i \in Nat /\ done - (done - i) = i /\ done - i =< done
      BY <1>7
    <3>7. SumTo(s, done - (done - i)) =< old
      BY <3>2, <3>5, <3>6
    <3> QED
      BY <3>1, <3>6, <3>7
  <2>3. /\ BlocksKept(shp, new, PointsAt(type, c, Len(parts)),
                      ZBlockAt(type, c, Len(parts), Total(parts)),
                      MBlockAt(type, c, Len(parts), Total(parts)), old)
        /\ IndexKept(shp, new, c, Len(parts), done) /\ done =< Len(parts)
    BY <1>7, <1>8, <1>10, <1>15, <1>16
  <2> QED
    BY <1>6, <1>7, <2>1, <2>2, <2>3, PartKept
<1>18. PartThere(new, c, parts, done + 1)
  <2>1. Noted(new, c, parts, done + 1, old)
    <3>1. done + 1 \in 1 .. done+1
      BY <1>7
    <3> QED
      BY <1>8, <1>13, <1>14, <3>1 DEF Noted, IndexKept
  <2>2. VerticesThere(new, c, parts, p, old, vs)
    BY <1>1, <1>8, <1>10, <1>12 DEF VerticesThere, LaidOut
  <2>3. old = SumTo(Sizes(parts), (done + 1) - 1)
    <3>1. (done + 1) - 1 = done
      BY <1>7
    <3> QED
      BY <1>9, <3>1
  <2> QED
    BY <1>1, <1>2, <2>1, <2>2, <2>3 DEF PartThere
<1>19. At(new, c) = type /\ At(new, NumPointsAt(type, c)) = SumTo(Sizes(parts), done + 1)
  BY <1>5, <1>8, <1>9, <1>12 DEF LaidOut, RecordHas
<1>20. type \notin MultiPointTypes => At(new, NumPartsAt(c)) = done + 1
  <2>1. type \notin MultiPointTypes => At(new, NumPartsAt(c)) = At(mem, NumPartsAt(c))
    BY <1>5, <1>8 DEF RecordHas
  <2>2. type \notin MultiPointTypes => At(mem, NumPartsAt(c)) = done + 1
    BY <1>2, <1>8 DEF PartNoted
  <2> QED
    BY <2>1, <2>2
<1>21. \A i \in 1 .. done+1 : i \in 1..done \/ i = done + 1
  BY <1>7
<1>22. \A i \in 1 .. done+1 : PartThere(new, c, parts, i)
  BY <1>17, <1>18, <1>21
<1>23. RecordThere(new, c, parts, done + 1)
  BY <1>6, <1>19, <1>20, <1>22 DEF RecordThere
<1> QED
  BY <1>3, <1>8, <1>23

\* Where the record at c ends that has all of the parts.
RecordEnd(c, parts) ==
  LET n == Len(parts) np == Total(parts)
  IN  IF type \in PointTypes
      THEN c + 4 + 8 * (IF HasZ(type) THEN 4 ELSE IF HasM(type) THEN 3 ELSE 2)
      ELSE IF HasM(type) THEN MBlockAt(type, c, n, np) + 16 + 8 * np
                         ELSE PointsAt(type, c, n) + 16 * np

\* Nothing of a record is lost as long as nobody writes into it.
LEMMA RecordKept ==
  ASSUME NEW c \in Nat, NEW hi \in Int, NEW done \in Nat, NEW parts, NEW mem, NEW new,
         type \in Types, parts \in Seq(Parts[type]), done \in 1..Len(parts),
         RecordEnd(c, parts) =< hi, Same(mem, new, c, hi), RecordThere(mem, c, parts, done)
  PROVE  RecordThere(new, c, parts, done)
<1>1. CASE type \in PointTypes
  <2>1. c + 20 =< hi /\ (HasM(type) => c + 28 =< hi) /\ (HasZ(type) => c + 36 =< hi)
    <3>1. RecordEnd(c, parts) = IF HasZ(type) THEN c + 36 ELSE IF HasM(type) THEN c + 28 ELSE c + 20
      BY <1>1 DEF RecordEnd
    <3>2. HasZ(type) => HasM(type)
      BY DEF HasM
    <3> QED
      BY <3>1, <3>2
  <2>2. /\ At(new, c) = At(mem, c) /\ At(new, c + 4) = At(mem, c + 4)
        /\ At(new, c + 12) = At(mem, c + 12)
        /\ HasM(type) => At(new, c + 20) = At(mem, c + 20)
        /\ HasZ(type) => At(new, c + 28) = At(mem, c + 28)
    BY <2>1 DEF Same
  <2>3. HasZ(type) => HasM(type)
    BY DEF HasM
  <2> QED
    BY <1>1, <2>2, <2>3 DEF RecordThere, PointThere
<1>2. CASE type \notin PointTypes
  <2>1. PICK n \in Nat, np \in Nat : n = Len(parts) /\ np = Total(parts)
    <3>1. Len(parts) \in Nat /\ Total(parts) \in Nat
      BY SizesFacts
    <3> QED
      BY <3>1
  <2>2. PICK at, xy, z, mb :
          /\ at = NumPointsAt(type, c) /\ xy = PointsAt(type, c, n)
          /\ z = ZBlockAt(type, c, n, np) /\ mb = MBlockAt(type, c, n, np)
    OBVIOUS
  <2>3. type \in ShpType \ PointTypes
    BY <1>2, InputAssumption
  <2>4. Placed(type, c, n, np, at, xy, z, mb)
    BY <2>2, <2>3, Places
  <2>5. RecordEnd(c, parts) = IF HasM(type) THEN mb + 16 + 8 * np ELSE xy + 16 * np
    BY <1>2, <2>1, <2>2 DEF RecordEnd
  <2>6. /\ xy \in Nat /\ z \in Nat /\ mb \in Nat /\ at \in Nat /\ c + 36 =< at /\ at + 4 =< xy
        /\ xy + 16 * np =< hi
        /\ HasZ(type) => z + 16 + 8 * np =< hi
        /\ HasM(type) => mb + 16 + 8 * np =< hi
        /\ c =< xy /\ c =< z /\ c =< mb
    <3>1. HasZ(type) => HasM(type)
      BY DEF HasM
    <3> QED
      BY <2>4, <2>5, <3>1 DEF Placed
  <2>7. BlocksKept(mem, new, xy, z, mb, np)
    BY <2>6 DEF BlocksKept, Same
  <2>8. IndexKept(mem, new, c, n, done)
    <3> SUFFICES ASSUME NEW i \in 1 .. done
                 PROVE  /\ type \notin MultiPointTypes =>
                             At(new, PartsAt(c) + 4 * (i - 1)) = At(mem, PartsAt(c) + 4 * (i - 1))
                        /\ type = MultiPatch => At(new, PatchTypesAt(c, n) + 4 * (i - 1))
                                                  = At(mem, PatchTypesAt(c, n) + 4 * (i - 1))
      BY DEF IndexKept
    <3>1. PICK b \in Int, d \in Int : b = c + 44 + 4 * (i - 1) /\ d = c + 44 + 4 * n + 4 * (i - 1)
      OBVIOUS
    <3>2. b = PartsAt(c) + 4 * (i - 1) /\ d = PatchTypesAt(c, n) + 4 * (i - 1)
      BY <2>4, <3>1 DEF Placed
    <3>3. i - 1 \in Nat /\ i - 1 < n
      BY <2>1
    <3>4. type \notin MultiPointTypes => c =< b /\ b < hi
      <4>1. type \notin MultiPointTypes => xy >= c + 44 + 4 * n
        BY <2>4 DEF Placed
      <4> QED
        BY <2>6, <3>1, <3>3, <4>1
    <3>5. type = MultiPatch => c =< d /\ d < hi
      <4>1. type = MultiPatch => xy = c + 44 + 8 * n
        BY <2>4 DEF Placed
      <4> QED
        BY <2>6, <3>1, <3>3, <4>1
    <3> QED
      BY <3>2, <3>4, <3>5 DEF Same
  <2>9. ASSUME NEW i \in 1..done
        PROVE  PartThere(new, c, parts, i)
    <3>1. PartThere(mem, c, parts, i)
      BY <1>2 DEF RecordThere
    <3>2. SumTo(Sizes(parts), i) =< np /\ done =< Len(parts)
      <4>1. PICK s : s = Sizes(parts)
        OBVIOUS
      <4>2. \A k \in 0 .. Len(parts) : SumTo(s, k) \in Nat /\ SumTo(s, k) =< Total(parts)
        BY <4>1, SizesFacts
      <4>3. i \in 0 .. Len(parts)
        BY <2>1
      <4> QED
        BY <2>1, <4>1, <4>2, <4>3
    <3>3. BlocksKept(mem, new, PointsAt(type, c, Len(parts)),
                     ZBlockAt(type, c, Len(parts), Total(parts)),
                     MBlockAt(type, c, Len(parts), Total(parts)), np)
          /\ IndexKept(mem, new, c, Len(parts), done)
      BY <2>1, <2>2, <2>7, <2>8
    <3> QED
      BY <2>3, <3>1, <3>2, <3>3, PartKept
  <2>10. /\ At(new, c) = At(mem, c) /\ At(new, at) = At(mem, at)
         /\ At(new, NumPartsAt(c)) = At(mem, NumPartsAt(c))
    <3>1. NumPartsAt(c) = c + 36
      BY DEF NumPartsAt
    <3> QED
      BY <2>6, <3>1 DEF Same
  <2> QED
    BY <1>2, <2>2, <2>9, <2>10 DEF RecordThere
<1> QED
  BY <1>1, <1>2

(***************************************************************************)
(* Of every feature, the parts that have been added are in the file, and   *)
(* the record of a whole one ends before that of the next.  Of a feature   *)
(* with a part too many nothing is said.                                   *)
(***************************************************************************)
ReadInv ==
  \A k \in 1..Len(given) :
    /\ type \in PointTypes => Len(given[k]) =< 1
    /\ calls[k] \in 1..Len(given[k]) => RecordThere(shp, RecordAt(k) + 8, given[k], calls[k])
    /\ k < Len(given) /\ given[k] /= << >> /\ calls[k] = Len(given[k]) =>
         RecordEnd(RecordAt(k) + 8, given[k]) =< feat.rec

\* What is in the new memory is there after the step.
LEMMA RecordPrimed ==
  ASSUME NEW k, NEW c, NEW new, NEW parts, NEW done, type' = type, new = shp',
         c = RecordAt(k)' + 8, parts = given'[k], done = calls'[k],
         RecordThere(new, c, parts, done)
  PROVE  RecordThere(shp, RecordAt(k) + 8, given[k], calls[k])'
BY DEF RecordThere, PointThere, PartThere, Noted, VerticesThere, VertexThere, Meant

LEMMA EndPrimed ==
  ASSUME NEW k, NEW c, NEW parts, NEW hi, type' = type, c = RecordAt(k)' + 8, parts = given'[k],
         RecordEnd(c, parts) =< hi
  PROVE  RecordEnd(RecordAt(k) + 8, given[k])' =< hi
BY DEF RecordEnd

\* What the invariant says of the places of records, and of what the caller has.
LEMMA RecordFacts ==
  ASSUME ShpInv, NEW n, n = Len(given)
  PROVE  /\ n \in Nat /\ (n = 0 <=> given = << >>) /\ type \in Types /\ Len(calls) = n
         /\ Len(shx) = n
         /\ \A k \in 1..n : /\ given[k] \in Seq(Parts[type]) /\ Len(given[k]) \in Nat
                            /\ calls[k] \in Nat /\ calls[k] =< Len(given[k]) + 1
                            /\ RecordAt(k) \in Nat
         /\ \A k \in 1 .. n-1 : calls[k] >= Len(given[k])
         /\ n > 0 => feat.rec = RecordAt(n) /\ feat.rec =< shpSize
         /\ shpSize \in Nat /\ feat.rec \in Nat
<1>1. PICK S : S = Seq(Parts[type])
  OBVIOUS
<1>2. given \in Seq(S) /\ calls \in Seq(Nat) /\ Len(calls) = n /\ type \in Types
  BY <1>1 DEF ShpInv, CallsInv
<1>3. n \in Nat /\ (n = 0 <=> given = << >>)
  BY <1>2
<1>4. ASSUME NEW k \in 1..n
      PROVE  /\ given[k] \in S /\ calls[k] \in Nat /\ calls[k] =< Len(given[k]) + 1
             /\ Len(given[k]) \in Nat
  <2>1. given[k] \in S /\ calls[k] \in Nat
    BY <1>2, <1>4
  <2>2. calls[k] =< Len(given[k]) + 1
    BY <1>4 DEF ShpInv, CallsInv
  <2> QED
    BY <1>1, <2>1, <2>2
<1>5. shx \in Seq([offset : Nat, length : Nat]) /\ Len(shx) = n
  BY DEF ShpInv, RecordsInv
<1>6. \A k \in 1..n : RecordAt(k) \in Nat
  <2> SUFFICES ASSUME NEW k \in 1..n
               PROVE  RecordAt(k) \in Nat
    OBVIOUS
  <2>1. shx[k] \in [offset : Nat, length : Nat]
    <3>1. PICK R : R = [offset : Nat, length : Nat]
      OBVIOUS
    <3>2. shx \in Seq(R) /\ k \in 1..Len(shx)
      BY <1>5, <3>1
    <3>3. shx[k] \in R
      BY <3>2
    <3> QED
      BY <3>1, <3>3
  <2>2. shx[k].offset \in Nat
    BY <2>1
  <2> QED
    BY <2>2 DEF RecordAt
<1>7. \A k \in 1 .. n-1 : calls[k] >= Len(given[k])
  BY DEF ShpInv, CallsInv
<1>8. shpSize \in Nat /\ feat.rec \in Nat
  BY DEF ShpInv, CellsInv, CallsInv
<1>9. n > 0 => feat.rec = RecordAt(n) /\ feat.rec =< shpSize
  <2>1. n > 0 => feat.rec = RecordAt(n)
    BY <1>3 DEF ShpInv, RecordsInv
  <2>2. n > 0 => shpSize >= feat.rec + RecordSize + NullSize
    BY <1>3, <1>8 DEF ShpInv, LastInv, RecordSize, NullSize
  <2> QED
    BY <1>8, <2>1, <2>2 DEF RecordSize, NullSize
<1> QED
  BY <1>1, <1>2, <1>3, <1>4, <1>5, <1>6, <1>7, <1>8, <1>9

\* The record of a whole feature that is the last one ends with the file.
LEMMA LastEnds ==
  ASSUME ShpInv, NEW n, n = Len(given), given /= << >>, given[n] /= << >>,
         calls[n] = Len(given[n])
  PROVE  RecordEnd(RecordAt(n) + 8, given[n]) = shpSize
<1>1. PICK parts, c : parts = given[n] /\ c = RecordAt(n) + 8
  OBVIOUS
<1>2. /\ n \in Nat \ {0} /\ parts \in Seq(Parts[type]) /\ RecordAt(n) = feat.rec /\ type \in Types
      /\ feat.rec \in Nat /\ Len(parts) \in Nat
  BY <1>1, RecordFacts
<1>3. Len(parts) > 0
  BY <1>1, <1>2
<1>4. Begun
  BY <1>1, <1>3 DEF Begun
<1>5. c = Content /\ c = feat.rec + 8
  BY <1>1, <1>2 DEF Content, RecordSize
<1>6. CASE type \in PointTypes
  <2>1. shpSize = PointEnd
    BY <1>4, <1>6 DEF ShpInv, LastInv
  <2>2. PICK m \in {2, 3, 4} : m = IF HasZ(type) THEN 4 ELSE IF HasM(type) THEN 3 ELSE 2
    OBVIOUS
  <2>3. shpSize = feat.rec + 12 + 8 * m
    BY <2>1, <2>2 DEF PointEnd
  <2>4. RecordEnd(c, parts) = c + 4 + 8 * m
    BY <1>6, <2>2 DEF RecordEnd
  <2> QED
    BY <1>1, <1>2, <1>5, <2>3, <2>4
<1>7. CASE type \notin PointTypes
  <2>1. shpSize = End(NumPoints)
    BY <1>4, <1>7 DEF ShpInv, LastInv
  <2>2. NumPoints = Total(parts)
    <3>1. NumPoints = SumTo(Sizes(parts), calls[n])
      BY <1>1, <1>2, <1>7 DEF ShpInv, CountsInv
    <3> QED
      BY <1>1, <3>1 DEF Total
  <2>3. feat.numParts = Len(parts) /\ feat.numPoints = Total(parts)
    BY <1>1 DEF ShpInv, CallsInv
  <2> QED
    BY <1>1, <1>5, <1>7, <2>1, <2>2, <2>3 DEF End, RecordEnd
<1> QED
  BY <1>6, <1>7

\* Whoever leaves what is before the last record, leaves all records but that.
LEMMA EarlierKept ==
  ASSUME ShpInv, ReadInv, NEW n, n = Len(given), NEW k \in 1 .. n-1, calls[k] \in 1..Len(given[k]),
         NEW new, \A b \in Int : b < feat.rec => At(new, b) = At(shp, b)
  PROVE  RecordThere(new, RecordAt(k) + 8, given[k], calls[k])
<1>1. PICK parts, c, done : parts = given[k] /\ c = RecordAt(k) + 8 /\ done = calls[k]
  OBVIOUS
<1>2. /\ n \in Nat /\ k \in 1..n /\ k < n /\ parts \in Seq(Parts[type]) /\ c \in Nat
      /\ done \in Nat /\ done \in 1..Len(parts)
      /\ done >= Len(parts) /\ Len(parts) \in Nat /\ feat.rec \in Nat /\ type \in Types
  <2>1. n \in Nat
    BY RecordFacts
  <2>2. k \in 1..n /\ k < n
    BY <2>1
  <2> QED
    BY SMTT(30), <1>1, <2>1, <2>2, RecordFacts
<1>3. done = Len(parts) /\ parts /= << >>
  BY <1>2
<1>4. RecordThere(shp, c, parts, done) /\ RecordEnd(c, parts) =< feat.rec
  BY <1>1, <1>2, <1>3 DEF ReadInv
<1>5. Same(shp, new, c, feat.rec)
  BY DEF Same
<1>6. feat.rec \in Int
  BY <1>2
<1> QED
  BY <1>1, <1>2, <1>4, <1>5, <1>6, RecordKept

LEMMA ReadFeature ==
  ASSUME ShpInv, ReadInv, NEW parts \in Features, AddFeature(parts)
  PROVE  ReadInv'
<1>1. PICK n : n = Len(given)
  OBVIOUS
<1>2. PICK size, new : size = shpSize /\ new = shp'
  OBVIOUS
<1>3. /\ n \in Nat /\ (n = 0 <=> given = << >>) /\ type \in Types /\ Len(calls) = n
      /\ Len(shx) = n
      /\ \A k \in 1..n : /\ given[k] \in Seq(Parts[type]) /\ Len(given[k]) \in Nat
                         /\ calls[k] \in Nat /\ calls[k] =< Len(given[k]) + 1
                         /\ RecordAt(k) \in Nat
      /\ n > 0 => feat.rec = RecordAt(n) /\ feat.rec =< size
      /\ size \in Nat /\ feat.rec \in Nat
  BY <1>1, <1>2, RecordFacts
<1>4. /\ given' = Append(given, parts) /\ calls' = Append(calls, 0) /\ type' = type
      /\ shx' = Append(shx, [offset |-> Offset, length |-> 0])
      /\ new = Put(shp, size, 4, <<Len(shx) + 1>>) /\ feat'.rec = size
  BY <1>2 DEF AddFeature
<1>5. /\ Len(given') = n + 1 /\ given'[n+1] = parts /\ calls'[n+1] = 0
      /\ \A k \in 1..n : given'[k] = given[k] /\ calls'[k] = calls[k] /\ shx'[k] = shx[k]
  <2>1. PICK S, R : S = Seq(Parts[type]) /\ R = [offset : Nat, length : Nat]
    OBVIOUS
  <2>2. given \in Seq(S) /\ calls \in Seq(Nat) /\ shx \in Seq(R)
    BY <2>1 DEF ShpInv, CallsInv, RecordsInv
  <2>3. Len(given') = n + 1 /\ given'[n+1] = parts /\ \A k \in 1..n : given'[k] = given[k]
    BY <1>1, <1>4, <2>2
  <2>4. calls'[n+1] = 0 /\ \A k \in 1..n : calls'[k] = calls[k]
    BY <1>3, <1>4, <2>2
  <2>5. \A k \in 1..n : shx'[k] = shx[k]
    <3>1. PICK r : r = [offset |-> Offset, length |-> 0]
      OBVIOUS
    <3>2. shx' = Append(shx, r)
      BY <1>4, <3>1
    <3> QED
      BY <1>3, <2>2, <3>2
  <2> QED
    BY <2>3, <2>4, <2>5
<1>6. \A k \in 1..n : RecordAt(k)' = RecordAt(k)
  BY <1>5 DEF RecordAt
<1>7. \A k \in 1..n : calls[k] >= Len(given[k])
  <2>1. \A k \in DOMAIN given : calls[k] >= Len(given[k])
    BY DEF AddFeature, Written
  <2>2. DOMAIN given = 1..n
    <3>1. PICK S : S = Seq(Parts[type])
      OBVIOUS
    <3>2. given \in Seq(S)
      BY <3>1 DEF ShpInv, CallsInv
    <3> QED
      BY <1>1, <3>2
  <2> QED
    BY <2>1, <2>2
<1>8. \A b \in Int : b < size => At(new, b) = At(shp, b)
  <2>1. size \in Int
    BY <1>3
  <2>2. \A b : b /= size => At(new, b) = At(shp, b)
    BY <1>4, <2>1, PutElsewhere
  <2> QED
    BY <1>3, <2>2
<1>9. ASSUME NEW k \in 1..n, given[k] /= << >>, calls[k] = Len(given[k])
      PROVE  RecordEnd(RecordAt(k) + 8, given[k]) =< size
  <2>1. CASE k < n
    <3>1. PICK end : end = RecordEnd(RecordAt(k) + 8, given[k])
      OBVIOUS
    <3>2. end =< feat.rec
      BY <1>1, <1>9, <2>1, <3>1 DEF ReadInv
    <3>3. end \in Int
      <4>1. PICK x \in Nat, np \in Nat, m \in Nat :
              x = RecordAt(k) + 8 /\ np = Total(given[k]) /\ m = Len(given[k])
        <5>1. Total(given[k]) \in Nat
          BY <1>3, SizesFacts
        <5>2. RecordAt(k) + 8 \in Nat /\ Len(given[k]) \in Nat
          BY <1>3
        <5> QED
          BY <5>1, <5>2
      <4>2. end = RecordEnd(x, given[k])
        BY <3>1, <4>1
      <4>3. CASE type \in PointTypes
        BY <4>1, <4>2, <4>3 DEF RecordEnd
      <4>4. CASE type \notin PointTypes
        <5>1. type \in ShpType \ PointTypes
          BY <1>3, <4>4, InputAssumption
        <5>2. PICK at, xy, z, mb :
                /\ at = NumPointsAt(type, x) /\ xy = PointsAt(type, x, m)
                /\ z = ZBlockAt(type, x, m, np) /\ mb = MBlockAt(type, x, m, np)
          OBVIOUS
        <5>3. Placed(type, x, m, np, at, xy, z, mb)
          BY <5>1, <5>2, Places
        <5>4. xy \in Nat /\ mb \in Nat
          BY <5>3 DEF Placed
        <5> QED
          BY <4>1, <4>2, <4>4, <5>2, <5>4 DEF RecordEnd
      <4> QED
        BY <4>3, <4>4
    <3> QED
      BY <1>3, <2>1, <3>1, <3>2, <3>3
  <2>2. CASE k = n
    <3>1. RecordEnd(RecordAt(k) + 8, given[k]) = size
      <4>1. given /= << >> /\ given[n] /= << >> /\ calls[n] = Len(given[n])
        BY <1>3, <1>9, <2>2
      <4>2. RecordEnd(RecordAt(n) + 8, given[n]) = shpSize
        BY <1>1, <4>1, LastEnds
      <4> QED
        BY <1>2, <2>2, <4>2
    <3> QED
      BY <1>3, <3>1
  <2> QED
    BY <1>3, <2>1, <2>2
<1>10. ASSUME NEW k \in 1..n, calls[k] \in 1..Len(given[k])
       PROVE  RecordThere(new, RecordAt(k) + 8, given[k], calls[k])
  <2>1. PICK ps, c, done : ps = given[k] /\ c = RecordAt(k) + 8 /\ done = calls[k]
    OBVIOUS
  <2>2. /\ ps \in Seq(Parts[type]) /\ c \in Nat /\ done \in Nat /\ done \in 1..Len(ps)
        /\ Len(ps) \in Nat /\ done >= Len(ps)
    BY <1>3, <1>7, <1>10, <2>1
  <2>3. done = Len(ps) /\ ps /= << >>
    BY <2>2
  <2>4. RecordThere(shp, c, ps, done) /\ RecordEnd(c, ps) =< size
    BY <1>1, <1>9, <1>10, <2>1, <2>3 DEF ReadInv
  <2>5. Same(shp, new, c, size) /\ size \in Int
    BY <1>3, <1>8 DEF Same
  <2> QED
    BY <1>3, <2>1, <2>2, <2>4, <2>5, RecordKept
<1>11. ASSUME NEW k \in 1 .. n+1
       PROVE  /\ type' \in PointTypes => Len(given'[k]) =< 1
              /\ calls'[k] \in 1..Len(given'[k]) =>
                   RecordThere(shp, RecordAt(k) + 8, given[k], calls[k])'
              /\ k < n + 1 /\ given'[k] /= << >> /\ calls'[k] = Len(given'[k]) =>
                   RecordEnd(RecordAt(k) + 8, given[k])' =< feat'.rec
  <2>1. CASE k \in 1..n
    <3>1. type' \in PointTypes => Len(given'[k]) =< 1
      BY <1>1, <1>4, <1>5, <2>1 DEF ReadInv
    <3>2. ASSUME calls'[k] \in 1..Len(given'[k])
          PROVE  RecordThere(shp, RecordAt(k) + 8, given[k], calls[k])'
      <4>1. PICK c, ps, done : c = RecordAt(k) + 8 /\ ps = given[k] /\ done = calls[k]
        OBVIOUS
      <4>2. RecordThere(new, c, ps, done)
        BY <1>5, <1>10, <2>1, <3>2, <4>1
      <4>3. c = RecordAt(k)' + 8 /\ ps = given'[k] /\ done = calls'[k]
        BY <1>5, <1>6, <2>1, <4>1
      <4> QED
        BY <1>2, <1>4, <4>2, <4>3, RecordPrimed
    <3>3. ASSUME given'[k] /= << >>, calls'[k] = Len(given'[k])
          PROVE  RecordEnd(RecordAt(k) + 8, given[k])' =< feat'.rec
      <4>1. PICK c, ps : c = RecordAt(k) + 8 /\ ps = given[k]
        OBVIOUS
      <4>2. RecordEnd(c, ps) =< size
        BY <1>5, <1>9, <2>1, <3>3, <4>1
      <4>3. c = RecordAt(k)' + 8 /\ ps = given'[k]
        BY <1>5, <1>6, <2>1, <4>1
      <4>4. RecordEnd(RecordAt(k) + 8, given[k])' =< size
        BY <1>4, <4>2, <4>3, EndPrimed
      <4> QED
        BY <1>4, <4>4
    <3> QED
      BY <3>1, <3>2, <3>3
  <2>2. CASE k = n + 1
    <3>1. type \in PointTypes => Len(parts) =< 1
      <4>1. PICK most, least : /\ most = (IF type \in PointTypes THEN 1 ELSE MaxParts)
                               /\ least = (IF NullFeatures THEN 0 ELSE 1)
        OBVIOUS
      <4>2. PICK m \in least .. most : parts \in [1..m -> Parts[type]]
        BY <4>1 DEF Features
      <4>3. least \in Nat /\ most \in Int
        BY <4>1, InputAssumption
      <4>4. m \in Nat /\ m =< most
        BY <4>2, <4>3
      <4>5. Len(parts) = m
        BY <4>2, <4>4
      <4> QED
        BY <4>1, <4>4, <4>5
    <3>2. ~(calls'[k] \in 1..Len(given'[k]))
      BY <1>5, <2>2
    <3>3. ~(k < n + 1)
      BY <1>3, <2>2
    <3> QED
      BY <1>4, <1>5, <2>2, <3>1, <3>2, <3>3
  <2> QED
    BY <1>3, <2>1, <2>2
<1> QED
  BY <1>5, <1>11 DEF ReadInv

\* Two sequences in a row.
Joins(s, a, b, n, m) ==
  /\ s \in Seq(Int) /\ Len(s) = n + m
  /\ \A i \in 1..n : s[i] = a[i]
  /\ \A i \in 1..m : s[n + i] = b[i]

LEMMA Joined ==
  ASSUME NEW n \in Nat, NEW m \in Nat, NEW a \in Seq(Int), NEW b \in Seq(Int),
         n = Len(a), m = Len(b)
  PROVE  Joins(a \o b, a, b, n, m)
<1>1. PICK s : s = a \o b
  OBVIOUS
<1>2. s \in Seq(Int) /\ Len(s) = n + m
  BY <1>1
<1>3. \A i \in 1 .. n+m : s[i] = IF i =< n THEN a[i] ELSE b[i - n]
  BY <1>1
<1>4. ASSUME NEW i \in 1..m
      PROVE  s[n + i] = b[i]
  <2>1. n + i \in 1 .. n+m /\ ~(n + i =< n) /\ (n + i) - n = i
    OBVIOUS
  <2> QED
    BY <1>3, <2>1
<1>5. \A i \in 1..n : s[i] = a[i]
  BY <1>3
<1>6. Joins(s, a, b, n, m)
  BY <1>2, <1>4, <1>5 DEF Joins
<1> QED
  BY <1>1, <1>6

\* A point is laid out with the values of its type.
PointRow(vals, x, y, z, m) ==
  \E n \in {2, 3, 4} :
    /\ Row(vals, n) /\ Len(vals) = n /\ vals[1] = x /\ vals[2] = y
    /\ HasZ(type) => n = 4 /\ vals[3] = z /\ vals[4] = m
    /\ HasM(type) /\ ~HasZ(type) => n = 3 /\ vals[3] = m

LEMMA PointValues ==
  ASSUME NEW x \in Int, NEW y \in Int, NEW z \in Int, NEW m \in Int,
         NEW vals, vals = <<x, y>> \o (IF HasZ(type) THEN <<z>> ELSE << >>)
                                   \o (IF HasM(type) THEN <<m>> ELSE << >>)
  PROVE  PointRow(vals, x, y, z, m)
<1>1. HasZ(type) => HasM(type)
  BY DEF HasM
<1>2. PICK k \in {0, 1}, l \in {0, 1} : k = (IF HasZ(type) THEN 1 ELSE 0) /\ l = (IF HasM(type) THEN 1 ELSE 0)
  OBVIOUS
<1>3. PICK a, b, d : /\ a = <<x, y>> /\ b = (IF HasZ(type) THEN <<z>> ELSE << >>)
                     /\ d = (IF HasM(type) THEN <<m>> ELSE << >>)
  OBVIOUS
<1>4. /\ a \in Seq(Int) /\ b \in Seq(Int) /\ d \in Seq(Int)
      /\ Len(a) = 2 /\ Len(b) = k /\ Len(d) = l
      /\ a[1] = x /\ a[2] = y /\ (k = 1 => b[1] = z) /\ (l = 1 => d[1] = m)
  BY <1>2, <1>3
<1>5. PICK s : s = a \o b
  OBVIOUS
<1>6. PICK two \in Nat, n \in Nat : two = 2 /\ n = two + k
  OBVIOUS
<1>7. k \in Nat /\ l \in Nat
  OBVIOUS
<1>8. /\ s \in Seq(Int) /\ Len(s) = n
      /\ \A i \in 1..two : s[i] = a[i]
      /\ \A i \in 1..k : s[two + i] = b[i]
  <2>1. Joins(s, a, b, two, k)
    BY <1>4, <1>5, <1>6, <1>7, Joined
  <2> QED
    BY <1>6, <2>1 DEF Joins
<1>9. vals = s \o d
  BY <1>3, <1>5
<1>10. /\ vals \in Seq(Int) /\ Len(vals) = n + l
       /\ \A i \in 1..n : vals[i] = s[i]
       /\ \A i \in 1..l : vals[n + i] = d[i]
  <2>1. /\ n \in Nat /\ l \in Nat /\ s \in Seq(Int) /\ d \in Seq(Int)
        /\ n = Len(s) /\ l = Len(d)
    BY <1>4, <1>6, <1>7, <1>8
  <2>2. Joins(s \o d, s, d, n, l)
    BY <2>1, Joined
  <2> QED
    BY <1>9, <2>2 DEF Joins
<1>11. vals[1] = x /\ vals[2] = y
  BY <1>4, <1>6, <1>8, <1>10
<1>12. k = 1 => n = 3 /\ vals[3] = z
  <2>1. k = 1 => n = 3 /\ 3 \in 1..n /\ 1 \in 1..k /\ two + 1 = 3
    BY <1>6
  <2> QED
    BY <1>4, <1>8, <1>10, <2>1
<1>13. l = 1 => vals[n + 1] = m
  BY <1>4, <1>10
<1>14. Row(vals, n + l)
  BY <1>10 DEF Row
<1>15. n + l \in {2, 3, 4} /\ n \in {2, 3}
  BY <1>1, <1>2, <1>6
<1>16. ASSUME HasZ(type)
       PROVE  n + l = 4 /\ vals[3] = z /\ vals[4] = m
  <2>1. k = 1 /\ l = 1
    BY <1>1, <1>2, <1>16
  <2>2. n = 3 /\ vals[3] = z /\ vals[n + 1] = m
    BY <1>12, <1>13, <2>1
  <2>3. n + 1 = 4 /\ n + l = 4
    BY <2>1, <2>2
  <2> QED
    BY <2>2, <2>3
<1>17. HasM(type) /\ ~HasZ(type) => n + l = 3 /\ vals[3] = m
  BY <1>2, <1>6, <1>13
<1> QED
  BY <1>10, <1>11, <1>14, <1>15, <1>16, <1>17 DEF PointRow

LEMMA PointLaid ==
  ASSUME ShpInv, given /= << >>, NEW p \in Parts[type], AddPoint(p), NEW parts, parts[1] = p
  PROVE  RecordThere(shp', Content, parts, 1)
<1>1. PICK v : v = p.verts[1]
  OBVIOUS
<1>2. type \in PointTypes /\ type \in Types
  BY DEF AddPoint, ShpInv, CallsInv
<1>3. v[1] \in Int /\ v[2] \in Int /\ v[3] \in Int /\ v[4] \in Int
  <2>1. Len(p.verts) = 1 /\ Vertices(p.verts, Len(p.verts))
    BY <1>2, PartFacts
  <2>2. v \in Int \X Int \X Int \X Int
    BY <1>1, <2>1 DEF Vertices
  <2> QED
    BY <2>2
<1>4. PICK vals : vals = <<v[1], v[2]>> \o (IF HasZ(type) THEN <<v[3]>> ELSE << >>)
                                       \o (IF HasM(type) THEN <<v[4]>> ELSE << >>)
  OBVIOUS
<1>5. PICK n \in {2, 3, 4} :
        /\ Row(vals, n) /\ Len(vals) = n /\ vals[1] = v[1] /\ vals[2] = v[2]
        /\ HasZ(type) => n = 4 /\ vals[3] = v[3] /\ vals[4] = v[4]
        /\ HasM(type) /\ ~HasZ(type) => n = 3 /\ vals[3] = v[4]
  <2>1. PICK x \in Int, y \in Int, z \in Int, m \in Int : x = v[1] /\ y = v[2] /\ z = v[3] /\ m = v[4]
    BY <1>3
  <2>2. vals = <<x, y>> \o (IF HasZ(type) THEN <<z>> ELSE << >>)
                       \o (IF HasM(type) THEN <<m>> ELSE << >>)
    BY <1>4, <2>1
  <2>3. PointRow(vals, x, y, z, m)
    BY <2>2, PointValues
  <2> QED
    BY <2>1, <2>3 DEF PointRow
<1>6. PICK c \in Nat, rl \in Int, e \in Int :
        /\ c = Content /\ c = feat.rec + 8 /\ rl = c - 4 /\ e = c + 4
        /\ rl = feat.rec + 4
  <2>1. feat.rec \in Nat
    BY RecStart
  <2>2. PICK c \in Nat, rl \in Int, e \in Int : c = feat.rec + 8 /\ rl = c - 4 /\ e = c + 4
    BY <2>1
  <2>3. c = Content /\ rl = feat.rec + 4
    BY <2>1, <2>2 DEF Content, RecordSize
  <2> QED
    BY <2>2, <2>3
<1>7. PICK m1, m2, new : /\ m1 = Put(shp, c, 4, <<type>>) /\ m2 = Put(m1, e, 8, vals)
                         /\ new = shp'
  OBVIOUS
<1>8. PICK length : new = Put(m2, rl, 4, <<length>>)
  <2>1. PICK box, hi : Finish(hi, m2, box)
    <3>1. m2 = Put(Put(shp, Content, 4, <<type>>), Content + 4, 8, vals)
      BY <1>6, <1>7
    <3> QED
      BY <1>1, <1>4, <3>1, Zenon DEF AddPoint
  <2>2. new = Put(m2, feat.rec + 4, 4, <<ContentLength(hi)>>)
    BY <1>7, <2>1 DEF Finish
  <2> QED
    BY <1>6, <2>2
<1>9. At(m1, c) = type
  <2>1. c \in Int /\ m1 = Put(shp, c, 4, <<type>>)
    BY <1>7
  <2> QED
    BY SMTT(30), <2>1, PutHere
<1>10. /\ n \in Nat /\ \A k \in 1..n : At(m2, Cell(e, 8, k)) = vals[k]
       /\ \A b \in Int : b < e \/ b > Cell(e, 8, n) => At(m2, b) = At(m1, b)
  <2>1. e \in Int /\ n \in Nat /\ Row(vals, n) /\ m2 = Put(m1, e, 8, vals)
    BY <1>5, <1>7
  <2> QED
    BY SMTT(30), <2>1, RowFacts
<1>11. \A b \in Int : b < e \/ b > Cell(e, 8, n) => At(m2, b) = At(m1, b)
  BY <1>10
<1>12. \A b : b /= rl => At(new, b) = At(m2, b)
  BY <1>8, PutElsewhere
<1>13. At(new, c) = type
  BY <1>6, <1>9, <1>11, <1>12
<1>14. ASSUME NEW k \in 1..n
       PROVE  At(new, c + 4 + 8 * (k - 1)) = vals[k]
  <2>1. Cell(e, 8, k) = c + 4 + 8 * (k - 1)
    BY <1>6, <1>10 DEF Cell
  <2>2. c + 4 + 8 * (k - 1) /= rl
    BY <1>6, <1>10
  <2> QED
    BY <1>10, <1>12, <2>1, <2>2
<1>15. /\ At(new, c + 4) = vals[1] /\ At(new, c + 12) = vals[2]
       /\ n >= 3 => At(new, c + 20) = vals[3]
       /\ n >= 4 => At(new, c + 28) = vals[4]
  BY <1>14
<1>16. PointThere(new, c, v)
  BY <1>5, <1>15 DEF PointThere
<1> QED
  BY <1>1, <1>2, <1>6, <1>7, <1>13, <1>16 DEF RecordThere

LEMMA ReadPart ==
  ASSUME ShpInv, ReadInv, AddPart
  PROVE  ReadInv'
<1>1. PICK n, new : n = Len(given) /\ new = shp'
  OBVIOUS
<1>2. Called /\ Grown
  BY PartGrown
<1>3. /\ n \in Nat \ {0} /\ given /= << >> /\ type \in Types /\ Len(calls) = n /\ Len(shx) = n
      /\ \A k \in 1..n : /\ given[k] \in Seq(Parts[type]) /\ Len(given[k]) \in Nat
                         /\ calls[k] \in Nat /\ calls[k] =< Len(given[k]) + 1
                         /\ RecordAt(k) \in Nat
      /\ feat.rec = RecordAt(n) /\ feat.rec \in Nat
  <2>1. given /= << >>
    BY <1>2 DEF Called
  <2> QED
    BY <1>1, <2>1, RecordFacts
<1>4. /\ given' = given /\ type' = type /\ feat' = feat
      /\ calls'[n] = calls[n] + 1 /\ \A k \in 1 .. n-1 : calls'[k] = calls[k]
  <2>1. calls' = [calls EXCEPT ![n] = calls[n] + 1] /\ given' = given /\ type' = type /\ feat' = feat
    BY <1>1, <1>3, <1>2 DEF Called
  <2>2. calls \in Seq(Nat) /\ n \in 1..Len(calls) /\ calls[n] + 1 \in Nat
    <3>1. calls \in Seq(Nat)
      BY DEF ShpInv, CallsInv
    <3> QED
      BY <1>3, <3>1
  <2> QED
    BY <1>3, <2>1, <2>2, LastReplaced
<1>5. \A k \in 1..n : RecordAt(k)' = RecordAt(k)
  BY <1>2, <1>3 DEF Grown, RecordAt
<1>6. \A b \in Int : b < feat.rec => At(new, b) = At(shp, b)
  <2>1. \A b \in Int : b < feat.rec + 4 => At(new, b) = At(shp, b)
    BY <1>1, <1>2 DEF Grown
  <2> QED
    BY <1>3, <2>1
<1>7. PICK parts, done : parts = given[n] /\ done = calls[n]
  OBVIOUS
<1>8. parts \in Seq(Parts[type]) /\ done \in Nat /\ Len(parts) \in Nat
  BY <1>3, <1>7
<1>9. Content = RecordAt(n) + 8
  BY <1>3 DEF Content, RecordSize
<1>10. ASSUME done + 1 \in 1..Len(parts)
       PROVE  RecordThere(new, RecordAt(n) + 8, parts, done + 1)
  <2>1. done < Len(parts)
    BY <1>8, <1>10
  <2>2. CASE type \notin PointTypes
    <3>1. done > 0 => RecordThere(shp, Content, parts, done)
      <4>1. done > 0 => done \in 1..Len(parts)
        BY <1>8, <2>1
      <4>2. n \in 1..Len(given)
        BY <1>1, <1>3
      <4> QED
        BY <1>7, <1>9, <4>1, <4>2 DEF ReadInv
    <3> QED
      BY <1>1, <1>7, <1>9, <2>1, <2>2, <3>1, RecordGrows
  <2>3. CASE type \in PointTypes
    <3>1. Len(parts) =< 1
      <4>1. n \in 1..Len(given)
        BY <1>1, <1>3
      <4> QED
        BY <1>7, <2>3, <4>1 DEF ReadInv
    <3>2. done = 0
      BY <1>8, <2>1, <3>1
    <3>3. PICK p : /\ IsNext(p)
                   /\ \/ AddPoint(p)
                      \/ \E m \in Nat \ {0} : \E vs, mem : Lays(p, m, vs, mem)
                      \/ RefusePart
      BY PartKinds
    <3>4. p = parts[1] /\ p \in Parts[type]
      BY <1>1, <1>7, <2>1, <3>2, <3>3 DEF IsNext
    <3>5. AddPoint(p)
      <4>1. ~RefusePart
        BY <2>3 DEF RefusePart, PointTypes, PolylineTypes, PolygonTypes
      <4>2. \A m, vs, mem : ~Lays(p, m, vs, mem)
        BY <2>3 DEF Lays, RoomFor
      <4> QED
        BY <3>3, <4>1, <4>2
    <3>6. RecordThere(shp', Content, parts, 1)
      BY <1>3, <3>4, <3>5, PointLaid
    <3> QED
      BY <1>1, <1>9, <3>2, <3>6
  <2> QED
    BY <2>2, <2>3
<1>11. ASSUME NEW k \in 1..n
       PROVE  /\ type' \in PointTypes => Len(given'[k]) =< 1
              /\ calls'[k] \in 1..Len(given'[k]) =>
                   RecordThere(shp, RecordAt(k) + 8, given[k], calls[k])'
              /\ k < n /\ given'[k] /= << >> /\ calls'[k] = Len(given'[k]) =>
                   RecordEnd(RecordAt(k) + 8, given[k])' =< feat'.rec
  <2>1. type' \in PointTypes => Len(given'[k]) =< 1
    BY <1>1, <1>4 DEF ReadInv
  <2>2. ASSUME calls'[k] \in 1..Len(given'[k])
        PROVE  RecordThere(shp, RecordAt(k) + 8, given[k], calls[k])'
    <3>1. PICK c, ps, d : c = RecordAt(k) + 8 /\ ps = given[k] /\ d = calls'[k]
      OBVIOUS
    <3>2. RecordThere(new, c, ps, d)
      <4>1. CASE k = n
        <5>1. d = done + 1 /\ ps = parts /\ c = RecordAt(n) + 8 /\ done + 1 \in 1..Len(parts)
          BY <1>4, <1>7, <2>2, <3>1, <4>1
        <5> QED
          BY <1>10, <5>1
      <4>2. CASE k \in 1 .. n-1
        <5>1. d = calls[k] /\ calls[k] \in 1..Len(given[k])
          BY <1>4, <2>2, <3>1, <4>2
        <5>2. RecordThere(new, RecordAt(k) + 8, given[k], calls[k])
          BY <1>1, <1>6, <4>2, <5>1, EarlierKept
        <5> QED
          BY <3>1, <5>1, <5>2
      <4> QED
        BY <1>3, <4>1, <4>2
    <3>3. c = RecordAt(k)' + 8 /\ ps = given'[k] /\ d = calls'[k]
      BY <1>4, <1>5, <3>1
    <3> QED
      BY <1>1, <1>4, <3>2, <3>3, RecordPrimed
  <2>3. ASSUME k < n, given'[k] /= << >>, calls'[k] = Len(given'[k])
        PROVE  RecordEnd(RecordAt(k) + 8, given[k])' =< feat'.rec
    <3>1. PICK c, ps : c = RecordAt(k) + 8 /\ ps = given[k]
      OBVIOUS
    <3>2. k \in 1 .. n-1
      BY <1>3, <2>3
    <3>3. RecordEnd(c, ps) =< feat.rec
      BY <1>1, <1>4, <2>3, <3>1, <3>2 DEF ReadInv
    <3>4. c = RecordAt(k)' + 8 /\ ps = given'[k]
      BY <1>4, <1>5, <3>1
    <3>5. RecordEnd(RecordAt(k) + 8, given[k])' =< feat.rec
      BY <1>4, <3>3, <3>4, EndPrimed
    <3> QED
      BY <1>4, <3>5
  <2> QED
    BY <2>1, <2>2, <2>3
<1> QED
  BY <1>1, <1>4, <1>11 DEF ReadInv

LEMMA ReadSame ==
  ASSUME ReadInv, UNCHANGED <<type, shp, shx, feat, given, calls>>
  PROVE  ReadInv'
<1>1. PICK n, new : n = Len(given) /\ new = shp'
  OBVIOUS
<1>2. \A k : RecordAt(k)' = RecordAt(k)
  BY DEF RecordAt
<1>3. ASSUME NEW k \in 1..n
      PROVE  /\ type' \in PointTypes => Len(given'[k]) =< 1
             /\ calls'[k] \in 1..Len(given'[k]) =>
                  RecordThere(shp, RecordAt(k) + 8, given[k], calls[k])'
             /\ k < n /\ given'[k] /= << >> /\ calls'[k] = Len(given'[k]) =>
                  RecordEnd(RecordAt(k) + 8, given[k])' =< feat'.rec
  <2>1. PICK c, ps, done, hi : c = RecordAt(k) + 8 /\ ps = given[k] /\ done = calls[k] /\ hi = feat.rec
    OBVIOUS
  <2>2. c = RecordAt(k)' + 8 /\ ps = given'[k] /\ done = calls'[k] /\ type' = type /\ new = shp'
    BY <1>1, <1>2, <2>1
  <2>3. RecordThere(new, c, ps, done) => RecordThere(shp, RecordAt(k) + 8, given[k], calls[k])'
    BY <2>2, RecordPrimed
  <2>4. RecordEnd(c, ps) =< hi => RecordEnd(RecordAt(k) + 8, given[k])' =< hi
    BY <2>2, EndPrimed
  <2>5. /\ type \in PointTypes => Len(ps) =< 1
        /\ done \in 1..Len(ps) => RecordThere(new, c, ps, done)
        /\ k < n /\ ps /= << >> /\ done = Len(ps) => RecordEnd(c, ps) =< hi
    BY <1>1, <2>1 DEF ReadInv
  <2> QED
    BY <2>1, <2>3, <2>4, <2>5
<1> QED
  BY <1>1, <1>3 DEF ReadInv

LEMMA ReadInvariant == ShpSpec => []ReadInv
<1>1. ASSUME Init
      PROVE  ReadInv
  BY <1>1 DEF Init, ReadInv
<1>2. ASSUME ShpInv, ReadInv, [Next]_shpVars
      PROVE  ReadInv'
  <2>1. ASSUME NEW len \in {1, 8}, CreateField(len)
        PROVE  ReadInv'
    <3>1. UNCHANGED <<type, shp, shx, feat, given, calls>>
      BY <2>1 DEF CreateField
    <3> QED
      BY <1>2, <3>1, ReadSame
  <2>2. ASSUME NEW parts \in Features, AddFeature(parts)
        PROVE  ReadInv'
    BY <1>2, <2>2, ReadFeature
  <2>3. CASE AddPart
    BY <1>2, <2>3, ReadPart
  <2>4. CASE Saved \/ UNCHANGED shpVars
    <3>1. UNCHANGED <<type, shp, shx, feat, given, calls>>
      BY <2>4 DEF Saved, shpVars
    <3> QED
      BY <1>2, <3>1, ReadSame
  <2> QED
    BY <1>2, <2>1, <2>2, <2>3, <2>4 DEF Next
<1> QED
  BY <1>1, <1>2, ShpInvariant, PTL DEF ShpSpec

-------------------------------------------------------------------------------

\* The first i sequences of ss, of these sizes, one behind the other are s.
Pieces(s, ss, sizes, i) ==
  /\ Len(s) = SumTo(sizes, i)
  /\ \A j \in 1..Len(s) : \E m \in 1..i : \E l \in 1..sizes[m] :
       j = SumTo(sizes, m - 1) + l /\ s[j] = ss[m][l]

LEMMA OnePieceMore ==
  ASSUME NEW T, NEW ss, NEW sizes \in Seq(Nat), NEW i \in Nat, i + 1 =< Len(sizes),
         NEW s \in Seq(T), Pieces(s, ss, sizes, i), NEW e \in Seq(T), e = ss[i+1],
         Len(e) = sizes[i+1]
  PROVE  Pieces(s \o e, ss, sizes, i + 1)
<1>1. PICK n \in Nat, m \in Nat : n = Len(s) /\ m = Len(e)
  OBVIOUS
<1>2. PICK r : r = s \o e
  OBVIOUS
<1>3. /\ Len(r) = n + m
      /\ \A j \in 1 .. n+m : r[j] = IF j =< n THEN s[j] ELSE e[j - n]
  <2>1. /\ Len(s \o e) = Len(s) + Len(e)
        /\ \A j \in 1 .. Len(s) + Len(e) : (s \o e)[j] = IF j <= Len(s) THEN s[j] ELSE e[j - Len(s)]
    BY ConcatProperties
  <2> QED
    BY <1>1, <1>2, <2>1
<1>4. n = SumTo(sizes, i) /\ SumTo(sizes, i + 1) = n + m
  <2>1. i + 1 \in 1..Len(sizes) /\ (i + 1) - 1 = i
    OBVIOUS
  <2>2. SumTo(sizes, i + 1) = SumTo(sizes, i) + sizes[i+1]
    BY <2>1, SumFacts
  <2> QED
    BY <1>1, <2>2 DEF Pieces
<1>5. ASSUME NEW j \in 1 .. n+m
      PROVE  \E p \in 1 .. i+1 : \E l \in 1..sizes[p] :
               j = SumTo(sizes, p - 1) + l /\ r[j] = ss[p][l]
  <2>1. CASE j =< n
    <3>1. j \in 1..Len(s) /\ r[j] = s[j]
      BY <1>1, <1>3, <2>1
    <3>2. PICK p \in 1..i : \E l \in 1..sizes[p] : j = SumTo(sizes, p - 1) + l /\ s[j] = ss[p][l]
      BY <3>1 DEF Pieces
    <3>3. p \in 1 .. i+1
      OBVIOUS
    <3> QED
      BY <3>1, <3>2, <3>3
  <2>2. CASE j > n
    <3>1. PICK l \in 1..m : l = j - n
      <4>1. j - n \in 1..m
        BY <1>1, <2>2
      <4> QED
        BY <4>1
    <3>2. r[j] = e[l] /\ j = n + l
      BY <1>1, <1>3, <2>2, <3>1
    <3>3. l \in 1..sizes[i+1] /\ i + 1 \in 1 .. i+1 /\ SumTo(sizes, (i + 1) - 1) = n
      <4>1. (i + 1) - 1 = i
        OBVIOUS
      <4> QED
        BY <1>1, <1>4, <4>1
    <3> QED
      BY <3>2, <3>3
  <2> QED
    BY <1>1, <2>1, <2>2
<1> QED
  BY <1>2, <1>3, <1>4, <1>5 DEF Pieces

\* g has the values that follow from the first by G.
Follows(g, D, first, G) ==
  g \in [Nat -> D] /\ g[0] = first /\ \A k \in Nat : g[k+1] = G[<<k, g[k]>>]

LEMMA Followed ==
  ASSUME NEW D, NEW first \in D, NEW G, Steps(G, D)
  PROVE  \E g : Follows(g, D, first, G)
BY Recursion DEF Follows

\* What FlattenSeq() makes of sequences.
LEMMA Flattened ==
  ASSUME NEW T, NEW ss \in Seq(Seq(T)), NEW sizes \in Seq(Nat), ss /= << >>,
         Len(sizes) = Len(ss), \A i \in 1..Len(ss) : Len(ss[i]) = sizes[i]
  PROVE  FlattenSeq(ss) \in Seq(T) /\ Pieces(FlattenSeq(ss), ss, sizes, Len(ss))
<1>1. PICK n \in Nat \ {0} : n = Len(ss)
  OBVIOUS
<1>2. PICK D : D = Seq(T)
  OBVIOUS
<1>3. \A i \in 1..n : ss[i] \in D
  BY <1>1, <1>2
<1> DEFINE Flat(f) == f = [i \in 1..Len(ss) |-> IF i = 1 THEN ss[i] ELSE f[i-1] \o ss[i]]
<1>4. PICK G : G = [p \in Nat \X D |-> p[2] \o (IF p[1] + 2 =< n THEN ss[p[1] + 2] ELSE << >>)]
  OBVIOUS
<1>5. \A k \in Nat, x \in D : G[<<k, x>>] = x \o (IF k + 2 =< n THEN ss[k+2] ELSE << >>)
  BY <1>4
<1>6. Steps(G, D)
  <2> SUFFICES ASSUME NEW k \in Nat, NEW x \in D
               PROVE  G[<<k, x>>] \in D
    BY DEF Steps
  <2>1. PICK e : e = IF k + 2 =< n THEN ss[k+2] ELSE << >>
    OBVIOUS
  <2>2. e \in Seq(T)
    BY <1>2, <1>3, <2>1
  <2>3. x \o e \in Seq(T)
    BY <1>2, <2>2
  <2> QED
    BY <1>2, <1>5, <2>1, <2>3
<1>7. PICK first : first = ss[1]
  OBVIOUS
<1>8. first \in D
  BY <1>3, <1>7
<1>9. PICK g : g \in [Nat -> D] /\ g[0] = first /\ \A k \in Nat : g[k+1] = G[<<k, g[k]>>]
  <2>1. first \in D /\ Steps(G, D)
    BY <1>6, <1>8
  <2>2. \E g : Follows(g, D, first, G)
    BY <2>1, Followed, Zenon
  <2> QED
    BY <2>2 DEF Follows
<1>10. ASSUME NEW i \in 1..n, i /= 1
       PROVE  g[i-1] = g[i-2] \o ss[i]
  <2>1. PICK k \in Nat : k = i - 2
    <3>1. i - 2 \in Nat
      BY <1>10
    <3> QED
      BY <3>1
  <2>2. k + 1 = i - 1 /\ k + 2 = i /\ k + 2 =< n
    BY <2>1
  <2>3. g[k+1] = G[<<k, g[k]>>] /\ g[k] \in D
    BY <1>9
  <2>4. G[<<k, g[k]>>] = g[k] \o ss[k+2]
    BY <1>5, <2>2, <2>3
  <2> QED
    BY <2>1, <2>2, <2>3, <2>4
<1>11. PICK f : f = [i \in 1..n |-> g[i-1]]
  OBVIOUS
<1>12. Flat(f)
  <2>1. ASSUME NEW i \in 1..n
        PROVE  g[i-1] = IF i = 1 THEN ss[i] ELSE f[i-1] \o ss[i]
    <3>1. CASE i = 1
      BY <1>7, <1>9, <3>1
    <3>2. CASE i /= 1
      <4>1. i - 1 \in 1..n /\ (i - 1) - 1 = i - 2
        BY <3>2
      <4>2. f[i-1] = g[i-2]
        BY <1>11, <4>1
      <4> QED
        BY <1>10, <3>2, <4>2
    <3> QED
      BY <3>1, <3>2
  <2> QED
    BY <1>1, <1>11, <2>1
<1>13. PICK flat : flat = CHOOSE h : Flat(h)
  OBVIOUS
<1>14. Flat(flat)
  BY <1>12, <1>13
<1>15. FlattenSeq(ss) = flat[n]
  <2>1. Len(ss) /= 0
    BY <1>1
  <2> QED
    BY <1>1, <1>13, <2>1 DEF FlattenSeq
<1> HIDE DEF Flat
<1>16. flat[1] = ss[1] /\ \A i \in 1..n : i /= 1 => flat[i] = flat[i-1] \o ss[i]
  <2>1. PICK h : h = [i \in 1..n |-> IF i = 1 THEN ss[i] ELSE flat[i-1] \o ss[i]]
    OBVIOUS
  <2>2. flat = h
    BY <1>1, <1>14, <2>1 DEF Flat
  <2>3. \A i \in 1..n : h[i] = IF i = 1 THEN ss[i] ELSE flat[i-1] \o ss[i]
    BY <2>1
  <2>4. 1 \in 1..n
    OBVIOUS
  <2> QED
    BY <2>2, <2>3, <2>4
<1> DEFINE S == {k \in Nat : k < n => flat[k+1] \in D /\ Pieces(flat[k+1], ss, sizes, k + 1)}
<1>17. 0 \in S
  <2>1. Pieces(flat[1], ss, sizes, 1)
    <3>1. PICK e : e = flat[1] /\ e = ss[1]
      BY <1>16
    <3>2. PICK m \in Nat : m = Len(e) /\ m = sizes[1]
      <4>1. e \in Seq(T) /\ Len(e) = sizes[1]
        BY <1>1, <1>2, <1>3, <3>1
      <4> QED
        BY <4>1
    <3>3. SumTo(sizes, 0) = 0 /\ SumTo(sizes, 1) = m
      <4>1. 1 \in 1..Len(sizes) /\ 1 - 1 = 0
        BY <1>1
      <4>2. SumTo(sizes, 0) = 0 /\ SumTo(sizes, 1) = SumTo(sizes, 1 - 1) + sizes[1]
        BY <4>1, SumFacts
      <4> QED
        BY <3>2, <4>1, <4>2
    <3>4. ASSUME NEW j \in 1..m
          PROVE  \E p \in 1..1 : \E l \in 1..sizes[p] : j = SumTo(sizes, p - 1) + l /\ e[j] = ss[p][l]
      <4>1. j = SumTo(sizes, 1 - 1) + j /\ e[j] = ss[1][j] /\ j \in 1..sizes[1] /\ 1 \in 1..1
        BY <3>1, <3>2, <3>3
      <4> QED
        BY <4>1
    <3> QED
      BY <3>1, <3>2, <3>3, <3>4 DEF Pieces
  <2> QED
    BY <1>3, <1>16, <2>1
<1>18. ASSUME NEW k \in Nat, k \in S
       PROVE  k + 1 \in S
  <2> SUFFICES ASSUME k + 1 < n
               PROVE  flat[(k+1)+1] \in D /\ Pieces(flat[(k+1)+1], ss, sizes, (k + 1) + 1)
    OBVIOUS
  <2>1. PICK i \in Nat : i = k + 1
    OBVIOUS
  <2>2. PICK s, e : s = flat[i] /\ e = ss[i+1]
    OBVIOUS
  <2>3. s \in Seq(T) /\ Pieces(s, ss, sizes, i)
    BY <1>2, <1>18, <2>1, <2>2
  <2>4. i + 1 \in 1..n /\ i + 1 /= 1 /\ (i + 1) - 1 = i /\ i + 1 =< Len(sizes)
    BY <1>1, <2>1
  <2>5. e \in Seq(T) /\ Len(e) = sizes[i+1]
    BY <1>1, <1>2, <1>3, <2>2, <2>4
  <2>6. flat[i+1] = s \o e
    BY <1>16, <2>2, <2>4
  <2>7. Pieces(s \o e, ss, sizes, i + 1)
    BY <2>2, <2>3, <2>4, <2>5, OnePieceMore
  <2>8. s \o e \in Seq(T)
    BY <2>3, <2>5
  <2> QED
    BY <1>2, <2>1, <2>6, <2>7, <2>8
<1> HIDE DEF S
<1>19. \A k \in Nat : k \in S
  BY <1>17, <1>18, Induction
<1>20. n - 1 \in Nat /\ n - 1 < n /\ (n - 1) + 1 = n
  OBVIOUS
<1>21. n - 1 \in S
  BY <1>19, <1>20
<1>22. flat[(n-1)+1] \in D /\ Pieces(flat[(n-1)+1], ss, sizes, (n - 1) + 1)
  BY <1>20, <1>21 DEF S
<1> QED
  BY <1>1, <1>2, <1>15, <1>20, <1>22

\* What the type keeps of the vertex v of the part p, and what is read of vertex g.
KeptVertex(p, v) ==
  <<v[1], v[2], IF HasZ(type) /\ p.hasZ THEN v[3] ELSE NoData,
                IF HasM(type) /\ p.hasM THEN v[4] ELSE NoData>>

ReadVertex(xy, z, mb, g) ==
  <<At(shp, xy + 16 * g), At(shp, xy + 16 * g + 8),
    IF HasZ(type) THEN At(shp, z + 16 + 8 * g) ELSE NoData,
    IF HasM(type) THEN At(shp, mb + 16 + 8 * g) ELSE NoData>>

LEMMA VertexRead ==
  ASSUME NEW xy, NEW z, NEW mb, NEW g, NEW v, NEW p, VertexThere(shp, type, xy, z, mb, g, v, p)
  PROVE  ReadVertex(xy, z, mb, g) = KeptVertex(p, v)
<1>1. /\ At(shp, xy + 16 * g) = v[1] /\ At(shp, xy + 16 * g + 8) = v[2]
      /\ HasZ(type) => At(shp, z + 16 + 8 * g) = IF p.hasZ THEN v[3] ELSE NoData
      /\ HasM(type) => At(shp, mb + 16 + 8 * g) = IF p.hasM THEN v[4] ELSE NoData
  BY DEF VertexThere
<1>2. (IF HasZ(type) THEN At(shp, z + 16 + 8 * g) ELSE NoData)
        = IF HasZ(type) /\ p.hasZ THEN v[3] ELSE NoData
  BY <1>1
<1>3. (IF HasM(type) THEN At(shp, mb + 16 + 8 * g) ELSE NoData)
        = IF HasM(type) /\ p.hasM THEN v[4] ELSE NoData
  BY <1>1
<1> QED
  BY <1>1, <1>2, <1>3 DEF ReadVertex, KeptVertex

\* The vertices of the part p, from index "first" on, when they are vs.
LEMMA VerticesRead ==
  ASSUME NEW c, NEW parts, NEW p, NEW first, NEW vs, NEW m \in Nat, m = Len(p.verts),
         VerticesThere(shp, c, parts, p, first, vs), NEW n, n = Len(parts), NEW np, np = Total(parts)
  PROVE  [j \in 1..m |-> ReadVertex(PointsAt(type, c, n), ZBlockAt(type, c, n, np),
                                    MBlockAt(type, c, n, np), first + j - 1)]
           = [j \in 1..m |-> KeptVertex(p, vs[j])]
<1>1. PICK xy, z, mb : /\ xy = PointsAt(type, c, n) /\ z = ZBlockAt(type, c, n, np)
                       /\ mb = MBlockAt(type, c, n, np)
  OBVIOUS
<1>2. \A j \in 1..m : VertexThere(shp, type, xy, z, mb, first + j - 1, vs[j], p)
  BY <1>1 DEF VerticesThere
<1>3. \A j \in 1..m : ReadVertex(xy, z, mb, first + j - 1) = KeptVertex(p, vs[j])
  BY <1>2, VertexRead
<1> QED
  BY <1>1, <1>3

\* What is kept of a part, and of a ring that is reversed.
LEMMA KeptFacts ==
  ASSUME type \in Types, NEW p \in Parts[type], NEW m, m = Len(p.verts)
  PROVE  /\ m \in Nat \ {0} /\ DOMAIN Kept(p).verts = 1..m /\ Len(Kept(p).verts) = m
         /\ Kept(p).verts = [j \in 1..m |-> KeptVertex(p, p.verts[j])]
         /\ Reverse(Kept(p).verts) = [j \in 1..m |-> KeptVertex(p, Reverse(p.verts)[j])]
<1>1. PICK vs : vs = p.verts
  OBVIOUS
<1>2. m \in Nat \ {0} /\ DOMAIN vs = 1..m /\ Len(vs) = m
  BY <1>1, PartFacts DEF Vertices
<1>3. PICK ks : ks = [j \in 1..m |-> KeptVertex(p, vs[j])]
  OBVIOUS
<1>4. Kept(p).verts = ks
  BY <1>1, <1>2, <1>3 DEF Kept, KeptVertex
<1>5. DOMAIN ks = 1..m /\ Len(ks) = m
  BY <1>2, <1>3
<1>6. Reverse(ks) = [j \in 1..m |-> ks[(m - j) + 1]]
  BY <1>2, <1>5 DEF Reverse
<1>7. \A j \in 1..m : ks[(m - j) + 1] = KeptVertex(p, Reverse(vs)[j])
  <2> SUFFICES ASSUME NEW j \in 1..m
               PROVE  ks[(m - j) + 1] = KeptVertex(p, Reverse(vs)[j])
    OBVIOUS
  <2>1. (m - j) + 1 \in 1..m
    BY <1>2
  <2>2. ks[(m - j) + 1] = KeptVertex(p, vs[(m - j) + 1])
    BY <1>3, <2>1
  <2>3. Reverse(vs)[j] = vs[(m - j) + 1]
    BY <1>2 DEF Reverse
  <2> QED
    BY <2>2, <2>3
<1>8. Reverse(ks) = [j \in 1..m |-> KeptVertex(p, Reverse(vs)[j])]
  BY <1>6, <1>7
<1> QED
  BY <1>1, <1>2, <1>3, <1>4, <1>5, <1>8

\* GetGeometry() of what is not a point.
LEMMA GeometryRead ==
  ASSUME NEW k, NEW i, NEW c, NEW n, NEW np, NEW xy, NEW z, NEW mb, NEW first, NEW end,
         c = ContentOf(k), TypeOf(k) = type, type \notin PointTypes,
         n = NumPartsOf(k), np = NumPointsOf(k), xy = PointsAt(type, c, n),
         z = ZBlockAt(type, c, n, np), mb = MBlockAt(type, c, n, np),
         first = IF type \in MultiPointTypes THEN 0 ELSE At(shp, PartsAt(c) + 4 * (i - 1)),
         end = IF type \in MultiPointTypes THEN np ELSE EndOfPart(c, i, n, np)
  PROVE  GetGeometry(k, i) =
           [type |-> IF type = MultiPatch THEN At(shp, PatchTypesAt(c, n) + 4 * (i - 1)) ELSE 0,
            verts |-> [j \in 1 .. end - first |-> ReadVertex(xy, z, mb, first + j - 1)]]
BY DEF GetGeometry, ReadVertex

\* What FeaturesReadBack says of feature k.
IsReadBack(k) ==
  /\ NumPartsOf(k) = Len(Expected(k))
  /\ \A i \in DOMAIN Expected(k) :
       LET read == GetGeometry(k, i)
           want == Expected(k)[i]
       IN  \/ read = want
           \/ type \in PolygonTypes /\ read = [want EXCEPT !.verts = Reverse(@)]

LEMMA OnlyOne ==
  ASSUME NEW n \in Nat \ {0}, n =< 1
  PROVE  n = 1
OBVIOUS

LEMMA WholeFacts ==
  ASSUME ShpInv, ReadInv, NEW k \in Whole, NEW parts, parts = given[k], NEW c, c = ContentOf(k),
         NEW n, n = Len(parts)
  PROVE  /\ n \in Nat \ {0} /\ parts \in Seq(Parts[type]) /\ DOMAIN parts = 1..n
         /\ \A i \in 1..n : parts[i] \in Parts[type]
         /\ type \in Types /\ type \in ShpType /\ c \in Nat /\ (type \in PointTypes => n = 1)
         /\ TypeOf(k) = type /\ RecordThere(shp, c, parts, n)
<1>1. PICK m : m = Len(given)
  OBVIOUS
<1>2. k \in 1..m /\ parts /= << >> /\ calls[k] = n
  <2>1. PICK S : S = Seq(Parts[type])
    OBVIOUS
  <2>2. given \in Seq(S)
    BY <2>1 DEF ShpInv, CallsInv
  <2>3. DOMAIN given = 1..m
    BY <1>1, <2>2
  <2> QED
    BY <2>3 DEF Whole
<1>3. parts \in Seq(Parts[type]) /\ n \in Nat /\ type \in Types /\ RecordAt(k) \in Nat
  BY <1>1, <1>2, RecordFacts
<1>4. n \in Nat \ {0} /\ DOMAIN parts = 1..n /\ \A i \in 1..n : parts[i] \in Parts[type]
  BY <1>2, <1>3
<1>5. type \in ShpType
  BY <1>3, InputAssumption
<1>6. c = RecordAt(k) + 8
  BY DEF ContentOf, RecordAt, RecordSize
<1>7. RecordThere(shp, c, parts, n) /\ (type \in PointTypes => n =< 1)
  BY <1>1, <1>2, <1>4, <1>6 DEF ReadInv
<1>8. TypeOf(k) = type
  BY <1>7 DEF RecordThere, TypeOf
<1>9. c \in Nat
  BY <1>3, <1>6
<1>10. ASSUME type \in PointTypes
       PROVE  n = 1
  <2>1. n \in Nat \ {0} /\ n =< 1
    BY <1>4, <1>7, <1>10, Zenon
  <2> QED
    BY <2>1, OnlyOne, Zenon
<1> QED
  BY <1>3, <1>4, <1>5, <1>7, <1>8, <1>9, <1>10, Zenon

LEMMA PointReadBack ==
  ASSUME ShpInv, ReadInv, NEW k \in Whole, type \in PointTypes
  PROVE  IsReadBack(k)
<1>1. PICK parts, c, p, v : /\ parts = given[k] /\ c = ContentOf(k) /\ p = parts[1]
                            /\ v = p.verts[1]
  OBVIOUS
<1>2. /\ Len(parts) = 1 /\ DOMAIN parts = 1..1
      /\ p \in Parts[type] /\ type \in Types /\ c \in Nat /\ TypeOf(k) = type
      /\ RecordThere(shp, c, parts, 1)
  <2>1. PICK n : n = Len(parts)
    OBVIOUS
  <2>2. /\ DOMAIN parts = 1..n /\ n = 1 /\ \A i \in 1..n : parts[i] \in Parts[type]
        /\ type \in Types /\ c \in Nat /\ TypeOf(k) = type /\ RecordThere(shp, c, parts, n)
    BY <1>1, <2>1, WholeFacts
  <2>3. 1 \in 1..n
    BY <2>2
  <2> QED
    BY <1>1, <2>1, <2>2, <2>3
<1>3. p.hasZ /\ p.hasM /\ Len(p.verts) = 1
  <2>1. type /= MultiPatch
    BY DEF PointTypes, MultiPatch
  <2> QED
    BY <1>2, <2>1, InputAssumption
<1>4. PointThere(shp, c, v)
  BY <1>1, <1>2 DEF RecordThere
<1>5. PICK vs : vs = <<KeptVertex(p, v)>>
  OBVIOUS
<1>6. GetPoint(k) = [type |-> 0, verts |-> vs]
  <2>1. /\ At(shp, c + 4 + 8 * 0) = v[1] /\ At(shp, c + 4 + 8 * 1) = v[2]
        /\ HasZ(type) => At(shp, c + 4 + 8 * 2) = v[3] /\ At(shp, c + 4 + 8 * 3) = v[4]
        /\ HasM(type) /\ ~HasZ(type) => At(shp, c + 4 + 8 * 2) = v[4]
    <3>1. /\ c + 4 + 8 * 0 = c + 4 /\ c + 4 + 8 * 1 = c + 12
          /\ c + 4 + 8 * 2 = c + 20 /\ c + 4 + 8 * 3 = c + 28
      BY <1>2
    <3> QED
      BY <1>4, <3>1 DEF PointThere
  <2>2. HasZ(type) => HasM(type)
    BY DEF HasM
  <2>3. GetPoint(k) =
          [type |-> 0,
           verts |-> << <<At(shp, c + 4 + 8 * 0), At(shp, c + 4 + 8 * 1),
                          IF HasZ(type) THEN At(shp, c + 4 + 8 * 2) ELSE NoData,
                          IF ~HasM(type) THEN NoData
                          ELSE IF HasZ(type) THEN At(shp, c + 4 + 8 * 3)
                          ELSE At(shp, c + 4 + 8 * 2)>> >>]
    BY <1>1, <1>2 DEF GetPoint
  <2>4. (IF HasZ(type) THEN At(shp, c + 4 + 8 * 2) ELSE NoData)
          = IF HasZ(type) /\ p.hasZ THEN v[3] ELSE NoData
    BY <1>3, <2>1
  <2>5. (IF ~HasM(type) THEN NoData
         ELSE IF HasZ(type) THEN At(shp, c + 4 + 8 * 3) ELSE At(shp, c + 4 + 8 * 2))
          = IF HasM(type) /\ p.hasM THEN v[4] ELSE NoData
    BY <1>3, <2>1, <2>2
  <2> QED
    BY <1>5, <2>1, <2>3, <2>4, <2>5 DEF KeptVertex
<1>7. Kept(p) = [type |-> 0, verts |-> vs]
  <2>1. Kept(p).verts = [j \in 1..1 |-> KeptVertex(p, p.verts[j])]
    BY <1>2, <1>3, KeptFacts
  <2>2. Kept(p).verts = vs
    BY <1>1, <1>5, <2>1
  <2>3. type /= MultiPatch
    BY DEF PointTypes, MultiPatch
  <2> QED
    BY <2>2, <2>3 DEF Kept
<1>8. Expected(k) = [i \in 1..1 |-> Kept(parts[i])]
  <2>1. type \notin MultiPointTypes
    BY DEF PointTypes, MultiPointTypes
  <2> QED
    BY <1>1, <1>2, <2>1 DEF Expected
<1>9. Len(Expected(k)) = 1 /\ DOMAIN Expected(k) = {1} /\ Expected(k)[1] = Kept(p)
  BY <1>1, <1>8
<1>10. NumPartsOf(k) = 1
  BY <1>2 DEF NumPartsOf, PointTypes
<1>11. GetGeometry(k, 1) = GetPoint(k)
  BY <1>2 DEF GetGeometry
<1> QED
  BY <1>6, <1>7, <1>9, <1>10, <1>11 DEF IsReadBack

\* The parts of a record that has all of them begin and end where the sizes say.
LEMMA PartIndex ==
  ASSUME type \in Types, type \in ShpType \ (PointTypes \cup MultiPointTypes), NEW c \in Nat,
         NEW parts \in Seq(Parts[type]), NEW n \in Nat \ {0}, n = Len(parts), NEW i \in 1..n,
         RecordThere(shp, c, parts, n), NEW m, m = Len(parts[i].verts), NEW first,
         first = At(shp, PartsAt(c) + 4 * (i - 1)), NEW np, np = Total(parts)
  PROVE  /\ first = SumTo(Sizes(parts), i - 1) /\ first \in Nat /\ m \in Nat
         /\ EndOfPart(c, i, n, np) - first = m
<1>1. PICK s : s = Sizes(parts)
  OBVIOUS
<1>2. /\ SumTo(s, i - 1) \in Nat /\ SumTo(s, i) = SumTo(s, i - 1) + m /\ m \in Nat
  <2>1. /\ \A k \in 0 .. Len(parts) : SumTo(s, k) \in Nat
        /\ \A k \in 1 .. Len(parts) : SumTo(s, k) = SumTo(s, k-1) + Len(parts[k].verts)
    BY <1>1, SizesFacts
  <2>2. i - 1 \in 0 .. Len(parts) /\ i \in 1 .. Len(parts)
    OBVIOUS
  <2>3. parts[i] \in Parts[type]
    BY <2>2
  <2>4. m \in Nat
    BY <2>3, PartFacts
  <2> QED
    BY <2>1, <2>2, <2>4
<1>3. \A k \in 1..n : At(shp, PartsAt(c) + 4 * (k - 1)) = SumTo(s, k - 1)
  <2> SUFFICES ASSUME NEW k \in 1..n
               PROVE  At(shp, PartsAt(c) + 4 * (k - 1)) = SumTo(s, k - 1)
    OBVIOUS
  <2>1. PartThere(shp, c, parts, k)
    BY DEF RecordThere
  <2> QED
    BY <1>1, <2>1 DEF PartThere, Noted
<1>4. first = SumTo(s, i - 1)
  BY <1>3
<1>5. EndOfPart(c, i, n, np) = SumTo(s, i)
  <2>1. CASE i = n
    BY <1>1, <2>1 DEF EndOfPart, Total
  <2>2. CASE i /= n
    <3>1. PICK k \in 1..n : k = i + 1 /\ k - 1 = i
      <4>1. i + 1 \in 1..n /\ (i + 1) - 1 = i
        BY <2>2
      <4> QED
        BY <4>1
    <3>2. At(shp, PartsAt(c) + 4 * i) = SumTo(s, i)
      BY <1>3, <3>1
    <3> QED
      BY <2>2, <3>2 DEF EndOfPart
  <2> QED
    BY <2>1, <2>2
<1> QED
  BY <1>1, <1>2, <1>4, <1>5

LEMMA PartReadBack ==
  ASSUME ShpInv, ReadInv, NEW k \in Whole, type \notin PointTypes, type \notin MultiPointTypes
  PROVE  IsReadBack(k)
<1>1. PICK parts, c, n, np : /\ parts = given[k] /\ c = ContentOf(k) /\ n = Len(parts)
                             /\ np = Total(parts)
  OBVIOUS
<1>2. /\ n \in Nat \ {0} /\ parts \in Seq(Parts[type]) /\ DOMAIN parts = 1..n
      /\ \A i \in 1..n : parts[i] \in Parts[type]
      /\ type \in Types /\ type \in ShpType /\ c \in Nat /\ TypeOf(k) = type
      /\ RecordThere(shp, c, parts, n)
  BY <1>1, WholeFacts
<1>3. NumPartsOf(k) = n /\ NumPointsOf(k) = np
  <2>1. At(shp, NumPointsAt(type, c)) = np /\ At(shp, NumPartsAt(c)) = n
    BY <1>1, <1>2 DEF RecordThere, Total
  <2>2. type /= 0
    BY <1>2 DEF ShpType, PointTypes, MultiPointTypes, PolylineTypes, PolygonTypes, MultiPatch
  <2> QED
    BY <1>1, <1>2, <2>1, <2>2 DEF NumPartsOf, NumPointsOf
<1>4. PICK want : want = [i \in 1..n |-> Kept(parts[i])]
  OBVIOUS
<1>5. Expected(k) = want /\ Len(want) = n /\ DOMAIN want = 1..n
  BY <1>1, <1>2, <1>4 DEF Expected
<1>6. ASSUME NEW i \in 1..n
      PROVE  \/ GetGeometry(k, i) = want[i]
             \/ /\ type \in PolygonTypes
                /\ GetGeometry(k, i) = [want[i] EXCEPT !.verts = Reverse(@)]
  <2>1. PICK p, m, first, end : /\ p = parts[i] /\ m = Len(p.verts)
                                /\ first = At(shp, PartsAt(c) + 4 * (i - 1))
                                /\ end = EndOfPart(c, i, n, np)
    OBVIOUS
  <2>2. PICK xy, z, mb : /\ xy = PointsAt(type, c, n) /\ z = ZBlockAt(type, c, n, np)
                         /\ mb = MBlockAt(type, c, n, np)
    OBVIOUS
  <2>3. first = SumTo(Sizes(parts), i - 1) /\ end - first = m
    <3>1. /\ type \in Types /\ type \in ShpType \ (PointTypes \cup MultiPointTypes) /\ c \in Nat
          /\ parts \in Seq(Parts[type]) /\ n \in Nat \ {0} /\ n = Len(parts) /\ i \in 1..n
          /\ RecordThere(shp, c, parts, n) /\ np = Total(parts)
          /\ m = Len(parts[i].verts) /\ first = At(shp, PartsAt(c) + 4 * (i - 1))
      BY <1>1, <1>2, <2>1
    <3>2. first = SumTo(Sizes(parts), i - 1) /\ EndOfPart(c, i, n, np) - first = m
      BY <3>1, PartIndex
    <3> QED
      BY <2>1, <3>2
  <2>4. PartThere(shp, c, parts, i)
    BY <1>2 DEF RecordThere
  <2>5. PICK vs : Meant(p, vs) /\ VerticesThere(shp, c, parts, p, first, vs)
    BY <2>1, <2>3, <2>4 DEF PartThere
  <2>6. p \in Parts[type] /\ want[i] = Kept(p)
    BY <1>2, <1>4, <2>1
  <2>7. /\ m \in Nat \ {0} /\ Kept(p).verts = [j \in 1..m |-> KeptVertex(p, p.verts[j])]
        /\ Reverse(Kept(p).verts) = [j \in 1..m |-> KeptVertex(p, Reverse(p.verts)[j])]
    BY <1>2, <2>1, <2>6, KeptFacts
  <2>8. [j \in 1..m |-> ReadVertex(xy, z, mb, first + j - 1)] = [j \in 1..m |-> KeptVertex(p, vs[j])]
    BY <1>1, <2>1, <2>2, <2>5, <2>7, VerticesRead
  <2>9. PICK t : t = IF type = MultiPatch THEN At(shp, PatchTypesAt(c, n) + 4 * (i - 1)) ELSE 0
    OBVIOUS
  <2>10. t = IF type = MultiPatch THEN p.type ELSE 0
    BY <1>1, <2>1, <2>4, <2>9 DEF PartThere, Noted
  <2>11. GetGeometry(k, i)
           = [type |-> t, verts |-> [j \in 1 .. end - first |-> ReadVertex(xy, z, mb, first + j - 1)]]
    BY <1>1, <1>2, <1>3, <2>1, <2>2, <2>9, GeometryRead
  <2>12. GetGeometry(k, i) = [type |-> t, verts |-> [j \in 1..m |-> KeptVertex(p, vs[j])]]
    BY <2>3, <2>8, <2>11
  <2>13. want[i] = [type |-> t, verts |-> Kept(p).verts]
    BY <2>6, <2>10 DEF Kept
  <2>14. CASE vs = p.verts
    BY <2>7, <2>12, <2>13, <2>14
  <2>15. CASE type \in PolygonTypes /\ vs = Reverse(p.verts)
    <3>1. GetGeometry(k, i) = [type |-> t, verts |-> Reverse(Kept(p).verts)]
      BY <2>7, <2>12, <2>15
    <3>2. [want[i] EXCEPT !.verts = Reverse(@)] = [type |-> t, verts |-> Reverse(Kept(p).verts)]
      BY <2>13
    <3> QED
      BY <2>15, <3>1, <3>2
  <2> QED
    BY <2>5, <2>14, <2>15 DEF Meant
<1> QED
  BY <1>3, <1>5, <1>6 DEF IsReadBack

\* The vertices there are.
Coords == Int \X Int \X Int \X Int

LEMMA KeptIsVertex ==
  ASSUME NEW p, NEW v \in Int \X Int \X Int \X Int
  PROVE  KeptVertex(p, v) \in Coords
<1>1. v[1] \in Int /\ v[2] \in Int /\ v[3] \in Int /\ v[4] \in Int
  OBVIOUS
<1>2. PICK z \in Int : z = IF HasZ(type) /\ p.hasZ THEN v[3] ELSE NoData
  BY <1>1 DEF NoData
<1>3. PICK m \in Int : m = IF HasM(type) /\ p.hasM THEN v[4] ELSE NoData
  BY <1>1 DEF NoData
<1>4. KeptVertex(p, v) = <<v[1], v[2], z, m>>
  BY <1>2, <1>3 DEF KeptVertex
<1> QED
  BY <1>1, <1>4 DEF Coords

LEMMA KeptIsSeq ==
  ASSUME type \in Types, NEW p \in Parts[type]
  PROVE  Kept(p).verts \in Seq(Coords)
<1>1. PICK m \in Nat : m = Len(p.verts)
  BY PartFacts
<1>2. Kept(p).verts = [j \in 1..m |-> KeptVertex(p, p.verts[j])]
  BY <1>1, KeptFacts
<1>3. \A j \in 1..m : KeptVertex(p, p.verts[j]) \in Coords
  <2>1. \A j \in 1..m : p.verts[j] \in Int \X Int \X Int \X Int
    BY <1>1, PartFacts DEF Vertices
  <2> QED
    BY <2>1, KeptIsVertex
<1> QED
  BY <1>2, <1>3

\* The vertices of all parts of a multipoint, as they are read.
AllRead(flat, xy, z, mb) == \A j \in 1..Len(flat) : ReadVertex(xy, z, mb, j - 1) = flat[j]

LEMMA PiecesRead ==
  ASSUME type \in Types, type \in MultiPointTypes, NEW c \in Nat,
         NEW parts \in Seq(Parts[type]), NEW n \in Nat \ {0}, n = Len(parts),
         RecordThere(shp, c, parts, n), NEW flat, NEW ss, NEW xy, NEW z, NEW mb,
         \A i \in 1..n : ss[i] = Kept(parts[i]).verts, Pieces(flat, ss, Sizes(parts), n),
         xy = PointsAt(type, c, n), z = ZBlockAt(type, c, n, Total(parts)),
         mb = MBlockAt(type, c, n, Total(parts))
  PROVE  AllRead(flat, xy, z, mb)
<1> SUFFICES ASSUME NEW j \in 1..Len(flat)
             PROVE  ReadVertex(xy, z, mb, j - 1) = flat[j]
  BY DEF AllRead
<1>1. PICK s : s = Sizes(parts)
  OBVIOUS
<1>2. PICK i \in 1..n : \E l \in 1..s[i] : j = SumTo(s, i - 1) + l /\ flat[j] = ss[i][l]
  BY <1>1 DEF Pieces
<1>3. PICK l \in 1..s[i] : j = SumTo(s, i - 1) + l /\ flat[j] = ss[i][l]
  BY <1>2
<1>4. PICK p, m, first : p = parts[i] /\ m = Len(p.verts) /\ first = SumTo(s, i - 1)
  OBVIOUS
<1>5. p \in Parts[type]
  BY <1>4
<1>6. m \in Nat \ {0} /\ Kept(p).verts = [k \in 1..m |-> KeptVertex(p, p.verts[k])]
  BY <1>4, <1>5, KeptFacts
<1>7. s[i] = m /\ first \in Nat /\ l \in 1..m
  <2>1. i \in DOMAIN parts
    OBVIOUS
  <2>2. s[i] = m
    BY <1>1, <1>4, <2>1 DEF Sizes
  <2>3. \A k \in 0 .. Len(parts) : SumTo(s, k) \in Nat
    BY <1>1, SizesFacts
  <2>4. i - 1 \in 0 .. Len(parts)
    OBVIOUS
  <2> QED
    BY <1>4, <2>2, <2>3, <2>4
<1>8. flat[j] = KeptVertex(p, p.verts[l])
  BY <1>3, <1>4, <1>6, <1>7
<1>9. PartThere(shp, c, parts, i)
  BY DEF RecordThere, PointTypes, MultiPointTypes
<1>10. VerticesThere(shp, c, parts, p, first, p.verts)
  <2>1. type \notin PolygonTypes
    BY DEF MultiPointTypes, PolygonTypes
  <2> QED
    BY <1>1, <1>4, <1>9, <2>1 DEF PartThere, Meant
<1>11. VertexThere(shp, type, xy, z, mb, first + l - 1, p.verts[l], p)
  BY <1>4, <1>7, <1>10 DEF VerticesThere
<1>12. first + l - 1 = j - 1
  BY <1>3, <1>4, <1>7
<1> QED
  BY <1>8, <1>11, <1>12, VertexRead

LEMMA MultiPointReadBack ==
  ASSUME ShpInv, ReadInv, NEW k \in Whole, type \in MultiPointTypes
  PROVE  IsReadBack(k)
<1>1. PICK parts, c, n, np : /\ parts = given[k] /\ c = ContentOf(k) /\ n = Len(parts)
                             /\ np = Total(parts)
  OBVIOUS
<1>2. /\ n \in Nat \ {0} /\ parts \in Seq(Parts[type]) /\ DOMAIN parts = 1..n
      /\ \A i \in 1..n : parts[i] \in Parts[type]
      /\ type \in Types /\ type \in ShpType /\ c \in Nat /\ TypeOf(k) = type
      /\ RecordThere(shp, c, parts, n)
  BY <1>1, WholeFacts
<1>3. type \notin PointTypes /\ type /= MultiPatch /\ type /= 0
  BY DEF PointTypes, MultiPointTypes, MultiPatch
<1>4. NumPartsOf(k) = 1 /\ NumPointsOf(k) = np
  <2>1. At(shp, NumPointsAt(type, c)) = np
    BY <1>1, <1>2, <1>3 DEF RecordThere, Total
  <2> QED
    BY <1>1, <1>2, <1>3, <2>1 DEF NumPartsOf, NumPointsOf
<1>5. PICK ss : ss = [i \in 1..n |-> Kept(parts[i]).verts]
  OBVIOUS
<1>6. PICK flat : flat = FlattenSeq(ss)
  OBVIOUS
<1>7. Expected(k) = << [type |-> 0, verts |-> flat] >>
  <2>1. PICK kept : kept = [i \in 1..n |-> Kept(parts[i])]
    OBVIOUS
  <2>2. [i \in DOMAIN kept |-> kept[i].verts] = ss
    BY <1>5, <2>1
  <2> QED
    BY <1>1, <1>2, <1>6, <2>1, <2>2 DEF Expected
<1>8. flat \in Seq(Coords) /\ Pieces(flat, ss, Sizes(parts), n)
  <2>1. PICK T : T = Coords
    OBVIOUS
  <2>2. ss \in Seq(Seq(T)) /\ ss /= << >> /\ Len(ss) = n
    <3>1. \A i \in 1..n : Kept(parts[i]).verts \in Seq(T)
      BY <1>2, <2>1, KeptIsSeq
    <3>2. PICK S : S = Seq(T)
      OBVIOUS
    <3>3. ss \in Seq(S)
      BY <1>2, <1>5, <3>1, <3>2
    <3>4. Len(ss) = n /\ ss /= << >>
      BY <1>2, <1>5
    <3> QED
      BY <3>2, <3>3, <3>4
  <2>3. PICK s : s = Sizes(parts)
    OBVIOUS
  <2>4. s \in Seq(Nat) /\ Len(s) = n /\ \A i \in 1..n : s[i] = Len(parts[i].verts)
    <3>1. s = [i \in 1..n |-> Len(parts[i].verts)]
      BY <1>2, <2>3 DEF Sizes
    <3>2. \A i \in 1..n : Len(parts[i].verts) \in Nat
      BY <1>2, PartFacts
    <3> QED
      BY <1>2, <3>1, <3>2
  <2>5. \A i \in 1..Len(ss) : Len(ss[i]) = s[i]
    <3> SUFFICES ASSUME NEW i \in 1..n
                 PROVE  Len(ss[i]) = s[i]
      BY <2>2
    <3>1. Len(Kept(parts[i]).verts) = Len(parts[i].verts)
      BY <1>2, KeptFacts
    <3> QED
      BY <1>5, <2>4, <3>1
  <2>6. FlattenSeq(ss) \in Seq(T) /\ Pieces(FlattenSeq(ss), ss, s, Len(ss))
    <3>1. Len(s) = Len(ss)
      BY <2>2, <2>4
    <3> QED
      BY <2>2, <2>4, <2>5, <3>1, Flattened
  <2> QED
    BY <1>6, <2>1, <2>2, <2>3, <2>6
<1>9. Len(flat) = np
  BY <1>1, <1>8 DEF Pieces, Total
<1>10. flat = [j \in 1..np |-> flat[j]] /\ np \in Nat
  BY <1>8, <1>9
<1>11. PICK xy, z, mb : /\ xy = PointsAt(type, c, n) /\ z = ZBlockAt(type, c, n, np)
                        /\ mb = MBlockAt(type, c, n, np)
  OBVIOUS
<1>12. /\ xy = PointsAt(type, c, 1) /\ z = ZBlockAt(type, c, 1, np)
       /\ mb = MBlockAt(type, c, 1, np)
  BY <1>11 DEF PointsAt, ZBlockAt, MBlockAt
<1>13. \A j \in 1..np : ReadVertex(xy, z, mb, j - 1) = flat[j]
  <2>1. /\ type \in Types /\ type \in MultiPointTypes /\ c \in Nat
        /\ parts \in Seq(Parts[type]) /\ n \in Nat \ {0} /\ n = Len(parts)
        /\ RecordThere(shp, c, parts, n) /\ \A i \in 1..n : ss[i] = Kept(parts[i]).verts
        /\ Pieces(flat, ss, Sizes(parts), n) /\ xy = PointsAt(type, c, n)
        /\ z = ZBlockAt(type, c, n, Total(parts)) /\ mb = MBlockAt(type, c, n, Total(parts))
    BY <1>1, <1>2, <1>5, <1>8, <1>11
  <2>2. AllRead(flat, xy, z, mb)
    BY <2>1, PiecesRead, Zenon
  <2> QED
    BY <1>9, <2>2 DEF AllRead
<1>14. GetGeometry(k, 1)
         = [type |-> 0, verts |-> [j \in 1 .. np - 0 |-> ReadVertex(xy, z, mb, 0 + j - 1)]]
  BY <1>1, <1>2, <1>3, <1>4, <1>12, GeometryRead
<1>15. GetGeometry(k, 1) = [type |-> 0, verts |-> flat]
  <2>1. [j \in 1 .. np - 0 |-> ReadVertex(xy, z, mb, 0 + j - 1)] = [j \in 1..np |-> flat[j]]
    <3>1. 1 .. np - 0 = 1..np /\ \A j \in 1..np : 0 + j - 1 = j - 1
      BY <1>10
    <3> QED
      BY <1>13, <3>1
  <2> QED
    BY <1>10, <1>14, <2>1
<1>16. /\ Len(Expected(k)) = 1 /\ DOMAIN Expected(k) = {1}
       /\ Expected(k)[1] = [type |-> 0, verts |-> flat]
  BY <1>7
<1> QED
  BY <1>4, <1>15, <1>16 DEF IsReadBack

(***************************************************************************)
(* Every feature that has all of its parts is read as it was given, part   *)
(* by part and vertex by vertex with the Z and M that belong to it, for    *)
(* every type and whatever is written before and after it; a ring may be   *)
(* reversed.  That is, GetFeature() and GetGeometry() find the counters,   *)
(* points and blocks where the Add...() functions of                       *)
(* include/geotypes-shp.cpp have laid them out, and no later call writes   *)
(* into them.                                                              *)
(***************************************************************************)
THEOREM FeaturesAlwaysReadBack == ShpSpec => []FeaturesReadBack
<1>1. ASSUME ShpInv, ReadInv
      PROVE  FeaturesReadBack
  <2>1. \A k \in Whole : IsReadBack(k)
    BY <1>1, PointReadBack, PartReadBack, MultiPointReadBack
  <2> QED
    BY <2>1 DEF FeaturesReadBack, IsReadBack
<1> QED
  BY <1>1, ShpInvariant, ReadInvariant, PTL

===============================================================================
