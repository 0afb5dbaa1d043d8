---------------------------- MODULE RasterToOutline ----------------------------
(***************************************************************************)
(* The whole of RasterToOutline() (src/raster-outline.cpp): the sweep, the *)
(* ring walk, and the ordering of the rings.  For every ring the smallest  *)
(* ring around it is searched, the number of rings met on the way gives    *)
(* its Type, and the rings are linked through Next: every outer ring, then *)
(* the rings directly inside it.                                           *)
(*                                                                         *)
(* Rings are numbered from 1 in the order of the ring memory, which is     *)
(* the order GetNextTreeNode() steps through; 0 stands for the code's null *)
(* pointer, NullNode and NullRing.                                         *)
(***************************************************************************)
EXTENDS RingTrace, FiniteSetsExt

CONSTANTS XSign, YSign   \* signs of Affine[1] and Affine[5]

ASSUME SignAssumption == XSign \in {-1, 1} /\ YSign \in {-1, 1}

VARIABLES
  orderPc,    \* "wait" for the rings, "order", "link", "returned"
  node,       \* TargetNode of the ordering, Node of the linking
  ringType,   \* Type of each ring, 0 outer and 1 inner
  parent,     \* Parent of each tree node
  children,   \* Child and the chain of Sibling
  next,       \* Next of each ring
  prevRing    \* PrevRing

orderVars == <<orderPc, node, ringType, parent, children, next, prevRing>>
vars      == <<sweepVars, traceVars, orderVars>>

NumRings == Len(rings)

OrderInit ==
  /\ orderPc = "wait" /\ node = 0 /\ prevRing = 0
  /\ ringType = << >> /\ parent = << >> /\ children = << >> /\ next = << >>

\* The vertices of ring r as WriteVertex() stores them, up to scale and origin.
Vertices(r) == [k \in DOMAIN rings[r] |->
                  <<XSign * rings[r][k][1], YSign * rings[r][k][2]>>]

BBoxArea(r) ==
  LET xs == {Vertices(r)[k][1] : k \in DOMAIN rings[r]}
      ys == {Vertices(r)[k][2] : k \in DOMAIN rings[r]}
  IN  (Max(xs) - Min(xs)) * (Max(ys) - Min(ys))

\* Mutant: a line the ray runs along never counts.
CheckCollisionUpright(test, p0, p1, p2, p3) ==
  /\ p1[1] = p2[1]
  /\ test[1] < p1[1]
  /\ Min({p1[2], p2[2]}) =< test[2] /\ test[2] =< Max({p1[2], p2[2]})

(***************************************************************************)
(* Whether a ray that leaves "test" to the right meets the line p1-p2.  A  *)
(* line the ray runs along counts if the lines before and after it, p0-p1  *)
(* and p2-p3, go on in the same vertical direction.                        *)
(***************************************************************************)
CheckCollision(test, p0, p1, p2, p3) ==
  IF p1[1] = p2[1]
  THEN /\ test[1] < p1[1]
       /\ Min({p1[2], p2[2]}) =< test[2] /\ test[2] =< Max({p1[2], p2[2]})
  ELSE /\ p1[2] = test[2]
       /\ test[1] < Min({p1[1], p2[1]})
       /\ \/ p0[2] < p1[2] /\ p2[2] < p3[2]
          \/ p0[2] > p1[2] /\ p2[2] > p3[2]

\* The first of the first three vertices that the ring leaves to the right.
TestPoint(v) == IF v[1][1] < v[2][1] THEN v[1]
                ELSE IF v[2][1] < v[3][1] THEN v[2] ELSE v[3]

IsRingInsideRing(a, b) ==
  LET test == TestPoint(Vertices(a))
      v    == Vertices(b)
      n    == Len(v)
      hits == {k \in 1 .. n-1 :
                 CheckCollision(test, IF k = 1 THEN v[n-1] ELSE v[k-1], v[k], v[k+1],
                                IF k = n-1 THEN v[2] ELSE v[k+2])}
  IN  a /= b /\ Cardinality(hits) % 2 = 1

(***************************************************************************)
(* The search through all rings for the smallest one around the target     *)
(* steps from a ring around it to the next one that is smaller.            *)
(***************************************************************************)
SearchSteps(target) ==
  LET around == {k \in 1..NumRings : IsRingInsideRing(target, k)}
  IN  {k \in around : \A j \in around : j < k => BBoxArea(k) < BBoxArea(j)}

\* The tree nodes are pushed zeroed; the first ring is never a target.
BeginOrder ==
  /\ orderPc = "wait" /\ tracePc = "traced"
  /\ orderPc' = "order" /\ node' = 2
  /\ ringType' = [r \in 1..NumRings |-> 0]
  /\ parent' = [r \in 1..NumRings |-> 0]
  /\ children' = [r \in 1..NumRings |-> << >>]
  /\ next' = [r \in 1..NumRings |-> 0]
  /\ UNCHANGED prevRing
  /\ UNCHANGED <<sweepVars, traceVars>>

OrderRing ==
  LET steps == SearchSteps(node)
  IN  /\ orderPc = "order" /\ node =< NumRings
      /\ ringType' = [ringType EXCEPT ![node] = Cardinality(steps) % 2]
      /\ IF steps = {} THEN UNCHANGED <<parent, children>>
         ELSE /\ parent' = [parent EXCEPT ![node] = Max(steps)]
              /\ children' = [children EXCEPT ![Max(steps)] = Append(@, node)]
      /\ node' = node + 1
      /\ UNCHANGED <<orderPc, next, prevRing>>
      /\ UNCHANGED <<sweepVars, traceVars>>

BeginLink ==
  /\ orderPc = "order" /\ node > NumRings
  /\ orderPc' = "link" /\ node' = 1 /\ prevRing' = 0
  /\ UNCHANGED <<ringType, parent, children, next>>
  /\ UNCHANGED <<sweepVars, traceVars>>

\* An outer ring and the rings directly inside it join the list.
LinkOuter ==
  LET chain == <<prevRing, node>> \o children[node]
  IN  /\ orderPc = "link" /\ node =< NumRings /\ ringType[node] = 0
      /\ next' = [r \in 1..NumRings |->
                    IF \E k \in 1 .. Len(chain)-1 : chain[k] = r
                    THEN chain[1 + CHOOSE k \in 1 .. Len(chain)-1 : chain[k] = r]
                    ELSE next[r]]
      /\ prevRing' = chain[Len(chain)]
      /\ node' = node + 1
      /\ UNCHANGED <<orderPc, ringType, parent, children>>
      /\ UNCHANGED <<sweepVars, traceVars>>

SkipInner ==
  /\ orderPc = "link" /\ node =< NumRings /\ ringType[node] /= 0
  /\ node' = node + 1
  /\ UNCHANGED <<orderPc, ringType, parent, children, next, prevRing>>
  /\ UNCHANGED <<sweepVars, traceVars>>

Return ==
  /\ orderPc = "link" /\ node > NumRings
  /\ orderPc' = "returned"
  /\ UNCHANGED <<node, ringType, parent, children, next, prevRing>>
  /\ UNCHANGED <<sweepVars, traceVars>>

OrderStep == \/ BeginOrder \/ OrderRing \/ BeginLink
             \/ LinkOuter \/ SkipInner \/ Return

Init == SweepInit /\ TraceInit /\ OrderInit

\* The call has returned, or an Assert has stopped the program.
Over == IF tracePc = "walk" THEN ~CanTurn(Neighbour(edge, dir), dir)
        ELSE tracePc = "empty" \/ orderPc = "returned"

CallOver == Over /\ UNCHANGED vars

Next == \/ SweepStep /\ UNCHANGED <<traceVars, orderVars>>
        \/ TraceStep /\ UNCHANGED orderVars
        \/ OrderStep
        \/ CallOver

\* A single thread runs the call, and nothing in it waits.
Spec == Init /\ [][Next]_vars /\ WF_vars(Next)

-------------------------------------------------------------------------------

OrderTypeOK ==
  /\ orderPc \in {"wait", "order", "link", "returned"}
  /\ node \in Nat /\ prevRing \in 0..NumRings
  /\ orderPc /= "wait" =>
       /\ ringType \in [1..NumRings -> {0, 1}]
       /\ parent \in [1..NumRings -> 0..NumRings]
       /\ children \in [1..NumRings -> Seq(1..NumRings)]
       /\ next \in [1..NumRings -> 0..NumRings]

TypeOK == SweepTypeOK /\ TraceTypeOK /\ OrderTypeOK

\* The list the caller reads: from the first ring along Next, at most one
\* ring too many when Next runs in a circle.
RingList ==
  LET after == [r \in 0..NumRings |-> IF r = 0 THEN 0 ELSE next[r]]
      at[k \in 1 .. NumRings+1] == IF k = 1 THEN 1 ELSE after[at[k-1]]
  IN  SelectSeq([k \in 1 .. NumRings+1 |-> at[k]], LAMBDA r : r /= 0)

Pixels == (0..Height-1) \X (0..Width-1)

\* Whether pixel p is inside ring r: an odd number of its lines is to the right.
IsInside(p, r) ==
  Cardinality({k \in 1 .. Len(rings[r])-1 :
     /\ rings[r][k][1] > p[2]
     /\ (rings[r][k][2] =< p[1]) /= (rings[r][k+1][2] =< p[1])}) % 2 = 1

\* How many outer rings pixel p is inside of, less how many inner rings.
Cover(p) ==
  LET around(t) == {r \in 1..NumRings : ringType[r] = t /\ IsInside(p, r)}
  IN  Cardinality(around(0)) - Cardinality(around(1))

Status == IF tracePc = "empty" THEN "empty"
          ELSE IF orderPc = "returned" THEN "outline" ELSE "pending"

Promise == INSTANCE Outline WITH
             status <- Status,
             cover <- IF Status = "outline" THEN [p \in Pixels |-> Cover(p)] ELSE << >>

(***************************************************************************)
(* The call does what the header promises: it ends, it gives up only for   *)
(* want of pixels or on failure, the rings with their types describe the   *)
(* selected pixels exactly, and no outline is returned of a raster that    *)
(* could not be read.  The code keeps it as long as every read succeeds.   *)
(***************************************************************************)
KeepsPromise == Promise!Spec

\* The pixels inside each ring.
Interiors ==
  LET upTo[r \in 0..NumRings] ==
        IF r = 0 THEN << >> ELSE Append(upTo[r-1], {p \in Pixels : IsInside(p, r)})
  IN  upTo[NumRings]

\* The inner rings that follow position i of the list, up to the next outer.
InnersOf(list, i) ==
  {list[j] : j \in {j \in i+1 .. Len(list) :
                      \A k \in i+1 .. j : ringType[list[k]] = 1}}

(***************************************************************************)
(* The list of the result holds every ring once, starts with an outer      *)
(* ring, and an inner ring is listed behind the ring that it is a hole of: *)
(* all of it lies inside that ring, and no listed ring is in between.      *)
(***************************************************************************)
ListIsNested ==
  orderPc = "returned" =>
    LET list   == RingList
        inside == Interiors
    IN  /\ Len(list) = NumRings
        /\ \A i, j \in 1..Len(list) : list[i] = list[j] => i = j
        /\ ringType[list[1]] = 0
        /\ \A i \in 1..Len(list) : ringType[list[i]] = 0 =>
             \A r \in InnersOf(list, i) :
               /\ inside[r] \subseteq inside[list[i]]
               /\ \A q \in (1..NumRings) \ {r, list[i]} :
                    ~ (inside[r] \subseteq inside[q] /\ inside[q] \subseteq inside[list[i]])
===============================================================================
