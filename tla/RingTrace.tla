------------------------------- MODULE RingTrace -------------------------------
(***************************************************************************)
(* The second part of RasterToOutline() (src/raster-outline.cpp): the edge *)
(* list is walked from edge to edge, clockwise, and every closed walk is   *)
(* saved as a ring.  A walk starts at the first edge of the list that no   *)
(* walk has visited often enough, goes right, and turns right where lines  *)
(* cross.  It is the continuation of the sweep: it waits for its end.      *)
(*                                                                         *)
(* A vertex is the position <<col, row>> of an edge; the affine transform  *)
(* that WriteVertex() applies is left to the module that needs it.  The    *)
(* room of the ring memory is counted in the module PolyArena; here its    *)
(* growth only succeeds or fails.                                          *)
(***************************************************************************)
EXTENDS EdgeSweep

VARIABLES
  tracePc,    \* "wait" for the sweep, "ring" (start one), "walk", "traced",
              \* or "empty" (EmptyPoly is returned)
  firstEdge,  \* FirstEdge, an index of the edge list
  edge,       \* Edge: where the walk is
  dir,        \* Dir
  checked,    \* TimesChecked of each edge
  walk,       \* the vertices of the ring being written
  rings       \* the closed rings, in the order of the ring memory

traceVars == <<tracePc, firstEdge, edge, dir, checked, walk, rings>>

LineDir == {"Left", "Right", "Down", "Up"}

TraceInit ==
  /\ tracePc = "wait"
  /\ firstEdge = 1 /\ edge = 0 /\ dir = "Right"
  /\ checked = << >> /\ walk = << >> /\ rings = << >>

\* Mutant: crosses are visited twice more than the others.
PushedTimesCheckedTwice(t) == IF t = "Cross" THEN -2 ELSE 0

\* TimesChecked of a new edge: crosses are visited once more than the others.
PushedTimesChecked(t) == IF t = "Cross" THEN -1 ELSE 0

ReturnEmpty ==
  /\ tracePc' = "empty"
  /\ UNCHANGED <<firstEdge, edge, dir, checked, walk, rings>>

\* The sweep gave up, found no edge, or there is no memory for the rings.
NoOutline ==
  /\ tracePc = "wait"
  /\ \/ sweepPc = "failed"
     \/ sweepPc = "swept" /\ (edges = << >> \/ AllocMayFail)
  /\ ReturnEmpty
  /\ UNCHANGED sweepVars

BeginTrace ==
  /\ tracePc = "wait" /\ sweepPc = "swept" /\ edges /= << >>
  /\ tracePc' = "ring"
  /\ firstEdge' = 1
  /\ checked' = [i \in 1..Len(edges) |-> PushedTimesChecked(edges[i].type)]
  /\ UNCHANGED <<edge, dir, walk, rings>>
  /\ UNCHANGED sweepVars

BeginRing ==
  /\ tracePc = "ring" /\ firstEdge =< Len(edges)
  /\ tracePc' = "walk"
  /\ edge' = firstEdge /\ dir' = "Right" /\ walk' = << >>
  /\ UNCHANGED <<firstEdge, checked, rings>>
  /\ UNCHANGED sweepVars

\* The ring memory is too small and cannot be enlarged.
RingMemoryFails ==
  /\ AllocMayFail
  /\ tracePc = "ring" /\ firstEdge =< Len(edges)
  /\ ReturnEmpty
  /\ UNCHANGED sweepVars

EndTrace ==
  /\ tracePc = "ring" /\ firstEdge > Len(edges)
  /\ tracePc' = "traced"
  /\ UNCHANGED <<firstEdge, edge, dir, checked, walk, rings>>
  /\ UNCHANGED sweepVars

\* The edge at the other end of the line that leaves edge i in direction d.
Neighbour(i, d) == CASE d = "Right" -> i + 1
                     [] d = "Left"  -> i - 1
                     [] d = "Down"  -> edges[i].below
                     [] d = "Up"    -> edges[i].above

\* Mutant: Left and Right are mixed up where a walk goes down into a corner.
TurnMixedUp == [Right |-> [BottomLeft  |-> "Down", TopLeft  |-> "Up",    Cross |-> "Down"],
                Left  |-> [BottomRight |-> "Down", TopRight |-> "Up",    Cross |-> "Up"],
                Down  |-> [TopLeft |-> "Right", TopRight |-> "Left", Cross |-> "Left"],
                Up    |-> [BottomLeft  |-> "Left", BottomRight |-> "Right", Cross |-> "Right"]]

\* How the walk goes on from an edge of type t it reached in direction d.
Turn == [Right |-> [BottomLeft  |-> "Down", TopLeft  |-> "Up",    Cross |-> "Down"],
         Left  |-> [BottomRight |-> "Down", TopRight |-> "Up",    Cross |-> "Up"],
         Down  |-> [TopLeft     |-> "Left", TopRight |-> "Right", Cross |-> "Left"],
         Up    |-> [BottomLeft  |-> "Left", BottomRight |-> "Right", Cross |-> "Right"]]

\* Where this does not hold the code stops in Assert(0).
CanTurn(i, d) == i \in 1..Len(edges) /\ edges[i].type \in DOMAIN Turn[d]

Vertex(i) == <<edges[i].col, edges[i].row>>

Visited == [checked EXCEPT ![edge] = @ + 1]

(***************************************************************************)
(* The next start: the first edge behind the last start with TimesChecked  *)
(* 0, or the end of the list.  The end stops the search whatever it holds. *)
(***************************************************************************)
NextStart(seen) ==
  LET starts == {i \in firstEdge+1 .. Len(edges) : seen[i] = 0} \cup {Len(edges) + 1}
  IN  CHOOSE i \in starts : \A j \in starts : i =< j

\* One turn of the walk that does not come back to the start of the ring.
WalkOn ==
  LET next == Neighbour(edge, dir)
  IN  /\ tracePc = "walk"
      /\ CanTurn(next, dir) /\ next /= firstEdge
      /\ walk' = Append(walk, Vertex(edge))
      /\ checked' = Visited
      /\ edge' = next
      /\ dir' = Turn[dir][edges[next].type]
      /\ UNCHANGED <<tracePc, firstEdge, rings>>
      /\ UNCHANGED sweepVars

\* The walk is back: the first vertex is repeated and the ring is complete.
CloseRing ==
  LET next == Neighbour(edge, dir)
  IN  /\ tracePc = "walk"
      /\ CanTurn(next, dir) /\ next = firstEdge
      /\ rings' = Append(rings, walk \o <<Vertex(edge), Vertex(next)>>)
      /\ walk' = << >>
      /\ checked' = Visited
      /\ edge' = next
      /\ dir' = Turn[dir][edges[next].type]
      /\ firstEdge' = NextStart(Visited)
      /\ tracePc' = "ring"
      /\ UNCHANGED sweepVars

TraceStep == \/ NoOutline \/ BeginTrace \/ BeginRing \/ RingMemoryFails
             \/ WalkOn \/ CloseRing \/ EndTrace

-------------------------------------------------------------------------------

TraceTypeOK ==
  /\ tracePc \in {"wait", "ring", "walk", "traced", "empty"}
  /\ firstEdge \in Nat \ {0} /\ edge \in Nat
  /\ dir \in LineDir
  /\ checked \in Seq(Int)
  /\ walk \in Seq(Nat \X Nat)
  /\ rings \in Seq(Seq(Nat \X Nat))

(***************************************************************************)
(* No Assert(0) of the walk fails: from wherever a walk is, there is an    *)
(* edge in its direction, and a line to go on with from there.             *)
(***************************************************************************)
NoAssert == tracePc = "walk" => CanTurn(Neighbour(edge, dir), dir)

\* Poly.NumVertices, the vertices of the closed rings ...
NumVertices ==
  LET sum[i \in 0..Len(rings)] == IF i = 0 THEN 0 ELSE sum[i-1] + Len(rings[i])
  IN  sum[Len(rings)]

\* ... and Info.VertexCount, which grows by the repeated vertex of each.
VertexTotal == vertexCount + Len(rings)

(***************************************************************************)
(* NumVerticesLeft, an unsigned difference the size of the ring memory is  *)
(* computed from, never goes below what is left to write, and is 0 at the  *)
(* end: the count made by the sweep is exactly what the walks produce.     *)
(***************************************************************************)
VertexCountRight ==
  /\ tracePc \in {"ring", "walk", "traced"} =>
       NumVertices + Len(walk) =< VertexTotal
  /\ tracePc = "traced" => NumVertices = VertexTotal

\* The lines of a ring, each as the set of its two ends.
Lines(ring) == {{ring[k], ring[k+1]} : k \in 1 .. Len(ring)-1}

(***************************************************************************)
(* No line of the outline belongs to two rings or twice to one, whichever  *)
(* way the regions touch, and each ring is a closed path.                  *)
(***************************************************************************)
RingsShareNoLine ==
  /\ \A r \in 1..Len(rings) :
       /\ rings[r][1] = rings[r][Len(rings[r])]
       /\ \A j, k \in 1 .. Len(rings[r])-1 :
            {rings[r][j], rings[r][j+1]} = {rings[r][k], rings[r][k+1]} => j = k
  /\ \A r, s \in 1..Len(rings) :
       r /= s => Lines(rings[r]) \cap Lines(rings[s]) = {}
===============================================================================
