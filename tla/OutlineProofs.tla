----------------------------- MODULE OutlineProofs -----------------------------
(***************************************************************************)
(* What is proved of the sweep holds of the whole call: the walk and the   *)
(* ordering of the rings only read the edge list, so that a run of the     *)
(* call, seen through the variables of the sweep, is a run of the sweep.   *)
(***************************************************************************)
EXTENDS RasterToOutline, RingGeometry

\* A step of the call is a step of the sweep or leaves its variables alone.
LEMMA StepOfSweep == [Next]_vars => [SweepNext]_sweepVars
<1> SUFFICES ASSUME [Next]_vars
             PROVE  [SweepNext]_sweepVars
  OBVIOUS
<1>1. CASE SweepStep
  BY <1>1 DEF SweepNext
<1>2. CASE TraceStep
  BY <1>2 DEF TraceStep, NoOutline, BeginTrace, BeginRing, RingMemoryFails, WalkOn,
              CloseRing, EndTrace
<1>3. CASE OrderStep
  BY <1>3 DEF OrderStep, BeginOrder, OrderRing, BeginLink, LinkOuter, SkipInner, Return
<1>4. CASE UNCHANGED vars
  BY <1>4 DEF vars
<1> QED
  BY <1>1, <1>2, <1>3, <1>4 DEF Next, CallOver

\* The call sweeps the raster as the specification of the sweep alone says.
THEOREM CallSweeps == Spec => SweepSpec
  BY StepOfSweep, PTL DEF Spec, Init, SweepSpec

(***************************************************************************)
(* In every call, on every raster, the walk starts on an edge list without *)
(* open lines and with every edge inside EdgeMem.                          *)
(***************************************************************************)
THEOREM CallLinksClosed == Spec => [](LinksClosed /\ EdgesFit)
  BY CallSweeps, LinksAlwaysClosed, EdgesAlwaysFit, PTL

(***************************************************************************)
(* In every call, on every raster, the list the walk starts on holds the   *)
(* corners of the selected region, all of them and each of them once.      *)
(***************************************************************************)
THEOREM CallEdgesCorners == Spec => []EdgesAreCorners
  BY CallSweeps, EdgesAlwaysCorners, PTL

-------------------------------------------------------------------------------

(***************************************************************************)
(* The walk waits for the sweep, and is on an edge of the list.            *)
(***************************************************************************)
WalkInv ==
  /\ tracePc \in {"ring", "walk", "traced"} => sweepPc = "swept"
  /\ tracePc = "walk" => edge \in 1..Len(edges)

\* The fields of an edge of the list have their types.
LEMMA EdgeFields ==
  ASSUME SweepTypeOK
  PROVE  /\ Len(edges) \in Nat
         /\ \A k \in 1..Len(edges) : /\ edges[k].type \in EdgeType
                                     /\ edges[k].row \in Nat /\ edges[k].col \in Nat
<1>1. edges \in Seq(Edge) /\ Len(edges) \in Nat
  BY DEF SweepTypeOK
<1>2. \A k \in 1..Len(edges) : edges[k] \in Edge
  BY <1>1
<1> QED
  BY <1>1, <1>2 DEF Edge

(***************************************************************************)
(* After the sweep a step of the call leaves the edge list alone.          *)
(***************************************************************************)
LEMMA SweptIsOver ==
  ASSUME SweepTypeOK, sweepPc = "swept", [Next]_vars
  PROVE  UNCHANGED <<sweepPc, edges>>
<1>1. ~SweepStep
  BY DEF SweepStep, ReadRow, ReadBleedRow, SkipBlock, AddEdge, GrowFails, EndLine
<1> QED
  BY <1>1 DEF Next, CallOver, vars, sweepVars, TraceStep, NoOutline, BeginTrace,
     BeginRing, RingMemoryFails, WalkOn, CloseRing, EndTrace, OrderStep, BeginOrder,
     OrderRing, BeginLink, LinkOuter, SkipInner, Return

LEMMA WalkInit == Init => WalkInv
  BY DEF Init, TraceInit, WalkInv

\* The step of a walk: the edge it comes to, and the direction it goes on in.
LEMMA WalkStepLine ==
  ASSUME TraceTypeOK, tracePc = "walk", CanTurn(Neighbour(edge, dir), dir)
  PROVE  LET n == Neighbour(edge, dir)
             d == Turn[dir][edges[n].type]
         IN  n \in 1..Len(edges) /\ d \in LineDir
  BY TurnHasLine DEF CanTurn, TraceTypeOK

\* Every step of the call keeps the walk in its place.
LEMMA WalkStep ==
  ASSUME SweepTypeOK, TraceTypeOK, WalkInv, [Next]_vars
  PROVE  WalkInv'
<1>1. sweepPc = "swept" => UNCHANGED <<sweepPc, edges>>
  BY SweptIsOver
<1>2. CASE SweepStep /\ UNCHANGED <<traceVars, orderVars>>
  BY <1>1, <1>2 DEF WalkInv, traceVars
<1>3. CASE NoOutline \/ RingMemoryFails
  BY <1>3 DEF NoOutline, RingMemoryFails, ReturnEmpty, WalkInv
<1>4. CASE BeginTrace \/ EndTrace
  BY <1>1, <1>4 DEF BeginTrace, EndTrace, WalkInv
<1>5. CASE BeginRing
  <2>1. firstEdge \in 1..Len(edges)
    BY <1>5, EdgeFields DEF BeginRing, TraceTypeOK
  <2> QED
    BY <1>1, <1>5, <2>1 DEF BeginRing, WalkInv
<1>6. CASE WalkOn \/ CloseRing
  <2>1. edge' \in 1..Len(edges) /\ tracePc = "walk" /\ tracePc' \in {"walk", "ring"}
    BY <1>6, WalkStepLine DEF WalkOn, CloseRing
  <2> QED
    BY <1>1, <2>1 DEF WalkInv
<1>7. CASE OrderStep
  <2>1. UNCHANGED <<sweepVars, traceVars>>
    BY <1>7 DEF OrderStep, BeginOrder, OrderRing, BeginLink, LinkOuter, SkipInner, Return
  <2> QED
    BY <2>1 DEF sweepVars, traceVars, WalkInv
<1>8. CASE UNCHANGED vars
  BY <1>8 DEF vars, sweepVars, traceVars, WalkInv
<1> QED
  BY <1>2, <1>3, <1>4, <1>5, <1>6, <1>7, <1>8 DEF Next, CallOver, TraceStep

-------------------------------------------------------------------------------

(***************************************************************************)
(* The types of the walk.                                                  *)
(***************************************************************************)
\* The next start is behind the last one, and not behind the end of the list.
LEMMA NextStartType ==
  ASSUME SweepTypeOK, TraceTypeOK, firstEdge \in 1..Len(edges), NEW seen
  PROVE  NextStart(seen) \in firstEdge+1 .. Len(edges)+1
<1> DEFINE starts == {i \in firstEdge+1 .. Len(edges) : seen[i] = 0} \cup {Len(edges) + 1}
<1>1. Len(edges) \in Nat
  BY EdgeFields
<1>2. starts \subseteq firstEdge+1 .. Len(edges)+1 /\ starts \in SUBSET Nat /\ starts /= {}
  BY <1>1
<1>3. \E i \in starts : \A j \in starts : i =< j
  <2> HIDE DEF starts
  <2> QED
    BY <1>2, LeastElement
<1>4. NextStart(seen) = CHOOSE i \in starts : \A j \in starts : i =< j
  BY DEF NextStart
<1> HIDE DEF starts
<1> QED
  BY <1>2, <1>3, <1>4

\* A ring starts and is walked inside the list.
StartInv == tracePc = "walk" => firstEdge \in 1..Len(edges)

LEMMA TraceTypeInit == Init => TraceTypeOK /\ StartInv
  BY EmptySeq DEF Init, TraceInit, TraceTypeOK, StartInv, LineDir

LEMMA VisitedType ==
  ASSUME TraceTypeOK
  PROVE  Visited \in Seq(Int)
<1>1. checked \in Seq(Int) /\ Len(checked) \in Nat
  BY DEF TraceTypeOK
<1>2. checked \in [1..Len(checked) -> Int]
  BY <1>1
<1>3. Visited \in [1..Len(checked) -> Int]
  <2>1. CASE edge \in 1..Len(checked)
    <3>1. checked[edge] + 1 \in Int
      BY <1>2, <2>1
    <3> QED
      BY <1>2, <3>1 DEF Visited
  <2>2. CASE edge \notin 1..Len(checked)
    BY <1>2, <2>2 DEF Visited
  <2> QED
    BY <2>1, <2>2
<1> QED
  BY <1>1, <1>3, SeqDef

\* Every step of the call keeps the types of the walk.
LEMMA TraceTypeStep ==
  ASSUME SweepTypeOK, TraceTypeOK, StartInv, WalkInv, [Next]_vars
  PROVE  TraceTypeOK' /\ StartInv'
<1>1. sweepPc = "swept" => UNCHANGED <<sweepPc, edges>>
  BY SweptIsOver
<1>2. CASE SweepStep /\ UNCHANGED <<traceVars, orderVars>>
  BY <1>1, <1>2 DEF WalkInv, TraceTypeOK, StartInv, traceVars
<1>3. CASE NoOutline \/ RingMemoryFails \/ EndTrace
  BY <1>3 DEF NoOutline, RingMemoryFails, EndTrace, ReturnEmpty, TraceTypeOK, StartInv
<1>4. CASE BeginTrace
  <2>1. \A i \in 1..Len(edges) : PushedTimesChecked(edges[i].type) \in Int
    BY DEF PushedTimesChecked
  <2>2. checked' \in [1..Len(edges) -> Int] /\ Len(edges) \in Nat
    BY <1>4, <2>1, EdgeFields DEF BeginTrace
  <2>3. checked' \in Seq(Int)
    BY <2>2, SeqDef
  <2> QED
    BY <1>4, <2>3 DEF BeginTrace, TraceTypeOK, StartInv
<1>5. CASE BeginRing
  <2>1. firstEdge \in 1..Len(edges)
    BY <1>5, EdgeFields DEF BeginRing, TraceTypeOK
  <2>2. walk' \in Seq(Nat \X Nat)
    BY <1>5, EmptySeq DEF BeginRing
  <2> QED
    BY <1>1, <1>5, <2>1, <2>2 DEF BeginRing, TraceTypeOK, StartInv, LineDir, WalkInv
<1>6. ASSUME tracePc = "walk", CanTurn(Neighbour(edge, dir), dir)
      PROVE  /\ edge \in 1..Len(edges) /\ Neighbour(edge, dir) \in 1..Len(edges)
             /\ Vertex(edge) \in Nat \X Nat /\ Vertex(Neighbour(edge, dir)) \in Nat \X Nat
             /\ Turn[dir][edges[Neighbour(edge, dir)].type] \in LineDir
             /\ Neighbour(edge, dir) \in Nat
             /\ sweepPc = "swept" /\ UNCHANGED <<sweepPc, edges>>
  <2>1. edge \in 1..Len(edges) /\ sweepPc = "swept"
    BY <1>6 DEF WalkInv
  <2>2. /\ Neighbour(edge, dir) \in 1..Len(edges)
        /\ Turn[dir][edges[Neighbour(edge, dir)].type] \in LineDir
    BY <1>6, WalkStepLine
  <2>3. \A i \in 1..Len(edges) : Vertex(i) \in Nat \X Nat
    BY EdgeFields DEF Vertex
  <2> QED
    BY <1>1, <2>1, <2>2, <2>3
<1>7. CASE WalkOn
  <2>1. tracePc = "walk" /\ CanTurn(Neighbour(edge, dir), dir)
    BY <1>7 DEF WalkOn
  <2>2. walk' \in Seq(Nat \X Nat)
    BY <1>6, <1>7, <2>1 DEF WalkOn, TraceTypeOK
  <2>3. checked' \in Seq(Int)
    BY <1>7, VisitedType DEF WalkOn
  <2> QED
    BY <1>6, <1>7, <2>1, <2>2, <2>3 DEF WalkOn, TraceTypeOK, StartInv
<1>8. CASE CloseRing
  <2> DEFINE last == <<Vertex(edge), Vertex(Neighbour(edge, dir))>>
  <2>1. tracePc = "walk" /\ CanTurn(Neighbour(edge, dir), dir)
    BY <1>8 DEF CloseRing
  <2>2. last \in Seq(Nat \X Nat)
    BY <1>6, <2>1
  <2>3. rings' = Append(rings, walk \o last)
    BY <1>8 DEF CloseRing
  <2>4. rings' \in Seq(Seq(Nat \X Nat))
    <3> HIDE DEF last
    <3>1. walk \o last \in Seq(Nat \X Nat)
      BY <2>2, ConcatProperties DEF TraceTypeOK
    <3> QED
      BY <2>3, <3>1, AppendProperties DEF TraceTypeOK
  <2>5. checked' \in Seq(Int) /\ walk' \in Seq(Nat \X Nat)
    BY <1>8, VisitedType, EmptySeq DEF CloseRing
  <2>6. firstEdge' \in Nat \ {0}
    <3>1. firstEdge \in 1..Len(edges) /\ Len(edges) \in Nat
      BY <2>1, EdgeFields DEF StartInv
    <3>2. firstEdge' \in firstEdge+1 .. Len(edges)+1
      BY <1>8, <3>1, NextStartType DEF CloseRing
    <3> QED
      BY <3>1, <3>2
  <2> QED
    BY <1>6, <1>8, <2>1, <2>4, <2>5, <2>6 DEF CloseRing, TraceTypeOK, StartInv
<1>9. CASE OrderStep
  <2>1. UNCHANGED <<sweepVars, traceVars>>
    BY <1>9 DEF OrderStep, BeginOrder, OrderRing, BeginLink, LinkOuter, SkipInner, Return
  <2> QED
    BY <2>1 DEF sweepVars, traceVars, TraceTypeOK, StartInv
<1>10. CASE UNCHANGED vars
  BY <1>10 DEF vars, sweepVars, traceVars, TraceTypeOK, StartInv
<1> QED
  BY <1>2, <1>3, <1>4, <1>5, <1>7, <1>8, <1>9, <1>10 DEF Next, CallOver, TraceStep

(***************************************************************************)
(* The types of the ordering.  The rings are all there before it starts,   *)
(* and nodes are counted from 1.                                           *)
(***************************************************************************)
OrderPlaceInv ==
  /\ orderPc /= "wait" => tracePc = "traced"
  /\ orderPc \in {"order", "link"} => node >= 1

RankInv == OrderTypeOK /\ OrderPlaceInv

LEMMA OrderTypeInit == Init => RankInv
<1> SUFFICES ASSUME Init
             PROVE  RankInv
  OBVIOUS
<1>1. NumRings \in Nat
  BY EmptySeq DEF Init, TraceInit, NumRings
<1> QED
  BY <1>1 DEF Init, OrderInit, RankInv, OrderTypeOK, OrderPlaceInv

\* What a search finds: rings, and the last one found is one of them.
LEMMA SearchStepsType ==
  ASSUME TraceTypeOK, NEW target
  PROVE  /\ Cardinality(SearchSteps(target)) % 2 \in {0, 1}
         /\ SearchSteps(target) /= {} => Max(SearchSteps(target)) \in 1..NumRings
<1> DEFINE steps == SearchSteps(target)
<1>1. NumRings \in Nat
  BY DEF TraceTypeOK, NumRings
<1>2. steps \in SUBSET (1..NumRings) /\ steps \in SUBSET (0..NumRings)
  BY DEF SearchSteps
<1> HIDE DEF steps
<1>3. IsFiniteSet(1..NumRings)
  BY <1>1, FS_Interval
<1>4. Cardinality(steps) \in Nat
  BY <1>2, <1>3, FS_Subset, FS_CardinalityType
<1>5. steps /= {} => Max(steps) \in 1..NumRings
  BY <1>1, <1>2, MaxOfBounded
<1> QED
  BY <1>4, <1>5 DEF steps

\* A target gets its type, and joins the children of its parent.
LEMMA OrderRingTypes ==
  ASSUME TraceTypeOK, RankInv, OrderRing
  PROVE  OrderTypeOK'
<1> DEFINE steps == SearchSteps(node)
<1>1. /\ orderPc = "order" /\ node \in 1..NumRings /\ NumRings \in Nat /\ NumRings' = NumRings
      /\ node' = node + 1 /\ UNCHANGED <<orderPc, next, prevRing>>
      /\ ringType \in [1..NumRings -> {0, 1}]
      /\ parent \in [1..NumRings -> 0..NumRings]
      /\ children \in [1..NumRings -> Seq(1..NumRings)]
      /\ next \in [1..NumRings -> 0..NumRings]
  BY DEF OrderRing, RankInv, OrderTypeOK, OrderPlaceInv, NumRings, TraceTypeOK, traceVars
<1>2. ringType' \in [1..NumRings -> {0, 1}]
  <2>1. ringType' = [ringType EXCEPT ![node] = Cardinality(steps) % 2]
    BY DEF OrderRing
  <2>2. Cardinality(steps) % 2 \in {0, 1}
    BY SearchStepsType
  <2> HIDE DEF steps
  <2> QED
    BY <1>1, <2>1, <2>2
<1>3. /\ parent' \in [1..NumRings -> 0..NumRings]
      /\ children' \in [1..NumRings -> Seq(1..NumRings)]
  <2>1. CASE steps = {}
    BY <1>1, <2>1 DEF OrderRing
  <2>2. CASE steps /= {}
    <3>1. PICK m : m = Max(steps)
      OBVIOUS
    <3>2. m \in 1..NumRings
      BY <2>2, <3>1, SearchStepsType
    <3>3. /\ parent' = [parent EXCEPT ![node] = m]
          /\ children' = [children EXCEPT ![m] = Append(children[m], node)]
      BY <2>2, <3>1 DEF OrderRing
    <3>4. Append(children[m], node) \in Seq(1..NumRings)
      BY <1>1, <3>2
    <3> QED
      BY <1>1, <3>2, <3>3, <3>4
  <2> QED
    BY <2>1, <2>2
<1> QED
  BY <1>1, <1>2, <1>3 DEF RankInv, OrderTypeOK

\* An outer ring and its inner rings are linked to rings.
LEMMA LinkOuterTypes ==
  ASSUME TraceTypeOK, RankInv, LinkOuter
  PROVE  OrderTypeOK'
<1> DEFINE chain == <<prevRing, node>> \o children[node]
<1>1. /\ orderPc = "link" /\ node \in 1..NumRings /\ NumRings \in Nat /\ NumRings' = NumRings
      /\ node' = node + 1 /\ UNCHANGED <<orderPc, ringType, parent, children>>
      /\ ringType \in [1..NumRings -> {0, 1}]
      /\ parent \in [1..NumRings -> 0..NumRings]
      /\ children \in [1..NumRings -> Seq(1..NumRings)]
      /\ next \in [1..NumRings -> 0..NumRings]
      /\ prevRing \in 0..NumRings
  BY DEF LinkOuter, RankInv, OrderTypeOK, OrderPlaceInv, NumRings, TraceTypeOK, traceVars
<1>2. chain \in Seq(0..NumRings) /\ Len(chain) \in Nat /\ Len(chain) >= 2
  <2>1. PICK S, kids : S = 0..NumRings /\ kids = children[node]
    OBVIOUS
  <2>2. prevRing \in S /\ node \in S
    BY <1>1, <2>1
  <2>3. <<prevRing, node>> \in Seq(S) /\ Len(<<prevRing, node>>) = 2
    BY <2>2
  <2>4. kids \in Seq(1..NumRings)
    BY <1>1, <2>1
  <2>5. Len(kids) \in Nat /\ kids \in [1..Len(kids) -> S]
    <3>1. Len(kids) \in Nat /\ kids \in [1..Len(kids) -> 1..NumRings]
      BY <2>4, LenProperties
    <3>2. \A k \in 1..NumRings : k \in S
      BY <1>1, <2>1
    <3> QED
      BY <3>1, <3>2
  <2>6. kids \in Seq(S)
    BY <2>5, SeqDef
  <2>7. chain = <<prevRing, node>> \o kids
    BY <2>1
  <2>8. chain \in Seq(S) /\ Len(chain) = 2 + Len(kids)
    <3> HIDE DEF chain
    <3> QED
      BY <2>3, <2>6, <2>7, ConcatProperties
  <2> QED
    BY <2>1, <2>5, <2>8
<1>3. \A k \in 1..Len(chain) : chain[k] \in 0..NumRings
  <2> HIDE DEF chain
  <2> QED
    BY <1>2, ElementOfSeq
<1>4. /\ next' = [r \in 1..NumRings |->
                    IF \E k \in 1 .. Len(chain)-1 : chain[k] = r
                    THEN chain[1 + CHOOSE k \in 1 .. Len(chain)-1 : chain[k] = r]
                    ELSE next[r]]
      /\ prevRing' = chain[Len(chain)]
  BY DEF LinkOuter
<1> HIDE DEF chain
<1>5. prevRing' \in 0..NumRings
  BY <1>2, <1>3, <1>4
<1>6. next' \in [1..NumRings -> 0..NumRings]
  <2>1. ASSUME NEW r \in 1..NumRings, \E k \in 1 .. Len(chain)-1 : chain[k] = r
        PROVE  chain[1 + CHOOSE k \in 1 .. Len(chain)-1 : chain[k] = r] \in 0..NumRings
    <3>1. PICK c : c = CHOOSE k \in 1 .. Len(chain)-1 : chain[k] = r
      OBVIOUS
    <3>2. c \in 1 .. Len(chain)-1
      BY <2>1, <3>1
    <3>3. 1 + c \in 1..Len(chain)
      BY <1>2, <3>2
    <3> QED
      BY <1>3, <3>1, <3>3
  <2> QED
    BY <1>1, <1>4, <2>1
<1> QED
  BY <1>1, <1>5, <1>6 DEF RankInv, OrderTypeOK

\* Every step of the call keeps the types of the ordering.
LEMMA OrderTypeStep ==
  ASSUME TraceTypeOK, RankInv, [Next]_vars
  PROVE  RankInv'
<1>1. CASE SweepStep /\ UNCHANGED <<traceVars, orderVars>>
  BY <1>1 DEF traceVars, orderVars, RankInv, OrderTypeOK, OrderPlaceInv, NumRings
<1>2. CASE TraceStep /\ UNCHANGED orderVars
  <2>1. tracePc /= "traced"
    BY <1>2 DEF TraceStep, NoOutline, BeginTrace, BeginRing, RingMemoryFails, WalkOn,
       CloseRing, EndTrace
  <2>2. orderPc = "wait"
    BY <2>1 DEF RankInv, OrderPlaceInv
  <2>3. prevRing \in 0..NumRings'
    <3>1. tracePc \in {"wait", "ring", "walk"} => NumRings' \in Nat /\ NumRings' >= NumRings
      <4>1. CASE UNCHANGED rings
        BY <4>1 DEF NumRings, TraceTypeOK
      <4>2. CASE CloseRing
        <5> DEFINE ring == walk \o <<Vertex(edge), Vertex(Neighbour(edge, dir))>>
        <5>1. rings' = Append(rings, ring)
          BY <4>2 DEF CloseRing
        <5> HIDE DEF ring
        <5> QED
          BY <5>1 DEF NumRings, TraceTypeOK
      <4> QED
        BY <1>2, <4>1, <4>2 DEF TraceStep, NoOutline, BeginTrace, BeginRing,
           RingMemoryFails, WalkOn, EndTrace, ReturnEmpty
    <3>2. NumRings \in Nat /\ prevRing \in 0..NumRings
      BY DEF NumRings, TraceTypeOK, RankInv, OrderTypeOK
    <3>3. tracePc /= "empty"
      BY <1>2 DEF TraceStep, NoOutline, BeginTrace, BeginRing, RingMemoryFails, WalkOn,
         CloseRing, EndTrace
    <3> QED
      BY <2>1, <3>1, <3>2, <3>3 DEF TraceTypeOK
  <2> QED
    BY <1>2, <2>2, <2>3 DEF orderVars, RankInv, OrderTypeOK, OrderPlaceInv
<1>3. CASE OrderStep
  <2>1. NumRings \in Nat /\ NumRings' = NumRings /\ tracePc' = tracePc
    BY <1>3 DEF OrderStep, BeginOrder, OrderRing, BeginLink, LinkOuter, SkipInner, Return,
       NumRings, TraceTypeOK, traceVars
  <2>2. CASE BeginOrder
    <3>1. [r \in 1..NumRings |-> << >>] \in [1..NumRings -> Seq(1..NumRings)]
      BY EmptySeq
    <3> QED
      BY <2>1, <2>2, <3>1 DEF BeginOrder, RankInv, OrderTypeOK, OrderPlaceInv
  <2>3. CASE OrderRing
    <3>1. OrderTypeOK'
      BY <2>3, OrderRingTypes
    <3>2. /\ orderPc = "order" /\ orderPc' = "order"
          /\ node' = node + 1 /\ node \in Nat /\ tracePc = "traced"
      BY <2>3 DEF OrderRing, RankInv, OrderTypeOK, OrderPlaceInv
    <3> QED
      BY <2>1, <3>1, <3>2 DEF RankInv, OrderPlaceInv
  <2>4. CASE LinkOuter
    <3>1. OrderTypeOK'
      BY <2>4, LinkOuterTypes
    <3>2. orderPc = "link" /\ orderPc' = "link" /\ node' = node + 1 /\ node \in Nat
      BY <2>4 DEF LinkOuter, RankInv, OrderTypeOK
    <3> QED
      BY <2>1, <3>1, <3>2 DEF RankInv, OrderPlaceInv
  <2>5. CASE BeginLink \/ SkipInner \/ Return
    BY SMTT(30), <2>1, <2>5 DEF BeginLink, SkipInner, Return, RankInv, OrderTypeOK, OrderPlaceInv
  <2> QED
    BY <1>3, <2>2, <2>3, <2>4, <2>5 DEF OrderStep
<1>4. CASE UNCHANGED vars
  BY <1>4 DEF vars, traceVars, orderVars, RankInv, OrderTypeOK, OrderPlaceInv, NumRings
<1> QED
  BY <1>1, <1>2, <1>3, <1>4 DEF Next, CallOver

-------------------------------------------------------------------------------

(***************************************************************************)
(* The finished sweep hands the walk an outline: the edge list against the *)
(* picture of the selected pixels and the border around the raster.        *)
(***************************************************************************)
SelectedPixels == [r \in PixRows |-> [c \in PixCols |-> Selected(r, c)]]

LEMMA SelectedIsPicture ==
  ASSUME SweepTypeOK
  PROVE  SelectedPixels \in Picture /\ Bordered(SelectedPixels)
<1>1. Width \in Nat /\ Height \in Nat
  BY SizeAssumption
<1>2. \A r \in PixRows, c \in PixCols : Selected(r, c) \in BOOLEAN
  BY <1>1, SelectedType DEF PixRows, PixCols
<1>3. -1 \in PixRows /\ -1 \in PixCols
  BY <1>1 DEF PixRows, PixCols
<1>4. /\ \A c \in PixCols : Selected(-1, c) = FALSE
      /\ \A r \in PixRows : Selected(r, -1) = FALSE
  BY <1>1 DEF Selected
<1> QED
  BY <1>2, <1>3, <1>4 DEF SelectedPixels, Picture, Bordered

\* The block of the picture around a vertex is the block of the raster.
LEMMA SelectedBlock ==
  ASSUME NEW r \in 0..Height, NEW c \in 0..Width
  PROVE  Block(SelectedPixels, r, c) = VertexType(r, c)
<1>1. r \in PixRows /\ r-1 \in PixRows /\ c \in PixCols /\ c-1 \in PixCols
  BY Grid
<1> QED
  BY <1>1 DEF SelectedPixels, Block, VertexType

\* The order of neighbouring edges is the order of all.
LEMMA OrderOfEdges ==
  ASSUME SweepTypeOK, CornerInv
  PROVE  \A i \in 1..Len(edges), j \in 1..Len(edges) :
           i < j => Precedes(edges[i].row, edges[i].col, edges[j].row, edges[j].col)
<1>1. /\ Len(edges) \in Nat
      /\ \A k \in 1..Len(edges) : edges[k].row \in Nat /\ edges[k].col \in Nat
  BY EdgeFields
<1> SUFFICES ASSUME NEW i \in 1..Len(edges)
             PROVE  \A j \in 1..Len(edges) :
                      i < j => Precedes(edges[i].row, edges[i].col, edges[j].row, edges[j].col)
  OBVIOUS
<1> DEFINE T == {n \in Nat : i + 1 + n =< Len(edges) =>
                   Precedes(edges[i].row, edges[i].col, edges[i+1+n].row, edges[i+1+n].col)}
<1>2. 0 \in T
  <2>1. i + 1 + 0 = i + 1
    BY <1>1
  <2>2. i + 1 =< Len(edges) =>
          Precedes(edges[i].row, edges[i].col, edges[i+1].row, edges[i+1].col)
    BY <1>1 DEF CornerInv, OrderInv
  <2> QED
    BY <2>1, <2>2
<1>3. ASSUME NEW n \in Nat, n \in T
      PROVE  n + 1 \in T
  <2>1. CASE i + 1 + (n + 1) =< Len(edges)
    <3>1. PICK k \in 1 .. Len(edges)-1 : k = i + 1 + n /\ k + 1 = i + 1 + (n + 1)
      BY <1>1, <2>1
    <3>2. Precedes(edges[i].row, edges[i].col, edges[k].row, edges[k].col)
      BY <1>1, <1>3, <3>1
    <3>3. Precedes(edges[k].row, edges[k].col, edges[k+1].row, edges[k+1].col)
      BY <3>1 DEF CornerInv, OrderInv
    <3>4. k \in 1..Len(edges) /\ k+1 \in 1..Len(edges)
      BY <1>1
    <3>5. Precedes(edges[i].row, edges[i].col, edges[k+1].row, edges[k+1].col)
      BY <1>1, <3>2, <3>3, <3>4 DEF Precedes
    <3> QED
      BY <3>1, <3>5
  <2>2. CASE ~(i + 1 + (n + 1) =< Len(edges))
    BY <2>2
  <2> QED
    BY <2>1, <2>2
<1> HIDE DEF T
<1>4. \A n \in Nat : n \in T
  BY <1>2, <1>3, Induction
<1>5. ASSUME NEW j \in 1..Len(edges), i < j
      PROVE  Precedes(edges[i].row, edges[i].col, edges[j].row, edges[j].col)
  <2>1. PICK n \in Nat : i + 1 + n = j
    <3>1. j - i - 1 \in Nat /\ i + 1 + (j - i - 1) = j
      BY <1>1, <1>5
    <3> QED
      BY <3>1
  <2>2. i + 1 + n =< Len(edges) =>
          Precedes(edges[i].row, edges[i].col, edges[i+1+n].row, edges[i+1+n].col)
    BY <1>4 DEF T
  <2>3. j =< Len(edges)
    BY <1>1
  <2> QED
    BY <2>1, <2>2, <2>3
<1> QED
  BY <1>5

LEMMA SweptCorners ==
  ASSUME SweepTypeOK, CornerInv, sweepPc = "swept"
  PROVE  CornersOf(edges, SelectedPixels)
<1>1. /\ Len(edges) \in Nat
      /\ \A k \in 1..Len(edges) : edges[k].type \in EdgeType
  BY EdgeFields
<1>2. \A i \in 1..Len(edges) :
        /\ edges[i].row \in 0..Height /\ edges[i].col \in 0..Width
        /\ edges[i].type = VertexType(edges[i].row, edges[i].col)
  BY DEF CornerInv, OnlyCornersInv
<1>3. \A r \in 0..Height, c \in 0..Width : Scanned(r, c)
  BY SizeAssumption DEF CornerInv, PlaceInv, Scanned, Precedes
<1>4. \A r \in 0..Height, c \in 0..Width : Block(SelectedPixels, r, c) /= "None" =>
        \E i \in 1..Len(edges) : edges[i].row = r /\ edges[i].col = c
  BY <1>3, SelectedBlock DEF CornerInv, AllCornersInv
<1>5. \A i \in 1..Len(edges) :
        edges[i].type = Block(SelectedPixels, edges[i].row, edges[i].col)
  BY <1>2, SelectedBlock
<1> QED
  BY <1>1, <1>2, <1>4, <1>5, OrderOfEdges DEF CornersOf

LEMMA SweptLines ==
  ASSUME SweepTypeOK, CornerInv, LinksClosed, sweepPc = "swept"
  PROVE  LinesOfEdges(edges)
<1>1. /\ Len(edges) \in Nat
      /\ \A k \in 1..Len(edges) : edges[k].row \in Nat /\ edges[k].col \in Nat
  BY EdgeFields
<1>2. ASSUME NEW i \in 1..Len(edges), HasAbove(edges[i].type)
      PROVE  /\ edges[i].above \in 1..Len(edges) /\ HasBelow(edges[edges[i].above].type)
             /\ edges[edges[i].above].below = i
             /\ edges[edges[i].above].col = edges[i].col
             /\ edges[edges[i].above].row < edges[i].row
  <2>1. PICK a \in 1 .. i-1 : /\ a = edges[i].above /\ HasBelow(edges[a].type)
                              /\ edges[a].below = i /\ edges[a].col = edges[i].col
    BY <1>2 DEF LinksClosed
  <2>2. a \in 1..Len(edges) /\ a < i
    BY <1>1
  <2>3. Precedes(edges[a].row, edges[a].col, edges[i].row, edges[i].col)
    BY <2>2, OrderOfEdges
  <2>4. edges[a].row < edges[i].row
    BY <1>1, <2>1, <2>2, <2>3 DEF Precedes
  <2> QED
    BY <2>1, <2>2, <2>4
<1>3. ASSUME NEW i \in 1..Len(edges), HasBelow(edges[i].type)
      PROVE  /\ edges[i].below \in 1..Len(edges) /\ HasAbove(edges[edges[i].below].type)
             /\ edges[edges[i].below].above = i
             /\ edges[edges[i].below].col = edges[i].col
             /\ edges[edges[i].below].row > edges[i].row
  <2>1. PICK b \in i+1 .. Len(edges) : /\ b = edges[i].below /\ HasAbove(edges[b].type)
                                       /\ edges[b].above = i
    BY <1>3 DEF LinksClosed
  <2>2. b \in 1..Len(edges)
    BY <1>1
  <2>3. edges[i].col = edges[b].col /\ edges[i].row < edges[b].row
    BY <1>2, <2>1, <2>2
  <2> QED
    BY <1>1, <2>1, <2>2, <2>3
<1>4. ASSUME NEW i \in 1..Len(edges), HasRight(edges[i].type)
      PROVE  /\ i+1 \in 1..Len(edges) /\ HasLeft(edges[i+1].type)
             /\ edges[i+1].row = edges[i].row /\ edges[i+1].col > edges[i].col
  <2>1. i+1 \in 1..Len(edges) /\ HasLeft(edges[i+1].type) /\ edges[i+1].row = edges[i].row
    BY <1>1, <1>4 DEF LinksClosed
  <2>2. Precedes(edges[i].row, edges[i].col, edges[i+1].row, edges[i+1].col)
    BY <1>1, <2>1, OrderOfEdges
  <2> QED
    BY <1>1, <2>1, <2>2 DEF Precedes
<1>5. ASSUME NEW i \in 1..Len(edges), HasLeft(edges[i].type)
      PROVE  /\ i-1 \in 1..Len(edges) /\ HasRight(edges[i-1].type)
             /\ edges[i-1].row = edges[i].row /\ edges[i-1].col < edges[i].col
  <2>1. PICK n \in 1..Len(edges) : n = i-1 /\ n + 1 = i /\ HasRight(edges[n].type)
    <3>1. i-1 \in 1..Len(edges) /\ HasRight(edges[i-1].type) /\ (i-1) + 1 = i
      BY <1>1, <1>5 DEF LinksClosed
    <3> QED
      BY <3>1
  <2>2. edges[n+1].row = edges[n].row /\ edges[n+1].col > edges[n].col
    BY <1>4, <2>1
  <2> QED
    BY <1>1, <2>1, <2>2
<1> QED
  BY <1>2, <1>3, <1>4, <1>5 DEF LinesOfEdges

LEMMA SweptOutline ==
  ASSUME SweepTypeOK, CornerInv, LinksClosed, sweepPc = "swept"
  PROVE  OutlineOf(edges, SelectedPixels)
  BY SelectedIsPicture, SweptCorners, SweptLines DEF OutlineOf

-------------------------------------------------------------------------------

(***************************************************************************)
(* The rings as vertices.  A ring is closed, and its lines are lines of M. *)
(***************************************************************************)
Spot(E, i) == <<E[i].col, E[i].row>>

RingsHold(E, M, R) ==
  \A r \in 1..Len(R) :
    /\ R[r][1] = R[r][Len(R[r])]
    /\ \A k \in 1 .. Len(R[r])-1 :
         \E s \in M : R[r][k] = Spot(E, s[1]) /\ R[r][k+1] = Spot(E, Rev(E, s)[1])

\* Different lines have different ends.
LEMMA LineBySpots ==
  ASSUME NEW E, NEW S, OutlineOf(E, S), NEW s \in HalfLines(E), NEW u \in HalfLines(E),
         {Spot(E, s[1]), Spot(E, Rev(E, s)[1])} = {Spot(E, u[1]), Spot(E, Rev(E, u)[1])}
  PROVE  s = u \/ s = Rev(E, u)
<1>1. ASSUME NEW i \in 1..Len(E), NEW j \in 1..Len(E), Spot(E, i) = Spot(E, j)
      PROVE  i = j
  BY <1>1, OneEdge DEF Spot
<1>2. ASSUME NEW a \in HalfLines(E), NEW b \in HalfLines(E),
             a[1] = b[1], Rev(E, a)[1] = Rev(E, b)[1]
      PROVE  a = b
  <2>1. PICK i \in 1..Len(E), d \in LineDir : a = <<i, d>> /\ HasDir(E[i].type, d)
    BY DEF HalfLines
  <2>2. PICK c \in LineDir : b = <<i, c>> /\ HasDir(E[i].type, c)
    BY <1>2, <2>1 DEF HalfLines
  <2>3. FarEnd(E, i, d) = FarEnd(E, i, c)
    BY <1>2, <2>1, <2>2 DEF Rev
  <2>4. /\ HasRight(E[i].type) => FarEnd(E, i, "Right") = i+1
                                  /\ E[i+1].row = E[i].row
        /\ HasLeft(E[i].type) => FarEnd(E, i, "Left") = i-1
                                 /\ E[i-1].row = E[i].row
        /\ HasBelow(E[i].type) => FarEnd(E, i, "Down") = E[i].below
                                  /\ E[E[i].below].row > E[i].row
        /\ HasAbove(E[i].type) => FarEnd(E, i, "Up") = E[i].above
                                  /\ E[E[i].above].row < E[i].row
    BY DEF OutlineOf, LinesOfEdges, FarEnd
  <2>5. PICK n, m : n = FarEnd(E, i, d) /\ m = FarEnd(E, i, c)
    OBVIOUS
  <2>6. /\ d = "Right" => n = i+1 /\ E[n].row = E[i].row
        /\ d = "Left" => n = i-1 /\ E[n].row = E[i].row
        /\ d = "Down" => E[n].row > E[i].row
        /\ d = "Up" => E[n].row < E[i].row
    BY <2>1, <2>4, <2>5 DEF HasDir
  <2>7. /\ c = "Right" => m = i+1 /\ E[m].row = E[i].row
        /\ c = "Left" => m = i-1 /\ E[m].row = E[i].row
        /\ c = "Down" => E[m].row > E[i].row
        /\ c = "Up" => E[m].row < E[i].row
    BY <2>2, <2>4, <2>5 DEF HasDir
  <2>8. n = m /\ i \in Int /\ E[n].row \in Int /\ E[i].row \in Int
    <3>1. n \in 1..Len(E)
      BY <2>1, <2>5, StepEnds
    <3> QED
      BY <2>3, <2>5, <3>1, SizeAssumption DEF OutlineOf, CornersOf
  <2>9. d = c
    BY <2>6, <2>7, <2>8 DEF LineDir
  <2> QED
    BY <2>1, <2>2, <2>9
<1>3. /\ s[1] \in 1..Len(E) /\ Rev(E, s)[1] \in 1..Len(E)
      /\ u[1] \in 1..Len(E) /\ Rev(E, u)[1] \in 1..Len(E)
      /\ Rev(E, u) \in HalfLines(E) /\ Rev(E, Rev(E, u)) = u
  <2>1. /\ Rev(E, u) \in HalfLines(E) /\ Rev(E, Rev(E, u)) = u
        /\ Rev(E, s) \in HalfLines(E) /\ s[1] \in 1..Len(E) /\ u[1] \in 1..Len(E)
    BY StepTypes
  <2> QED
    BY <2>1, StepTypes
<1>4. \/ /\ Spot(E, s[1]) = Spot(E, u[1])
         /\ Spot(E, Rev(E, s)[1]) = Spot(E, Rev(E, u)[1])
      \/ /\ Spot(E, s[1]) = Spot(E, Rev(E, u)[1])
         /\ Spot(E, Rev(E, s)[1]) = Spot(E, u[1])
  OBVIOUS
<1>5. CASE s[1] = u[1] /\ Rev(E, s)[1] = Rev(E, u)[1]
  BY <1>2, <1>5
<1>6. CASE s[1] = Rev(E, u)[1] /\ Rev(E, s)[1] = u[1]
  BY <1>2, <1>3, <1>6
<1> QED
  BY <1>1, <1>3, <1>4, <1>5, <1>6

\* The walk back at its start, written down as a ring.
Wrote(E, q, ring) ==
  /\ Len(ring) = Len(q) + 1
  /\ \A k \in 1..Len(q) : ring[k] = Spot(E, q[k][1])
  /\ ring[Len(q)+1] = Spot(E, q[1][1])

LEMMA RingLines ==
  ASSUME NEW E, NEW S, NEW M, NEW q, OpenRing(E, S, M, q),
         Rev(E, q[Len(q)])[1] = q[1][1], NEW ring, Wrote(E, q, ring)
  PROVE  /\ ring[1] = ring[Len(ring)]
         /\ \A k \in 1 .. Len(ring)-1 :
              /\ k \in 1..Len(q) /\ q[k] \in HalfLines(E) /\ q[k] \in Touched(E, M, q)
              /\ ring[k] = Spot(E, q[k][1]) /\ ring[k+1] = Spot(E, Rev(E, q[k])[1])
<1>1. /\ Len(q) \in Nat /\ Len(q) \in 1..Len(q) /\ 1 \in 1..Len(q)
      /\ Path(E, q) /\ OutlineOf(E, S) /\ \A k \in 1..Len(q) : q[k] \in HalfLines(E)
  <2>1. Path(E, q) /\ OutlineOf(E, S)
    BY DEF OpenRing, ClosedRings
  <2>2. Len(q) > 0
    BY <2>1 DEF Path
  <2>3. Len(q) \in Nat /\ \A k \in 1..Len(q) : q[k] \in HalfLines(E)
    BY <2>1, PathSteps
  <2> QED
    BY <2>1, <2>2, <2>3
<1>2. ring[1] = ring[Len(ring)]
  BY <1>1 DEF Wrote
<1>3. ASSUME NEW k \in 1 .. Len(ring)-1
      PROVE  /\ k \in 1..Len(q) /\ q[k] \in HalfLines(E) /\ q[k] \in Touched(E, M, q)
             /\ ring[k] = Spot(E, q[k][1]) /\ ring[k+1] = Spot(E, Rev(E, q[k])[1])
  <2>1. k \in 1..Len(q)
    BY <1>1 DEF Wrote
  <2>2. q[k] \in Touched(E, M, q)
    BY <2>1, TouchedIs
  <2>3. ring[k+1] = Spot(E, Rev(E, q[k])[1])
    <3>1. CASE k = Len(q)
      BY <1>1, <3>1 DEF Wrote
    <3>2. CASE k /= Len(q)
      <4>1. k \in 1 .. Len(q)-1 /\ k+1 \in 1..Len(q)
        BY <1>1, <2>1, <3>2
      <4>2. ring[k+1] = Spot(E, q[k+1][1])
        BY <4>1 DEF Wrote
      <4>3. q[k+1] = Succ(E, q[k])
        BY <1>1, <4>1 DEF Path
      <4>4. Succ(E, q[k])[1] = Rev(E, q[k])[1]
        BY <1>1, <2>1, StepTypes
      <4> QED
        BY <4>2, <4>3, <4>4
    <3> QED
      BY <3>1, <3>2
  <2>4. ring[k] = Spot(E, q[k][1])
    BY <2>1 DEF Wrote
  <2> QED
    BY <1>1, <2>1, <2>2, <2>3, <2>4
<1> QED
  BY <1>2, <1>3

\* RingsShareNoLine, of any rings.
ShareNoLine(R) ==
  /\ \A r \in 1..Len(R) :
       /\ R[r][1] = R[r][Len(R[r])]
       /\ \A j, k \in 1 .. Len(R[r])-1 :
            {R[r][j], R[r][j+1]} = {R[r][k], R[r][k+1]} => j = k
  /\ \A r, s \in 1..Len(R) :
       r /= s => Lines(R[r]) \cap Lines(R[s]) = {}

\* A new ring shares no line with itself or with the older ones.
LEMMA RingsGrow ==
  ASSUME NEW E, NEW S, NEW M, NEW q, OpenRing(E, S, M, q),
         Rev(E, q[Len(q)])[1] = q[1][1],
         NEW R, Len(R) \in Nat, RingsHold(E, M, R), ShareNoLine(R),
         NEW Z, Len(Z) = Len(R) + 1, Wrote(E, q, Z[Len(R) + 1]),
         \A r \in 1..Len(R) : Z[r] = R[r]
  PROVE  RingsHold(E, Touched(E, M, q), Z) /\ ShareNoLine(Z)
<1>1. OutlineOf(E, S) /\ NoLineTwice(E, q) /\ LineSet(E, M)
      /\ \A k \in 1..Len(q) : q[k] \notin M
  BY DEF OpenRing, ClosedRings
<1>2. PICK ring : ring = Z[Len(R) + 1]
  OBVIOUS
<1>3. Wrote(E, q, ring)
  BY <1>2
<1>4. /\ ring[1] = ring[Len(ring)]
      /\ \A k \in 1 .. Len(ring)-1 :
           /\ k \in 1..Len(q) /\ q[k] \in HalfLines(E) /\ q[k] \in Touched(E, M, q)
           /\ ring[k] = Spot(E, q[k][1]) /\ ring[k+1] = Spot(E, Rev(E, q[k])[1])
  BY <1>3, RingLines
<1>5. PICK n : n = Len(R) + 1
  OBVIOUS
<1>6. /\ n \notin 1..Len(R) /\ Z[n] = ring
      /\ \A r \in 1..Len(Z) : r \in 1..Len(R) \/ r = n
  BY <1>5, <1>2
<1>7. \A r \in 1..Len(R) : Z[r] = R[r]
  OBVIOUS
<1>8. RingsHold(E, Touched(E, M, q), Z)
  <2>1. ASSUME NEW r \in 1..Len(R)
        PROVE  /\ R[r][1] = R[r][Len(R[r])]
               /\ \A k \in 1 .. Len(R[r])-1 : \E u \in Touched(E, M, q) :
                    R[r][k] = Spot(E, u[1]) /\ R[r][k+1] = Spot(E, Rev(E, u)[1])
    BY TouchedIs DEF RingsHold
  <2> QED
    <3>1. ASSUME NEW r \in 1..Len(Z)
          PROVE  /\ Z[r][1] = Z[r][Len(Z[r])]
                 /\ \A k \in 1 .. Len(Z[r])-1 : \E u \in Touched(E, M, q) :
                      Z[r][k] = Spot(E, u[1]) /\ Z[r][k+1] = Spot(E, Rev(E, u)[1])
      <4>1. CASE r \in 1..Len(R)
        BY <1>7, <2>1, <4>1
      <4>2. CASE r = n
        <5>1. Z[r] = ring
          BY <1>6, <4>2
        <5> QED
          BY <1>4, <5>1
      <4> QED
        BY <1>6, <4>1, <4>2
    <3> QED
      BY <3>1 DEF RingsHold
<1>9. ASSUME NEW j \in 1 .. Len(ring)-1, NEW k \in 1 .. Len(ring)-1,
             {ring[j], ring[j+1]} = {ring[k], ring[k+1]}
      PROVE  j = k
  <2>1. q[j] = q[k] \/ q[j] = Rev(E, q[k])
    <3>1. {Spot(E, q[j][1]), Spot(E, Rev(E, q[j])[1])}
            = {Spot(E, q[k][1]), Spot(E, Rev(E, q[k])[1])}
      BY <1>4, <1>9
    <3> QED
      BY <1>1, <1>4, <3>1, LineBySpots
  <2> QED
    BY <1>1, <1>4, <2>1 DEF NoLineTwice
<1>10. ASSUME NEW r \in 1..Len(R), NEW x \in Lines(R[r]), x \in Lines(ring)
       PROVE  FALSE
  <2>1. PICK j \in 1 .. Len(R[r])-1 : x = {R[r][j], R[r][j+1]}
    BY DEF Lines
  <2>2. PICK u \in M : R[r][j] = Spot(E, u[1]) /\ R[r][j+1] = Spot(E, Rev(E, u)[1])
    BY <2>1 DEF RingsHold
  <2>3. PICK k \in 1 .. Len(ring)-1 : x = {ring[k], ring[k+1]}
    BY <1>10 DEF Lines
  <2>4. u \in HalfLines(E) /\ Rev(E, u) \in M
    BY <1>1 DEF LineSet
  <2>5. u = q[k] \/ u = Rev(E, q[k])
    <3>1. {Spot(E, u[1]), Spot(E, Rev(E, u)[1])}
            = {Spot(E, q[k][1]), Spot(E, Rev(E, q[k])[1])}
      BY <1>4, <2>1, <2>2, <2>3
    <3> QED
      BY <1>1, <1>4, <2>4, <3>1, LineBySpots
  <2>6. Rev(E, Rev(E, q[k])) = q[k] /\ q[k] \notin M
    BY <1>1, <1>4, StepTypes
  <2> QED
    BY <2>4, <2>5, <2>6
<1>11. ShareNoLine(Z)
  <2>1. ASSUME NEW r \in 1..Len(Z)
        PROVE  /\ Z[r][1] = Z[r][Len(Z[r])]
               /\ \A j, k \in 1 .. Len(Z[r])-1 :
                    {Z[r][j], Z[r][j+1]} = {Z[r][k], Z[r][k+1]} => j = k
    <3>1. CASE r \in 1..Len(R)
      BY <1>7, <3>1 DEF ShareNoLine
    <3>2. CASE r = n
      <4>1. Z[r] = ring
        BY <1>6, <3>2
      <4> QED
        BY <1>4, <1>9, <4>1
    <3> QED
      BY <1>6, <3>1, <3>2
  <2>2. ASSUME NEW r \in 1..Len(Z), NEW t \in 1..Len(Z), r /= t
        PROVE  Lines(Z[r]) \cap Lines(Z[t]) = {}
    <3>1. CASE r \in 1..Len(R) /\ t \in 1..Len(R)
      BY <1>7, <2>2, <3>1 DEF ShareNoLine
    <3>2. CASE r \in 1..Len(R) /\ t = n
      BY <1>6, <1>7, <1>10, <3>2
    <3>3. CASE r = n /\ t \in 1..Len(R)
      BY <1>6, <1>7, <1>10, <3>3
    <3> QED
      BY <1>6, <2>2, <3>1, <3>2, <3>3
  <2> QED
    BY <2>1, <2>2 DEF ShareNoLine
<1> QED
  BY <1>8, <1>11

-------------------------------------------------------------------------------

(***************************************************************************)
(* The states of the trace, of any outline: between two rings, when M are  *)
(* the lines of the rings R and f is the next start; and on a ring, when q *)
(* is the way the walk w has come, and c counts the visit at its end, too. *)
(***************************************************************************)
Visits(c, i, b) == b = [c EXCEPT ![i] = @ + 1]

\* The way q from the edge f ends on the line that leaves edge i in direction d.
Comes(q, f, i, d) == q[1][1] = f /\ q[Len(q)][1] = i /\ q[Len(q)][2] = d

Between(E, S, M, f, c, R) ==
  /\ ClosedRings(E, S, M, f) /\ Counted(E, c, M)
  /\ f \in Nat /\ 1 =< f /\ f =< Len(E) + 1 /\ (f =< Len(E) => c[f] = 0)
  /\ Len(R) \in Nat /\ RingsHold(E, M, R) /\ ShareNoLine(R)

OnRing(E, S, M, q, c, w, R) ==
  /\ OpenRing(E, S, M, q)
  /\ Counted(E, c, Touched(E, M, q))
  /\ Len(q) = Len(w) + 1 /\ \A k \in 1..Len(w) : w[k] = Spot(E, q[k][1])
  /\ Len(R) \in Nat /\ RingsHold(E, M, R) /\ ShareNoLine(R)

\* The edge of a fresh list that no walk has visited: the corner above all.
LEMMA FirstIsFresh ==
  ASSUME NEW E, NEW S, OutlineOf(E, S), 1 =< Len(E)
  PROVE  PushedTimesChecked(E[1].type) = 0
<1>1. Len(E) \in Nat /\ 1 \in 1..Len(E) /\ E[1].type \in EdgeType
  BY DEF OutlineOf, CornersOf
<1>2. HasLeft(E[1].type) => 1-1 \in 1..Len(E)
  BY <1>1 DEF OutlineOf, LinesOfEdges
<1>3. ~HasLeft("Cross") => FALSE
  BY DEF HasLeft
<1> QED
  BY <1>1, <1>2, <1>3 DEF PushedTimesChecked

LEMMA TraceBegins ==
  ASSUME NEW E, NEW S, OutlineOf(E, S), 1 =< Len(E), NEW R, Len(R) \in Nat, Len(R) =< 0
  PROVE  Between(E, S, {}, 1, [i \in 1..Len(E) |-> PushedTimesChecked(E[i].type)], R)
<1> DEFINE c == [i \in 1..Len(E) |-> PushedTimesChecked(E[i].type)]
<1>1. Len(E) \in Nat /\ 1 \in 1..Len(E)
  BY DEF OutlineOf, CornersOf
<1>2. ClosedRings(E, S, {}, 1)
  <2>1. LineSet(E, {}) /\ Even(E, {}) /\ RingsOf(E, {}, 1)
    BY DEF LineSet, Even, RingsOf
  <2>2. Settled(E, {}, 1)
    BY <1>1 DEF Settled
  <2> QED
    BY <2>1, <2>2 DEF ClosedRings
<1>3. Counted(E, c, {})
  <2>1. \A t : PushedTimesChecked(t) \in Int
    BY DEF PushedTimesChecked
  <2>2. c \in [1..Len(E) -> Int]
    BY <2>1
  <2>3. \A j \in 1..Len(E) : Fits(E[j].type, c[j], At({}, j))
    BY DEF Fits, At
  <2> QED
    BY <2>2, <2>3 DEF Counted
<1>4. c[1] = 0
  BY <1>1, FirstIsFresh
<1>5. RingsHold(E, {}, R) /\ ShareNoLine(R)
  <2>1. \A r \in 1..Len(R) : FALSE
    OBVIOUS
  <2> QED
    BY <2>1 DEF RingsHold, ShareNoLine
<1> HIDE DEF c
<1>6. Between(E, S, {}, 1, c, R)
  BY <1>1, <1>2, <1>3, <1>4, <1>5 DEF Between
<1> QED
  BY <1>6 DEF c

LEMMA RingStarts ==
  ASSUME NEW E, NEW S, NEW M, NEW f, NEW c, NEW R, Between(E, S, M, f, c, R), f =< Len(E),
         NEW w, Len(w) \in Nat, Len(w) =< 0, NEW b, Visits(c, f, b)
  PROVE  \E q : OnRing(E, S, M, q, b, w, R) /\ Comes(q, f, f, "Right")
<1>1. /\ ClosedRings(E, S, M, f) /\ Counted(E, c, M) /\ OutlineOf(E, S)
      /\ Len(E) \in Nat /\ f \in 1..Len(E) /\ c[f] = 0
      /\ E[f].type \in EdgeType
  <2>1. /\ ClosedRings(E, S, M, f) /\ Counted(E, c, M)
        /\ f \in Nat /\ 1 =< f /\ c[f] = 0
    BY DEF Between
  <2>2. OutlineOf(E, S)
    BY <2>1 DEF ClosedRings
  <2>3. CornersOf(E, S)
    BY <2>2 DEF OutlineOf
  <2>4. Len(E) \in Nat /\ f \in 1..Len(E)
    BY <2>1, <2>3 DEF CornersOf
  <2>5. E[f].type \in EdgeType
    BY <2>3, <2>4 DEF CornersOf
  <2> QED
    BY <2>1, <2>2, <2>4, <2>5
<1>2. Fits(E[f].type, 0, At(M, f))
  BY <1>1 DEF Counted
<1>3. PICK s : s = <<f, "Right">>
  OBVIOUS
<1>4. PICK q : q = <<s>>
  OBVIOUS
<1>5. q \in Seq({s}) /\ Len(q) = 1 /\ q[1] = s
  BY <1>4
<1>6. /\ OpenRing(E, S, M, q)
      /\ \A x : x \in Touched(E, M, q)
                <=> x \in M \/ x = <<f, "Down">> \/ x = <<f, "Right">>
  <2>1. q \in Seq({<<f, "Right">>}) /\ Len(q) > 0 /\ Len(q) =< 1
    BY <1>3, <1>5
  <2> QED
    BY <1>1, <1>2, <2>1, RingBegins
<1>7. Counted(E, b, Touched(E, M, q))
  <2>1. /\ HasDir(E[f].type, "Right") /\ HasDir(E[f].type, "Down")
        /\ <<f, "Right">> \notin M /\ <<f, "Down">> \notin M
    BY <1>1, <1>2, StartIsNew
  <2>2. /\ E[f].type \in DOMAIN Turn["Up"] /\ Turn["Up"][E[f].type] = "Right"
        /\ Opposite["Up"] = "Down" /\ "Up" \in LineDir
    <3>1. E[f].type \in {"BottomRight", "Cross"}
      BY <1>1, <2>1, TypeTable DEF EdgeType, LineDir
    <3> QED
      BY <3>1, OppositeDirs DEF Turn, LineDir
  <2>3. PICK U : U = Touched(E, M, q)
    OBVIOUS
  <2>4. \A x : x \in U <=> x \in M \/ x = <<f, Opposite["Up"]>>
                                   \/ x = <<f, Turn["Up"][E[f].type]>>
    BY <1>6, <2>2, <2>3
  <2>5. Counted(E, [c EXCEPT ![f] = @ + 1], U)
    BY <1>1, <2>1, <2>2, <2>4, VisitCounted
  <2> QED
    BY <2>3, <2>5 DEF Visits
<1>8. q[Len(q)] = s /\ q[1][1] = f /\ s[1] = f
  BY <1>3, <1>5
<1>9. Len(q) = Len(w) + 1 /\ \A k \in 1..Len(w) : w[k] = Spot(E, q[k][1])
  BY <1>5
<1>10. OnRing(E, S, M, q, b, w, R)
  BY <1>6, <1>7, <1>9 DEF OnRing, Between
<1>11. Comes(q, f, f, "Right")
  BY <1>3, <1>8 DEF Comes
<1> QED
  BY <1>10, <1>11

\* The turn of a walk is a turn the table knows.
LEMMA TurnIsKnown ==
  ASSUME NEW E, NEW S, NEW M, NEW q, NEW c, NEW w, NEW R, OnRing(E, S, M, q, c, w, R)
  PROVE  /\ Len(q) \in Nat /\ Len(q) \in 1..Len(q) /\ q[Len(q)] \in HalfLines(E)
         /\ Rev(E, q[Len(q)])[1] \in 1..Len(E)
         /\ E[Rev(E, q[Len(q)])[1]].type \in EdgeType
         /\ E[Rev(E, q[Len(q)])[1]].type \in DOMAIN Turn[q[Len(q)][2]]
         /\ Succ(E, q[Len(q)]) \in HalfLines(E)
         /\ Succ(E, q[Len(q)])[1] = Rev(E, q[Len(q)])[1]
         /\ q[Len(q)][2] \in LineDir /\ q[Len(q)][1] \in 1..Len(E)
         /\ Rev(E, q[Len(q)]) \in HalfLines(E)
<1>1. Path(E, q) /\ OutlineOf(E, S)
  BY DEF OnRing, OpenRing, ClosedRings
<1>2. Len(q) \in Nat /\ Len(q) \in 1..Len(q) /\ q[Len(q)] \in HalfLines(E)
  BY <1>1, PathSteps DEF Path
<1>3. PICK s : s = q[Len(q)]
  OBVIOUS
<1>4. s \in HalfLines(E)
  BY <1>2, <1>3
<1>5. /\ Succ(E, s) \in HalfLines(E) /\ Succ(E, s)[1] = Rev(E, s)[1]
      /\ Rev(E, s) \in HalfLines(E) /\ s[1] \in 1..Len(E) /\ s[2] \in LineDir
      /\ E[Rev(E, s)[1]].type \in DOMAIN Turn[s[2]]
  BY <1>1, <1>4, StepTypes
<1>6. Rev(E, s)[1] \in 1..Len(E)
  BY <1>1, <1>5, StepTypes
<1>7. E[Rev(E, s)[1]].type \in EdgeType
  BY <1>1, <1>6 DEF OutlineOf, CornersOf
<1> QED
  BY <1>2, <1>3, <1>5, <1>6, <1>7

LEMMA RingGoesOn ==
  ASSUME NEW E, NEW S, NEW M, NEW q, NEW c, NEW w, NEW R, OnRing(E, S, M, q, c, w, R),
         Rev(E, q[Len(q)])[1] /= q[1][1],
         NEW v, Len(w) \in Nat, Len(v) = Len(w) + 1, \A k \in 1..Len(w) : v[k] = w[k],
         v[Len(w) + 1] = Spot(E, q[Len(q)][1]),
         NEW b, Visits(c, Rev(E, q[Len(q)])[1], b)
  PROVE  \E p : /\ OnRing(E, S, M, p, b, v, R)
                /\ Comes(p, q[1][1], Rev(E, q[Len(q)])[1], Succ(E, q[Len(q)])[2])
<1>1. PICK s : s = q[Len(q)]
  OBVIOUS
<1>2. PICK n : n = Rev(E, s)[1]
  OBVIOUS
<1>3. PICK u : u = Succ(E, s)
  OBVIOUS
<1>4. Visits(c, n, b)
  BY <1>1, <1>2
<1>5. PICK T : T = Touched(E, M, q)
  OBVIOUS
<1>6. /\ OpenRing(E, S, M, q) /\ Counted(E, c, T)
      /\ Len(q) = Len(w) + 1 /\ \A k \in 1..Len(w) : w[k] = Spot(E, q[k][1])
      /\ Len(R) \in Nat /\ RingsHold(E, M, R) /\ ShareNoLine(R)
      /\ q \in Seq(HalfLines(E)) /\ Len(q) \in Nat
  BY <1>5 DEF OnRing, OpenRing, Path
<1>7. /\ n \in 1..Len(E) /\ E[n].type \in EdgeType /\ E[n].type \in DOMAIN Turn[s[2]]
      /\ u \in HalfLines(E) /\ u[1] = n /\ s[2] \in LineDir
  BY <1>1, <1>2, <1>3, TurnIsKnown
<1>8. Fits(E[n].type, c[n], At(T, n))
  BY <1>6, <1>7 DEF Counted
<1>9. Rev(E, s) \notin T /\ u \notin T
  BY <1>1, <1>2, <1>3, <1>5, <1>6, <1>8, TurnIsNew
<1>10. PICK p : p = Append(q, u)
  OBVIOUS
<1>11. /\ p \in Seq(HalfLines(E)) /\ Len(p) = Len(q) + 1 /\ p[Len(q) + 1] = u
       /\ \A k \in 1..Len(q) : p[k] = q[k]
  BY <1>6, <1>7, <1>10, AppendProperties
<1>12. /\ OpenRing(E, S, M, p) /\ p[1] = q[1]
       /\ \A x : x \in Touched(E, M, p) <=> x \in T \/ x = Rev(E, s) \/ x = u
  BY <1>1, <1>3, <1>5, <1>6, <1>9, <1>11, PathGrows
<1>13. p[Len(p)] = u /\ p[Len(p)][1] = n
  BY <1>7, <1>11
<1>14. PICK U : U = Touched(E, M, p)
  OBVIOUS
<1>15. Rev(E, s) = <<n, Opposite[s[2]]>> /\ u = <<n, Turn[s[2]][E[n].type]>>
  BY <1>2, <1>3 DEF Rev, Succ
<1>16. Counted(E, b, U)
  <2>1. \A x : x \in U <=> x \in T \/ x = <<n, Opposite[s[2]]>>
                                   \/ x = <<n, Turn[s[2]][E[n].type]>>
    BY <1>12, <1>14, <1>15
  <2>2. <<n, Opposite[s[2]]>> \notin T /\ <<n, Turn[s[2]][E[n].type]>> \notin T
    BY <1>9, <1>15
  <2>3. Counted(E, [c EXCEPT ![n] = @ + 1], U)
    BY <1>6, <1>7, <2>1, <2>2, VisitCounted
  <2> QED
    BY <1>4, <2>3 DEF Visits
<1>17. OnRing(E, S, M, p, b, v, R)
  <2>1. Counted(E, b, Touched(E, M, p))
    BY <1>14, <1>16
  <2>2. Len(p) = Len(v) + 1
    BY <1>6, <1>11
  <2>3. ASSUME NEW k \in 1..Len(v)
        PROVE  v[k] = Spot(E, p[k][1])
    <3>1. CASE k \in 1..Len(w)
      <4>1. v[k] = w[k] /\ w[k] = Spot(E, q[k][1])
        BY <1>6, <3>1
      <4>2. p[k] = q[k]
        BY <1>6, <1>11, <3>1
      <4> QED
        BY <4>1, <4>2
    <3>2. CASE k = Len(q)
      BY <1>6, <1>11, <3>2
    <3> QED
      BY <1>6, <3>1, <3>2
  <2> QED
    BY <1>6, <1>12, <2>1, <2>2, <2>3 DEF OnRing
<1>18. Comes(p, q[1][1], n, u[2])
  BY <1>12, <1>13 DEF Comes
<1> QED
  BY <1>1, <1>2, <1>3, <1>17, <1>18

LEMMA RingIsClosed ==
  ASSUME NEW E, NEW S, NEW M, NEW q, NEW c, NEW w, NEW R, OnRing(E, S, M, q, c, w, R),
         Rev(E, q[Len(q)])[1] = q[1][1],
         NEW f \in Int, f > q[1][1], f =< Len(E) + 1, f =< Len(E) => c[f] = 0,
         \A j \in q[1][1]+1 .. f-1 : c[j] /= 0,
         NEW Z, Len(Z) = Len(R) + 1, Wrote(E, q, Z[Len(R) + 1]),
         \A r \in 1..Len(R) : Z[r] = R[r]
  PROVE  \E N : Between(E, S, N, f, c, Z)
<1>1. PICK s : s = q[Len(q)]
  OBVIOUS
<1>2. PICK e : e = q[1][1]
  OBVIOUS
<1>3. PICK N : N = Touched(E, M, q)
  OBVIOUS
<1>4. /\ OpenRing(E, S, M, q) /\ Counted(E, c, N)
      /\ Len(R) \in Nat /\ RingsHold(E, M, R) /\ ShareNoLine(R)
  BY <1>3 DEF OnRing
<1>5. Rev(E, s)[1] = e /\ f > e /\ \A j \in e+1 .. f-1 : c[j] /= 0
  BY <1>1, <1>2
<1>6. ClosedRings(E, S, N, f)
  BY <1>1, <1>2, <1>3, <1>4, <1>5, RingCloses
<1>7. RingsHold(E, N, Z) /\ ShareNoLine(Z)
  BY <1>3, <1>4, RingsGrow
<1>8. e \in Nat /\ 1 =< e
  <2>1. 1 \in 1..Len(q) /\ q[1] \in HalfLines(E)
    BY <1>4, PathSteps DEF OpenRing, Path
  <2> QED
    BY <1>2, <2>1 DEF HalfLines
<1>9. f \in Nat /\ 1 =< f /\ (f =< Len(E) => c[f] = 0)
  BY <1>5, <1>8
<1>10. Len(Z) \in Nat
  BY <1>4
<1> QED
  BY <1>4, <1>6, <1>7, <1>9, <1>10 DEF Between

-------------------------------------------------------------------------------

(***************************************************************************)
(* The trace is between two rings or on a ring of some outline.            *)
(***************************************************************************)
RingInv ==
  /\ tracePc = "wait" => walk = << >> /\ rings = << >> /\ firstEdge = 1
  /\ tracePc \in {"ring", "traced"} =>
       walk = << >> /\ \E S, M : Between(edges, S, M, firstEdge, checked, rings)
  /\ tracePc = "walk" => \E S, M, q : /\ OnRing(edges, S, M, q, Visited, walk, rings)
                                      /\ Comes(q, firstEdge, edge, dir)
  /\ tracePc = "traced" => firstEdge > Len(edges)
  /\ ShareNoLine(rings)

LEMMA RingInit == Init => RingInv
<1> SUFFICES ASSUME Init
             PROVE  RingInv
  OBVIOUS
<1>1. rings = << >> /\ Len(rings) = 0
  BY DEF Init, TraceInit
<1>2. ShareNoLine(rings)
  BY <1>1 DEF ShareNoLine
<1> QED
  BY <1>2 DEF Init, TraceInit, RingInv

\* A walk on a ring of an outline is where its way has come to.
LEMMA WalkIsOnRing ==
  ASSUME NEW q, Comes(q, firstEdge, edge, dir)
  PROVE  /\ Neighbour(edge, dir) = Rev(edges, q[Len(q)])[1]
         /\ edge = q[Len(q)][1] /\ dir = q[Len(q)][2] /\ firstEdge = q[1][1]
         /\ Turn[dir][edges[Neighbour(edge, dir)].type] = Succ(edges, q[Len(q)])[2]
<1>1. PICK s : s = q[Len(q)]
  OBVIOUS
<1>2. s[1] = edge /\ s[2] = dir /\ firstEdge = q[1][1]
  BY <1>1 DEF Comes
<1>3. FarEnd(edges, s[1], s[2]) = Neighbour(edge, dir)
  BY <1>2 DEF FarEnd, Neighbour
<1>4. Rev(edges, s)[1] = Neighbour(edge, dir)
  BY <1>3 DEF Rev
<1>5. Succ(edges, s)[2] = Turn[dir][edges[Neighbour(edge, dir)].type]
  BY <1>2, <1>3 DEF Succ
<1> QED
  BY <1>1, <1>2, <1>4, <1>5

LEMMA RingImpliesNoAssert ==
  ASSUME RingInv
  PROVE  NoAssert
<1> SUFFICES ASSUME tracePc = "walk"
             PROVE  CanTurn(Neighbour(edge, dir), dir)
  BY DEF NoAssert
<1>1. PICK E : E = edges
  OBVIOUS
<1>2. PICK S, M, q : /\ OnRing(E, S, M, q, Visited, walk, rings)
                     /\ Comes(q, firstEdge, edge, dir)
  BY <1>1 DEF RingInv
<1>3. /\ Rev(E, q[Len(q)])[1] \in 1..Len(E)
      /\ E[Rev(E, q[Len(q)])[1]].type \in DOMAIN Turn[q[Len(q)][2]]
  BY <1>2, TurnIsKnown
<1>4. Neighbour(edge, dir) = Rev(E, q[Len(q)])[1] /\ dir = q[Len(q)][2]
  BY <1>1, <1>2, WalkIsOnRing
<1> QED
  BY <1>1, <1>3, <1>4 DEF CanTurn

\* The next start: everything passed over is visited, and the start is not.
LEMMA NextStartIs ==
  ASSUME SweepTypeOK, firstEdge \in 1..Len(edges), NEW seen
  PROVE  /\ NextStart(seen) \in Int /\ NextStart(seen) > firstEdge
         /\ NextStart(seen) =< Len(edges) + 1
         /\ NextStart(seen) =< Len(edges) => seen[NextStart(seen)] = 0
         /\ \A j \in firstEdge+1 .. NextStart(seen)-1 : seen[j] /= 0
<1> DEFINE starts == {i \in firstEdge+1 .. Len(edges) : seen[i] = 0} \cup {Len(edges) + 1}
<1>1. Len(edges) \in Nat
  BY EdgeFields
<1>2. starts \in SUBSET Nat /\ starts /= {}
  BY <1>1
<1>3. \E i \in starts : \A j \in starts : i =< j
  <2> HIDE DEF starts
  <2> QED
    BY <1>2, LeastElement
<1>4. NextStart(seen) = CHOOSE i \in starts : \A j \in starts : i =< j
  BY DEF NextStart
<1>5. PICK n : n = NextStart(seen)
  OBVIOUS
<1>6. n \in starts /\ \A j \in starts : n =< j
  <2> HIDE DEF starts
  <2> QED
    BY <1>3, <1>4, <1>5
<1>7. n \in Int /\ n > firstEdge /\ n =< Len(edges) + 1 /\ (n =< Len(edges) => seen[n] = 0)
  BY <1>1, <1>6
<1>8. ASSUME NEW j \in firstEdge+1 .. n-1
      PROVE  seen[j] /= 0
  <2>1. j \in firstEdge+1 .. Len(edges) /\ ~(n =< j)
    BY <1>1, <1>7
  <2>2. j \notin starts
    BY <1>6, <2>1
  <2> QED
    BY <2>1, <2>2
<1> QED
  BY <1>5, <1>7, <1>8

\* The step that begins the trace.
LEMMA BeginTraceKeepsRings ==
  ASSUME SweepTypeOK, LinksClosed, CornerInv, RingInv, BeginTrace
  PROVE  RingInv'
<1>1. PICK E : E = edges
  OBVIOUS
<1>2. PICK S : OutlineOf(E, S)
  BY <1>1, SweptOutline DEF BeginTrace
<1>3. 1 =< Len(E)
  BY <1>1, EmptySeq, EdgeFields DEF SweepTypeOK, BeginTrace
<1>4. PICK R : R = rings
  OBVIOUS
<1>5. R = << >> /\ walk = << >>
  BY <1>4 DEF RingInv, BeginTrace
<1>6. Len(R) \in Nat /\ Len(R) =< 0
  BY <1>5
<1>7. PICK c : c = [i \in 1..Len(E) |-> PushedTimesChecked(E[i].type)]
  OBVIOUS
<1>8. Between(E, S, {}, 1, c, R)
  BY <1>2, <1>3, <1>6, <1>7, TraceBegins
<1>9. /\ tracePc' = "ring" /\ edges' = E /\ rings' = R /\ firstEdge' = 1
      /\ checked' = c /\ walk' = << >>
  BY <1>1, <1>4, <1>5, <1>7 DEF BeginTrace, sweepVars
<1> QED
  BY <1>4, <1>8, <1>9 DEF RingInv

\* The step that starts a ring.
LEMMA BeginRingKeepsRings ==
  ASSUME SweepTypeOK, RingInv, BeginRing
  PROVE  RingInv'
<1>1. PICK E, f, c, R : E = edges /\ f = firstEdge /\ c = checked /\ R = rings
  OBVIOUS
<1>2. PICK S, M : Between(E, S, M, f, c, R)
  BY <1>1 DEF RingInv, BeginRing
<1>3. PICK w : w = << >>
  OBVIOUS
<1>4. Len(w) \in Nat /\ Len(w) =< 0 /\ f =< Len(E)
  BY <1>1, <1>3 DEF BeginRing
<1>5. PICK b : b = Visited'
  OBVIOUS
<1>6. /\ tracePc' = "walk" /\ edges' = E /\ firstEdge' = f /\ checked' = c /\ rings' = R
      /\ edge' = f /\ dir' = "Right" /\ walk' = w
  BY <1>1, <1>3 DEF BeginRing, sweepVars
<1>7. Visits(c, f, b)
  BY <1>5, <1>6 DEF Visits, Visited
<1>8. PICK q : OnRing(E, S, M, q, b, w, R) /\ Comes(q, f, f, "Right")
  BY <1>2, <1>4, <1>7, RingStarts
<1> QED
  BY <1>1, <1>5, <1>6, <1>8 DEF RingInv

\* The step along a line.
LEMMA WalkOnKeepsRings ==
  ASSUME SweepTypeOK, TraceTypeOK, RingInv, WalkOn
  PROVE  RingInv'
<1>1. PICK E, f, c, R, w : /\ E = edges /\ f = firstEdge /\ c = Visited /\ R = rings
                           /\ w = walk
  OBVIOUS
<1>2. PICK S, M, q : OnRing(E, S, M, q, c, w, R) /\ Comes(q, f, edge, dir)
  BY <1>1 DEF RingInv, WalkOn
<1>3. PICK s : s = q[Len(q)]
  OBVIOUS
<1>4. /\ Neighbour(edge, dir) = Rev(E, s)[1] /\ edge = s[1] /\ dir = s[2] /\ f = q[1][1]
      /\ Turn[dir][edges[Neighbour(edge, dir)].type] = Succ(E, s)[2]
  BY <1>1, <1>2, <1>3, WalkIsOnRing
<1>5. PICK x : x = Spot(E, s[1])
  OBVIOUS
<1>6. PICK v : v = Append(w, x)
  OBVIOUS
<1>7. w \in Seq(Nat \X Nat)
  BY <1>1 DEF TraceTypeOK
<1>8. /\ Len(w) \in Nat /\ Len(v) = Len(w) + 1 /\ v[Len(w) + 1] = x
      /\ \A k \in 1..Len(w) : v[k] = w[k]
  BY <1>6, <1>7
<1>9. Rev(E, q[Len(q)])[1] /= q[1][1]
  BY <1>1, <1>3, <1>4 DEF WalkOn
<1>10. v[Len(w) + 1] = Spot(E, q[Len(q)][1])
  BY <1>3, <1>5, <1>8
<1>11. PICK b : b = Visited'
  OBVIOUS
<1>12. /\ tracePc' = "walk" /\ edges' = E /\ firstEdge' = f /\ rings' = R /\ walk' = v
       /\ checked' = c /\ edge' = Rev(E, s)[1] /\ dir' = Succ(E, s)[2]
  BY <1>1, <1>4, <1>5, <1>6 DEF WalkOn, Vertex, Spot, sweepVars
<1>13. Visits(c, Rev(E, q[Len(q)])[1], b)
  BY <1>3, <1>11, <1>12 DEF Visits, Visited
<1>14. PICK p : /\ OnRing(E, S, M, p, b, v, R)
                /\ Comes(p, q[1][1], Rev(E, q[Len(q)])[1], Succ(E, q[Len(q)])[2])
  BY <1>2, <1>8, <1>9, <1>10, <1>13, RingGoesOn
<1>15. Comes(p, firstEdge', edge', dir')
  BY <1>3, <1>4, <1>12, <1>14
<1> QED
  BY <1>1, <1>11, <1>12, <1>14, <1>15 DEF RingInv

\* The step that completes a ring.
LEMMA CloseRingKeepsRings ==
  ASSUME SweepTypeOK, TraceTypeOK, StartInv, RingInv, CloseRing
  PROVE  RingInv'
<1>1. PICK E, f, c, R, w : /\ E = edges /\ f = firstEdge /\ c = Visited /\ R = rings
                           /\ w = walk
  OBVIOUS
<1>2. PICK S, M, q : OnRing(E, S, M, q, c, w, R) /\ Comes(q, f, edge, dir)
  BY <1>1 DEF RingInv, CloseRing
<1>3. PICK s : s = q[Len(q)]
  OBVIOUS
<1>4. Neighbour(edge, dir) = Rev(E, s)[1] /\ edge = s[1] /\ q[1][1] = f
  BY <1>1, <1>2, <1>3, WalkIsOnRing
<1>5. Rev(E, q[Len(q)])[1] = q[1][1] /\ Neighbour(edge, dir) = f
  BY <1>1, <1>3, <1>4 DEF CloseRing
<1>6. PICK g : g = NextStart(c)
  OBVIOUS
<1>7. /\ g \in Int /\ g > f /\ g =< Len(E) + 1 /\ (g =< Len(E) => c[g] = 0)
      /\ \A j \in f+1 .. g-1 : c[j] /= 0
  BY <1>1, <1>6, NextStartIs DEF StartInv, CloseRing
<1>8. PICK ring : ring = w \o <<Vertex(edge), Vertex(f)>>
  OBVIOUS
<1>9. PICK Z : Z = Append(R, ring)
  OBVIOUS
<1>10. w \in Seq(Nat \X Nat) /\ R \in Seq(Seq(Nat \X Nat))
  BY <1>1 DEF TraceTypeOK
<1>11. /\ Len(R) \in Nat /\ Len(Z) = Len(R) + 1 /\ Z[Len(R) + 1] = ring
       /\ \A r \in 1..Len(R) : Z[r] = R[r]
  BY <1>9, <1>10
<1>12. Wrote(E, q, ring)
  <2>1. PICK x, y : x = Vertex(edge) /\ y = Vertex(f)
    OBVIOUS
  <2>2. PICK n : n = Len(w)
    OBVIOUS
  <2>3. /\ n \in Nat /\ Len(ring) = n + 2 /\ ring[n+1] = x /\ ring[n+2] = y
        /\ \A k \in 1..n : ring[k] = w[k]
    BY <1>8, <1>10, <2>1, <2>2
  <2>4. x = Spot(E, s[1]) /\ y = Spot(E, f)
    BY <1>1, <1>4, <2>1 DEF Vertex, Spot
  <2>5. Len(q) = n + 1 /\ \A k \in 1..n : w[k] = Spot(E, q[k][1])
    BY <1>2, <2>2 DEF OnRing
  <2>6. ASSUME NEW k \in 1..Len(q)
        PROVE  ring[k] = Spot(E, q[k][1])
    <3>1. CASE k \in 1..n
      BY <2>3, <2>5, <3>1
    <3>2. CASE k = n + 1
      BY <1>3, <2>3, <2>4, <2>5, <3>2
    <3> QED
      BY <2>3, <2>5, <3>1, <3>2
  <2>7. Len(ring) = Len(q) + 1 /\ ring[Len(q)+1] = Spot(E, q[1][1])
    BY <1>4, <2>3, <2>4, <2>5
  <2> QED
    BY <2>6, <2>7 DEF Wrote
<1>13. Wrote(E, q, Z[Len(R) + 1])
  BY <1>11, <1>12
<1>14. \E N : Between(E, S, N, g, c, Z)
  <2>1. g > q[1][1] /\ \A j \in q[1][1]+1 .. g-1 : c[j] /= 0
    BY <1>4, <1>7
  <2> QED
    BY <1>2, <1>5, <1>7, <1>11, <1>13, <2>1, RingIsClosed
<1>15. /\ tracePc' = "ring" /\ edges' = E /\ firstEdge' = g /\ rings' = Z /\ walk' = << >>
       /\ checked' = c
  BY <1>1, <1>5, <1>6, <1>8, <1>9 DEF CloseRing, sweepVars
<1> QED
  BY <1>14, <1>15 DEF RingInv, Between

LEMMA RingStep ==
  ASSUME SweepTypeOK, LinksClosed, CornerInv, TraceTypeOK, StartInv, WalkInv, RingInv,
         [Next]_vars
  PROVE  RingInv'
<1>1. sweepPc = "swept" => UNCHANGED <<sweepPc, edges>>
  BY SweptIsOver
<1>2. CASE SweepStep /\ UNCHANGED <<traceVars, orderVars>>
  BY <1>1, <1>2 DEF WalkInv, RingInv, Visited, traceVars
<1>3. CASE NoOutline \/ RingMemoryFails
  BY <1>3 DEF NoOutline, RingMemoryFails, ReturnEmpty, RingInv
<1>4. CASE EndTrace
  BY <1>4 DEF EndTrace, RingInv, sweepVars
<1>5. CASE OrderStep
  <2>1. UNCHANGED <<sweepVars, traceVars>>
    BY <1>5 DEF OrderStep, BeginOrder, OrderRing, BeginLink, LinkOuter, SkipInner, Return
  <2> QED
    BY <2>1 DEF sweepVars, traceVars, RingInv, Visited
<1>6. CASE UNCHANGED vars
  BY <1>6 DEF vars, sweepVars, traceVars, RingInv, Visited
<1> QED
  BY <1>2, <1>3, <1>4, <1>5, <1>6, BeginTraceKeepsRings, BeginRingKeepsRings,
     WalkOnKeepsRings, CloseRingKeepsRings DEF Next, CallOver, TraceStep

-------------------------------------------------------------------------------

(***************************************************************************)
(* The vertices.  The sweep counts VerticesOf() each edge; every step of a *)
(* walk writes one and visits an edge once more; and no edge is visited    *)
(* more often than the sweep has counted it.                               *)
(***************************************************************************)
CountInv == \E f : /\ \A k \in 1..Len(edges) : f[k] = VerticesOf(edges[k].type)
                   /\ SumIs(f, Len(edges), vertexCount)

\* The visits of all edges are x, and the lengths of all rings y.
VisitSum(E, c, x) ==
  \E f : /\ \A k \in 1..Len(E) : f[k] = c[k] - PushedTimesChecked(E[k].type)
         /\ SumIs(f, Len(E), x)

LengthSum(R, y) == \E g : /\ \A k \in 1..Len(R) : g[k] = Len(R[k])
                          /\ SumIs(g, Len(R), y)

VisitInv ==
  tracePc \in {"ring", "walk", "traced"} =>
    \E x, y : /\ VisitSum(edges, checked, x) /\ LengthSum(rings, y)
              /\ y + Len(walk) = x + Len(rings)

LEMMA CountInit == Init => CountInv
<1> SUFFICES ASSUME Init
             PROVE  CountInv
  OBVIOUS
<1>1. PICK n : n = Len(edges)
  OBVIOUS
<1>2. n = 0 /\ vertexCount = 0
  BY <1>1 DEF Init, SweepInit
<1>3. PICK f : f = [k \in 1..n |-> 0]
  OBVIOUS
<1>4. SumIs(f, n, 0)
  BY <1>2, <1>3, SumOfZeros
<1>5. \A k \in 1..Len(edges) : FALSE
  BY <1>1, <1>2
<1>6. SumIs(f, Len(edges), vertexCount)
  BY <1>1, <1>2, <1>4
<1> QED
  BY <1>5, <1>6 DEF CountInv

LEMMA CountStep ==
  ASSUME SweepTypeOK, CountInv, [SweepNext]_sweepVars
  PROVE  CountInv'
<1>1. CASE UNCHANGED <<edges, vertexCount>>
  BY <1>1 DEF CountInv
<1>2. CASE AddEdge
  <2>1. col =< Width /\ BlockType \in EdgeType
    BY <1>2, BlockTypeFacts DEF AddEdge
  <2>2. PICK t : t = BlockType
    OBVIOUS
  <2>3. PICK n : n = Len(edges)
    OBVIOUS
  <2>4. n \in Nat
    BY <2>3, EdgeFields
  <2>5. PICK E : E = edges'
    OBVIOUS
  <2>6. Len(E) = n + 1 /\ E[n+1].type = t /\ \A k \in 1..n : E[k].type = edges[k].type
    <3>1. E = PushEdge(t)
      BY <1>2, <2>2, <2>5 DEF AddEdge
    <3>2. col =< Width /\ t \in EdgeType
      BY <2>1, <2>2
    <3>3. /\ Len(PushEdge(t)) = Len(edges) + 1
          /\ \A k \in 1..Len(edges) : PushEdge(t)[k].type = edges[k].type
      BY <3>2, PushEdgeFacts
    <3>4. PushEdge(t)[Len(edges) + 1] =
            [type |-> t, row |-> row, col |-> col, above |-> AboveIdx(t), below |-> 0]
      BY <3>2, PushEdgeFacts
    <3> QED
      BY <2>3, <3>1, <3>3, <3>4
  <2>7. PICK f : /\ \A k \in 1..n : f[k] = VerticesOf(edges[k].type)
                 /\ SumIs(f, n, vertexCount)
    BY <2>3 DEF CountInv
  <2>8. PICK e : e = [k \in 1..n+1 |-> VerticesOf(E[k].type)]
    OBVIOUS
  <2>9. \A k \in 1..n+1 : e[k] = VerticesOf(E[k].type)
    BY <2>8
  <2>10. (\A k \in 1..n : e[k] = f[k]) /\ e[n+1] = VerticesOf(t) /\ e[n+1] \in Int
    <3>1. VerticesOf(t) \in Int /\ n+1 \in 1..n+1 /\ \A k \in 1..n : k \in 1..n+1
      BY <2>4 DEF VerticesOf
    <3> QED
      BY <2>6, <2>7, <2>9, <3>1
  <2>11. SumIs(e, n+1, vertexCount + e[n+1])
    BY <2>4, <2>7, <2>10, SumGrows
  <2>12. vertexCount' = vertexCount + e[n+1]
    BY <1>2, <2>2, <2>10 DEF AddEdge
  <2> QED
    BY <2>5, <2>6, <2>9, <2>11, <2>12 DEF CountInv
<1> QED
  BY <1>1, <1>2 DEF SweepNext, SweepStep, SweepOver, sweepVars, ReadRow, ReadBleedRow,
     SkipBlock, GrowFails, EndLine

\* What the sum in NumVertices is.
LEMMA NumVerticesIs ==
  ASSUME TraceTypeOK, NEW g, NEW y, \A k \in 1..Len(rings) : g[k] = Len(rings[k]),
         SumIs(g, Len(rings), y)
  PROVE  NumVertices = y
<1>1. PICK n : n = Len(rings)
  OBVIOUS
<1>2. n \in Nat
  BY <1>1 DEF TraceTypeOK
<1> DEFINE Sum(f) == f = [i \in 0..n |-> IF i = 0 THEN 0 ELSE f[i-1] + Len(rings[i])]
<1>3. PICK h : PartialSums(h, g, n) /\ h[n] = y
  BY <1>1 DEF SumIs
<1>4. PICK f : f = [i \in 0..n |-> h[i]]
  OBVIOUS
<1>5. Sum(f)
  <2>1. \A i \in 0..n : h[i] = IF i = 0 THEN 0 ELSE f[i-1] + Len(rings[i])
    BY <1>1, <1>2, <1>3, <1>4 DEF PartialSums
  <2> QED
    BY <1>4, <2>1
<1>6. PICK sum : sum = CHOOSE s : Sum(s)
  OBVIOUS
<1>7. Sum(sum)
  BY <1>5, <1>6
<1>8. NumVertices = sum[n]
  BY <1>1, <1>6 DEF NumVertices
<1>9. sum[0] = 0 /\ \A i \in 1..n : sum[i] = sum[i-1] + Len(rings[i])
  <2>1. PICK s : s = [i \in 0..n |-> IF i = 0 THEN 0 ELSE sum[i-1] + Len(rings[i])]
    OBVIOUS
  <2>2. sum = s
    BY <1>7, <2>1
  <2>3. \A i \in 0..n : s[i] = IF i = 0 THEN 0 ELSE sum[i-1] + Len(rings[i])
    BY <2>1
  <2> QED
    BY <1>2, <2>2, <2>3
<1> HIDE DEF Sum
<1> DEFINE A == {k \in Nat : k =< n => sum[k] = h[k]}
<1>10. 0 \in A
  BY <1>3, <1>9 DEF PartialSums
<1>11. ASSUME NEW k \in Nat, k \in A
       PROVE  k + 1 \in A
  <2> SUFFICES ASSUME k + 1 =< n
               PROVE  sum[k+1] = h[k+1]
    OBVIOUS
  <2>1. PICK m \in 1..n : m = k + 1 /\ m - 1 = k
    BY <1>2
  <2>2. sum[k] = h[k]
    BY <1>2, <1>11
  <2>3. h[m] = h[k] + g[m] /\ g[m] = Len(rings[m])
    BY <1>1, <1>3, <2>1 DEF PartialSums
  <2>4. sum[m] = sum[k] + Len(rings[m])
    BY <1>9, <2>1
  <2> QED
    BY <2>1, <2>2, <2>3, <2>4
<1> HIDE DEF A
<1>12. n \in A
  BY <1>2, <1>10, <1>11, Induction
<1> QED
  BY <1>2, <1>3, <1>8, <1>12 DEF A

\* How often an edge is visited, at most, and at the end.
LEMMA CountsAtMostOnce ==
  ASSUME NEW E, NEW c, NEW T, Counted(E, c, T)
  PROVE  \A j \in 1..Len(E) : c[j] \in Int /\ c[j] =< 1
  BY DEF Counted, Fits, PushedTimesChecked

LEMMA CountsAtTheEnd ==
  ASSUME NEW E, NEW S, NEW M, NEW f, NEW c, NEW R, Between(E, S, M, f, c, R), f > Len(E)
  PROVE  \A j \in 1..Len(E) : c[j] = 1
<1>1. /\ Len(E) \in Nat /\ f \in Nat /\ Counted(E, c, M) /\ Settled(E, M, f)
      /\ \A j \in 1..Len(E) : E[j].type \in EdgeType
  <2>1. ClosedRings(E, S, M, f) /\ Counted(E, c, M) /\ f \in Nat
    BY DEF Between
  <2>2. OutlineOf(E, S) /\ Settled(E, M, f)
    BY <2>1 DEF ClosedRings
  <2>3. CornersOf(E, S)
    BY <2>2 DEF OutlineOf
  <2>4. Len(E) \in Nat /\ \A j \in 1..Len(E) : E[j].type \in EdgeType
    BY <2>3 DEF CornersOf
  <2> QED
    BY <2>1, <2>2, <2>4
<1> SUFFICES ASSUME NEW j \in 1..Len(E)
             PROVE  c[j] = 1
  OBVIOUS
<1>2. \A d \in LineDir : HasDir(E[j].type, d) => d \in At(M, j)
  <2>1. j < f
    BY <1>1
  <2>2. \A d \in LineDir : HasDir(E[j].type, d) => <<j, d>> \in M
    BY <1>1, <2>1 DEF Settled
  <2> QED
    BY <2>2, AtIs
<1>3. PICK P : P = At(M, j)
  OBVIOUS
<1>4. PICK t : t = E[j].type
  OBVIOUS
<1>5. /\ t \in EdgeType /\ Fits(t, c[j], P)
      /\ \A d \in LineDir : HasDir(t, d) => d \in P
  BY <1>1, <1>2, <1>3, <1>4 DEF Counted
<1>6. \E d \in LineDir : HasDir(t, d)
  BY <1>5, TypeTable DEF EdgeType, LineDir
<1>7. CASE \A x \in LineDir : x \notin P
  BY <1>5, <1>6, <1>7
<1>8. ASSUME t = "Cross", NEW d \in LineDir,
             \A x \in LineDir : x \in P <=> x = Opposite[d] \/ x = Turn[d]["Cross"]
      PROVE  FALSE
  <2>1. "Up" \in P /\ "Down" \in P /\ "Left" \in P /\ "Right" \in P
    BY <1>5, <1>8, TypeTable DEF LineDir
  <2> QED
    BY <1>8, <2>1 DEF LineDir
<1> QED
  BY <1>5, <1>7, <1>8 DEF Fits

\* No edge of the list is visited more than once too often, a cross once more.
LEMMA CheckedAtMostOnce ==
  ASSUME SweepTypeOK, TraceTypeOK, RingInv, tracePc \in {"ring", "walk", "traced"}
  PROVE  \A j \in 1..Len(edges) : checked[j] \in Int /\ checked[j] =< 1
<1>1. CASE tracePc \in {"ring", "traced"}
  <2>1. PICK S, M : Between(edges, S, M, firstEdge, checked, rings)
    BY <1>1 DEF RingInv
  <2>2. Counted(edges, checked, M)
    BY <2>1 DEF Between
  <2> QED
    BY <2>2, CountsAtMostOnce
<1>2. CASE tracePc = "walk"
  <2>1. PICK S, M, q : OnRing(edges, S, M, q, Visited, walk, rings)
    BY <1>2 DEF RingInv
  <2>2. PICK T : Counted(edges, Visited, T)
    BY <2>1 DEF OnRing
  <2>3. \A j \in 1..Len(edges) : Visited[j] \in Int /\ Visited[j] =< 1
    BY <2>2, CountsAtMostOnce
  <2>4. Visited \in [1..Len(edges) -> Int]
    BY <2>2 DEF Counted
  <2>5. checked \in [1..Len(checked) -> Int]
    BY DEF TraceTypeOK
  <2>6. DOMAIN checked = 1..Len(edges)
    BY <2>4, <2>5 DEF Visited
  <2> SUFFICES ASSUME NEW j \in 1..Len(edges)
               PROVE  checked[j] \in Int /\ checked[j] =< 1
    OBVIOUS
  <2>7. checked[j] \in Int
    BY <2>5, <2>6
  <2>8. Visited[j] = checked[j] \/ Visited[j] = checked[j] + 1
    BY <2>5, <2>6 DEF Visited
  <2> QED
    BY <2>3, <2>7, <2>8
<1> QED
  BY <1>1, <1>2

LEMMA VisitImplies ==
  ASSUME SweepTypeOK, TraceTypeOK, RingInv, CountInv, VisitInv
  PROVE  VertexCountRight
<1> SUFFICES ASSUME tracePc \in {"ring", "walk", "traced"}
             PROVE  /\ NumVertices + Len(walk) =< VertexTotal
                    /\ tracePc = "traced" => NumVertices = VertexTotal
  BY DEF VertexCountRight
<1>1. PICK n : n = Len(edges)
  OBVIOUS
<1>2. n \in Nat /\ \A k \in 1..n : edges[k].type \in EdgeType
  BY <1>1, EdgeFields
<1>3. PICK e : /\ \A k \in 1..n : e[k] = VerticesOf(edges[k].type)
               /\ SumIs(e, n, vertexCount)
  BY <1>1 DEF CountInv
<1>4. PICK x, y : /\ VisitSum(edges, checked, x) /\ LengthSum(rings, y)
                  /\ y + Len(walk) = x + Len(rings)
  BY DEF VisitInv
<1>5. PICK f : /\ \A k \in 1..n : f[k] = checked[k] - PushedTimesChecked(edges[k].type)
               /\ SumIs(f, n, x)
  BY <1>1, <1>4 DEF VisitSum
<1>6. y \in Int /\ NumVertices = y
  <2>1. PICK g : (\A k \in 1..Len(rings) : g[k] = Len(rings[k])) /\ SumIs(g, Len(rings), y)
    BY <1>4 DEF LengthSum
  <2>2. y \in Int
    BY <2>1 DEF SumIs, PartialSums, TraceTypeOK
  <2> QED
    BY <2>1, <2>2, NumVerticesIs
<1>7. \A k \in 1..n : checked[k] \in Int /\ checked[k] =< 1
  BY <1>1, CheckedAtMostOnce
<1>8. \A k \in 1..n : f[k] =< e[k] /\ (checked[k] = 1 => f[k] = e[k])
  BY <1>3, <1>5, <1>7 DEF VerticesOf, PushedTimesChecked
<1>9. x \in Int /\ vertexCount \in Int /\ x =< vertexCount
  BY <1>2, <1>3, <1>5, <1>8, SumCompare
<1>10. Len(rings) \in Nat /\ Len(walk) \in Nat
  BY DEF TraceTypeOK
<1>11. y + Len(walk) =< vertexCount + Len(rings)
  BY <1>4, <1>6, <1>9, <1>10
<1>12. ASSUME tracePc = "traced"
       PROVE  y = vertexCount + Len(rings)
  <2>1. PICK S, M : Between(edges, S, M, firstEdge, checked, rings)
    BY <1>12 DEF RingInv
  <2>2. firstEdge > Len(edges) /\ walk = << >>
    BY <1>12 DEF RingInv
  <2>3. \A k \in 1..n : checked[k] = 1
    BY <1>1, <2>1, <2>2, CountsAtTheEnd
  <2>4. \A k \in 1..n : f[k] = e[k]
    BY <1>8, <2>3
  <2>5. x = vertexCount
    BY <1>2, <1>3, <1>5, <2>4, SumIsOne
  <2>6. Len(walk) = 0
    BY <2>2
  <2> QED
    BY <1>4, <1>6, <1>10, <2>5, <2>6
<1> QED
  BY <1>6, <1>11, <1>12 DEF VertexTotal

\* Nothing is visited, nothing written.
LEMMA NoVisits ==
  ASSUME NEW E, Len(E) \in Nat, NEW R, Len(R) \in Nat, Len(R) =< 0,
         NEW c, \A k \in 1..Len(E) : c[k] = PushedTimesChecked(E[k].type)
  PROVE  VisitSum(E, c, 0) /\ LengthSum(R, 0)
<1>1. PICK n, m : n = Len(E) /\ m = Len(R)
  OBVIOUS
<1>2. PICK f : f = [k \in 1..n |-> 0]
  OBVIOUS
<1>3. \A k \in 1..n : f[k] = 0
  BY <1>2
<1>4. SumIs(f, n, 0)
  BY <1>1, <1>3, SumOfZeros
<1>5. \A t : PushedTimesChecked(t) \in Int
  BY DEF PushedTimesChecked
<1>6. \A k \in 1..n : f[k] = c[k] - PushedTimesChecked(E[k].type)
  BY <1>1, <1>3, <1>5
<1>7. \A k \in 1..m : f[k] = 0 /\ FALSE
  BY <1>1
<1>8. SumIs(f, m, 0)
  BY <1>1, <1>7, SumOfZeros
<1> QED
  BY <1>1, <1>4, <1>6, <1>7, <1>8 DEF VisitSum, LengthSum

\* One more visit.
LEMMA VisitsGrow ==
  ASSUME NEW E, Len(E) \in Nat, NEW c, NEW x, VisitSum(E, c, x), NEW i \in 1..Len(E),
         \A k \in 1..Len(E) : c[k] \in Int,
         NEW b, b[i] = c[i] + 1, \A k \in 1..Len(E) : k /= i => b[k] = c[k]
  PROVE  VisitSum(E, b, x+1) /\ x \in Int
<1>1. PICK n : n = Len(E)
  OBVIOUS
<1>2. PICK f : /\ \A k \in 1..n : f[k] = c[k] - PushedTimesChecked(E[k].type)
               /\ SumIs(f, n, x)
  BY <1>1 DEF VisitSum
<1>3. PICK e : e = [k \in 1..n |-> b[k] - PushedTimesChecked(E[k].type)]
  OBVIOUS
<1>4. \A k \in 1..n : e[k] = b[k] - PushedTimesChecked(E[k].type)
  BY <1>3
<1>5. \A t : PushedTimesChecked(t) \in Int
  BY DEF PushedTimesChecked
<1>6. e[i] = f[i] + 1
  BY <1>1, <1>2, <1>4, <1>5
<1>7. \A k \in 1..n : k /= i => e[k] = f[k]
  BY <1>1, <1>2, <1>4, <1>5
<1>8. SumIs(e, n, x+1) /\ x \in Int
  BY <1>1, <1>2, <1>6, <1>7, SumRaised
<1> QED
  BY <1>1, <1>4, <1>8 DEF VisitSum

\* One more ring.
LEMMA LengthsGrow ==
  ASSUME NEW R, Len(R) \in Nat, NEW y, LengthSum(R, y),
         NEW Z, Len(Z) = Len(R) + 1, \A k \in 1..Len(R) : Z[k] = R[k],
         NEW l \in Int, Len(Z[Len(R) + 1]) = l
  PROVE  LengthSum(Z, y + l) /\ y \in Int
<1>1. PICK n : n = Len(R)
  OBVIOUS
<1>2. PICK g : (\A k \in 1..n : g[k] = Len(R[k])) /\ SumIs(g, n, y)
  BY <1>1 DEF LengthSum
<1>3. PICK h : h = [k \in 1..n+1 |-> Len(Z[k])]
  OBVIOUS
<1>4. \A k \in 1..n+1 : h[k] = Len(Z[k])
  BY <1>3
<1>5. (\A k \in 1..n : h[k] = g[k]) /\ h[n+1] \in Int /\ h[n+1] = l
  <2>1. \A k \in 1..n : k \in 1..n+1 /\ Z[k] = R[k]
    BY <1>1
  <2>2. n+1 \in 1..n+1 /\ Len(Z[n+1]) = l
    BY <1>1
  <2> QED
    BY <1>2, <1>4, <2>1, <2>2
<1>6. SumIs(h, n+1, y + h[n+1]) /\ y \in Int
  BY <1>1, <1>2, <1>5, SumGrows
<1> QED
  BY <1>1, <1>4, <1>5, <1>6 DEF LengthSum

\* A walk visits the edge it leaves.
LEMMA WalkVisits ==
  ASSUME SweepTypeOK, TraceTypeOK, WalkInv, RingInv, tracePc = "walk",
         NEW x, VisitSum(edges, checked, x)
  PROVE  VisitSum(edges, Visited, x+1) /\ x \in Int
<1>1. edge \in 1..Len(edges) /\ Len(edges) \in Nat
  BY EdgeFields DEF WalkInv
<1>2. \A k \in 1..Len(edges) : checked[k] \in Int
  BY CheckedAtMostOnce
<1>3. 1..Len(edges) \subseteq DOMAIN checked
  <2>1. PICK S, M, q : OnRing(edges, S, M, q, Visited, walk, rings)
    BY DEF RingInv
  <2>2. Visited \in [1..Len(edges) -> Int]
    BY <2>1 DEF OnRing, Counted
  <2>3. DOMAIN Visited = DOMAIN checked
    BY DEF Visited
  <2> QED
    BY <2>2, <2>3
<1>4. PICK b : b = Visited
  OBVIOUS
<1>5. b[edge] = checked[edge] + 1 /\ \A k \in 1..Len(edges) : k /= edge => b[k] = checked[k]
  BY <1>1, <1>3, <1>4 DEF Visited
<1>6. VisitSum(edges, b, x+1) /\ x \in Int
  BY <1>1, <1>2, <1>5, VisitsGrow
<1> QED
  BY <1>4, <1>6

LEMMA VisitInit == Init => VisitInv
  BY DEF Init, TraceInit, VisitInv

\* Every visit is a vertex.
LEMMA VisitStep ==
  ASSUME SweepTypeOK, TraceTypeOK, WalkInv, RingInv, VisitInv, [Next]_vars
  PROVE  VisitInv'
<1>1. Len(edges) \in Nat /\ Len(rings) \in Nat /\ Len(walk) \in Nat
  BY EdgeFields DEF TraceTypeOK
<1>2. tracePc \in {"ring", "walk", "traced"} => UNCHANGED <<sweepPc, edges>>
  BY SweptIsOver DEF WalkInv
<1>3. ASSUME tracePc' = tracePc \/ tracePc \in {"ring", "walk", "traced"},
             UNCHANGED <<checked, rings>>, Len(walk') = Len(walk)
      PROVE  VisitInv'
  BY <1>2, <1>3 DEF VisitInv
<1>4. CASE NoOutline \/ RingMemoryFails
  BY <1>4 DEF NoOutline, RingMemoryFails, ReturnEmpty, VisitInv
<1>5. CASE BeginTrace
  <2>1. rings = << >> /\ walk = << >>
    BY <1>5 DEF BeginTrace, RingInv
  <2>2. Len(rings) = 0 /\ Len(walk) = 0
    BY <2>1
  <2>3. PICK c : c = checked'
    OBVIOUS
  <2>4. \A k \in 1..Len(edges) : c[k] = PushedTimesChecked(edges[k].type)
    BY <1>5, <2>3 DEF BeginTrace
  <2>5. VisitSum(edges, c, 0) /\ LengthSum(rings, 0)
    BY <1>1, <2>2, <2>4, NoVisits
  <2>6. UNCHANGED <<edges, rings, walk>>
    BY <1>5 DEF BeginTrace, sweepVars
  <2> QED
    BY <2>2, <2>3, <2>5, <2>6 DEF VisitInv
<1>6. CASE BeginRing
  <2>1. walk = << >> /\ walk' = << >>
    BY <1>6 DEF BeginRing, RingInv
  <2> QED
    BY <1>3, <1>6, <2>1 DEF BeginRing
<1>7. CASE WalkOn
  <2>1. PICK x, y : /\ VisitSum(edges, checked, x) /\ LengthSum(rings, y)
                    /\ y + Len(walk) = x + Len(rings)
    BY <1>7 DEF VisitInv, WalkOn
  <2>2. VisitSum(edges, Visited, x+1) /\ x \in Int
    BY <1>7, <2>1, WalkVisits DEF WalkOn
  <2>3. PICK v : v = Vertex(edge)
    OBVIOUS
  <2>4. walk' = Append(walk, v) /\ checked' = Visited /\ UNCHANGED <<edges, rings>>
    BY <1>7, <2>3 DEF WalkOn, sweepVars
  <2>5. Len(walk') = Len(walk) + 1
    BY <2>4 DEF TraceTypeOK
  <2>6. y \in Int
    BY <1>1, <2>1 DEF LengthSum, SumIs, PartialSums
  <2>7. y + Len(walk') = (x+1) + Len(rings')
    BY <1>1, <2>1, <2>2, <2>4, <2>5, <2>6
  <2> QED
    BY <2>1, <2>2, <2>4, <2>7 DEF VisitInv
<1>8. CASE CloseRing
  <2>1. PICK x, y : /\ VisitSum(edges, checked, x) /\ LengthSum(rings, y)
                    /\ y + Len(walk) = x + Len(rings)
    BY <1>8 DEF VisitInv, CloseRing
  <2>2. VisitSum(edges, Visited, x+1) /\ x \in Int
    BY <1>8, <2>1, WalkVisits DEF CloseRing
  <2>3. PICK u, v : u = Vertex(edge) /\ v = Vertex(Neighbour(edge, dir))
    OBVIOUS
  <2>4. PICK ring : ring = walk \o <<u, v>>
    OBVIOUS
  <2>5. PICK l : l = Len(walk) + 2
    OBVIOUS
  <2>6. PICK Z : Z = Append(rings, ring)
    OBVIOUS
  <2>7. /\ rings' = Z /\ checked' = Visited /\ walk' = << >> /\ UNCHANGED edges
    BY <1>8, <2>3, <2>4, <2>6 DEF CloseRing, sweepVars
  <2>8. l \in Int /\ Len(ring) = l
    BY <1>1, <2>4, <2>5 DEF TraceTypeOK
  <2>9. /\ Len(Z) = Len(rings) + 1 /\ Z[Len(rings) + 1] = ring
        /\ \A k \in 1..Len(rings) : Z[k] = rings[k]
    BY <2>6 DEF TraceTypeOK
  <2>10. Len(Z[Len(rings) + 1]) = l
    BY <2>8, <2>9
  <2>11. LengthSum(Z, y + l) /\ y \in Int
    BY <1>1, <2>1, <2>8, <2>9, <2>10, LengthsGrow
  <2>12. Len(walk') = 0
    BY <2>7
  <2>13. (y + l) + Len(walk') = (x+1) + Len(Z)
    BY <1>1, <2>1, <2>2, <2>5, <2>9, <2>11, <2>12
  <2> QED
    BY <2>2, <2>7, <2>11, <2>13 DEF VisitInv
<1>9. CASE EndTrace
  BY <1>3, <1>9 DEF EndTrace
<1>10. CASE OrderStep
  <2>1. UNCHANGED <<sweepVars, traceVars>>
    BY <1>10 DEF OrderStep, BeginOrder, OrderRing, BeginLink, LinkOuter, SkipInner, Return
  <2> QED
    BY <1>3, <2>1 DEF traceVars
<1>11. CASE UNCHANGED traceVars
  BY <1>3, <1>11 DEF traceVars
<1> QED
  BY <1>4, <1>5, <1>6, <1>7, <1>8, <1>9, <1>10, <1>11 DEF Next, CallOver, TraceStep, vars

-------------------------------------------------------------------------------

(***************************************************************************)
(* The invariant of the whole call.                                        *)
(***************************************************************************)
CallInv ==
  /\ SweepTypeOK /\ LinkInv /\ CornerInv /\ CountInv
  /\ TraceTypeOK /\ StartInv /\ WalkInv /\ RingInv /\ VisitInv
  /\ RankInv

LEMMA CallInvariant == Spec => []CallInv
<1>1. Init => CallInv
  <2>1. Init => SweepTypeOK /\ LinkInv /\ CornerInv /\ CountInv
    BY SweepTypeInit, LinkInit, CornerInit, CountInit DEF Init
  <2>2. Init => TraceTypeOK /\ StartInv /\ WalkInv /\ RingInv /\ VisitInv /\ RankInv
    BY TraceTypeInit, WalkInit, RingInit, VisitInit, OrderTypeInit
  <2> QED
    BY <2>1, <2>2 DEF CallInv
<1>2. CallInv /\ [Next]_vars => CallInv'
  <2> SUFFICES ASSUME CallInv, [Next]_vars
               PROVE  CallInv'
    OBVIOUS
  <2>1. /\ SweepTypeOK /\ LinkInv /\ CornerInv /\ CountInv
        /\ TraceTypeOK /\ StartInv /\ WalkInv /\ RingInv /\ VisitInv /\ RankInv
    BY DEF CallInv
  <2>2. [SweepNext]_sweepVars
    BY StepOfSweep
  <2>3. SweepTypeOK' /\ LinkInv' /\ CornerInv' /\ CountInv'
    BY <2>1, <2>2, SweepTypeStep, LinkStep, CornerStep, CountStep
  <2>4. TraceTypeOK' /\ StartInv' /\ WalkInv'
    BY <2>1, TraceTypeStep, WalkStep
  <2>5. RingInv'
    BY <2>1, LinkImplies, RingStep
  <2>6. VisitInv' /\ RankInv'
    BY <2>1, VisitStep, OrderTypeStep
  <2> QED
    BY <2>3, <2>4, <2>5, <2>6 DEF CallInv
<1> QED
  BY <1>1, <1>2, PTL DEF Spec

(***************************************************************************)
(* In every state of every call the variables have their types: no walk    *)
(* leaves the list, no index of the ordering leaves the rings.             *)
(***************************************************************************)
THEOREM CallTypesCorrect == Spec => []TypeOK
<1>1. CallInv => TypeOK
  BY DEF CallInv, TypeOK, RankInv
<1> QED
  BY <1>1, CallInvariant, PTL

(***************************************************************************)
(* In every call, on every raster, no Assert(0) of the walk fails: a walk  *)
(* always finds a line to go on along.                                     *)
(***************************************************************************)
THEOREM WalkNeverStuck == Spec => []NoAssert
<1>1. CallInv => NoAssert
  BY RingImpliesNoAssert DEF CallInv
<1> QED
  BY <1>1, CallInvariant, PTL

(***************************************************************************)
(* In every call, on every raster, no line of the outline is in two rings  *)
(* or twice in one, however the selected pixels touch at their corners.    *)
(***************************************************************************)
THEOREM RingsNeverShareLine == Spec => []RingsShareNoLine
<1>1. CallInv => RingsShareNoLine
  BY DEF CallInv, RingInv, ShareNoLine, RingsShareNoLine
<1> QED
  BY <1>1, CallInvariant, PTL

(***************************************************************************)
(* In every call, on every raster, the walks never write more vertices     *)
(* than the sweep has counted, and in the end exactly as many.             *)
(***************************************************************************)
THEOREM VerticesNeverMiscounted == Spec => []VertexCountRight
<1>1. CallInv => VertexCountRight
  BY VisitImplies DEF CallInv
<1> QED
  BY <1>1, CallInvariant, PTL
===============================================================================
