---------------------------- MODULE EdgeSweepProofs ----------------------------
(***************************************************************************)
(* Proofs about the line sweep, for every size of the raster, every image  *)
(* and every failure of a read or an allocation.                           *)
(***************************************************************************)
EXTENDS EdgeSweep, SequenceTheorems, TLAPS

\* The sixteen values of GetBlockEdges().
LEMMA BlockEdgesTable ==
  /\ GetBlockEdges(TRUE, TRUE, TRUE, TRUE) = "None"
  /\ GetBlockEdges(TRUE, TRUE, TRUE, FALSE) = "BottomRight"
  /\ GetBlockEdges(TRUE, TRUE, FALSE, TRUE) = "BottomLeft"
  /\ GetBlockEdges(TRUE, TRUE, FALSE, FALSE) = "None"
  /\ GetBlockEdges(TRUE, FALSE, TRUE, TRUE) = "TopRight"
  /\ GetBlockEdges(TRUE, FALSE, TRUE, FALSE) = "None"
  /\ GetBlockEdges(TRUE, FALSE, FALSE, TRUE) = "Cross"
  /\ GetBlockEdges(TRUE, FALSE, FALSE, FALSE) = "TopLeft"
  /\ GetBlockEdges(FALSE, TRUE, TRUE, TRUE) = "TopLeft"
  /\ GetBlockEdges(FALSE, TRUE, TRUE, FALSE) = "Cross"
  /\ GetBlockEdges(FALSE, TRUE, FALSE, TRUE) = "None"
  /\ GetBlockEdges(FALSE, TRUE, FALSE, FALSE) = "TopRight"
  /\ GetBlockEdges(FALSE, FALSE, TRUE, TRUE) = "None"
  /\ GetBlockEdges(FALSE, FALSE, TRUE, FALSE) = "BottomLeft"
  /\ GetBlockEdges(FALSE, FALSE, FALSE, TRUE) = "BottomRight"
  /\ GetBlockEdges(FALSE, FALSE, FALSE, FALSE) = "None"
  BY DEF GetBlockEdges, Bit

(***************************************************************************)
(* The type of a block says which of the four lines that meet at its       *)
(* vertex separate pixels that differ; where there is no edge, a line      *)
(* passes straight through.                                                *)
(***************************************************************************)
LEMMA BlockEdgesLines ==
  ASSUME NEW tl \in BOOLEAN, NEW tr \in BOOLEAN,
         NEW bl \in BOOLEAN, NEW br \in BOOLEAN,
         NEW t, t = GetBlockEdges(tl, tr, bl, br)
  PROVE  /\ t \in EdgeType \cup {"None"}
         /\ t = "None" => (tl /= tr <=> bl /= br) /\ (tl /= bl <=> tr /= br)
         /\ t /= "None" => /\ HasAbove(t) <=> tl /= tr
                           /\ HasBelow(t) <=> bl /= br
                           /\ HasLeft(t)  <=> tl /= bl
                           /\ HasRight(t) <=> tr /= br
  BY BlockEdgesTable DEF EdgeType, HasAbove, HasBelow, HasLeft, HasRight

(***************************************************************************)
(* The effect of a push, edge by edge: one edge is added, and of the       *)
(* others only the one above changes, and only its link to the edge below. *)
(***************************************************************************)
LEMMA PushEdgeFacts ==
  ASSUME SweepTypeOK, col =< Width, NEW t \in EdgeType
  PROVE  /\ PushEdge(t) \in Seq(Edge)
         /\ Len(PushEdge(t)) = Len(edges) + 1
         /\ PushEdge(t)[Len(edges) + 1] =
              [type |-> t, row |-> row, col |-> col, above |-> AboveIdx(t), below |-> 0]
         /\ \A i \in 1..Len(edges) :
              /\ PushEdge(t)[i].type = edges[i].type
              /\ PushEdge(t)[i].row = edges[i].row
              /\ PushEdge(t)[i].col = edges[i].col
              /\ PushEdge(t)[i].above = edges[i].above
              /\ PushEdge(t)[i].below =
                   IF i = AboveIdx(t) THEN Len(edges) + 1 ELSE edges[i].below
<1> DEFINE n   == Len(edges) + 1
           new == [type |-> t, row |-> row, col |-> col, above |-> AboveIdx(t),
                   below |-> 0]
           old == [i \in 1..Len(edges) |->
                     IF i = AboveIdx(t) THEN [edges[i] EXCEPT !.below = n] ELSE edges[i]]
<1>1. /\ edges \in Seq(Edge) /\ Len(edges) \in Nat /\ n \in Nat
      /\ \A i \in 1..Len(edges) : edges[i] \in Edge
      /\ colTable[col] \in Nat /\ row \in Nat /\ col \in Nat
  BY SizeAssumption DEF SweepTypeOK
<1>2. AboveIdx(t) \in Nat
  BY <1>1 DEF AboveIdx
<1>3. new \in Edge
  BY <1>1, <1>2 DEF Edge
<1>4. \A i \in 1..Len(edges) : old[i] \in Edge
  BY <1>1 DEF Edge
<1>5. old \in Seq(Edge) /\ Len(old) = Len(edges)
  <2>1. old \in [1..Len(edges) -> Edge]
    BY <1>4
  <2>2. old \in Seq(Edge)
    BY <1>1, <2>1, SeqDef
  <2> QED
    BY <1>1, <2>1, <2>2, LenProperties
<1>6. PushEdge(t) = Append(old, new)
  BY DEF PushEdge
<1>7. /\ PushEdge(t) \in Seq(Edge) /\ Len(PushEdge(t)) = n /\ PushEdge(t)[n] = new
      /\ \A i \in 1..Len(edges) : PushEdge(t)[i] = old[i]
  BY <1>1, <1>3, <1>5, <1>6, AppendProperties
<1>8. \A i \in 1..Len(edges) :
        /\ old[i].type = edges[i].type
        /\ old[i].row = edges[i].row /\ old[i].col = edges[i].col
        /\ old[i].above = edges[i].above
        /\ old[i].below = IF i = AboveIdx(t) THEN n ELSE edges[i].below
  BY <1>1 DEF Edge
<1> QED
  BY <1>7, <1>8

-------------------------------------------------------------------------------

\* The type of the block at the vertex being scanned.
LEMMA BlockTypeFacts ==
  ASSUME SweepTypeOK, col =< Width
  PROVE  /\ BlockType \in EdgeType \cup {"None"}
         /\ BlockType = "None" =>
              /\ first[col] /= first[col+1] <=> second[col] /= second[col+1]
              /\ first[col] /= second[col] <=> first[col+1] /= second[col+1]
         /\ BlockType /= "None" =>
              /\ HasAbove(BlockType) <=> first[col] /= first[col+1]
              /\ HasBelow(BlockType) <=> second[col] /= second[col+1]
              /\ HasLeft(BlockType)  <=> first[col] /= second[col]
              /\ HasRight(BlockType) <=> first[col+1] /= second[col+1]
<1>1. col \in Cells /\ col + 1 \in Cells
  BY SizeAssumption DEF SweepTypeOK, Cells
<1>2. /\ first[col] \in BOOLEAN /\ first[col+1] \in BOOLEAN
      /\ second[col] \in BOOLEAN /\ second[col+1] \in BOOLEAN
  BY <1>1 DEF SweepTypeOK
<1> QED
  BY <1>2, BlockEdgesLines DEF BlockType

\* The effect of AddEdge on the table and the list.
LEMMA AddEdgeTypes ==
  ASSUME SweepTypeOK, AddEdge
  PROVE  SweepTypeOK'
<1>1. col =< Width /\ BlockType \in EdgeType
  BY BlockTypeFacts DEF AddEdge
<1>2. edges' \in Seq(Edge) /\ Len(edges') = Len(edges) + 1
  BY <1>1, PushEdgeFacts DEF AddEdge
<1>3. Len(edges) \in Nat
  BY DEF SweepTypeOK
<1>4. colTable' \in [0..Width -> 0..Len(edges')]
  BY SMTT(30), <1>1, <1>2, <1>3, SizeAssumption DEF AddEdge, SweepTypeOK
<1>5. col' \in 0 .. Width+1
  BY <1>1, SizeAssumption DEF AddEdge, SweepTypeOK
<1>6. slots' \in Nat /\ vertexCount' \in Nat
  BY <1>3 DEF AddEdge, GrownSlots, RequiredSlots, VerticesOf, SweepTypeOK
<1> QED
  BY <1>2, <1>4, <1>5, <1>6 DEF AddEdge, SweepTypeOK

\* A read row is a line of test results.
LEMMA LineReadType ==
  ASSUME SweepTypeOK, row < Height, NEW got \in 0..Width
  PROVE  LineRead(got) \in [Cells -> BOOLEAN]
<1>1. image \in [0..Height-1 -> [0..Width-1 -> BOOLEAN]] /\ row \in 0..Height-1
  BY SizeAssumption DEF SweepTypeOK
<1>2. \A k \in 1..got : k-1 \in 0..Width-1
  BY SizeAssumption
<1>3. \A k \in 1..got : image[row][k-1] \in BOOLEAN
  BY <1>1, <1>2
<1> QED
  BY <1>3 DEF LineRead, SweepTypeOK

LEMMA SweepTypeInit == SweepInit => SweepTypeOK
<1> SUFFICES ASSUME SweepInit
             PROVE  SweepTypeOK
  OBVIOUS
<1>1. BleedLine \in [Cells -> BOOLEAN]
  BY DEF BleedLine
<1>2. edges \in Seq(Edge) /\ Len(edges) = 0
  BY EmptySeq DEF SweepInit
<1>3. colTable \in [0..Width -> 0..Len(edges)]
  BY <1>2 DEF SweepInit
<1>4. row \in 0..Height /\ col \in 0 .. Width+1
  BY SizeAssumption DEF SweepInit
<1>5. image \in [0..Height-1 -> [0..Width-1 -> BOOLEAN]]
  BY ImagesAssumption DEF SweepInit
<1> QED
  BY <1>1, <1>2, <1>3, <1>4, <1>5, SlotsAssumption DEF SweepInit, SweepTypeOK

\* Every step of the sweep keeps the types.
LEMMA SweepTypeStep == SweepTypeOK /\ [SweepNext]_sweepVars => SweepTypeOK'
<1> SUFFICES ASSUME SweepTypeOK, [SweepNext]_sweepVars
             PROVE  SweepTypeOK'
  OBVIOUS
<1>1. CASE ReadRow
  <2>1. second' \in [Cells -> BOOLEAN]
    BY <1>1, LineReadType, SizeAssumption DEF ReadRow, SweepTypeOK
  <2>2. \A c \in 0..Width-1 : second'[c+1] \in BOOLEAN
    <3>1. \A c \in 0..Width-1 : c+1 \in Cells
      BY SizeAssumption DEF Cells
    <3> QED
      BY <2>1, <3>1
  <2>3. image' \in [0..Height-1 -> [0..Width-1 -> BOOLEAN]]
    <3>1. CASE UNCHANGED image
      BY <3>1 DEF SweepTypeOK
    <3>2. CASE image' = [image EXCEPT ![row] = [c \in 0..Width-1 |-> second'[c+1]]]
      <4> DEFINE got == [c \in 0..Width-1 |-> second'[c+1]]
      <4>1. got \in [0..Width-1 -> BOOLEAN]
        BY <2>2
      <4>2. image' = [image EXCEPT ![row] = got]
        BY <3>2
      <4> HIDE DEF got
      <4> QED
        BY <4>1, <4>2 DEF SweepTypeOK
    <3> QED
      BY <1>1, <3>1, <3>2 DEF ReadRow
  <2> QED
    BY <1>1, <2>1, <2>3 DEF ReadRow, SweepTypeOK
<1>2. CASE ReadBleedRow
  BY <1>2 DEF ReadBleedRow, BleedLine, SweepTypeOK
<1>3. CASE SkipBlock
  BY <1>3, SizeAssumption DEF SkipBlock, SweepTypeOK
<1>4. CASE AddEdge
  BY <1>4, AddEdgeTypes
<1>5. CASE GrowFails
  BY <1>5 DEF GrowFails, SweepTypeOK
<1>6. CASE EndLine
  BY SMTT(30), <1>6, SizeAssumption DEF EndLine, SweepTypeOK
<1>7. CASE UNCHANGED sweepVars
  BY <1>7 DEF sweepVars, SweepTypeOK
<1> QED
  BY <1>1, <1>2, <1>3, <1>4, <1>5, <1>6, <1>7 DEF SweepNext, SweepStep, SweepOver

\* In every state of the sweep the variables have their types: no index leaves
\* the lines or the table, and the table holds indices of the edge list.
THEOREM SweepTypeCorrect == SweepSpec => []SweepTypeOK
  BY SweepTypeInit, SweepTypeStep, PTL DEF SweepSpec

-------------------------------------------------------------------------------

(***************************************************************************)
(* The proof that the edge list of a finished sweep is the set of corners  *)
(* of the selected region, in row-major order, for every size of the       *)
(* raster, every image and every failure of a read.                        *)
(***************************************************************************)
\* Whether vertex (r, c) comes before vertex (r2, c2) in the order of the scan.
Precedes(r, c, r2, c2) == r < r2 \/ (r = r2 /\ c < c2)

\* The vertices the scan has passed: all rows above, and the row up to Col.
Scanned(r, c) == Precedes(r, c, row, col)

(***************************************************************************)
(* The strengthening of EdgesAreCorners.  The window shows the rows of the *)
(* raster around the scanned vertices, bleed included ...                  *)
(***************************************************************************)
WindowInv ==
  /\ sweepPc = "read" => \A k \in Cells : /\ first[k] = Selected(row-1, k-1)
                                          /\ second[k] = Selected(row-1, k-1)
  /\ sweepPc = "scan" => \A k \in Cells : /\ first[k] = Selected(row-1, k-1)
                                          /\ second[k] = Selected(row, k-1)

\* ... and stands where the control says.
PlaceInv ==
  /\ sweepPc = "read" => col = 0
  /\ sweepPc = "swept" => row = Height /\ col = Width + 1

\* The edges follow each other in the order of the scan.
OrderInv ==
  \A i \in 1 .. Len(edges) - 1 :
    Precedes(edges[i].row, edges[i].col, edges[i+1].row, edges[i+1].col)

\* Every edge is a corner the scan has passed, with the type of that corner.
OnlyCornersInv ==
  \A i \in 1..Len(edges) :
    /\ edges[i].row \in 0..Height /\ edges[i].col \in 0..Width
    /\ Scanned(edges[i].row, edges[i].col)
    /\ edges[i].type = VertexType(edges[i].row, edges[i].col)

\* Every corner the scan has passed is in the list.
AllCornersInv ==
  \A r \in 0..Height, c \in 0..Width :
    Scanned(r, c) /\ VertexType(r, c) /= "None" =>
      \E i \in 1..Len(edges) : edges[i].row = r /\ edges[i].col = c

CornerInv == WindowInv /\ PlaceInv /\ OrderInv /\ OnlyCornersInv /\ AllCornersInv

-------------------------------------------------------------------------------

\* Whether a pixel is selected is a boolean, also outside the raster.
LEMMA SelectedType ==
  ASSUME SweepTypeOK, NEW r \in Int, NEW c \in Int
  PROVE  Selected(r, c) \in BOOLEAN
  BY DEF Selected, SweepTypeOK

\* The callback sees the vertex it scans: the block of the window is the block
\* of the raster.
LEMMA BlockIsVertex ==
  ASSUME SweepTypeOK, WindowInv, sweepPc = "scan", col =< Width
  PROVE  BlockType = VertexType(row, col)
<1>1. col \in Cells /\ col + 1 \in Cells /\ row \in Int /\ col \in Int
  BY SizeAssumption DEF SweepTypeOK, Cells
<1>2. /\ first[col] = Selected(row-1, col-1) /\ first[col+1] = Selected(row-1, col+1-1)
      /\ second[col] = Selected(row, col-1) /\ second[col+1] = Selected(row, col+1-1)
  BY <1>1 DEF WindowInv
<1>3. col + 1 - 1 = col
  BY <1>1
<1> QED
  BY <1>2, <1>3 DEF BlockType, VertexType

(***************************************************************************)
(* A read changes the image only in the row that is read, so no vertex of  *)
(* the rows above it changes.                                              *)
(***************************************************************************)
LEMMA VertexTypeStable ==
  ASSUME SweepTypeOK, NEW r \in Int, NEW c \in Int, r < row,
         \A q \in 0..Height-1 : q /= row => image'[q] = image[q]
  PROVE  VertexType(r, c)' = VertexType(r, c)
<1>1. \A q, d \in Int : q < row => (Selected(q, d)' = Selected(q, d))
  BY DEF Selected, SweepTypeOK
<1>2. r-1 \in Int /\ c-1 \in Int /\ r-1 < row
  BY DEF SweepTypeOK
<1>3. /\ Selected(r-1, c-1)' = Selected(r-1, c-1) /\ Selected(r-1, c)' = Selected(r-1, c)
      /\ Selected(r, c-1)' = Selected(r, c-1) /\ Selected(r, c)' = Selected(r, c)
  BY <1>1, <1>2
<1> QED
  BY <1>3 DEF VertexType

(***************************************************************************)
(* A step that pushes no edge keeps the list right if what it scans is no  *)
(* corner and what was scanned before stays what it was.                   *)
(***************************************************************************)
LEMMA SameList ==
  ASSUME SweepTypeOK, CornerInv, UNCHANGED edges,
         \A r \in 0..Height, c \in 0..Width :
           /\ Scanned(r, c) => Scanned(r, c)' /\ VertexType(r, c)' = VertexType(r, c)
           /\ Scanned(r, c)' => Scanned(r, c) \/ VertexType(r, c)' = "None"
  PROVE  OrderInv' /\ OnlyCornersInv' /\ AllCornersInv'
<1>1. OrderInv'
  BY DEF CornerInv, OrderInv
<1>2. OnlyCornersInv'
  BY DEF CornerInv, OnlyCornersInv
<1>3. AllCornersInv'
  BY DEF CornerInv, AllCornersInv
<1> QED
  BY <1>1, <1>2, <1>3

LEMMA CornerInit == SweepInit => CornerInv
<1> SUFFICES ASSUME SweepInit
             PROVE  CornerInv
  OBVIOUS
<1>1. \A k \in Cells : /\ first[k] = FALSE /\ second[k] = FALSE
                       /\ Selected(row-1, k-1) = FALSE
  BY DEF SweepInit, BleedLine, Selected
<1>2. WindowInv /\ PlaceInv
  BY <1>1 DEF WindowInv, PlaceInv, SweepInit
<1>3. Len(edges) = 0
  BY DEF SweepInit
<1>4. OrderInv /\ OnlyCornersInv
  BY <1>3 DEF OrderInv, OnlyCornersInv
<1>5. AllCornersInv
  BY SizeAssumption DEF AllCornersInv, Scanned, Precedes, SweepInit
<1> QED
  BY <1>2, <1>4, <1>5 DEF CornerInv

\* What a read leaves in the second line is what the image says of the row.
LEMMA ReadWindow ==
  ASSUME SweepTypeOK, CornerInv, ReadRow
  PROVE  /\ \A q \in 0..Height-1 : q /= row => image'[q] = image[q]
         /\ \A k \in Cells : second'[k] = Selected(row, k-1)'
<1>1. row \in 0..Height-1 /\ row' = row /\ sweepPc = "read"
  BY SizeAssumption DEF ReadRow, SweepTypeOK
<1>2. 0 \in Cells /\ Width+1 \in Cells
  BY SizeAssumption DEF Cells
<1>3. second[0] = FALSE /\ second[Width+1] = FALSE
  <2>1. \A k \in Cells : second[k] = Selected(row-1, k-1)
    BY <1>1 DEF CornerInv, WindowInv
  <2>2. \A k \in Cells : k-1 \notin 0..Width-1 => Selected(row-1, k-1) = FALSE
    BY DEF Selected
  <2>3. \A k \in {0, Width+1} : k \in Cells /\ k-1 \notin 0..Width-1
    BY <1>2, SizeAssumption
  <2>4. \A k \in {0, Width+1} : second[k] = FALSE
    BY <2>1, <2>2, <2>3
  <2> QED
    BY <2>4
<1>4. \A k \in Cells : k \in 1..Width \/ k = 0 \/ k = Width+1
  BY SizeAssumption DEF Cells
<1>5. \A k \in 1..Width : k \in Cells /\ k-1 \in 0..Width-1 /\ k-1+1 = k
  BY SizeAssumption DEF Cells
<1>6. \A got \in 0..Width :
        LineRead(got)[0] = FALSE /\ LineRead(got)[Width+1] = FALSE
  BY <1>2, <1>3, SizeAssumption DEF LineRead
<1>7. /\ \A q \in 0..Height-1 : q /= row => image'[q] = image[q]
      /\ \A k \in 1..Width : second'[k] = image'[row][k-1] /\ second'[k] \in BOOLEAN
      /\ \E got \in 0..Width : second' = LineRead(got)
  <2>1. CASE second' = LineRead(Width) /\ UNCHANGED image
    <3>1. \A k \in 1..Width : second'[k] = image[row][k-1]
      BY <1>5, <2>1 DEF LineRead
    <3>2. \A k \in 1..Width : image[row][k-1] \in BOOLEAN
      BY <1>1, <1>5 DEF SweepTypeOK
    <3> QED
      BY <2>1, <3>1, <3>2, SizeAssumption
  <2>2. CASE /\ \E got \in 0 .. Width-1 : second' = LineRead(got)
             /\ image' = [image EXCEPT ![row] = [c \in 0..Width-1 |-> second'[c+1]]]
    <3>1. PICK got \in 0 .. Width-1 : second' = LineRead(got)
      BY <2>2
    <3>2. got \in 0..Width /\ second' \in [Cells -> BOOLEAN]
      BY <1>1, <3>1, LineReadType, SizeAssumption
    <3>3. /\ \A q \in 0..Height-1 : q /= row => image'[q] = image[q]
          /\ image'[row] = [c \in 0..Width-1 |-> second'[c+1]]
      BY <1>1, <2>2 DEF SweepTypeOK
    <3>4. \A k \in 1..Width : image'[row][k-1] = second'[k]
      BY <1>5, <3>3
    <3> QED
      BY <1>5, <3>1, <3>2, <3>3, <3>4
  <2> QED
    BY <2>1, <2>2 DEF ReadRow
<1>8. second'[0] = FALSE /\ second'[Width+1] = FALSE
  BY <1>6, <1>7
<1>9. ASSUME NEW k \in Cells
      PROVE  second'[k] = Selected(row, k-1)'
  <2>1. CASE k \in 1..Width
    BY <1>1, <1>5, <1>7, <2>1 DEF Selected
  <2>2. CASE k \notin 1..Width
    <3>1. second'[k] = FALSE
      BY <1>4, <1>8, <2>2
    <3>2. k-1 \notin 0..Width-1
      BY <1>4, <2>2, SizeAssumption
    <3>3. Selected(row, k-1)' = FALSE
      BY <3>2 DEF Selected
    <3> QED
      BY <3>1, <3>3
  <2> QED
    BY <2>1, <2>2
<1> QED
  BY <1>7, <1>9

\* Reading a row scans nothing.
LEMMA ReadKeepsCorners ==
  ASSUME SweepTypeOK, CornerInv, ReadRow \/ ReadBleedRow
  PROVE  CornerInv'
<1>1. /\ sweepPc = "read" /\ sweepPc' = "scan" /\ col = 0
      /\ UNCHANGED <<edges, row, col, first>>
  BY DEF ReadRow, ReadBleedRow, CornerInv, PlaceInv
<1>2. \A q \in 0..Height-1 : q /= row => image'[q] = image[q]
  BY ReadWindow DEF ReadBleedRow
<1>3. \A k \in Cells : second'[k] = Selected(row, k-1)'
  <2>1. CASE ReadRow
    BY <2>1, ReadWindow
  <2>2. CASE ReadBleedRow
    <3>1. \A k \in Cells : second'[k] = FALSE
      BY <2>2 DEF ReadBleedRow, BleedLine
    <3>2. \A k \in Cells : Selected(row, k-1)' = FALSE
      BY <2>2, SizeAssumption DEF ReadBleedRow, Selected
    <3> QED
      BY <3>1, <3>2
  <2> QED
    BY <2>1, <2>2
<1>4. \A k \in Cells : first'[k] = Selected(row-1, k-1)'
  <2>1. \A k \in Cells : first[k] = Selected(row-1, k-1)
    BY <1>1 DEF CornerInv, WindowInv
  <2>2. \A k \in Cells : Selected(row-1, k-1)' = Selected(row-1, k-1)
    BY <1>1, <1>2 DEF Selected, SweepTypeOK
  <2> QED
    BY <1>1, <2>1, <2>2
<1>5. WindowInv' /\ PlaceInv'
  BY <1>1, <1>3, <1>4 DEF WindowInv, PlaceInv
<1>6. \A r \in 0..Height, c \in 0..Width :
        /\ Scanned(r, c)' <=> Scanned(r, c)
        /\ Scanned(r, c) => r < row
  BY <1>1 DEF Scanned, Precedes
<1>7. \A r \in 0..Height, c \in 0..Width :
        Scanned(r, c) => VertexType(r, c)' = VertexType(r, c)
  BY <1>2, <1>6, VertexTypeStable
<1>8. OrderInv' /\ OnlyCornersInv' /\ AllCornersInv'
  BY <1>1, <1>6, <1>7, SameList
<1> QED
  BY <1>5, <1>8 DEF CornerInv

\* A block without an edge is a vertex that is no corner.
LEMMA SkipKeepsCorners ==
  ASSUME SweepTypeOK, CornerInv, SkipBlock
  PROVE  CornerInv'
<1>1. /\ sweepPc = "scan" /\ col \in 0..Width /\ col' = col + 1 /\ row \in 0..Height
      /\ UNCHANGED <<image, sweepPc, row, first, second, edges>>
  BY DEF SkipBlock, SweepTypeOK
<1>2. VertexType(row, col) = "None"
  BY <1>1, BlockIsVertex DEF SkipBlock, CornerInv
<1>3. \A r \in 0..Height, c \in 0..Width : VertexType(r, c)' = VertexType(r, c)
  BY <1>1 DEF VertexType, Selected
<1>4. \A r \in 0..Height, c \in 0..Width :
        Scanned(r, c)' <=> Scanned(r, c) \/ (r = row /\ c = col)
  BY <1>1 DEF Scanned, Precedes
<1>5. OrderInv' /\ OnlyCornersInv' /\ AllCornersInv'
  BY <1>1, <1>2, <1>3, <1>4, SameList
<1>6. WindowInv' /\ PlaceInv'
  BY <1>1 DEF CornerInv, WindowInv, PlaceInv, Selected
<1> QED
  BY <1>5, <1>6 DEF CornerInv

\* At the end of a line all of its vertices are scanned, and the window moves
\* down by one row of the raster.
LEMMA EndLineKeepsCorners ==
  ASSUME SweepTypeOK, CornerInv, EndLine
  PROVE  CornerInv'
<1>1. /\ sweepPc = "scan" /\ col = Width + 1 /\ row \in 0..Height
      /\ UNCHANGED <<image, second, edges>>
  BY DEF EndLine, SweepTypeOK
<1>2. \A r \in 0..Height, c \in 0..Width : VertexType(r, c)' = VertexType(r, c)
  BY <1>1 DEF VertexType, Selected
<1>3. CASE row = Height
  <2>1. UNCHANGED <<first, row, col>> /\ sweepPc' = "swept"
    BY <1>3, SizeAssumption DEF EndLine
  <2>2. WindowInv' /\ PlaceInv'
    BY <1>1, <1>3, <2>1 DEF WindowInv, PlaceInv
  <2>3. \A r \in 0..Height, c \in 0..Width : Scanned(r, c)' <=> Scanned(r, c)
    BY <2>1 DEF Scanned
  <2>4. OrderInv' /\ OnlyCornersInv' /\ AllCornersInv'
    BY <1>1, <1>2, <2>3, SameList
  <2> QED
    BY <2>2, <2>4 DEF CornerInv
<1>4. CASE row < Height
  <2>1. first' = second /\ row' = row + 1 /\ col' = 0 /\ sweepPc' = "read"
    BY <1>4 DEF EndLine
  <2>2. \A k \in Cells : first'[k] = Selected(row, k-1) /\ second'[k] = Selected(row, k-1)
    BY <1>1, <2>1 DEF CornerInv, WindowInv
  <2>3. row' - 1 = row
    BY <1>1, <2>1
  <2>4. \A k \in Cells : Selected(row-1, k-1)' = Selected(row, k-1)
    BY <1>1, <2>3 DEF Selected
  <2>5. WindowInv' /\ PlaceInv'
    BY <2>1, <2>2, <2>4 DEF WindowInv, PlaceInv
  <2>6. \A r \in 0..Height, c \in 0..Width : Scanned(r, c)' <=> Scanned(r, c)
    BY <1>1, <2>1, SizeAssumption DEF Scanned, Precedes
  <2>7. OrderInv' /\ OnlyCornersInv' /\ AllCornersInv'
    BY <1>1, <1>2, <2>6, SameList
  <2> QED
    BY <2>5, <2>7 DEF CornerInv
<1> QED
  BY <1>1, <1>3, <1>4, SizeAssumption

\* A push adds the corner that is scanned, behind all edges of the list.
LEMMA AddEdgeKeepsCorners ==
  ASSUME SweepTypeOK, CornerInv, AddEdge
  PROVE  CornerInv'
<1>1. /\ sweepPc = "scan" /\ col \in 0..Width /\ col' = col + 1 /\ row \in 0..Height
      /\ Len(edges) \in Nat /\ edges \in Seq(Edge)
      /\ UNCHANGED <<image, sweepPc, row, first, second>>
  BY DEF AddEdge, SweepTypeOK
<1>2. VertexType(row, col) = BlockType /\ BlockType \in EdgeType
  BY <1>1, BlockIsVertex, BlockTypeFacts DEF AddEdge, CornerInv
<1>3. /\ Len(edges') = Len(edges) + 1
      /\ edges'[Len(edges)+1].row = row /\ edges'[Len(edges)+1].col = col
      /\ edges'[Len(edges)+1].type = BlockType
      /\ \A i \in 1..Len(edges) : /\ edges'[i].row = edges[i].row
                                  /\ edges'[i].col = edges[i].col
                                  /\ edges'[i].type = edges[i].type
  <2>1. edges' = PushEdge(BlockType) /\ col =< Width
    BY <1>1 DEF AddEdge
  <2>2. /\ Len(edges') = Len(edges) + 1
        /\ edges'[Len(edges) + 1] = [type |-> BlockType, row |-> row, col |-> col,
                                     above |-> AboveIdx(BlockType), below |-> 0]
        /\ \A i \in 1..Len(edges) : /\ edges'[i].row = edges[i].row
                                    /\ edges'[i].col = edges[i].col
                                    /\ edges'[i].type = edges[i].type
    BY <1>2, <2>1, PushEdgeFacts
  <2> QED
    BY <2>2
<1>4. \A r \in 0..Height, c \in 0..Width : VertexType(r, c)' = VertexType(r, c)
  BY <1>1 DEF VertexType, Selected
<1>5. \A r \in 0..Height, c \in 0..Width :
        Scanned(r, c)' <=> Scanned(r, c) \/ (r = row /\ c = col)
  BY <1>1, SizeAssumption DEF Scanned, Precedes
<1>6. OnlyCornersInv /\ AllCornersInv /\ OrderInv
  BY DEF CornerInv
<1>7. OrderInv'
  <2> SUFFICES ASSUME NEW i \in 1..Len(edges)
               PROVE  Precedes(edges'[i].row, edges'[i].col, edges'[i+1].row, edges'[i+1].col)
    BY <1>1, <1>3 DEF OrderInv
  <2>1. CASE i = Len(edges)
    <3>1. Scanned(edges[i].row, edges[i].col)
      BY <1>6 DEF OnlyCornersInv
    <3> QED
      BY <1>3, <2>1, <3>1 DEF Scanned
  <2>2. CASE i < Len(edges)
    <3>1. i \in 1 .. Len(edges)-1 /\ i+1 \in 1..Len(edges)
      BY <1>1, <2>2
    <3>2. Precedes(edges[i].row, edges[i].col, edges[i+1].row, edges[i+1].col)
      BY <1>6, <3>1 DEF OrderInv
    <3> QED
      BY <1>3, <3>1, <3>2
  <2> QED
    BY <1>1, <2>1, <2>2
<1>8. OnlyCornersInv'
  <2> SUFFICES ASSUME NEW i \in (1..Len(edges))'
               PROVE  (/\ edges[i].row \in 0..Height /\ edges[i].col \in 0..Width
                       /\ Scanned(edges[i].row, edges[i].col)
                       /\ edges[i].type = VertexType(edges[i].row, edges[i].col))'
    BY DEF OnlyCornersInv
  <2>1. PICK r, c : r = edges'[i].row /\ c = edges'[i].col
    OBVIOUS
  <2>2. /\ r \in 0..Height /\ c \in 0..Width
        /\ Scanned(r, c)'
        /\ edges'[i].type = VertexType(r, c)'
    <3>1. CASE i = Len(edges) + 1
      BY <1>1, <1>2, <1>3, <1>4, <1>5, <2>1, <3>1
    <3>2. CASE i \in 1..Len(edges)
      <4>1. r = edges[i].row /\ c = edges[i].col /\ edges'[i].type = edges[i].type
        BY <1>3, <2>1, <3>2
      <4>2. /\ r \in 0..Height /\ c \in 0..Width /\ Scanned(r, c)
            /\ edges[i].type = VertexType(r, c)
        BY <1>6, <3>2, <4>1 DEF OnlyCornersInv
      <4> QED
        BY <1>4, <1>5, <4>1, <4>2
    <3> QED
      BY <1>1, <1>3, <3>1, <3>2
  <2> QED
    BY <2>1, <2>2 DEF Scanned, VertexType, Selected
<1>9. AllCornersInv'
  <2> SUFFICES ASSUME NEW r \in 0..Height, NEW c \in 0..Width,
                      Scanned(r, c)', VertexType(r, c)' /= "None"
               PROVE  \E i \in 1..Len(edges)+1 : edges'[i].row = r /\ edges'[i].col = c
    BY <1>3 DEF AllCornersInv
  <2>1. CASE r = row /\ c = col
    BY <1>1, <1>3, <2>1
  <2>2. CASE Scanned(r, c)
    <3>1. PICK i \in 1..Len(edges) : edges[i].row = r /\ edges[i].col = c
      BY <1>4, <1>6, <2>2 DEF AllCornersInv
    <3> QED
      BY <1>1, <1>3, <3>1
  <2> QED
    BY <1>5, <2>1, <2>2
<1>10. WindowInv' /\ PlaceInv'
  BY <1>1 DEF CornerInv, WindowInv, PlaceInv, Selected
<1> QED
  BY <1>7, <1>8, <1>9, <1>10 DEF CornerInv

\* Every step of the sweep keeps the invariant.
LEMMA CornerStep ==
  ASSUME SweepTypeOK, CornerInv, [SweepNext]_sweepVars
  PROVE  CornerInv'
<1>1. CASE ReadRow \/ ReadBleedRow
  BY <1>1, ReadKeepsCorners
<1>2. CASE SkipBlock
  BY <1>2, SkipKeepsCorners
<1>3. CASE AddEdge
  BY <1>3, AddEdgeKeepsCorners
<1>4. CASE EndLine
  BY <1>4, EndLineKeepsCorners
<1>5. CASE GrowFails \/ UNCHANGED sweepVars
  <2>1. /\ UNCHANGED <<image, row, col, first, second, edges>>
        /\ sweepPc' = "failed" \/ sweepPc' = sweepPc
    BY <1>5 DEF GrowFails, sweepVars
  <2>2. \A r \in 0..Height, c \in 0..Width :
          (Scanned(r, c)' <=> Scanned(r, c)) /\ VertexType(r, c)' = VertexType(r, c)
    BY <2>1 DEF Scanned, VertexType, Selected
  <2>3. OrderInv' /\ OnlyCornersInv' /\ AllCornersInv'
    BY <2>1, <2>2, SameList
  <2>4. WindowInv' /\ PlaceInv'
    BY <2>1 DEF CornerInv, WindowInv, PlaceInv, Selected
  <2> QED
    BY <2>3, <2>4 DEF CornerInv
<1> QED
  BY <1>1, <1>2, <1>3, <1>4, <1>5 DEF SweepNext, SweepStep, SweepOver

\* When the sweep is over every vertex is scanned, so the list is the corners.
LEMMA CornerImplies ==
  ASSUME SweepTypeOK, CornerInv
  PROVE  EdgesAreCorners
<1> SUFFICES ASSUME sweepPc = "swept"
             PROVE  EdgesAreCorners
  BY DEF EdgesAreCorners
<1> DEFINE listed  == {<<edges[i].row, edges[i].col, edges[i].type>> : i \in 1..Len(edges)}
           corners == {v \in (0..Height) \X (0..Width) \X EdgeType :
                         v[3] = VertexType(v[1], v[2])}
<1>1. \A r \in 0..Height, c \in 0..Width : Scanned(r, c)
  BY SizeAssumption DEF CornerInv, PlaceInv, Scanned, Precedes
<1>2. \A i \in 1..Len(edges) :
        /\ edges[i].row \in 0..Height /\ edges[i].col \in 0..Width
        /\ edges[i].type = VertexType(edges[i].row, edges[i].col)
  BY DEF CornerInv, OnlyCornersInv
<1>3. listed \subseteq corners
  <2> SUFFICES ASSUME NEW i \in 1..Len(edges)
               PROVE  <<edges[i].row, edges[i].col, edges[i].type>> \in corners
    OBVIOUS
  <2>1. edges[i] \in Edge
    BY DEF SweepTypeOK
  <2> QED
    BY <1>2, <2>1 DEF Edge
<1>4. corners \subseteq listed
  <2> SUFFICES ASSUME NEW r \in 0..Height, NEW c \in 0..Width, NEW t \in EdgeType,
                      t = VertexType(r, c)
               PROVE  <<r, c, t>> \in listed
    OBVIOUS
  <2>1. t /= "None"
    BY DEF EdgeType
  <2>2. PICK i \in 1..Len(edges) : edges[i].row = r /\ edges[i].col = c
    BY <1>1, <2>1 DEF CornerInv, AllCornersInv
  <2> QED
    BY <1>2, <2>2
<1>5. \A i \in 1 .. Len(edges) - 1 :
        \/ edges[i].row < edges[i+1].row
        \/ edges[i].row = edges[i+1].row /\ edges[i].col < edges[i+1].col
  BY DEF CornerInv, OrderInv, Precedes
<1> QED
  BY <1>3, <1>4, <1>5 DEF EdgesAreCorners

(***************************************************************************)
(* When the sweep ends, the edge list holds one edge for every corner of   *)
(* the selected region and nothing else, in row-major order, whatever the  *)
(* raster holds and wherever a read of it stopped.                         *)
(***************************************************************************)
THEOREM EdgesAlwaysCorners == SweepSpec => []EdgesAreCorners
<1>1. SweepInit => SweepTypeOK /\ CornerInv
  BY SweepTypeInit, CornerInit
<1>2. SweepTypeOK /\ CornerInv /\ [SweepNext]_sweepVars => SweepTypeOK' /\ CornerInv'
  BY SweepTypeStep, CornerStep
<1>3. SweepTypeOK /\ CornerInv => EdgesAreCorners
  BY CornerImplies
<1> QED
  BY <1>1, <1>2, <1>3, PTL DEF SweepSpec

-------------------------------------------------------------------------------

(***************************************************************************)
(* The proof that the sweep leaves no line of the outline open, for every  *)
(* size of the raster and every image.  It does not depend on what was     *)
(* read: a row that a failed read left half old still has bleed cells.     *)
(***************************************************************************)

(***************************************************************************)
(* The strengthening of LinksClosed.  In mid-sweep a line of the outline   *)
(* can be open at one end: a line that goes down from column c is Pending  *)
(* until a later row ends it, and the one that goes right from the last    *)
(* edge is open until the next edge of the row.  Both are visible in the   *)
(* window of two lines, as pixels that differ across the line.             *)
(***************************************************************************)
Pending   == {c \in 0..Width : IF c < col THEN second[c] /= second[c+1]
                                         ELSE first[c] /= first[c+1]}
OpenRight == first[col] /= second[col]

\* The window: its outer cells are bleed, and the row below the raster is, too.
BleedInv ==
  /\ ~first[0] /\ ~second[0] /\ ~first[Width+1] /\ ~second[Width+1]
  /\ sweepPc = "read" => col = 0
  /\ sweepPc = "scan" /\ row = Height => second = BleedLine
  /\ sweepPc = "swept" => col = Width + 1 /\ second = BleedLine

\* The table holds, for a pending line, the edge it comes down from.
ColTableInv ==
  \A c \in Pending :
    /\ colTable[c] \in 1..Len(edges)
    /\ edges[colTable[c]].col = c
    /\ HasBelow(edges[colTable[c]].type)
    /\ edges[colTable[c]].below = 0

AboveInv ==
  \A i \in 1..Len(edges) :
    /\ edges[i].col \in 0..Width
    /\ HasAbove(edges[i].type) =>
         /\ edges[i].above \in 1 .. i-1
         /\ HasBelow(edges[edges[i].above].type)
         /\ edges[edges[i].above].below = i
         /\ edges[edges[i].above].col = edges[i].col

BelowInv ==
  \A i \in 1..Len(edges) : HasBelow(edges[i].type) =>
    \/ /\ edges[i].below \in i+1 .. Len(edges)
       /\ HasAbove(edges[edges[i].below].type)
       /\ edges[edges[i].below].above = i
    \/ /\ edges[i].below = 0
       /\ colTable[edges[i].col] = i
       /\ edges[i].col \in Pending

LeftInv ==
  \A i \in 1..Len(edges) : HasLeft(edges[i].type) =>
    i > 1 /\ HasRight(edges[i-1].type)

RightInv ==
  \A i \in 1..Len(edges) : HasRight(edges[i].type) =>
    \/ /\ i < Len(edges)
       /\ HasLeft(edges[i+1].type)
       /\ edges[i+1].row = edges[i].row
    \/ /\ i = Len(edges)
       /\ OpenRight
       /\ edges[i].row = row

OpenInv ==
  OpenRight => /\ Len(edges) >= 1
               /\ HasRight(edges[Len(edges)].type)
               /\ edges[Len(edges)].row = row

VerticalInv   == ColTableInv /\ AboveInv /\ BelowInv
HorizontalInv == LeftInv /\ RightInv /\ OpenInv
LinkInv       == BleedInv /\ VerticalInv /\ HorizontalInv

-------------------------------------------------------------------------------

LEMMA LinkInit == SweepInit => LinkInv
<1> SUFFICES ASSUME SweepInit
             PROVE  LinkInv
  OBVIOUS
<1>1. 0 \in Cells /\ Width + 1 \in Cells /\ Len(edges) = 0
  BY SizeAssumption DEF Cells, SweepInit
<1>2. \A k \in Cells : first[k] = FALSE /\ second[k] = FALSE
  BY DEF SweepInit, BleedLine
<1>3. \A c \in 0..Width : c \in Cells /\ c+1 \in Cells
  BY SizeAssumption DEF Cells
<1>4. BleedInv
  BY <1>1, <1>2, SizeAssumption DEF BleedInv, SweepInit
<1>5. VerticalInv
  <2>1. Pending = {}
    BY <1>2, <1>3 DEF Pending
  <2> QED
    BY <1>1, <2>1 DEF VerticalInv, ColTableInv, AboveInv, BelowInv
<1>6. HorizontalInv
  BY <1>1, <1>2 DEF HorizontalInv, LeftInv, RightInv, OpenInv, OpenRight, SweepInit
<1> QED
  BY <1>4, <1>5, <1>6 DEF LinkInv

\* What a read, whole or cut short, leaves in the bleed cells.
LEMMA LineReadBleed ==
  ASSUME SweepTypeOK, BleedInv, NEW got \in 0..Width
  PROVE  ~LineRead(got)[0] /\ ~LineRead(got)[Width+1]
<1>1. 0 \in Cells /\ Width + 1 \in Cells /\ 0 \notin 1..got /\ Width + 1 \notin 1..got
  BY SizeAssumption DEF Cells
<1> QED
  BY <1>1 DEF LineRead, BleedInv

(***************************************************************************)
(* A step that leaves the list, the table and the row alone keeps the      *)
(* invariant if it opens and ends no line.                                 *)
(***************************************************************************)
LEMMA SameLines ==
  ASSUME LinkInv, BleedInv', UNCHANGED <<edges, colTable, row>>,
         Pending' = Pending,
         OpenRight' <=> OpenRight
  PROVE  LinkInv'
<1>1. ColTableInv'
  BY DEF ColTableInv, LinkInv, VerticalInv
<1>2. AboveInv'
  BY DEF AboveInv, LinkInv, VerticalInv
<1>3. BelowInv'
  <2>1. \A i \in 1..Len(edges) : edges[i].col \in 0..Width
    BY DEF LinkInv, VerticalInv, AboveInv
  <2> QED
    BY <2>1 DEF BelowInv, LinkInv, VerticalInv
<1>4. LeftInv' /\ RightInv' /\ OpenInv'
  BY DEF LeftInv, RightInv, OpenInv, LinkInv, HorizontalInv
<1> QED
  BY <1>1, <1>2, <1>3, <1>4 DEF LinkInv, VerticalInv, HorizontalInv

\* A bleed cell of the window, and what it says of the lines at its column.
LEMMA BleedCells ==
  ASSUME SweepTypeOK, BleedInv
  PROVE  /\ first[0] = FALSE /\ second[0] = FALSE
         /\ first[Width+1] = FALSE /\ second[Width+1] = FALSE
<1>1. 0 \in Cells /\ Width + 1 \in Cells
  BY SizeAssumption DEF Cells
<1> QED
  BY <1>1 DEF BleedInv, SweepTypeOK

\* Reading a line opens and ends none: nothing of the row is scanned yet.
LEMMA ReadKeepsLinks ==
  ASSUME SweepTypeOK, SweepTypeOK', LinkInv, ReadRow \/ ReadBleedRow
  PROVE  LinkInv'
<1>1. BleedInv /\ col = 0 /\ sweepPc' = "scan"
  BY DEF ReadRow, ReadBleedRow, LinkInv, BleedInv
<1>2. UNCHANGED <<edges, colTable, row, first, col>>
  BY DEF ReadRow, ReadBleedRow
<1>3. second'[0] = FALSE /\ second'[Width+1] = FALSE
  <2>1. 0 \in Cells /\ Width + 1 \in Cells
    BY SizeAssumption DEF Cells
  <2>2. CASE ReadBleedRow
    BY <2>1, <2>2 DEF ReadBleedRow, BleedLine
  <2>3. CASE ReadRow
    <3>1. PICK got \in 0..Width : second' = LineRead(got)
      BY <2>3, SizeAssumption DEF ReadRow
    <3>2. ~second'[0] /\ ~second'[Width+1]
      BY <1>1, <3>1, LineReadBleed
    <3> QED
      BY <2>1, <3>2 DEF SweepTypeOK
  <2> QED
    BY <2>2, <2>3
<1>4. first[0] = FALSE /\ first[Width+1] = FALSE /\ second[0] = FALSE
  BY <1>1, BleedCells
<1>5. BleedInv'
  BY <1>1, <1>2, <1>3, <1>4, SizeAssumption DEF BleedInv, ReadRow, ReadBleedRow
<1>6. Pending' = Pending
  BY <1>1, <1>2 DEF Pending
<1>7. OpenRight' <=> OpenRight
  BY <1>1, <1>2, <1>3, <1>4 DEF OpenRight
<1> QED
  BY <1>2, <1>5, <1>6, <1>7, SameLines

\* Where there is no edge, every line that comes in goes out on the other side.
LEMMA SkipKeepsLinks ==
  ASSUME SweepTypeOK, LinkInv, SkipBlock
  PROVE  LinkInv'
<1>1. /\ UNCHANGED <<edges, colTable, row, first, second, sweepPc>>
      /\ col \in 0..Width /\ col' = col + 1 /\ sweepPc = "scan"
  BY DEF SkipBlock, SweepTypeOK
<1>2. /\ first[col] /= first[col+1] <=> second[col] /= second[col+1]
      /\ first[col] /= second[col] <=> first[col+1] /= second[col+1]
  BY <1>1, BlockTypeFacts DEF SkipBlock
<1>3. Pending' = Pending
  BY <1>1, <1>2 DEF Pending
<1>4. OpenRight' <=> OpenRight
  BY <1>1, <1>2 DEF OpenRight
<1>5. BleedInv'
  BY <1>1 DEF BleedInv, LinkInv
<1> QED
  BY <1>1, <1>3, <1>4, <1>5, SameLines

\* The copy of a line opens and ends none: all of the row is scanned, and
\* nothing goes right out of the last column.
LEMMA EndLineKeepsLinks ==
  ASSUME SweepTypeOK, LinkInv, EndLine
  PROVE  LinkInv'
<1>1. BleedInv /\ col = Width + 1 /\ sweepPc = "scan" /\ UNCHANGED <<edges, colTable, second>>
  BY DEF EndLine, LinkInv
<1>2. /\ first[0] = FALSE /\ second[0] = FALSE
      /\ first[Width+1] = FALSE /\ second[Width+1] = FALSE
  BY <1>1, BleedCells
<1>3. CASE row = Height
  <2>1. UNCHANGED <<first, row, col>> /\ sweepPc' = "swept" /\ second = BleedLine
    BY <1>1, <1>3, SizeAssumption DEF EndLine, BleedInv
  <2>2. BleedInv'
    BY <1>1, <1>2, <2>1 DEF BleedInv
  <2>3. Pending' = Pending
    BY <1>1, <2>1 DEF Pending
  <2>4. OpenRight' <=> OpenRight
    BY <1>1, <2>1 DEF OpenRight
  <2> QED
    BY <1>1, <2>1, <2>2, <2>3, <2>4, SameLines
<1>4. CASE row < Height
  <2>1. /\ first' = second /\ row' = row + 1 /\ col' = 0 /\ sweepPc' = "read"
    BY <1>4 DEF EndLine
  <2>2. BleedInv'
    BY <1>1, <1>2, <2>1 DEF BleedInv
  <2>3. Pending' = Pending
    BY <1>1, <2>1, SizeAssumption DEF Pending
  <2>4. ~OpenRight /\ ~OpenRight'
    BY <1>1, <1>2, <2>1 DEF OpenRight
  <2>5. VerticalInv'
    <3>1. \A i \in 1..Len(edges) : edges[i].col \in 0..Width
      BY DEF LinkInv, VerticalInv, AboveInv
    <3> QED
      BY <1>1, <2>3, <3>1 DEF LinkInv, VerticalInv, ColTableInv, AboveInv, BelowInv
  <2>6. HorizontalInv'
    BY <1>1, <2>4 DEF LinkInv, HorizontalInv, LeftInv, RightInv, OpenInv
  <2> QED
    BY <2>2, <2>5, <2>6 DEF LinkInv
<1> QED
  BY <1>3, <1>4, SizeAssumption DEF SweepTypeOK

(***************************************************************************)
(* AddEdge.  The new edge ends the line that was pending at its column, if *)
(* any, and opens one there if it has a line below it.                     *)
(***************************************************************************)
LEMMA AddEdgeFacts ==
  ASSUME SweepTypeOK, LinkInv, AddEdge
  PROVE  /\ Len(edges) \in Nat /\ BlockType \in EdgeType
         /\ col \in 0..Width /\ col' = col + 1
         /\ Len(edges') = Len(edges) + 1
         /\ edges'[Len(edges)+1].type = BlockType
         /\ edges'[Len(edges)+1].row = row /\ edges'[Len(edges)+1].col = col
         /\ edges'[Len(edges)+1].below = 0
         /\ edges'[Len(edges)+1].above = (IF HasAbove(BlockType) THEN colTable[col] ELSE 0)
         /\ \A i \in 1..Len(edges) :
              /\ edges'[i].type = edges[i].type /\ edges'[i].row = edges[i].row
              /\ edges'[i].col = edges[i].col   /\ edges'[i].above = edges[i].above
              /\ edges'[i].below = IF HasAbove(BlockType) /\ i = colTable[col]
                                   THEN Len(edges) + 1 ELSE edges[i].below
         /\ \A c \in 0..Width :
              /\ c /= col => (c \in Pending' <=> c \in Pending) /\ colTable'[c] = colTable[c]
              /\ c = col /\ HasBelow(BlockType) => colTable'[c] = Len(edges) + 1
         /\ col \in Pending <=> HasAbove(BlockType)
         /\ (\A c \in 0..Width : c = col => (c \in Pending' <=> HasBelow(BlockType)))
         /\ OpenRight <=> HasLeft(BlockType)
         /\ OpenRight' <=> HasRight(BlockType)
         /\ UNCHANGED <<row, first, second, sweepPc>>
<1>1. /\ Len(edges) \in Nat /\ BlockType \in EdgeType /\ col \in 0..Width /\ col' = col + 1
      /\ UNCHANGED <<row, first, second, sweepPc>>
  BY BlockTypeFacts DEF AddEdge, SweepTypeOK
<1>2. edges' = PushEdge(BlockType)
  BY DEF AddEdge
<1>3. /\ HasAbove(BlockType) <=> first[col] /= first[col+1]
      /\ HasBelow(BlockType) <=> second[col] /= second[col+1]
      /\ HasLeft(BlockType)  <=> first[col] /= second[col]
      /\ HasRight(BlockType) <=> first[col+1] /= second[col+1]
  BY <1>1, BlockTypeFacts DEF AddEdge
<1>4. HasAbove(BlockType) => colTable[col] \in 1..Len(edges)
  BY <1>1, <1>3 DEF LinkInv, VerticalInv, ColTableInv, Pending
<1>5. /\ Len(edges') = Len(edges) + 1
      /\ edges'[Len(edges)+1] = [type |-> BlockType, row |-> row, col |-> col,
                                 above |-> AboveIdx(BlockType), below |-> 0]
      /\ \A i \in 1..Len(edges) :
           /\ edges'[i].type = edges[i].type /\ edges'[i].row = edges[i].row
           /\ edges'[i].col = edges[i].col   /\ edges'[i].above = edges[i].above
           /\ edges'[i].below = IF i = AboveIdx(BlockType)
                                THEN Len(edges) + 1 ELSE edges[i].below
  BY <1>1, <1>2, PushEdgeFacts
<1>6. \A i \in 1..Len(edges) :
        i = AboveIdx(BlockType) <=> HasAbove(BlockType) /\ i = colTable[col]
  BY <1>1 DEF AboveIdx
<1>7. \A c \in 0..Width :
        /\ c /= col => (c \in Pending' <=> c \in Pending) /\ colTable'[c] = colTable[c]
        /\ c = col /\ HasBelow(BlockType) => colTable'[c] = Len(edges) + 1
        /\ c = col => (c \in Pending' <=> HasBelow(BlockType))
  BY <1>1, <1>3 DEF AddEdge, Pending, SweepTypeOK
<1>8. (col \in Pending <=> HasAbove(BlockType)) /\ (OpenRight <=> HasLeft(BlockType))
  BY <1>1, <1>3 DEF Pending, OpenRight
<1>9. OpenRight' <=> HasRight(BlockType)
  BY <1>1, <1>3 DEF OpenRight
<1>10. /\ edges'[Len(edges)+1].type = BlockType
       /\ edges'[Len(edges)+1].row = row /\ edges'[Len(edges)+1].col = col
       /\ edges'[Len(edges)+1].below = 0
       /\ edges'[Len(edges)+1].above = (IF HasAbove(BlockType) THEN colTable[col] ELSE 0)
  BY <1>5 DEF AboveIdx
<1> QED
  BY <1>1, <1>5, <1>6, <1>7, <1>8, <1>9, <1>10

\* The vertical lines after a push.
LEMMA AddEdgeVertical ==
  ASSUME SweepTypeOK, LinkInv, AddEdge
  PROVE  VerticalInv'
<1>1. Len(edges) \in Nat /\ BlockType \in EdgeType /\ col \in 0..Width
  BY AddEdgeFacts
<1>2. ColTableInv /\ AboveInv /\ BelowInv
  BY DEF LinkInv, VerticalInv
<1>3. HasAbove(BlockType) =>
        /\ colTable[col] \in 1..Len(edges)
        /\ edges[colTable[col]].col = col
        /\ HasBelow(edges[colTable[col]].type)
        /\ edges[colTable[col]].below = 0
  BY <1>1, <1>2, AddEdgeFacts DEF ColTableInv
<1>4. \A i \in 1..Len(edges) : edges[i].col \in 0..Width
  BY <1>1, <1>2 DEF AboveInv
<1>5. ColTableInv'
  <2> SUFFICES ASSUME NEW c \in Pending'
               PROVE  /\ colTable'[c] \in 1..Len(edges')
                      /\ edges'[colTable'[c]].col = c
                      /\ HasBelow(edges'[colTable'[c]].type)
                      /\ edges'[colTable'[c]].below = 0
    BY DEF ColTableInv
  <2>0. c \in 0..Width
    BY DEF Pending
  <2>1. CASE c = col
    BY <1>1, <2>1, AddEdgeFacts
  <2>2. CASE c /= col
    <3>1. /\ c \in Pending /\ colTable'[c] = colTable[c]
          /\ Len(edges) \in Nat /\ Len(edges') = Len(edges) + 1
      BY <2>0, <2>2, AddEdgeFacts
    <3>2. /\ colTable[c] \in 1..Len(edges) /\ edges[colTable[c]].col = c
          /\ HasBelow(edges[colTable[c]].type) /\ edges[colTable[c]].below = 0
      BY <1>1, <1>2, <3>1 DEF ColTableInv
    <3>3. ~(HasAbove(BlockType) /\ colTable[c] = colTable[col])
      BY <1>3, <2>2, <3>2
    <3> QED
      BY <1>1, <3>1, <3>2, <3>3, AddEdgeFacts
  <2> QED
    BY <2>1, <2>2
<1>6. AboveInv'
  <2> SUFFICES ASSUME NEW i \in 1..Len(edges)+1
               PROVE  /\ edges'[i].col \in 0..Width
                      /\ HasAbove(edges'[i].type) =>
                           /\ edges'[i].above \in 1 .. i-1
                           /\ HasBelow(edges'[edges'[i].above].type)
                           /\ edges'[edges'[i].above].below = i
                           /\ edges'[edges'[i].above].col = edges'[i].col
    BY <1>1, AddEdgeFacts DEF AboveInv
  <2>1. CASE i = Len(edges) + 1
    <3> DEFINE a == colTable[col]
    <3>1. /\ edges'[i].type = BlockType /\ edges'[i].col = col
          /\ edges'[i].above = IF HasAbove(BlockType) THEN a ELSE 0
      BY <2>1, AddEdgeFacts
    <3>2. CASE HasAbove(BlockType)
      <4>1. a \in 1..Len(edges) /\ edges[a].col = col /\ HasBelow(edges[a].type)
        BY <1>3, <3>2
      <4>2. /\ edges'[a].type = edges[a].type /\ edges'[a].col = edges[a].col
            /\ edges'[a].below = Len(edges) + 1
        BY <3>2, <4>1, AddEdgeFacts
      <4> QED
        BY <1>1, <2>1, <3>1, <3>2, <4>1, <4>2
    <3> QED
      BY <1>1, <3>1, <3>2
  <2>2. CASE i \in 1..Len(edges)
    <3>1. /\ edges'[i].type = edges[i].type /\ edges'[i].col = edges[i].col
          /\ edges'[i].above = edges[i].above /\ Len(edges) \in Nat
      BY <1>1, <2>2, AddEdgeFacts
    <3>2. edges[i].col \in 0..Width
      BY <1>4, <2>2
    <3>3. ASSUME HasAbove(edges[i].type)
          PROVE  /\ edges[i].above \in 1 .. i-1
                 /\ HasBelow(edges[edges[i].above].type)
                 /\ edges[edges[i].above].below = i
                 /\ edges[edges[i].above].col = edges[i].col
      BY <1>1, <1>2, <2>2, <3>3 DEF AboveInv
    <3>4. ASSUME HasAbove(edges[i].type)
          PROVE  edges[i].above \in 1..Len(edges) /\ ~(HasAbove(BlockType) /\ edges[i].above = colTable[col])
      BY <1>3, <2>2, <3>1, <3>3, <3>4
    <3>5. ASSUME HasAbove(edges[i].type)
          PROVE  /\ edges'[edges[i].above].type = edges[edges[i].above].type
                 /\ edges'[edges[i].above].below = edges[edges[i].above].below
                 /\ edges'[edges[i].above].col = edges[edges[i].above].col
      BY <1>1, <3>4, <3>5, AddEdgeFacts
    <3> QED
      BY <3>1, <3>2, <3>3, <3>5
  <2>3. Len(edges) \in Nat
    BY <1>1, AddEdgeFacts
  <2> QED
    BY <2>1, <2>2, <2>3
<1>7. BelowInv'
  <2> SUFFICES ASSUME NEW i \in 1..Len(edges)+1, HasBelow(edges'[i].type)
               PROVE  \/ /\ edges'[i].below \in i+1 .. Len(edges)+1
                         /\ HasAbove(edges'[edges'[i].below].type)
                         /\ edges'[edges'[i].below].above = i
                      \/ /\ edges'[i].below = 0
                         /\ colTable'[edges'[i].col] = i
                         /\ edges'[i].col \in Pending'
    BY <1>1, AddEdgeFacts DEF BelowInv
  <2>0. Len(edges) \in Nat /\ col \in 0..Width
    BY <1>1, AddEdgeFacts
  <2>1. CASE i = Len(edges) + 1
    BY <1>1, <2>1, AddEdgeFacts
  <2>2. CASE i \in 1..Len(edges) /\ HasAbove(BlockType) /\ i = colTable[col]
    BY <1>1, <2>0, <2>2, AddEdgeFacts
  <2>3. CASE i \in 1..Len(edges) /\ ~(HasAbove(BlockType) /\ i = colTable[col])
    <3>1. /\ edges'[i].type = edges[i].type /\ edges'[i].col = edges[i].col
          /\ edges'[i].below = edges[i].below
      BY <1>1, <2>3, AddEdgeFacts
    <3>2. CASE /\ edges[i].below \in i+1 .. Len(edges)
               /\ HasAbove(edges[edges[i].below].type)
               /\ edges[edges[i].below].above = i
      <4>1. edges[i].below \in 1..Len(edges)
        BY <2>0, <2>3, <3>2
      <4>2. /\ edges'[edges[i].below].type = edges[edges[i].below].type
            /\ edges'[edges[i].below].above = edges[edges[i].below].above
        BY <1>1, <4>1, AddEdgeFacts
      <4> QED
        BY <2>0, <2>3, <3>1, <3>2, <4>2
    <3>3. CASE /\ edges[i].below = 0 /\ colTable[edges[i].col] = i
               /\ edges[i].col \in Pending
      <4>1. edges[i].col \in 0..Width
        BY <1>4, <2>3
      <4>2. edges[i].col /= col
        BY <1>1, <2>3, <3>3, AddEdgeFacts
      <4>3. edges[i].col \in Pending' /\ colTable'[edges[i].col] = i
        BY <3>3, <4>1, <4>2, AddEdgeFacts
      <4> QED
        BY <3>1, <3>3, <4>3
    <3> QED
      BY <1>1, <1>2, <2>3, <3>1, <3>2, <3>3 DEF BelowInv
  <2> QED
    BY <2>0, <2>1, <2>2, <2>3
<1> QED
  BY <1>5, <1>6, <1>7 DEF VerticalInv

\* The horizontal lines after a push: the new edge ends the one that was open.
LEMMA AddEdgeHorizontal ==
  ASSUME SweepTypeOK, LinkInv, AddEdge
  PROVE  HorizontalInv'
<1>1. LeftInv /\ RightInv /\ OpenInv
  BY DEF LinkInv, HorizontalInv
<1>2. Len(edges) \in Nat /\ Len(edges') = Len(edges) + 1 /\ row' = row
  BY AddEdgeFacts
<1>3. LeftInv'
  <2> SUFFICES ASSUME NEW i \in 1..Len(edges)+1, HasLeft(edges'[i].type)
               PROVE  i > 1 /\ HasRight(edges'[i-1].type)
    BY <1>2 DEF LeftInv
  <2>1. CASE i = Len(edges) + 1
    <3>1. OpenRight
      BY <2>1, AddEdgeFacts
    <3>2. Len(edges) >= 1 /\ HasRight(edges[Len(edges)].type)
      BY <1>1, <3>1 DEF OpenInv
    <3>3. edges'[Len(edges)].type = edges[Len(edges)].type
      BY <1>2, <3>2, AddEdgeFacts
    <3> QED
      BY <1>2, <2>1, <3>2, <3>3
  <2>2. CASE i \in 1..Len(edges)
    <3>1. i > 1 /\ HasRight(edges[i-1].type)
      BY <1>1, <2>2, AddEdgeFacts DEF LeftInv
    <3>2. i-1 \in 1..Len(edges)
      BY <1>2, <2>2, <3>1
    <3> QED
      BY <3>1, <3>2, AddEdgeFacts
  <2> QED
    BY <1>2, <2>1, <2>2
<1>4. RightInv'
  <2> SUFFICES ASSUME NEW i \in 1..Len(edges)+1, HasRight(edges'[i].type)
               PROVE  \/ /\ i < Len(edges) + 1
                         /\ HasLeft(edges'[i+1].type)
                         /\ edges'[i+1].row = edges'[i].row
                      \/ /\ i = Len(edges) + 1
                         /\ OpenRight'
                         /\ edges'[i].row = row'
    BY <1>2 DEF RightInv
  <2>1. CASE i = Len(edges) + 1
    BY <1>2, <2>1, AddEdgeFacts
  <2>2. CASE i = Len(edges)
    <3>1. i \in 1..Len(edges) /\ edges'[i].type = edges[i].type /\ edges'[i].row = edges[i].row
      BY <1>2, <2>2, AddEdgeFacts
    <3>2. OpenRight /\ edges[i].row = row
      BY <1>1, <1>2, <2>2, <3>1 DEF RightInv
    <3>3. HasLeft(edges'[i+1].type) /\ edges'[i+1].row = row
      BY <2>2, <3>2, AddEdgeFacts
    <3> QED
      BY <1>2, <2>2, <3>1, <3>2, <3>3
  <2>3. CASE i \in 1..Len(edges)-1
    <3>1. i \in 1..Len(edges) /\ i+1 \in 1..Len(edges)
      BY <1>2, <2>3
    <3>2. edges'[i].type = edges[i].type /\ edges'[i].row = edges[i].row
      BY <3>1, AddEdgeFacts
    <3>3. HasLeft(edges[i+1].type) /\ edges[i+1].row = edges[i].row
      BY <1>1, <1>2, <2>3, <3>1, <3>2 DEF RightInv
    <3>4. edges'[i+1].type = edges[i+1].type /\ edges'[i+1].row = edges[i+1].row
      BY <3>1, AddEdgeFacts
    <3> QED
      BY <1>2, <2>3, <3>2, <3>3, <3>4
  <2> QED
    BY <1>2, <2>1, <2>2, <2>3
<1>5. OpenInv'
  BY <1>2, AddEdgeFacts DEF OpenInv
<1> QED
  BY <1>3, <1>4, <1>5 DEF HorizontalInv

\* Every step of the sweep keeps the invariant.
LEMMA LinkStep ==
  ASSUME SweepTypeOK, SweepTypeOK', LinkInv, [SweepNext]_sweepVars
  PROVE  LinkInv'
<1>1. CASE ReadRow
  BY <1>1, ReadKeepsLinks
<1>2. CASE ReadBleedRow
  BY <1>2, ReadKeepsLinks
<1>3. CASE SkipBlock
  BY <1>3, SkipKeepsLinks
<1>4. CASE AddEdge
  <2>1. BleedInv'
    BY <1>4, AddEdgeFacts DEF AddEdge, LinkInv, BleedInv
  <2> QED
    BY <1>4, <2>1, AddEdgeVertical, AddEdgeHorizontal DEF LinkInv
<1>5. CASE GrowFails
  <2>1. BleedInv' /\ Pending' = Pending /\ (OpenRight' <=> OpenRight)
    BY <1>5 DEF GrowFails, LinkInv, BleedInv, Pending, OpenRight
  <2> QED
    BY <1>5, <2>1, SameLines DEF GrowFails
<1>6. CASE EndLine
  BY <1>6, EndLineKeepsLinks
<1>7. CASE UNCHANGED sweepVars
  <2>1. BleedInv' /\ Pending' = Pending /\ (OpenRight' <=> OpenRight)
    BY <1>7 DEF sweepVars, LinkInv, BleedInv, Pending, OpenRight
  <2> QED
    BY <1>7, <2>1, SameLines DEF sweepVars
<1> QED
  BY <1>1, <1>2, <1>3, <1>4, <1>5, <1>6, <1>7 DEF SweepNext, SweepStep, SweepOver

\* When the sweep is over nothing is pending or open, so the invariant says
\* that every line has both of its ends.
LEMMA LinkImplies ==
  ASSUME SweepTypeOK, LinkInv
  PROVE  LinksClosed
<1> SUFFICES ASSUME sweepPc = "swept"
             PROVE  LinksClosed
  BY DEF LinksClosed
<1>1. col = Width + 1 /\ second = BleedLine /\ BleedInv
  BY DEF LinkInv, BleedInv
<1>2. Pending = {}
  <2>1. \A c \in 0..Width : c < col /\ c \in Cells /\ c+1 \in Cells
    BY <1>1, SizeAssumption DEF Cells
  <2> QED
    BY <1>1, <2>1 DEF Pending, BleedLine
<1>3. ~OpenRight
  BY <1>1, BleedCells DEF OpenRight
<1> QED
  BY <1>2, <1>3
  DEF LinksClosed, LinkInv, VerticalInv, HorizontalInv, AboveInv, BelowInv, LeftInv, RightInv

(***************************************************************************)
(* When the sweep ends, every line of the outline can be followed from     *)
(* both of its ends, whatever the raster holds and whichever reads fail.   *)
(***************************************************************************)
THEOREM LinksAlwaysClosed == SweepSpec => []LinksClosed
<1>1. SweepInit => SweepTypeOK /\ LinkInv
  BY SweepTypeInit, LinkInit
<1>2. SweepTypeOK /\ LinkInv /\ [SweepNext]_sweepVars => SweepTypeOK' /\ LinkInv'
  BY SweepTypeStep, LinkStep
<1>3. SweepTypeOK /\ LinkInv => LinksClosed
  BY LinkImplies
<1> QED
  BY <1>1, <1>2, <1>3, PTL DEF SweepSpec

-------------------------------------------------------------------------------

\* The growth of EdgeMem makes room for the edge that asked for it.
LEMMA GrownSlotsSuffice ==
  ASSUME SweepTypeOK
  PROVE  GrownSlots >= Len(edges) + 2
  BY DEF SweepTypeOK, GrownSlots, RequiredSlots

\* No edge is ever pushed past the end of EdgeMem: the list and its stub fit.
THEOREM EdgesAlwaysFit == SweepSpec => []EdgesFit
<1>1. SweepInit => SweepTypeOK /\ EdgesFit
  BY SweepTypeInit, SlotsAssumption DEF SweepInit, EdgesFit
<1>2. SweepTypeOK /\ EdgesFit /\ [SweepNext]_sweepVars => SweepTypeOK' /\ EdgesFit'
  <2> SUFFICES ASSUME SweepTypeOK, EdgesFit, [SweepNext]_sweepVars
               PROVE  EdgesFit'
    BY SweepTypeStep
  <2>1. CASE AddEdge
    <3>1. slots' >= Len(edges) + 2
      BY <2>1, GrownSlotsSuffice DEF AddEdge
    <3>2. Len(edges') = Len(edges) + 1 /\ Len(edges) \in Nat
      <4>1. col =< Width /\ BlockType \in EdgeType /\ edges' = PushEdge(BlockType)
        BY <2>1, BlockTypeFacts DEF AddEdge
      <4>2. Len(PushEdge(BlockType)) = Len(edges) + 1
        BY <4>1, PushEdgeFacts
      <4> QED
        BY <4>1, <4>2 DEF SweepTypeOK
    <3> QED
      BY <3>1, <3>2 DEF EdgesFit
  <2>2. CASE UNCHANGED <<edges, slots>>
    BY <2>2 DEF EdgesFit
  <2> QED
    BY <2>1, <2>2 DEF SweepNext, SweepStep, SweepOver, sweepVars, ReadRow,
       ReadBleedRow, SkipBlock, GrowFails, EndLine
<1> QED
  BY <1>1, <1>2, PTL DEF SweepSpec
===============================================================================
