------------------------------- MODULE EdgeSweep -------------------------------
(***************************************************************************)
(* The line sweep of RasterToOutline() (src/raster-outline.cpp): the       *)
(* raster is read row by row into a window of two lines, and               *)
(* ProcessSweepLine() turns every 2 x 2 block of the window into an edge   *)
(* of the edge list, linked to the edge above it through ColTable.         *)
(*                                                                         *)
(* A pixel is abstracted to the result of its test.  The two lines have    *)
(* InspectWidth = Width + 2 cells, and cells 0 and Width + 1 are bleed:    *)
(* pixels outside the raster, which never pass.  The model's sequence      *)
(* "edges" has the indices of the code's EdgeList, whose element 0 is a    *)
(* stub, so EdgeCount = Len(edges) + 1.                                    *)
(***************************************************************************)
EXTENDS Sequences, BlockEdges

CONSTANTS
  Width, Height,   \* the size of the raster
  Images,          \* the test results the rasters of this instance can have
  StartSlots,      \* edges that fit the first allocation of EdgeMem
  AllocMayFail,    \* whether GetMemory() can return no memory
  ReadMayFail      \* whether GDALDatasetRasterIO() can fail

ASSUME SizeAssumption == Width \in Nat \ {0} /\ Height \in Nat \ {0}
ASSUME SlotsAssumption == StartSlots \in Nat \ {0}
ASSUME FailAssumption == AllocMayFail \in BOOLEAN /\ ReadMayFail \in BOOLEAN
ASSUME ImagesAssumption ==
  Images \subseteq [0..Height-1 -> [0..Width-1 -> BOOLEAN]]

VARIABLES
  image,        \* the raster; of a row whose read failed, what was read
  misread,      \* whether a read of a row has failed: what the code does not notice
  sweepPc,      \* "read" a row, "scan" its blocks, "swept", or "failed"
  row, col,     \* Row and Col of the loops
  first,        \* FirstLine: the line above the scanned vertices
  second,       \* SecondLine: the line below them
  edges,        \* EdgeList from index 1 on
  colTable,     \* ColTable: per column, the last edge that has a line below
  vertexCount,  \* Info.VertexCount
  slots         \* edges that fit EdgeMem, the stub included

sweepVars == <<image, misread, sweepPc, row, col, first, second, edges,
               colTable, vertexCount, slots>>

Cells     == 0 .. Width + 1      \* of a line
BleedLine == [k \in Cells |-> FALSE]
Edge      == [type : EdgeType, row : Nat, col : Nat, above : Nat, below : Nat]

SweepInit ==
  /\ image \in Images /\ misread = FALSE
  /\ sweepPc = "read"
  /\ row = 0 /\ col = 0
  /\ first = BleedLine /\ second = BleedLine
  /\ edges = << >>
  /\ colTable = [c \in 0..Width |-> 0]
  /\ vertexCount = 0
  /\ slots = StartSlots

\* Mutants: a line without its right bleed cell, and a row read to the start
\* of the line, over its left bleed cell.
LineReadNoBleed(got) ==
  [k \in 0..Width |-> IF k \in 1..got THEN image[row][k-1] ELSE second[k]]
LineReadShifted(got) ==
  [k \in Cells |-> IF k \in 0..got-1 THEN image[row][k] ELSE second[k]]

\* The second line once "got" pixels of the row are read between its bleed cells.
LineRead(got) ==
  [k \in Cells |-> IF k \in 1..got THEN image[row][k-1] ELSE second[k]]

(***************************************************************************)
(* The read of a row.  Its result is not looked at: where a failed read    *)
(* stopped, the line still holds the row before it, and the call goes on   *)
(* as if the raster had these pixels.  "image" follows what was read, so   *)
(* that the sweep can be judged by it; that it was not the raster is what  *)
(* "misread" tells.                                                        *)
(***************************************************************************)
ReadRow ==
  /\ sweepPc = "read" /\ row < Height
  /\ \/ second' = LineRead(Width) /\ UNCHANGED <<image, misread>>
     \/ /\ ReadMayFail /\ misread' = TRUE
        /\ \E got \in 0 .. Width-1 : second' = LineRead(got)
        /\ image' = [image EXCEPT ![row] = [c \in 0..Width-1 |-> second'[c+1]]]
  /\ sweepPc' = "scan"
  /\ UNCHANGED <<row, col, first, edges, colTable, vertexCount, slots>>

\* "Do the last line": the row below the raster is all bleed.
ReadBleedRow ==
  /\ sweepPc = "read" /\ row = Height
  /\ second' = BleedLine
  /\ sweepPc' = "scan"
  /\ UNCHANGED <<image, misread, row, col, first, edges, colTable, vertexCount, slots>>

BlockType == GetBlockEdges(first[col], first[col+1], second[col], second[col+1])

\* A block whose pixels agree, or are split by a straight line.
SkipBlock ==
  /\ sweepPc = "scan" /\ col =< Width
  /\ BlockType = "None"
  /\ col' = col + 1
  /\ UNCHANGED <<image, misread, sweepPc, row, first, second, edges, colTable,
                 vertexCount, slots>>

\* Mutant: the stub is forgotten.
RequiredSlotsNoStub == Len(edges) + 1

\* The slots for the edges, the new one and the stub.
RequiredSlots == Len(edges) + 2

\* EdgeMem doubles when the edge does not fit, or more if that is not enough.
GrownSlots ==
  IF slots >= RequiredSlots THEN slots
  ELSE IF 2 * slots >= RequiredSlots THEN 2 * slots ELSE RequiredSlots

\* Mutant: every new edge is linked to the last one of its column.
AboveIdxAlways(t) == colTable[col]

\* The edge above a new edge of type t, 0 if no line leads there.
AboveIdx(t) == IF HasAbove(t) THEN colTable[col] ELSE 0

\* The edge list with an edge of type t pushed and linked to the one above it.
PushEdge(t) ==
  LET n   == Len(edges) + 1
      new == [type |-> t, row |-> row, col |-> col, above |-> AboveIdx(t), below |-> 0]
      old == [i \in 1..Len(edges) |->
                IF i = AboveIdx(t) THEN [edges[i] EXCEPT !.below = n] ELSE edges[i]]
  IN  Append(old, new)

\* Mutant: an edge is one vertex, also where two corners touch.
VerticesOfOnce(t) == 1

\* The vertices an edge of type t will give the rings.
VerticesOf(t) == IF t = "Cross" THEN 2 ELSE 1

AddEdge ==
  /\ sweepPc = "scan" /\ col =< Width
  /\ BlockType /= "None"
  /\ slots' = GrownSlots
  /\ edges' = PushEdge(BlockType)
  /\ colTable' = IF HasBelow(BlockType)
                 THEN [colTable EXCEPT ![col] = Len(edges) + 1] ELSE colTable
  /\ vertexCount' = vertexCount + VerticesOf(BlockType)
  /\ col' = col + 1
  /\ UNCHANGED <<image, misread, sweepPc, row, first, second>>

\* The larger EdgeMem cannot be had: ProcessSweepLine() returns false.
GrowFails ==
  /\ AllocMayFail
  /\ sweepPc = "scan" /\ col =< Width
  /\ BlockType /= "None" /\ slots < RequiredSlots
  /\ sweepPc' = "failed"
  /\ UNCHANGED <<image, misread, row, col, first, second, edges, colTable, vertexCount,
                 slots>>

\* The end of a line: the second line becomes the first line of the next row.
EndLine ==
  /\ sweepPc = "scan" /\ col = Width + 1
  /\ IF row < Height
     THEN /\ first' = second
          /\ row' = row + 1
          /\ col' = 0
          /\ sweepPc' = "read"
     ELSE /\ sweepPc' = "swept"
          /\ UNCHANGED <<first, row, col>>
  /\ UNCHANGED <<image, misread, second, edges, colTable, vertexCount, slots>>

\* The sweep is over and only stutters: any other state without a successor
\* is a deadlock.
SweepOver ==
  /\ sweepPc \in {"swept", "failed"}
  /\ UNCHANGED sweepVars

SweepStep == \/ ReadRow \/ ReadBleedRow \/ SkipBlock
             \/ AddEdge \/ GrowFails \/ EndLine

SweepNext == SweepStep \/ SweepOver

SweepSpec == SweepInit /\ [][SweepNext]_sweepVars

-------------------------------------------------------------------------------

\* Every variable has the type the code declares for it.
SweepTypeOK ==
  /\ image \in [0..Height-1 -> [0..Width-1 -> BOOLEAN]] /\ misread \in BOOLEAN
  /\ sweepPc \in {"read", "scan", "swept", "failed"}
  /\ row \in 0..Height /\ col \in 0 .. Width+1
  /\ first \in [Cells -> BOOLEAN] /\ second \in [Cells -> BOOLEAN]
  /\ edges \in Seq(Edge)
  /\ colTable \in [0..Width -> 0..Len(edges)]
  /\ vertexCount \in Nat
  /\ slots \in Nat

\* Whether pixel (r, c) is inside the raster and passes the test.
Selected(r, c) == r \in 0..Height-1 /\ c \in 0..Width-1 /\ image[r][c]

\* The edge type of the vertex at the top left corner of pixel (r, c).
VertexType(r, c) == GetBlockEdges(Selected(r-1, c-1), Selected(r-1, c),
                                  Selected(r, c-1), Selected(r, c))

(***************************************************************************)
(* When the sweep ends, the edge list holds one edge for every corner of   *)
(* the selected region and nothing else, in row-major order.  The window   *)
(* of two lines, its bleed cells and the copy at the end of each row must  *)
(* all be right for this.                                                  *)
(***************************************************************************)
EdgesAreCorners ==
  sweepPc = "swept" =>
    /\ \A i \in 1 .. Len(edges) - 1 :
         \/ edges[i].row < edges[i+1].row
         \/ edges[i].row = edges[i+1].row /\ edges[i].col < edges[i+1].col
    /\ {<<edges[i].row, edges[i].col, edges[i].type>> : i \in 1..Len(edges)}
       = {v \in (0..Height) \X (0..Width) \X EdgeType :
            v[3] = VertexType(v[1], v[2])}

(***************************************************************************)
(* When the sweep ends, every line of the outline can be followed from     *)
(* both of its ends: the edge below (above) has a line above (below) and   *)
(* points back, and the neighbour in the list is the other end of a        *)
(* horizontal line.  This is what lets the ring walk go Edge++, Edge--,    *)
(* EdgeList[Below] and EdgeList[Above] without looking at positions.       *)
(***************************************************************************)
LinksClosed ==
  sweepPc = "swept" =>
    \A i \in 1..Len(edges) :
      /\ HasAbove(edges[i].type) =>
           /\ edges[i].above \in 1 .. i-1
           /\ HasBelow(edges[edges[i].above].type)
           /\ edges[edges[i].above].below = i
           /\ edges[edges[i].above].col = edges[i].col
      /\ HasBelow(edges[i].type) =>
           /\ edges[i].below \in i+1 .. Len(edges)
           /\ HasAbove(edges[edges[i].below].type)
           /\ edges[edges[i].below].above = i
      /\ HasRight(edges[i].type) =>
           /\ i < Len(edges)
           /\ HasLeft(edges[i+1].type)
           /\ edges[i+1].row = edges[i].row
      /\ HasLeft(edges[i].type) =>
           /\ i > 1
           /\ HasRight(edges[i-1].type)

\* The push of an edge never runs past the end of EdgeMem.
EdgesFit == Len(edges) + 1 =< slots
===============================================================================
