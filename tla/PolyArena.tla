------------------------------- MODULE PolyArena -------------------------------
(***************************************************************************)
(* The memory the rings of an outline are written to, counted in bytes     *)
(* (RasterToOutline(), BBoxOutline() and FreePolyInfo() in                 *)
(* src/raster-outline.cpp).  The outline of the whole raster is one ring   *)
(* in memory of its own.  For any other the sweep has counted the          *)
(* vertices; each ring takes a header, its vertices, the repeated first    *)
(* vertex and a tree node, and the memory is enlarged only before a ring.  *)
(* Which rings there are is left open: any partition of the vertices into  *)
(* rings of RingSizes.                                                     *)
(***************************************************************************)
EXTENDS Integers

CONSTANTS
  PageSize,      \* gSysInfo.PageSize
  StartSize,     \* RING_DATA_START_SIZE
  Totals,        \* the numbers of vertices a sweep may have counted
  RingSizes,     \* the numbers of vertices a walk may visit before it closes
  AllocMayFail

\* sizeof(ring_info), sizeof(tree_node), sizeof(v2) and RING_SIZE
RingInfoSize == 16
TreeNodeSize == 40
VertexSize   == 16
RingSize     == RingInfoSize + TreeNodeSize

\* BBOX_BUFFER_SIZE
BBoxBufferSize == RingInfoSize + 5 * VertexSize

ASSUME PageAssumption ==
  /\ PageSize \in Nat \ {0} /\ StartSize \in Nat
  /\ StartSize >= PageSize + RingSize

\* A ring has at least four corners.
ASSUME RingAssumption ==
  /\ Totals \subseteq Nat \ {0}
  /\ RingSizes \subseteq {c \in Nat : c >= 4}
  /\ AllocMayFail \in BOOLEAN

VARIABLES
  arenaPc,      \* "start", "begin" or "write" a ring, "done", "freed", "empty", or
                \* "bbox": the outline is that of the raster;
                \* "vertex" / "node": the Assert behind the push of that fails
  size,         \* PolyRings.Size, a whole number of pages
  used,         \* PolyRings.WriteCur
  ringData,     \* RingDataSize
  vertexCount,  \* Info.VertexCount
  numVertices,  \* Poly.NumVertices
  numRings,     \* Poly.NumRings
  left,         \* vertices that are in no ring yet
  unmapped      \* bytes FreePolyInfo() returns to the system

arenaVars == <<arenaPc, size, used, ringData, vertexCount, numVertices,
               numRings, left, unmapped>>

\* The macro Align() for a positive value, and for 0, where it wraps to 0.
Align(value, boundary) == ((value + boundary - 1) \div boundary) * boundary

ArenaInit ==
  /\ arenaPc = "start"
  /\ vertexCount \in Totals /\ left = vertexCount
  /\ size = 0 /\ used = 0 /\ ringData = StartSize
  /\ numVertices = 0 /\ numRings = 0 /\ unmapped = 0

\* Mutant: the enlarged memory has room for the vertices left to write only.
PolyDataSizeForLeft(data) ==
  Align(data + (vertexCount - numVertices) * VertexSize, PageSize)

\* The size asked for: room for ringData bytes of rings and every vertex.
PolyDataSize(data) == Align(data + vertexCount * VertexSize, PageSize)

FirstAlloc ==
  /\ arenaPc = "start"
  /\ arenaPc' = "begin" /\ size' = PolyDataSize(ringData)
  /\ UNCHANGED <<used, ringData, vertexCount, numVertices, numRings, left, unmapped>>

\* The outline of the raster: memory for one ring, without a tree node.
BBoxOutline ==
  /\ arenaPc = "start"
  /\ arenaPc' = "bbox"
  /\ size' = Align(BBoxBufferSize, PageSize) /\ used' = BBoxBufferSize
  /\ numVertices' = 5 /\ numRings' = 1
  /\ UNCHANGED <<ringData, vertexCount, left, unmapped>>

NumVerticesLeft  == vertexCount - numVertices

\* Mutants: the vertices that are left do not count, or not the tree node.
RequiredForVerticesOnly == RingInfoSize + NumVerticesLeft * VertexSize
RequiredForHeaderOnly   == RingSize

RequiredRingSize == RingSize + NumVerticesLeft * VertexSize
MustGrow         == RequiredRingSize > size - used

\* A ring starts: its header is pushed, into larger memory if need be.
BeginRing ==
  /\ arenaPc = "begin" /\ left > 0
  /\ IF MustGrow
     THEN /\ ringData' = ringData + StartSize
          /\ size' = PolyDataSize(ringData')
     ELSE UNCHANGED <<ringData, size>>
  /\ IF used + RingInfoSize =< size'
     THEN used' = used + RingInfoSize /\ arenaPc' = "write"
     ELSE arenaPc' = "vertex" /\ UNCHANGED used
  /\ UNCHANGED <<vertexCount, numVertices, numRings, left, unmapped>>

AllocFails ==
  /\ AllocMayFail
  /\ \/ arenaPc = "start"
     \/ arenaPc = "begin" /\ left > 0 /\ MustGrow
  /\ arenaPc' = "empty"
  /\ UNCHANGED <<size, used, ringData, vertexCount, numVertices, numRings, left,
                 unmapped>>

(***************************************************************************)
(* A ring of c corners is written: its vertices, the first of them again,  *)
(* and the tree node.  The other rings need vertices too: some are left,   *)
(* or none.                                                                *)
(***************************************************************************)
WriteRing(c) ==
  LET afterVertices == used + (c + 1) * VertexSize
  IN  /\ arenaPc = "write"
      /\ c = left \/ c + 4 =< left
      /\ IF afterVertices > size
         THEN /\ arenaPc' = "vertex"
              /\ UNCHANGED <<used, vertexCount, numVertices, numRings, left>>
         ELSE /\ vertexCount' = vertexCount + 1
              /\ numVertices' = numVertices + c + 1
              /\ numRings' = numRings + 1
              /\ left' = left - c
              /\ IF afterVertices + TreeNodeSize > size
                 THEN arenaPc' = "node" /\ used' = afterVertices
                 ELSE arenaPc' = "begin" /\ used' = afterVertices + TreeNodeSize
      /\ UNCHANGED <<size, ringData, unmapped>>

LastRing == arenaPc = "write" /\ WriteRing(left)

EndRings ==
  /\ arenaPc = "begin" /\ left = 0
  /\ arenaPc' = "done"
  /\ UNCHANGED <<size, used, ringData, vertexCount, numVertices, numRings, left,
                 unmapped>>

\* Mutant: the rings themselves are forgotten.
FreedSizeOfVertices == Align(VertexSize * numVertices, PageSize)

\* What FreePolyInfo() unmaps: it knows the counts, not the size of the memory, and
\* the system unmaps whole pages.
FreedSize == Align(VertexSize * numVertices + Align(RingSize * numRings, StartSize), PageSize)

FreePolyInfo ==
  /\ arenaPc \in {"done", "bbox"}
  /\ arenaPc' = "freed"
  /\ unmapped' = FreedSize
  /\ UNCHANGED <<size, used, ringData, vertexCount, numVertices, numRings, left>>

\* The outline is gone, or there is none, or the program has stopped.
ArenaOver ==
  /\ arenaPc \in {"freed", "empty", "vertex", "node"}
  /\ UNCHANGED arenaVars

ArenaNext == \/ FirstAlloc \/ BBoxOutline \/ BeginRing \/ AllocFails \/ LastRing
             \/ \E c \in RingSizes : WriteRing(c)
             \/ EndRings \/ FreePolyInfo \/ ArenaOver

ArenaSpec == ArenaInit /\ [][ArenaNext]_arenaVars

-------------------------------------------------------------------------------

ArenaTypeOK ==
  /\ arenaPc \in {"start", "bbox", "begin", "write", "done", "freed", "empty", "vertex", "node"}
  /\ size \in Nat /\ used \in 0..size
  /\ ringData \in Nat /\ vertexCount \in Nat
  /\ numVertices \in Nat /\ numRings \in Nat /\ left \in Nat /\ unmapped \in Nat

(***************************************************************************)
(* The test before each ring is enough for its header and its vertices:    *)
(* the Asserts of WriteVertex() and of the ring header never fail, however *)
(* the vertices are divided into rings and however often the memory grew,  *)
(* and although the grown memory is not compared with what is required.    *)
(***************************************************************************)
VerticesFit == arenaPc /= "vertex"

(***************************************************************************)
(* When a tree node does not fit, it is the node of the last ring, and it  *)
(* lacks at most the 16 bytes of the repeated vertex, which the test does  *)
(* not ask room for.                                                       *)
(***************************************************************************)
ShortByOneVertex ==
  arenaPc = "node" => left = 0 /\ used + TreeNodeSize =< size + VertexSize

(***************************************************************************)
(* FreePolyInfo() computes the size of the memory from the counts of rings *)
(* and vertices: no byte that holds a ring stays mapped.                   *)
(***************************************************************************)
FreesAllRings == arenaPc = "freed" => used =< unmapped

(***************************************************************************)
(* What src/raster-outline.h says of FreePolyInfo(): "to free the memory   *)
(* allocated" by RasterToOutline(), which is no more than that memory and  *)
(* no less.  The size computed from the counts is another.                 *)
(***************************************************************************)
FreesWhatWasAllocated == arenaPc = "freed" => unmapped = size

\* "if (!Node) Assert(0)": the tree node of a ring always fits.
NodesFit == arenaPc /= "node"

===============================================================================
