--------------------------- MODULE TestAndArenaProofs ---------------------------
(***************************************************************************)
(* Proofs about the two parts of RasterToOutline() that stand beside the   *)
(* edge list: the memory the rings are written to, and the pixel tests.    *)
(***************************************************************************)
EXTENDS PolyArena, PixelTest, FiniteIntegers

-------------------------------------------------------------------------------

(***************************************************************************)
(* The ring memory, for every page size, start size and division of the    *)
(* vertices into rings.                                                    *)
(***************************************************************************)

\* Align() gives at least the value, and less than one boundary more.
LEMMA AlignBounds ==
  ASSUME NEW v \in Nat, NEW b \in Nat \ {0}
  PROVE  /\ Align(v, b) \in Nat
         /\ v =< Align(v, b) /\ Align(v, b) =< v + b - 1
<1> DEFINE a == v + b - 1
           q == a \div b
           r == a % b
<1>1. a \in Nat
  OBVIOUS
<1>2. q \in Nat /\ r \in Nat
  BY <1>1
<1>3. a = b * q + r /\ r < b
  BY <1>1
<1>4. q * b = a - r /\ q * b \in Nat
  BY <1>1, <1>2, <1>3
<1>5. Align(v, b) = q * b
  BY DEF Align
<1> HIDE DEF q, r
<1> QED
  BY <1>2, <1>3, <1>4, <1>5

(***************************************************************************)
(* The bytes written so far, the bound of what they take from the part of  *)
(* the memory that is not counted in vertices, and what is left for the    *)
(* ring being written.                                                     *)
(***************************************************************************)
Written == RingSize * numRings + VertexSize * numVertices

ArenaInv ==
  /\ ArenaTypeOK
  /\ arenaPc \notin {"bbox", "freed"} => vertexCount = left + numVertices
  /\ arenaPc = "bbox" => used = BBoxBufferSize /\ numVertices = 5 /\ numRings = 1
  /\ ringData >= StartSize
  /\ arenaPc \in {"begin", "write", "done"} =>
       size =< ringData + VertexSize * vertexCount + PageSize - 1
  /\ arenaPc = "start" => used = 0 /\ numRings = 0 /\ numVertices = 0
  /\ arenaPc \in {"begin", "done"} =>
       /\ used = Written
       /\ RingSize * numRings =< ringData + PageSize - 1
  /\ arenaPc = "write" =>
       /\ used = Written + RingInfoSize
       /\ RingSize * (numRings + 1) =< ringData + PageSize - 1
       /\ used + TreeNodeSize + VertexSize * left =< size
  /\ VerticesFit
  /\ ShortByOneVertex
  /\ FreesAllRings

\* What PolyDataSize() returns, from the counts it is computed from.
LEMMA PolyDataSizeBounds ==
  ASSUME ArenaTypeOK, NEW data \in Nat
  PROVE  /\ PolyDataSize(data) \in Nat
         /\ data + VertexSize * vertexCount =< PolyDataSize(data)
         /\ PolyDataSize(data) =< data + VertexSize * vertexCount + PageSize - 1
<1> DEFINE v == data + vertexCount * VertexSize
<1>1. v \in Nat /\ v = data + VertexSize * vertexCount
  BY DEF ArenaTypeOK, VertexSize
<1>2. PolyDataSize(data) = Align(v, PageSize)
  BY DEF PolyDataSize
<1> HIDE DEF v
<1> QED
  BY <1>1, <1>2, AlignBounds, PageAssumption DEF VertexSize, ArenaTypeOK

\* The bytes FreePolyInfo() unmaps, and those that were written.
LEMMA FreedSizeBounds ==
  ASSUME ArenaTypeOK
  PROVE  /\ FreedSize \in Nat
         /\ Written =< FreedSize
<1> DEFINE rs == Align(RingSize * numRings, StartSize)
           vs == VertexSize * numVertices
<1>1. RingSize * numRings \in Nat /\ vs \in Nat
  BY DEF ArenaTypeOK, RingSize, RingInfoSize, TreeNodeSize, VertexSize
<1>2. StartSize \in Nat \ {0} /\ PageSize \in Nat \ {0}
  BY PageAssumption DEF RingSize, RingInfoSize, TreeNodeSize
<1>3. rs \in Nat /\ RingSize * numRings =< rs
  BY <1>1, <1>2, AlignBounds
<1>4. vs + rs \in Nat
  BY <1>1, <1>3
<1>5. FreedSize \in Nat /\ vs + rs =< FreedSize
  BY <1>2, <1>4, AlignBounds DEF FreedSize
<1>6. Written = RingSize * numRings + vs
  BY DEF Written
<1> HIDE DEF rs, vs
<1> QED
  BY <1>1, <1>2, <1>3, <1>5, <1>6

\* The same for the outline of the raster, whose memory has no tree node: what
\* Align() makes of one ring is the start size.
LEMMA FreedSizeOfBBox ==
  ASSUME ArenaTypeOK, numVertices = 5, numRings = 1
  PROVE  /\ FreedSize \in Nat
         /\ BBoxBufferSize =< FreedSize
<1> USE DEF RingSize, RingInfoSize, TreeNodeSize, VertexSize, BBoxBufferSize
<1>1. StartSize \in Nat \ {0} /\ PageSize \in Nat \ {0} /\ StartSize >= RingSize
  BY PageAssumption
<1>2. Align(RingSize, StartSize) = StartSize
  <2>1. (RingSize + StartSize - 1) \div StartSize = 1
    BY <1>1
  <2> QED
    BY <1>1, <2>1 DEF Align
<1>3. FreedSize = Align(80 + StartSize, PageSize)
  BY <1>1, <1>2 DEF FreedSize
<1> DEFINE v == 80 + StartSize
<1>4. v \in Nat
  BY <1>1
<1>5. Align(v, PageSize) \in Nat /\ v =< Align(v, PageSize)
  <2> HIDE DEF v
  <2> QED
    BY <1>1, <1>4, AlignBounds
<1> QED
  BY <1>1, <1>3, <1>5

LEMMA ArenaInitInv == ArenaInit => ArenaInv
  BY PageAssumption, RingAssumption
  DEF ArenaInit, ArenaInv, ArenaTypeOK, VerticesFit, ShortByOneVertex, FreesAllRings, RingSize,
      RingInfoSize, TreeNodeSize

LEMMA BBoxOutlineInv ==
  ASSUME ArenaInv, BBoxOutline
  PROVE  ArenaInv'
<1>1. BBoxBufferSize \in Nat
  BY DEF BBoxBufferSize, RingInfoSize, VertexSize
<1>2. size' \in Nat /\ BBoxBufferSize =< size'
  BY <1>1, AlignBounds, PageAssumption DEF BBoxOutline
<1> QED
  BY <1>1, <1>2 DEF BBoxOutline, ArenaInv, ArenaTypeOK, VerticesFit, ShortByOneVertex, FreesAllRings

LEMMA FirstAllocInv ==
  ASSUME ArenaInv, FirstAlloc
  PROVE  ArenaInv'
<1>1. /\ size' \in Nat
      /\ size' =< ringData + VertexSize * vertexCount + PageSize - 1
  BY PolyDataSizeBounds DEF ArenaInv, FirstAlloc, ArenaTypeOK
<1> QED
  BY <1>1, PageAssumption
  DEF ArenaInv, FirstAlloc, ArenaTypeOK, VerticesFit, ShortByOneVertex, FreesAllRings, Written,
      RingSize, RingInfoSize, TreeNodeSize, VertexSize

(***************************************************************************)
(* After a ring has started its vertices have room.  Without growth that   *)
(* is what MustGrow tests.  With growth it holds because the rings before  *)
(* have used less of ringData than it grows by, which in turn the test     *)
(* before each of them ensured.                                            *)
(***************************************************************************)
LEMMA BeginRingInv ==
  ASSUME ArenaInv, BeginRing
  PROVE  ArenaInv'
<1> USE DEF RingSize, RingInfoSize, TreeNodeSize, VertexSize
<1>1. /\ arenaPc = "begin" /\ ArenaTypeOK
      /\ vertexCount = left + numVertices
      /\ used = Written
      /\ RingSize * numRings =< ringData + PageSize - 1
      /\ size =< ringData + VertexSize * vertexCount + PageSize - 1
  BY DEF ArenaInv, BeginRing
<1>2. /\ ringData' \in Nat /\ size' \in Nat /\ ringData' >= StartSize
      /\ size' =< ringData' + VertexSize * vertexCount + PageSize - 1
      /\ RingSize * (numRings + 1) =< ringData' + PageSize - 1
      /\ used + RingSize + VertexSize * left =< size'
  <2>1. CASE MustGrow
    <3>1. ringData' = ringData + StartSize /\ size' = PolyDataSize(ringData + StartSize)
      BY <2>1 DEF BeginRing
    <3>2. ringData + StartSize \in Nat
      BY <1>1, PageAssumption DEF ArenaTypeOK
    <3>3. /\ size' \in Nat
          /\ ringData + StartSize + VertexSize * vertexCount =< size'
          /\ size' =< ringData + StartSize + VertexSize * vertexCount + PageSize - 1
      BY <1>1, <3>1, <3>2, PolyDataSizeBounds
    <3> QED
      BY <1>1, <3>1, <3>3, PageAssumption DEF ArenaTypeOK, Written
  <2>2. CASE ~MustGrow
    BY <1>1, <2>2, PageAssumption
    DEF BeginRing, MustGrow, RequiredRingSize, NumVerticesLeft, ArenaTypeOK,
        Written, ArenaInv
  <2> QED
    BY <2>1, <2>2
<1>3. arenaPc' = "write" /\ used' = used + RingInfoSize
  BY <1>1, <1>2 DEF BeginRing, ArenaTypeOK
<1> QED
  BY <1>1, <1>2, <1>3
  DEF BeginRing, ArenaInv, ArenaTypeOK, VerticesFit, ShortByOneVertex, FreesAllRings, Written

LEMMA WriteRingInv ==
  ASSUME ArenaInv, NEW c \in Nat, WriteRing(c)
  PROVE  ArenaInv'
<1> USE DEF RingSize, RingInfoSize, TreeNodeSize, VertexSize
<1> DEFINE afterVertices == used + (c + 1) * VertexSize
<1>1. /\ arenaPc = "write" /\ ArenaTypeOK
      /\ vertexCount = left + numVertices
      /\ used = Written + RingInfoSize
      /\ RingSize * (numRings + 1) =< ringData + PageSize - 1
      /\ used + TreeNodeSize + VertexSize * left =< size
      /\ size =< ringData + VertexSize * vertexCount + PageSize - 1
      /\ c = left \/ c + 4 =< left
  BY DEF ArenaInv, WriteRing
<1>2. ~(afterVertices > size)
  BY <1>1 DEF ArenaTypeOK
<1>3. /\ vertexCount' = vertexCount + 1
      /\ numVertices' = numVertices + c + 1
      /\ numRings' = numRings + 1
      /\ left' = left - c
      /\ size' = size /\ ringData' = ringData /\ unmapped' = unmapped
  BY <1>2 DEF WriteRing
<1>4. ArenaTypeOK' /\ vertexCount' = left' + numVertices'
  BY <1>1, <1>2, <1>3 DEF WriteRing, ArenaTypeOK
<1>5. CASE afterVertices + TreeNodeSize > size
  <2>1. arenaPc' = "node" /\ used' = afterVertices
    BY <1>2, <1>5 DEF WriteRing
  <2>2. left' = 0 /\ used' + TreeNodeSize =< size' + VertexSize
    BY <1>1, <1>3, <1>5, <2>1 DEF ArenaTypeOK
  <2> QED
    BY <1>1, <1>3, <1>4, <2>1, <2>2 DEF ArenaInv, VerticesFit, ShortByOneVertex, FreesAllRings
<1>6. CASE ~(afterVertices + TreeNodeSize > size)
  <2>1. arenaPc' = "begin" /\ used' = afterVertices + TreeNodeSize
    BY <1>2, <1>6 DEF WriteRing
  <2>2. used' = Written'
    BY <1>1, <1>3, <2>1 DEF Written, ArenaTypeOK
  <2> QED
    BY <1>1, <1>3, <1>4, <2>1, <2>2, PageAssumption
    DEF ArenaInv, VerticesFit, ShortByOneVertex, FreesAllRings, ArenaTypeOK
<1> QED
  BY <1>5, <1>6

\* ArenaInv is inductive.
LEMMA ArenaStepInv == ArenaInv /\ [ArenaNext]_arenaVars => ArenaInv'
<1> SUFFICES ASSUME ArenaInv, [ArenaNext]_arenaVars
             PROVE  ArenaInv'
  OBVIOUS
<1>1. CASE FirstAlloc
  BY <1>1, FirstAllocInv
<1>2. CASE BeginRing
  BY <1>2, BeginRingInv
<1>9. CASE BBoxOutline
  BY <1>9, BBoxOutlineInv
<1>3. CASE AllocFails
  BY <1>3 DEF AllocFails, ArenaInv, ArenaTypeOK, VerticesFit, ShortByOneVertex, FreesAllRings
<1>4. CASE LastRing
  <2>1. left \in Nat
    BY DEF ArenaInv, ArenaTypeOK
  <2> QED
    BY <1>4, <2>1, WriteRingInv DEF LastRing
<1>5. ASSUME NEW c \in RingSizes, WriteRing(c)
      PROVE  ArenaInv'
  BY <1>5, WriteRingInv, RingAssumption
<1>6. CASE EndRings
  BY <1>6 DEF EndRings, ArenaInv, ArenaTypeOK, VerticesFit, ShortByOneVertex, FreesAllRings, Written
<1>7. CASE FreePolyInfo
  <2>1. unmapped' = FreedSize /\ used' = used /\ ArenaTypeOK
    BY <1>7 DEF FreePolyInfo, ArenaInv
  <2>2. unmapped' \in Nat /\ FreesAllRings'
    <3>1. CASE arenaPc = "done"
      BY <2>1, <3>1, FreedSizeBounds DEF ArenaInv, FreesAllRings
    <3>2. CASE arenaPc = "bbox"
      BY <2>1, <3>2, FreedSizeOfBBox DEF ArenaInv, FreesAllRings
    <3> QED
      BY <1>7, <3>1, <3>2 DEF FreePolyInfo
  <2> QED
    BY <1>7, <2>2 DEF FreePolyInfo, ArenaInv, ArenaTypeOK, VerticesFit, ShortByOneVertex, FreesAllRings
<1>8. CASE UNCHANGED arenaVars
  BY <1>8 DEF arenaVars, ArenaInv, ArenaTypeOK, VerticesFit, ShortByOneVertex, FreesAllRings, Written
<1> QED
  BY <1>1, <1>2, <1>3, <1>4, <1>5, <1>6, <1>7, <1>8, <1>9 DEF ArenaNext, ArenaOver

\* The counts of the ring memory are natural numbers (no size is ever negative).
THEOREM ArenaTypeCorrect == ArenaSpec => []ArenaTypeOK
<1>1. ArenaInv => ArenaTypeOK
  BY DEF ArenaInv
<1> QED
  BY <1>1, ArenaInitInv, ArenaStepInv, PTL DEF ArenaSpec

\* The Assert of WriteVertex() and that of the ring header never fail.
THEOREM VerticesAlwaysFit == ArenaSpec => []VerticesFit
<1>1. ArenaInv => VerticesFit
  BY DEF ArenaInv
<1> QED
  BY <1>1, ArenaInitInv, ArenaStepInv, PTL DEF ArenaSpec

\* The only Assert that can fail is that of the last tree node, for want of the
\* room of one vertex.
THEOREM NodeShortByOneVertex == ArenaSpec => []ShortByOneVertex
<1>1. ArenaInv => ShortByOneVertex
  BY DEF ArenaInv
<1> QED
  BY <1>1, ArenaInitInv, ArenaStepInv, PTL DEF ArenaSpec

\* FreePolyInfo() unmaps every byte that was written, although it does not know
\* the size of the memory.
THEOREM RingsAlwaysFreed == ArenaSpec => []FreesAllRings
<1>1. ArenaInv => FreesAllRings
  BY DEF ArenaInv
<1> QED
  BY <1>1, ArenaInitInv, ArenaStepInv, PTL DEF ArenaSpec

-------------------------------------------------------------------------------

(***************************************************************************)
(* The pixel tests, for every width of the integer types and every finite  *)
(* set of float pixels: the outline of the whole raster is returned only   *)
(* where that is right, and of every call that is served the blocks of the *)
(* two lines are those of the pixels that fulfil the documented condition. *)
(***************************************************************************)

(***************************************************************************)
(* Pixels and numbers.                                                     *)
(***************************************************************************)
LEMMA PixelsType ==
  ASSUME NEW d \in DType
  PROVE  /\ Pixels(d) \in SUBSET Int /\ IsFiniteSet(Pixels(d)) /\ Pixels(d) /= {}
         /\ \A p \in Pixels(d) : Number(d, p) \in Int
<1>1. CASE d = "Float"
  BY <1>1, FloatAssumption DEF Pixels, Number
<1>2. CASE d /= "Float"
  <2>1. PICK n \in Nat : n = 2^Bits /\ n >= 2
    BY PowerAssumption
  <2>2. Pixels(d) = 0 .. n - 1
    BY <1>2, <2>1 DEF Pixels
  <2>3. IsFiniteSet(0 .. n - 1)
    BY <2>1, FS_Interval
  <2>4. ASSUME NEW p \in 0 .. n - 1
        PROVE  Number(d, p) \in Int
    <3>1. PICK big \in BOOLEAN : big <=> p >= 2^(Bits - 1)
      OBVIOUS
    <3>2. p \in Int /\ 2 * p \in Int /\ 2 * (p - n) \in Int
      BY <2>1
    <3>3. Number(d, p) = IF d = "Int" /\ big THEN 2 * (p - n) ELSE 2 * p
      BY <1>2, <2>1, <3>1 DEF Number
    <3> QED
      BY <3>2, <3>3
  <2> QED
    BY <2>1, <2>2, <2>3, <2>4
<1> QED
  BY <1>1, <1>2

\* MinValue and MaxValue are the least and the greatest number of the type.
LEMMA NumberRange ==
  ASSUME NEW d \in DType
  PROVE  /\ MinValue(d) \in Int /\ MaxValue(d) \in Int
         /\ \A p \in Pixels(d) : MinValue(d) =< Number(d, p) /\ Number(d, p) =< MaxValue(d)
         /\ \E p \in Pixels(d) : MinValue(d) = Number(d, p)
         /\ \E p \in Pixels(d) : MaxValue(d) = Number(d, p)
<1>1. PICK S : S = {Number(d, p) : p \in Pixels(d)}
  OBVIOUS
<1>2. PICK f : f = [p \in Pixels(d) |-> Number(d, p)]
  OBVIOUS
<1>3. f \in Surjection(Pixels(d), S)
  BY <1>1, <1>2 DEF Surjection
<1>4. IsFiniteSet(S)
  BY <1>3, PixelsType, FS_Surjection
<1>5. S \in SUBSET Int /\ S /= {}
  BY <1>1, PixelsType
<1>6. /\ Min(S) \in S /\ \A y \in S : Min(S) =< y
      /\ Max(S) \in S /\ \A y \in S : Max(S) >= y
  BY <1>4, <1>5, MinOfFinite, MaxOfFinite
<1>7. MinValue(d) = Min(S) /\ MaxValue(d) = Max(S)
  BY <1>1 DEF MinValue, MaxValue
<1>8. PICK low \in Int, high \in Int : low = Min(S) /\ high = Max(S)
  BY <1>5, <1>6
<1>9. ASSUME NEW p \in Pixels(d)
      PROVE  low =< Number(d, p) /\ Number(d, p) =< high
  <2>1. Number(d, p) \in S /\ Number(d, p) \in Int
    BY <1>1, PixelsType
  <2> QED
    BY <1>6, <1>8, <2>1
<1> QED
  BY <1>1, <1>6, <1>7, <1>8, <1>9

-------------------------------------------------------------------------------

(***************************************************************************)
(* The call, which no step changes, and the case of the bounding box.      *)
(***************************************************************************)
CallTypeInv ==
  /\ <<dtype, testType, bandCount>> \in Kinds
  /\ dtype \in DType /\ testType \in TestType /\ bandCount \in Nat \ {0}
  /\ valueA \in Values[dtype] /\ valueB \in Values[dtype]
  /\ valueA \in Int /\ valueB \in Int
  /\ raster \in [0..Height-1 -> [0..bandCount-1 -> [0..Width-1 -> Pixels(dtype)]]]

\* The lines are filled only if some bleed value fails the test.
PhaseInv ==
  /\ testPc \in {"start", "read", "scan", "end", "bbox"}
  /\ testPc = "bbox" => NoBleedValue
  /\ testPc \in {"read", "scan", "end"} => ~NoBleedValue

LEMMA CallInit == TestInit => CallTypeInv /\ PhaseInv
<1> SUFFICES ASSUME TestInit
             PROVE  CallTypeInv /\ PhaseInv
  OBVIOUS
<1>1. PICK kind \in Kinds : dtype = kind[1] /\ testType = kind[2] /\ bandCount = kind[3]
  BY DEF TestInit
<1>2. kind \in DType \X TestType \X (Nat \ {0})
  BY CallAssumption
<1>3. kind = <<dtype, testType, bandCount>>
  BY <1>1, <1>2
<1>4. Values[dtype] \subseteq Int
  BY <1>2, <1>3, CallAssumption
<1> QED
  BY <1>1, <1>2, <1>3, <1>4 DEF TestInit, CallTypeInv, PhaseInv

LEMMA CallStep == CallTypeInv /\ PhaseInv /\ [TestNext]_testVars => CallTypeInv' /\ PhaseInv'
<1> SUFFICES ASSUME CallTypeInv, PhaseInv, [TestNext]_testVars
             PROVE  CallTypeInv' /\ PhaseInv'
  OBVIOUS
<1>1. UNCHANGED call
  BY DEF TestNext, testVars, UseBBox, FillLines, ReadBands, LastLine, NextLine, TestOver
<1>2. CallTypeInv'
  BY <1>1 DEF CallTypeInv, call
<1>3. NoBleedValue' <=> NoBleedValue
  BY <1>1 DEF NoBleedValue, call
<1>4. PhaseInv'
  <2>1. CASE UseBBox
    BY <1>3, <2>1 DEF UseBBox, PhaseInv
  <2>2. CASE FillLines
    BY <1>3, <2>2 DEF FillLines, PhaseInv
  <2>3. CASE ReadBands
    BY <1>3, <2>3 DEF ReadBands, PhaseInv
  <2>4. CASE LastLine
    BY <1>3, <2>4 DEF LastLine, PhaseInv
  <2>5. CASE NextLine
    BY <1>3, <2>5 DEF NextLine, PhaseInv
  <2>6. CASE UNCHANGED testVars
    BY <1>3, <2>6 DEF testVars, PhaseInv
  <2> QED
    BY <2>1, <2>2, <2>3, <2>4, <2>5, <2>6 DEF TestNext, TestOver
<1> QED
  BY <1>2, <1>4

\* No number of the type is outside of the range that leaves no bleed value.
LEMMA NoBleedMeansAll ==
  ASSUME CallTypeInv, NoBleedValue, NEW p \in Pixels(dtype)
  PROVE  Condition(Number(dtype, p))
<1>1. PICK n \in Int : n = Number(dtype, p)
  BY PixelsType DEF CallTypeInv
<1>2. PICK low \in Int, high \in Int : low = MinValue(dtype) /\ high = MaxValue(dtype)
  BY NumberRange DEF CallTypeInv
<1>3. low =< n /\ n =< high
  BY <1>1, <1>2, NumberRange DEF CallTypeInv
<1>4. valueA \in Int /\ valueB \in Int
  BY DEF CallTypeInv
<1>5. CASE testType = "BiggerOrEqualTo"
  BY <1>1, <1>2, <1>3, <1>4, <1>5 DEF NoBleedValue, Condition
<1>6. CASE testType = "LessOrEqualTo"
  BY <1>1, <1>2, <1>3, <1>4, <1>6 DEF NoBleedValue, Condition
<1>7. CASE testType = "Between"
  BY <1>1, <1>2, <1>3, <1>4, <1>7 DEF NoBleedValue, Condition
<1> QED
  BY <1>5, <1>6, <1>7 DEF NoBleedValue, CallTypeInv, TestType

(***************************************************************************)
(* RasterToOutline() returns the outline of the whole raster only if every *)
(* pixel that the type has is eligible: the case without a bleed value of  *)
(* GetBleedValue() (src/raster-outline.cpp), for types of any width.       *)
(***************************************************************************)
THEOREM BBoxOnlyWhenAll == TestSpec => []BBoxMeansAll
<1>1. CallTypeInv /\ PhaseInv => BBoxMeansAll
  BY NoBleedMeansAll DEF PhaseInv, BBoxMeansAll
<1> QED
  BY <1>1, CallInit, CallStep, PTL DEF TestSpec

-------------------------------------------------------------------------------

(***************************************************************************)
(* The two lines: each is the row that is due, or all bleed outside of the *)
(* raster.                                                                 *)
(***************************************************************************)
Bleed == Convert(dtype, BleedValue)

\* Column x of band b in line r, x counted from the first bleed cell.
Cell(r, b, x) == IF r \in 0..Height-1 /\ x \in 1..Width THEN raster[r][b][x-1] ELSE Bleed

Line(r) == [k \in LineCells |-> Cell(r, k \div InspectWidth, k % InspectWidth)]

LinesInv ==
  /\ row \in 0..Height
  /\ testPc = "start" => row = 0
  /\ testPc = "read" => first = Line(row-1) /\ second = Line(row-1)
  /\ testPc = "scan" => first = Line(row-1) /\ second = Line(row)

\* Where column x of band b is.
LEMMA CellPlace ==
  ASSUME CallTypeInv, NEW b \in 0..bandCount-1, NEW x \in 0..Width+1
  PROVE  /\ x + b * InspectWidth \in LineCells
         /\ (x + b * InspectWidth) \div InspectWidth = b
         /\ (x + b * InspectWidth) % InspectWidth = x
<1>1. PICK w \in Nat \ {0} : w = InspectWidth /\ x \in 0..w-1
  BY CallAssumption DEF InspectWidth
<1>2. PICK n \in Nat \ {0} : n = bandCount
  BY DEF CallTypeInv
<1>3. PICK k \in Nat : k = x + b * w
  BY <1>1, <1>2
<1>4. b * w =< (n - 1) * w
  BY <1>1, <1>2
<1>5. k \in 0 .. w * n - 1
  BY <1>1, <1>2, <1>3, <1>4
<1>6. PICK q \in Int, m \in 0..w-1 : q = k \div w /\ m = k % w /\ k = w * q + m
  BY <1>1
<1>7. w * (b - q) < w /\ w * (b - q) > -w
  BY <1>1, <1>2, <1>3, <1>6
<1>8. b - q = 0
  BY <1>1, <1>2, <1>6, <1>7
<1>9. q = b /\ m = x
  BY <1>1, <1>2, <1>3, <1>6, <1>8
<1> QED
  BY <1>1, <1>2, <1>3, <1>5, <1>6, <1>9 DEF LineCells

LEMMA LineCell ==
  ASSUME CallTypeInv, NEW r \in Int, NEW b \in 0..bandCount-1, NEW x \in 0..Width+1
  PROVE  Line(r)[x + b * InspectWidth] = Cell(r, b, x)
BY CellPlace DEF Line

LEMMA LinesInit == TestInit => LinesInv
BY CallAssumption DEF TestInit, LinesInv

LEMMA LinesStep == CallTypeInv /\ LinesInv /\ [TestNext]_testVars => LinesInv'
<1> SUFFICES ASSUME CallTypeInv, LinesInv, [TestNext]_testVars
             PROVE  LinesInv'
  OBVIOUS
<1>1. UNCHANGED call
  BY DEF TestNext, testVars, UseBBox, FillLines, ReadBands, LastLine, NextLine, TestOver
<1>2. ASSUME NEW r \in Int
      PROVE  Line(r)' = Line(r)
  BY <1>1 DEF call, Line, Cell, Bleed, BleedValue, LineCells
<1>3. \A r \in Int : r \notin 0..Height-1 => Line(r) = BleedCells
  BY DEF Line, Cell, Bleed, BleedCells
<1>4. Height \in Nat \ {0} /\ row \in 0..Height
  BY CallAssumption DEF LinesInv
<1>5. CASE UseBBox
  BY <1>4, <1>5 DEF UseBBox, LinesInv
<1>6. CASE FillLines
  <2>1. testPc' = "read" /\ row' = row /\ first' = BleedCells /\ second' = BleedCells
    BY <1>6 DEF FillLines
  <2>2. row = 0
    BY <1>6 DEF FillLines, LinesInv
  <2>3. BleedCells = Line(row-1)
    BY <1>3, <1>4, <2>2
  <2>4. Line(row-1)' = Line(row-1)
    BY <1>1, <2>1 DEF call, Line, Cell, Bleed, BleedValue, LineCells
  <2> QED
    BY <1>4, <2>1, <2>3, <2>4 DEF LinesInv
<1>7. CASE ReadBands
  <2>1. second' = Line(row)
    BY <1>4, <1>7 DEF ReadBands, LinesInv, Line, Cell
  <2>2. testPc' = "scan" /\ row' = row /\ first' = first /\ first = Line(row-1)
    BY <1>7 DEF ReadBands, LinesInv
  <2> QED
    BY <1>2, <1>4, <2>1, <2>2 DEF LinesInv
<1>8. CASE LastLine
  <2>1. second' = Line(row)
    BY <1>3, <1>4, <1>8 DEF LastLine
  <2>2. testPc' = "scan" /\ row' = row /\ first' = first /\ first = Line(row-1)
    BY <1>8 DEF LastLine, LinesInv
  <2> QED
    BY <1>2, <1>4, <2>1, <2>2 DEF LinesInv
<1>9. CASE NextLine
  <2>1. testPc' \in {"read", "end"} /\ row' \in 0..Height
    BY <1>4, <1>9 DEF NextLine
  <2>2. testPc' = "read" => row' - 1 = row /\ first' = Line(row) /\ second' = Line(row)
    BY <1>4, <1>9 DEF NextLine, LinesInv
  <2>3. row' - 1 = row => Line(row-1)' = Line(row)
    BY <1>1 DEF call, Line, Cell, Bleed, BleedValue, LineCells
  <2> QED
    BY <1>4, <2>1, <2>2, <2>3 DEF LinesInv
<1>10. CASE UNCHANGED testVars
  BY <1>2, <1>4, <1>10 DEF testVars, LinesInv
<1> QED
  BY <1>5, <1>6, <1>7, <1>8, <1>9, <1>10 DEF TestNext, TestOver

-------------------------------------------------------------------------------

(***************************************************************************)
(* The conversion of the values.  It takes the number of a pixel back to   *)
(* the pixel, and a fraction to the pixel below it; and the callbacks      *)
(* order pixels as their numbers in every type that is not signed.         *)
(***************************************************************************)
LEMMA ConvertNumber ==
  ASSUME NEW d \in DType, NEW p \in Pixels(d)
  PROVE  /\ p \in Int /\ Convert(d, Number(d, p)) = p
         /\ Convert(d, Number(d, p) + 2) /= p
<1>1. CASE d = "Float"
  BY <1>1, FloatAssumption DEF Convert, Number, Pixels
<1>2. CASE d /= "Float"
  <2>1. PICK n \in Nat : n = 2^Bits /\ n >= 2
    BY PowerAssumption
  <2>2. p \in 0 .. n - 1
    BY <1>2, <2>1 DEF Pixels
  <2>3. p % n = p /\ (p + 1) % n /= p
    <3>1. p % n = p
      BY <2>1, <2>2
    <3>2. CASE p + 1 = n
      <4>1. n % n = 0
        BY <2>1
      <4> QED
        BY <2>1, <2>2, <3>1, <3>2, <4>1
    <3>3. CASE p + 1 < n
      BY <2>1, <2>2, <3>3
    <3> QED
      BY <2>1, <2>2, <3>1, <3>2, <3>3
  <2>4. PICK negative \in BOOLEAN : negative <=> d = "Int" /\ p >= 2^(Bits - 1)
    OBVIOUS
  <2>5. Number(d, p) = IF negative THEN 2 * (p - n) ELSE 2 * p
    BY <1>2, <2>1, <2>4 DEF Number
  <2>6. \A h \in Int : Convert(d, h) = (IF h >= 0 THEN h \div 2 ELSE -((-h) \div 2)) % n
    BY <1>2, <2>1 DEF Convert
  <2>7. CASE ~negative
    <3>1. PICK h \in Nat, g \in Nat : h = 2 * p /\ g = 2 * p + 2
      BY <2>2
    <3>2. h \div 2 = p /\ g \div 2 = p + 1
      BY <2>2, <3>1
    <3>3. Convert(d, h) = p % n /\ Convert(d, g) = (p + 1) % n
      BY <2>6, <3>1, <3>2
    <3> QED
      BY <2>2, <2>3, <2>5, <2>7, <3>1, <3>3
  <2>8. CASE negative
    <3>1. PICK h \in Int, g \in Int : h = 2 * (p - n) /\ g = 2 * (p - n) + 2
      BY <2>1, <2>2
    <3>2. h < 0 /\ g =< 0 /\ (-h) \div 2 = n - p /\ (-g) \div 2 = n - p - 1
      BY <2>1, <2>2, <3>1
    <3>3. -(n - p) = p - n /\ -(n - p - 1) = p + 1 - n
      BY <2>1, <2>2
    <3>4. Convert(d, h) = (p - n) % n
      BY <2>6, <3>1, <3>2, <3>3
    <3>5. Convert(d, g) = (p + 1 - n) % n
      <4>1. CASE g < 0
        BY <2>6, <3>1, <3>2, <3>3, <4>1
      <4>2. CASE g = 0
        BY <2>1, <2>2, <2>6, <3>1, <4>2
      <4> QED
        BY <3>1, <3>2, <4>1, <4>2
    <3>6. (p - n) % n = p % n /\ (p + 1 - n) % n = (p + 1) % n
      BY <2>1, <2>2
    <3> QED
      BY <2>2, <2>3, <2>5, <2>8, <3>1, <3>4, <3>5, <3>6
  <2> QED
    BY <2>7, <2>8
<1> QED
  BY <1>1, <1>2

LEMMA RemainderOfSmall ==
  ASSUME NEW n \in Nat, NEW k \in Nat, k < n
  PROVE  k % n = k
OBVIOUS

\* A pixel of an unsigned type stands for itself.
LEMMA UnsignedPixel ==
  ASSUME NEW d \in DType \ {"Int", "Float"}
  PROVE  \E n \in Nat : /\ n = 2^Bits /\ Pixels(d) = 0 .. n - 1
                        /\ \A p \in Pixels(d) : Number(d, p) = 2 * p
<1>1. PICK n \in Nat : n = 2^Bits
  BY PowerAssumption
<1> QED
  BY <1>1 DEF Pixels, Number

\* What a comparison with the converted value says of the value: of one within the
\* range which pixels are above it, of one that a pixel can have which are equal or below.
LEMMA CompareConverted ==
  ASSUME CallTypeInv, NEW h \in Int, NEW p \in Pixels(dtype)
  PROVE  /\ Represented(h) => (p = Convert(dtype, h) <=> Number(dtype, p) = h)
         /\ WithinRange(h) /\ dtype /= "Int" =>
              /\ Convert(dtype, h) \in Int
              /\ p > Convert(dtype, h) <=> Number(dtype, p) > h
         /\ Represented(h) /\ dtype /= "Int" =>
              /\ WithinRange(h)
              /\ p < Convert(dtype, h) <=> Number(dtype, p) < h
<1>1. dtype \in DType
  BY DEF CallTypeInv
<1>2. CASE dtype = "Float"
  BY <1>2, FloatAssumption DEF Convert, Number, Pixels, WithinRange
<1>3. CASE dtype /= "Float"
  <2>1. ASSUME Represented(h)
        PROVE  p = Convert(dtype, h) <=> Number(dtype, p) = h
    <3>1. PICK q \in Pixels(dtype) : h = Number(dtype, q)
      BY <1>3, <2>1 DEF Represented
    <3> QED
      BY <1>1, <3>1, ConvertNumber
  <2>2. ASSUME dtype /= "Int"
        PROVE  /\ WithinRange(h) => /\ Convert(dtype, h) \in Int
                                    /\ p > Convert(dtype, h) <=> Number(dtype, p) > h
               /\ Represented(h) => /\ WithinRange(h)
                                    /\ p < Convert(dtype, h) <=> Number(dtype, p) < h
    <3>1. PICK n \in Nat : /\ n = 2^Bits /\ Pixels(dtype) = 0 .. n - 1
                           /\ \A q \in Pixels(dtype) : Number(dtype, q) = 2 * q
      BY <1>1, <1>3, <2>2, UnsignedPixel
    <3>2. ASSUME WithinRange(h)
          PROVE  /\ Convert(dtype, h) \in Int
                 /\ p > Convert(dtype, h) <=> Number(dtype, p) > h
      <4>1. PICK low \in Pixels(dtype), high \in Pixels(dtype) :
              2 * low =< h /\ h =< 2 * high
        BY <1>1, <1>3, <3>1, <3>2, NumberRange DEF WithinRange
      <4>2. h >= 0 /\ h \div 2 \in 0 .. n - 1
        BY <3>1, <4>1
      <4>3. (h \div 2) % n = h \div 2
        <5>1. h \div 2 \in Nat /\ h \div 2 < n
          BY <3>1, <4>2
        <5> QED
          BY <5>1, RemainderOfSmall
      <4>4. Convert(dtype, h) = h \div 2
        BY <1>3, <3>1, <4>2, <4>3 DEF Convert
      <4>5. p > h \div 2 <=> 2 * p > h
        BY <3>1, <4>1, <4>2
      <4> QED
        BY <3>1, <4>2, <4>4, <4>5
    <3>3. ASSUME Represented(h)
          PROVE  /\ WithinRange(h)
                 /\ p < Convert(dtype, h) <=> Number(dtype, p) < h
      <4>1. PICK q \in Pixels(dtype) : h = Number(dtype, q)
        BY <1>3, <3>3 DEF Represented
      <4>2. Convert(dtype, h) = q /\ WithinRange(h)
        BY <1>1, <4>1, ConvertNumber, NumberRange DEF WithinRange
      <4> QED
        BY <3>1, <4>1, <4>2
    <3> QED
      BY <3>2, <3>3
  <2> QED
    BY <2>1, <2>2
<1> QED
  BY <1>2, <1>3

\* A callback compares as the documentation says, NotEqual as Equal.
LEMMA CompareIsCondition ==
  ASSUME CallIsServed, CallTypeInv, NEW p \in Pixels(dtype)
  PROVE  Compare(p) <=> IF testType = "NotEqual" THEN Number(dtype, p) = valueA
                        ELSE Condition(Number(dtype, p))
<1>1. PICK u \in Int : u = Number(dtype, p)
  BY PixelsType DEF CallTypeInv
<1>2. PICK a, b : a = Convert(dtype, valueA) /\ b = Convert(dtype, valueB)
  OBVIOUS
<1>3. valueA \in Int /\ valueB \in Int /\ testType \in TestType /\ p \in Int
  BY ConvertNumber DEF CallTypeInv
<1>4. CASE testType \in {"Equal", "NotEqual"}
  <2>1. p = a <=> u = valueA
    BY <1>1, <1>2, <1>3, <1>4, CompareConverted DEF CallIsServed
  <2>2. Compare(p) <=> p = a
    BY <1>2, <1>4 DEF Compare
  <2>3. CASE testType = "Equal"
    BY <1>1, <2>1, <2>2, <2>3 DEF Condition
  <2>4. CASE testType = "NotEqual"
    BY <1>1, <2>1, <2>2, <2>4
  <2> QED
    BY <1>4, <2>3, <2>4
<1>5. CASE testType \in {"BiggerThan", "LessOrEqualTo"}
  <2>1. a \in Int /\ (p > a <=> u > valueA)
    BY <1>1, <1>2, <1>3, <1>5, CompareConverted DEF CallIsServed
  <2>2. CASE testType = "BiggerThan"
    BY <1>1, <1>2, <2>1, <2>2 DEF Compare, Condition
  <2>3. CASE testType = "LessOrEqualTo"
    BY <1>1, <1>2, <1>3, <2>1, <2>3 DEF Compare, Condition
  <2> QED
    BY <1>5, <2>2, <2>3
<1>6. CASE testType \in {"BiggerOrEqualTo", "LessThan"}
  <2>1. a \in Int /\ (p < a <=> u < valueA)
    BY <1>1, <1>2, <1>3, <1>6, CompareConverted DEF CallIsServed
  <2>2. CASE testType = "BiggerOrEqualTo"
    BY <1>1, <1>2, <1>3, <2>1, <2>2 DEF Compare, Condition
  <2>3. CASE testType = "LessThan"
    BY <1>1, <1>2, <2>1, <2>3 DEF Compare, Condition
  <2> QED
    BY <1>6, <2>2, <2>3
<1>7. CASE testType = "Between"
  <2>1. a \in Int /\ (p < a <=> u < valueA)
    BY <1>1, <1>2, <1>3, <1>7, CompareConverted DEF CallIsServed
  <2>2. b \in Int /\ (p > b <=> u > valueB)
    BY <1>1, <1>2, <1>3, <1>7, CompareConverted DEF CallIsServed
  <2>3. Compare(p) <=> p >= a /\ p =< b
    BY <1>2, <1>7 DEF Compare
  <2>4. Condition(u) <=> valueA =< u /\ u =< valueB
    BY <1>7 DEF Condition
  <2>5. (p >= a <=> valueA =< u) /\ (p =< b <=> u =< valueB)
    BY <1>1, <1>3, <2>1, <2>2
  <2> QED
    BY <1>1, <1>7, <2>3, <2>4, <2>5
<1> QED
  BY <1>3, <1>4, <1>5, <1>6, <1>7 DEF TestType

\* A bleed cell does not pass, and a cell that must not be equal is equal.
LEMMA BleedFails ==
  ASSUME CallIsServed, CallTypeInv, ~NoBleedValue
  PROVE  Compare(Bleed) <=> testType = "NotEqual"
<1>1. PICK a, b : a = Convert(dtype, valueA) /\ b = Convert(dtype, valueB)
  OBVIOUS
<1>2. valueA \in Int /\ valueB \in Int /\ testType \in TestType /\ dtype \in DType
  BY DEF CallTypeInv
<1>3. PICK low \in Pixels(dtype), high \in Pixels(dtype) :
        MinValue(dtype) = Number(dtype, low) /\ MaxValue(dtype) = Number(dtype, high)
  BY <1>2, NumberRange
<1>4. /\ Convert(dtype, MinValue(dtype)) = low /\ Convert(dtype, MaxValue(dtype)) = high
      /\ low \in Int /\ high \in Int
  BY <1>2, <1>3, ConvertNumber
<1>5. PICK min \in Int, max \in Int : min = MinValue(dtype) /\ max = MaxValue(dtype)
  BY <1>2, NumberRange
<1>6. CASE testType = "Equal"
  <2>1. Represented(valueA)
    BY <1>6 DEF CallIsServed
  <2>2. Convert(dtype, valueA + 2) /= a
    <3>1. CASE dtype = "Float"
      BY <1>1, <1>2, <3>1 DEF Convert
    <3>2. CASE dtype /= "Float"
      <4>1. PICK p \in Pixels(dtype) : valueA = Number(dtype, p)
        BY <2>1, <3>2 DEF Represented
      <4> QED
        BY <1>1, <1>2, <4>1, ConvertNumber
    <3> QED
      BY <3>1, <3>2
  <2> QED
    BY <1>1, <1>6, <2>2 DEF Bleed, BleedValue, Compare
<1>7. CASE testType = "NotEqual"
  BY <1>1, <1>7 DEF Bleed, BleedValue, Compare
<1>8. CASE testType \in {"BiggerThan", "LessThan"}
  <2>1. a \in Int
    BY <1>1, <1>2, <1>3, <1>8, CompareConverted DEF CallIsServed
  <2>2. Bleed = a
    BY <1>1, <1>8 DEF Bleed, BleedValue
  <2>3. CASE testType = "BiggerThan"
    BY <1>1, <2>1, <2>2, <2>3 DEF Compare
  <2>4. CASE testType = "LessThan"
    BY <1>1, <2>1, <2>2, <2>4 DEF Compare
  <2> QED
    BY <1>8, <2>3, <2>4
<1>9. CASE testType = "BiggerOrEqualTo"
  <2>1. a \in Int /\ (low < a <=> min < valueA)
    BY <1>1, <1>2, <1>3, <1>5, <1>9, CompareConverted DEF CallIsServed
  <2>2. min < valueA
    BY <1>2, <1>5, <1>9 DEF NoBleedValue
  <2>3. Bleed = low
    BY <1>4, <1>9 DEF Bleed, BleedValue
  <2> QED
    BY <1>1, <1>4, <1>9, <2>1, <2>2, <2>3 DEF Compare
<1>10. CASE testType = "LessOrEqualTo"
  <2>1. a \in Int /\ (high > a <=> max > valueA)
    BY <1>1, <1>2, <1>3, <1>5, <1>10, CompareConverted DEF CallIsServed
  <2>2. max > valueA
    BY <1>2, <1>5, <1>10 DEF NoBleedValue
  <2>3. Bleed = high
    BY <1>4, <1>10 DEF Bleed, BleedValue
  <2> QED
    BY <1>1, <1>4, <1>10, <2>1, <2>2, <2>3 DEF Compare
<1>11. CASE testType = "Between"
  <2>1. a \in Int /\ (low < a <=> min < valueA)
    BY <1>1, <1>2, <1>3, <1>5, <1>11, CompareConverted DEF CallIsServed
  <2>2. b \in Int /\ (high > b <=> max > valueB)
    BY <1>1, <1>2, <1>3, <1>5, <1>11, CompareConverted DEF CallIsServed
  <2>3. Compare(Bleed) <=> Bleed >= a /\ Bleed =< b
    BY <1>1, <1>11 DEF Compare
  <2>4. valueA > min \/ valueB < max
    BY <1>2, <1>5, <1>11 DEF NoBleedValue
  <2>5. Bleed = IF valueA > min THEN low ELSE high
    BY <1>4, <1>5, <1>11 DEF Bleed, BleedValue
  <2>6. CASE valueA > min
    BY <1>2, <1>4, <1>5, <1>11, <2>1, <2>3, <2>5, <2>6
  <2>7. CASE ~(valueA > min)
    BY <1>2, <1>4, <1>5, <1>11, <2>2, <2>3, <2>4, <2>5, <2>7
  <2> QED
    BY <2>6, <2>7
<1> QED
  BY <1>2, <1>6, <1>7, <1>8, <1>9, <1>10, <1>11 DEF TestType

-------------------------------------------------------------------------------

(***************************************************************************)
(* From cells to blocks.                                                   *)
(***************************************************************************)
\* Between on bytes selects what it should not, in all four pixels of a block.
Inverted == testType = "Between" /\ dtype = "Byte"

\* A block and its complement have the same edges.
LEMMA ComplementSameEdges ==
  ASSUME NEW tl \in BOOLEAN, NEW tr \in BOOLEAN, NEW bl \in BOOLEAN, NEW br \in BOOLEAN
  PROVE  GetBlockEdges(~tl, ~tr, ~bl, ~br) = GetBlockEdges(tl, tr, bl, br)
<1>1. CASE tl
  <2>1. CASE tr
    BY <1>1, <2>1 DEF GetBlockEdges, Bit
  <2>2. CASE ~tr
    BY <1>1, <2>2 DEF GetBlockEdges, Bit
  <2> QED
    BY <2>1, <2>2
<1>2. CASE ~tl
  <2>1. CASE tr
    BY <1>2, <2>1 DEF GetBlockEdges, Bit
  <2>2. CASE ~tr
    BY <1>2, <2>2 DEF GetBlockEdges, Bit
  <2> QED
    BY <2>1, <2>2
<1> QED
  BY <1>1, <1>2

\* The bands of column x of line r, compared one after the other.
AllBands(r, x) == \A b \in 0..bandCount-1 : Compare(Cell(r, b, x))

LEMMA CellTest ==
  ASSUME CallTypeInv, NEW r \in Int, NEW x \in 0..Width+1
  PROVE  TestCell(Line(r), x) <=> (AllBands(r, x) <=> ~Negates)
<1>1. \A b \in 0..bandCount-1 : Line(r)[x + b * InspectWidth] = Cell(r, b, x)
  BY LineCell
<1>2. (\A b \in 0..bandCount-1 : Compare(Line(r)[x + b * InspectWidth])) <=> AllBands(r, x)
  BY <1>1 DEF AllBands
<1>3. Negates \in BOOLEAN /\ AllBands(r, x) \in BOOLEAN
  BY DEF Negates, AllBands
<1> QED
  BY <1>2, <1>3 DEF TestCell

\* A pixel passes on all bands as documented, and a bleed cell does not.
LEMMA CellAsDocumented ==
  ASSUME CallIsServed, CallTypeInv, ~NoBleedValue, NEW r \in Int, NEW x \in 0..Width+1
  PROVE  TestCell(Line(r), x) <=> (Eligible(r, x-1) <=> ~Inverted)
<1>1. bandCount \in Nat \ {0} /\ 0 \in 0..bandCount-1
  BY DEF CallTypeInv
<1>2. Width \in Nat /\ x \in Int
  BY CallAssumption
<1>3. CASE r \in 0..Height-1 /\ x \in 1..Width
  <2>1. x - 1 \in 0..Width-1
    BY <1>2, <1>3
  <2>2. PICK px : px = [b \in 0..bandCount-1 |-> raster[r][b][x-1]]
    OBVIOUS
  <2>3. \A b \in 0..bandCount-1 : px[b] \in Pixels(dtype) /\ Cell(r, b, x) = px[b]
    <3>1. raster[r] \in [0..bandCount-1 -> [0..Width-1 -> Pixels(dtype)]]
      BY <1>3 DEF CallTypeInv
    <3>2. \A b \in 0..bandCount-1 : raster[r][b] \in [0..Width-1 -> Pixels(dtype)]
      BY <3>1
    <3>3. \A b \in 0..bandCount-1 : raster[r][b][x-1] \in Pixels(dtype)
      BY <2>1, <3>2
    <3> QED
      BY <1>3, <2>2, <3>3 DEF Cell
  <2>4. Eligible(r, x-1) <=> \A b \in 0..bandCount-1 : Condition(Number(dtype, px[b]))
    BY <1>3, <2>1, <2>2 DEF Eligible
  <2>5. CASE testType = "NotEqual"
    <3>1. bandCount = 1
      BY <2>5 DEF CallIsServed
    <3>2. \A b \in 0..bandCount-1 : b = 0
      BY <3>1
    <3>3. Compare(px[0]) <=> ~Condition(Number(dtype, px[0]))
      BY <1>1, <2>3, <2>5, CompareIsCondition DEF Condition
    <3>4. AllBands(r, x) <=> Compare(px[0])
      BY <1>1, <2>3, <3>2 DEF AllBands
    <3>5. Eligible(r, x-1) <=> Condition(Number(dtype, px[0]))
      BY <1>1, <2>4, <3>2
    <3> QED
      BY <2>5, <3>3, <3>4, <3>5, CellTest DEF Negates, Inverted
  <2>6. CASE testType /= "NotEqual"
    <3>1. \A b \in 0..bandCount-1 : Compare(px[b]) <=> Condition(Number(dtype, px[b]))
      BY <2>3, <2>6, CompareIsCondition
    <3>2. AllBands(r, x) <=> \A b \in 0..bandCount-1 : Condition(Number(dtype, px[b]))
      BY <2>3, <3>1 DEF AllBands
    <3> QED
      BY <2>4, <2>6, <3>2, CellTest DEF Negates, Inverted
  <2> QED
    BY <2>5, <2>6
<1>4. CASE ~(r \in 0..Height-1 /\ x \in 1..Width)
  <2>1. ~Eligible(r, x-1)
    BY <1>2, <1>4 DEF Eligible
  <2>2. AllBands(r, x) <=> testType = "NotEqual"
    BY <1>1, <1>4, BleedFails DEF AllBands, Cell
  <2> QED
    BY <2>1, <2>2, CellTest DEF Negates, Inverted
<1> QED
  BY <1>3, <1>4

LEMMA LinesImplyBlocks ==
  CallIsServed /\ CallTypeInv /\ PhaseInv /\ LinesInv => BlocksAsDocumented
<1> SUFFICES ASSUME CallIsServed, CallTypeInv, PhaseInv, LinesInv, testPc = "scan",
                    NEW col \in 0..Width
             PROVE  TestBlock(col) = GetBlockEdges(Eligible(row-1, col-1), Eligible(row-1, col),
                                                   Eligible(row, col-1), Eligible(row, col))
  BY DEF BlocksAsDocumented
<1>1. ~NoBleedValue /\ first = Line(row-1) /\ second = Line(row)
  BY DEF PhaseInv, LinesInv
<1>2. /\ row \in Int /\ row - 1 \in Int
      /\ col \in 0..Width+1 /\ col + 1 \in 0..Width+1 /\ (col + 1) - 1 = col
  BY CallAssumption DEF LinesInv
<1>3. PICK tl \in BOOLEAN, tr \in BOOLEAN, bl \in BOOLEAN, br \in BOOLEAN :
        /\ tl = Eligible(row-1, col-1) /\ tr = Eligible(row-1, col)
        /\ bl = Eligible(row, col-1) /\ br = Eligible(row, col)
  BY DEF Eligible
<1>4. PICK a \in BOOLEAN, b \in BOOLEAN, c \in BOOLEAN, d \in BOOLEAN :
        /\ a = TestCell(first, col) /\ b = TestCell(first, col + 1)
        /\ c = TestCell(second, col) /\ d = TestCell(second, col + 1)
  BY DEF TestCell
<1>5. /\ a <=> (tl <=> ~Inverted)
      /\ b <=> (tr <=> ~Inverted)
      /\ c <=> (bl <=> ~Inverted)
      /\ d <=> (br <=> ~Inverted)
  <2>1. TestCell(Line(row-1), col) <=> (Eligible(row-1, col-1) <=> ~Inverted)
    BY <1>1, <1>2, CellAsDocumented
  <2>2. TestCell(Line(row-1), col+1) <=> (Eligible(row-1, col) <=> ~Inverted)
    BY <1>1, <1>2, CellAsDocumented
  <2>3. TestCell(Line(row), col) <=> (Eligible(row, col-1) <=> ~Inverted)
    BY <1>1, <1>2, CellAsDocumented
  <2>4. TestCell(Line(row), col+1) <=> (Eligible(row, col) <=> ~Inverted)
    BY <1>1, <1>2, CellAsDocumented
  <2> QED
    BY <1>1, <1>3, <1>4, <2>1, <2>2, <2>3, <2>4, Zenon
<1>6. TestBlock(col) = GetBlockEdges(a, b, c, d)
  BY <1>4 DEF TestBlock
<1>7. CASE Inverted
  <2>1. a = ~tl /\ b = ~tr /\ c = ~bl /\ d = ~br
    BY <1>5, <1>7
  <2> QED
    BY <1>3, <1>6, <2>1, ComplementSameEdges
<1>8. CASE ~Inverted
  <2>1. a = tl /\ b = tr /\ c = bl /\ d = br
    BY <1>5, <1>8
  <2> QED
    BY <1>3, <1>6, <2>1
<1> QED
  BY <1>7, <1>8

(***************************************************************************)
(* Of every call but those that BlocksAsDocumented names, the blocks are   *)
(* those of the documented conditions, for any width of the raster and of  *)
(* the pixels and any number of bands: SetBleedLine() and GetBleedValue()  *)
(* (src/raster-outline.cpp) with the callbacks of                          *)
(* src/raster-outline-testblock.cpp.  That Between on bytes selects the    *)
(* complement does not show, for the edges are the same.                   *)
(***************************************************************************)
THEOREM ServedCallsMatchDocumentation == TestSpec => []ServedBlocksAsDocumented
<1> DEFINE Inv == CallTypeInv /\ PhaseInv /\ LinesInv
<1>1. TestInit => Inv
  BY CallInit, LinesInit
<1>2. Inv /\ [TestNext]_testVars => Inv'
  BY CallStep, LinesStep
<1>3. Inv => ServedBlocksAsDocumented
  BY LinesImplyBlocks DEF ServedBlocksAsDocumented
<1> QED
  BY <1>1, <1>2, <1>3, PTL DEF TestSpec
===============================================================================
