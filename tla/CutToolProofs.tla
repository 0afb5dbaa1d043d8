----------------------------- MODULE CutToolProofs -----------------------------
(***************************************************************************)
(* What is proved of the cutting tool, for rasters, polygons and files of  *)
(* any size: what it has opened it closes, whatever fails on the way; a    *)
(* shapefile is used only in full; and the new raster lies on the pixels   *)
(* of the source, each of its pixels on one of them.                       *)
(***************************************************************************)
EXTENDS CutTool, FiniteIntegers

(***************************************************************************)
(* The inductive invariant of the closing: what is open, and when.         *)
(***************************************************************************)
CutPc == {"args", "open", "memory", "read", "close", "check", "load", "create", "warp",
          "closeSource", "return", "exit"}

\* The files of the shapefile are open from OpenFiles to CloseFiles.
FilesInv == /\ pc \in CutPc
            /\ pc \notin {"memory", "read", "close"} => handles = {}

\* The source is open until CloseSource, and the destination until the end; there is
\* a mosaic only of several rasters, and as long as the source.
DataSetsInv ==
  /\ rasters \in 0..2
  /\ open \subseteq {"src", "dst"}
  /\ "src" \in open => pc \in {"create", "warp", "closeSource"}
  /\ "dst" \in open => pc \in {"warp", "closeSource", "return"}
  /\ vrt => rasters > 1 /\ pc \in {"create", "warp", "closeSource"}

ClosedInv == FilesInv /\ DataSetsInv

LEMMA ClosedInit == Init => ClosedInv
BY DEF Init, ClosedInv, FilesInv, DataSetsInv, CutPc

LEMMA ClosedStep == ClosedInv /\ [Next]_toolVars => ClosedInv'
<1> SUFFICES ASSUME ClosedInv, [Next]_toolVars
             PROVE  ClosedInv'
  OBVIOUS
<1> USE DEF ClosedInv, FilesInv, DataSetsInv, CutPc
<1>1. CASE Arguments
  BY <1>1 DEF Arguments, Exit
<1>2. CASE OpenFiles
  BY <1>2 DEF OpenFiles
<1>3. CASE MapMemory
  BY <1>3 DEF MapMemory
<1>4. CASE ReadFiles
  BY <1>4 DEF ReadFiles
<1>5. CASE CloseFiles
  BY <1>5 DEF CloseFiles, HandlesLeft
<1>6. CASE GetPolygon
  BY <1>6 DEF GetPolygon, Exit
<1>7. CASE LoadRasters
  <2>1. vrt' => vrt \/ (rasters > 1 /\ pc' = "create")
    BY <1>7, Zenon DEF LoadRasters
  <2> QED
    BY <1>7, <2>1 DEF LoadRasters
<1>8. CASE CreateRaster
  BY <1>8 DEF CreateRaster
<1>9. CASE Warp
  BY <1>9 DEF Warp
<1>10. CASE CloseSource
  <2>1. vrt' => vrt /\ rasters =< 1
    BY <1>10, Zenon DEF CloseSource
  <2>2. ~vrt'
    BY <2>1
  <2>3. /\ pc = "closeSource" /\ pc' = "return"
        /\ open' = open \ {"src"} /\ UNCHANGED <<rasters, handles>>
    BY <1>10 DEF CloseSource
  <2> QED
    BY <2>2, <2>3
<1>11. CASE CloseDestination
  BY <1>11 DEF CloseDestination, Exit
<1>12. CASE UNCHANGED toolVars
  BY <1>12 DEF toolVars
<1> QED
  BY <1>1, <1>2, <1>3, <1>4, <1>5, <1>6, <1>7, <1>8, <1>9, <1>10, <1>11, <1>12 DEF Next

LEMMA ClosedImplies == ClosedInv => EverythingClosed
BY DEF ClosedInv, FilesInv, DataSetsInv, EverythingClosed

(***************************************************************************)
(* Whichever of its calls fail, the program exits with its files and its   *)
(* data sets closed and without the mosaic: main() of                      *)
(* utils/raster-cut-util.cpp, OpenAndImportShp() and RasterCut().  It says *)
(* nothing of the memory of the shapefile, which is not freed.             *)
(***************************************************************************)
THEOREM ToolClosesEverything == Spec => []EverythingClosed
<1> QED
  BY ClosedInit, ClosedStep, ClosedImplies, PTL DEF Spec

-------------------------------------------------------------------------------

(***************************************************************************)
(* The inductive invariant of the shapefile.  Only files that are there    *)
(* are open; the memory that is read into has the size of all of them, and *)
(* nothing is imported before.                                             *)
(***************************************************************************)
OnlyThere ==
  /\ disk \in ShapeFiles
  /\ \A k \in 1..3 : Extensions[k] \in handles => disk.sizes[k] /= -1

MemoryFits ==
  pc = "read" => mem = MemorySize /\ \A k \in 1..3 : FileSize(k) > 0

NothingYet == pc \in {"args", "open", "memory", "read"} => shape = NoShape

\* What ImportShp() has accepted as polygons with features.
PolygonsRead == shape.type \in PolygonTypes /\ shape.features > 0

ShapeInv == OnlyThere /\ MemoryFits /\ NothingYet /\ ShapeWhole

LEMMA ShapeInit == Init => ShapeInv
BY DEF Init, ShapeInv, OnlyThere, MemoryFits, NothingYet, ShapeWhole, NoShape

\* The sizes of three files, each at most a quarter of what 64 bits count, do not wrap.
LEMMA SizesDoNotWrap ==
  ASSUME OnlyThere, Sized = 1..3
  PROVE  MemorySize = disk.sizes[1] + disk.sizes[2] + disk.sizes[3]
<1> DEFINE n == UszSize \div 4
<1>1. n \in Nat /\ 4 * n =< UszSize /\ UszSize \in Nat \ {0}
  BY ToolAssumption
<1>2. \A k \in 1..3 : disk.sizes[k] \in 0..n /\ FileSize(k) = disk.sizes[k]
  <2>1. \A k \in 1..3 : disk.sizes[k] \in -2..n
    BY ToolAssumption DEF OnlyThere
  <2>2. \A k \in 1..3 : disk.sizes[k] >= 0
    BY DEF Sized
  <2> HIDE DEF n
  <2> QED
    BY <1>1, <2>1, <2>2 DEF FileSize
<1> HIDE DEF n
<1>3. PICK a \in 0..n, b \in 0..n, c \in 0..n :
        a = disk.sizes[1] /\ b = disk.sizes[2] /\ c = disk.sizes[3]
  BY <1>2
<1>4. a + b + c \in 0 .. UszSize - 1
  BY <1>1
<1>5. (a + b + c) % UszSize = a + b + c
  BY <1>1, <1>4
<1> QED
  BY <1>2, <1>3, <1>5 DEF MemorySize

\* The sizes are those of the files and of what is open.
LEMMA SizesStay ==
  UNCHANGED <<disk, handles>> =>
    MemorySize' = MemorySize /\ \A k \in 1..3 : FileSize(k)' = FileSize(k)
BY DEF MemorySize, FileSize, Sized

\* ImportShp() accepts polygons with features only where all three files have a size:
\* the records it would count elsewhere are none, or fewer.
LEMMA ImportedIsWhole ==
  ASSUME OnlyThere, NEW i \in ImportShp, i.type \in PolygonTypes, i.features > 0
  PROVE  Sized = 1..3
<1>1. i = Imported /\ RecordsAgree
  BY DEF ImportShp, Refused, NoShape
<1>2. disk.features \in Nat /\ disk.features > 0
  BY <1>1, ToolAssumption DEF Imported, OnlyThere
<1>3. 1 \in Sized
  BY <1>1 DEF Imported, PolygonTypes
<1>4. 2 \in Sized /\ 3 \in Sized
  BY <1>1, <1>2 DEF RecordsAgree, ShxRecords, DbfRecords
<1> QED
  BY <1>3, <1>4 DEF Sized

\* OpenFiles opens only what is there.
LEMMA OpensWhatIsThere == ShapeInv /\ OpenFiles => OnlyThere'
<1> SUFFICES ASSUME ShapeInv, OpenFiles, NEW k \in 1..3, Extensions[k] \in handles'
             PROVE  disk.sizes[k] /= -1
  BY DEF ShapeInv, OnlyThere, OpenFiles
<1>1. PICK j \in 1..3 : disk.sizes[j] /= -1 /\ Extensions[j] = Extensions[k]
  BY DEF OpenFiles
<1>2. j = k
  BY <1>1 DEF Extensions
<1> QED
  BY <1>1, <1>2

LEMMA ShapeStep == ShapeInv /\ [Next]_toolVars => ShapeInv'
<1> SUFFICES ASSUME ShapeInv, [Next]_toolVars
             PROVE  ShapeInv'
  OBVIOUS
<1> USE DEF ShapeInv, OnlyThere, MemoryFits, NothingYet, ShapeWhole, NoShape
<1>1. CASE Arguments
  BY <1>1 DEF Arguments, Exit
<1>2. CASE OpenFiles
  <2>1. OnlyThere'
    BY <1>2, OpensWhatIsThere
  <2> QED
    BY <1>2, <2>1 DEF OpenFiles
<1>3. CASE MapMemory
  BY <1>3, SizesStay DEF MapMemory
<1>4. CASE ReadFiles
  <2>1. PICK n \in 0..3 :
          read' = (1..n) \cap Sized /\ shape' \in (IF n = 3 THEN ImportShp ELSE {NoShape})
    BY <1>4 DEF ReadFiles
  <2>2. ASSUME PolygonsRead'
        PROVE  /\ \A k \in 1..3 : k \in read' /\ disk.sizes[k] > 0
               /\ mem = disk.sizes[1] + disk.sizes[2] + disk.sizes[3]
    <3>1. n = 3 /\ shape' \in ImportShp
      BY <2>1, <2>2 DEF PolygonsRead
    <3>2. Sized = 1..3
      BY <2>2, <3>1, ImportedIsWhole DEF PolygonsRead
    <3>3. mem = MemorySize /\ \A k \in 1..3 : FileSize(k) > 0
      BY <1>4 DEF ReadFiles
    <3>4. \A k \in 1..3 : disk.sizes[k] > 0
      BY <3>2, <3>3 DEF FileSize
    <3> QED
      BY <2>1, <3>1, <3>2, <3>3, <3>4, SizesDoNotWrap
  <2>3. ShapeWhole'
    BY <1>4, <2>2 DEF ReadFiles, PolygonsRead
  <2> QED
    BY <1>4, <2>3 DEF ReadFiles
<1>5. CASE CloseFiles
  BY <1>5 DEF CloseFiles, HandlesLeft
<1>6. CASE GetPolygon
  BY <1>6 DEF GetPolygon, Exit
<1>7. CASE LoadRasters
  BY <1>7 DEF LoadRasters
<1>8. CASE CreateRaster
  BY <1>8 DEF CreateRaster
<1>9. CASE Warp
  BY <1>9 DEF Warp
<1>10. CASE CloseSource
  BY <1>10 DEF CloseSource
<1>11. CASE CloseDestination
  BY <1>11 DEF CloseDestination, Exit
<1>12. CASE UNCHANGED toolVars
  BY <1>12, SizesStay DEF toolVars
<1> QED
  BY <1>1, <1>2, <1>3, <1>4, <1>5, <1>6, <1>7, <1>8, <1>9, <1>10, <1>11, <1>12 DEF Next

(***************************************************************************)
(* The polygons the program goes on with were read in full to a memory of  *)
(* exactly the size of their three files: OpenAndImportShp() and           *)
(* ImportShp() (include/geotypes-shp.cpp), where the size of a file that   *)
(* is not open counts as USZ_MAX, the sum wraps, and its read succeeds.    *)
(***************************************************************************)
THEOREM ToolReadsWholeShape == Spec => []ShapeWhole
<1>1. ShapeInv => ShapeWhole
  BY DEF ShapeInv
<1> QED
  BY <1>1, ShapeInit, ShapeStep, PTL DEF Spec

-------------------------------------------------------------------------------

(***************************************************************************)
(* The geometry of the new raster.                                         *)
(***************************************************************************)
\* The whole part of a quotient, and the quotient of a multiple.
LEMMA QuotientType ==
  ASSUME NEW a \in Int, NEW b \in Int, b /= 0
  PROVE  Quotient(a, b) \in Int
<1>1. PICK m \in Nat, n \in Nat \ {0} :
        /\ m = IF a < 0 THEN -a ELSE a
        /\ n = IF b < 0 THEN -b ELSE b
  OBVIOUS
<1>2. m \div n \in Int
  BY <1>1
<1> QED
  BY <1>1, <1>2 DEF Quotient

LEMMA MultipleDiv ==
  ASSUME NEW k \in Nat, NEW n \in Nat \ {0}
  PROVE  k * n \in Nat /\ (k * n) \div n = k
<1>1. PICK a \in Nat : a = k * n
  OBVIOUS
<1>2. PICK q \in Int : q = a \div n
  BY <1>1
<1>3. n * q =< a /\ a < n * q + n
  BY <1>1, <1>2
<1>4. n * (k - q) >= 0 /\ n * (k - q) < n
  BY <1>1, <1>3
<1>5. k - q = 0
  BY <1>4
<1> QED
  BY <1>1, <1>2, <1>5

LEMMA QuotientOfMultiple ==
  ASSUME NEW k \in Nat, NEW d \in Int, d /= 0
  PROVE  Quotient(k * d, d) = k
<1>1. PICK n \in Nat \ {0} : n = IF d < 0 THEN -d ELSE d
  OBVIOUS
<1>2. PICK a \in Int : a = k * d
  OBVIOUS
<1>3. PICK m \in Nat : m = IF a < 0 THEN -a ELSE a
  BY <1>2
<1>4. m = k * n
  BY <1>1, <1>2, <1>3
<1>5. m \div n = k
  BY <1>4, MultipleDiv
<1>6. k = 0 \/ ((a < 0) <=> (d < 0))
  BY <1>2
<1> QED
  BY <1>1, <1>2, <1>3, <1>5, <1>6 DEF Quotient

LEMMA ClampToType ==
  ASSUME NEW t \in Int, NEW m \in Nat
  PROVE  ClampTo(t, 0, m) \in 0..m
<1>1. PICK u \in Nat : u = Max({t, 0})
  BY MinMaxOfTwo
<1>2. Min({u, m}) \in 0..m
  BY MinMaxOfTwo
<1> QED
  BY <1>1, <1>2 DEF ClampTo

\* The vertices of a polygon have whole coordinates, in the raster too.
LEMMA CutlineType ==
  ASSUME NEW r \in Rasters, NEW p \in Polygons
  PROVE  /\ DOMAIN Cutline(r, p) = 1..Len(p) /\ Len(p) \in Nat \ {0}
         /\ \A i \in 1..Len(p) : Cutline(r, p)[i][1] \in Int /\ Cutline(r, p)[i][2] \in Int
<1>1. /\ r.dx \in Int /\ r.dx /= 0 /\ r.dy \in Int /\ r.dy /= 0
      /\ r.x0 \in Int /\ r.y0 \in Int
  BY SMTT(30), ToolAssumption
<1>2. p \in Seq(Int \X Int) /\ Len(p) \in Nat \ {0}
  BY ToolAssumption
<1>3. \A i \in 1..Len(p) : p[i] \in Int \X Int
  BY <1>2
<1>4. \A i \in 1..Len(p) : /\ CoordToPixel(p[i][1], r.x0, r.dx) \in Int
                           /\ CoordToPixel(p[i][2], r.y0, r.dy) \in Int
  <2> SUFFICES ASSUME NEW i \in 1..Len(p)
               PROVE  /\ CoordToPixel(p[i][1], r.x0, r.dx) \in Int
                      /\ CoordToPixel(p[i][2], r.y0, r.dy) \in Int
    OBVIOUS
  <2>1. p[i][1] - r.x0 \in Int /\ p[i][2] - r.y0 \in Int
    BY <1>1, <1>3
  <2> QED
    BY <1>1, <2>1, QuotientType DEF CoordToPixel
<1> QED
  BY <1>2, <1>4 DEF Cutline

\* The values of a function on 1..n are finitely many.
LEMMA FiniteValues ==
  ASSUME NEW n \in Nat \ {0}, NEW f, DOMAIN f = 1..n, \A i \in 1..n : f[i] \in Int
  PROVE  LET S == {f[i] : i \in 1..n}
         IN  Min(S) \in Int /\ Max(S) \in Int
<1>1. PICK S : S = {f[i] : i \in 1..n}
  OBVIOUS
<1>2. PICK g : g = [i \in 1..n |-> f[i]]
  OBVIOUS
<1>3. g \in Surjection(1..n, S)
  BY <1>1, <1>2 DEF Surjection
<1>4. IsFiniteSet(1..n)
  BY FS_Interval
<1>5. IsFiniteSet(S)
  BY <1>3, <1>4, FS_Surjection
<1>6. S \in SUBSET Int /\ S /= {}
  BY <1>1
<1> QED
  BY <1>1, <1>5, <1>6, MinOfFinite, MaxOfFinite

\* The window is on the raster.
LEMMA WindowType ==
  ASSUME NEW r \in Rasters, NEW p \in Polygons
  PROVE  LET w == Window(r, p)
         IN  /\ w.left \in 0..r.width /\ w.right \in 0..r.width
             /\ w.top \in 0..r.height /\ w.bottom \in 0..r.height
<1>1. PICK line : line = Cutline(r, p)
  OBVIOUS
<1>2. PICK n \in Nat \ {0} : n = Len(p)
  BY CutlineType
<1>3. DOMAIN line = 1..n /\ \A i \in 1..n : line[i][1] \in Int /\ line[i][2] \in Int
  BY <1>1, <1>2, CutlineType
<1>4. PICK xs, ys : xs = {line[i][1] : i \in 1..n} /\ ys = {line[i][2] : i \in 1..n}
  OBVIOUS
<1>5. Min(xs) \in Int /\ Max(xs) \in Int
  <2>1. PICK f : f = [i \in 1..n |-> line[i][1]]
    OBVIOUS
  <2>2. DOMAIN f = 1..n /\ (\A i \in 1..n : f[i] \in Int) /\ xs = {f[i] : i \in 1..n}
    BY <1>3, <1>4, <2>1
  <2> QED
    BY <2>2, FiniteValues
<1>6. Min(ys) \in Int /\ Max(ys) \in Int
  <2>1. PICK f : f = [i \in 1..n |-> line[i][2]]
    OBVIOUS
  <2>2. DOMAIN f = 1..n /\ (\A i \in 1..n : f[i] \in Int) /\ ys = {f[i] : i \in 1..n}
    BY <1>3, <1>4, <2>1
  <2> QED
    BY <2>2, FiniteValues
<1>7. r.width \in Nat /\ r.height \in Nat
  BY ToolAssumption
<1>8. Window(r, p) = [left   |-> ClampTo(Min(xs), 0, r.width),
                      right  |-> ClampTo(Max(xs), 0, r.width),
                      top    |-> ClampTo(Min(ys), 0, r.height),
                      bottom |-> ClampTo(Max(ys), 0, r.height)]
  BY <1>1, <1>3, <1>4 DEF Window
<1>9. /\ Window(r, p).left \in 0..r.width /\ Window(r, p).right \in 0..r.width
      /\ Window(r, p).top \in 0..r.height /\ Window(r, p).bottom \in 0..r.height
  <2>1. \A t \in Int : ClampTo(t, 0, r.width) \in 0..r.width
    BY <1>7, ClampToType
  <2>2. \A t \in Int : ClampTo(t, 0, r.height) \in 0..r.height
    BY <1>7, ClampToType
  <2> QED
    BY <1>5, <1>6, <1>8, <2>1, <2>2
<1> QED
  BY <1>9

\* The pixel p of the new raster lies on the pixel of the source that is p further
\* than the corner of the window, and it is a pixel of the source.
LEMMA PixelOnPixel ==
  ASSUME NEW r \in Rasters, NEW p \in Polygons, NEW w, w = Window(r, p),
         NEW d, d = Destination(r, w), NEW q \in PixelsOf(d)
  PROVE  /\ SourcePixel(r, d, q) = <<w.left + q[1], w.top + q[2]>>
         /\ w.left + q[1] \in w.left .. w.right - 1
         /\ w.top + q[2] \in w.top .. w.bottom - 1
<1>1. /\ r.dx \in Int /\ r.dx /= 0 /\ r.dy \in Int /\ r.dy /= 0
      /\ r.x0 \in Int /\ r.y0 \in Int /\ r.width \in Nat /\ r.height \in Nat
      /\ r \in [x0 : Int, dx : Int, y0 : Int, dy : Int, width : Nat, height : Nat]
  BY SMTT(30), ToolAssumption
<1>2. /\ w.left \in 0..r.width /\ w.right \in 0..r.width
      /\ w.top \in 0..r.height /\ w.bottom \in 0..r.height
  BY WindowType
<1>3. /\ d.x0 = r.x0 + w.left * r.dx /\ d.dx = r.dx
      /\ d.y0 = r.y0 + w.top * r.dy /\ d.dy = r.dy
      /\ d.width = w.right - w.left /\ d.height = w.bottom - w.top
  BY <1>1 DEF Destination
<1>4. q[1] \in 0 .. d.width - 1 /\ q[2] \in 0 .. d.height - 1 /\ q = <<q[1], q[2]>>
  BY DEF PixelsOf
<1>5. PICK i \in Nat, j \in Nat : i = w.left + q[1] /\ j = w.top + q[2]
  BY <1>1, <1>2, <1>3, <1>4
<1>6. PICK x, y : x = d.x0 + q[1] * d.dx /\ y = d.y0 + q[2] * d.dy
  OBVIOUS
<1>7. x - r.x0 = i * r.dx /\ y - r.y0 = j * r.dy
  BY <1>1, <1>2, <1>3, <1>4, <1>5, <1>6
<1>8. SourcePixel(r, d, q) = <<i, j>>
  <2>1. Quotient(i * r.dx, r.dx) = i /\ Quotient(j * r.dy, r.dy) = j
    BY <1>1, QuotientOfMultiple
  <2>2. CoordToPixel(x, r.x0, r.dx) = i /\ CoordToPixel(y, r.y0, r.dy) = j
    BY <1>7, <2>1 DEF CoordToPixel
  <2> QED
    BY <1>6, <2>2 DEF SourcePixel
<1>9. i \in w.left .. w.right - 1 /\ j \in w.top .. w.bottom - 1
  BY <1>1, <1>2, <1>3, <1>4, <1>5
<1> QED
  BY <1>5, <1>8, <1>9

\* Every pixel of the window has one of the new raster that lies on it.
LEMMA PixelUnderPixel ==
  ASSUME NEW r \in Rasters, NEW p \in Polygons, NEW w, w = Window(r, p),
         NEW d, d = Destination(r, w),
         NEW i \in w.left .. w.right - 1, NEW j \in w.top .. w.bottom - 1
  PROVE  \E q \in PixelsOf(d) : SourcePixel(r, d, q) = <<i, j>>
<1>1. r \in [x0 : Int, dx : Int, y0 : Int, dy : Int, width : Nat, height : Nat]
  BY ToolAssumption
<1>2. /\ w.left \in 0..r.width /\ w.right \in 0..r.width
      /\ w.top \in 0..r.height /\ w.bottom \in 0..r.height
  BY WindowType
<1>3. d.width = w.right - w.left /\ d.height = w.bottom - w.top
  BY <1>1 DEF Destination
<1>4. PICK q : q = <<i - w.left, j - w.top>>
  OBVIOUS
<1>5. q \in PixelsOf(d)
  BY <1>1, <1>2, <1>3, <1>4 DEF PixelsOf
<1>6. w.left + q[1] = i /\ w.top + q[2] = j
  BY <1>1, <1>2, <1>4
<1> QED
  BY <1>5, <1>6, PixelOnPixel

\* The window that is cut out.
CutWindow == Window(src, polygon)

\* Those of its pixels whose centre is in the cutline.
PixelsInCutline(border) ==
  {s \in (CutWindow.left .. CutWindow.right - 1) \X (CutWindow.top .. CutWindow.bottom - 1) :
     In(Doubled(Cutline(src, polygon)), <<2 * s[1] + 1, 2 * s[2] + 1>>, border)}

\* When there is a new raster, it has pixels, and not more than the source; each lies on
\* the pixel of the source that has its place in the window.
NewRasterInPlace ==
  pc \in {"warp", "closeSource"} /\ "dst" \in open =>
    /\ dst.width \in 1 .. src.width /\ dst.height \in 1 .. src.height
    /\ \A q \in PixelsOf(dst) :
         SourcePixel(src, dst, q) = <<CutWindow.left + q[1], CutWindow.top + q[2]>>

\* The warp copies the pixels of the window that are in the cutline, and no others.
KeptFromWindow ==
  pc = "closeSource" /\ "dst" \in open => \E border \in BOOLEAN : kept = PixelsInCutline(border)

(***************************************************************************)
(* The inductive invariant: which raster and which polygon the new raster  *)
(* was made from, and from which of them the warp copied.                  *)
(***************************************************************************)
MadeFrom ==
  /\ pc \in {"load", "create", "warp", "closeSource"} => polygon \in Polygons
  /\ pc \in {"create", "warp", "closeSource"} => src \in Rasters
  /\ pc \in {"warp", "closeSource"} /\ "dst" \in open =>
       dst = Destination(src, CutWindow) /\ dst.width > 0 /\ dst.height > 0

CopiedFrom ==
  pc = "closeSource" /\ "dst" \in open =>
    \E border \in BOOLEAN : kept = Warped(src, dst, polygon, border)

RasterInv == ClosedInv /\ MadeFrom /\ CopiedFrom

LEMMA RasterInit == Init => RasterInv
<1> QED
  BY ClosedInit DEF Init, RasterInv, MadeFrom, CopiedFrom

LEMMA RasterStep == RasterInv /\ [Next]_toolVars => RasterInv'
<1> SUFFICES ASSUME RasterInv, [Next]_toolVars
             PROVE  MadeFrom' /\ CopiedFrom'
  BY ClosedStep DEF RasterInv
<1> USE DEF RasterInv, MadeFrom, CopiedFrom, CutWindow
<1>1. CASE Arguments
  BY <1>1 DEF Arguments, Exit
<1>2. CASE OpenFiles
  BY <1>2 DEF OpenFiles
<1>3. CASE MapMemory
  BY <1>3 DEF MapMemory
<1>4. CASE ReadFiles
  BY <1>4 DEF ReadFiles
<1>5. CASE CloseFiles
  BY <1>5 DEF CloseFiles
<1>6. CASE GetPolygon
  BY <1>6 DEF GetPolygon, Exit
<1>7. CASE LoadRasters
  BY <1>7 DEF LoadRasters
<1>8. CASE CreateRaster
  <2>1. "dst" \notin open
    BY <1>8 DEF CreateRaster, ClosedInv, DataSetsInv
  <2>2. /\ pc = "create" /\ pc' = "warp" /\ UNCHANGED <<src, polygon>>
        /\ "dst" \in open' =>
             /\ dst' = Destination(src, Window(src, polygon))
             /\ dst'.width > 0 /\ dst'.height > 0
    BY <1>8, <2>1 DEF CreateRaster
  <2> QED
    BY <2>2
<1>9. CASE Warp
  BY <1>9 DEF Warp
<1>10. CASE CloseSource
  BY <1>10 DEF CloseSource
<1>11. CASE CloseDestination
  BY <1>11 DEF CloseDestination, Exit
<1>12. CASE UNCHANGED toolVars
  BY <1>12 DEF toolVars
<1> QED
  BY <1>1, <1>2, <1>3, <1>4, <1>5, <1>6, <1>7, <1>8, <1>9, <1>10, <1>11, <1>12 DEF Next

LEMMA RasterInPlace == RasterInv => NewRasterInPlace
<1> SUFFICES ASSUME RasterInv, pc \in {"warp", "closeSource"}, "dst" \in open
             PROVE  /\ dst.width \in 1 .. src.width /\ dst.height \in 1 .. src.height
                    /\ \A q \in PixelsOf(dst) :
                         SourcePixel(src, dst, q) = <<CutWindow.left + q[1], CutWindow.top + q[2]>>
  BY DEF NewRasterInPlace
<1>1. /\ src \in Rasters /\ polygon \in Polygons
      /\ dst = Destination(src, CutWindow) /\ dst.width > 0 /\ dst.height > 0
  BY DEF RasterInv, MadeFrom
<1>2. PICK w : w = CutWindow
  OBVIOUS
<1>3. /\ w.left \in 0..src.width /\ w.right \in 0..src.width
      /\ w.top \in 0..src.height /\ w.bottom \in 0..src.height
  BY <1>1, <1>2, WindowType DEF CutWindow
<1>4. src \in [x0 : Int, dx : Int, y0 : Int, dy : Int, width : Nat, height : Nat]
  BY <1>1, ToolAssumption
<1>5. dst.width = w.right - w.left /\ dst.height = w.bottom - w.top
  BY <1>1, <1>2, <1>4 DEF Destination
<1>6. dst.width \in 1 .. src.width /\ dst.height \in 1 .. src.height
  BY <1>1, <1>3, <1>4, <1>5
<1> QED
  BY <1>1, <1>2, <1>6, PixelOnPixel DEF CutWindow

LEMMA CopiedFromWindow == RasterInv => KeptFromWindow
<1> SUFFICES ASSUME RasterInv, pc = "closeSource", "dst" \in open
             PROVE  \E border \in BOOLEAN : kept = PixelsInCutline(border)
  BY DEF KeptFromWindow
<1>1. PICK border \in BOOLEAN : kept = Warped(src, dst, polygon, border)
  BY DEF RasterInv, CopiedFrom
<1>2. src \in Rasters /\ polygon \in Polygons /\ dst = Destination(src, CutWindow)
  BY DEF RasterInv, MadeFrom
<1>3. PICK w : w = CutWindow
  OBVIOUS
<1>4. {SourcePixel(src, dst, q) : q \in PixelsOf(dst)} =
        (w.left .. w.right - 1) \X (w.top .. w.bottom - 1)
  BY <1>2, <1>3, PixelOnPixel, PixelUnderPixel DEF CutWindow
<1>5. (w.left .. w.right - 1) \X (w.top .. w.bottom - 1) \subseteq PixelsOf(src)
  <2>1. /\ w.left \in 0..src.width /\ w.right \in 0..src.width
        /\ w.top \in 0..src.height /\ w.bottom \in 0..src.height
    BY <1>2, <1>3, WindowType DEF CutWindow
  <2>2. src.width \in Nat /\ src.height \in Nat
    BY <1>2, ToolAssumption
  <2>3. /\ w.left .. w.right - 1 \subseteq 0 .. src.width - 1
        /\ w.top .. w.bottom - 1 \subseteq 0 .. src.height - 1
    BY <2>1, <2>2
  <2> QED
    BY <2>3 DEF PixelsOf
<1> QED
  BY <1>1, <1>3, <1>4, <1>5 DEF Warped, PixelsInCutline

(***************************************************************************)
(* The new raster has pixels, not more than the source, and every one of   *)
(* them lies exactly on a pixel of the source, by the affine transform     *)
(* that RasterCut() (src/raster-cut.cpp) gives it.                         *)
(***************************************************************************)
THEOREM CutKeepsPlace == Spec => []NewRasterInPlace
<1> QED
  BY RasterInit, RasterStep, RasterInPlace, PTL DEF Spec

(***************************************************************************)
(* What the warp copies are the pixels of the window whose centres are in  *)
(* the cutline, all of them and no others: none falls between the pixels   *)
(* of the new raster, and none lands on two.                               *)
(***************************************************************************)
THEOREM CutCopiesWindow == Spec => []KeptFromWindow
<1> QED
  BY RasterInit, RasterStep, CopiedFromWindow, PTL DEF Spec
===============================================================================
