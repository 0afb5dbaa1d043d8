-------------------------------- MODULE CutTool --------------------------------
(***************************************************************************)
(* The program raster-cut-util from its start to its exit: the arguments   *)
(* (utils/raster-cut-util.cpp), the shapefile of the polygon that          *)
(* OpenAndImportShp() reads (include/geotypes-shp.cpp), and the data sets  *)
(* of RasterCut() (src/raster-cut.cpp).  Files may be missing, and every   *)
(* call to the system and to GDAL may fail; what the program looks at of   *)
(* this is in the guards.                                                  *)
(***************************************************************************)
EXTENDS RasterCut

CONSTANTS
  Rasters, Polygons,   \* the sources, and the polygons to cut them with
  ShapeFiles,          \* [sizes, valid, type, features, parts]: the files there are
  UszSize,             \* 2^64: sizes are modulo this
  CreateMayFail        \* whether GDALCreate() may fail with a size it can make

Extensions == <<"shp", "shx", "dbf">>

ASSUME ToolAssumption ==
  /\ Rasters \subseteq [x0 : Int, dx : Int, y0 : Int, dy : Int, width : Nat, height : Nat]
  /\ \A r \in Rasters : r.dx > 0 /\ r.dy < 0 /\ r.width > 0 /\ r.height > 0
  /\ Polygons \subseteq Seq(Int \X Int)
  /\ \A p \in Polygons : Len(p) > 3 /\ p[1] = Last(p)
  /\ UszSize \in Nat \ {0}
  /\ \A s \in ShapeFiles :
       /\ s.features \in Nat /\ s.valid \subseteq 1..3
       /\ \A k \in 1..3 : s.sizes[k] \in -2 .. (UszSize \div 4)
  /\ CreateMayFail \in BOOLEAN

VARIABLES
  pc,        \* what the program does next
  rasters,   \* how many source rasters there are in the arguments
  disk,      \* the shapefile the arguments name
  handles,   \* the extensions of its files that are open
  mem,       \* the bytes that are mapped for it, -1 for no memory
  read,      \* the files that are in this memory, in full
  shape,     \* the shapefile that was imported
  src, dst,  \* the source and destination, or None
  open,      \* the data sets that are open: "src", "dst"
  vrt,       \* whether the mosaic is in GDAL's memory
  polygon,   \* CutPolygon
  kept,      \* the pixels of the source in the destination
  code       \* what main() returns

toolVars == <<pc, rasters, disk, handles, mem, read, shape, src, dst, open, vrt, polygon,
              kept, code>>

None    == [x0 |-> 0, dx |-> 0, y0 |-> 0, dy |-> 0, width |-> 0, height |-> 0]
NoShape == [type |-> 0, features |-> 0, parts |-> 0, internal |-> FALSE, points |-> FALSE]

Init ==
  /\ pc = "args" /\ rasters \in 0..2 /\ disk \in ShapeFiles
  /\ handles = {} /\ mem = -1 /\ read = {} /\ shape = NoShape
  /\ src = None /\ dst = None /\ open = {} /\ vrt = FALSE
  /\ polygon = << >> /\ kept = {} /\ code = 0

Exit(c) == pc' = "exit" /\ code' = c

\* main() counts its arguments.
Arguments ==
  /\ pc = "args"
  /\ IF rasters = 0 THEN Exit(-1) ELSE pc' = "open" /\ UNCHANGED code
  /\ UNCHANGED <<rasters, disk, handles, mem, read, shape, src, dst, open, vrt, polygon, kept>>

\* OpenAndImportShp() opens the three files.  One that is there may be locked; what
\* is there may be a directory, which has the size -2 here.
OpenFiles ==
  /\ pc = "open"
  /\ handles' \in SUBSET {Extensions[k] : k \in {k \in 1..3 : disk.sizes[k] /= -1}}
  /\ pc' = "memory"
  /\ UNCHANGED <<rasters, disk, mem, read, shape, src, dst, open, vrt, polygon, kept, code>>

\* FileSizeOf() of the handles: USZ_MAX for one that is not an open regular file.
Sized       == {k \in 1..3 : Extensions[k] \in handles /\ disk.sizes[k] >= 0}
FileSize(k) == IF k \in Sized THEN disk.sizes[k] ELSE UszSize - 1

\* One memory for all of them, of the size that the sum has in 64 bits.
MemorySize == (FileSize(1) + FileSize(2) + FileSize(3)) % UszSize

MapMemory ==
  /\ pc = "memory"
  /\ \/ /\ \A k \in 1..3 : FileSize(k) > 0
        /\ MemorySize \in 1 .. UszSize \div 2     \* the rest are not addresses
        /\ mem' = MemorySize /\ pc' = "read"
     \/ mem' = -1 /\ pc' = "close"
  /\ UNCHANGED <<rasters, disk, handles, read, shape, src, dst, open, vrt, polygon, kept, code>>

\* The records that ImportShp() counts in the .shx and the .dbf.  Where a file has no
\* size nothing was read, and it finds zeros, or for a .shx the reserved bytes of the
\* .dbf: a length of 0, which less the header of 100 bytes is -13 records of 8.
ShxRecords == IF 2 \in Sized THEN disk.features ELSE -13
DbfRecords == IF 3 \in Sized THEN disk.features ELSE 0

\* Mutant: the rows of the .dbf are not counted.
RecordsAgreeNoRows == ShxRecords = disk.features

RecordsAgree == ShxRecords = disk.features /\ DbfRecords = disk.features

\* What ImportShp() may return, and OpenAndImportShp() makes the owner of its memory:
\* the shapefile, or an object that points to nothing.  A .shp without a size is at the
\* second byte of the .shx, where the type is that of no shape.
Imported == [type |-> IF 1 \in Sized THEN disk.type ELSE 0, features |-> disk.features,
             parts |-> disk.parts, internal |-> TRUE, points |-> TRUE]
Refused  == [NoShape EXCEPT !.internal = TRUE]

ImportShp ==
  {i \in {Imported, Refused} :
     /\ i = Imported => Sized \subseteq disk.valid /\ RecordsAgree
     /\ i = Refused /\ 1 \in Sized => ~(Sized \subseteq disk.valid /\ RecordsAgree)}

\* The three reads, up to the first that fails, and ImportShp().  A read of a file that
\* has no size does not fail: the -1 of read() is the USZ_MAX that was asked for, and
\* nothing is in the memory.
ReadFiles ==
  /\ pc = "read"
  /\ \E n \in 0..3 :
       /\ n < 3 => n + 1 \in Sized
       /\ read' = (1..n) \cap Sized
       /\ shape' \in IF n = 3 THEN ImportShp ELSE {NoShape}
  /\ pc' = "close"
  /\ UNCHANGED <<rasters, disk, handles, mem, src, dst, open, vrt, polygon, kept, code>>

\* Mutant: the files stay open when there was nothing to import.
HandlesLeftOpen(files) == IF shape.internal THEN {} ELSE files

HandlesLeft(files) == {}

CloseFiles ==
  /\ pc = "close"
  /\ handles' = HandlesLeft(handles)
  /\ pc' = "check"
  /\ UNCHANGED <<rasters, disk, mem, read, shape, src, dst, open, vrt, polygon, kept, code>>

\* main() wants a polygon of one part; GetGeometry() gives its vertices.
PolygonTypes == {5, 15, 25}

GetPolygon ==
  /\ pc = "check"
  /\ IF /\ shape.type \in PolygonTypes
        /\ (IF shape.features > 0 THEN shape.parts ELSE 0) = 1
     THEN polygon' \in Polygons /\ pc' = "load" /\ UNCHANGED code
     ELSE Exit(-1) /\ UNCHANGED polygon
  /\ UNCHANGED <<rasters, disk, handles, mem, read, shape, src, dst, open, vrt, kept>>

\* LoadRastersFromList(): the raster itself, or a mosaic of several.
LoadRasters ==
  /\ pc = "load"
  /\ \/ /\ src' \in Rasters
        /\ open' = open \cup {"src"} /\ vrt' = (rasters > 1) /\ pc' = "create"
     \/ pc' = "return" /\ UNCHANGED <<src, open, vrt>>
  /\ UNCHANGED <<rasters, disk, handles, mem, read, shape, dst, polygon, kept, code>>

\* GDALCreate() makes no raster without pixels, and may fail.  The result is not
\* looked at: GDAL refuses what is done with no data set.
CreateRaster ==
  LET new == Destination(src, Window(src, polygon))
  IN  /\ pc = "create"
      /\ \/ /\ new.width > 0 /\ new.height > 0
            /\ dst' = new /\ open' = open \cup {"dst"}
         \/ /\ CreateMayFail \/ new.width =< 0 \/ new.height =< 0
            /\ UNCHANGED <<dst, open>>
      /\ pc' = "warp"
      /\ UNCHANGED <<rasters, disk, handles, mem, read, shape, src, vrt, polygon, kept, code>>

Warp ==
  /\ pc = "warp"
  /\ \E border \in BOOLEAN :
       kept' = IF "dst" \in open THEN Warped(src, dst, polygon, border) ELSE {}
  /\ pc' = "closeSource"
  /\ UNCHANGED <<rasters, disk, handles, mem, read, shape, src, dst, open, vrt, polygon, code>>

CloseSource ==
  /\ pc = "closeSource"
  /\ open' = open \ {"src"}
  /\ vrt' = (vrt /\ rasters =< 1)
  /\ pc' = "return"
  /\ UNCHANGED <<rasters, disk, handles, mem, read, shape, src, dst, polygon, kept, code>>

\* main() closes what RasterCut() returned, and returns 0 in any case.
CloseDestination ==
  /\ pc = "return"
  /\ open' = open \ {"dst"}
  /\ Exit(0)
  /\ UNCHANGED <<rasters, disk, handles, mem, read, shape, src, dst, vrt, polygon, kept>>

Next ==
  \/ Arguments \/ OpenFiles \/ MapMemory \/ ReadFiles \/ CloseFiles \/ GetPolygon
  \/ LoadRasters \/ CreateRaster \/ Warp \/ CloseSource \/ CloseDestination

Spec == Init /\ [][Next]_toolVars

-------------------------------------------------------------------------------

(***************************************************************************)
(* What is imported are the three files, in full: the .shx and the .dbf    *)
(* must be there too, or the object is empty (include/geotypes-shp.h:188). *)
(* A shapefile without features is imported without its .dbf.  (Type 0 is  *)
(* what is found where the .shp should be.)                                *)
(***************************************************************************)
ImportsThreeFiles == shape.points /\ shape.type /= 0 => read = 1..3

(***************************************************************************)
(* The program cuts only along a polygon whose shapefile is in memory with *)
(* all three files, in full: however many of them are missing, locked or   *)
(* directories, although their reads then succeed and the sum of their     *)
(* sizes wraps in 64 bits.                                                 *)
(***************************************************************************)
ShapeWhole ==
  shape.type \in PolygonTypes /\ shape.features > 0 =>
    /\ \A k \in 1..3 : k \in read /\ disk.sizes[k] > 0
    /\ mem = disk.sizes[1] + disk.sizes[2] + disk.sizes[3]

(***************************************************************************)
(* The memory of OpenAndImportShp() can be freed with CloseShp(), as       *)
(* include/geotypes-shp.h:187 says: the object it returns owns the memory  *)
(* and points to it.  It does not when a read failed or the files were     *)
(* refused.                                                                *)
(***************************************************************************)
MemoryReturned ==
  pc \notin {"args", "open", "memory", "read"} /\ mem /= -1 => shape.internal /\ shape.points

\* The pixel p of the source and those n around it in every direction are in the
\* polygon, with their corners.
Around(p, n) == {<<p[1] + i, p[2] + j>> : i \in {-n, n + 1}, j \in {-n, n + 1}}
Inside(p, n) ==
  \A c \in Around(p, n) : In(polygon, <<src.x0 + c[1] * src.dx, src.y0 + c[2] * src.dy>>, TRUE)

\* Some point at most n pixels from p is not outside of the polygon.
Meets(p, n) ==
  LET xs == {src.x0 + (p[1] - n) * src.dx, src.x0 + (p[1] + n + 1) * src.dx}
      ys == {src.y0 + (p[2] - n) * src.dy, src.y0 + (p[2] + n + 1) * src.dy}
  IN  \E x \in Min(xs) .. Max(xs), y \in Min(ys) .. Max(ys) : In(polygon, <<x, y>>, TRUE)

\* Some point inside of pixel p is inside of the polygon.
ReachesInto(p) ==
  \E i \in 1 .. src.dx - 1, j \in 1 .. -src.dy - 1 :
     In(polygon, <<src.x0 + p[1] * src.dx + i, src.y0 + p[2] * src.dy - j>>, FALSE)

Upright(vs) == Len(vs) = 5 /\ \A i \in Edges(vs) : vs[i][1] = vs[i+1][1] \/ vs[i][2] = vs[i+1][2]

(***************************************************************************)
(* The new raster has all the pixels of the source within the area of the  *)
(* polygon, as src/raster-cut.h:7 says.  Those inside of a slanted edge    *)
(* may be lost, as its ends are cut to whole pixels.                       *)
(***************************************************************************)
CutKeepsInside ==
  pc = "closeSource" /\ "dst" \in open => \A p \in PixelsOf(src) : Inside(p, 0) => p \in kept

(***************************************************************************)
(* What holds of it with that rounding of a slanted edge, by up to a       *)
(* pixel: the new raster has, in the place they had, all the pixels inside *)
(* of an upright rectangle, and of another polygon those more than a pixel *)
(* inside, and none further away than one pixel.  It is not larger than    *)
(* the source.                                                             *)
(***************************************************************************)
CutWithinOnePixel ==
  pc = "closeSource" /\ "dst" \in open =>
    /\ dst.width \in 1 .. src.width /\ dst.height \in 1 .. src.height
    /\ \A p \in PixelsOf(src) : Inside(p, IF Upright(polygon) THEN 0 ELSE 1) => p \in kept
    /\ \A p \in kept : Meets(p, 1)

(***************************************************************************)
(* RasterCut() creates the raster that it returns (src/raster-cut.h:25)    *)
(* when some of the source is inside of the polygon.  It creates none for  *)
(* a polygon that is within a column or a row of pixels.                   *)
(***************************************************************************)
CutMakesRaster ==
  pc = "closeSource" /\ (\E p \in PixelsOf(src) : ReachesInto(p)) => "dst" \in open

(***************************************************************************)
(* When the program exits, whichever way, it has closed every file and     *)
(* every data set it had opened, and the mosaic is gone.  (The memory of   *)
(* the shapefile goes with the process: see MemoryReturned.)               *)
(***************************************************************************)
EverythingClosed == pc = "exit" => handles = {} /\ open = {} /\ ~vrt
===============================================================================
