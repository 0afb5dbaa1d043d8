# RasterEditing in TLA+

RasterEditing is a C/C++ library and two command line tools. `RasterToOutline()`
turns the pixels of a GDAL raster that pass a test into polygons;
`RasterCut()` cuts a window out of a raster along a polygon. Shapefiles are
written and read by a parser of its own, and everything stands on the base
library *tinybase*. The modules here model the outline from the values of the
pixels to the list of rings the caller reads, the cutting program from its
arguments to its exit, shapefiles with their attributes, and the files, threads,
paths and directories of the platform layer.

## 1. Inventory

| component | source (`src/`) | state | operations | modelled |
|---|---|---|---|---|
| pixel tests and bleed | `src/raster-outline-testblock.cpp`, `raster-outline.cpp` 75-194 | none besides the two lines of the sweep | `GetBleedValue`, `SetBleedLine`, the `Test...` callbacks | `PixelTest`, `BlockEdges` |
| line sweep | `raster-outline.cpp` 196-277, 395-453 | two lines of pixels, edge list, `ColTable`, `VertexCount` | reading a row, `ProcessSweepLine`, growth of `EdgeMem` | `EdgeSweep` |
| ring walk | `raster-outline.cpp` 466-562 | `Edge`, `Dir`, `TimesChecked`, the rings | start, turn, close, search for the next start | `RingTrace` |
| ring ordering | `raster-outline.cpp` 272-372, 563-640 | tree nodes, `Type` and `Next` of each ring | `IsRingInsideRing`, ordering, linking | `RasterToOutline`, `Outline` |
| ring memory, `BBoxOutline` | `raster-outline.cpp` 466-550, 642-672 | size and fill of `PolyRings`, counters | growth test, pushes, `BBoxOutline`, `FreePolyInfo` | `PolyArena` |
| raster cut | `src/raster-cut.cpp` | two data sets, a mosaic, a window | `CoordToPixel`, `Clamp`, `LoadRastersFromList`, `RasterCut` | `RasterCut`, `CutTool` |
| shapefiles, geometry | `include/geotypes-shp.cpp` | shp and shx buffers, counters of records, parts and points | `AddFeature`, `AddPoint`, `AddPoints`, `AddLinestring`, `AddRing`, `AddPatch`, import, reading | `Shapefile`, `ShapefileReader` |
| shapefiles, attributes | the same | the dbf buffer, its header and sizes | `CreateField`, `AddAttr...`, `GetFieldByIdx` | `DbfAttributes` |
| shapefiles, opening | the same | three handles, one mapping | `OpenAndImportShp` | `CutTool` |
| command line tools | `utils/*.cpp` | command line, output buffers | parse, call the library, write the shapefile | `CutTool`; of the other tool the output buffer (`ShapefileReader`) |
| tinybase memory, strings | `include/tinybase-memory.c`, `tinybase-strings.c` | buffers with a size and a write cursor | numbers to text and back, push, search, replace | the numbers (`DbfAttributes`) |
| tinybase platform (Linux) | `include/tinybase-platform-linux.c` | descriptors, requests, threads, mutexes, semaphores, directory streams | open, read, write, wait, compare, copy; lock, signal; paths; make, list, remove | `PlatformFiles`, `Paths`, `DirTree` |
| tinybase platform (Windows) | `include/tinybase-platform-win32.c` | the same | the same | no: the same interface over other calls |
| tinybase encodings | `include/tinybase-encoding.c` | none | conversion of single characters | no: pure functions of one character |
| vector arithmetic | `include/geotypes-base.cpp` | none | floating-point formulas | no: real-valued, no state |

### How the parts interact

`RasterToOutline()` is one sequential call. GDAL fills the second of two lines
of pixels for every row; `ProcessSweepLine()` lets the test callback of the
data type classify each 2 x 2 block of the two lines into an edge type, pushes
an edge on the edge list and links it through `ColTable` to the edge above. The
walk then goes from edge to edge by index alone (`Edge++`, `Edge--`,
`EdgeList[Above]`, `EdgeList[Below]`) and writes vertices into the ring memory.
The ordering goes over the rings once more, compares each with all others, and
links them into the list the caller iterates over. `FreePolyInfo()` is called
later by the caller with the result alone. `raster-outline-util` passes that
list to the shapefile writer.

`raster-cut-util` opens a shapefile (`OpenAndImportShp()`, which uses the files
of the platform layer), takes its first feature as the polygon, and calls
`RasterCut()`, which makes a mosaic of several sources, creates the destination
and leaves the pixels to GDAL's warper.

The platform layer is used by all of them, and is the only part with threads:
its functions are sequences of system calls on names, descriptors and
directories that other threads and processes use as well.

### What is hard

No part of the outline code, of the cut and of the shapefiles runs in parallel
with another. What is hard there is *distance*: a fact that one line of code
needs is made true by another line many rows, or a whole phase, before. Only
the platform layer has *interleavings*.

* The walk has no bounds check. It trusts that the neighbour in the list is the
  other end of a horizontal line, and that `Above` and `Below` were set by
  blocks scanned rows apart through a table that is never cleared.
* A cross belongs to two passes of the walk, possibly of two rings.
  `TimesChecked` starts at -1 for it; an error there duplicates or loses rings.
* The size of the ring memory is an unsigned difference of two counters, one
  kept by the sweep and one by the walk.
* Every allocation may fail in between, and a read may fail, too, unobserved.
* Nesting is found in one pass in memory order and by a ray that runs along
  lines of the grid, with either sign of both pixel sizes.
* Bleed: pixels outside the raster must fail the test in every data type.
* A shapefile is three files whose lengths and offsets are counted by different
  functions, and read by none of the ones that wrote them.
* In the cut, the result of `GDALCreate()` and of the warper is not looked at:
  what comes after has to bear a data set that is not there. A file that is
  missing has a size, and its read succeeds.
* A read is the size, the position and the bytes; a copy is up to eight system
  calls; what another thread does in between, and the number of a descriptor
  used again, decide what is read.
* `RemoveDir()` removes entries while it lists them, and `MakeDir()` makes one
  directory after the other: both have to come out right beside another process.

`PROJECT.json` lists these and the hazards of the other components at their lines.

### What makes each component correct

* *pixel tests*: the type of every block is that of the documented condition,
  nothing outside the raster passes, and the bounding box is returned only if
  every possible pixel passes.
* *line sweep*: the list holds exactly the corners of the selection, every line
  can be followed from both ends, and no edge is pushed outside the memory.
* *ring walk*: no `Assert` fails, each line belongs to exactly one ring, and as
  many vertices are written as the sweep counted.
* *ring ordering*: outer rings less inner rings cover the selected pixels once
  and no others; each inner ring is listed behind the ring it is a hole of.
* *ring memory*: no push goes beyond it; what was mapped is unmapped.
* *raster cut*: the destination has the pixels of the polygon in their place, and
  whatever fails, everything that was opened is closed.
* *shapefiles*: the lengths and counts in headers agree with what is written,
  and what is written is read back.
* *platform*: a read gives the bytes of the file its caller opened, a copy is
  complete or fails, every call ends; a path means what was appended to it, and
  nothing outside of a tree goes when it is removed.

## 2. Modules

    BlockEdges ---- EdgeSweep ---- RingTrace ---- RasterToOutline ==> Outline
        |               |                               |
        |         EdgeSweepProofs -- RingGeometry -- OutlineProofs
    PixelTest, PolyArena -- TestAndArenaProofs
    Shapefile -- ShapefileReader -- ShapefileProofs        DbfAttributes
    RasterCut -- CutTool -- CutToolProofs
    PlatformFiles -- PlatformFilesProofs
    Paths -- DirTree
    FiniteIntegers: lemmas of all ...Proofs but those of EdgeSweep

(A line is EXTENDS, the arrow is the refinement.)

**BlockEdges**: the classification of a 2 x 2 block by the corner that differs
from the other three, and the directions in which the outline leaves each type.

**PixelTest** models what the sweep takes for granted: from patterns of bits to
booleans. A pixel of an integer type is a pattern of `Bits` bits and is compared
unsigned, whatever the data type, as the callbacks do; a double is counted in
halves so that values between two pixels exist. Actions: `UseBBox` or
`FillLines` (`GetBleedValue`, `SetBleedLine`), `ReadBands` (the interleaved
bands of one `GDALDatasetRasterIO`), `LastLine`, `NextLine`. The blocks of the
lines are then compared with the comments of `enum test_type`: a pixel is
eligible when the condition holds on each of its bands.

**EdgeSweep**: the sweep with pixels as booleans. `ReadRow` has two outcomes:
the row is read, or the read stops after some pixels and, as the code ignores
the result, the line keeps those of the row before. `SkipBlock` and `AddEdge`
are one iteration of `ProcessSweepLine()`, with the growth of `EdgeMem` inside
`AddEdge`, and `GrowFails` the early return. `EndLine` is the copy of the second
line over the first. `misread` remembers that a row was not read; no step looks
at it. Indices are those of the code's list, with its stub at 0.

**RingTrace** continues it (`tracePc` waits for the sweep): `BeginRing`,
`WalkOn` for one turn, `CloseRing` for the turn that comes back and the search
for the next start, `RingMemoryFails` and `NoOutline` for the returns of the
empty outline. Where the code would stop in `Assert(0)` the walk has no step,
and `NoAssert` says that this state is never reached.

**RasterToOutline** is the whole call: `OrderRing` orders one ring,
`LinkOuter` and `SkipInner` handle one tree node of the linking pass. Rings are
numbered in memory order, which is how `GetNextTreeNode()` goes. Vertices are
scaled by the signs of the affine transform only: no comparison of the code
depends on more than that. Once the call has returned, or an `Assert` has
stopped the program, `CallOver` stutters; any other state without a step
would be reported as a deadlock.

**Outline** is the abstract specification: a call ends, with the outline that
covers exactly the selected pixels once, or with the empty outline when nothing
is selected, an allocation failed or a row could not be read. `RasterToOutline` implements it under the
mapping `Promise` (`status` from the control state, `cover` from the rings).

**PolyArena** counts the ring memory in bytes with the sizes of the structures
of a 64-bit build, for every division of the vertices into rings, and the one
ring of `BBoxOutline()`. It ends with `FreePolyInfo()`, which knows only the
counts. It does not depend on the geometry, so that its theorems hold for every
outline.

**Shapefile** is the writer. The `.shp` file is a memory of numbers at byte
offsets, so that parts, blocks of Z and M values, and features can run into each
other if an offset is wrong; the `.shx` records, both headers and the counters
of the `.dbf` file are kept as records. One action per call: `CreateField`,
`AddFeature`, and in `AddPart` one disjunct for each `Add...()` of a geometry. The
four that add several vertices share `AddVertices`, as they share their text in
the code. The caller keeps to `geotypes-shp.h` (it announces the numbers of parts and
points, finishes a feature before the next, and has room enough), except that it
may repeat the last call of a feature: `AddRing()` and `AddLinestring()` refuse it
and have counted it (`RefusePart`), the others write it.

**ShapefileReader** reads that memory by the counts found in it and not by those
announced, as `ImportShp()`, `GetFeature()` and `GetGeometry()` do, and states the
properties of both halves.

**DbfAttributes** is the third file. The characters behind its header are a
sequence, so that a record that starts one character late shifts every field.
`CreateField`, `AddFeature`, one action for each `AddAttr...()` and type of field;
`AddAttrReal()` on a Real field is three (`BeginReal`, `ScaleReal` for one round of
the loop that scales the number, `EndReal`), because that the loop ends is a
question of its own. Numbers are `<<m, k>>` for m * 10^k, exact. The reader is
`GetFieldByIdx`, with the conversions of `tinybase-strings.c`.

**RasterCut** holds the geometry of the cut as operators in integer coordinates:
cutline, window, destination, and which pixels are kept. The warper is GDAL's, and
external: a pixel is kept when its centre is inside of the cutline.
**CutTool** is the program around it, one action for each part that may fail, and
each with the outcomes of a file that is missing, locked or a directory, a read
that fails or stops, a data set GDAL does not open, create or warp. A file without
a size is read with success (`ReadFiles`: the -1 of `read()` is the USZ_MAX that
was asked for), and only the counts of records in `ImportShp` stand in the way.

**PlatformFiles** has one action per *system call*, and a program counter in each
thread (`thr[t].ip` for the call, `pc` for where in it). Descriptors are given
out lowest first, as the kernel does, and may be any free one's number again; inodes
are kept apart from names, so that a file removed or truncated while it is open is
what it is in Linux. What is no regular file, and a closed handle, has the size
`UszMax`, and a system call that fails returns the same number, as -1 does in a
`usz`. Threads run programs given as a constant, since which calls meet is a choice
and not a result of the code.

**Paths** is the text of paths, `AppendPathToPath()` and `MoveUpPath()`, and
what the kernel makes of a path (`Walk`). **DirTree** has the directories: one
action per `mkdir`, `opendir`, `readdir`, `unlink` and `rmdir`, with the recursion of
`RemoveDir()` as a stack of frames. While a stream is open, `readdir` returns
every entry that was there all the time, in any order, and may or may not return
one that came or went meanwhile (`CanList`, `MustList`).

## 3. Runs

| run | instance | states | shows |
|---|---|---|---|
| `outline_all` | all 3 x 3 rasters, any read cut short, any allocation refused, 2 edge slots at first | 46 496 | `EdgesAreCorners`, `LinksClosed`, `EdgesFit` for the sweep, `NoAssert`, `VertexCountRight`, `RingsShareNoLine` for the walk |
| `outline_nested` | rasters of 7 x 7: every 3 x 3 pattern in the middle, alone or in the hole of a frame, which may touch it at a corner; every row read, any allocation refused, both axes mirrored against `outline_all` | 183 240 | `ListIsNested` for three levels of nesting, and `KeepsPromise`, the refinement of the whole call with its liveness |
| `outline_misread` | that of `outline_all` | | **violated**: `KeepsPromise` |
| `arena` | 4 to 64 corners in rings of 4, 6, 12 or all that is left, pages of 64 bytes | 4 793 | `VerticesFit` and `ShortByOneVertex` through several growths; `FreesAllRings` |
| `arena_node` | 3828 corners, the real sizes | | **violated**: `NodesFit` |
| `pixels` | rasters of 1 x 2 of 2-bit pixels, bytes on one or two bands, or floats from -1 to 1 in halves; all tests; values in, between and beyond those of the pixels | 829 112 | `ServedBlocksAsDocumented`, `BBoxMeansAll` |
| `pixels_signed` | signed pixels | | **violated**: `BlocksAsDocumented` |
| `shapefile` | all 13 types, two features of none, one or two parts with and without M (or Z), rings of both orientations, a part too many for any feature, at most one field | 90 261 | `GeometryImports`, `FeaturesReadBack`, `RingsOriented`, `BoxesCover`, `ToolBufferFits` |
| `attributes` | three layouts with fields of all types, two records, three calls with values that fit, do not, or are of another type, 0 and powers of ten among them | 44 501 | `RecordsInPlace`, `TypedFieldsReadBack`, `OtherRealsTruncated`; `OtherCallsReturn` under fairness |
| `files` | ten programs of two or three threads, two or three files and a directory, three descriptors besides the shared one, buffers of two bytes, any mapping refused | 52 727 | `OrderedReadsExact`, `FileCopyComplete`, `EqualityDecided`, `NothingLeaks`, `LostOnlyByCopy`; `OthersEnd` under fairness |
| `dirs` | two processes, three trees of up to three levels, paths of up to two parts of eight | 325 565 | `PathsDenote`, `RelativeMakesTree`, `RemoveDirEmpties`, `OnlyBelow` |
| `raster_cut` | two rasters of 4 x 3 and 5 x 3 pixels, triangles and rectangles over, beside and within one of their pixels, shapefiles with any file missing, a directory or short, every call failing | 144 856 | `ShapeWhole`, `CutWithinOnePixel`, `EverythingClosed` |

### Why the bounds are enough

* 3 x 3 pixels have 16 vertices, every type of edge in every row and column of
  the grid, diagonal contacts, and one hole; every block and every
  pair of neighbouring blocks occurs. What a single row or column passes to the
  next is then covered; the theorems of section 5 lift `LinksClosed`, `EdgesFit`
  and the types to every size.
* 7 x 7 is the smallest frame with a hole, an island in the hole and a hole of
  the island, at a distance and with diagonal contacts. Without the frame the run
  has all 3 x 3 rasters once more, in the middle of nothing. All rows are read in
  it: what happens otherwise is finding 2.
* Two bits have a lowest, a highest and two inner values and a sign. Values are
  counted in halves: those in the run lie on the pixels, between them, at the ends
  and beyond. Two bands are the smallest number for which a step between bands exists.
* Two features of two parts are the smallest file in which a part, a block or a
  feature lies before and behind another; parts have one to five vertices, so
  that no two offsets coincide by chance. Two records and up to four fields do
  the same for the attributes; three calls are enough to write a field twice and
  another between.
* The `arena` run has small pages so that growth happens within 64 corners;
  `StartSize >= PageSize + RingSize` holds for the code's constants and is the
  only relation between them that the argument needs. In `arena_node` page and
  start size are those of the code.
* The programs of `files` are those in which calls can meet: a copy beside reads
  of its source, two copies to one destination, a comparison beside a copy, a
  shared handle under the mutex, a file passed on by a semaphore, an asynchronous
  read, a file removed while it is opened, a directory that is copied, removed and
  read; and reads at the end of a file, of a closed file, and behind what the buffer
  has. With four descriptors one that is closed is soon given out again. `UszMax`
  stands for USZ_MAX and is only compared.
* Three levels of directories are the smallest tree in which `RemoveDir()` calls
  itself from a call of itself. The two processes are symmetric (`SYMMETRY`; the run
  has no liveness property).
* In `raster_cut` a pixel has 4 x 4 units, so that vertices lie at its corners and
  inside; `UszSize` is small, and the sizes of missing files wrap as USZ_MAX does. The
  two files that are there then lie in a memory that is too small by a byte, followed
  by the zeros of its last page; a read that begins a byte before the mapping fails or
  goes over another mapping, and the run follows both.

Deadlock is checked in all runs but `attributes`, `dirs` and `raster_cut`: there
the caller, the processes and the program come to their end. In `RasterToOutline` and `PlatformFiles` the end is a step that stutters, so that any
other state without a step would be reported.

### Fairness

* `RasterToOutline`: `WF_vars(Next)`. One thread runs the call, no step waits for
  anything, so the program goes on as long as it can. That the walk closes and
  the search ends is therefore a property of the code and not of the scheduler.
* `DbfAttributes`: `WF_dbfVars(ScaleReal \/ EndReal)`: a call that has begun goes
  on. The caller need not call anything.
* `PlatformFiles`: weak fairness of each thread's steps and of the completion of
  its request. Linux runs every thread that can run, and completes every
  request. Weak fairness gives the mutex and the semaphore to a thread only if
  they stay free; the programs take each a bounded number of times, and no
  starvation is possible in them.

The other specifications state no fairness; only safety is checked of them.

## 4. Findings

Three runs end in a counterexample on purpose:

1. *The last tree node may not fit* (`raster-outline.cpp:549`, run `arena_node`).
   `RequiredRingSize` does not ask for the repeated first vertex. In most states
   the slack of the start size hides it, or the memory grows in time. In the run,
   912 rings of four corners and then one ring of the remaining 180 corners have
   used 126944 of 126976 bytes when the node of that ring, 40 bytes, is pushed, and
   `Assert(0)` is reached. The theorem `NodeShortByOneVertex` says that it is never
   worse than this.
2. *A row that is not read is not noticed* (`raster-outline.cpp:435`, run
   `outline_misread`). `raster-outline.h:79` promises "all the outlines, or empty if
   failure"; the line keeps what it had, and the outline returned is that of pixels
   that are not in the raster.
3. *Signed pixels* are given to the unsigned callbacks
   (`raster-outline-testblock.cpp:683`, run `pixels_signed`): a negative one is bigger
   than every positive value.

### Claims of the header files that do not hold

The modules also state what the header files and comments say where the code does
otherwise, each as a definition of its own. The runs check the weaker property in
the last column, which leaves out the case that is named and nothing else. Put as
INVARIANT or PROPERTY in place of those of the run's `.cfg`, TLC refutes each of
these claims in seconds.

| claim | run | what the code does | what is left of it |
|---|---|---|---|
| `BlocksAsDocumented` (`raster-outline.h:40`, `:75`) | `pixels` | besides the signed types: `NotEqual` selects a pixel that differs on one of its bands (`raster-outline-testblock.cpp:46`), and the fraction of a value is dropped for integer pixels, so that 0 equals 0.5 (line 64) | `ServedBlocksAsDocumented`: the calls that are `CallIsServed` |
| `FreesWhatWasAllocated` (`raster-outline.h:90`) | `arena` | `FreePolyInfo()` computes the size from its counts (`raster-outline.cpp:670`): of a bounding box, which got 4096 bytes, it unmaps 69632 | `FreesAllRings`: never less than was written |
| `FilesImport` (`geotypes-shp.h:25`) | `shapefile` | a last feature without geometry is not in the length of the `.shp` file, and `ImportShp()` refuses the files (`geotypes-shp.cpp:875`); behind an earlier one the reader is four bytes early | `GeometryImports`: files without such features |
| `FieldsReadBack` (`geotypes-shp.h:275`) | `attributes` | `AddAttrReal()` writes to an Integer field, which then holds neither number (`geotypes-shp.cpp:1453`) | `TypedFieldsReadBack`: fields that this call was not made for |
| `RealsTruncated` (`tinybase-strings.c:707`) | `attributes` | 10, 100 and so on are scaled to 10 and not to 1; the digit is the character behind "9" (line 736) | `OtherRealsTruncated`: all other numbers |
| `RealsReadBack` (`geotypes-shp.h:210`) | `attributes` | the loop that skips blanks skips the sign or the first digit (`geotypes-shp.cpp:740`), and the "+" of an exponent is an error to `StringToFloat()`: 2.5 is read as DBL_MAX | none: `OtherRealsTruncated` says that the characters in the file are right |
| `CallsReturn` (`geotypes-shp.h:277`) | `attributes` | 0 is multiplied by ten until it is not less than 1 (`tinybase-strings.c:732`) | `OtherCallsReturn`: all other numbers |
| `CopyComplete` (`tinybase-platform.h:229`) | `files` | the copy of a directory reports success: its size and the -1 of `copy_file_range()` are both USZ_MAX (`tinybase-platform-linux.c:394`) | `FileCopyComplete`: sources that are files |
| `TransferCounted` (`tinybase-platform.h:203`) | `files` | a failed request is answered with USZ_MAX bytes (line 339) | none |
| `ReadsExact` (`tinybase-memory.h:44`) | `files` | `ReadFileAsync()` puts the bytes at the start of the buffer and moves the cursor behind what the buffer had (line 275) | `OrderedReadsExact`: threads that read asynchronously first, and got all they asked for |
| `AllEnd` (`tinybase-platform.h:203`) | `files` | without blocking, a transfer of 0 bytes, as at the end of a file, is answered like one that is not ready (line 337), and the caller asks for ever | `OthersEnd`: threads that do not ask so |
| `WaitSucceeds` (`tinybase-platform.h:562`) | `files` | the 0 of `sem_wait()` is returned as it is, which is false (line 946) | none |
| `MakeDirMakesTree` (`tinybase-platform.h:328`) | `dirs` | the part in front of the first slash of an absolute path is empty, and nothing is made (line 618); behind a last slash the last directory is there already, and false is returned | `RelativeMakesTree`: relative paths without a slash at the end, and paths of which only the last directory is missing |
| `RemoveDirReturns` (`tinybase-platform.h:342`) | `dirs` | the null of `opendir()` goes to `readdir_r()`: a directory that is not there crashes the process (line 652) | `RemoveDirEmpties`: it crashes nowhere else |
| `ImportsThreeFiles` (`geotypes-shp.h:188`) | `raster_cut` | a `.shp` without features is imported without its `.dbf`, the read of which succeeds | `ShapeWhole`: polygons with features |
| `MemoryReturned` (`geotypes-shp.h:186`) | `raster_cut` | when a read fails or the files are refused, nobody has the memory (`geotypes-shp.cpp:522`) | none: `EverythingClosed` is about files, data sets and the mosaic |
| `CutKeepsInside` (`raster-cut.h:7`) | `raster_cut` | vertices are cut to whole pixels (`raster-cut.cpp:18`), and a slanted edge moves over the centre of a pixel that lies inside | `CutWithinOnePixel`: pixels further inside |
| `CutMakesRaster` (`raster-cut.h:25`) | `raster_cut`, with `CreateMayFail = FALSE` | the window of a polygon within one column is no pixels wide, and there is no raster (line 119) | none |

### Exceptions that the properties name

* A ring that starts at its lowest vertex counts as an inner one whichever way it
  goes (`RingsOriented` speaks of the other rings).
* A part added without M widens the range of M by DBL_MIN (`BoxesCover` says that
  the ranges hold what was given).
* A String written over a longer one keeps the end of that (`TypedFieldsReadBack`).
* `DuplicateFile()` closes its source twice, and may close a descriptor another
  thread has just opened (`LostOnlyByCopy`: only this call can).
* `FilesAreEqual()` says false of two empty files, and keeps one of its two
  buffers when the other is refused (`EqualityDecided`, `NothingLeaks`).
* `RemoveDir()` that fails on an entry leaves its streams open (`DirsTypeOK` counts
  them).

## 5. Proofs

All theorems are for every value of the constants that the ASSUMEs allow; a
theorem that needs more names it as a hypothesis. What a property says is at its
definition; here is the argument.

*Sweep* (`EdgeSweepProofs`)

* `SweepTypeCorrect`. `SweepTypeOK` is inductive by itself; a table entry stays an
  index of the list because the list only grows.
* `EdgesAlwaysCorners`. `EdgesAreCorners` speaks of the end of the sweep; the
  invariant `CornerInv` says the same of the vertices scanned so far, and that the
  window of two lines shows the rows around them (`WindowInv`). Order and
  uniqueness come from `Precedes`, the order of the scan.
* `LinksAlwaysClosed`, `EdgesAlwaysFit`. The invariant `LinkInv` says what holds in
  the middle of a row. `Pending` is the set of columns whose vertical line has been
  opened and not yet closed: those where the pixels left and right differ in the
  last row scanned there (the second line left of `col`, the first from `col` on).
  For exactly these the table must hold an edge with a line below it that is linked
  to nothing (`ColTableInv`, `BelowInv`); what the table holds for other columns does
  not matter, and this is why it need not be cleared. `OpenRight` is the horizontal
  line the scan has just passed. `BleedInv` closes everything at the borders.

*Whole call* (`OutlineProofs`)

* `CallSweeps` (`Spec => SweepSpec`): a step of the whole call is a step of the sweep
  or changes none of its variables; `CallLinksClosed` and `CallEdgesCorners` carry the
  theorems over.
* `CallTypesCorrect`: `TypeOK` with the place of the walk (`WalkInv`) and of its start.
* `WalkNeverStuck`, `RingsNeverShareLine`, `VerticesNeverMiscounted`: the walk is right on
  every raster, from `RingInv` and `VisitInv`. In a raster where regions touch at
  corners it is not obvious at all that a later ring starts at a corner with a
  line to the right, nor that a walk which turns right at every cross never turns
  into a line of an older ring. Both are statements about the whole plane. Instead of
  a theorem about curves, pictures prove them (`RingGeometry`):

  1. The finished list is the outline of the selected pixels (`SweptOutline`, from
     the theorems of the sweep): between two neighbouring pixels of different
     colour there is exactly one line, and none between equal ones (`VSidesAll`,
     `HSidesAll`).
  2. A set `M` of lines with an even number of ends at each corner (`Even`) bounds
     a picture `X` of its own: a pixel's colour changes exactly across the lines of
     `M` (`PictureExists`, `Bounds`). It is built row by row; the even corners make
     the columns agree with the rows.
  3. `TimesChecked` tells which lines at an edge have been walked: none, all, or,
     on a cross visited once, the two of one turn (`Fits`). So the lines of the
     closed rings are even (`CountedEven`).
  4. Along a walk the pixels on its right keep their colour in `S` (`PathRight`). In
     `X`, both sides of the new walk have one colour, and not that on the
     right of the walk in `S` (`PathColour`, from the first start, above which `X` and
     `S` agree: `RowAbove`); beside the lines of `M`, `X` and `S` agree
     (`RingAgrees`). At a cross whose other turn is in `M` the pixel in the turn is
     beside both: a contradiction (`OldRingsApart`).
  5. A walk that meets itself at a cross cannot turn into itself either, since the
     pixels around a cross alternate (`TurnIsNew`). So each step takes a line no
     ring has, and a walk is back at its start only when it comes up the line that
     the start leaves down (`ArrivalAtStart`).
  6. Above and left of the start everything is walked, so a start with
     `TimesChecked` 0 has its lines to the right and down free (`StartIsNew`).

  `Between` and `OnRing` say this of the state between rings and on one. They were
  checked with TLC on every 4 x 4 image before they were proved. The vertices:
  `CountInv` says `VertexCount` is the sum over the edges of how often each must be
  visited, `VisitInv` that the vertices written are the sum of the visits; no edge
  is visited too often, and at the end none too rarely (`CountsAtTheEnd`).

*Ring memory* (`TestAndArenaProofs`)

* `ArenaTypeCorrect`, `VerticesAlwaysFit`, `NodeShortByOneVertex`, `RingsAlwaysFreed`.
  `ArenaInv` has two counts: the fill of the memory in terms of rings and vertices
  written, and a bound of the bytes of headers and nodes by `ringData`. Both are
  needed since the grown memory is not compared with what the ring requires: that
  one start size is enough follows from the bound and from
  `StartSize >= PageSize + RingSize`. The same bound, with the counts that
  `FreePolyInfo()` starts from, gives a lower bound of what is unmapped, and
  `RingsAlwaysFreed` is no more than that; `BBoxOutline()` has a lemma of its own.

*Pixels* (`TestAndArenaProofs`)

* `BBoxOnlyWhenAll`, `ServedCallsMatchDocumentation`, for any width of the type and of
  the raster and any number of bands. `PowerAssumption` is what the model's table of
  powers of two must say, since an exponential is recursive. The second theorem has no
  hypothesis: which calls are served is a part of the property (`CallIsServed`), and
  TLC refutes the property without it in each of the three cases. A fraction does no
  harm where the test is BiggerThan or LessOrEqualTo. `LinesInv` is what the two lines
  hold after each step; that the bleed value fails each test is one lemma per test.

*Cut* (`CutToolProofs`)

* `ToolClosesEverything`, from `ClosedInv`: which files, data sets and mosaic are open
  at each point of the program. The memory of the shapefile is not in it.
* `ToolReadsWholeShape`, from `ShapeInv`. The reads of missing files succeed
  (`ReadFiles`), so that it takes what `ImportShp()` compares: where a file has no size
  it counts -13 records in the `.shx`, or none in the `.dbf`, and a shapefile with
  features has neither number (`ImportedIsWhole`). When all three sizes are there, all
  three reads were made, and the sum does not wrap (`SizesDoNotWrap`).
* `CutKeepsPlace`, `CutCopiesWindow`, from `RasterInv`: floor and ceiling are in the
  raster after `Clamp()`, whatever the vertices of the polygon. `ToolAssumption` says
  that rasters have pixels and polygons vertices.

*Shapefiles* (`ShapefileProofs`), for any types, parts, features and fields

* `ShpTypeCorrect`, `ToolBufferAlwaysFits`, `GeometryAlwaysImports`, from `ShpInv`. Its parts:
  `CallsInv` (who has been called how often), `RecordsInv` (each record begins where
  the one before it ends, by the length in the `.shx` file and by that in the record
  itself), `LastInv` (the last record ends with the file, where its counts say),
  `HeadersInv` (the `.shx` and `.dbf` sizes follow the number of features), `CellsInv`
  (no cell outside of the file) and `CountsInv` (the counters of points and parts in the
  record are those of the parts added). The last is needed because the writer places
  each part by counters that it reads back from the file: they must survive what every
  call writes, and this is `RecordWritten`, which goes through the writes one by one with
  the order of the blocks in the record (`Layout`). A part too many lets the points be
  twice those announced, and the record longer, but changes nothing before the record.
  `PartKinds` reduces the six `Add...()` to a point, vertices, and a refusal.
* `GeometryAlwaysImports` follows the chain of records by induction (`PtrFacts`). A
  record without geometry has no length yet; files with one are left out of the
  property. (The lemma `ImportsUnlessLastIsNull` decides the case of a last one.)
* `BoxesAlwaysCover`, from `BoxesInv`: the box is the smallest around the parts that
  were added (`Added`), and that of the last record, which is read back and widened by
  the next part, lies inside. Reversing a ring keeps its values (`Reversed`).
* `FeaturesAlwaysReadBack`, from `ReadInv`: of every feature, the parts that have been
  added are in the file (`RecordThere`: the counters, the index and type of each part, and
  each vertex with its Z and M), and the record of a whole one ends before that of the
  next. It is not enough that the parts are right when they are written. A call
  writes the header of its record, the box, the counters, the index, the points and the
  ranges and values of Z and M, each where the numbers announced say: `RecordLaid` shows
  that all of it is where the layout has it and that nothing lands in the parts before
  (`BlocksKept`, `IndexKept`), by the order of the blocks again (`Placed`);
  `EarlierKept` that the records before stay. Of a feature with a part too many nothing
  is said, it is not `Whole`: that call writes into the record, or counts a part that
  is not there, but it must leave the other features as they are. For the reader,
  `PartIndex` shows that the end it takes for a part, the index of the next one or the
  number of points, is the end it was given, and `Flattened` that the one part of a
  multipoint is the points of all calls in a row.

*Files and threads* (`PlatformFilesProofs`), for any threads, programs and files

* `DescriptorsOwned`, `OnlyCopyTakes`, from `FilesInv`. `OwnInv` is the core: the
  descriptors of a thread that has lost none are open, and nobody else has them.
  The kernel gives out only free ones; a thread closes what it has, but for the
  second close of `DuplicateFile()`, which may hit another's.
* `ReadsTakePlace`, `ReadsAreExact`: the bytes of a read are those of the file that
  was opened. The position belongs to the descriptor, so `lseek()` and `read()` are
  safe for one's own descriptor by `OwnInv`, and for the shared one by the mutex:
  `AllGuarded` is the hypothesis that programs take it before each use, and `MutexInv`
  that one thread has it. `PlaceInv` says where the position is between the calls,
  `ExactInv` what the buffer holds. `ReadsAreExact` excludes asynchronous reads
  (`NoRequests`): one goes to the start of the buffer and moves the cursor behind its
  end. Most of the programs of run `files` read synchronously, and all are guarded; what
  the run checks of the others is `OrderedReadsExact`.
* `NothingStaysOpen`, for programs that are `AllTidy`: they close what they open, open
  a handle again only when it is closed, and compare at most once (a second comparison
  forgets the buffer that the first left). `PlacesInv` is the core: every descriptor
  that is open is in a handle or a local of some thread (`KnownInv`), the locals are
  set only between the points of `DuplicateFile()` where it has them (`LocalsInv`), and
  a handle only where the program has it open (`SlotsInv`). This is by no means
  clear from `OwnInv`, which says that what is held is open, not that what is open is
  held: each failure between two `open()` calls must be gone through. `MapsInv` counts
  the mappings by the buffers that are not empty. All programs of `files` are tidy.
* `ComparisonsAreRight`, under `ComparisonsUndisturbed`: nobody writes the two files
  between the first read and the last look at the buffers. It holds for each
  thread that itself has lost no descriptor, whatever became of others: its handles
  are still of the inodes it opened (`HandlesMeant`).
* `CopiesAreWhole` (`FileCopyComplete`: sources that are files, for of others the count
  and the size are both USZ_MAX), under `CopiesUndisturbed`: nobody else writes either file while both
  are open. `CopyOf` follows the call: positions are 0 because the descriptors are new
  and nobody else uses them, the destination is empty however it was opened, and so
  a count equal to the size means all bytes, in place (`WholeCopied`). Another thread
  that holds a descriptor it has lost could move the position of the copy's, so here
  nobody may have lost one. Both hypotheses are true of all programs of `files`; without
  them the functions promise nothing, as they take no lock on files.

Induction over the integers is used as the principle of the least number
(`FiniteIntegers`), since the induction theorems of the library cannot be
instantiated here; the maximum and minimum of finite sets come from it as well, and so
does the existence of a sequence defined step by step (`Recursion`), by which the
recursive functions `SumTo` and `RecordPtr` are shown to be what they should. Sums over
the edges and over the rings are compared term by term (`SumCompare`).

Only model-checked:

* `ListIsNested` and the refinement `KeepsPromise`: they compare rings with each other by
  counting the lines that a ray meets, an induction over the vertices of each ring,
  and need that each ring alone bounds a connected region, the Jordan curve theorem
  for grids. Not attempted.
* `CutWithinOnePixel`: the rounding of slanted edges.
* `RingsOriented` of `ShapefileReader`: it is about the area of a polygon.
* The properties of `DbfAttributes`: the width of every number and its characters come
  from powers of ten (`NumberOfDigits`, `Digits`), of which the backends know no
  facts, and to supply them is an induction over the exponent.
* The properties of `DirTree`: even its type invariant needs that the components of
  every path are names, through all operations on paths. Not attempted.
* Liveness (`Ends` in `KeepsPromise`, `OtherCallsReturn`, `OthersEnd`), which is out of the
  prover's reach.

## 6. Not modelled

* *Outline*: floating-point rounding, infinities and NaN; the address
  arithmetic of the sweep's memory (`RequiredSize` is 32 bits wide, `ColTable` one
  entry short) and what the early returns leak;
  the coordinates of the vertices of `BBoxOutline()`, and its `Next` and `Type`,
  which it does not set. GDAL: a read fills the line, or stops somewhere.
* *Cut*: projections, no-data values, options of the drivers. `raster-cut-util`
  returns 0 also when `RasterCut()` has failed, so its result says nothing.
* *Shapefiles*: files of 2 GiB and more (`ShpFileSize` is an `i32`); files of other
  programs; `GetFieldByName()`, which compares 8 bytes of the name with 11 of the
  field and finds none; `CloseShp()`, which the tools do not call (it frees
  nothing when the import refused the files); calls against `geotypes-shp.h`
  other than a repeated one; Real fields of fewer than 8 characters, for which
  `AddAttrReal()` writes blanks without end: they are outside of the inputs, and
  listed as a hazard.
* *Tools*: `ParseArgs()` of `raster-outline-util`, a loop over the command line
  that compares a number with INF64 where `StringToFloat()` returns DBL_MAX.
* *Memory and strings*: the searches, `ReplaceByteInBuffer()` and text in several
  encodings: functions of their arguments, without state.
* *Platform*: `WriteFileAsync()`; requests for 0 bytes (one at the end of a file, which
  gets none, is modelled); entries that are no files or directories, of which
  `ListFiles()` takes sockets and block devices for directories; the time between the
  two `open()` calls of FORCE_OPEN in other processes;
  `FileLastWriteTime()`; hidden files; `DuplicateFile()` of a file onto itself
  with overwriting, which empties it; `KillThread()`; `ChangeFileLocation()`; links and
  permissions; paths too long for the buffer, with which `RemoveDir()` calls itself
  on the same directory; processes, time, scheduling and system information.
* The components marked *no* in section 1.

## 7. Plan

What would come next, in this order:

1. *Proofs*: `DirsTypeOK` of `DirTree`, with an invariant on the components of paths,
   then `OnlyBelow`.
2. *Pipeline*: the rings of `RasterToOutline` as the features of `ShapefileReader`.
3. *Sweep memory* in bytes, 32 bits wide, with what the early returns leak.
4. *Buffers and strings*: the searches in their plain and vector forms against a
   definition of the first occurrence.
