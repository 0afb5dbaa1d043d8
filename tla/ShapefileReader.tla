---------------------------- MODULE ShapefileReader ----------------------------
(***************************************************************************)
(* The other half of include/geotypes-shp.cpp: what ImportShp(),           *)
(* GetFeature() and GetGeometry() make of the files, compared with what    *)
(* the caller of the writer gave.                                          *)
(***************************************************************************)
EXTENDS Shapefile

\* Where the loop of ImportShp() is after k records, and that it ends after n.
RecordPtr[k \in Nat] ==
  IF k = 0 THEN HeaderSize
  ELSE LET r == RecordPtr[k-1] IN r + RecordSize + 2 * At(shp, r + 4)

ShpNumRecordsIs(n) ==
  /\ RecordPtr[n] >= 2 * header.length
  /\ \A k \in 0 .. n-1 : RecordPtr[k] < 2 * header.length

ShxNumRecords == (2 * shxHeader.length - HeaderSize) \div RecordSize
DbfReadSize   == 33 + 32 * Len(dbf.fields) + DbfRecord(dbf) * dbf.records

\* ImportShp() accepts the three files, of the sizes that were saved.
Imports ==
  /\ 2 * header.length =< shpSize
  /\ 2 * shxHeader.length =< HeaderSize + RecordSize * Len(shx)
  /\ DbfReadSize =< dbf.size
  /\ ShpNumRecordsIs(ShxNumRecords) /\ ShxNumRecords = dbf.records

\* The index behind the last point of part i.
EndOfPart(c, i, numParts, numPoints) ==
  IF i = numParts THEN numPoints ELSE At(shp, PartsAt(c) + 4 * i)

\* GetFeature() and _ReadRecordInfo(): the content of feature k, and its counts.
ContentOf(k)   == 2 * shx[k].offset + RecordSize
TypeOf(k)      == At(shp, ContentOf(k))
NumPartsOf(k)  == CASE TypeOf(k) = 0 -> 0
                    [] TypeOf(k) \in PointTypes \cup MultiPointTypes -> 1
                    [] OTHER -> At(shp, NumPartsAt(ContentOf(k)))
NumPointsOf(k) == IF TypeOf(k) \in PointTypes THEN 1
                  ELSE At(shp, NumPointsAt(TypeOf(k), ContentOf(k)))

\* GetGeometry() of a point, and of every other type, with the values that the
\* type does not keep as NoData.
GetPoint(k) ==
  LET at(n) == At(shp, ContentOf(k) + 4 + 8 * n)
      t     == TypeOf(k)
  IN  [type |-> 0,
       verts |-> << <<at(0), at(1), IF HasZ(t) THEN at(2) ELSE NoData,
                      IF ~HasM(t) THEN NoData ELSE IF HasZ(t) THEN at(3) ELSE at(2)>> >>]

GetGeometry(k, i) ==
  LET c      == ContentOf(k)
      t      == TypeOf(k)
      n      == NumPartsOf(k)
      points == NumPointsOf(k)
      first  == IF t \in MultiPointTypes THEN 0 ELSE At(shp, PartsAt(c) + 4 * (i - 1))
      end    == IF t \in MultiPointTypes THEN points ELSE EndOfPart(c, i, n, points)
      xy(j)  == PointsAt(t, c, n) + 16 * j
      value(block, j) == At(shp, block + 16 + 8 * j)
  IN  IF t \in PointTypes THEN GetPoint(k)
      ELSE [type  |-> IF t = MultiPatch THEN At(shp, PatchTypesAt(c, n) + 4 * (i - 1)) ELSE 0,
            verts |-> [j \in 1 .. end - first |->
                         <<At(shp, xy(first + j - 1)), At(shp, xy(first + j - 1) + 8),
                           IF HasZ(t) THEN value(ZBlockAt(t, c, n, points), first + j - 1)
                           ELSE NoData,
                           IF HasM(t) THEN value(MBlockAt(t, c, n, points), first + j - 1)
                           ELSE NoData>>]]

-------------------------------------------------------------------------------

\* The types of the writer; a cell is nowhere but between header and end.
ShpTypeOK ==
  /\ type \in Types
  /\ \A a \in DOMAIN shp : a \in HeaderSize .. shpSize - 1 /\ shp[a] \in Int
  /\ shpSize \in Nat /\ {header.length, shxHeader.length} \subseteq Nat
  /\ \A k \in DOMAIN shx : shx[k].offset \in Nat /\ shx[k].length \in Nat
  /\ dbf.records = Len(given) /\ Len(shx) = Len(given) /\ Len(calls) = Len(given)
  /\ feat.numParts \in Nat /\ feat.rec \in 0..shpSize

(***************************************************************************)
(* When the caller has written all of its features, the three files can be *)
(* imported.  The header file allows features without geometry ("if not,   *)
(* geom/field is NULL"), but the .shp file is not made longer for them: a  *)
(* last one makes the files unreadable, and behind another one the reader  *)
(* is four bytes early.                                                    *)
(***************************************************************************)
FilesImport == Written => Imports

(***************************************************************************)
(* Files all of whose features have geometry can be imported: the lengths  *)
(* in the headers and records lead through the .shp file to as many        *)
(* records as the other two have, after a part too many as well.           *)
(***************************************************************************)
GeometryImports == (\A k \in DOMAIN given : given[k] /= << >>) => FilesImport

\* What a type keeps of a part.
Kept(p) ==
  [type |-> IF type = MultiPatch THEN p.type ELSE 0,
   verts |-> [i \in DOMAIN p.verts |->
                <<p.verts[i][1], p.verts[i][2],
                  IF HasZ(type) /\ p.hasZ THEN p.verts[i][3] ELSE NoData,
                  IF HasM(type) /\ p.hasM THEN p.verts[i][4] ELSE NoData>>]]

\* The parts of feature k that are to be read: the points of a multipoint are one.
Expected(k) ==
  LET parts == [i \in DOMAIN given[k] |-> Kept(given[k][i])]
  IN  IF type \in MultiPointTypes
      THEN << [type |-> 0, verts |-> FlattenSeq([i \in DOMAIN parts |-> parts[i].verts])] >>
      ELSE parts

\* The features that have all of their parts, and to which none was added twice.
Whole == {k \in DOMAIN given : given[k] /= << >> /\ calls[k] = Len(given[k])}

(***************************************************************************)
(* Every feature is read as it was given, part by part and vertex by       *)
(* vertex with the Z and M that belong to it, whatever has been written    *)
(* before and after it; a ring may be reversed as a whole.                 *)
(***************************************************************************)
FeaturesReadBack ==
  \A k \in Whole :
    /\ NumPartsOf(k) = Len(Expected(k))
    /\ \A i \in DOMAIN Expected(k) :
         LET read == GetGeometry(k, i)
             want == Expected(k)[i]
         IN  \/ read = want
             \/ type \in PolygonTypes /\ read = [want EXCEPT !.verts = Reverse(@)]

\* Twice the area a closed ring goes around, negative when it goes clockwise.
Area(vs) ==
  LET upTo[i \in 1..Len(vs)] ==
        IF i = 1 THEN 0
        ELSE upTo[i-1] + vs[i-1][1] * vs[i][2] - vs[i][1] * vs[i-1][2]
  IN  upTo[Len(vs)]

(***************************************************************************)
(* An outer ring is stored clockwise and an inner ring counterclockwise,   *)
(* however the caller's vertices go.  A ring whose first vertex is its     *)
(* anchor is left out: that vertex is also the last, and then the code     *)
(* compares the anchor with itself and takes every ring for an inner one.  *)
(***************************************************************************)
RingsOriented ==
  type \in PolygonTypes =>
    \A k \in Whole : \A i \in DOMAIN given[k] :
      Anchor(given[k][i].verts) /= 1 =>
        (Area(GetGeometry(k, i).verts) < 0) = (given[k][i].type = Outer)

\* The values that the calls have put into column c of a vertex.
Stored(c, has(_)) ==
  UNION {UNION {Range(Column(given[k][i].verts, c)) :
                  i \in {i \in DOMAIN given[k] : i =< calls[k] /\ has(given[k][i])}} :
           k \in DOMAIN given}

(***************************************************************************)
(* Both headers hold the smallest box around all points of all features,   *)
(* and no Z or M that was given is outside of it.                          *)
(***************************************************************************)
BoxesCover ==
  LET Every(p) == TRUE
      WithZ(p) == HasZ(type) /\ p.hasZ
      WithM(p) == HasM(type) /\ p.hasM
  IN  /\ header.box = shxHeader.box
      /\ header.box.x = Widen(NoRange, Stored(1, Every))
      /\ header.box.y = Widen(NoRange, Stored(2, Every))
      /\ \A z \in Stored(3, WithZ) : header.box.z[1] =< z /\ z =< header.box.z[2]
      /\ \A m \in Stored(4, WithM) : header.box.m[1] =< m /\ m =< header.box.m[2]

\* Mutant: the outline tool forgets the indices of the parts.
OutFullSizeNoParts(numRings, numVertices) == 16 * numVertices + 152 + 108 + 35

\* OutFullSize of utils/raster-outline-util.cpp.
OutFullSize(numRings, numVertices) == 4 * numRings + 16 * numVertices + 152 + 108 + 35

(***************************************************************************)
(* The one buffer in which raster-outline-util builds the three files of a *)
(* polygon without fields is large enough: the .shp file ends before the   *)
(* .shx file, that before the .dbf file, and that with the buffer.         *)
(***************************************************************************)
ToolBufferFits ==
  type = 5 /\ Len(given) = 1 /\ dbf.fields = << >> /\ calls[1] =< Len(given[1]) =>
    LET full == OutFullSize(feat.numParts, feat.numPoints)
    IN  /\ shpSize =< full - 35 - 108
        /\ HeaderSize + RecordSize * Len(shx) =< 108
        /\ dbf.size =< 35
===============================================================================
