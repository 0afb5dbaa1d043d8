------------------------------- MODULE Shapefile -------------------------------
(***************************************************************************)
(* Writing a shapefile in memory and reading it back                       *)
(* (include/geotypes-shp.cpp).  A feature is announced with the numbers of *)
(* its parts and points, and its parts are added one by one: every call    *)
(* lays out its points, Z and M values by these numbers and brings the     *)
(* lengths and bounding boxes of both files up to date.                    *)
(*                                                                         *)
(* The .shp file is a memory of cells behind its header: a cell is at the  *)
(* offset, in bytes, of a number of 4 or 8 bytes.  The headers are kept    *)
(* apart.  A vertex is <<X, Y, Z, M>>, whichever of these the type keeps.  *)
(* The caller follows the header file, but that it may add a part too many *)
(* to a feature: it does not know, or does not look at the result.         *)
(***************************************************************************)
EXTENDS SequencesExt

CONSTANTS
  Types,          \* the shp_types of the shapefiles
  Parts,          \* Parts[t]: the parts a caller may add to a file of type t
  MaxFeatures, MaxParts, MaxFields,
  NullFeatures    \* whether the caller leaves features without geometry

\* enum shp_type
PointTypes      == {1, 11, 21}
MultiPointTypes == {8, 18, 28}
PolylineTypes   == {3, 13, 23}
PolygonTypes    == {5, 15, 25}
MultiPatch      == 31
ShpType == PointTypes \cup MultiPointTypes \cup PolylineTypes \cup PolygonTypes
             \cup {MultiPatch}

HasZ(t) == t \in {11, 13, 15, 18, MultiPatch}
HasM(t) == HasZ(t) \/ t \in {21, 23, 25, 28}

\* enum shp_ring_type
Outer == 0
Inner == 1

\* What is added by one call.  Only a MultiPatch may come without Z.
Part == [type : Nat, verts : Seq(Int \X Int \X Int \X Int), hasZ : BOOLEAN, hasM : BOOLEAN]

ASSUME InputAssumption ==
  /\ Types \subseteq ShpType
  /\ \A t \in Types : \A p \in Parts[t] :
       /\ p \in Part /\ p.verts /= << >>
       /\ t /= MultiPatch => p.hasZ
       /\ t \in PointTypes => Len(p.verts) = 1 /\ p.hasM
  /\ {MaxFeatures, MaxParts, MaxFields} \subseteq Nat /\ NullFeatures \in BOOLEAN

VARIABLES
  type,       \* Header->Type
  shp,        \* the .shp file behind its header
  shpSize,    \* ShpFileSize
  header,     \* FileLength and BBox of the .shp file ...
  shxHeader,  \* ... and of the .shx file
  shx,        \* the shx_records
  dbf,        \* FieldLen of every field, NumRecords, and DbfFileSize
  feat,       \* the shp_feature that is written
  given,      \* the parts the caller has for each feature
  calls       \* how many parts it has added, or tried to, for each feature

shpVars == <<type, shp, shpSize, header, shxHeader, shx, dbf, feat, given, calls>>

Huge    == 1000000   \* DBL_MAX
NoData  == 0         \* DBL_MIN, which stands for no M, and the Z of none

NoRange          == <<Huge, -Huge>>
Widen(range, vs) == <<Min({range[1]} \cup vs), Max({range[2]} \cup vs)>>

\* Mutant: the box of the last part instead of the box of all.
HullOfLast(r, s) == s

Hull(r, s) == Widen(r, {s[1], s[2]})

\* The sum of the first n elements of s.
SumTo(s, n) ==
  LET sum[k \in 0 .. Len(s)] == IF k = 0 THEN 0 ELSE sum[k-1] + s[k]
  IN  sum[n]

HeaderSize   == 100   \* sizeof(shp_header)
RecordSize   == 8     \* sizeof(shp_record), and of shx_record
NullSize     == 4     \* sizeof(shp_null)
DbfRecord(d) == 1 + SumTo(d.fields, Len(d.fields))

\* _InitShapefile(), the work of every Create...()
Init ==
  LET box == [x |-> NoRange, y |-> NoRange,
              z |-> IF HasZ(type) THEN NoRange ELSE <<0, 0>>,
              m |-> IF HasM(type) THEN NoRange ELSE <<0, 0>>]
  IN  /\ type \in Types
      /\ shp = << >> /\ shpSize = HeaderSize
      /\ header = [length |-> HeaderSize \div 2, box |-> box]
      /\ shxHeader = header
      /\ shx = << >>
      /\ dbf = [fields |-> << >>, records |-> 0, size |-> 34]
      /\ feat = [numParts |-> 0, numPoints |-> 0, rec |-> 0]
      /\ given = << >> /\ calls = << >>

\* CreateField(), before the first feature.
CreateField(len) ==
  /\ given = << >> /\ Len(dbf.fields) < MaxFields
  /\ dbf' = [dbf EXCEPT !.fields = Append(@, len), !.size = @ + 32]
  /\ UNCHANGED <<type, shp, shpSize, header, shxHeader, shx, feat, given, calls>>

At(mem, a) == IF a \in DOMAIN mem THEN mem[a] ELSE 0

\* mem with the values vs in the cells from a on, "size" bytes apart.
Put(mem, a, size, vs) ==
  LET cells == {a + size * (k - 1) : k \in DOMAIN vs}
  IN  [b \in cells \cup DOMAIN mem |-> IF b \in cells THEN vs[(b - a) \div size + 1] ELSE mem[b]]

Sizes(parts) == [i \in DOMAIN parts |-> Len(parts[i].verts)]
Total(parts) == SumTo(Sizes(parts), Len(parts))

\* Mutant: the record of a feature starts behind its null content.
OffsetLate == (shpSize + RecordSize) \div 2

\* DataOffset of a new feature, in words of 16 bits as all lengths are.
Offset == shpSize \div 2

\* The caller has added all it has for the features there are.
Written == \A k \in DOMAIN given : calls[k] >= Len(given[k])

(***************************************************************************)
(* A feature is added when the one before it is written.  The length of    *)
(* the .shx file is brought up to date, that of the .shp file is not.      *)
(***************************************************************************)
AddFeature(parts) ==
  /\ Len(given) < MaxFeatures
  /\ Written
  /\ feat' = [numParts |-> Len(parts), numPoints |-> Total(parts), rec |-> shpSize]
  /\ shp' = Put(shp, shpSize, 4, <<Len(shx) + 1>>)
  /\ shx' = Append(shx, [offset |-> Offset, length |-> 0])
  /\ shpSize' = shpSize + RecordSize + NullSize
  /\ shxHeader' = [shxHeader EXCEPT !.length = (HeaderSize + RecordSize * Len(shx')) \div 2]
  /\ dbf' = [dbf EXCEPT !.records = @ + 1, !.size = @ + DbfRecord(dbf)]
  /\ given' = Append(given, parts) /\ calls' = Append(calls, 0)
  /\ UNCHANGED <<type, header>>

-------------------------------------------------------------------------------

Content == feat.rec + RecordSize

\* Where the counters and the points are in the content of a type, which starts
\* at c and has room for n parts: the layout of the structures.
NumPartsAt(c)    == c + 36
NumPointsAt(t, c) == IF t \in MultiPointTypes THEN c + 36 ELSE c + 40
PartsAt(c)       == c + 44
PatchTypesAt(c, n) == PartsAt(c) + 4 * n
PointsAt(t, c, n) == IF t \in MultiPointTypes THEN c + 40
                     ELSE PartsAt(c) + (IF t = MultiPatch THEN 8 ELSE 4) * n
ZBlockAt(t, c, n, points) == PointsAt(t, c, n) + 16 * points
MBlockAt(t, c, n, points) ==
  ZBlockAt(t, c, n, points) + (IF HasZ(t) THEN 16 + 8 * points ELSE 0)

Column(verts, k) == [i \in DOMAIN verts |-> verts[i][k]]

\* Mutant: the record header counts as content.
ContentLengthFromRecord(end) == (end - feat.rec) \div 2

\* ContentLength of a record whose content ends at end.
ContentLength(end) == (end - Content) \div 2

\* Mutant: the file ends with the Z block.
EndNoMBlock(points) ==
  LET c == Content n == feat.numParts
  IN  IF HasZ(type) THEN ZBlockAt(type, c, n, feat.numPoints) + 16 + 8 * points
      ELSE PointsAt(type, c, n) + 16 * points

\* The end of the file when the last feature has so many points.
End(points) ==
  LET c == Content n == feat.numParts
  IN  IF HasM(type) THEN MBlockAt(type, c, n, feat.numPoints) + 16 + 8 * points
      ELSE PointsAt(type, c, n) + 16 * points

(***************************************************************************)
(* The end of every Add...(): the new end of the file, the lengths that    *)
(* follow from it, and the box of the headers with what was added to it.   *)
(* A file of I32_MAX words is not reached.                                 *)
(***************************************************************************)
Finish(end, mem, box) ==
  LET length == ContentLength(end)
  IN  /\ shpSize' = end
      /\ shp' = Put(mem, feat.rec + 4, 4, <<length>>)
      /\ shx' = [shx EXCEPT ![Len(shx)].length = length]
      /\ header' = [length |-> end \div 2, box |-> box]
      /\ shxHeader' = [shxHeader EXCEPT !.box = box]

\* AddPoint()
AddPoint(p) ==
  LET v    == p.verts[1]
      vals == <<v[1], v[2]>> \o (IF HasZ(type) THEN <<v[3]>> ELSE << >>)
                             \o (IF HasM(type) THEN <<v[4]>> ELSE << >>)
  IN  /\ type \in PointTypes
      /\ Finish(Content + 4 + 8 * Len(vals),
                Put(Put(shp, Content, 4, <<type>>), Content + 4, 8, vals),
                [x |-> Widen(header.box.x, {v[1]}), y |-> Widen(header.box.y, {v[2]}),
                 z |-> IF HasZ(type) THEN Widen(header.box.z, {v[3]}) ELSE <<0, 0>>,
                 m |-> IF HasM(type) THEN Widen(header.box.m, {v[4]}) ELSE <<0, 0>>])

\* The Z or M block at a, with the values vs behind the "old" ones in it.
PutBlock(mem, a, old, vs) ==
  LET before == IF old > 0 THEN <<At(mem, a), At(mem, a + 8)>> ELSE NoRange
  IN  Put(Put(mem, a, 8, Widen(before, Range(vs))), a + 16 + 8 * old, 8, vs)

\* The number of points that the feature has, and its blocks of Z and M values.
NumPoints == At(shp, NumPointsAt(type, Content))
ZAt       == ZBlockAt(type, Content, feat.numParts, feat.numPoints)
MAt       == MBlockAt(type, Content, feat.numParts, feat.numPoints)

\* The box of the record in direction k, 1 for X and 2 for Y, with the vertices vs in it.
BoxWith(k, vs) ==
  Widen(IF NumPoints > 0
        THEN <<At(shp, Content + 4 + 8*(k-1)), At(shp, Content + 4 + 8*(k+1))>>
        ELSE NoRange, Range(Column(vs, k)))

\* mem with the points of vs, and the box and counter of points.
PutPoints(vs, mem) ==
  LET points == PointsAt(type, Content, feat.numParts) + 16 * NumPoints
      x      == BoxWith(1, vs)
      y      == BoxWith(2, vs)
  IN  Put(Put(Put(Put(mem, points, 16, Column(vs, 1)), points + 8, 16, Column(vs, 2)),
              Content + 4, 8, <<x[1], y[1], x[2], y[2]>>),
          NumPointsAt(type, Content), 4, <<NumPoints + Len(vs)>>)

\* ... and with the Z and M values of it, if the type has them.
ColumnOr(has, vs, k) == IF has THEN Column(vs, k) ELSE [i \in DOMAIN vs |-> NoData]
PutZ(p, vs, mem) ==
  IF HasZ(type) THEN PutBlock(mem, ZAt, NumPoints, ColumnOr(p.hasZ, vs, 3)) ELSE mem
PutM(p, vs, mem) ==
  IF HasM(type) THEN PutBlock(mem, MAt, NumPoints, ColumnOr(p.hasM, vs, 4)) ELSE mem

(***************************************************************************)
(* What AddPoints(), AddLinestring(), AddRing() and AddPatch() have in     *)
(* common: the vertices vs of p are written behind those the feature has,  *)
(* by the numbers of parts and points it was announced with.  mem is the   *)
(* memory after what each of them does before.                             *)
(***************************************************************************)
AddVertices(p, vs, mem) ==
  LET put == PutM(p, vs, PutZ(p, vs, PutPoints(vs, mem)))
  IN  Finish(End(NumPoints + Len(vs)),
             Put(put, Content, 4, <<type>>),
             [x |-> Hull(header.box.x, BoxWith(1, vs)), y |-> Hull(header.box.y, BoxWith(2, vs)),
              z |-> IF HasZ(type) /\ p.hasZ
                    THEN Hull(header.box.z, <<At(put, ZAt), At(put, ZAt + 8)>>)
                    ELSE header.box.z,
              m |-> IF HasM(type) /\ p.hasM
                    THEN Hull(header.box.m, <<At(put, MAt), At(put, MAt + 8)>>)
                    ELSE header.box.m])

\* AddPoints()
AddPoints(p) == type \in MultiPointTypes /\ AddVertices(p, p.verts, shp)

PartIdx == At(shp, NumPartsAt(Content))

\* The memory with the part counted and its first point noted.
PartBegun ==
  Put(Put(shp, NumPartsAt(Content), 4, <<PartIdx + 1>>),
      PartsAt(Content) + 4 * PartIdx, 4, <<NumPoints>>)

\* A part too many: it is refused, but it has been counted.
RefusePart ==
  /\ type \in PolylineTypes \cup PolygonTypes
  /\ PartIdx >= feat.numParts
  /\ shp' = Put(shp, NumPartsAt(Content), 4, <<PartIdx + 1>>)
  /\ UNCHANGED <<shpSize, header, shxHeader, shx>>

\* AddLinestring()
AddLinestring(p) ==
  /\ type \in PolylineTypes /\ PartIdx < feat.numParts
  /\ AddVertices(p, p.verts, PartBegun)

\* The lowest vertex, of these the one to the right, of these the first.
Anchor(vs) ==
  CHOOSE k \in DOMAIN vs : \A j \in DOMAIN vs :
    \/ vs[k][2] < vs[j][2]
    \/ vs[k][2] = vs[j][2] /\ vs[k][1] > vs[j][1]
    \/ vs[k][2] = vs[j][2] /\ vs[k][1] = vs[j][1] /\ k =< j

Cross(a, b, c) == (b[1] - a[1]) * (c[2] - a[2]) - (b[2] - a[2]) * (c[1] - a[1])

\* Mutant: the vertices before and after the anchor are swapped.
OrientationSwapped(vs) ==
  LET k == Anchor(vs)
  IN  IF Cross(vs[k], vs[(k % Len(vs)) + 1], vs[IF k = 1 THEN Len(vs) ELSE k - 1]) > 0
      THEN Outer ELSE Inner

\* The orientation of a ring at its anchor.
Orientation(vs) ==
  LET k == Anchor(vs)
  IN  IF Cross(vs[k], vs[IF k = 1 THEN Len(vs) ELSE k - 1], vs[(k % Len(vs)) + 1]) > 0
      THEN Outer ELSE Inner

\* AddRing(): a ring that does not go the way its type asks for is reversed.
AddRing(p) ==
  /\ type \in PolygonTypes /\ PartIdx < feat.numParts
  /\ AddVertices(p, IF Orientation(p.verts) = p.type THEN p.verts ELSE Reverse(p.verts),
                 PartBegun)

\* AddPatch(): the test for a part too many compares with what it has counted.
AddPatch(p) ==
  /\ type = MultiPatch
  /\ AddVertices(p, p.verts, Put(PartBegun, PatchTypesAt(Content, feat.numParts)
                                            + 4 * PartIdx, 4, <<p.type>>))

(***************************************************************************)
(* One call for each part of the feature, and perhaps the last one again.  *)
(***************************************************************************)
AddPart ==
  LET parts == Last(given)
      done  == Last(calls)
      p     == parts[Min({done + 1, Len(parts)})]
  IN  /\ given /= << >> /\ parts /= << >> /\ done =< Len(parts)
      /\ \/ AddPoint(p) \/ AddPoints(p) \/ AddLinestring(p)
         \/ AddRing(p) \/ AddPatch(p) \/ RefusePart
      /\ calls' = [calls EXCEPT ![Len(calls)] = done + 1]
      /\ UNCHANGED <<type, dbf, feat, given>>

\* The parts of a feature; a point is the only part of its feature.
Features ==
  LET most == IF type \in PointTypes THEN 1 ELSE MaxParts
  IN  UNION {[1..n -> Parts[type]] : n \in (IF NullFeatures THEN 0 ELSE 1) .. most}

\* The caller saves the files.
Saved == Written /\ Len(given) = MaxFeatures /\ UNCHANGED shpVars

Next == \/ \E len \in {1, 8} : CreateField(len)
        \/ \E parts \in Features : AddFeature(parts)
        \/ AddPart
        \/ Saved

ShpSpec == Init /\ [][Next]_shpVars
===============================================================================
