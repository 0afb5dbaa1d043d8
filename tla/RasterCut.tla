------------------------------- MODULE RasterCut -------------------------------
(***************************************************************************)
(* The geometry of RasterCut() (src/raster-cut.cpp): which window of the   *)
(* source becomes the new raster, where that says it lies, and which of    *)
(* its pixels are inside of the cutline.                                   *)
(*                                                                         *)
(* A raster is [x0, dx, y0, dy, width, height], in integer coordinates:    *)
(* its Affine[0], [1], [3] and [5] and its size in pixels.  A polygon is   *)
(* the sequence of its vertices <<X, Y>>, the first repeated at the end.   *)
(***************************************************************************)
EXTENDS Integers, SequencesExt

ClampTo(target, min, max) == Min({Max({target, min}), max})

\* The quotient without its fraction, which is towards zero in C.
Quotient(a, b) == LET abs(x) == IF x < 0 THEN -x ELSE x
                      q      == abs(a) \div abs(b)
                  IN  IF (a < 0) = (b < 0) THEN q ELSE -q

CoordToPixel(target, first, size) == Quotient(target - first, size)

\* XYGeomToPLGeom(): the polygon in pixels and lines.
Cutline(src, polygon) ==
  [i \in DOMAIN polygon |-> <<CoordToPixel(polygon[i][1], src.x0, src.dx),
                              CoordToPixel(polygon[i][2], src.y0, src.dy)>>]

\* The box around the cutline, as far as it is on the source: the right column and
\* the bottom row are not in it.
Window(src, polygon) ==
  LET line == Cutline(src, polygon)
      xs   == {line[i][1] : i \in DOMAIN line}
      ys   == {line[i][2] : i \in DOMAIN line}
  IN  [left   |-> ClampTo(Min(xs), 0, src.width),
       right  |-> ClampTo(Max(xs), 0, src.width),
       top    |-> ClampTo(Min(ys), 0, src.height),
       bottom |-> ClampTo(Max(ys), 0, src.height)]

\* Mutant: the new raster says that it lies where the source does.
DestinationAtOrigin(src, w) ==
  [src EXCEPT !.width = w.right - w.left, !.height = w.bottom - w.top]

\* The new raster, with the affine transform it gets.
Destination(src, w) ==
  [src EXCEPT !.x0 = @ + w.left * src.dx, !.y0 = @ + w.top * src.dy,
              !.width = w.right - w.left, !.height = w.bottom - w.top]

-------------------------------------------------------------------------------

\* On which side of the edge from a to b the point q is.
Side(a, b, q) == (b[1] - a[1]) * (q[2] - a[2]) - (b[2] - a[2]) * (q[1] - a[1])

Edges(polygon) == 1 .. Len(polygon) - 1

\* The point q is in the convex polygon, or on its border where that counts.
In(polygon, q, border) ==
  LET sides == {Side(polygon[i], polygon[i+1], q) : i \in Edges(polygon)}
  IN  IF border THEN (\A s \in sides : s >= 0) \/ (\A s \in sides : s =< 0)
      ELSE (\A s \in sides : s > 0) \/ (\A s \in sides : s < 0)

Doubled(polygon) == [i \in DOMAIN polygon |-> <<2 * polygon[i][1], 2 * polygon[i][2]>>]

PixelsOf(raster) == (0 .. raster.width - 1) \X (0 .. raster.height - 1)

\* The pixel of the source where the destination says that its pixel p lies.
SourcePixel(src, dst, p) ==
  <<CoordToPixel(dst.x0 + p[1] * dst.dx, src.x0, src.dx),
    CoordToPixel(dst.y0 + p[2] * dst.dy, src.y0, src.dy)>>

\* ChunkAndWarpImage(): the pixels of the source that the destination gets, those
\* whose centre is in the cutline; border says whether its edges are.
Warped(src, dst, polygon, border) ==
  {s \in {SourcePixel(src, dst, p) : p \in PixelsOf(dst)} :
     s \in PixelsOf(src)
       /\ In(Doubled(Cutline(src, polygon)), <<2 * s[1] + 1, 2 * s[2] + 1>>, border)}
===============================================================================
