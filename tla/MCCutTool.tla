------------------------------- MODULE MCCutTool -------------------------------
(* Two small rasters of 4 x 4 units per pixel, and triangles and rectangles  *)
(* with vertices at pixel corners, inside pixels and outside of the raster.  *)
EXTENDS CutTool

SomeRasters == {[x0 |-> 0, dx |-> 4, y0 |-> 12, dy |-> -4, width |-> 4, height |-> 3],
                [x0 |-> -6, dx |-> 4, y0 |-> 9, dy |-> -4, width |-> 5, height |-> 3]}

Xs == {-7, 0, 3, 9, 16, 21}
Ys == {-5, 0, 6, 11, 15}

Points    == Xs \X Ys
Triangles == {<<a, b, c, a>> : a \in {<<-7, 0>>, <<3, 11>>, <<0, 0>>}, b \in Points, c \in Points}
Rectangles ==
  {<< <<x, y>>, <<x, v>>, <<u, v>>, <<u, y>>, <<x, y>> >> :
     x \in Xs, u \in {3, 9, 16, 21}, y \in Ys, v \in {6, 11, 15}}

SomePolygons == Rectangles \cup {t \in Triangles : Side(t[1], t[2], t[3]) < 0}

\* Complete, with one or two of them missing or a directory, and with sizes for
\* which the sum is 0; which of them are valid; with and without features.
SomeFiles ==
  {[sizes |-> s, valid |-> v, type |-> t, features |-> n, parts |-> n] :
     s \in {<<5, 3, 2>>, <<5, -1, 2>>, <<5, 3, -2>>, <<-1, 3, 2>>, <<5, -2, -1>>, <<-1, -1, 2>>,
            <<-1, 1, 0>>, <<-2, -1, -1>>},
     v \in {1..3, {1, 2}, {2, 3}, {1, 3}}, t \in {3, 5, 25}, n \in 0..2}
===============================================================================
