------------------------------ MODULE MCShapefile ------------------------------
(* Shapefiles of every type with two features of up to two parts.            *)
EXTENDS ShapefileReader

AllTypes == ShpType

\* A part with Z and M values of its own, with and without which it is added.
Made(t, xy, z, m) ==
  [type |-> t, hasZ |-> z, hasM |-> m,
   verts |-> [i \in DOMAIN xy |-> <<xy[i][1], xy[i][2], 10 + i, 20 + xy[i][1]>>]]

Triangle    == << <<0, 2>>, <<2, 2>>, <<2, 0>>, <<0, 2>> >>
Square      == << <<3, 1>>, <<5, 1>>, <<5, 4>>, <<3, 4>>, <<3, 1>> >>
AnchorFirst == << <<2, 0>>, <<2, 2>>, <<0, 2>>, <<2, 0>> >>
Segment     == << <<1, 3>>, <<4, -1>> >>
Dot         == << <<-2, 0>> >>

RingParts == {Made(Outer, Triangle, TRUE, TRUE), Made(Inner, Triangle, TRUE, FALSE),
              Made(Outer, Reverse(Triangle), TRUE, FALSE), Made(Inner, Square, TRUE, TRUE),
              Made(Outer, AnchorFirst, TRUE, TRUE)}

AllParts ==
  [t \in ShpType |->
     CASE t \in PointTypes   -> {Made(0, Dot, TRUE, TRUE), Made(0, << <<3, 4>> >>, TRUE, TRUE)}
       [] t \in PolygonTypes -> RingParts
       [] t = MultiPatch     -> {Made(1, Segment, TRUE, FALSE), Made(5, Triangle, FALSE, TRUE),
                                 Made(2, Square, TRUE, TRUE)}
       [] OTHER              -> {Made(0, Segment, TRUE, TRUE), Made(0, Dot, TRUE, FALSE),
                                 Made(0, Triangle, TRUE, TRUE)}]
===============================================================================
