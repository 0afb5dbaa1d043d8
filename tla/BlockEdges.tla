------------------------------ MODULE BlockEdges ------------------------------
(***************************************************************************)
(* The classification of a 2 x 2 block of pixels into an edge of the       *)
(* outline (src/raster-outline-testblock.cpp).  The edge sits on the       *)
(* vertex that the four pixels share.  Its type names the one corner whose *)
(* test result differs from the other three, or Cross when the pixels      *)
(* alternate.  Lines of the outline leave the vertex towards that corner:  *)
(* a BottomRight edge has a line below it and a line to its right.         *)
(***************************************************************************)
EXTENDS Integers

\* enum edge_type without EdgeType_None
EdgeType == {"TopLeft", "TopRight", "BottomLeft", "BottomRight", "Cross"}

\* The C conversion of a bool to the int that ValueCount adds up.
Bit(b) == IF b THEN 1 ELSE 0

(***************************************************************************)
(* tl, tr, bl, br: whether each pixel of the block passes the test.  With  *)
(* one pixel set or one pixel unset the type is that pixel's corner.       *)
(***************************************************************************)
GetBlockEdges(tl, tr, bl, br) ==
  LET valueCount == Bit(tl) + Bit(tr) + Bit(bl) + Bit(br)
      Alone(b)   == (valueCount = 1 /\ b) \/ (valueCount = 3 /\ ~b)
  IN  CASE Alone(tl) -> "TopLeft"
        [] Alone(tr) -> "TopRight"
        [] Alone(bl) -> "BottomLeft"
        [] Alone(br) -> "BottomRight"
        [] valueCount = 2 /\ (tl <=> br) -> "Cross"
        [] OTHER -> "None"

\* The directions in which the outline leaves an edge of type t.
HasAbove(t) == t \in {"TopLeft", "TopRight", "Cross"}
HasBelow(t) == t \in {"BottomLeft", "BottomRight", "Cross"}
HasLeft(t)  == t \in {"TopLeft", "BottomLeft", "Cross"}
HasRight(t) == t \in {"TopRight", "BottomRight", "Cross"}
===============================================================================
