--------------------------- MODULE MCOutlineNested ---------------------------
(* One call for 7 x 7 rasters with every 3 x 3 pattern in the middle: alone, *)
(* or in a hole of the selected border that touches nothing or, at one       *)
(* corner, the border diagonally, so islands in a hole, with holes of their  *)
(* own.  Any allocation may fail.                                            *)
EXTENDS RasterToOutline

Frame == {0, 6}

NestedImages ==
  {[r \in 0..6 |-> [c \in 0..6 |->
      CASE r \in Frame \/ c \in Frame -> frame
        [] r \in 2..4 /\ c \in 2..4 -> middle[r][c]
        [] r = 1 /\ c = 1 -> frame /\ corner
        [] OTHER -> FALSE]] :
     middle \in [2..4 -> [2..4 -> BOOLEAN]], frame \in BOOLEAN, corner \in BOOLEAN}

MinusOne == -1
===============================================================================
