----------------------------- MODULE MCOutlineAll -----------------------------
(* One call for every 3 x 3 raster: any read may stop short, any allocation  *)
(* may fail, and the edge memory is small enough to grow several times.      *)
EXTENDS RasterToOutline

AllImages == [0..2 -> [0..2 -> BOOLEAN]]

MinusOne == -1
===============================================================================
