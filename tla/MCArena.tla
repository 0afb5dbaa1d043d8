-------------------------------- MODULE MCArena --------------------------------
(* Ring memory with small pages, so that a few rings make it grow.           *)
EXTENDS PolyArena

SmallTotals == {v \in 4..64 : v % 2 = 0}
===============================================================================
