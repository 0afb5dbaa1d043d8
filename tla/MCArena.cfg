CONSTANTS
  PageSize = 64
  StartSize = 128
  Totals <- SmallTotals
  RingSizes = {4, 6, 12}
  AllocMayFail = TRUE
SPECIFICATION ArenaSpec
INVARIANTS
  ArenaTypeOK
  VerticesFit
  ShortByOneVertex
  FreesAllRings
