CONSTANTS
  PageSize = 4096
  StartSize = 65536
  Totals = {3828}
  RingSizes = {4}
  AllocMayFail = FALSE
SPECIFICATION ArenaSpec
INVARIANT NodesFit
