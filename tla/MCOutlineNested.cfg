CONSTANTS
  Width = 7
  Height = 7
  Images <- NestedImages
  StartSlots = 2
  AllocMayFail = TRUE
  ReadMayFail = FALSE
  XSign <- MinusOne
  YSign = 1
SPECIFICATION Spec
INVARIANTS
  ListIsNested
PROPERTIES
  KeepsPromise
