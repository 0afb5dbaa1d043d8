CONSTANTS
  Width = 3
  Height = 3
  Images <- AllImages
  StartSlots = 2
  AllocMayFail = TRUE
  ReadMayFail = TRUE
  XSign = 1
  YSign <- MinusOne
SPECIFICATION Spec
INVARIANTS
  TypeOK
  EdgesAreCorners
  LinksClosed
  EdgesFit
  NoAssert
  VertexCountRight
  RingsShareNoLine
