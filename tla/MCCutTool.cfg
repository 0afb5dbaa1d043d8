CONSTANTS
  Rasters <- SomeRasters
  Polygons <- SomePolygons
  ShapeFiles <- SomeFiles
  UszSize = 64
  CreateMayFail = TRUE
SPECIFICATION Spec
CHECK_DEADLOCK FALSE
INVARIANTS
  ShapeWhole
  CutWithinOnePixel
  EverythingClosed
