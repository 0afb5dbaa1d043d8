CONSTANTS
  Types <- AllTypes
  Parts <- AllParts
  MaxFeatures = 2
  MaxParts = 2
  MaxFields = 1
  NullFeatures = TRUE
SPECIFICATION ShpSpec
INVARIANTS
  ShpTypeOK
  GeometryImports
  FeaturesReadBack
  RingsOriented
  BoxesCover
  ToolBufferFits
