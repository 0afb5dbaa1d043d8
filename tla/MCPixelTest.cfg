CONSTANTS
  Bits = 2
  FloatPixels <- SmallFloats
  Kinds <- AllKinds
  Values <- AllValues
  Width = 1
  Height = 2
SPECIFICATION TestSpec
INVARIANTS
  ServedBlocksAsDocumented
  BBoxMeansAll
