CONSTANTS
  Bits = 2
  FloatPixels <- SmallFloats
  Kinds <- SignedOnly
  Values <- RangeValues
  Width = 1
  Height = 1
SPECIFICATION TestSpec
INVARIANT BlocksAsDocumented
