CONSTANTS
  Layouts <- AllLayouts
  Strings <- SomeStrings
  Integers <- SomeIntegers
  Reals <- SomeReals
  Dates <- SomeDates
  MaxFeatures = 2
  MaxCalls = 3
CHECK_DEADLOCK FALSE
SPECIFICATION Spec
INVARIANTS
  RecordsInPlace
  TypedFieldsReadBack
  OtherRealsTruncated
PROPERTIES
  OtherCallsReturn
