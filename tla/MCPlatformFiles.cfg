CONSTANTS
  Threads <- AllThreads
  Main = "main"
  Paths <- SomePaths
  Contents <- SomeContents
  Programs <- AllPrograms
  MaxFds = 4
  BufferSize = 2
  MemoryMayFail = TRUE
SPECIFICATION Spec
INVARIANTS
  OrderedReadsExact
  FileCopyComplete
  EqualityDecided
  NothingLeaks
PROPERTIES
  LostOnlyByCopy
  OthersEnd
