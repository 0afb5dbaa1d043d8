CONSTANTS
  Procs = {p, q}
  p = p
  q = q
  Parts <- SomeParts
  MaxBuilds = 2
  Trees <- SomeTrees
  Cwd <- W
SPECIFICATION Spec
SYMMETRY AnyProcess
CHECK_DEADLOCK FALSE
INVARIANTS
  DirsTypeOK
  PathsDenote
  RelativeMakesTree
  RemoveDirEmpties
PROPERTIES
  OnlyBelow
