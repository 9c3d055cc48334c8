SPECIFICATION Spec
CONSTANTS
  Names = {a, b}
  NoName = NoName
  NoMeta = NoMeta
  MaxDepth = 6
  Versions <- TwoVersions
  Scenarios <- Including
INVARIANTS
  ShownFilesExist
CHECK_DEADLOCK FALSE
