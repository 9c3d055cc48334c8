SPECIFICATION Spec
CONSTANTS
  Names = {a, b}
  NoName = NoName
  NoMeta = NoMeta
  MaxDepth = 6
  Versions <- OneVersion
  Scenarios <- AgainDirs
INVARIANTS
  AlwaysShowsTheFiles
CHECK_DEADLOCK FALSE
