SPECIFICATION Spec
CONSTANTS
  Names = {a, b}
  NoName = NoName
  NoMeta = NoMeta
  MaxDepth = 6
  Versions <- TwoVersions
  Scenarios <- Borders
INVARIANTS
  AlwaysShowsTheFiles
CHECK_DEADLOCK FALSE
