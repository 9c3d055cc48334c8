SPECIFICATION Spec
CONSTANTS
  Names = {a, b, c}
  NoName = NoName
  NoMeta = NoMeta
  MaxDepth = 6
  Versions <- TwoVersions
  Scenarios <- FlatBatches
INVARIANTS
  AlwaysLoadable
CHECK_DEADLOCK FALSE
