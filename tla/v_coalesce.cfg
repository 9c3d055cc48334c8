SPECIFICATION Spec
CONSTANTS
  Names = {a, b, c}
  NoName = NoName
  NoMeta = NoMeta
  MaxDepth = 6
  Versions <- TwoVersions
  Scenarios <- LongBatches
INVARIANTS
  CoalescingIsSafe
CHECK_DEADLOCK FALSE
