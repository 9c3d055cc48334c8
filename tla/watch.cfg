SPECIFICATION Spec
CONSTANTS
  Devices = {d1}
  Changes = {c1, c2}
  Flusher = flusher
  Writers = {flusher}
  Absent = Absent
  Torn = Torn
  MaxFrames = 2
  Scenarios = {
    {"notify", "hangup", "refuse", "rules", "io", "scan", "forget", "options", "restart"},
    {"notify", "hangup", "unmount", "scan", "forget", "options"},
    {"notify", "overflow", "busy", "skew", "unmount", "denied"}}
  Overlap = {}
INVARIANTS
  TypeOK
  NotedIsKept
  CleanIsSaved
  WatchingIsWatched
PROPERTIES
  SnapshotNeverOlder
  FlushRevivesNothing
