SPECIFICATION FairSpec
CONSTANTS
  Devices = {d1}
  Changes = {c1}
  Flusher = flusher
  Writers = {flusher}
  Absent = Absent
  Torn = Torn
  MaxFrames = 2
  Scenarios = {{"notify", "refuse", "unmount", "scan", "forget", "options", "restart"}}
  Overlap = {}
PROPERTIES
  LiveChangesArrive
  DesyncEndsWatch
  RequestEnds
