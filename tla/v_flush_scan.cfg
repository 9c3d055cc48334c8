SPECIFICATION DaemonSpec
CONSTANTS
  Devices = {d1}
  Changes = {c1}
  Jobs = {j1}
  Limits = {1}
  IoErrors = FALSE
  Flusher = flusher
  Writers = {j1, flusher}
  Absent = Absent
  Torn = Torn
  MaxFrames = 1
  Scenarios = {{}}
  Overlap = {"change", "flush"}
INVARIANTS
  ServedIsSaved
