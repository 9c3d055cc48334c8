SPECIFICATION Spec
CONSTANTS
  Devices = {d1}
  Changes = {c1}
  Flusher = flusher
  Writers = {flusher}
  Absent = Absent
  Torn = Torn
  MaxFrames = 2
  Scenarios = {{"skew"}}
  Overlap = {}
INVARIANTS
  NoneLostInSilence
CHECK_DEADLOCK FALSE
