SPECIFICATION Spec
CONSTANTS
  Devices = {d1}
  Changes = {c1}
  Flusher = flusher
  Writers = {flusher}
  Absent = Absent
  Torn = Torn
  MaxFrames = 1
  Scenarios = {{"forget"}}
  Overlap = {"forget"}
PROPERTIES
  FlushRevivesNothing
