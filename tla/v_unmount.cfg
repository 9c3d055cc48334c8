SPECIFICATION FairSpec
CONSTANTS
  Devices = {d1}
  Changes = {c1}
  Flusher = flusher
  Writers = {flusher}
  Absent = Absent
  Torn = Torn
  MaxFrames = 1
  Scenarios = {{"unmount"}}
  Overlap = {}
PROPERTIES
  UnmountReported
