SPECIFICATION FairSpec
CONSTANTS
  Devices = {d1}
  Changes = {c1}
  Jobs = {j1, j2}
  Writers = {j1, j2}
  Limits = {1}
  Absent = Absent
  Torn = Torn
  Overlap = {"scan", "forget"}
  IoErrors = TRUE

INVARIANTS TypeOK JobMatchesWorker SlotBound
PROPERTIES TerminalFinal ServedOnlyByFinishedJob JobEnds
