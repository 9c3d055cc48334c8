SPECIFICATION Spec
CONSTANTS
  Devices = {d1}
  Changes = {c1}
  Jobs = {j1, j2}
  Writers = {j1, j2}
  Limits = {2}
  Absent = Absent
  Torn = Torn
  Overlap = {"scan"}
  IoErrors = FALSE
INVARIANTS SnapshotLoadable
