SPECIFICATION Spec
CONSTANTS
  Devices = {d1}
  Changes = {c1, c2}
  Jobs = {j1, j2}
  Writers = {j1, j2}
  Limits = {1, 2}
  Absent = Absent
  Torn = Torn
  Overlap = {}
  IoErrors = TRUE
SYMMETRY JobSymmetry
INVARIANTS SnapshotLoadable
PROPERTIES ResultsStay ServiceSpec
