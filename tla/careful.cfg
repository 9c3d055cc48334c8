SPECIFICATION HistorySpec
CONSTANTS
  Devices = {d1}
  Changes = {c1}
  Jobs = {j1, j2}
  Writers = {j1, j2}
  Limits = {1, 2}
  Absent = Absent
  Torn = Torn
  Overlap = {}
  IoErrors = FALSE
SYMMETRY JobSymmetry
INVARIANTS SnapshotMatchesServed SidecarMatchesMemory ForgottenStaysForgotten
PROPERTIES OutcomeRecorded
