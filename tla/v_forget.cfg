SPECIFICATION HistorySpec
CONSTANTS
  Devices = {d1}
  Changes = {c1}
  Jobs = {j1}
  Writers = {j1}
  Limits = {1}
  Absent = Absent
  Torn = Torn
  Overlap = {"forget"}
  IoErrors = FALSE
INVARIANTS ForgottenStaysForgotten
