CONSTANTS
  p1 = p1
  p2 = p2
  r1 = r1
  r2 = r2
  Procs <- MCProcs
  NoProc = NoProc
  Rows <- MCRows
  NoRow = NoRow
  NoDiagnosis = NoDiagnosis
  Limit = 1
  MaxGeneration = 2
SPECIFICATION DiagnosisSpec
SYMMETRY Symmetry
INVARIANTS
  OwnRows
  ServedCurrent
  ServedComplete
