CONSTANTS
  p1 = p1
  p2 = p2
  Procs <- MCProcs
  MaxGeneration = 2
  MaxTries = 1
  Commands = {"verify", "task-run"}
  Linux = FALSE
SPECIFICATION Spec
INVARIANTS
  VerdictCoherent
  RunningIsAttended
  VerifiedPassed
  
  ReportAgrees
  ReportNotAhead
PROPERTIES
  ClosedByOwner
  ImplementsLedger
