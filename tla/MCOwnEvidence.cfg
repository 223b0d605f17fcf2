CONSTANTS
  p1 = p1
  p2 = p2
  Procs <- MCProcs
  MaxGeneration = 2
  MaxTries = 1
  Commands = {"verify", "task-run"}
  Linux = TRUE
SPECIFICATION Spec
INVARIANTS
  VerifiedOnOwnEvidence
