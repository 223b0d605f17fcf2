CONSTANTS
  p1 = p1
  p2 = p2
  Procs <- MCProcs
  MaxGeneration = 2
  MaxTries = 2
  Commands = {"loop"}
  Linux = TRUE
SPECIFICATION FairSpec
PROPERTIES
  AttemptSettles
  LoopEnds
