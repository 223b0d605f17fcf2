CONSTANTS
  p1 = p1
  p2 = p2
  Pids <- MCPids
  NoPid = NoPid
  MaxExecutions = 2
  MaxStarts = 3
SPECIFICATION Spec
SYMMETRY Symmetry
INVARIANTS
  TypeOK
  ClosedAsReported
  ResultLoads
  OthersSpared
  IsolationKept
  ResultOfLatest
CHECK_DEADLOCK FALSE
