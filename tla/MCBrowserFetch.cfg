CONSTANTS
  p1 = p1
  p2 = p2
  h1 = h1
  h2 = h2
  h3 = h3
  Procs <- MCProcs
  Handles <- MCHandles
  NoHandle = NoHandle
  MaxRecords = 2
  MaxEntries = 1
SPECIFICATION Spec
SYMMETRY Symmetry
INVARIANTS
  TypeOK
  NoDanglingHandle
  NothingLeaked
  RecordsBounded
