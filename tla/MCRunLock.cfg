CONSTANTS
  p1 = p1
  p2 = p2
  p3 = p3
  i1 = i1
  i2 = i2
  i3 = i3
  Procs <- MCProcs
  Inodes <- MCInodes
  NoProc = NoProc
  NoInode = NoInode
  Linux = TRUE
SPECIFICATION FairSpec
INVARIANTS
  MutualExclusion
  NoOrphanedLock
PROPERTIES
  ImplementsMutex
  
