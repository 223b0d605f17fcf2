CONSTANTS
  p1 = p1
  p2 = p2
  t1 = t1
  t2 = t2
  l1 = l1
  l2 = l2
  Procs <- MCProcs
  NoProc = NoProc
  Pages <- MCPages
  NoPage = NoPage
  Looks <- MCLooks
  NoLook = NoLook
  MaxGeneration = 1
  MaxCycles = 2
  MaxPolls = 2
  MaxChecks = 1
SPECIFICATION Spec
SYMMETRY Symmetry
INVARIANT PinnedClearance
