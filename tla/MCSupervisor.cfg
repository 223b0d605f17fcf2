CONSTANTS
  c1 = c1
  c2 = c2
  a = a
  b = b
  i1 = i1
  i2 = i2
  Commands <- MCCommands
  Profiles <- MCProfiles
  NoProfile = NoProfile
  Bench = Bench
  Pids <- MCPids
  NoPid = NoPid
  MaxBackends = 2
  MaxStarts = 2
SPECIFICATION Spec
SYMMETRY Symmetry
INVARIANTS
  TypeOK
  SignalledOwn
  StoppedIsGone
  RemovalSparesRecorded
