CONSTANTS
  s1 = s1
  s2 = s2
  r1 = r1
  r2 = r2
  Sessions <- MCSessions
  Requests <- MCRequests
  None = None
  MaxSessions = 1
  MaxAuthRequests = 1
  MaxMessages = 2
SPECIFICATION FairSpec
INVARIANTS
  TypeOK
  WaitersAttended
PROPERTIES
  CredentialsOnce
  ResumedHandled
  WaitingResumed
CHECK_DEADLOCK FALSE
