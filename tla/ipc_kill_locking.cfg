CONSTANTS
  c1 = c1
  c2 = c2
  c3 = c3
  Clients = {c1, c2, c3}
  MaxReq = 1
  EndRequests <- NoRequests
  WaitForever = FALSE
  KillAt <- LockStep
  CrashAt <- NoSteps
  ServerMayTerm = FALSE
  JavaMayFail = FALSE
SPECIFICATION Spec
INVARIANT SegmentExclusive
