CONSTANTS
  c1 = c1
  c2 = c2
  c3 = c3
  Clients = {c1, c2}
  MaxReq = 2
  EndRequests <- EndByFirst
  WaitForever = FALSE
  KillAt <- SafeSteps
  CrashAt <- AllSteps
  ServerMayTerm = TRUE
  JavaMayFail = TRUE
SPECIFICATION Spec
INVARIANTS SegmentExclusive AnswersOwnRequest ExecutedOnce
PROPERTY KeepsPromise
