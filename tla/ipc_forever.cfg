CONSTANTS
  c1 = c1
  c2 = c2
  c3 = c3
  Clients = {c1, c2}
  MaxReq = 2
  EndRequests <- EndByFirst
  WaitForever = TRUE
  KillAt <- HarmlessSteps
  CrashAt <- NoSteps
  ServerMayTerm = TRUE
  JavaMayFail = TRUE
SPECIFICATION FairSpec
INVARIANTS NoLostWakeup
PROPERTY EveryRequestEnds
