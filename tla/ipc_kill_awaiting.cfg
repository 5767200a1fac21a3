CONSTANTS
  c1 = c1
  c2 = c2
  c3 = c3
  Clients = {c1, c2}
  MaxReq = 2
  EndRequests <- NoRequests
  WaitForever = FALSE
  KillAt <- AwaitStep
  CrashAt <- NoSteps
  ServerMayTerm = FALSE
  JavaMayFail = FALSE
SPECIFICATION Spec
INVARIANT AnswersOwnRequest
