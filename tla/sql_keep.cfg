CONSTANTS
  None = None
  Labels <- MCLabels
  Empty = ""
  Local = "*LOCAL"
  Unlabeled = None
  Upper <- MCUpper
  Gen <- MCGen
  Requests <- KeepRequests
  MaxReq = 2
SPECIFICATION Spec
INVARIANT KeepsIfNone
