CONSTANTS
  None = None
  Labels <- MCLabels
  Empty = ""
  Local = "*LOCAL"
  Unlabeled = None
  Upper <- MCUpper
  Gen <- MCGen
  Requests <- PoolRequests
  MaxReq = 3
SPECIFICATION Spec
INVARIANTS LabelResolves NoDanglingConn NoHandleLeak FreeAllLeavesNothing
