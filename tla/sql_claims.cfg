CONSTANTS
  None = None
  Labels <- MCLabels
  Empty = ""
  Local = "*LOCAL"
  Unlabeled = None
  Upper <- MCUpper
  Gen <- MCGen
  Requests <- ClaimRequests
  MaxReq = 2
SPECIFICATION Spec
INVARIANTS ActiveIsConnected DefaultIsOn OkMeansAllRun FreedLabelsGone PasswordUnused StatementsFreed
