CONSTANTS
  c1 = c1
  c2 = c2
  k1 = k1
  k2 = k2
  n1 = n1
  n2 = n2
  Clients = {c1}
  Keys = {k1}
  MaxReq = 2
  IntSize = 2048
  Strings <- WaitStrings
  Names = {n1, n2}
  Defaults <- DefaultNames
  NoValue = NoValue
  Overflow = Overflow
  Blank = Blank
  NoKey = NoKey
  NoJob = NoJob
SPECIFICATION Spec
INVARIANT WaitServerPositive
