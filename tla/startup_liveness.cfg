CONSTANTS
  c1 = c1
  c2 = c2
  s1 = s1
  s2 = s2
  s3 = s3
  k1 = k1
  k2 = k2
  k3 = k3
  None = None
  Clients = {c1, c2}
  Servers = {s1, s2}
  Keys = {k1}
  ReuseKeys = TRUE
  MaxReq = 1
  MaxPolls = 2
SPECIFICATION FairSpec
PROPERTIES EveryConnectEnds PathIsFreed
