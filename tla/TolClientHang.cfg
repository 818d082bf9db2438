SPECIFICATION Spec
CONSTANTS
  h1 = h1
  h2 = h2
  Hosts = {h1, h2}
  Chans = {c1, c2}
  None = None
  ClusterHosts <- TwoHosts
  MaxAsks = 0
  MaxExprs = 4
  MaxLosses = 0
  MaxUsage = 0
  MaxEarly = 0
PROPERTY WaitEnds
CHECK_DEADLOCK FALSE
