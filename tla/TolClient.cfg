SPECIFICATION Spec
CONSTANTS
  h1 = h1
  h2 = h2
  Hosts = {h1, h2}
  Chans = {c1, c2}
  None = None
  ClusterHosts <- NoCluster
  MaxAsks = 3
  MaxExprs = 0
  MaxLosses = 2
  MaxUsage = 5
  MaxEarly = 1
INVARIANTS
  WaitersHaveTimeouts
  ListsAgree
  PendingIsRunning
PROPERTY EndsAreMissedBelow
CHECK_DEADLOCK FALSE
