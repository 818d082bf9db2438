SPECIFICATION Spec
CONSTANTS
  h1 = h1
  h2 = h2
  Hosts = {h1, h2}
  Chans = {c1, c2}
  None = None
  ClusterHosts <- TwoHosts
  MaxAsks = 2
  MaxExprs = 2
  MaxLosses = 1
  MaxUsage = 2
  MaxEarly = 0
INVARIANT EvaluatedOnce
PROPERTIES
  AskEnds
  ClusterDrains
  ClusterAccepts
  WaitEndsUnlessMissed
CHECK_DEADLOCK FALSE
