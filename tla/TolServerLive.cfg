SPECIFICATION Spec
CONSTANTS
  Procs = {"server", "slave"}
  Keys = {"request", "state", "finish"}
  Chans = {c1}
  Absent = Absent
  MaxTasks = 3
  MaxConnections = 1
  MaxOutstanding = 3
  EarlyClients = FALSE
INVARIANT NothingLeftWaiting
PROPERTIES
  QueueIsDrained
  EvaluatedIsFinished
  OneAtATimeIsFinished
CHECK_DEADLOCK FALSE
