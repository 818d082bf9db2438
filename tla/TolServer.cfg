SPECIFICATION Spec
CONSTANTS
  Procs = {"server", "slave"}
  Keys = {"request", "state", "finish"}
  Chans = {c1}
  Absent = Absent
  MaxTasks = 4
  MaxConnections = 1
  MaxOutstanding = 4
  EarlyClients = TRUE
INVARIANTS
  EvaluatedInOrder
  FinishesFollowEvaluations
  ServerWaitsForItsRequest
CHECK_DEADLOCK FALSE
