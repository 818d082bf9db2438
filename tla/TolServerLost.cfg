SPECIFICATION Spec
CONSTANTS
  Procs = {"server", "slave"}
  Keys = {"request", "state", "finish"}
  Chans = {c1}
  Absent = Absent
  MaxTasks = 2
  MaxConnections = 1
  MaxOutstanding = 2
  EarlyClients = FALSE
PROPERTY AcceptedIsFinished
CHECK_DEADLOCK FALSE
