SPECIFICATION TequilaSpec
CONSTANTS
  p1 = p1
  p2 = p2
  own = own
  common = common
  Procs <- MCProcs
  Keys <- MCKeys
  Writers <- MCWriters
  Absent = Absent
  Values = {1, 2}
  MaxNotices = 2
INVARIANTS
  NoWaitInVain
  
