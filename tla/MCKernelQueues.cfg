SPECIFICATION Spec
CONSTANTS
  d1 = d1
  d2 = d2
  d3 = d3
  d4 = d4
  d5 = d5
  d6 = d6
  Desc <- Five
  Slabs <- OneSlab5
  NullTask = NullTask
  N_PRIORITY = 5
  N_SERVER_PRIORITY = 2
  FirstTid = 1
  MaxSTid = 5
  MaxUTid = 11
  WRAP_AROUND_TID = 2
  NullTid = 0
  N_EVENTS = 4
  Program <- ClientServer
SYMMETRY Symmetry5
INVARIANTS BlockedQueued NoFault
CHECK_DEADLOCK FALSE
