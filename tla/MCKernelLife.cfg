SPECIFICATION Spec
CONSTANTS
  d1 = d1
  d2 = d2
  d3 = d3
  d4 = d4
  d5 = d5
  d6 = d6
  Desc <- Six
  Slabs <- TwoSlabs3
  NullTask = NullTask
  N_PRIORITY = 4
  N_SERVER_PRIORITY = 1
  FirstTid = 1
  MaxSTid = 6
  MaxUTid = 13
  WRAP_AROUND_TID = 2
  NullTid = 4
  N_EVENTS = 1
  Program <- Life
SYMMETRY SymmetrySlabs
INVARIANTS TypeOK OneOwner TidsUnique NeverWraps ParentActive
CHECK_DEADLOCK FALSE
