SPECIFICATION MCSpec
CONSTANTS
  N_TRNS = 3
  Segments = {1, 2, 3, 4, 5}
  Start <- Apart
  Lists <- Both
  TrainCalls = {"ALL", "ALL_TIMEOUT", "ONE", "ONE_TIMEOUT", "FREE"}
  Clients = {c1, c2}
  Strings <- Mixed
  MaxPut = 2
  WriteCap = 4
  ReadCap = 4
  WaitCap = 2
  Spacing = "any"
  Trains = {t1, t2}
  Sensors = {s1, s2}
  Speeds = {9}
  Est = {1}
  MAX_WAITING_PROCESSES = 4
  MaxKills = 1
SYMMETRY Symmetry
INVARIANTS HeldIsLocked NoLostWakeup InOrder ReadInOrder QueueSound PositionInStep
PROPERTIES NoOverrun
CHECK_DEADLOCK FALSE
