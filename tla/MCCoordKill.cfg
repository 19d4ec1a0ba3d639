SPECIFICATION CoordSpec
CONSTANTS
  Trains = {t1, t2}
  Sensors = {s1, s2}
  Speeds = {9}
  Est = {1}
  MAX_WAITING_PROCESSES = 4
  MaxKills = 1
SYMMETRY Symmetry
INVARIANT KilledForgotten
CHECK_DEADLOCK FALSE
