SPECIFICATION Spec
CONSTANTS
  N_TRNS = 2
  Segments = {1, 2, 3, 4}
  Start <- Apart
  Lists <- Both
  TrainCalls = {"TWO"}
INVARIANTS HeldIsLocked
