SPECIFICATION TrainSpec
CONSTANTS
  N = 9
  Start = 0
  Goal = 4
  AccelDist = 1
  StopDist = 1
  Refusals <- Accelerating
  MaxTaken = 2
INVARIANT NoMutualSend
