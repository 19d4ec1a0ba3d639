SPECIFICATION MCSpec
CONSTANTS
  c1 = c1
  c2 = c2
  Clients = {c1, c2}
  Ticks = {0, 1, 2}
  SYSTICKS_CLOCKTICK_UNIT = 2
  Word = 16
  MAX_WAITING_TASKS = 2
  MaxTime = 6
  N = 9
  Start = 0
  Goal = 4
  AccelDist = 1
  StopDist = 1
  Refusals <- AtSpeedForwards
  MaxTaken = 2
INVARIANTS NoMutualSend OnlyOnLocked
PROPERTIES NeverEarly DelaysEnd TimeoutsAnswered SwitchesBefore StaysStopped TrainArrives
