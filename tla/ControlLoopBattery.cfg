\* A low battery, a planner that always finds the way and no interruption.
SPECIFICATION FairSpec
CONSTANTS
  Cell = {1, 2, 3}
  Neighbors <- MCNeighbors
  StartCell = 2
  ChargerCell = 1
  t1 = t1
  t2 = t2
  Task = {t1}
  TaskGoal <- MCTaskGoal
  None = None
  Interrupts = {}
  PlannerFails = FALSE
  MaxHorizon = 200
  MaxPlanAttempts = 1
  YieldWaitTicks = 2
  RandomAt = 1
  RandomLo = 2
  RandomHi = 3
  HaltAt = 2
  HaltWait = 5
  ParkedWait = 3
  ReverseWait = 2
  MaxYields = 3
  MaxWaypoints = 3
PROPERTIES
  ReachesCharger
