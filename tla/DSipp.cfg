\* A warehouse as wide as GRID_WIDTH, scaled; rotations cost two ticks.
SPECIFICATION DSippSpec
CONSTANTS
  self = self
  other = other
  Self = self
  Agent = {self, other}
  Cell <- MCCell
  Width = 3
  Height = 2
  GridWidth = 3
  Connectivity = 4
  QuarterTurn = 2
  MaxHorizon = 7
  PlanSpan = 5
  MaxExpansions = 25
  Obstacles <- MCObstacles
  Bookings <- MCBookings
  Intents <- MCIntents
  Charger = 0
  MaxEvents = 2
  Horizon = 5
  GcInterval = 3
  MaxTick = 6
  MaxLength = 0
  MaxAccepted = 0
INVARIANTS
  SearchTypeOK
  ExactWhenClear
  PresenceClear
  PlanReserved
\* Time ends at MaxTick, the model of the planner with it.
CHECK_DEADLOCK FALSE
