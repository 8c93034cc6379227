\* The instance of DSipp.cfg.
SPECIFICATION DSippSpec
CONSTANTS
  self = self
  other = other
  Self = self
  Agent = {self, other}
  Cell <- MCCell
  Width = 3
  Height = 2
  GridWidth = 3
  Connectivity = 4
  QuarterTurn = 2
  MaxHorizon = 6
  PlanSpan = 5
  MaxExpansions = 25
  Obstacles <- MCObstacles
  Bookings <- MCBookings
  Intents <- MCIntents
  Charger = 0
  MaxEvents = 0
  Horizon = 4
  GcInterval = 4
  MaxTick = 0
  MaxLength = 0
  MaxAccepted = 0
INVARIANTS
  Earliest
\* Time ends at MaxTick, the model of the planner with it.
CHECK_DEADLOCK FALSE
