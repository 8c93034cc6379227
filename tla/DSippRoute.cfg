\* An empty table and time enough for every route.
SPECIFICATION DSippSpec
CONSTANTS
  self = self
  other = other
  Self = self
  Agent = {self, other}
  Cell <- MCCell
  Width = 3
  Height = 2
  GridWidth = 3
  Connectivity = 4
  QuarterTurn = 1
  MaxHorizon = 18
  PlanSpan = 18
  MaxExpansions = 100
  Obstacles <- MCObstacles
  Bookings <- MCNoBookings
  Intents <- MCIntents
  Charger = 0
  MaxEvents = 0
  Horizon = 4
  GcInterval = 4
  MaxTick = 0
  MaxLength = 0
  MaxAccepted = 0
INVARIANTS
  RouteFound
\* Time ends at MaxTick, the model of the planner with it.
CHECK_DEADLOCK FALSE
