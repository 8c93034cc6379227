\* Small instances of the parts that share nothing.
SPECIFICATION PartsSpec
CONSTANTS
  \* Transport: sequence numbers wrap after two INTENTs.
  Sender = {1, 2}
  SeqNos = 2
  RateWindow = 2
  IntentRate = 1
  SeenMax = 1
  MaxIntents = 3
  MaxFlight = 3
  \* Telemetry: Staleness is 10.
  Interval = 3
  MaxAge = 11
  Delay = 2
  Losses = 1
  InFlight = 3
  \* CfpBurst
  BurstInterval = 2
  BurstWindow = 6
  MaxCall = 3
  BlockedHold = 3
  BlockedCell = {b1, b2}
  \* Packets: bytes of 12 values, lists up to one more than a byte counts.
  Base = 12
  Seeds = {0, 1, 2, 3}
  Lengths = {0, 1, 2, 11, 12, 13}
  \* Drive: products wrap at 128.
  One = 10
  Dt = 1
  IntMax = 127
  HeadingGains <- MCHeadingGains
  DistanceGains <- MCDistanceGains
  VGain = 2
  WGain = 1
  MaxWheel = 20
  Ramp = 8
  HeadingError <- MCHeadingError
  DistanceError <- MCDistanceError
  Target = {30}
  \* Localizer: the count of steps wraps at 6.
  GridWidth = 2
  GridHeight = 2
  CellSize = 10
  MaxDead = 3
  CounterSpace = 6
  Displacement <- MCDisplacement
  Margin = 5
  \* Interlock
  AlertCapacity = 1
  \* Grid
  Width = 4
  Height = 3
  LockRadius = 2
  \* Formulas
  TickMax = 6
  Pads = {0, 1, 9}
  Yields = {0, 1}
  Goals = {0, 1, 5, 160}
  Batteries = {0, 100}
  Ids = {1, 255}
  Queues = {0, 1, 4}
  \* ReservationTable: one cell, two agents; the window moves every second tick.
  Cell = {c1}
  Agent = {a1, a2}
  Horizon = 3
  GcInterval = 2
  MaxTick = 4
  MaxLength = 4
  MaxAccepted = 3
  \* TaskAuction: the third bid makes the history long enough for gc.
  Bidder = {1}
  Utility = {1, 2}
  MaxUtility = 65535
  IdSpace = 65536
  SeqSpace = 65536
  BidWindow = 1
  RetryInterval = 1
  BackoffCap = 3
  MaxRetries = 1
  AuctionAge = 2
  HistoryCap = 2
  MaxTasks = 3
  MaxBids = 4
  MaxOpen = 1
INVARIANTS
  PartsTypeOK
  DedupExact
  IntentsSpaced
  ActiveListed
  WindowsKept
  WireExact
  HelpersExact
  TableExact
  AcceptedApart
  RecentBidsKnown
PROPERTIES
  SpeedsRamped
  FusedPose
  TripStops
\* A listener that has tripped, a call that has returned and a table whose
\* time is over stop.
CHECK_DEADLOCK FALSE
