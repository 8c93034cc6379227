\* A network that loses and duplicates; the driver of every manager is fair.
SPECIFICATION FairSpec
CONSTANTS
  a1 = a1
  a2 = a2
  a3 = a3
  c1 = c1
  c2 = c2
  Agent = {a1, a2, a3}
  Cell = {c1, c2}
  Peers <- MCStarPeers
  Plans <- MCPlans
  MaxLockCells = 3
  MaxWireLocks = 2
  PrepareTimeout = 1
  Duplicating = TRUE
  NoTxn = NoTxn
  MaxClock = 2
  MaxTick = 3
  MaxInFlight = 1
INVARIANTS
  PromisesDisjoint
  CommitFinal
PROPERTIES
  PendingResolves
  PromisesLapse
\* The model stops at MaxTick.
CHECK_DEADLOCK FALSE
