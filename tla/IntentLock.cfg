\* Two planning agents that hear each other, and a third agent in both radii;
\* messages are lost and reordered.
SPECIFICATION Spec
CONSTANTS
  a1 = a1
  a2 = a2
  a3 = a3
  c1 = c1
  c2 = c2
  Agent = {a1, a2, a3}
  Cell = {c1, c2}
  Peers <- MCPeers
  Plans <- MCPlans
  MaxLockCells = 3
  MaxWireLocks = 2
  PrepareTimeout = 1
  Duplicating = FALSE
  NoTxn = NoTxn
  MaxClock = 3
  MaxTick = 2
  MaxInFlight = 2
INVARIANTS
  TypeOK
  LocksExclusive
  CommittedKnown
  AllPeersAcked
  RefusedNotCommitted
PROPERTIES
  TxnIdsFresh
  ImplementsCellLocks
\* The model stops at MaxTick.
CHECK_DEADLOCK FALSE
