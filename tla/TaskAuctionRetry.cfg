\* A bid that answers a retried CFP.
SPECIFICATION FairSpec
CONSTANTS
  Agent = {1, 2}
  Utility = {1, 2}
  MaxUtility = 65535
  IdSpace = 65536
  SeqSpace = 65536
  BidWindow = 1
  RetryInterval = 1
  BackoffCap = 3
  MaxRetries = 2
  AuctionAge = 2
  HistoryCap = 2
  MaxTasks = 2
  MaxBids = 2
  MaxOpen = 2
INVARIANTS
  GivenUpUnwanted
