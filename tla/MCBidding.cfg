SPECIFICATION FairSpec
CONSTANTS
  x = x  y = y  NoBid = NoBid
  Block = {1, 2, 3, 4, 5}
  Parent <- MCParent
  Bid <- MCBid
  Broke <- MCBroke
  Bidder = {x, y}
  Bids <- MCBids
  Cycle = 2
  Level = 1
  Keep = 2
  MaxShadow = 3
  UniqTopMax = 2
  HacdKeep = 2
  ArriveKeep = 1
  MaxTasks = 1
  Budgets <- MCBudgets
PROPERTIES LowBidWaits HoldEnds
