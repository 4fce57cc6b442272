SPECIFICATION FileSpec
CONSTANTS
  MaxSeq = 3
  MaxMoney = 3
INVARIANT PromiseKept
