SPECIFICATION FileSpec
CONSTANTS
  MaxSeq = 5
  MaxMoney = 5
INVARIANTS PromiseOutlives FileCatchesUp
