SPECIFICATION FairSpec
CONSTANTS
  a = a  b = b
  Miner = {a, b}
  MaxIncome = 2
  MaxTx = 2
  MaxCrash = 1
  DiskFails = FALSE
INVARIANTS TypeOK SolventUpToMissing PaidIsBuried
PROPERTIES ClaimsKept PayoutsResolve
