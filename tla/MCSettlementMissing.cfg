SPECIFICATION Spec
CONSTANTS
  a = a  b = b
  Miner = {a, b}
  MaxIncome = 2
  MaxTx = 3
  MaxCrash = 1
  DiskFails = FALSE
INVARIANT Solvent
