SPECIFICATION GroupSpec
CONSTANTS
  Keys = {1, 2, 3}
  GroupMax = 3
  LinearScan = 3
  MaxTx = 6
  MaxLeave = 3
INVARIANTS GroupSound Ordered
PROPERTIES DisplacesTheLowest KeyNeverDrops
CHECK_DEADLOCK FALSE
