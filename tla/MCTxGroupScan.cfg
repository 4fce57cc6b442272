SPECIFICATION GroupSpec
CONSTANTS
  Keys = {1, 2}
  GroupMax = 100
  LinearScan = 10
  MaxTx = 12
  MaxLeave = 0
INVARIANTS Ordered
CHECK_DEADLOCK FALSE
