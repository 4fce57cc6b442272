SPECIFICATION FairSpec
CONSTANTS
  n1 = n1  t3 = t3  d1 = d1
  Tx = {n1, t3, d1}
  Diamint = {d1}
  Number <- MCNumber
  Uncertain = {t3}
  Keys = {1}
  MaxSize <- MCMaxSize
  LinearScan = 1
  Handlers = {1}
  Miner = TRUE
  BidSpan = 2
  CleanSpan = 2
  Cycle = 2
  Depth = 1
  MaxStored = 2
  Bodies <- MCBodies
INVARIANTS TypeOK
PROPERTIES StalePurged StaleOnlyByRace
