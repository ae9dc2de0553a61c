SPECIFICATION FairSpec
CONSTANTS
  u1 = u1  u2 = u2  k1 = k1  k2 = k2
  User = {u1}
  Token = {k1, k2}
  SrcId <- TwoRows
  Threshold <- Thresholds
  MaxCnt = 1
  MaxFaults = 1
INVARIANTS TypeOK BatchAddsUp CollectingIsOrdered ReadyKeepsCount RepeatsNeedFaults OrdersReachThreshold
PROPERTIES LargeRowsCollected
