SPECIFICATION Spec
CONSTANTS
  u1 = u1  k1 = k1  gas = gas  none = none
  SrcId <- OneRow
  User = {u1}
  Token = {k1}
  Threshold <- Thresholds
  MaxCnt = 1
  TaskId <- FiveTasks
  NoTask = none
  Gas = gas
  MaxFaults = 1
INVARIANTS TypeOK  ExtraTransfersNeedFaults
