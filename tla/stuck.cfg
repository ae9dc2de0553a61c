SPECIFICATION FairSpec
CONSTANTS
  t1 = t1
  t2 = t2
  t3 = t3
  t4 = t4
  u1 = u1
  gas = gas
  none = none
  TaskId = {t1, t2, t3, t4}
  SrcTask = {t1, t2}
  NoTask = none
  User = {u1}
  Gas = gas
  MaxFaults = 0
PROPERTIES
  EverySignedBroadcast
