SPECIFICATION FairSpec
CONSTANTS
  s1 = s1
  s2 = s2
  s3 = s3
  w1 = w1
  w2 = w2
  NoSignal = NoSignal
  NoTimer = NoTimer
  Signals <- MCSignals
  Workers <- MCWorkers
  Poison <- MCPoison
  AckTimeout = 2
  Fragile <- MCOneFragile
INVARIANTS
  TypeOK
  NoLossNoDuplicate
  FirstDeliveryInOrder
  LeasesHold
PROPERTIES
  ImplementsAtLeastOnce
  OthersGetThrough
  Reappears
CHECK_DEADLOCK FALSE
