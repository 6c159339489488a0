SPECIFICATION FairSpec
CONSTANTS
  Instances <- MCInstances
  MaxSignals = 4
  MaxCycles = 2
  MaxFaults = 1
  MaxLate = 1
INVARIANTS
  BoxesMatch
PROPERTIES
  NoEarlyEnd
  CycleEnds
CHECK_DEADLOCK FALSE
