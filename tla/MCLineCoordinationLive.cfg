SPECIFICATION FairSpec
CONSTANTS
  L1 = L1
  L2 = L2
  i1 = i1
  Lines <- TwoLines
  Instances <- NoInstance
  LineOf <- AllOnL1
  MaxRounds = 2
  MaxChanges = 1
  MaxTrouble = 1
PROPERTIES
  EveryLineServed
