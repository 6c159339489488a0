SPECIFICATION Spec
CONSTANTS
  L1 = L1
  L2 = L2
  i1 = i1
  Lines <- OneLine
  Instances <- OneInstance
  LineOf <- AllOnL1
  MaxRounds = 1
  MaxChanges = 2
  MaxTrouble = 2
INVARIANTS
  TypeOK
  LineRings
  LineHoldSound
  NothingSwallowed
PROPERTIES
  HeldLineStays
