SPECIFICATION Spec
CONSTANTS
  i1 = i1
  i2 = i2
  supply_coordination = supply_coordination
  planner = planner
  Instances <- OneInstance
  Receivers <- TwoReceivers
  MaxMeans = 1
  MaxEscalations = 2
  MaxCardEdits = 1
  MaxSendBacks = 1
  MaxRestarts = 1
INVARIANTS
  TypeOK
  DoorbellRings
  OneOpenHold
  HoldIsConsistent
  OnlyPassedHandedOn
PROPERTIES
  HeldStaysPut
  ClosedOnce
  HumanValueStands
SYMMETRY Symmetric
CHECK_DEADLOCK FALSE
