SPECIFICATION FairSpec
CONSTANTS
  i1 = i1
  i2 = i2
  supply_coordination = supply_coordination
  planner = planner
  Instances <- OneInstance
  Receivers <- OneReceiver
  MaxMeans = 1
  MaxEscalations = 2
  MaxCardEdits = 2
  MaxSendBacks = 1
  MaxRestarts = 0
INVARIANTS
  NotBackToReturner
PROPERTIES
  EverySettles
  ImplementsInstanceLife
CHECK_DEADLOCK FALSE
