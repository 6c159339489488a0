SPECIFICATION Spec
CONSTANTS
  Supplements <- MCSupplements
  LastMonth = 6
  MinHistory = 4
  HistoryTarget = 5
  MinOverlap = 2
  TrendLag = 1
  TrendMin = 2
  PromoMin = 1
  NormalMin = 2
  Place <- MCPlace
  Regression <- MCRegression
  Needs <- MCNeeds
  MinTrain = 2
  HoldoutMonths = 2
  MinHoldout = 2
  MaxMethods = 2
  Inputs <- MCInputs
  Requests <- MCRequests
  MaxFaults = 1
  MaxRestarts = 1
  MaxAnswers = 1
INVARIANTS
  TypeOK
  AccountedFor
  EvidenceNamed
PROPERTIES
  SettlesDown
  DroppedStays
  ScopeKept
CHECK_DEADLOCK FALSE
