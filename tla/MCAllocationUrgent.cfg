SPECIFICATION Spec
CONSTANTS
  Orders <- MCOrders
  Forecasts <- MCForecasts
  Manuals <- MCManuals
  KeyOf <- MCKeyOf
  AsOf = 2
  WindowEnd = 3
  CycleEnd = 4
  Start <- MCStart
  Quantities <- MCQuantities
  Answers <- MCAnswers
  Contracts <- MCContracts
  Capacities <- MCCapacities
  Dues <- MCDues
  MaxChanges = 2
INVARIANT FloorChangeIsUrgent
CHECK_DEADLOCK FALSE
