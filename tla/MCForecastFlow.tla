---------------------------- MODULE MCForecastFlow ---------------------------
(* ForecastFlow with one or two instances and one or two receivers (the code  *)
(* has supply_coordination; a second one makes the choice of the next agent a *)
(* choice).                                                                   *)
EXTENDS ForecastFlow, TLC

CONSTANTS i1, i2, supply_coordination, planner

OneInstance == {i1}
TwoInstances == {i1, i2}
OneReceiver == {supply_coordination}
TwoReceivers == {supply_coordination, planner}
Symmetric == Permutations(Instances) \cup Permutations(Receivers)
==============================================================================
