---------------------------- MODULE MCPlanningCycle ----------------------------
(* Two instances, one line, one validation agent; a second cycle after any    *)
(* end of the first.                                                          *)
EXTENDS PlanningCycle

MCInstances == {"A", "B"}
==============================================================================
