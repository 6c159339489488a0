------------------------- MODULE MCLineCoordination -------------------------
(* LineCoordination with a line that has a forecast instance and one without. *)
EXTENDS LineCoordination

CONSTANTS L1, L2, i1

OneLine == {L1}
TwoLines == {L1, L2}
OneInstance == {i1}
NoInstance == {}
AllOnL1 == [i \in Instances |-> L1]
==============================================================================
