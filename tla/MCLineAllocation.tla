-------------------------- MODULE MCLineAllocation --------------------------
(* LineAllocation with two items: orders and a forecast of company A on both, *)
(* a forecast of company B and a quantity without a company on the first.     *)
EXTENDS LineAllocation, TLC

MCOrders == {1, 2}
MCForecasts == {3, 4}
MCManuals == {5}
Key(company, item) == [company |-> company, item |-> item]
MCKeyOf ==
  <<Key("A", "I1"), Key("A", "I2"), Key("B", "I1"), Key("A", "I2"), Key("none", "I1")>>

MCQuantities == {1, 4}
MCAnswers == {0, 1}
MCGuarantee(q) == {[key |-> Key("A", "I2"), quantity |-> q]}
MCCommitment ==
  {[key |-> Key("A", "I1"), binding |-> TRUE, total |-> 7, taken |-> 1, months |-> 2],
   [key |-> Key("A", "I2"), binding |-> FALSE, total |-> 8, taken |-> 0, months |-> 2]}
MCContracts ==
  {[commitments |-> {}, guarantees |-> MCGuarantee(3)],
   [commitments |-> MCCommitment, guarantees |-> MCGuarantee(2)]}
MCCapacities == {1, 4}
MCDues == {1, 2, 4}

MCStart ==
  [orders |-> (2 :> [backlog |-> 2, due |-> 4]),
   forecasts |-> (3 :> 2) @@ (4 :> 3), manual |-> << >>,
   commitments |-> {}, guarantees |-> MCGuarantee(1),
   wip |-> (2 :> 1), pegs |-> {3}, floorOverrides |-> << >>, pegLimits |-> << >>,
   units |-> [k \in Keys |-> IF k.company = "B" THEN 2 ELSE 1],
   margins |-> ("I1" :> 1) @@ ("I2" :> 2),
   inventory |-> 1, capacity |-> 3]
==============================================================================
