---------------------------- MODULE MCForecastRerun ----------------------------
(* Three instances with six months: a long history and a scheduled promotion,  *)
(* a history too short that the supplements extend, and no orders that can be *)
(* used.                                                                      *)
EXTENDS ForecastRerun

MCSupplements == {"pos", "market", "similar"}
MCPlace == ("ets" :> 1) @@ ("naive" :> 2) @@ ("regression" :> 3) @@ ("regression_ar1" :> 4)
MCRegression == {"regression", "regression_ar1"}
MCNeeds == ("ets" :> 1) @@ ("naive" :> 1) @@ ("regression" :> 2) @@ ("regression_ar1" :> 3)

Long ==
  [orders |-> 2, cut |-> 1, firstCut |-> 1,
   first |-> ("pos" :> 1) @@ ("market" :> 1) @@ ("similar" :> 1),
   related |-> {"pos", "similar"}, trend |-> 1..6, promotion |-> TRUE,
   promoMonths |-> {3}, normalMonths |-> {2, 4, 5, 6},
   methods |-> DOMAIN MCPlace,
   rank |-> ("naive" :> 1) @@ ("regression" :> 2) @@ ("ets" :> 3) @@ ("regression_ar1" :> 4)]

Short == [Long EXCEPT !.orders = 4, !.promotion = FALSE, !.promoMonths = {},
                      !.normalMonths = 4..6, !.related = MCSupplements,
                      !.first = ("pos" :> 2) @@ ("market" :> 1) @@ ("similar" :> 1)]
Unusable == [Long EXCEPT !.orders = 5, !.cut = 7]

MCInputs == {Long, Short, Unusable}

Data(issue, source, month) ==
  [type |-> "data_source", issue |-> issue, of |-> "none", drivers |-> {},
   source |-> source, month |-> month]
Method == [type |-> "method_selection", issue |-> "none", of |-> "none", drivers |-> {},
           source |-> "none", month |-> 1]

\* One cause, or two about different steps.
MCRequests ==
  {<<AssumptionCause(Trend, Drivers)>>, <<AssumptionCause(Default, {"event"})>>,
   <<Method>>,
   <<Data("insufficient", "none", 1)>>,
   <<Data("contaminated", "pos", 1)>>,
   <<Data("irrelevant", "market", 1)>>,
   <<Data("outdated", "pos", 4)>>,
   <<Data("outdated", "orders", 4)>>,
   <<Method, Data("contaminated", "similar", 1)>>,
   <<Data("outdated", "pos", 4), Data("outdated", "pos", 3)>>}

==============================================================================
