----------------------------- MODULE ForecastSteps -----------------------------
(* Forecast's steps 1-4 for one instance and the rerun of them, as pure       *)
(* operators: which assumptions are defined, which months of which sources    *)
(* their training series is made of, which drivers have evidence, which       *)
(* methods remain.  Quantities are left out: a series is the months it covers *)
(* and, month by month, the sources its value was computed from.  That is     *)
(* what decides whether two runs had the same inputs.                         *)
EXTENDS Integers, Sequences, FiniteSets, FiniteSetsExt, Functions

CONSTANTS
  Supplements,    \* the sources beside our own orders; "pos" and "market" are two
  LastMonth,      \* last_complete_month: the last month of every series
  MinHistory,     \* MIN_HISTORY_MONTHS
  HistoryTarget,  \* HISTORY_TARGET_MONTHS
  MinOverlap,     \* MIN_OVERLAP_MONTHS
  TrendLag,       \* TREND_LAG_MONTHS
  TrendMin,       \* TREND_MIN_OBSERVATIONS
  PromoMin,       \* EVENT_MIN_PROMO_MONTHS
  NormalMin,      \* EVENT_MIN_NON_PROMO_MONTHS
  Place,          \* Place[m]: the place of method m among the candidates
  Regression,     \* REGRESSION_METHODS
  Needs,          \* Needs[m]: the months of training method m needs
  MinTrain,       \* MIN_TRAIN_MONTHS
  HoldoutMonths,  \* HOLDOUT_MONTHS
  MinHoldout,     \* MIN_HOLDOUT_MONTHS
  MaxMethods      \* MAX_METHODS_PER_ASSUMPTION

Default == "A-DEFAULT"
Trend == "A-TREND"
Assumptions == {Default, Trend}
Drivers == {"category_trend", "price", "event"}
Orders == "orders"
SameItem == {Orders, "pos"}
Sources == {Orders} \cup Supplements
Months == 1..LastMonth
Methods == DOMAIN Place

ASSUME StepsAssumption ==
  /\ {"pos", "market"} \subseteq Supplements /\ Orders \notin Supplements
  /\ {LastMonth, MinHistory, HistoryTarget, MinOverlap, TrendLag, MinTrain} \subseteq Nat
  /\ {TrendMin, PromoMin, NormalMin, MinHoldout, HoldoutMonths, MaxMethods} \subseteq Nat \ {0}
  /\ Regression \subseteq Methods /\ Place \in [Methods -> Nat] /\ Needs \in [Methods -> Nat]

(* An instance's inputs: a record with                                        *)
(*   orders      the first month with an order (after LastMonth: none)        *)
(*   cut         the month the promotion episodes allow orders and pos from   *)
(*   firstCut    the month after a first order unlike the others, or 1        *)
(*   first       first[s]: the first month source s has (after LastMonth: none)*)
(*   related     the supplements that correlate with the orders               *)
(*   trend       the months from which on the market effect is significant    *)
(*   promotion   a promotion is scheduled for the planned month               *)
(*   promoMonths, normalMonths  the recorded months with and without one      *)
(*   methods     the candidates that the orders' characteristics call for     *)
(*   rank        rank[m]: the place of method m by its past accuracy          *)

------------------------------------------------------------------------------
(* Step 1: the assumptions and the evidence they need *)

\* define_assumptions: the default assumption, the one with the market's trend,
\* and the scheduled promotion as premise of both.
Define(in) ==
  [assumptions |-> [a \in Assumptions |-> IF a = Trend THEN {"category_trend"} ELSE {}],
   event |-> in.promotion]

\* The sources a driver's effect is estimated from; a promotion's are the orders.
EvidenceOf(driver) ==
  IF driver = "category_trend" THEN {"pos", "market"} ELSE {Orders}

\* required_evidence_for
RequiredBy(drivers) == UNION {EvidenceOf(d) : d \in drivers}
RequiredEvidence(live, event) ==
  (UNION {RequiredBy(live[a]) : a \in DOMAIN live}) \cup (IF event THEN {Orders} ELSE {})

\* _assumption_sources: the sources to supplement the assumption from first.
OwnSources(drivers) == RequiredBy(drivers) \ {Orders}

------------------------------------------------------------------------------
(* Step 2: data collection *)

NoAdjustments == [exclude |-> {}, from |-> [s \in Sources |-> 1], force |-> {}]

Starting(m) == {k \in Months : k >= m}

\* The orders that are used.
Base(in, adj) ==
  Starting(Max({in.orders, in.cut, in.firstCut, adj.from[Orders]}))

\* _supplement_candidates
Candidate(in, adj, s) ==
  Starting(Max({in.first[s], adj.from[s], IF s = "pos" THEN in.cut ELSE 1}))

\* _fit_candidates: candidates with enough months in common are fitted to our
\* level, or turn out to be unrelated.
Overlapping(in, adj, base) ==
  {s \in Supplements \ adj.exclude :
     Cardinality(base \cap Candidate(in, adj, s)) >= MinOverlap}
Fitted(in, adj, base) == Overlapping(in, adj, base) \cap in.related
Unrelated(in, adj, base) == Overlapping(in, adj, base) \ in.related

\* _source_tier
Tier(s, own) == IF s \in own THEN 1 ELSE IF s \in SameItem THEN 2 ELSE 3

\* The candidates of the best tier that have a value for the month.
BestOf(having, own) == {s \in having : \A t \in having : Tier(s, own) <= Tier(t, own)}
Having(in, adj, fitted, m) == {s \in fitted : m \in Candidate(in, adj, s)}

\* _fill_backcast: month by month backwards from the first order, until no
\* candidate has a value or the limit is reached.
FillMonths(in, adj, base, fitted, limit) ==
  {m \in Months :
     /\ m < Min(base) /\ Min(base) - m <= limit
     /\ \A k \in m..(Min(base) - 1) : Having(in, adj, fitted, k) # {}}

Fill(in, adj, base, fitted, own, limit) ==
  [m \in FillMonths(in, adj, base, fitted, limit) |->
     BestOf(Having(in, adj, fitted, m), own)]

\* How far a short history is extended.
Lacking(base) ==
  IF Cardinality(base) < MinHistory /\ HistoryTarget > Cardinality(base)
  THEN HistoryTarget - Cardinality(base)
  ELSE 0

\* How far assumption a's is: to the end if a cause asked for more data.
FillLimit(a, adj, base) == IF a \in adj.force THEN LastMonth ELSE Lacking(base)

FillOf(a, in, adj, base, own) ==
  Fill(in, adj, base, Fitted(in, adj, base), own, FillLimit(a, adj, base))

\* The training series.  A value of a supplement depends on the months by which
\* it was fitted to our level.
Series(in, adj, base, fill) ==
  [m \in base \cup DOMAIN fill |->
     IF m \in base THEN {<<Orders, base>>}
     ELSE {<<s, base \cap Candidate(in, adj, s)>> : s \in fill[m]}]

UsedIn(fill) == UNION {fill[m] : m \in DOMAIN fill}

\* training_series: the fill of an assumption without sources of its own.
PlainFill(in, adj, base) ==
  Fill(in, adj, base, Fitted(in, adj, base), {}, Lacking(base))

\* _collect_required_evidence: what could be collected, with its months.  A
\* source that a cause cut down to nothing counts as collected.
Collected(in, adj, required) ==
  {s \in required \ adj.exclude :
     s = Orders \/ Candidate(in, [adj EXCEPT !.from[s] = 1], s) # {}}

Evidence(in, adj, base, required) ==
  [s \in Collected(in, adj, required) |->
     IF s = Orders THEN base ELSE Candidate(in, adj, s)]

\* _unusable_result
NothingUsable(sources) ==
  [usable |-> FALSE, base |-> {}, training |-> <<>>, used |-> <<>>, evidence |-> <<>>,
   sources |-> sources, excluded |-> {}]

\* MUTANT of SourcesNamed: only the sources of training data are named.
OnlyTrainingNamed(in, adj, base, live, required, fills) ==
  {Orders} \cup UNION {UsedIn(fills[a]) : a \in DOMAIN live}

\* The sources that were used, for data_sources.
SourcesNamed(in, adj, base, live, required, fills) ==
  {Orders} \cup UsedIn(PlainFill(in, adj, base))
    \cup (UNION {UsedIn(fills[a]) : a \in DOMAIN live})
    \cup Collected(in, adj, required)

\* collect_instance_data for the assumptions of live.
FilledCollection(in, adj, base, live, required, fills) ==
  [usable |-> TRUE,
   base |-> base,
   training |-> [a \in DOMAIN live |-> Series(in, adj, base, fills[a])],
   used |-> [a \in DOMAIN live |-> UsedIn(fills[a])],
   evidence |-> Evidence(in, adj, base, required),
   sources |-> SourcesNamed(in, adj, base, live, required, fills),
   excluded |-> adj.exclude
                  \cup (IF Cardinality(base) < MinHistory \/ adj.force # {}
                        THEN Unrelated(in, adj, base) ELSE {})]

Collect(in, adj, live, event) ==
  IF in.orders > LastMonth THEN NothingUsable({})
  ELSE IF Base(in, adj) = {} THEN NothingUsable({Orders})
  ELSE FilledCollection(in, adj, Base(in, adj), live, RequiredEvidence(live, event),
         [a \in DOMAIN live |-> FillOf(a, in, adj, Base(in, adj), OwnSources(live[a]))])

\* training_for, evidence_series.get
TrainingFor(coll, a) == IF a \in DOMAIN coll.training THEN coll.training[a] ELSE <<>>
EvidenceFor(coll, s) == IF s \in DOMAIN coll.evidence THEN coll.evidence[s] ELSE {0}

\* _uses_source
UsesSource(a, drivers, s, coll) ==
  \/ s = Orders
  \/ s \in OwnSources(drivers)
  \/ a \in DOMAIN coll.used /\ s \in coll.used[a]

------------------------------------------------------------------------------
(* Step 3: the drivers are checked *)

\* The months with a change of our demand and of the market TrendLag earlier.
Paired(coll) ==
  {m \in coll.evidence["pos"] :
     m - 1 \in coll.evidence["pos"]
       /\ {m - TrendLag, m - TrendLag - 1} \subseteq coll.evidence["market"]}

\* estimate_category_trend: enough months, and an effect that is significant.
TrendHolds(in, coll) ==
  /\ {"pos", "market"} \subseteq DOMAIN coll.evidence
  /\ Cardinality(Paired(coll)) >= TrendMin
  /\ Min(Paired(coll)) \in in.trend

\* check_event_records
EventHolds(in, coll) ==
  /\ Cardinality(in.promoMonths \cap coll.base) >= PromoMin
  /\ Cardinality(in.normalMonths \cap coll.base) >= NormalMin

FailedDrivers(live, event, in, coll) ==
  {d \in UNION Range(live) : d = "category_trend" /\ ~TrendHolds(in, coll)}
    \cup {d \in {"event"} : event /\ ~EventHolds(in, coll)}

\* An assumption is out with a driver that failed, a premise is out alone.
Without(live, event, failed) ==
  [assumptions |-> Restrict(live, {a \in DOMAIN live : live[a] \cap failed = {}}),
   event |-> event /\ "event" \notin failed,
   undriven |-> {a \in DOMAIN live : live[a] \cap failed # {}}]

\* check_drivers
CheckDrivers(live, event, in, coll) ==
  Without(live, event, IF coll.usable THEN FailedDrivers(live, event, in, coll) ELSE {})

------------------------------------------------------------------------------
(* Step 4: methods are selected and the values calculated *)

\* build_regressors: the months for which the drivers have a value.
WithDrivers(drivers, event, in, coll) ==
  {m \in Months :
     /\ event => m \in in.promoMonths \cup in.normalMonths
     /\ "category_trend" \in drivers =>
          {m - TrendLag, m - TrendLag - 1} \subseteq EvidenceFor(coll, "market")}

\* The members of ms that come first by place.
FirstBy(place, ms, count) ==
  {m \in ms : Cardinality({k \in ms : place[k] <= place[m]}) <= count}

Latest(months, count) == {m \in months : Cardinality({k \in months : k >= m}) <= count}

\* candidate_methods, and with drivers only those that can take them in.
CandidateMethods(drivers, event, in, excluded) ==
  (in.methods \ excluded) \cap (IF drivers # {} \/ event THEN Regression ELSE Methods)

\* _origins: the observed months the accuracy is measured on.
Origins(training, usable, coll) ==
  Latest({m \in coll.base \cap usable :
            Cardinality({k \in DOMAIN training : k < m}) >= MinTrain}, HoldoutMonths)

\* forecast_value does not raise for want of months.
Computable(ms, training, usable, before) ==
  {m \in ms : Needs[m] <= Cardinality({k \in DOMAIN training : k < before}
                              \cap (IF m \in Regression THEN usable ELSE Months))}

\* select_methods: with too few months to measure on the first candidates, else
\* the most accurate of those that can be measured everywhere.
SelectMethods(ms, training, usable, origins, in) ==
  IF Cardinality(origins) < MinHoldout
  THEN FirstBy(Place, ms, MaxMethods)
  ELSE FirstBy(in.rank, Computable(ms, training, usable, Min(origins)), MaxMethods)

\* The methods that were selected and give a value.
MethodsFor(ms, training, usable, in, coll) ==
  Computable(SelectMethods(ms, training, usable, Origins(training, usable, coll), in),
             training, usable, LastMonth + 1)

\* _calculate_one: the methods of assumption a's value; none: there is no value.
CalculateOne(a, drivers, event, in, coll, excluded) ==
  MethodsFor(CandidateMethods(drivers, event, in, excluded), TrainingFor(coll, a),
             WithDrivers(drivers, event, in, coll), in, coll)

\* An assumption without drivers is calculated without the premise rather than
\* not at all.
WithOrWithout(found, a, drivers, event, in, coll, excluded) ==
  IF found = {} /\ event /\ drivers = {}
  THEN CalculateOne(a, drivers, FALSE, in, coll, excluded) ELSE found

\* select_methods_and_calculate_values, before assumptions without one are sorted out.
Calculate(check, in, coll, excluded) ==
  IF ~coll.usable THEN <<>>
  ELSE [a \in DOMAIN check.assumptions |->
          WithOrWithout(CalculateOne(a, check.assumptions[a], check.event, in, coll, excluded[a]),
                        a, check.assumptions[a], check.event, in, coll, excluded[a])]

Computed(values) == {a \in DOMAIN values : values[a] # {}}

------------------------------------------------------------------------------
(* The first run *)

NothingExcluded == [a \in Assumptions |-> {}]

\* _fingerprint: the inputs of an assumption.
Fingerprint(a, drivers, coll, excluded) ==
  [drivers |-> drivers,
   training |-> TrainingFor(coll, a),
   evidence |-> [s \in RequiredBy(drivers) |-> EvidenceFor(coll, s)],
   excluded |-> excluded]

Fingerprints(check, coll, excluded) ==
  [a \in DOMAIN check.assumptions |->
     Fingerprint(a, check.assumptions[a], coll, excluded[a])]

\* ForecastStepsResult
ResultOf(defined, coll, check, values, adj, dropped, prints) ==
  [defined |-> defined, coll |-> coll, check |-> check, adj |-> adj, dropped |-> dropped,
   values |-> Restrict(values, Computed(values)),
   lacking |-> DOMAIN values \ Computed(values), prints |-> prints]

Checked(defined, in, coll, check) ==
  ResultOf(defined, coll, check, Calculate(check, in, coll, NothingExcluded),
           NoAdjustments, {}, Fingerprints(check, coll, NothingExcluded))

CollectedFirst(defined, in, coll) ==
  Checked(defined, in, coll, CheckDrivers(defined.assumptions, defined.event, in, coll))

\* run_forecast_steps
RunForecastSteps(in) ==
  CollectedFirst(Define(in), in,
    Collect(in, NoAdjustments, Define(in).assumptions, Define(in).event))

------------------------------------------------------------------------------
(* ForecastRerunHandling.rerun: causes is a sequence of records              *)
(*   [type, issue, of, drivers, source, month]                               *)

\* live_ids
Live(result) == DOMAIN result.defined.assumptions \ result.dropped

\* targets_of
Targets(c, prev) ==
  IF c.type = "assumption" THEN {c.of}
  ELSE IF c.type = "method_selection" \/ c.source = "none" THEN Live(prev)
  ELSE {a \in Live(prev) :
          UsesSource(a, prev.defined.assumptions[a], c.source, prev.coll)}

AllTargets(causes, prev) == UNION {Targets(c, prev) : c \in Range(causes)}

OfType(causes, type) == {c \in Range(causes) : c.type = type}

\* redefine_assumptions raises: a cause names an assumption that is not defined.
Undefined(causes, prev) ==
  {c.of : c \in OfType(causes, "assumption")} \ DOMAIN prev.defined.assumptions # {}

\* The drivers of assumption a that causes take away.
Covered(a, causes) ==
  UNION {c.drivers : c \in {k \in OfType(causes, "assumption") : k.of = a}}

Named(causes) == {c.of : c \in OfType(causes, "assumption")}

\* redefine_assumptions: a named assumption stays if drivers remain.
Remaining(defined, causes) ==
  {a \in DOMAIN defined.assumptions :
     a \in Named(causes) => defined.assumptions[a] \ Covered(a, causes) # {}}

Redefine(defined, causes) ==
  [defined EXCEPT !.assumptions =
     [a \in Remaining(defined, causes) |-> defined.assumptions[a] \ Covered(a, causes)]]

\* The causes about data that have somebody to act on.
Acting(causes, prev) ==
  {i \in DOMAIN causes : causes[i].type = "data_source" /\ Targets(causes[i], prev) # {}}

\* The last date that a cause gives for source s.
DateFor(s, causes, is, old) ==
  LET dated == {i \in is : causes[i].issue = "outdated" /\ causes[i].source = s}
  IN IF dated = {} THEN old ELSE causes[Max(dated)].month

\* SourceAdjustments after the causes.  The orders cannot be excluded.
Adjusted(adj, causes, prev) ==
  LET is == Acting(causes, prev)
      bad == {i \in is : causes[i].issue \in {"contaminated", "irrelevant"}}
  IN [force |-> adj.force \cup UNION {Targets(causes[i], prev) :
                                       i \in {k \in is : causes[k].issue = "insufficient"}},
      exclude |-> adj.exclude \cup ({causes[i].source : i \in bad} \ {Orders}),
      from |-> [s \in Sources |-> DateFor(s, causes, is, adj.from[s])]]

\* MUTANT of Excluding: the methods tried before may come back.
OnlyTheLastMethods(excluded, causes, prev) ==
  [a \in Assumptions |->
     IF OfType(causes, "method_selection") # {} /\ a \in Live(prev) \cap DOMAIN prev.values
     THEN prev.values[a] ELSE excluded[a]]

\* _method_exclusions: what the last value of a target was calculated with.
Excluding(excluded, causes, prev) ==
  [a \in Assumptions |->
     IF OfType(causes, "method_selection") # {} /\ a \in Live(prev) \cap DOMAIN prev.values
     THEN excluded[a] \cup prev.values[a] ELSE excluded[a]]

\* MUTANT of Unchanged: whoever has the same inputs is given up, target or not.
AnybodyUnchanged(check, coll, excluded, causes, prev) ==
  {a \in DOMAIN check.assumptions \cap DOMAIN prev.prints :
     prev.prints[a] = Fingerprint(a, check.assumptions[a], coll, excluded[a])}

\* The targets whose inputs are what they were: nothing can be done for them.
Unchanged(check, coll, excluded, causes, prev) ==
  {a \in DOMAIN check.assumptions \cap AllTargets(causes, prev) :
     /\ a \in DOMAIN prev.prints
     /\ prev.prints[a] = Fingerprint(a, check.assumptions[a], coll, excluded[a])}

Keep(check, dropped) ==
  [check EXCEPT !.assumptions = Restrict(@, DOMAIN @ \ dropped)]

\* The end of rerun: with a cause about the methods, who has none left is dropped.
Finished(defined, coll, check, values, adj, dropped, prints, excluded, causes) ==
  LET out == {a \in DOMAIN values \ Computed(values) :
                OfType(causes, "method_selection") # {} /\ excluded[a] # {}}
  IN [ResultOf(defined, coll, check, values, adj, dropped \cup out, prints)
        EXCEPT !.lacking = @ \ out]

\* select_methods_and_calculate_values for whoever is left.
Recalculated(in, defined, coll, check, adj, dropped, prints, excluded, causes) ==
  Finished(defined, coll, check, Calculate(check, in, coll, excluded), adj, dropped, prints,
           excluded, causes)

\* The comparison with the last rerun.
Compared(in, prev, defined, coll, check, adj, dropped, excluded, causes) ==
  LET out == dropped \cup Unchanged(check, coll, excluded, causes, prev)
  IN Recalculated(in, defined, coll, Keep(check, out), adj, out,
                  Fingerprints(check, coll, excluded), excluded, causes)

\* Steps 2 and 3 anew; if no orders are left, everybody is dropped.
Recollected(in, prev, defined, coll, adj, dropped, excluded, causes) ==
  LET out == IF coll.usable THEN dropped ELSE dropped \cup DOMAIN defined.assumptions
      live == Restrict(defined.assumptions, DOMAIN defined.assumptions \ out)
  IN Compared(in, prev, defined, coll, CheckDrivers(live, defined.event, in, coll), adj,
              out, excluded, causes)

\* A rerun about the methods only uses the data as they are.
Resumed(in, prev, defined, adj, dropped, excluded, causes) ==
  LET live == Restrict(defined.assumptions, DOMAIN defined.assumptions \ dropped)
  IN IF Range(causes) = OfType(causes, "method_selection")
     THEN Compared(in, prev, defined, prev.coll, Keep(prev.check, dropped), adj, dropped,
                   excluded, causes)
     ELSE Recollected(in, prev, defined, Collect(in, adj, live, defined.event), adj, dropped,
                      excluded, causes)

\* MUTANT of DroppedBefore: a rerun starts from a list of its own.
DroppedAnew(prev, causes) ==
  DOMAIN prev.defined.assumptions \ Remaining(prev.defined, causes)

\* Who is out before step 2: dropped before, or without a driver now.
DroppedBefore(prev, causes) ==
  prev.dropped \cup (DOMAIN prev.defined.assumptions \ Remaining(prev.defined, causes))

\* rerun; excluded are the handling's method exclusions, these causes included.
Rerun(in, prev, excluded, causes) ==
  Resumed(in, prev, Redefine(prev.defined, causes), Adjusted(prev.adj, causes, prev),
          DroppedBefore(prev, causes), excluded, causes)
==============================================================================
