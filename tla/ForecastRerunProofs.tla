-------------------------- MODULE ForecastRerunProofs --------------------------
(* Proofs about ForecastRerun: whatever reruns, restarts and people do to one *)
(* instance, its record accounts for every assumption (AccountedFor), a value *)
(* that awaits its judgement names its evidence (EvidenceNamed), what was     *)
(* dropped for a suspected cause does not come back (DroppedStays), and a     *)
(* rerun leaves alone what no cause concerns (ScopeKept).                     *)
EXTENDS ForecastRerun, FiniteSums

------------------------------------------------------------------------------
(* The inductive invariant *)

\* What is checked: of the drivers that are left each has its evidence.
CheckSound(check, coll) ==
  /\ check = [assumptions |-> check.assumptions, event |-> check.event,
              undriven |-> check.undriven]
  /\ DOMAIN check.assumptions \subseteq Assumptions /\ check.undriven \subseteq Assumptions
  /\ \A a \in DOMAIN check.assumptions :
       /\ check.assumptions[a] \subseteq {"category_trend"}
       /\ coll.usable => \A d \in check.assumptions[a] : DeclaredEvidence(d) \in coll.sources

DefinedSound(defined) ==
  /\ defined = [assumptions |-> defined.assumptions, event |-> defined.event]
  /\ DOMAIN defined.assumptions \subseteq Assumptions
  /\ \A a \in DOMAIN defined.assumptions : defined.assumptions[a] \subseteq {"category_trend"}

\* Every assumption is dropped, or still defined and, of those, checked.
Divided(defined, check, dropped) ==
  /\ dropped \cup DOMAIN defined.assumptions = Assumptions
  /\ dropped \cup DOMAIN check.assumptions \cup check.undriven = Assumptions

\* The methods of the values; a value needs usable orders.
ValuesSound(values, check, coll) ==
  /\ DOMAIN values \subseteq DOMAIN check.assumptions
  /\ \A a \in DOMAIN values : values[a] \subseteq Methods
  /\ DOMAIN values # {} => coll.usable

ResultSound(r) ==
  /\ DefinedSound(r.defined) /\ CheckSound(r.check, r.coll)
  /\ Divided(r.defined, r.check, r.dropped)
  /\ ValuesSound(r.values, r.check, r.coll)
  /\ DOMAIN r.values \cap r.dropped = {}
  /\ r.lacking \subseteq Assumptions
  /\ r.coll.sources \subseteq Sources

\* There were orders to use.
OrdersFor(i) == i.orders <= LastMonth /\ Base(i, NoAdjustments) # {}

\* What became of every assumption; without usable orders all of them are dropped.
Complete(r) ==
  /\ r.dropped \cup DOMAIN r.values \cup r.lacking \cup r.check.undriven = Assumptions
  /\ r.coll.usable \/ r.dropped = Assumptions

HandlingSound(h) ==
  /\ ResultSound(h.result)
  /\ OrdersFor(in) => Complete(h.result)
  /\ h.excluded \in [Assumptions -> SUBSET Methods]

RecordType ==
  [assumptions : UNION {[S -> [drivers : SUBSET Drivers, methods : SUBSET Methods]] :
                          S \in SUBSET Assumptions},
   excluded : SUBSET Assumptions, undriven : SUBSET Assumptions, sources : SUBSET Sources,
   scenario : {"none", "rule", "human"}]

Typed ==
  /\ in \in Inputs
  /\ handling # NotRun => HandlingSound(handling)
  /\ record \in RecordType
  /\ verdict \in {"none", "failed", "passed", "sent_back"}
  /\ (causes = <<>>) = (verdict \in {"none", "passed"})
  /\ \A c \in Range(causes) : WellFormed(c)
  /\ hold \in Holds

\* Somebody has judged only what has a value.
Judged == verdict # "none" => record.scenario # "none"

\* A run has written the record.
Written == record # NoRecord \/ hold \notin {"none", "forecast_run_error"}

Ran == handling # NotRun => Written

Accounted ==
  Written /\ OrdersFor(in) =>
    Assumptions \subseteq DOMAIN record.assumptions \cup record.excluded \cup record.undriven

\* What nobody has judged yet, unless people have to decide about an old value.
Backed ==
  verdict = "none" /\ hold # "options_exhausted" =>
    \A a \in DOMAIN record.assumptions : Unbacked(a) = {}

Inv == Typed /\ Judged /\ Ran /\ Accounted /\ Backed

------------------------------------------------------------------------------
(* Steps 2 to 4 *)

LEMMA StepsFacts ==
  /\ SameItem \subseteq Sources /\ {"pos", "market", Orders} \subseteq Sources
  /\ Supplements \subseteq Sources /\ Regression \subseteq Methods
  /\ \A d : EvidenceOf(d) \subseteq {"pos", "market", Orders}
BY StepsAssumption DEF SameItem, Sources, EvidenceOf

\* Restrict, field by field.
LEMMA Restricted ==
  ASSUME NEW f, NEW S
  PROVE  DOMAIN Restrict(f, S) = S /\ \A x \in S : Restrict(f, S)[x] = f[x]
BY DEF Restrict

\* What a history is extended with comes from the supplements.
LEMMA FillOfSupplements ==
  ASSUME NEW a, NEW i, NEW adj, NEW base, NEW own
  PROVE  /\ UsedIn(FillOf(a, i, adj, base, own)) \subseteq Supplements
         /\ UsedIn(PlainFill(i, adj, base)) \subseteq Supplements
<1>1. Fitted(i, adj, base) \subseteq Supplements
  BY DEF Fitted, Overlapping
<1>2. ASSUME NEW fitted, fitted \subseteq Supplements, NEW own1, NEW limit
      PROVE  UsedIn(Fill(i, adj, base, fitted, own1, limit)) \subseteq Supplements
  <2>1. \A m : BestOf(Having(i, adj, fitted, m), own1) \subseteq fitted
    BY DEF BestOf, Having
  <2>2. \A m \in DOMAIN Fill(i, adj, base, fitted, own1, limit) :
          Fill(i, adj, base, fitted, own1, limit)[m] \subseteq fitted
    BY <2>1 DEF Fill
  <2> QED BY <1>2, <2>2 DEF UsedIn
<1> QED BY <1>1, <1>2 DEF FillOf, PlainFill

\* The sources a collection names; they include all that was collected as evidence.
LEMMA CollectionNames ==
  ASSUME NEW i, NEW adj, NEW live, NEW event
  PROVE  /\ Collect(i, adj, live, event).sources \subseteq Sources
         /\ Collect(i, adj, live, event).usable =>
              DOMAIN Collect(i, adj, live, event).evidence
                \subseteq Collect(i, adj, live, event).sources
<1>1. ASSUME NEW s
      PROVE  NothingUsable(s).sources = s /\ ~NothingUsable(s).usable
  BY DEF NothingUsable
<1>2. Orders \in Sources
  BY DEF Sources
<1>3. ASSUME NEW base, NEW fills,
             \A a \in DOMAIN live : UsedIn(fills[a]) \subseteq Supplements
      PROVE  LET c == FilledCollection(i, adj, base, live, RequiredEvidence(live, event), fills)
             IN  c.sources \subseteq Sources /\ DOMAIN c.evidence \subseteq c.sources
  <2> DEFINE required == RequiredEvidence(live, event)
  <2>1. required \subseteq Sources
    BY StepsFacts DEF RequiredEvidence, RequiredBy
  <2> HIDE DEF required
  <2>2. Collected(i, adj, required) \subseteq Sources
    BY <2>1 DEF Collected
  <2>3. UsedIn(PlainFill(i, adj, base)) \subseteq Sources
    BY FillOfSupplements, StepsFacts
  <2>4. UNION {UsedIn(fills[a]) : a \in DOMAIN live} \subseteq Sources
    BY <1>3, StepsFacts
  <2>5. /\ SourcesNamed(i, adj, base, live, required, fills) \subseteq Sources
        /\ Collected(i, adj, required) \subseteq SourcesNamed(i, adj, base, live, required, fills)
    BY <1>2, <2>2, <2>3, <2>4 DEF SourcesNamed
  <2>6. DOMAIN Evidence(i, adj, base, required) = Collected(i, adj, required)
    BY DEF Evidence
  <2>7. /\ FilledCollection(i, adj, base, live, required, fills).sources
             = SourcesNamed(i, adj, base, live, required, fills)
        /\ FilledCollection(i, adj, base, live, required, fills).evidence
             = Evidence(i, adj, base, required)
    BY DEF FilledCollection
  <2> QED BY <2>5, <2>6, <2>7 DEF required
<1>4. CASE i.orders > LastMonth
  BY <1>1, <1>4 DEF Collect
<1>5. CASE ~(i.orders > LastMonth) /\ Base(i, adj) = {}
  BY <1>1, <1>2, <1>5 DEF Collect
<1>6. CASE ~(i.orders > LastMonth) /\ Base(i, adj) # {}
  <2> DEFINE fills == [a \in DOMAIN live |-> FillOf(a, i, adj, Base(i, adj), OwnSources(live[a]))]
  <2>1. \A a \in DOMAIN live : UsedIn(fills[a]) \subseteq Supplements
    BY FillOfSupplements
  <2>2. Collect(i, adj, live, event)
          = FilledCollection(i, adj, Base(i, adj), live, RequiredEvidence(live, event), fills)
    BY <1>6 DEF Collect
  <2> HIDE DEF fills
  <2> QED BY <1>3, <2>1, <2>2
<1> QED BY <1>4, <1>5, <1>6

\* check_drivers sorts the assumptions, and leaves a driver only with its evidence.
LEMMA DriversChecked ==
  ASSUME NEW live, NEW event, NEW i, NEW coll,
         DOMAIN live \subseteq Assumptions,
         \A a \in DOMAIN live : live[a] \subseteq {"category_trend"},
         coll.usable => DOMAIN coll.evidence \subseteq coll.sources
  PROVE  /\ CheckSound(CheckDrivers(live, event, i, coll), coll)
         /\ DOMAIN CheckDrivers(live, event, i, coll).assumptions
              \cup CheckDrivers(live, event, i, coll).undriven = DOMAIN live
<1> DEFINE failed == IF coll.usable THEN FailedDrivers(live, event, i, coll) ELSE {}
           kept == {a \in DOMAIN live : live[a] \cap failed = {}}
           check == CheckDrivers(live, event, i, coll)
<1>1. check = [assumptions |-> Restrict(live, kept), event |-> event /\ "event" \notin failed,
               undriven |-> {a \in DOMAIN live : live[a] \cap failed # {}}]
  BY DEF CheckDrivers, Without
<1>2. ASSUME coll.usable, NEW a \in kept, NEW d \in live[a]
      PROVE  DeclaredEvidence(d) \in coll.sources
  <2>1. d = "category_trend" /\ d \in UNION Range(live)
    BY DEF Range
  <2>2. d \notin FailedDrivers(live, event, i, coll)
    BY <1>2
  <2>3. TrendHolds(i, coll)
    BY <2>1, <2>2 DEF FailedDrivers
  <2> QED BY <1>2, <2>1, <2>3 DEF TrendHolds, DeclaredEvidence
<1> HIDE DEF failed
<1>3. /\ check.assumptions = Restrict(live, kept)
      /\ check.undriven = {a \in DOMAIN live : live[a] \cap failed # {}}
      /\ check = [assumptions |-> check.assumptions, event |-> check.event,
                  undriven |-> check.undriven]
  BY <1>1
<1> HIDE DEF check
<1>4. DOMAIN check.assumptions = kept /\ \A a \in kept : check.assumptions[a] = live[a]
  BY <1>3, Restricted
<1> QED BY <1>2, <1>3, <1>4 DEF CheckSound, check

\* The methods of a value are methods.
LEMMA MethodsAre ==
  ASSUME NEW a, NEW drivers, NEW event, NEW i, NEW coll, NEW excluded
  PROVE  CalculateOne(a, drivers, event, i, coll, excluded) \subseteq Methods
<1>1. CandidateMethods(drivers, event, i, excluded) \subseteq Methods
  BY StepsFacts DEF CandidateMethods
<1>2. \A ms, training, usable, before :
        Computable(ms, training, usable, before) \subseteq ms
  BY DEF Computable
<1>3. \A place, ms, count : FirstBy(place, ms, count) \subseteq ms
  BY DEF FirstBy
<1>4. \A ms, training, usable, origins :
        SelectMethods(ms, training, usable, origins, i) \subseteq ms
  BY <1>2, <1>3 DEF SelectMethods
<1>5. \A ms, training, usable : MethodsFor(ms, training, usable, i, coll) \subseteq ms
  BY <1>2, <1>4 DEF MethodsFor
<1> QED BY <1>1, <1>5 DEF CalculateOne

\* Every checked assumption gets a value, or none; if there are orders to use.
LEMMA Calculated ==
  ASSUME NEW check, NEW i, NEW coll, NEW excluded
  PROVE  /\ ~coll.usable => DOMAIN Calculate(check, i, coll, excluded) = {}
         /\ coll.usable => DOMAIN Calculate(check, i, coll, excluded) = DOMAIN check.assumptions
         /\ \A a \in DOMAIN Calculate(check, i, coll, excluded) :
              Calculate(check, i, coll, excluded)[a] \subseteq Methods
<1>1. CASE ~coll.usable
  BY <1>1 DEF Calculate
<1>2. CASE coll.usable
  <2>1. \A a : WithOrWithout(
                 CalculateOne(a, check.assumptions[a], check.event, i, coll, excluded[a]),
                 a, check.assumptions[a], check.event, i, coll, excluded[a]) \subseteq Methods
    BY MethodsAre DEF WithOrWithout
  <2> QED BY <1>2, <2>1 DEF Calculate
<1> QED BY <1>1, <1>2

------------------------------------------------------------------------------
(* The results of runs *)

\* ForecastStepsResult, by what a run has found.
LEMMA ResultSounds ==
  ASSUME NEW defined, NEW coll, NEW check, NEW values, NEW adj, NEW dropped, NEW prints,
         DefinedSound(defined), CheckSound(check, coll), Divided(defined, check, dropped),
         coll.sources \subseteq Sources,
         DOMAIN check.assumptions \cap dropped \cap Computed(values) = {},
         DOMAIN values \subseteq DOMAIN check.assumptions,
         \A a \in DOMAIN values : values[a] \subseteq Methods,
         DOMAIN values # {} => coll.usable
  PROVE  /\ ResultSound(ResultOf(defined, coll, check, values, adj, dropped, prints))
         /\ \/ coll.usable /\ DOMAIN values = DOMAIN check.assumptions
            \/ dropped = Assumptions
            => Complete(ResultOf(defined, coll, check, values, adj, dropped, prints))
<1> DEFINE r == ResultOf(defined, coll, check, values, adj, dropped, prints)
<1>1. /\ r.defined = defined /\ r.coll = coll /\ r.check = check /\ r.dropped = dropped
      /\ r.values = Restrict(values, Computed(values))
      /\ r.lacking = DOMAIN values \ Computed(values)
  BY DEF ResultOf
<1> HIDE DEF r
<1>2. Computed(values) \subseteq DOMAIN values
  BY DEF Computed
<1>3. /\ DOMAIN r.values = Computed(values)
      /\ \A a \in Computed(values) : r.values[a] = values[a]
  BY <1>1, Restricted
<1>4. DOMAIN check.assumptions \subseteq Assumptions /\ check.undriven \subseteq Assumptions
  BY DEF CheckSound
<1>5. ValuesSound(r.values, check, coll)
  BY <1>2, <1>3 DEF ValuesSound
<1>6. ResultSound(r)
  BY <1>1, <1>2, <1>3, <1>4, <1>5 DEF ResultSound
<1>7. dropped \subseteq Assumptions
  BY DEF Divided
<1>8. ASSUME \/ coll.usable /\ DOMAIN values = DOMAIN check.assumptions
             \/ dropped = Assumptions
      PROVE  Complete(r)
  <2>1. dropped \cup DOMAIN check.assumptions \cup check.undriven = Assumptions
    BY DEF Divided
  <2> QED BY <1>1, <1>2, <1>3, <1>4, <1>7, <1>8, <2>1 DEF Complete
<1> QED BY <1>6, <1>8 DEF r

\* run_forecast_steps
LEMMA FirstSound ==
  ASSUME NEW i \in Inputs
  PROVE  /\ ResultSound(RunForecastSteps(i))
         /\ OrdersFor(i) => Complete(RunForecastSteps(i))
<1> DEFINE defined == Define(i)
           coll == Collect(i, NoAdjustments, defined.assumptions, defined.event)
           check == CheckDrivers(defined.assumptions, defined.event, i, coll)
           values == Calculate(check, i, coll, NothingExcluded)
           r == RunForecastSteps(i)
<1>1. /\ DefinedSound(defined) /\ DOMAIN defined.assumptions = Assumptions
      /\ \A a \in DOMAIN defined.assumptions : defined.assumptions[a] \subseteq {"category_trend"}
  BY DEF Define, DefinedSound
<1>2. coll.sources \subseteq Sources /\ (coll.usable => DOMAIN coll.evidence \subseteq coll.sources)
  BY CollectionNames
<1>3. OrdersFor(i) => coll.usable
  <2>1. ASSUME i.orders <= LastMonth, Base(i, NoAdjustments) # {}
        PROVE  coll.usable
    <3>1. ~(i.orders > LastMonth)
      BY <2>1, RerunAssumption, StepsAssumption
    <3> QED BY <3>1, <2>1 DEF Collect, FilledCollection
  <2> QED BY <2>1 DEF OrdersFor
<1> HIDE DEF coll, defined
<1>4. /\ CheckSound(check, coll)
      /\ DOMAIN check.assumptions \cup check.undriven = Assumptions
  BY <1>1, <1>2, DriversChecked
<1> HIDE DEF check
<1>5. /\ ~coll.usable => DOMAIN values = {}
      /\ coll.usable => DOMAIN values = DOMAIN check.assumptions
      /\ \A a \in DOMAIN values : values[a] \subseteq Methods
  BY Calculated
<1> HIDE DEF values
<1>6. Divided(defined, check, {})
  BY <1>1, <1>4 DEF Divided
<1>7. r = ResultOf(defined, coll, check, values, NoAdjustments, {},
                   Fingerprints(check, coll, NothingExcluded))
  BY DEF RunForecastSteps, CollectedFirst, Checked, coll, defined, check, values
<1>8. /\ ResultSound(ResultOf(defined, coll, check, values, NoAdjustments, {},
                              Fingerprints(check, coll, NothingExcluded)))
      /\ \/ coll.usable /\ DOMAIN values = DOMAIN check.assumptions
         \/ {} = Assumptions
         => Complete(ResultOf(defined, coll, check, values, NoAdjustments, {},
                              Fingerprints(check, coll, NothingExcluded)))
  BY <1>1, <1>2, <1>4, <1>5, <1>6, ResultSounds
<1> QED BY <1>3, <1>5, <1>7, <1>8

\* The end of a rerun: nobody who was dropped has a value.
LEMMA FinishedSound ==
  ASSUME NEW i, NEW defined, NEW coll, NEW check, NEW adj, NEW dropped, NEW prints,
         NEW excluded, NEW cs,
         DefinedSound(defined), CheckSound(check, coll), Divided(defined, check, dropped),
         coll.sources \subseteq Sources,
         DOMAIN check.assumptions \cap dropped = {}
  PROVE  LET r == Recalculated(i, defined, coll, check, adj, dropped, prints, excluded, cs)
         IN  /\ ResultSound(r) /\ dropped \subseteq r.dropped
             /\ coll.usable \/ dropped = Assumptions => Complete(r)
<1> DEFINE values == Calculate(check, i, coll, excluded)
           r == Recalculated(i, defined, coll, check, adj, dropped, prints, excluded, cs)
           out == {a \in DOMAIN values \ Computed(values) :
                     OfType(cs, "method_selection") # {} /\ excluded[a] # {}}
           plain == ResultOf(defined, coll, check, values, adj, dropped \cup out, prints)
<1>1. /\ ~coll.usable => DOMAIN values = {}
      /\ coll.usable => DOMAIN values = DOMAIN check.assumptions
      /\ \A a \in DOMAIN values : values[a] \subseteq Methods
  BY Calculated
<1>2. r = [plain EXCEPT !.lacking = @ \ out]
  BY DEF Recalculated, Finished
<1>3. Computed(values) \subseteq DOMAIN values
  BY DEF Computed
<1>4. /\ plain.lacking = DOMAIN values \ Computed(values)
      /\ plain.values = Restrict(values, Computed(values))
      /\ plain.dropped = dropped \cup out
      /\ plain.defined = defined /\ plain.coll = coll /\ plain.check = check
      /\ plain = [defined |-> defined, coll |-> coll, check |-> check, adj |-> adj,
                  dropped |-> dropped \cup out, values |-> plain.values,
                  lacking |-> plain.lacking, prints |-> prints]
  BY DEF ResultOf
<1>5. out \subseteq DOMAIN values /\ out \cap Computed(values) = {}
  OBVIOUS
<1> HIDE DEF out, values
<1>6. Divided(defined, check, dropped \cup out)
  <2>1. out \subseteq Assumptions
    BY <1>1, <1>5 DEF CheckSound
  <2> QED BY <2>1 DEF Divided
<1>7. /\ ResultSound(plain)
      /\ \/ coll.usable /\ DOMAIN values = DOMAIN check.assumptions
         \/ dropped \cup out = Assumptions
         => Complete(plain)
  <2>1. DOMAIN check.assumptions \cap (dropped \cup out) \cap Computed(values) = {}
    BY <1>5
  <2>2. DOMAIN values # {} => coll.usable
    BY <1>1
  <2>3. DOMAIN values \subseteq DOMAIN check.assumptions
    BY <1>1
  <2> QED BY <1>1, <1>6, <2>1, <2>2, <2>3, ResultSounds
<1> HIDE DEF plain
<1>8. /\ r.lacking = plain.lacking \ out /\ r.values = plain.values
      /\ r.dropped = plain.dropped /\ r.defined = plain.defined
      /\ r.coll = plain.coll /\ r.check = plain.check
  BY <1>2, <1>4
<1> HIDE DEF r
<1>9. ResultSound(r)
  BY <1>7, <1>8 DEF ResultSound
<1>10. ASSUME coll.usable \/ dropped = Assumptions
       PROVE  Complete(r)
  <2>1. Complete(plain)
    <3>1. dropped = Assumptions => dropped \cup out = Assumptions
      BY <1>6 DEF Divided
    <3> QED BY <1>1, <1>7, <1>10, <3>1
  <2> QED BY <2>1, <1>4, <1>8 DEF Complete
<1> QED BY <1>4, <1>8, <1>9, <1>10 DEF r

\* The comparison gives up whoever is a target and has the same inputs.
LEMMA ComparedSound ==
  ASSUME NEW i, NEW prev, NEW defined, NEW coll, NEW check, NEW adj, NEW dropped,
         NEW excluded, NEW cs,
         DefinedSound(defined), CheckSound(check, coll), Divided(defined, check, dropped),
         coll.sources \subseteq Sources
  PROVE  LET r == Compared(i, prev, defined, coll, check, adj, dropped, excluded, cs)
         IN  /\ ResultSound(r) /\ dropped \subseteq r.dropped
             /\ coll.usable \/ dropped = Assumptions => Complete(r)
<1> DEFINE out == dropped \cup Unchanged(check, coll, excluded, cs, prev)
           kept == Keep(check, out)
<1>1. /\ check = [assumptions |-> check.assumptions, event |-> check.event,
                  undriven |-> check.undriven]
      /\ DOMAIN check.assumptions \subseteq Assumptions
  BY DEF CheckSound
<1>2. Unchanged(check, coll, excluded, cs, prev) \subseteq DOMAIN check.assumptions
  BY DEF Unchanged
<1> HIDE DEF out
<1>3. /\ kept = [assumptions |-> Restrict(check.assumptions, DOMAIN check.assumptions \ out),
                 event |-> check.event, undriven |-> check.undriven]
  BY <1>1 DEF Keep
<1> HIDE DEF kept
<1>4. /\ kept.assumptions = Restrict(check.assumptions, DOMAIN check.assumptions \ out)
      /\ kept.undriven = check.undriven
      /\ kept = [assumptions |-> kept.assumptions, event |-> kept.event,
                 undriven |-> kept.undriven]
  BY <1>3
<1>5. /\ DOMAIN kept.assumptions = DOMAIN check.assumptions \ out
      /\ \A a \in DOMAIN kept.assumptions : kept.assumptions[a] = check.assumptions[a]
  BY <1>4, Restricted
<1>6. CheckSound(kept, coll)
  BY <1>4, <1>5 DEF CheckSound
<1>7. Divided(defined, kept, out)
  BY <1>1, <1>2, <1>4, <1>5 DEF Divided, out
<1>8. Compared(i, prev, defined, coll, check, adj, dropped, excluded, cs)
        = Recalculated(i, defined, coll, kept, adj, out, Fingerprints(check, coll, excluded),
                       excluded, cs)
  BY DEF Compared, out, kept
<1>9. DOMAIN kept.assumptions \cap out = {}
  BY <1>5
<1>10. dropped \subseteq out /\ (dropped = Assumptions => out = Assumptions)
  BY <1>1, <1>2 DEF out
<1> DEFINE r == Recalculated(i, defined, coll, kept, adj, out, Fingerprints(check, coll, excluded),
                             excluded, cs)
<1>11. /\ ResultSound(r) /\ out \subseteq r.dropped
       /\ coll.usable \/ out = Assumptions => Complete(r)
  BY <1>6, <1>7, <1>9, FinishedSound
<1> HIDE DEF r
<1>12. /\ ResultSound(r) /\ dropped \subseteq r.dropped
       /\ coll.usable \/ dropped = Assumptions => Complete(r)
  BY <1>10, <1>11
<1> QED BY <1>8, <1>12 DEF r

\* redefine_assumptions takes drivers away, and the assumptions left without one.
LEMMA Redefined ==
  ASSUME NEW prev, ResultSound(prev), NEW cs
  PROVE  LET defined == Redefine(prev.defined, cs)
             dropped == DroppedBefore(prev, cs)
         IN  /\ DefinedSound(defined) /\ dropped \cup DOMAIN defined.assumptions = Assumptions
             /\ prev.dropped \subseteq dropped /\ dropped \subseteq Assumptions
<1> DEFINE defined == Redefine(prev.defined, cs)
           dropped == DroppedBefore(prev, cs)
           left == Remaining(prev.defined, cs)
<1>1. /\ DefinedSound(prev.defined)
      /\ prev.dropped \cup DOMAIN prev.defined.assumptions = Assumptions
  BY DEF ResultSound, Divided
<1>2. left \subseteq DOMAIN prev.defined.assumptions
  BY DEF Remaining
<1>3. dropped = prev.dropped \cup (DOMAIN prev.defined.assumptions \ left)
  BY DEF DroppedBefore
<1> HIDE DEF left, dropped
<1>4. defined = [assumptions |-> [a \in left |-> prev.defined.assumptions[a] \ Covered(a, cs)],
                 event |-> prev.defined.event]
  <2>1. ASSUME NEW d, NEW f, d = [assumptions |-> d.assumptions, event |-> d.event]
        PROVE  [d EXCEPT !.assumptions = f] = [assumptions |-> f, event |-> d.event]
    BY <2>1
  <2>2. prev.defined = [assumptions |-> prev.defined.assumptions, event |-> prev.defined.event]
    BY <1>1 DEF DefinedSound
  <2> QED BY <2>1, <2>2 DEF Redefine, left, defined
<1> HIDE DEF defined
<1>5. /\ defined = [assumptions |-> defined.assumptions, event |-> defined.event]
      /\ DOMAIN defined.assumptions = left
      /\ \A a \in left : defined.assumptions[a] \subseteq prev.defined.assumptions[a]
  BY <1>4
<1>6. DefinedSound(defined)
  BY <1>1, <1>2, <1>5 DEF DefinedSound
<1>7. dropped \cup DOMAIN defined.assumptions = Assumptions
  BY <1>1, <1>2, <1>3, <1>5
<1>8. prev.dropped \subseteq dropped /\ dropped \subseteq Assumptions
  BY <1>1, <1>2, <1>3
<1> QED BY <1>6, <1>7, <1>8 DEF defined, dropped

\* Steps 2 and 3 anew.
LEMMA RecollectedSound ==
  ASSUME NEW i, NEW prev, NEW defined, NEW coll, NEW adj, NEW dropped, NEW excluded, NEW cs,
         DefinedSound(defined), dropped \cup DOMAIN defined.assumptions = Assumptions,
         coll.sources \subseteq Sources,
         coll.usable => DOMAIN coll.evidence \subseteq coll.sources
  PROVE  LET r == Recollected(i, prev, defined, coll, adj, dropped, excluded, cs)
         IN  ResultSound(r) /\ dropped \subseteq r.dropped /\ Complete(r)
<1> DEFINE out == IF coll.usable THEN dropped ELSE dropped \cup DOMAIN defined.assumptions
           live == Restrict(defined.assumptions, DOMAIN defined.assumptions \ out)
           check == CheckDrivers(live, defined.event, i, coll)
           r == Compared(i, prev, defined, coll, check, adj, out, excluded, cs)
<1>1. dropped \subseteq out /\ out \cup DOMAIN defined.assumptions = Assumptions
  OBVIOUS
<1>2. ~coll.usable => out = Assumptions
  OBVIOUS
<1> HIDE DEF out
<1>3. /\ DOMAIN live = DOMAIN defined.assumptions \ out
      /\ \A a \in DOMAIN live : live[a] = defined.assumptions[a]
  BY Restricted
<1> HIDE DEF live
<1>4. /\ CheckSound(check, coll)
      /\ DOMAIN check.assumptions \cup check.undriven = DOMAIN live
  <2>1. /\ DOMAIN live \subseteq Assumptions
        /\ \A a \in DOMAIN live : live[a] \subseteq {"category_trend"}
    BY <1>3 DEF DefinedSound
  <2> QED BY <2>1, DriversChecked
<1> HIDE DEF check
<1>5. Divided(defined, check, out)
  BY <1>1, <1>3, <1>4 DEF Divided
<1>6. /\ ResultSound(r) /\ out \subseteq r.dropped
      /\ coll.usable \/ out = Assumptions => Complete(r)
  BY <1>4, <1>5, ComparedSound
<1>7. Recollected(i, prev, defined, coll, adj, dropped, excluded, cs) = r
  BY DEF Recollected, r, check, live, out
<1> HIDE DEF r
<1> QED BY <1>1, <1>2, <1>6, <1>7

\* rerun: whoever is out stays out, and nobody is forgotten.
LEMMA RerunSound ==
  ASSUME NEW i, NEW prev, NEW excluded, NEW cs, ResultSound(prev)
  PROVE  LET r == Rerun(i, prev, excluded, cs)
         IN  /\ ResultSound(r) /\ prev.dropped \subseteq r.dropped
             /\ prev.coll.usable \/ prev.dropped = Assumptions => Complete(r)
<1> DEFINE defined == Redefine(prev.defined, cs)
           dropped == DroppedBefore(prev, cs)
           adj == Adjusted(prev.adj, cs, prev)
           live == Restrict(defined.assumptions, DOMAIN defined.assumptions \ dropped)
           r == Rerun(i, prev, excluded, cs)
<1>1. /\ DefinedSound(defined) /\ dropped \cup DOMAIN defined.assumptions = Assumptions
      /\ prev.dropped \subseteq dropped /\ dropped \subseteq Assumptions
  BY Redefined
<1>2. r = Resumed(i, prev, defined, adj, dropped, excluded, cs)
  BY DEF Rerun
<1> HIDE DEF defined, dropped, adj, r
<1>3. CASE Range(cs) = OfType(cs, "method_selection")
  <2> DEFINE check == Keep(prev.check, dropped)
             s == Compared(i, prev, defined, prev.coll, check, adj, dropped, excluded, cs)
  <2>1. /\ CheckSound(prev.check, prev.coll) /\ Divided(prev.defined, prev.check, prev.dropped)
        /\ prev.coll.sources \subseteq Sources
    BY DEF ResultSound
  <2>2. check = [assumptions |-> Restrict(prev.check.assumptions,
                                          DOMAIN prev.check.assumptions \ dropped),
                 event |-> prev.check.event, undriven |-> prev.check.undriven]
    BY <2>1 DEF Keep, CheckSound
  <2> HIDE DEF check
  <2>3. /\ check.assumptions = Restrict(prev.check.assumptions,
                                        DOMAIN prev.check.assumptions \ dropped)
        /\ check.undriven = prev.check.undriven
        /\ check = [assumptions |-> check.assumptions, event |-> check.event,
                    undriven |-> check.undriven]
    BY <2>2
  <2>4. /\ DOMAIN check.assumptions = DOMAIN prev.check.assumptions \ dropped
        /\ \A a \in DOMAIN check.assumptions : check.assumptions[a] = prev.check.assumptions[a]
    BY <2>3, Restricted
  <2>5. CheckSound(check, prev.coll)
    BY <2>1, <2>3, <2>4 DEF CheckSound
  <2>6. Divided(defined, check, dropped)
    <3>1. /\ DOMAIN prev.check.assumptions \subseteq Assumptions
          /\ prev.check.undriven \subseteq Assumptions
          /\ prev.dropped \cup DOMAIN prev.check.assumptions \cup prev.check.undriven
               = Assumptions
      BY <2>1 DEF CheckSound, Divided
    <3> QED BY <1>1, <2>3, <2>4, <3>1 DEF Divided
  <2>7. /\ ResultSound(s) /\ dropped \subseteq s.dropped
        /\ prev.coll.usable \/ dropped = Assumptions => Complete(s)
    BY <1>1, <2>1, <2>5, <2>6, ComparedSound
  <2>8. r = s
    BY <1>2, <1>3 DEF Resumed, check
  <2> HIDE DEF s
  <2>9. prev.dropped = Assumptions => dropped = Assumptions
    BY <1>1
  <2> QED BY <1>1, <2>7, <2>8, <2>9 DEF r
<1>4. CASE Range(cs) # OfType(cs, "method_selection")
  <2> DEFINE coll == Collect(i, adj, live, defined.event)
             s == Recollected(i, prev, defined, coll, adj, dropped, excluded, cs)
  <2>1. /\ coll.sources \subseteq Sources
        /\ coll.usable => DOMAIN coll.evidence \subseteq coll.sources
    BY CollectionNames
  <2>2. r = s
    BY <1>2, <1>4 DEF Resumed
  <2> HIDE DEF coll
  <2>3. ResultSound(s) /\ dropped \subseteq s.dropped /\ Complete(s)
    BY <1>1, <2>1, RecollectedSound
  <2> HIDE DEF s
  <2> QED BY <1>1, <2>2, <2>3 DEF r
<1> QED BY <1>3, <1>4

------------------------------------------------------------------------------
(* Writing the record *)

\* The part of Typed that a step which writes the record establishes.
WrittenSound ==
  /\ record' \in RecordType /\ hold' \in Holds /\ Written'
  /\ Accounted' /\ Backed' /\ Judged'

\* The assumptions of the record, from a result.
LEMMA ChosenSound ==
  ASSUME NEW r, ResultSound(r)
  PROVE  /\ Chosen(r) \in UNION {[S -> [drivers : SUBSET Drivers, methods : SUBSET Methods]] :
                                   S \in SUBSET Assumptions}
         /\ DOMAIN Chosen(r) = DOMAIN r.values
         /\ \A a \in DOMAIN r.values : \A d \in Chosen(r)[a].drivers :
              DeclaredEvidence(d) \in r.coll.sources
<1>1. /\ DOMAIN r.values \subseteq DOMAIN r.check.assumptions
      /\ DOMAIN r.check.assumptions \subseteq Assumptions
      /\ \A a \in DOMAIN r.values :
           /\ r.values[a] \subseteq Methods
           /\ r.check.assumptions[a] \subseteq {"category_trend"}
           /\ \A d \in r.check.assumptions[a] : DeclaredEvidence(d) \in r.coll.sources
  BY DEF ResultSound, ValuesSound, CheckSound
<1>2. Chosen(r) \in [DOMAIN r.values -> [drivers : SUBSET Drivers, methods : SUBSET Methods]]
  BY <1>1 DEF Chosen, Drivers
<1>3. \A a \in DOMAIN r.values : Chosen(r)[a].drivers = r.check.assumptions[a]
  BY DEF Chosen
<1> QED BY <1>1, <1>2, <1>3

\* Whatever a run writes, it accounts for all assumptions and for its evidence.
LEMMA WriteKeeps ==
  ASSUME record \in RecordType, NEW r, NEW after \in BOOLEAN, ResultSound(r),
         OrdersFor(in) => Complete(r), Write(r, after), in' = in
  PROVE  WrittenSound
<1>2. r.dropped \subseteq Assumptions /\ r.check.undriven \subseteq Assumptions
      /\ r.lacking \subseteq Assumptions /\ r.coll.sources \subseteq Sources
  BY DEF ResultSound, Divided, CheckSound
<1>3. OrdersFor(in)' = OrdersFor(in)
  BY DEF OrdersFor
<1>4. Judged' /\ verdict' = "none"
  BY DEF Write, Judged
<1>5. /\ Applied(r) \in RecordType
      /\ Applied(r).assumptions = record.assumptions
      /\ Applied(r).excluded = r.lacking \cup r.dropped
      /\ Applied(r).undriven = r.check.undriven /\ Applied(r).sources = r.coll.sources
      /\ Applied(r).scenario = record.scenario
  BY <1>2 DEF Applied, RecordType
<1>6. CASE WriteValue(r)
  <2>1. /\ record' = [Applied(r) EXCEPT !.assumptions = Chosen(r), !.scenario = "rule"]
        /\ hold' \in {"none", "selection_unresolved"}
    BY <1>6 DEF WriteValue, SelectionHolds
  <2>2. /\ record' \in RecordType
        /\ record'.assumptions = Chosen(r) /\ record'.excluded = r.lacking \cup r.dropped
        /\ record'.undriven = r.check.undriven /\ record'.sources = r.coll.sources
        /\ record'.scenario = "rule"
    BY <1>5, <2>1, ChosenSound DEF RecordType
  <2>3. record' \in RecordType
    BY <2>2
  <2>4. Written'
    BY <2>2 DEF Written, NoRecord
  <2>5. Accounted'
    BY <1>3, <2>2, ChosenSound DEF Accounted, Complete
  <2>6. Backed'
    BY <2>2, ChosenSound DEF Backed, Unbacked
  <2> QED BY <1>4, <2>1, <2>3, <2>4, <2>5, <2>6 DEF WrittenSound, Holds
<1>7. CASE WriteExhausted(r, after)
  <2>1. /\ record' = Applied(r) /\ hold' = "options_exhausted" /\ DOMAIN r.values = {}
    BY <1>7 DEF WriteExhausted
  <2>2. /\ record'.assumptions = record.assumptions
        /\ record'.excluded = r.lacking \cup r.dropped
        /\ record'.undriven = r.check.undriven
    BY <1>5, <2>1
  <2>3. record' \in RecordType
    BY <1>5, <2>1
  <2>4. Accounted'
    BY <1>3, <2>1, <2>2 DEF Accounted, Complete
  <2>5. Written' /\ Backed'
    BY <2>1 DEF Written, Backed
  <2> QED BY <1>4, <2>1, <2>3, <2>4, <2>5 DEF WrittenSound, Holds
<1>8. CASE WriteNothing(r, after)
  <2>1. /\ record' = [Applied(r) EXCEPT !.assumptions = <<>>, !.scenario = "none"]
        /\ hold' = "no_computable_assumption" /\ DOMAIN r.values = {}
    BY <1>8 DEF WriteNothing
  <2>2. <<>> \in [{} -> [drivers : SUBSET Drivers, methods : SUBSET Methods]]
    OBVIOUS
  <2>3. /\ record' \in RecordType
        /\ record'.assumptions = <<>> /\ record'.excluded = r.lacking \cup r.dropped
        /\ record'.undriven = r.check.undriven
    BY <1>5, <2>1, <2>2 DEF RecordType
  <2>4. DOMAIN record'.assumptions = {}
    BY <2>3
  <2>6. Accounted'
    BY <1>3, <2>1, <2>3, <2>4 DEF Accounted, Complete
  <2>7. Written' /\ Backed'
    BY <2>1, <2>4 DEF Written, Backed
  <2> QED BY <1>4, <2>1, <2>3, <2>6, <2>7 DEF WrittenSound, Holds
<1> QED BY <1>6, <1>7, <1>8 DEF Write

\* The assumptions a run writes are those of its values, or what was there.
LEMMA WrittenAssumptions ==
  ASSUME record \in RecordType, NEW r, NEW after \in BOOLEAN, ResultSound(r), Write(r, after)
  PROVE  DOMAIN record'.assumptions \subseteq DOMAIN record.assumptions \cup DOMAIN r.values
<1>1. Applied(r) \in RecordType /\ Applied(r).assumptions = record.assumptions
  BY DEF ResultSound, Divided, CheckSound, Applied, RecordType
<1>2. CASE WriteValue(r)
  <2>1. record' = [Applied(r) EXCEPT !.assumptions = Chosen(r), !.scenario = "rule"]
    BY <1>2 DEF WriteValue
  <2>2. record'.assumptions = Chosen(r)
    BY <1>1, <2>1 DEF RecordType
  <2> QED BY <2>2, ChosenSound
<1>3. CASE WriteExhausted(r, after)
  BY <1>1, <1>3 DEF WriteExhausted
<1>4. CASE WriteNothing(r, after)
  <2>1. record' = [Applied(r) EXCEPT !.assumptions = <<>>, !.scenario = "none"]
    BY <1>4 DEF WriteNothing
  <2>2. record'.assumptions = <<>>
    BY <1>1, <2>1 DEF RecordType
  <2> QED BY <2>2
<1> QED BY <1>2, <1>3, <1>4 DEF Write

------------------------------------------------------------------------------
(* The steps *)

\* A handling is sound as long as the inputs are the same.
LEMMA SameInputs ==
  ASSUME NEW h, HandlingSound(h), in' = in
  PROVE  HandlingSound(h)'
BY DEF HandlingSound, OrdersFor

LEMMA FirstHandling ==
  ASSUME in \in Inputs
  PROVE  HandlingSound(Handling(RunForecastSteps(in), NothingExcluded))
<1>1. NothingExcluded \in [Assumptions -> SUBSET Methods]
  BY DEF NothingExcluded
<1> QED BY <1>1, FirstSound DEF HandlingSound, Handling

LEMMA EnsureSound ==
  ASSUME Typed
  PROVE  HandlingSound(EnsureHandling)
BY FirstHandling DEF Typed, EnsureHandling

LEMMA ExcludingSound ==
  ASSUME NEW excluded \in [Assumptions -> SUBSET Methods], NEW cs, NEW r, ResultSound(r)
  PROVE  Excluding(excluded, cs, r) \in [Assumptions -> SUBSET Methods]
<1>1. \A a \in DOMAIN r.values : r.values[a] \subseteq Methods
  BY DEF ResultSound, ValuesSound
<1> QED BY <1>1 DEF Excluding

\* A rerun that goes through.
LEMMA RerunFromKeeps ==
  ASSUME Typed, NEW h, HandlingSound(h), in' = in,
         RerunFrom(h, Excluding(h.excluded, causes, h.result))
  PROVE  /\ WrittenSound /\ HandlingSound(handling)'
         /\ h.result.dropped \subseteq handling'.result.dropped
         /\ Write(handling'.result, TRUE)
<1> DEFINE e == Excluding(h.excluded, causes, h.result)
           r == Rerun(in, h.result, e, causes)
<1>1. handling' = Handling(r, e) /\ Write(r, TRUE)
  BY DEF RerunFrom
<1>2. e \in [Assumptions -> SUBSET Methods]
  BY ExcludingSound DEF HandlingSound
<1> HIDE DEF e
<1>3. /\ ResultSound(r) /\ h.result.dropped \subseteq r.dropped
      /\ h.result.coll.usable \/ h.result.dropped = Assumptions => Complete(r)
  BY RerunSound DEF HandlingSound
<1>4. OrdersFor(in) => Complete(r)
  BY <1>3 DEF HandlingSound, Complete
<1> HIDE DEF r
<1>5. WrittenSound
  BY <1>1, <1>3, <1>4, WriteKeeps DEF Typed
<1>6. handling'.result = r /\ handling'.excluded = e
  BY <1>1 DEF Handling
<1>7. HandlingSound(handling)'
  BY <1>2, <1>3, <1>4, <1>6 DEF HandlingSound, OrdersFor
<1> QED BY <1>1, <1>3, <1>5, <1>6, <1>7

\* A step that writes the record and ends a verdict.
LEMMA RunKeeps ==
  ASSUME Typed, WrittenSound, in' = in, HandlingSound(handling)', verdict' = "none",
         causes' = <<>>
  PROVE  Inv'
<1>1. Range(causes') = {}
  BY DEF Range
<1>2. Typed'
  BY <1>1 DEF Typed, WrittenSound
<1> QED BY <1>2 DEF Inv, WrittenSound, Ran

LEMMA FirstRunKeeps ==
  ASSUME Inv, FirstRun
  PROVE  Inv'
<1>1. /\ handling' = Handling(RunForecastSteps(in), NothingExcluded)
      /\ Write(RunForecastSteps(in), FALSE) /\ in' = in
  BY DEF FirstRun
<1>2. HandlingSound(Handling(RunForecastSteps(in), NothingExcluded))
  BY FirstHandling DEF Inv, Typed
<1>3. WrittenSound
  <2>1. /\ ResultSound(RunForecastSteps(in))
        /\ OrdersFor(in) => Complete(RunForecastSteps(in))
    BY <1>2 DEF HandlingSound, Handling
  <2> QED BY <1>1, <2>1, WriteKeeps DEF Inv, Typed
<1>4. HandlingSound(handling)'
  BY <1>1, <1>2 DEF HandlingSound, OrdersFor
<1> QED BY <1>1, <1>3, <1>4, RunKeeps DEF Inv, Write

LEMMA RerunForecastKeeps ==
  ASSUME Inv, RerunForecast
  PROVE  Inv'
<1>1. in' = in /\ RerunFrom(EnsureHandling, Excluding(EnsureHandling.excluded, causes,
                                                      EnsureHandling.result))
  BY DEF RerunForecast
<1>2. WrittenSound /\ HandlingSound(handling)' /\ Write(handling'.result, TRUE)
  BY <1>1, EnsureSound, RerunFromKeeps DEF Inv
<1> QED BY <1>1, <1>2, RunKeeps DEF Inv, Write

\* A run that raises leaves the record as it is.
LEMMA RaisingKeeps ==
  ASSUME Inv, RunRaises, handling' # NotRun => HandlingSound(handling)',
         \/ Idle /\ handling' = handling
         \/ ToRerun
  PROVE  Inv'
<1>1. UNCHANGED <<in, record, verdict, causes>> /\ hold' = "forecast_run_error" /\ hold = "none"
  BY DEF RunRaises, Idle, ToRerun
<1>2. Typed'
  BY <1>1 DEF Inv, Typed, Holds
<1>3. Judged'
  BY <1>1 DEF Inv, Judged
<1>4. Written' = Written
  BY <1>1 DEF Written
<1>5. Accounted'
  BY <1>1, <1>4 DEF Inv, Accounted, OrdersFor
<1>6. Ran'
  <2>1. CASE Idle /\ handling' = handling
    BY <1>4, <2>1 DEF Inv, Ran
  <2>2. CASE ToRerun
    <3>1. record.scenario # "none"
      BY <2>2 DEF Inv, Judged, ToRerun
    <3>2. Written'
      BY <1>4, <3>1 DEF Written, NoRecord
    <3> QED BY <3>2 DEF Ran
  <2> QED BY <2>1, <2>2
<1>7. Backed'
  BY <1>1 DEF Inv, Backed, Unbacked
<1> QED BY <1>2, <1>3, <1>5, <1>6, <1>7 DEF Inv

LEMMA FirstRunRaisesKeeps ==
  ASSUME Inv, FirstRunRaises
  PROVE  Inv'
<1>1. handling' # NotRun => HandlingSound(handling)'
  BY DEF Inv, Typed, FirstRunRaises, RunRaises, HandlingSound, OrdersFor
<1> QED BY <1>1, RaisingKeeps DEF FirstRunRaises

LEMMA RerunRaisesKeeps ==
  ASSUME Inv, RerunUndefined \/ RerunRaises
  PROVE  Inv'
<1>1. RunRaises /\ ToRerun /\ in' = in
  BY DEF RerunUndefined, RerunRaises, RunRaises
<1>2. HandlingSound(EnsureHandling)
  BY EnsureSound DEF Inv
<1>3. CASE RerunUndefined
  <2>1. handling' = EnsureHandling
    BY <1>3 DEF RerunUndefined
  <2>2. HandlingSound(handling)'
    BY <1>1, <1>2, <2>1 DEF HandlingSound, OrdersFor
  <2> QED BY <1>1, <2>2, RaisingKeeps
<1>4. CASE RerunRaises
  <2>1. PICK e : /\ e \in {EnsureHandling.excluded,
                           Excluding(EnsureHandling.excluded, causes, EnsureHandling.result)}
                 /\ handling' = Handling(EnsureHandling.result, e)
    BY <1>4 DEF RerunRaises
  <2>2. e \in [Assumptions -> SUBSET Methods]
    BY <1>2, <2>1, ExcludingSound DEF HandlingSound
  <2>3. handling'.result = EnsureHandling.result /\ handling'.excluded = e
    BY <2>1 DEF Handling
  <2>4. HandlingSound(handling)'
    BY <1>1, <1>2, <2>2, <2>3 DEF HandlingSound, OrdersFor
  <2> QED BY <1>1, <2>4, RaisingKeeps
<1> QED BY <1>3, <1>4

\* SetToSeq enumerates a finite set.
LEMMA Enumerated ==
  ASSUME NEW S, IsFiniteSet(S)
  PROVE  Range(SetToSeq(S)) \subseteq S /\ (SetToSeq(S) = <<>> <=> S = {})
<1>1. Cardinality(S) \in Nat /\ ExistsBijection(1..Cardinality(S), S)
  BY FS_CardinalityType
<1>2. \E f \in [1..Cardinality(S) -> S] : IsInjective(f)
  BY <1>1 DEF ExistsBijection, Bijection, Injection
<1>3. SetToSeq(S) \in [1..Cardinality(S) -> S]
  BY <1>2 DEF SetToSeq
<1>4. Range(SetToSeq(S)) \subseteq S
  BY <1>3 DEF Range
<1>5. Cardinality(S) = 0 <=> S = {}
  BY FS_EmptySet
<1>6. ASSUME SetToSeq(S) = <<>>
      PROVE  S = {}
  <2>1. DOMAIN SetToSeq(S) = {} /\ DOMAIN SetToSeq(S) = 1..Cardinality(S)
    BY <1>3, <1>6
  <2>2. Cardinality(S) = 0
    BY <1>1, <2>1
  <2> QED BY <1>5, <2>2
<1>7. ASSUME S = {}
      PROVE  SetToSeq(S) = <<>>
  <2>1. Cardinality(S) = 0
    BY <1>5, <1>7
  <2>2. PICK q : q = SetToSeq(S)
    OBVIOUS
  <2>3. q \in Seq(S) /\ Len(q) = 0
    BY <1>3, <2>1, <2>2
  <2>4. q = <<>>
    BY <2>3
  <2> QED BY <2>2, <2>4
<1> QED BY <1>4, <1>6, <1>7

\* What a validator may find is finite, and each cause is well formed.
LEMMA FoundSound ==
  ASSUME record \in RecordType, NEW more \in SUBSET OutOfRange
  PROVE  /\ IsFiniteSet(Found \cup more)
         /\ \A c \in Found \cup more : WellFormed(c)
<1>1. DOMAIN record.assumptions \subseteq Assumptions
  BY DEF RecordType
<1>2. \A a \in DOMAIN record.assumptions : record.assumptions[a].drivers \subseteq Drivers
  <2>1. PICK S \in SUBSET Assumptions :
          record.assumptions \in [S -> [drivers : SUBSET Drivers, methods : SUBSET Methods]]
    BY DEF RecordType
  <2>2. ASSUME NEW a \in DOMAIN record.assumptions
        PROVE  record.assumptions[a].drivers \subseteq Drivers
    <3>1. record.assumptions[a] \in [drivers : SUBSET Drivers, methods : SUBSET Methods]
      BY <2>1
    <3> QED BY <3>1
  <2> QED BY <2>2
<1>3. \A a \in DOMAIN record.assumptions : Unbacked(a) \subseteq Drivers
  BY <1>2 DEF Unbacked
<1>4. ASSUME NEW a \in Assumptions, NEW D \in SUBSET Drivers, D # {}
      PROVE  WellFormed(AssumptionCause(a, D))
  BY <1>4 DEF WellFormed, AssumptionCause
<1>5. Drivers # {}
  BY DEF Drivers
<1>6. /\ \A c \in Found : WellFormed(c)
      /\ \A c \in OutOfRange : WellFormed(c)
  BY <1>1, <1>3, <1>4, <1>5 DEF Found, OutOfRange, Repeated
<1> DEFINE all == {AssumptionCause(Default, Unbacked(Default)), AssumptionCause(Trend, Unbacked(Trend)),
                   AssumptionCause(Default, Drivers), AssumptionCause(Trend, Drivers)}
<1>7. Found \cup more \subseteq all
  <2>1. OutOfRange \subseteq all
    BY <1>1 DEF OutOfRange, Assumptions
  <2>2. Found \subseteq all
    BY <1>1 DEF Found, Repeated, Assumptions
  <2> QED BY <2>1, <2>2
<1>8. IsFiniteSet(all)
  <2>1. \A w, x, y, z : IsFiniteSet({w, x, y, z})
    <3>1. ASSUME NEW w, NEW x, NEW y, NEW z
          PROVE  IsFiniteSet({w, x, y, z})
      <4>1. IsFiniteSet({w})
        BY FS_Singleton
      <4>2. IsFiniteSet({w} \cup {x})
        BY <4>1, FS_AddElement
      <4>3. IsFiniteSet({w} \cup {x} \cup {y})
        BY <4>2, FS_AddElement
      <4>4. IsFiniteSet({w} \cup {x} \cup {y} \cup {z})
        BY <4>3, FS_AddElement
      <4>5. {w, x, y, z} = {w} \cup {x} \cup {y} \cup {z}
        OBVIOUS
      <4> QED BY <4>4, <4>5
    <3> QED BY <3>1
  <2> QED BY <2>1
<1> HIDE DEF all
<1>9. IsFiniteSet(Found \cup more)
  BY <1>7, <1>8, FS_Subset
<1> QED BY <1>6, <1>9

LEMMA ValidateKeeps ==
  ASSUME Inv, Validate
  PROVE  Inv'
<1>1. PICK more \in SUBSET OutOfRange : Judge(Found \cup more)
  BY DEF Validate
<1> DEFINE found == Found \cup more
<1>2. /\ UNCHANGED <<in, handling, record, hold>> /\ record.scenario # "none"
      /\ verdict = "none" /\ hold = "none"
  BY DEF Validate, Awaiting
<1>3. IsFiniteSet(found) /\ \A c \in found : WellFormed(c)
  BY FoundSound DEF Inv, Typed
<1> HIDE DEF found
<1>4. Range(causes') \subseteq found /\ (causes' = <<>> <=> found = {})
  BY <1>1, <1>3, Enumerated DEF Judge, found
<1>5. verdict' = IF found = {} THEN "passed" ELSE "failed"
  BY <1>1 DEF Judge, found
<1>6. Typed'
  <2>1. handling' # NotRun => HandlingSound(handling)'
    BY <1>2 DEF Inv, Typed, HandlingSound, OrdersFor
  <2>2. (causes' = <<>>) = (verdict' \in {"none", "passed"})
    BY <1>4, <1>5
  <2>3. verdict' \in {"none", "failed", "passed", "sent_back"}
    BY <1>5
  <2>4. \A c \in Range(causes') : WellFormed(c)
    BY <1>3, <1>4
  <2> QED BY <1>2, <2>1, <2>2, <2>3, <2>4 DEF Inv, Typed, WellFormed
<1>7. Judged' /\ Backed'
  BY <1>2, <1>5 DEF Judged, Backed
<1>8. Ran' /\ Accounted'
  BY <1>2 DEF Inv, Ran, Accounted, Written, OrdersFor
<1> QED BY <1>6, <1>7, <1>8 DEF Inv

\* The inputs of a run, and what it left, stay as they are.
LEMMA HandlingStays ==
  ASSUME Typed, in' = in, handling' \in {handling, NotRun}
  PROVE  handling' # NotRun => HandlingSound(handling)'
BY DEF Typed, HandlingSound, OrdersFor

LEMMA SendBackKeeps ==
  ASSUME Inv, SendBack
  PROVE  Inv'
<1>1. /\ UNCHANGED <<in, handling, record, hold>> /\ verdict = "passed" /\ hold = "none"
      /\ causes' \in Requests /\ verdict' = "sent_back"
  BY DEF SendBack
<1>2. causes' # <<>> /\ \A c \in Range(causes') : WellFormed(c)
  BY <1>1, RerunAssumption
<1>3. handling' # NotRun => HandlingSound(handling)'
  BY <1>1, HandlingStays DEF Inv
<1>4. Typed'
  BY <1>1, <1>2, <1>3 DEF Inv, Typed
<1>5. Judged' /\ Backed' /\ Ran' /\ Accounted'
  BY <1>1 DEF Inv, Judged, Backed, Ran, Accounted, Written, OrdersFor
<1> QED BY <1>4, <1>5 DEF Inv

LEMMA OperatorRerunsKeeps ==
  ASSUME Inv, OperatorReruns
  PROVE  Inv'
<1>1. /\ UNCHANGED <<in, handling, record, verdict, causes>>
      /\ hold = "forecast_run_error" /\ hold' = "none"
  BY DEF OperatorReruns
<1>2. handling' # NotRun => HandlingSound(handling)'
  BY <1>1, HandlingStays DEF Inv
<1>3. Typed'
  BY <1>1, <1>2 DEF Inv, Typed, Holds
<1>4. Judged' /\ Ran' /\ Accounted'
  BY <1>1 DEF Inv, Judged, Ran, Accounted, Written, OrdersFor
<1>5. Backed'
  BY <1>1 DEF Inv, Backed, Unbacked
<1> QED BY <1>3, <1>4, <1>5 DEF Inv

\* A person's value stands in the record that a run left.
LEMMA PersonAnswersKeeps ==
  ASSUME Inv, PersonAnswers
  PROVE  Inv'
<1>1. /\ UNCHANGED <<in, handling>> /\ hold \notin {"none", "forecast_run_error"}
      /\ record' = [record EXCEPT !.scenario = "human"]
      /\ hold' = "none" /\ verdict' = "passed" /\ causes' = <<>>
  BY DEF PersonAnswers
<1>2. record \in RecordType
  BY DEF Inv, Typed
<1>3. /\ record' \in RecordType /\ record'.scenario = "human"
      /\ record'.assumptions = record.assumptions /\ record'.excluded = record.excluded
      /\ record'.undriven = record.undriven
  BY <1>1, <1>2 DEF RecordType
<1>4. handling' # NotRun => HandlingSound(handling)'
  BY <1>1, HandlingStays DEF Inv
<1>5. Range(causes') = {}
  BY <1>1 DEF Range
<1>6. Typed'
  BY <1>1, <1>3, <1>4, <1>5 DEF Inv, Typed, Holds
<1>7. Written /\ Written'
  BY <1>1, <1>3 DEF Written, NoRecord
<1>8. Accounted'
  BY <1>1, <1>3, <1>7 DEF Inv, Accounted, OrdersFor
<1>9. Judged' /\ Backed' /\ Ran'
  BY <1>1, <1>3, <1>7 DEF Judged, Backed, Ran
<1> QED BY <1>6, <1>8, <1>9 DEF Inv

LEMMA RestartKeeps ==
  ASSUME Inv, Restart \/ UNCHANGED vars
  PROVE  Inv'
<1>1. UNCHANGED <<in, record, verdict, causes, hold>> /\ handling' \in {handling, NotRun}
  BY DEF Restart, vars
<1>2. handling' # NotRun => HandlingSound(handling)'
  BY <1>1, HandlingStays DEF Inv
<1>3. Typed'
  BY <1>1, <1>2 DEF Inv, Typed
<1>4. Judged' /\ Ran' /\ Accounted'
  BY <1>1 DEF Inv, Judged, Ran, Accounted, Written, OrdersFor
<1>5. Backed'
  BY <1>1 DEF Inv, Backed, Unbacked
<1> QED BY <1>3, <1>4, <1>5 DEF Inv

LEMMA InitInv == Init => Inv
<1> SUFFICES ASSUME Init
             PROVE  Inv
  OBVIOUS
<1>1. /\ in \in Inputs /\ handling = NotRun /\ record = NoRecord /\ verdict = "none"
      /\ causes = <<>> /\ hold = "none"
  BY DEF Init
<1>2. <<>> \in [{} -> [drivers : SUBSET Drivers, methods : SUBSET Methods]]
  OBVIOUS
<1>3. NoRecord \in RecordType
  BY <1>2 DEF NoRecord, RecordType
<1>4. Typed
  BY <1>1, <1>3 DEF Typed, Range, Holds
<1>5. Judged /\ Ran /\ Accounted
  BY <1>1 DEF Judged, Ran, Accounted, Written
<1>6. DOMAIN record.assumptions = {}
  BY <1>1 DEF NoRecord
<1> QED BY <1>4, <1>5, <1>6 DEF Inv, Backed

LEMMA NextInv == Inv /\ [Next]_vars => Inv'
BY FirstRunKeeps, FirstRunRaisesKeeps, RerunForecastKeeps, RerunRaisesKeeps, ValidateKeeps,
   SendBackKeeps, OperatorRerunsKeeps, PersonAnswersKeeps, RestartKeeps DEF Next

------------------------------------------------------------------------------
(* The theorems *)

LEMMA Invariant == Spec => []Inv
BY InitInv, NextInv, PTL DEF Spec

\* Every reachable state is well typed: the record and the last result speak of
\* the assumptions that the steps define, and no verdict is without its causes.
THEOREM TypeCorrect == Spec => []TypeOK
<1>1. ASSUME Inv
      PROVE  TypeOK
  <2>1. handling # NotRun =>
          /\ DOMAIN handling.result.values \subseteq DOMAIN handling.result.check.assumptions
          /\ handling.result.dropped \cup DOMAIN handling.result.defined.assumptions = Assumptions
          /\ handling.excluded \in [Assumptions -> SUBSET Methods]
    BY <1>1 DEF Inv, Typed, HandlingSound, ResultSound, ValuesSound, Divided
  <2>2. /\ DOMAIN record.assumptions \subseteq Assumptions
        /\ record.excluded \cup record.undriven \subseteq Assumptions
        /\ record.sources \subseteq Sources
        /\ record.scenario \in {"none", "rule", "human"}
    BY <1>1 DEF Inv, Typed, RecordType
  <2> QED BY <1>1, <2>1, <2>2 DEF Inv, Typed, TypeOK
<1> QED BY <1>1, Invariant, PTL

\* Whatever was rerun, raised, lost to a restart or answered by a person: the
\* record accounts for every assumption, if there ever were orders to use.
THEOREM AllAccountedFor == Spec => []AccountedFor
<1>1. Inv => AccountedFor
  BY DEF Inv, Accounted, AccountedFor, Written, OrdersFor
<1> QED BY <1>1, Invariant, PTL

\* data_sources of a value that awaits its judgement names the evidence of each
\* of its assumptions.
THEOREM EvidenceIsNamed == Spec => []EvidenceNamed
<1>1. Inv => EvidenceNamed
  BY DEF Inv, Backed, EvidenceNamed, Awaiting
<1> QED BY <1>1, Invariant, PTL

\* What was dropped for a suspected cause enters no later value while the process
\* lives.
THEOREM DroppedForGood == Spec => DroppedStays
<1> DEFINE Stays == handling # NotRun /\ record' # record =>
                      handling.result.dropped
                        \cap (DOMAIN record'.assumptions \ DOMAIN record.assumptions) = {}
<1>1. ASSUME Inv, [Next]_vars, handling # NotRun, record' # record
      PROVE  handling.result.dropped
               \cap (DOMAIN record'.assumptions \ DOMAIN record.assumptions) = {}
  <2>1. \/ FirstRun \/ RerunForecast \/ PersonAnswers
    BY <1>1 DEF Next, vars, FirstRunRaises, RerunUndefined, RerunRaises, RunRaises, Validate,
      SendBack, OperatorReruns, Restart
  <2>2. CASE FirstRun
    BY <1>1, <2>2 DEF FirstRun, Idle, Inv, Ran, Written
  <2>3. CASE PersonAnswers
    <3>1. record \in RecordType
      BY <1>1 DEF Inv, Typed
    <3>2. record'.assumptions = record.assumptions
      BY <2>3, <3>1 DEF PersonAnswers, RecordType
    <3> QED BY <3>2
  <2>4. CASE RerunForecast
    <3>1. EnsureHandling = handling
      BY <1>1 DEF EnsureHandling
    <3>2. in' = in /\ RerunFrom(handling, Excluding(handling.excluded, causes, handling.result))
      BY <2>4, <3>1 DEF RerunForecast
    <3>3. /\ handling.result.dropped \subseteq handling'.result.dropped
          /\ Write(handling'.result, TRUE) /\ HandlingSound(handling)'
      BY <1>1, <3>2, RerunFromKeeps DEF Inv, Typed
    <3>4. PICK r : r = handling'.result
      OBVIOUS
    <3>5. ResultSound(r)
      BY <3>3, <3>4 DEF HandlingSound
    <3>6. DOMAIN record'.assumptions \subseteq DOMAIN record.assumptions \cup DOMAIN r.values
      BY <1>1, <3>3, <3>4, <3>5, WrittenAssumptions DEF Inv, Typed
    <3> QED BY <3>3, <3>4, <3>5, <3>6 DEF ResultSound
  <2> QED BY <2>1, <2>2, <2>3, <2>4
<1>2. Inv /\ [Next]_vars => [Stays]_vars
  BY <1>1
<1> QED BY <1>2, Invariant, PTL DEF Spec, DroppedStays

------------------------------------------------------------------------------
(* What a rerun leaves alone *)

\* What was collected for assumption a, when the adjustments were adj.
Gathered(i, adj, coll, a, drivers) ==
  /\ a \in DOMAIN coll.training /\ a \in DOMAIN coll.used
  /\ coll.training[a]
       = Series(i, adj, coll.base, FillOf(a, i, adj, coll.base, OwnSources(drivers)))
  /\ coll.used[a] = UsedIn(FillOf(a, i, adj, coll.base, OwnSources(drivers)))
  /\ \A s \in RequiredBy(drivers) :
       /\ s \in DOMAIN coll.evidence <=>
            s \notin adj.exclude /\ Candidate(i, [adj EXCEPT !.from[s] = 1], s) # {}
       /\ s \in DOMAIN coll.evidence => coll.evidence[s] = Candidate(i, adj, s)

ValueOf(a, drivers, event, i, coll, excluded) ==
  WithOrWithout(CalculateOne(a, drivers, event, i, coll, excluded),
                a, drivers, event, i, coll, excluded)

\* What the result says of assumption a is what steps 2 to 4 say of it, with the
\* methods excluded that its fingerprint names.
Stands(i, r, a) ==
  LET drivers == r.defined.assumptions[a]
      given == ValueOf(a, drivers, r.check.event, i, r.coll, r.prints[a].excluded)
  IN /\ Gathered(i, r.adj, r.coll, a, drivers)
     /\ a \in DOMAIN r.check.assumptions <=>
          ("category_trend" \in drivers => TrendHolds(i, r.coll))
     /\ a \in DOMAIN r.prints <=> a \in DOMAIN r.check.assumptions
     /\ a \in DOMAIN r.values <=> a \in DOMAIN r.prints /\ given # {}
     /\ a \in DOMAIN r.check.assumptions => r.check.assumptions[a] = drivers
     /\ a \in DOMAIN r.prints =>
          r.prints[a] = Fingerprint(a, drivers, r.coll, r.prints[a].excluded)
     /\ a \in DOMAIN r.values => r.values[a] = given

AdjSound(adj) ==
  /\ adj = [exclude |-> adj.exclude, from |-> adj.from, force |-> adj.force]
  /\ adj.from \in [Sources -> Int]

Usable(i, adj) == ~(i.orders > LastMonth) /\ Base(i, adj) # {}

\* The last result is that of a collection with its adjustments, as far as the
\* assumptions go that are still live.
Reflects(i, r) ==
  /\ AdjSound(r.adj)
  /\ r.coll.usable <=> Usable(i, r.adj)
  /\ r.coll.usable =>
       /\ r.coll.base = Base(i, r.adj)
       /\ r.check.event = (r.defined.event /\ EventHolds(i, r.coll))
       /\ \A a \in Live(r) : Stands(i, r, a)

\* The methods that are excluded now are those of the last result, but for what a
\* rerun that raised has added: it only adds them for a cause about the methods,
\* and then nobody is spared.
Remembers(h, cs) ==
  \A a \in Live(h.result) \cap DOMAIN h.result.prints :
    OfType(cs, "method_selection") = {} => h.excluded[a] = h.result.prints[a].excluded

Recalls(h) == Reflects(in, h.result) /\ Remembers(h, causes)

ScopeInv ==
  /\ handling # NotRun => Recalls(handling)
  /\ causes \in Seq(Range(causes))
  /\ hold \notin {"none", "forecast_run_error"} => causes = <<>>

LEMMA OwnOf ==
  ASSUME NEW drivers, drivers \subseteq {"category_trend"}
  PROVE  /\ RequiredBy(drivers) = IF "category_trend" \in drivers THEN {"pos", "market"} ELSE {}
         /\ OwnSources(drivers) = RequiredBy(drivers)
         /\ RequiredBy(drivers) \subseteq Supplements
         /\ Orders \notin RequiredBy(drivers)
<1>1. EvidenceOf("category_trend") = {"pos", "market"}
  BY DEF EvidenceOf
<1>2. drivers = {} \/ drivers = {"category_trend"}
  OBVIOUS
<1>3. RequiredBy(drivers) = IF "category_trend" \in drivers THEN {"pos", "market"} ELSE {}
  BY <1>1, <1>2 DEF RequiredBy
<1>4. {"pos", "market"} \subseteq Supplements /\ Orders \notin Supplements
  BY StepsAssumption
<1>5. RequiredBy(drivers) \subseteq Supplements
  BY <1>3, <1>4
<1> QED BY <1>3, <1>4, <1>5 DEF OwnSources

\* collect_instance_data, for one of the assumptions it is asked for.
LEMMA CollectGathers ==
  ASSUME NEW i, NEW adj, NEW live, NEW event,
         \A a \in DOMAIN live : live[a] \subseteq {"category_trend"}
  PROVE  LET c == Collect(i, adj, live, event)
         IN  /\ c.usable <=> Usable(i, adj)
             /\ c.usable => c.base = Base(i, adj)
             /\ c.usable => \A a \in DOMAIN live : Gathered(i, adj, c, a, live[a])
<1> DEFINE c == Collect(i, adj, live, event)
           base == Base(i, adj)
           fills == [a \in DOMAIN live |-> FillOf(a, i, adj, base, OwnSources(live[a]))]
           required == RequiredEvidence(live, event)
           filled == FilledCollection(i, adj, base, live, required, fills)
<1>1. \A s : ~NothingUsable(s).usable
  BY DEF NothingUsable
<1>2. filled.usable
  BY DEF FilledCollection
<1>3. c = IF i.orders > LastMonth THEN NothingUsable({})
          ELSE IF base = {} THEN NothingUsable({Orders}) ELSE filled
  BY DEF Collect
<1>4. /\ filled.base = base
      /\ filled.training = [a \in DOMAIN live |-> Series(i, adj, base, fills[a])]
      /\ filled.used = [a \in DOMAIN live |-> UsedIn(fills[a])]
      /\ filled.evidence = Evidence(i, adj, base, required)
  BY DEF FilledCollection
<1> HIDE DEF c, base, filled
<1>5. c.usable <=> Usable(i, adj)
  BY <1>1, <1>2, <1>3 DEF Usable, base
<1>6. c.usable => c = filled
  BY <1>1, <1>3
<1>7. ASSUME NEW a \in DOMAIN live
      PROVE  Gathered(i, adj, filled, a, live[a])
  <2>1. fills[a] = FillOf(a, i, adj, base, OwnSources(live[a]))
    OBVIOUS
  <2> HIDE DEF fills
  <2>2. RequiredBy(live[a]) \subseteq required
    BY DEF RequiredEvidence
  <2>3. Orders \notin RequiredBy(live[a])
    BY OwnOf
  <2>4. \A s \in RequiredBy(live[a]) :
          s \in Collected(i, adj, required) <=>
            s \notin adj.exclude /\ Candidate(i, [adj EXCEPT !.from[s] = 1], s) # {}
    BY <2>2, <2>3 DEF Collected
  <2> HIDE DEF required
  <2>5. /\ DOMAIN filled.evidence = Collected(i, adj, required)
        /\ \A s \in RequiredBy(live[a]) :
             s \in DOMAIN filled.evidence => filled.evidence[s] = Candidate(i, adj, s)
    BY <1>4, <2>3 DEF Evidence
  <2>6. /\ a \in DOMAIN filled.training /\ filled.training[a] = Series(i, adj, base, fills[a])
        /\ a \in DOMAIN filled.used /\ filled.used[a] = UsedIn(fills[a])
    BY <1>4
  <2> QED BY <1>4, <2>1, <2>4, <2>5, <2>6 DEF Gathered
<1> QED BY <1>4, <1>5, <1>6, <1>7 DEF c, base

\* check_drivers, for one of the assumptions it is asked for.
LEMMA CheckMeans ==
  ASSUME NEW i, NEW coll, NEW live, NEW event, coll.usable,
         \A a \in DOMAIN live : live[a] \subseteq {"category_trend"}
  PROVE  LET check == CheckDrivers(live, event, i, coll)
         IN  /\ check.event = (event /\ EventHolds(i, coll))
             /\ \A a \in DOMAIN live :
                  /\ a \in DOMAIN check.assumptions <=>
                       ("category_trend" \in live[a] => TrendHolds(i, coll))
                  /\ a \in DOMAIN check.assumptions => check.assumptions[a] = live[a]
<1> DEFINE check == CheckDrivers(live, event, i, coll)
           failed == FailedDrivers(live, event, i, coll)
           kept == {a \in DOMAIN live : live[a] \cap failed = {}}
<1>1. /\ check.assumptions = Restrict(live, kept)
      /\ check.event = (event /\ "event" \notin failed)
  BY DEF CheckDrivers, Without
<1>2. UNION Range(live) \subseteq {"category_trend"}
  BY DEF Range
<1>3. "event" \in failed <=> event /\ ~EventHolds(i, coll)
  BY <1>2 DEF FailedDrivers
<1>4. ASSUME NEW a \in DOMAIN live
      PROVE  a \in kept <=> ("category_trend" \in live[a] => TrendHolds(i, coll))
  <2>1. "category_trend" \in live[a] => "category_trend" \in UNION Range(live)
    BY DEF Range
  <2>2. "category_trend" \in failed
          <=> "category_trend" \in UNION Range(live) /\ ~TrendHolds(i, coll)
    BY DEF FailedDrivers
  <2> HIDE DEF failed
  <2>3. live[a] = {} \/ live[a] = {"category_trend"}
    OBVIOUS
  <2> QED BY <2>1, <2>2, <2>3
<1> HIDE DEF failed, kept, check
<1>5. DOMAIN check.assumptions = kept /\ \A a \in kept : check.assumptions[a] = live[a]
  BY <1>1, Restricted
<1>6. check.event = (event /\ EventHolds(i, coll))
  BY <1>1, <1>3
<1> QED BY <1>4, <1>5, <1>6 DEF check

\* select_methods_and_calculate_values, for one of the assumptions.
LEMMA CalculateMeans ==
  ASSUME NEW i, NEW coll, NEW check, NEW excluded, coll.usable
  PROVE  LET values == Calculate(check, i, coll, excluded)
         IN  /\ DOMAIN values = DOMAIN check.assumptions
             /\ \A a \in DOMAIN values :
                  values[a] = ValueOf(a, check.assumptions[a], check.event, i, coll, excluded[a])
BY DEF Calculate, ValueOf

\* What a result that is put together by the steps says of an assumption.
LEMMA ResultStands ==
  ASSUME NEW i, NEW r, NEW first, NEW excluded, NEW a, r.coll.usable,
         NEW drivers, drivers = r.defined.assumptions[a],
         Gathered(i, r.adj, r.coll, a, drivers),
         a \in DOMAIN r.check.assumptions <=>
           ("category_trend" \in drivers => TrendHolds(i, r.coll)),
         a \in DOMAIN r.check.assumptions => r.check.assumptions[a] = drivers,
         a \in DOMAIN first.assumptions <=> a \in DOMAIN r.check.assumptions,
         a \in DOMAIN first.assumptions => first.assumptions[a] = drivers,
         r.prints = Fingerprints(first, r.coll, excluded),
         r.values = Restrict(Calculate(r.check, i, r.coll, excluded),
                             Computed(Calculate(r.check, i, r.coll, excluded)))
  PROVE  /\ Stands(i, r, a)
         /\ a \in DOMAIN r.prints => r.prints[a].excluded = excluded[a]
<1> DEFINE values == Calculate(r.check, i, r.coll, excluded)
<1>1. /\ DOMAIN r.prints = DOMAIN first.assumptions
      /\ a \in DOMAIN r.prints =>
           r.prints[a] = Fingerprint(a, drivers, r.coll, excluded[a])
  BY DEF Fingerprints
<1>2. a \in DOMAIN r.prints => r.prints[a].excluded = excluded[a]
  BY <1>1 DEF Fingerprint
<1>3. /\ DOMAIN values = DOMAIN r.check.assumptions
      /\ a \in DOMAIN values =>
           values[a] = ValueOf(a, drivers, r.check.event, i, r.coll, excluded[a])
  BY CalculateMeans
<1> HIDE DEF values
<1>4. /\ DOMAIN r.values = Computed(values)
      /\ \A b \in Computed(values) : r.values[b] = values[b]
  BY Restricted DEF values
<1>5. a \in Computed(values) <=> a \in DOMAIN values /\ values[a] # {}
  BY DEF Computed
<1>6. /\ a \in DOMAIN r.values <=>
           /\ a \in DOMAIN r.prints
           /\ ValueOf(a, drivers, r.check.event, i, r.coll, r.prints[a].excluded) # {}
      /\ a \in DOMAIN r.values =>
           r.values[a] = ValueOf(a, drivers, r.check.event, i, r.coll, r.prints[a].excluded)
  BY <1>1, <1>2, <1>3, <1>4, <1>5
<1>7. a \in DOMAIN r.prints =>
        r.prints[a] = Fingerprint(a, drivers, r.coll, r.prints[a].excluded)
  BY <1>1, <1>2
<1>8. a \in DOMAIN r.prints <=> a \in DOMAIN r.check.assumptions
  BY <1>1
<1> QED BY <1>2, <1>6, <1>7, <1>8 DEF Stands

------------------------------------------------------------------------------
(* The adjustments of a rerun *)

LEMMA Indexed ==
  ASSUME NEW cs, cs \in Seq(Range(cs))
  PROVE  /\ DOMAIN cs \subseteq Nat /\ IsFiniteSet(DOMAIN cs)
         /\ \A k \in DOMAIN cs : cs[k] \in Range(cs)
<1>1. DOMAIN cs = 1..Len(cs) /\ Len(cs) \in Nat
  OBVIOUS
<1>2. IsFiniteSet(1..Len(cs))
  BY <1>1, FS_Interval
<1>3. \A k \in DOMAIN cs : cs[k] \in Range(cs)
  BY DEF Range
<1> QED BY <1>1, <1>2, <1>3

LEMMA AdjustedSound ==
  ASSUME NEW adj, AdjSound(adj), NEW prev,
         NEW cs, cs \in Seq(Range(cs)), \A c \in Range(cs) : WellFormed(c)
  PROVE  AdjSound(Adjusted(adj, cs, prev))
<1> DEFINE is == Acting(cs, prev)
           new == Adjusted(adj, cs, prev)
<1>1. ASSUME NEW s \in Sources
      PROVE  DateFor(s, cs, is, adj.from[s]) \in Int
  <2> DEFINE dated == {k \in is : cs[k].issue = "outdated" /\ cs[k].source = s}
  <2>1. dated \subseteq DOMAIN cs /\ \A k \in dated : cs[k].type = "data_source"
    BY DEF Acting
  <2>2. adj.from[s] \in Int
    BY DEF AdjSound
  <2>3. ASSUME dated # {}
        PROVE  cs[Max(dated)].month \in Int
    <3>1. dated \in SUBSET Nat /\ IsFiniteSet(dated)
      BY <2>1, Indexed, FS_Subset
    <3> HIDE DEF dated
    <3>2. PICK x \in dated : \A y \in dated : y <= x
      BY <2>3, <3>1, Greatest
    <3>3. \A y \in dated : x >= y
      BY <3>1, <3>2
    <3>4. Max(dated) \in dated
      BY <3>2, <3>3 DEF Max
    <3> DEFINE c == cs[Max(dated)]
    <3>5. c \in Range(cs) /\ c.type = "data_source" /\ c.issue = "outdated"
      BY <2>1, <3>4, Indexed DEF dated
    <3> HIDE DEF c
    <3>6. c.month \in Months
      BY <3>5 DEF WellFormed
    <3>7. Months \subseteq Int
      BY DEF Months
    <3> QED BY <3>6, <3>7 DEF c
  <2>4. DateFor(s, cs, is, adj.from[s]) = IF dated = {} THEN adj.from[s] ELSE cs[Max(dated)].month
    BY DEF DateFor
  <2> HIDE DEF dated
  <2> QED BY <2>2, <2>3, <2>4
<1>2. new.from = [s \in Sources |-> DateFor(s, cs, is, adj.from[s])]
  BY DEF Adjusted
<1>3. new = [exclude |-> new.exclude, from |-> new.from, force |-> new.force]
  BY DEF Adjusted
<1> HIDE DEF is, new
<1>4. new.from \in [Sources -> Int]
  BY <1>1, <1>2
<1> QED BY <1>3, <1>4 DEF AdjSound, new

\* The source s counts for assumption a: a cause about it has a among its targets.
LEMMA SourceTargets ==
  ASSUME NEW prev, NEW cs, NEW a \in Live(prev) \ AllTargets(cs, prev),
         NEW s, UsesSource(a, prev.defined.assumptions[a], s, prev.coll)
  PROVE  \A k \in DOMAIN cs : cs[k].type = "data_source" => cs[k].source # s
<1> SUFFICES ASSUME NEW k \in DOMAIN cs, cs[k].type = "data_source", cs[k].source = s
             PROVE  FALSE
  OBVIOUS
<1>1. cs[k] \in Range(cs)
  BY DEF Range
<1>2. a \in Targets(cs[k], prev)
  BY DEF Targets
<1> QED BY <1>1, <1>2 DEF AllTargets

\* Adjustments for causes that do not concern a spare what a is made of.
Spared(a, prev, adj, new) ==
  /\ \A s \in Sources : UsesSource(a, prev.defined.assumptions[a], s, prev.coll) =>
       new.from[s] = adj.from[s] /\ (s \in new.exclude <=> s \in adj.exclude)
  /\ adj.exclude \subseteq new.exclude
  /\ a \in new.force <=> a \in adj.force

LEMMA AdjustedSpares ==
  ASSUME NEW prev, NEW adj, NEW cs, NEW a \in Live(prev) \ AllTargets(cs, prev)
  PROVE  Spared(a, prev, adj, Adjusted(adj, cs, prev))
<1> DEFINE is == Acting(cs, prev)
           new == Adjusted(adj, cs, prev)
           bad == {k \in is : cs[k].issue \in {"contaminated", "irrelevant"}}
           more == UNION {Targets(cs[k], prev) : k \in {l \in is : cs[l].issue = "insufficient"}}
<1>1. /\ new.force = adj.force \cup more
      /\ new.exclude = adj.exclude \cup ({cs[k].source : k \in bad} \ {Orders})
      /\ \A s \in Sources : new.from[s] = DateFor(s, cs, is, adj.from[s])
  BY DEF Adjusted
<1>2. is \subseteq DOMAIN cs /\ \A k \in is : cs[k].type = "data_source"
  BY DEF Acting
<1>3. a \notin more
  <2>1. \A k \in DOMAIN cs : cs[k] \in Range(cs)
    BY DEF Range
  <2> QED BY <1>2, <2>1 DEF AllTargets
<1>4. ASSUME NEW s \in Sources, UsesSource(a, prev.defined.assumptions[a], s, prev.coll)
      PROVE  new.from[s] = adj.from[s] /\ (s \in new.exclude <=> s \in adj.exclude)
  <2>1. \A k \in is : cs[k].source # s
    BY <1>2, <1>4, SourceTargets
  <2> HIDE DEF is, new
  <2>2. {k \in is : cs[k].issue = "outdated" /\ cs[k].source = s} = {}
    BY <2>1
  <2>3. DateFor(s, cs, is, adj.from[s]) = adj.from[s]
    BY <2>2 DEF DateFor
  <2> QED BY <1>1, <2>1, <2>3
<1> HIDE DEF new, is, more
<1> QED BY <1>1, <1>3, <1>4 DEF Spared, new

\* A rerun about the methods only: neither assumptions nor data are touched.
LEMMA MethodsOnly ==
  ASSUME NEW prev, AdjSound(prev.adj), NEW cs, Range(cs) = OfType(cs, "method_selection")
  PROVE  /\ Adjusted(prev.adj, cs, prev) = prev.adj
         /\ OfType(cs, "assumption") = {}
<1> DEFINE adj == prev.adj
           new == Adjusted(adj, cs, prev)
<1>1. \A k \in DOMAIN cs : cs[k].type = "method_selection"
  BY DEF Range, OfType
<1>2. Acting(cs, prev) = {}
  BY <1>1 DEF Acting
<1>3. OfType(cs, "assumption") = {}
  BY DEF OfType
<1>4. \A s, old : DateFor(s, cs, {}, old) = old
  BY DEF DateFor
<1>5. /\ new.force = adj.force /\ new.exclude = adj.exclude
      /\ new.from = [s \in Sources |-> adj.from[s]]
      /\ new = [exclude |-> new.exclude, from |-> new.from, force |-> new.force]
  BY <1>2, <1>4 DEF Adjusted
<1> HIDE DEF new, adj
<1>6. new.from = adj.from
  BY <1>5 DEF AdjSound, adj
<1> QED BY <1>3, <1>5, <1>6 DEF AdjSound, adj, new

------------------------------------------------------------------------------
(* The result of a rerun *)

\* The fields of what the end of a rerun returns.
LEMMA ComparedIs ==
  ASSUME NEW i, NEW prev, NEW defined, NEW coll, NEW check, NEW adj, NEW dropped,
         NEW excluded, NEW cs, CheckSound(check, coll)
  PROVE  LET r == Compared(i, prev, defined, coll, check, adj, dropped, excluded, cs)
         IN  /\ r.defined = defined /\ r.coll = coll /\ r.adj = adj
             /\ r.check.event = check.event
             /\ \A a : a \notin r.dropped =>
                  /\ a \in DOMAIN r.check.assumptions <=> a \in DOMAIN check.assumptions
                  /\ a \in DOMAIN check.assumptions =>
                       r.check.assumptions[a] = check.assumptions[a]
             /\ r.prints = Fingerprints(check, coll, excluded)
             /\ r.values = Restrict(Calculate(r.check, i, r.coll, excluded),
                                    Computed(Calculate(r.check, i, r.coll, excluded)))
             /\ dropped \subseteq r.dropped
             /\ \A a \in r.dropped : \/ a \in dropped \/ a \in AllTargets(cs, prev)
                                     \/ OfType(cs, "method_selection") # {}
<1> DEFINE out == dropped \cup Unchanged(check, coll, excluded, cs, prev)
           kept == Keep(check, out)
           prints == Fingerprints(check, coll, excluded)
           values == Calculate(kept, i, coll, excluded)
           none == {a \in DOMAIN values \ Computed(values) :
                      OfType(cs, "method_selection") # {} /\ excluded[a] # {}}
           r == Compared(i, prev, defined, coll, check, adj, dropped, excluded, cs)
<1>1. /\ check = [assumptions |-> check.assumptions, event |-> check.event,
                  undriven |-> check.undriven]
  BY DEF CheckSound
<1>2. kept = [assumptions |-> Restrict(check.assumptions, DOMAIN check.assumptions \ out),
              event |-> check.event, undriven |-> check.undriven]
  BY <1>1 DEF Keep
<1>3. Unchanged(check, coll, excluded, cs, prev) \subseteq AllTargets(cs, prev)
  BY DEF Unchanged
<1>4. r = [ResultOf(defined, coll, kept, values, adj, out \cup none, prints)
             EXCEPT !.lacking = @ \ none]
  BY DEF Compared, Recalculated, Finished
<1> HIDE DEF kept, prints, values, none, out
<1>5. /\ r.defined = defined /\ r.coll = coll /\ r.adj = adj /\ r.check = kept
      /\ r.dropped = out \cup none /\ r.prints = prints
      /\ r.values = Restrict(values, Computed(values))
  BY <1>4 DEF ResultOf
<1>6. /\ kept.event = check.event
      /\ kept.assumptions = Restrict(check.assumptions, DOMAIN check.assumptions \ out)
  BY <1>2
<1> HIDE DEF r
<1>7. /\ DOMAIN kept.assumptions = DOMAIN check.assumptions \ out
      /\ \A a \in DOMAIN kept.assumptions : kept.assumptions[a] = check.assumptions[a]
  BY <1>6, Restricted
<1>8. none # {} => OfType(cs, "method_selection") # {}
  BY DEF none
<1>9. \A a \in r.dropped : \/ a \in dropped \/ a \in AllTargets(cs, prev)
                           \/ OfType(cs, "method_selection") # {}
  BY <1>3, <1>5, <1>8 DEF out
<1>10. dropped \subseteq r.dropped
  BY <1>5 DEF out
<1>11. r.values = Restrict(Calculate(r.check, i, r.coll, excluded),
                           Computed(Calculate(r.check, i, r.coll, excluded)))
  BY <1>5 DEF values
<1>12. \A a : a \notin r.dropped =>
         /\ a \in DOMAIN r.check.assumptions <=> a \in DOMAIN check.assumptions
         /\ a \in DOMAIN check.assumptions => r.check.assumptions[a] = check.assumptions[a]
  BY <1>5, <1>7
<1> QED BY <1>5, <1>6, <1>9, <1>10, <1>11, <1>12 DEF r, prints

\* What the collection and the check say of a is kept by the end of a rerun.
LEMMA ComparedStands ==
  ASSUME NEW i, NEW prev, NEW defined, NEW coll, NEW check, NEW adj, NEW dropped,
         NEW excluded, NEW cs, CheckSound(check, coll), coll.usable,
         NEW a, NEW drivers, drivers = defined.assumptions[a],
         Gathered(i, adj, coll, a, drivers),
         a \in DOMAIN check.assumptions <=>
           ("category_trend" \in drivers => TrendHolds(i, coll)),
         a \in DOMAIN check.assumptions => check.assumptions[a] = drivers,
         a \notin Compared(i, prev, defined, coll, check, adj, dropped, excluded, cs).dropped
  PROVE  LET r == Compared(i, prev, defined, coll, check, adj, dropped, excluded, cs)
         IN  /\ Stands(i, r, a)
             /\ a \in DOMAIN r.prints => r.prints[a].excluded = excluded[a]
<1> DEFINE r == Compared(i, prev, defined, coll, check, adj, dropped, excluded, cs)
<1>1. /\ r.defined = defined /\ r.coll = coll /\ r.adj = adj
      /\ a \in DOMAIN r.check.assumptions <=> a \in DOMAIN check.assumptions
      /\ a \in DOMAIN check.assumptions => r.check.assumptions[a] = check.assumptions[a]
      /\ r.prints = Fingerprints(check, coll, excluded)
      /\ r.values = Restrict(Calculate(r.check, i, r.coll, excluded),
                             Computed(Calculate(r.check, i, r.coll, excluded)))
  BY ComparedIs
<1>2. a \notin r.dropped
  OBVIOUS
<1> HIDE DEF r
<1>3. Gathered(i, r.adj, r.coll, a, drivers) /\ r.coll.usable
  BY <1>1
<1>4. drivers = r.defined.assumptions[a]
  BY <1>1
<1>5. r.prints = Fingerprints(check, r.coll, excluded)
  BY <1>1
<1>6. a \in DOMAIN r.check.assumptions <=>
        ("category_trend" \in drivers => TrendHolds(i, r.coll))
  BY <1>1
<1> QED BY <1>1, <1>3, <1>4, <1>5, <1>6, ResultStands DEF r

\* redefine_assumptions leaves alone what no cause names.
LEMMA RedefinedIs ==
  ASSUME NEW prev, ResultSound(prev), NEW cs
  PROVE  LET defined == Redefine(prev.defined, cs)
             dropped == DroppedBefore(prev, cs)
         IN  /\ defined.event = prev.defined.event
             /\ DOMAIN defined.assumptions \subseteq DOMAIN prev.defined.assumptions
             /\ \A a \in DOMAIN prev.defined.assumptions \ Named(cs) :
                  /\ a \in DOMAIN defined.assumptions
                  /\ defined.assumptions[a] = prev.defined.assumptions[a]
                  /\ a \in dropped => a \in prev.dropped
<1> DEFINE left == Remaining(prev.defined, cs)
           defined == Redefine(prev.defined, cs)
<1>1. DefinedSound(prev.defined)
  BY DEF ResultSound
<1>2. defined = [assumptions |-> [a \in left |-> prev.defined.assumptions[a] \ Covered(a, cs)],
                 event |-> prev.defined.event]
  <2>1. ASSUME NEW d, NEW f, d = [assumptions |-> d.assumptions, event |-> d.event]
        PROVE  [d EXCEPT !.assumptions = f] = [assumptions |-> f, event |-> d.event]
    BY <2>1
  <2> QED BY <1>1, <2>1 DEF Redefine, DefinedSound
<1>3. \A a \in DOMAIN prev.defined.assumptions \ Named(cs) : a \in left
  BY DEF Remaining
<1>4. \A a : a \notin Named(cs) => Covered(a, cs) = {}
  BY DEF Covered, Named
<1>5. left \subseteq DOMAIN prev.defined.assumptions
  BY DEF Remaining
<1> HIDE DEF defined
<1>6. /\ defined.event = prev.defined.event /\ DOMAIN defined.assumptions = left
      /\ \A a \in left : defined.assumptions[a] = prev.defined.assumptions[a] \ Covered(a, cs)
  BY <1>2
<1>7. \A a \in left : a \in DroppedBefore(prev, cs) => a \in prev.dropped
  BY DEF DroppedBefore
<1> HIDE DEF left
<1> QED BY <1>3, <1>4, <1>5, <1>6, <1>7 DEF defined

LEMMA TargetsInclude ==
  ASSUME NEW prev, NEW cs, NEW a \in Live(prev) \ AllTargets(cs, prev)
  PROVE  OfType(cs, "method_selection") = {} /\ a \notin Named(cs)
<1>1. ASSUME NEW c \in Range(cs)
      PROVE  a \notin Targets(c, prev)
  BY DEF AllTargets
<1>2. OfType(cs, "method_selection") = {}
  BY <1>1 DEF OfType, Targets
<1>3. a \notin Named(cs)
  BY <1>1 DEF Named, OfType, Targets
<1> QED BY <1>2, <1>3

\* The result r of a rerun of prev, as far as the scope of the rerun goes.
RerunOf(i, prev, cs, excluded, r) ==
  /\ Reflects(i, r)
  /\ r.adj = Adjusted(prev.adj, cs, prev)
  /\ r.defined.event = prev.defined.event
  /\ \A a \in DOMAIN r.prints : r.prints[a].excluded = excluded[a]
  /\ r.coll.usable =>
       \A a \in Live(prev) \ AllTargets(cs, prev) :
         a \in Live(r) /\ r.defined.assumptions[a] = prev.defined.assumptions[a]

LEMMA PrintsExclude ==
  ASSUME NEW check, NEW coll, NEW excluded
  PROVE  \A a \in DOMAIN Fingerprints(check, coll, excluded) :
           Fingerprints(check, coll, excluded)[a].excluded = excluded[a]
BY DEF Fingerprints, Fingerprint

\* A rerun about the methods only.
LEMMA ResumedReflects ==
  ASSUME NEW i, NEW prev, ResultSound(prev), Reflects(i, prev), NEW excluded,
         NEW cs, Range(cs) = OfType(cs, "method_selection")
  PROVE  RerunOf(i, prev, cs, excluded, Rerun(i, prev, excluded, cs))
<1> DEFINE defined == Redefine(prev.defined, cs)
           dropped == DroppedBefore(prev, cs)
           adj == Adjusted(prev.adj, cs, prev)
           check == Keep(prev.check, dropped)
           r == Rerun(i, prev, excluded, cs)
<1>1. AdjSound(prev.adj) /\ adj = prev.adj /\ Named(cs) = {}
  <2>1. AdjSound(prev.adj)
    BY DEF Reflects
  <2> QED BY <2>1, MethodsOnly DEF Named
<1>2. r = Compared(i, prev, defined, prev.coll, check, adj, dropped, excluded, cs)
  BY DEF Rerun, Resumed
<1>3. /\ defined.event = prev.defined.event
      /\ DOMAIN defined.assumptions = DOMAIN prev.defined.assumptions
      /\ \A a \in DOMAIN defined.assumptions :
           defined.assumptions[a] = prev.defined.assumptions[a]
      /\ prev.dropped \subseteq dropped
  <2>1. prev.dropped \subseteq dropped
    BY Redefined
  <2>2. /\ defined.event = prev.defined.event
        /\ DOMAIN defined.assumptions \subseteq DOMAIN prev.defined.assumptions
        /\ \A a \in DOMAIN prev.defined.assumptions \ Named(cs) :
             /\ a \in DOMAIN defined.assumptions
             /\ defined.assumptions[a] = prev.defined.assumptions[a]
    BY RedefinedIs
  <2> QED BY <1>1, <2>1, <2>2
<1> HIDE DEF defined, adj, dropped
<1>4. CheckSound(prev.check, prev.coll)
  BY DEF ResultSound
<1>5. check = [assumptions |-> Restrict(prev.check.assumptions,
                                        DOMAIN prev.check.assumptions \ dropped),
               event |-> prev.check.event, undriven |-> prev.check.undriven]
  BY <1>4 DEF Keep, CheckSound
<1> HIDE DEF check
<1>6. /\ check.assumptions = Restrict(prev.check.assumptions,
                                      DOMAIN prev.check.assumptions \ dropped)
      /\ check.event = prev.check.event /\ check.undriven = prev.check.undriven
      /\ check = [assumptions |-> check.assumptions, event |-> check.event,
                  undriven |-> check.undriven]
  BY <1>5
<1>7. /\ DOMAIN check.assumptions = DOMAIN prev.check.assumptions \ dropped
      /\ \A a \in DOMAIN check.assumptions : check.assumptions[a] = prev.check.assumptions[a]
  BY <1>6, Restricted
<1>8. CheckSound(check, prev.coll)
  BY <1>4, <1>6, <1>7 DEF CheckSound
<1> DEFINE s == Compared(i, prev, defined, prev.coll, check, adj, dropped, excluded, cs)
<1>9. /\ s.defined = defined /\ s.coll = prev.coll /\ s.adj = adj
      /\ s.check.event = check.event /\ dropped \subseteq s.dropped
      /\ s.prints = Fingerprints(check, prev.coll, excluded)
  BY <1>8, ComparedIs
<1>10. ASSUME prev.coll.usable, NEW a \in Live(s)
       PROVE  Stands(i, s, a)
  <2>1. a \in DOMAIN defined.assumptions /\ a \notin s.dropped
    BY <1>9 DEF Live
  <2>2. a \in Live(prev) /\ a \notin dropped
    BY <1>3, <1>9, <2>1 DEF Live
  <2>3. Stands(i, prev, a)
    BY <1>10, <2>2 DEF Reflects
  <2>4. PICK drivers : drivers = defined.assumptions[a]
    OBVIOUS
  <2>5. drivers = prev.defined.assumptions[a]
    BY <1>3, <2>1, <2>4
  <2>6. /\ Gathered(i, adj, prev.coll, a, drivers)
        /\ a \in DOMAIN prev.check.assumptions <=>
             ("category_trend" \in drivers => TrendHolds(i, prev.coll))
        /\ a \in DOMAIN prev.check.assumptions => prev.check.assumptions[a] = drivers
    BY <1>1, <2>3, <2>5 DEF Stands
  <2>7. /\ a \in DOMAIN check.assumptions <=>
             ("category_trend" \in drivers => TrendHolds(i, prev.coll))
        /\ a \in DOMAIN check.assumptions => check.assumptions[a] = drivers
    BY <1>7, <2>2, <2>6
  <2> QED BY <1>8, <1>10, <2>1, <2>4, <2>6, <2>7, ComparedStands
<1>11. \A a \in DOMAIN s.prints : s.prints[a].excluded = excluded[a]
  BY <1>9, PrintsExclude
<1> HIDE DEF s
<1>12. r = s
  BY <1>2 DEF s
<1>13. Reflects(i, s)
  BY <1>1, <1>3, <1>6, <1>9, <1>10 DEF Reflects
<1>14. ASSUME NEW a \in Live(prev) \ AllTargets(cs, prev)
       PROVE  a \in Live(s) /\ s.defined.assumptions[a] = prev.defined.assumptions[a]
  <2>1. OfType(cs, "method_selection") = {}
    BY TargetsInclude
  <2>2. a \in DOMAIN defined.assumptions /\ a \notin dropped
    BY <1>1, <1>3, RedefinedIs DEF Live, dropped
  <2>3. a \notin s.dropped
    BY <2>1, <2>2, <1>8, ComparedIs DEF s
  <2> QED BY <1>3, <1>9, <2>2, <2>3 DEF Live
<1> QED BY <1>3, <1>9, <1>11, <1>12, <1>13, <1>14 DEF RerunOf, adj

\* A rerun that collects the data anew.
LEMMA RecollectedReflects ==
  ASSUME NEW i, NEW prev, ResultSound(prev), Reflects(i, prev), NEW excluded,
         NEW cs, cs \in Seq(Range(cs)), \A c \in Range(cs) : WellFormed(c),
         Range(cs) # OfType(cs, "method_selection")
  PROVE  RerunOf(i, prev, cs, excluded, Rerun(i, prev, excluded, cs))
<1> DEFINE defined == Redefine(prev.defined, cs)
           dropped == DroppedBefore(prev, cs)
           adj == Adjusted(prev.adj, cs, prev)
           live == Restrict(defined.assumptions, DOMAIN defined.assumptions \ dropped)
           coll == Collect(i, adj, live, defined.event)
           out == IF coll.usable THEN dropped ELSE dropped \cup DOMAIN defined.assumptions
           left == Restrict(defined.assumptions, DOMAIN defined.assumptions \ out)
           check == CheckDrivers(left, defined.event, i, coll)
           s == Compared(i, prev, defined, coll, check, adj, out, excluded, cs)
<1>1. Rerun(i, prev, excluded, cs) = s
  BY DEF Rerun, Resumed, Recollected
<1>2. /\ DefinedSound(defined) /\ prev.dropped \subseteq dropped
      /\ defined.event = prev.defined.event
      /\ \A a \in Live(prev) \ AllTargets(cs, prev) :
           /\ a \in DOMAIN defined.assumptions /\ a \notin dropped
           /\ defined.assumptions[a] = prev.defined.assumptions[a]
  BY Redefined, RedefinedIs, TargetsInclude DEF Live
<1>3. AdjSound(adj)
  BY AdjustedSound DEF Reflects
<1> HIDE DEF defined, dropped, adj
<1>4. /\ DOMAIN live = DOMAIN defined.assumptions \ dropped
      /\ \A a \in DOMAIN live : live[a] = defined.assumptions[a]
  BY Restricted
<1>5. /\ DOMAIN left = DOMAIN defined.assumptions \ out
      /\ \A a \in DOMAIN left : left[a] = defined.assumptions[a]
  BY Restricted
<1>6. \A a \in DOMAIN defined.assumptions : defined.assumptions[a] \subseteq {"category_trend"}
  BY <1>2 DEF DefinedSound
<1> HIDE DEF live, left
<1>7. /\ coll.usable <=> Usable(i, adj)
      /\ coll.usable => coll.base = Base(i, adj)
      /\ coll.usable => \A a \in DOMAIN live : Gathered(i, adj, coll, a, live[a])
      /\ coll.usable => DOMAIN coll.evidence \subseteq coll.sources
  BY <1>4, <1>6, CollectGathers, CollectionNames
<1> HIDE DEF coll
<1>8. CheckSound(check, coll)
  <2>1. /\ DOMAIN left \subseteq Assumptions
        /\ \A a \in DOMAIN left : left[a] \subseteq {"category_trend"}
    BY <1>2, <1>5, <1>6 DEF DefinedSound
  <2> QED BY <1>7, <2>1, DriversChecked
<1>9. coll.usable =>
        /\ check.event = (defined.event /\ EventHolds(i, coll))
        /\ \A a \in DOMAIN left :
             /\ a \in DOMAIN check.assumptions <=>
                  ("category_trend" \in left[a] => TrendHolds(i, coll))
             /\ a \in DOMAIN check.assumptions => check.assumptions[a] = left[a]
  <2>1. \A a \in DOMAIN left : left[a] \subseteq {"category_trend"}
    BY <1>5, <1>6
  <2> QED BY <2>1, CheckMeans
<1> HIDE DEF check, out
<1>10. /\ s.defined = defined /\ s.coll = coll /\ s.adj = adj
       /\ s.check.event = check.event /\ out \subseteq s.dropped
       /\ s.prints = Fingerprints(check, coll, excluded)
       /\ \A a \in s.dropped : \/ a \in out \/ a \in AllTargets(cs, prev)
                               \/ OfType(cs, "method_selection") # {}
  BY <1>8, ComparedIs
<1>11. ASSUME coll.usable, NEW a \in Live(s)
       PROVE  Stands(i, s, a)
  <2>1. a \in DOMAIN defined.assumptions /\ a \notin s.dropped /\ a \notin out
    BY <1>10 DEF Live
  <2>2. a \in DOMAIN left /\ a \in DOMAIN live
    BY <1>4, <1>5, <1>11, <2>1 DEF out
  <2>3. PICK drivers : drivers = defined.assumptions[a]
    OBVIOUS
  <2>4. left[a] = drivers /\ live[a] = drivers
    BY <1>4, <1>5, <2>2, <2>3
  <2>5. /\ Gathered(i, adj, coll, a, drivers)
        /\ a \in DOMAIN check.assumptions <=>
             ("category_trend" \in drivers => TrendHolds(i, coll))
        /\ a \in DOMAIN check.assumptions => check.assumptions[a] = drivers
    BY <1>7, <1>9, <1>11, <2>2, <2>4
  <2> QED BY <1>8, <1>11, <2>1, <2>3, <2>5, ComparedStands
<1>12. \A a \in DOMAIN s.prints : s.prints[a].excluded = excluded[a]
  BY <1>10, PrintsExclude
<1> HIDE DEF s
<1>13. Reflects(i, s)
  BY <1>3, <1>7, <1>9, <1>10, <1>11 DEF Reflects
<1>14. ASSUME coll.usable, NEW a \in Live(prev) \ AllTargets(cs, prev)
       PROVE  a \in Live(s) /\ s.defined.assumptions[a] = prev.defined.assumptions[a]
  <2>1. OfType(cs, "method_selection") = {}
    BY TargetsInclude
  <2>2. a \notin s.dropped
    BY <1>2, <1>10, <1>14, <2>1 DEF out
  <2> QED BY <1>2, <1>10, <2>2 DEF Live
<1> QED BY <1>1, <1>2, <1>10, <1>12, <1>13, <1>14 DEF RerunOf, adj

LEMMA RerunReflects ==
  ASSUME NEW i, NEW prev, ResultSound(prev), Reflects(i, prev), NEW excluded,
         NEW cs, cs \in Seq(Range(cs)), \A c \in Range(cs) : WellFormed(c)
  PROVE  RerunOf(i, prev, cs, excluded, Rerun(i, prev, excluded, cs))
<1>1. CASE Range(cs) = OfType(cs, "method_selection")
  BY <1>1, ResumedReflects
<1>2. CASE Range(cs) # OfType(cs, "method_selection")
  BY <1>2, RecollectedReflects
<1> QED BY <1>1, <1>2

\* run_forecast_steps
LEMMA FirstReflects ==
  ASSUME NEW i
  PROVE  LET r == RunForecastSteps(i)
         IN  /\ Reflects(i, r)
             /\ \A a \in DOMAIN r.prints : r.prints[a].excluded = NothingExcluded[a]
<1> DEFINE defined == Define(i)
           live == defined.assumptions
           coll == Collect(i, NoAdjustments, live, defined.event)
           check == CheckDrivers(live, defined.event, i, coll)
           values == Calculate(check, i, coll, NothingExcluded)
           r == RunForecastSteps(i)
<1>1. \A a \in DOMAIN live : live[a] \subseteq {"category_trend"}
  BY DEF Define
<1>2. r = ResultOf(defined, coll, check, values, NoAdjustments, {},
                   Fingerprints(check, coll, NothingExcluded))
  BY DEF RunForecastSteps, CollectedFirst, Checked
<1>3. AdjSound(NoAdjustments)
  BY DEF AdjSound, NoAdjustments
<1> HIDE DEF defined
<1>4. /\ coll.usable <=> Usable(i, NoAdjustments)
      /\ coll.usable => coll.base = Base(i, NoAdjustments)
      /\ coll.usable => \A a \in DOMAIN live : Gathered(i, NoAdjustments, coll, a, live[a])
  BY <1>1, CollectGathers
<1> HIDE DEF coll
<1>5. coll.usable =>
        /\ check.event = (defined.event /\ EventHolds(i, coll))
        /\ \A a \in DOMAIN live :
             /\ a \in DOMAIN check.assumptions <=>
                  ("category_trend" \in live[a] => TrendHolds(i, coll))
             /\ a \in DOMAIN check.assumptions => check.assumptions[a] = live[a]
  BY <1>1, CheckMeans
<1> HIDE DEF check, values, r
<1>6. /\ r.defined = defined /\ r.coll = coll /\ r.check = check /\ r.adj = NoAdjustments
      /\ r.dropped = {} /\ r.prints = Fingerprints(check, coll, NothingExcluded)
      /\ r.values = Restrict(values, Computed(values))
  BY <1>2 DEF ResultOf
<1>7. ASSUME coll.usable, NEW a \in Live(r)
      PROVE  Stands(i, r, a)
  <2>1. a \in DOMAIN live
    BY <1>6 DEF Live
  <2>2. PICK drivers : drivers = live[a]
    OBVIOUS
  <2>3. /\ drivers = r.defined.assumptions[a] /\ r.coll.usable
        /\ Gathered(i, r.adj, r.coll, a, drivers)
        /\ a \in DOMAIN r.check.assumptions <=>
             ("category_trend" \in drivers => TrendHolds(i, r.coll))
        /\ a \in DOMAIN r.check.assumptions => r.check.assumptions[a] = drivers
        /\ r.prints = Fingerprints(r.check, r.coll, NothingExcluded)
    BY <1>4, <1>5, <1>6, <1>7, <2>1, <2>2
  <2>4. r.values = Restrict(Calculate(r.check, i, r.coll, NothingExcluded),
                            Computed(Calculate(r.check, i, r.coll, NothingExcluded)))
    BY <1>6 DEF values
  <2> QED BY <2>3, <2>4, ResultStands
<1>8. Reflects(i, r)
  BY <1>3, <1>4, <1>5, <1>6, <1>7 DEF Reflects
<1> QED BY <1>6, <1>8, PrintsExclude DEF r

------------------------------------------------------------------------------
(* What is not concerned keeps its months *)

LEMMA MaxOfThree ==
  ASSUME NEW x \in Int, NEW y \in Int, NEW z \in Int
  PROVE  /\ Max({x, y, z}) \in {x, y, z}
         /\ x <= Max({x, y, z}) /\ y <= Max({x, y, z}) /\ z <= Max({x, y, z})
<1>1. \E m \in {x, y, z} : \A n \in {x, y, z} : m >= n
  <2>1. CASE x >= y /\ x >= z
    BY <2>1
  <2>2. CASE y >= x /\ y >= z
    BY <2>2
  <2>3. CASE z >= x /\ z >= y
    BY <2>3
  <2> QED BY <2>1, <2>2, <2>3
<1>2. /\ Max({x, y, z}) \in {x, y, z}
      /\ \A n \in {x, y, z} : Max({x, y, z}) >= n
  BY <1>1 DEF Max
<1> QED BY <1>2

\* A source that is used from a later month on has fewer months.
LEMMA CandidateShrinks ==
  ASSUME NEW i \in Inputs, NEW adj, NEW new, AdjSound(adj), AdjSound(new),
         NEW s \in Supplements, adj.from[s] <= new.from[s]
  PROVE  Candidate(i, new, s) \subseteq Candidate(i, adj, s)
<1> DEFINE third == IF s = "pos" THEN i.cut ELSE 1
           old == Max({i.first[s], adj.from[s], third})
           late == Max({i.first[s], new.from[s], third})
<1>1. i.first[s] \in Int /\ third \in Int
  BY RerunAssumption
<1>2. adj.from[s] \in Int /\ new.from[s] \in Int
  BY StepsFacts DEF AdjSound
<1> HIDE DEF third
<1>3. old \in Int /\ late \in Int /\ old <= late
  <2>1. /\ old \in {i.first[s], adj.from[s], third}
        /\ late \in {i.first[s], new.from[s], third}
        /\ i.first[s] <= late /\ new.from[s] <= late /\ third <= late
    BY <1>1, <1>2, MaxOfThree
  <2> HIDE DEF old, late
  <2> QED BY <1>1, <1>2, <2>1
<1>4. Candidate(i, adj, s) = Starting(old) /\ Candidate(i, new, s) = Starting(late)
  BY DEF Candidate, third
<1> HIDE DEF old, late
<1>5. \A k \in Months : k \in Int
  BY DEF Months
<1>6. Starting(late) \subseteq Starting(old)
  <2> SUFFICES ASSUME NEW k \in Months, k >= late
               PROVE  k >= old
    BY DEF Starting
  <2> QED BY <1>3, <1>5
<1> QED BY <1>4, <1>6

LEMMA CandidateSame ==
  ASSUME NEW i, NEW adj, NEW new, NEW s, adj.from[s] = new.from[s]
  PROVE  Candidate(i, new, s) = Candidate(i, adj, s)
BY DEF Candidate

\* Whatever could not be fitted, cannot be fitted with fewer months.
LEMMA FittedShrinks ==
  ASSUME NEW i, NEW adj, NEW new, NEW base, base \subseteq Months,
         adj.exclude \subseteq new.exclude,
         \A s \in Supplements : Candidate(i, new, s) \subseteq Candidate(i, adj, s)
  PROVE  /\ Fitted(i, new, base) \subseteq Fitted(i, adj, base)
         /\ \A s \in Fitted(i, adj, base) :
              s \notin new.exclude /\ Candidate(i, new, s) = Candidate(i, adj, s)
                => s \in Fitted(i, new, base)
<1>1. IsFiniteSet(base)
  <2>1. 1 \in Int /\ LastMonth \in Int
    BY StepsAssumption
  <2>2. IsFiniteSet(1..LastMonth)
    BY <2>1, FS_Interval
  <2> QED BY <2>2, FS_Subset DEF Months
<1>2. ASSUME NEW s \in Supplements
      PROVE  /\ Cardinality(base \cap Candidate(i, new, s))
                  <= Cardinality(base \cap Candidate(i, adj, s))
             /\ Cardinality(base \cap Candidate(i, new, s)) \in Nat
             /\ Cardinality(base \cap Candidate(i, adj, s)) \in Nat
  <2> DEFINE A == base \cap Candidate(i, adj, s)
             B == base \cap Candidate(i, new, s)
  <2>1. B \subseteq A /\ A \subseteq base
    OBVIOUS
  <2> HIDE DEF A, B
  <2>2. IsFiniteSet(A) /\ IsFiniteSet(B)
    BY <1>1, <2>1, FS_Subset
  <2>3. Cardinality(B) <= Cardinality(A)
    BY <2>1, <2>2, FS_Subset
  <2>4. Cardinality(A) \in Nat /\ Cardinality(B) \in Nat
    BY <2>2, FS_CardinalityType
  <2> QED BY <2>3, <2>4 DEF A, B
<1>3. MinOverlap \in Nat
  BY StepsAssumption
<1>4. ASSUME NEW s \in Overlapping(i, new, base)
      PROVE  s \in Overlapping(i, adj, base)
  <2>1. /\ s \in Supplements /\ s \notin new.exclude
        /\ Cardinality(base \cap Candidate(i, new, s)) >= MinOverlap
    BY DEF Overlapping
  <2>2. Cardinality(base \cap Candidate(i, adj, s)) >= MinOverlap
    BY <1>2, <1>3, <2>1
  <2> QED BY <2>1, <2>2 DEF Overlapping
<1>5. ASSUME NEW s \in Overlapping(i, adj, base), s \notin new.exclude,
             Candidate(i, new, s) = Candidate(i, adj, s)
      PROVE  s \in Overlapping(i, new, base)
  BY <1>5 DEF Overlapping
<1> QED BY <1>4, <1>5 DEF Fitted

\* The fill of a history does not change as long as the sources it takes remain.
LEMMA FillSame ==
  ASSUME NEW i, NEW adj, NEW new, NEW base, base \subseteq Months, base # {},
         NEW fitted, NEW refitted, refitted \subseteq fitted, NEW own, NEW limit \in Int,
         \A s \in fitted : Candidate(i, new, s) \subseteq Candidate(i, adj, s),
         \A s \in fitted \cap UsedIn(Fill(i, adj, base, fitted, own, limit)) :
           s \in refitted /\ Candidate(i, new, s) = Candidate(i, adj, s)
  PROVE  /\ Fill(i, new, base, refitted, own, limit) = Fill(i, adj, base, fitted, own, limit)
         /\ UsedIn(Fill(i, adj, base, fitted, own, limit)) \subseteq fitted
<1> DEFINE H(m) == Having(i, adj, fitted, m)
           J(m) == Having(i, new, refitted, m)
           first == Min(base)
           old == FillMonths(i, adj, base, fitted, limit)
           now == FillMonths(i, new, base, refitted, limit)
           fill == Fill(i, adj, base, fitted, own, limit)
<1>1. Months \subseteq Nat /\ \A m, n \in Months : \A k \in m..n : k \in Months
  BY StepsAssumption DEF Months
<1>2. first \in base
  <2>1. base \in SUBSET Nat
    BY <1>1
  <2>2. PICK x \in base : \A y \in base : x <= y
    BY <2>1, Least
  <2> QED BY <2>2 DEF Min
<1>3. first \in Int
  <2> HIDE DEF first
  <2>1. first \in Nat
    BY <1>1, <1>2
  <2> QED BY <2>1
<1>4. /\ fill = [m \in old |-> BestOf(H(m), own)]
      /\ Fill(i, new, base, refitted, own, limit) = [m \in now |-> BestOf(J(m), own)]
  BY DEF Fill
<1>5. \A m : J(m) \subseteq H(m) /\ H(m) \subseteq fitted
  BY DEF Having
<1>6. \A s : Tier(s, own) \in {1, 2, 3}
  BY DEF Tier
<1>7. \A S : BestOf(S, own) \subseteq S
  BY DEF BestOf
<1>8. \A S : S # {} => BestOf(S, own) # {}
  <2> SUFFICES ASSUME NEW S, S # {}
               PROVE  \E s \in S : \A t \in S : Tier(s, own) <= Tier(t, own)
    BY DEF BestOf
  <2>1. CASE \E s \in S : Tier(s, own) = 1
    BY <1>6, <2>1
  <2>2. CASE ~(\E s \in S : Tier(s, own) = 1) /\ \E s \in S : Tier(s, own) = 2
    BY <1>6, <2>2
  <2>3. CASE ~(\E s \in S : Tier(s, own) \in {1, 2})
    BY <1>6, <2>3
  <2> QED BY <2>1, <2>2, <2>3
<1> HIDE DEF H, J, first
<1>9. old = {m \in Months : m < first /\ first - m <= limit
                             /\ \A k \in m..(first - 1) : H(k) # {}}
  BY DEF FillMonths, H, first
<1>10. now = {m \in Months : m < first /\ first - m <= limit
                              /\ \A k \in m..(first - 1) : J(k) # {}}
  BY DEF FillMonths, J, first
<1> HIDE DEF old, now
<1>11. ASSUME NEW m \in old
       PROVE  BestOf(H(m), own) \subseteq J(m)
  <2>1. SUFFICES ASSUME NEW s \in BestOf(H(m), own)
                 PROVE  s \in J(m)
    OBVIOUS
  <2>2. s \in H(m) /\ s \in fitted
    BY <1>5, <1>7
  <2>3. m \in DOMAIN fill /\ s \in fill[m]
    BY <1>4
  <2> HIDE DEF fill
  <2>4. s \in UsedIn(fill)
    BY <2>3 DEF UsedIn
  <2>5. s \in refitted /\ Candidate(i, new, s) = Candidate(i, adj, s)
    BY <2>2, <2>4 DEF fill
  <2> QED BY <2>2, <2>5 DEF H, J, Having
<1> HIDE DEF fill
<1>12. ASSUME NEW m \in old, NEW k \in m..(first - 1)
       PROVE  k \in old
  <2>1. m \in Months /\ m < first /\ first - m <= limit /\ m \in Int
    BY <1>1, <1>9
  <2>2. k \in Months
    <3>1. k \in m..first
      BY <1>3, <2>1
    <3> QED BY <1>1, <1>2, <2>1, <3>1
  <2>3. k < first /\ first - k <= limit
    BY <1>3, <2>1
  <2>4. \A n \in k..(first - 1) : n \in m..(first - 1)
    BY <1>3, <2>1
  <2>5. \A n \in k..(first - 1) : H(n) # {}
    BY <1>9, <2>4
  <2> QED BY <1>9, <2>2, <2>3, <2>5
<1>13. old \subseteq now
  <2> SUFFICES ASSUME NEW m \in old
               PROVE  m \in now
    OBVIOUS
  <2>1. ASSUME NEW k \in m..(first - 1)
        PROVE  J(k) # {}
    <3>1. k \in old /\ H(k) # {}
      BY <1>9, <1>12
    <3> QED BY <1>8, <1>11, <3>1
  <2> QED BY <1>9, <1>10, <2>1
<1>14. now \subseteq old
  BY <1>5, <1>9, <1>10
<1>15. ASSUME NEW m \in old
       PROVE  BestOf(J(m), own) = BestOf(H(m), own)
  <2>1. H(m) # {}
    <3>1. m \in Int /\ m < first
      BY <1>1, <1>9
    <3>2. m \in m..(first - 1)
      BY <1>3, <3>1
    <3> QED BY <1>9, <3>2
  <2>2. PICK b \in BestOf(H(m), own) : TRUE
    BY <1>8, <2>1
  <2>3. b \in J(m) /\ \A t \in H(m) : Tier(b, own) <= Tier(t, own)
    BY <1>11, <2>2 DEF BestOf
  <2>4. ASSUME NEW s \in BestOf(H(m), own)
        PROVE  s \in BestOf(J(m), own)
    BY <1>5, <1>11 DEF BestOf
  <2>5. ASSUME NEW s \in BestOf(J(m), own)
        PROVE  s \in BestOf(H(m), own)
    <3>1. s \in H(m) /\ Tier(s, own) <= Tier(b, own)
      BY <1>5, <2>3 DEF BestOf
    <3>2. \A t \in H(m) : Tier(s, own) <= Tier(t, own)
      BY <1>6, <2>3, <3>1
    <3> QED BY <3>1, <3>2 DEF BestOf
  <2> QED BY <2>4, <2>5
<1>16. Fill(i, new, base, refitted, own, limit) = fill
  BY <1>4, <1>13, <1>14, <1>15
<1>17. UsedIn(fill) \subseteq fitted
  <2>1. \A m \in DOMAIN fill : fill[m] \subseteq fitted
    BY <1>4, <1>5, <1>7
  <2> QED BY <2>1 DEF UsedIn
<1> QED BY <1>16, <1>17 DEF fill

\* An assumption that no cause concerns has the training data and the evidence
\* it had.
SameView(a, drivers, old, new) ==
  /\ new.base = old.base
  /\ TrainingFor(new, a) = TrainingFor(old, a)
  /\ \A s \in RequiredBy(drivers) :
       /\ s \in DOMAIN new.evidence <=> s \in DOMAIN old.evidence
       /\ s \in DOMAIN new.evidence => new.evidence[s] = old.evidence[s]

LEMMA GatheredSame ==
  ASSUME NEW i \in Inputs, NEW prev, NEW r, Reflects(i, prev), Reflects(i, r),
         prev.coll.usable, r.coll.usable,
         NEW a, NEW drivers, drivers \subseteq {"category_trend"},
         drivers = prev.defined.assumptions[a], drivers = r.defined.assumptions[a],
         Gathered(i, prev.adj, prev.coll, a, drivers), Gathered(i, r.adj, r.coll, a, drivers),
         Spared(a, prev, prev.adj, r.adj),
         \A s \in Sources : prev.adj.from[s] <= r.adj.from[s]
  PROVE  SameView(a, drivers, prev.coll, r.coll)
<1> DEFINE adj == prev.adj
           new == r.adj
           base == Base(i, adj)
           own == OwnSources(drivers)
           fitted == Fitted(i, adj, base)
           refitted == Fitted(i, new, base)
           limit == FillLimit(a, adj, base)
           fill == FillOf(a, i, adj, base, own)
<1>1. AdjSound(adj) /\ AdjSound(new)
  BY DEF Reflects
<1>2. \A s \in Sources : UsesSource(a, drivers, s, prev.coll) =>
        new.from[s] = adj.from[s] /\ (s \in new.exclude <=> s \in adj.exclude)
  BY DEF Spared
<1>3. /\ Orders \in Sources /\ Supplements \subseteq Sources /\ own = RequiredBy(drivers)
      /\ own \subseteq Supplements /\ Orders \notin own
  BY StepsFacts, OwnOf DEF Sources
<1>4. Base(i, new) = base
  <2>1. new.from[Orders] = adj.from[Orders]
    BY <1>2, <1>3 DEF UsesSource
  <2> QED BY <2>1 DEF Base
<1>5. /\ prev.coll.base = base /\ r.coll.base = base
      /\ base # {} /\ base \subseteq Months
  <2>1. prev.coll.base = base /\ r.coll.base = Base(i, new) /\ Usable(i, adj)
    BY DEF Reflects
  <2>2. base \subseteq Months
    BY DEF Base, Starting
  <2> QED BY <1>4, <2>1, <2>2 DEF Usable
<1>6. /\ a \in DOMAIN prev.coll.training /\ a \in DOMAIN prev.coll.used
      /\ prev.coll.training[a] = Series(i, adj, base, fill)
      /\ prev.coll.used[a] = UsedIn(fill)
      /\ a \in DOMAIN r.coll.training
      /\ r.coll.training[a] = Series(i, new, base, FillOf(a, i, new, base, own))
  BY <1>5 DEF Gathered
<1>7. UsedIn(fill) \subseteq Supplements
  BY FillOfSupplements
<1>8. \A s \in Supplements : Candidate(i, new, s) \subseteq Candidate(i, adj, s)
  BY <1>1, <1>3, CandidateShrinks
<1>9. adj.exclude \subseteq new.exclude
  BY DEF Spared
<1>10. ASSUME NEW s \in UsedIn(fill) \cup own
       PROVE  /\ Candidate(i, new, s) = Candidate(i, adj, s)
              /\ s \in new.exclude <=> s \in adj.exclude
  <2>1. s \in Sources /\ UsesSource(a, drivers, s, prev.coll)
    BY <1>3, <1>6, <1>7 DEF UsesSource
  <2>2. new.from[s] = adj.from[s]
    BY <1>2, <2>1
  <2> QED BY <1>2, <2>1, <2>2, CandidateSame
<1>11. /\ FillLimit(a, new, base) = limit /\ limit \in Int
  <2>1. a \in new.force <=> a \in adj.force
    BY DEF Spared
  <2>2. LastMonth \in Int /\ MinHistory \in Int /\ HistoryTarget \in Int
    BY StepsAssumption
  <2>3. IsFiniteSet(base)
    <3>1. 1 \in Int /\ LastMonth \in Int
      BY <2>2
    <3>2. IsFiniteSet(1..LastMonth)
      BY <3>1, FS_Interval
    <3> QED BY <1>5, <3>2, FS_Subset DEF Months
  <2>4. Cardinality(base) \in Int
    <3>1. Cardinality(base) \in Nat
      BY <2>3, FS_CardinalityType
    <3> HIDE DEF base
    <3> QED BY <3>1
  <2> HIDE DEF base
  <2>5. Lacking(base) \in Int
    BY <2>2, <2>4 DEF Lacking
  <2> QED BY <2>1, <2>2, <2>5 DEF FillLimit
<1> HIDE DEF adj, new, base, own, limit
<1>12. fill = Fill(i, adj, base, fitted, own, limit)
  BY DEF FillOf, limit
<1>13. FillOf(a, i, new, base, own) = Fill(i, new, base, refitted, own, limit)
  BY <1>11 DEF FillOf
<1>14. fitted \subseteq Supplements
  BY DEF Fitted, Overlapping
<1>15. refitted \subseteq fitted
  BY <1>5, <1>8, <1>9, FittedShrinks
<1>16. \A s \in fitted : s \notin adj.exclude
  BY DEF Fitted, Overlapping
<1>17. ASSUME NEW s \in fitted \cap UsedIn(fill)
       PROVE  s \in refitted /\ Candidate(i, new, s) = Candidate(i, adj, s)
  <2>1. Candidate(i, new, s) = Candidate(i, adj, s) /\ s \notin new.exclude
    BY <1>10, <1>16
  <2> QED BY <1>5, <1>8, <1>9, <2>1, FittedShrinks
<1> HIDE DEF fill, fitted, refitted
<1>18. FillOf(a, i, new, base, own) = fill
  <2>1. /\ Fill(i, new, base, refitted, own, limit) = Fill(i, adj, base, fitted, own, limit)
    BY <1>5, <1>8, <1>11, <1>12, <1>14, <1>15, <1>17, FillSame
  <2> QED BY <1>12, <1>13, <2>1
<1>19. Series(i, new, base, fill) = Series(i, adj, base, fill)
  <2>1. \A m \in DOMAIN fill : \A s \in fill[m] : s \in UsedIn(fill)
    BY DEF UsedIn
  <2>2. \A m \in DOMAIN fill :
          {<<s, base \cap Candidate(i, new, s)>> : s \in fill[m]}
            = {<<s, base \cap Candidate(i, adj, s)>> : s \in fill[m]}
    BY <1>10, <2>1
  <2> QED BY <2>2 DEF Series
<1>20. TrainingFor(r.coll, a) = TrainingFor(prev.coll, a)
  BY <1>6, <1>18, <1>19 DEF TrainingFor
<1>21. ASSUME NEW s \in RequiredBy(drivers)
       PROVE  /\ s \in DOMAIN r.coll.evidence <=> s \in DOMAIN prev.coll.evidence
              /\ s \in DOMAIN r.coll.evidence => r.coll.evidence[s] = prev.coll.evidence[s]
  <2>1. s \in own /\ s \in Sources
    BY <1>3
  <2>2. /\ Candidate(i, new, s) = Candidate(i, adj, s)
        /\ s \in new.exclude <=> s \in adj.exclude
    BY <1>10, <2>1
  <2>3. [new EXCEPT !.from[s] = 1].from[s] = [adj EXCEPT !.from[s] = 1].from[s]
    BY <1>1, <2>1 DEF AdjSound
  <2>4. Candidate(i, [new EXCEPT !.from[s] = 1], s) = Candidate(i, [adj EXCEPT !.from[s] = 1], s)
    BY <2>3, CandidateSame
  <2>5. /\ s \in DOMAIN prev.coll.evidence <=>
             s \notin adj.exclude /\ Candidate(i, [adj EXCEPT !.from[s] = 1], s) # {}
        /\ s \in DOMAIN prev.coll.evidence => prev.coll.evidence[s] = Candidate(i, adj, s)
    BY DEF Gathered, adj
  <2>6. /\ s \in DOMAIN r.coll.evidence <=>
             s \notin new.exclude /\ Candidate(i, [new EXCEPT !.from[s] = 1], s) # {}
        /\ s \in DOMAIN r.coll.evidence => r.coll.evidence[s] = Candidate(i, new, s)
    BY DEF Gathered, new
  <2> QED BY <2>2, <2>4, <2>5, <2>6
<1> QED BY <1>5, <1>20, <1>21 DEF SameView

\* Whoever sees the same data finds the same.
LEMMA TrendSame ==
  ASSUME NEW i, NEW a, NEW drivers, drivers \subseteq {"category_trend"},
         NEW old, NEW new, SameView(a, drivers, old, new), "category_trend" \in drivers
  PROVE  TrendHolds(i, new) <=> TrendHolds(i, old)
<1>1. {"pos", "market"} = RequiredBy(drivers)
  BY OwnOf
<1>2. {"pos", "market"} \subseteq DOMAIN new.evidence
        <=> {"pos", "market"} \subseteq DOMAIN old.evidence
  BY <1>1 DEF SameView
<1>3. {"pos", "market"} \subseteq DOMAIN new.evidence =>
        new.evidence["pos"] = old.evidence["pos"] /\ new.evidence["market"] = old.evidence["market"]
  BY <1>1 DEF SameView
<1>4. {"pos", "market"} \subseteq DOMAIN new.evidence => Paired(new) = Paired(old)
  BY <1>3 DEF Paired
<1> QED BY <1>2, <1>4 DEF TrendHolds

LEMMA EvidenceSame ==
  ASSUME NEW a, NEW drivers, NEW old, NEW new, SameView(a, drivers, old, new)
  PROVE  \A s \in RequiredBy(drivers) : EvidenceFor(new, s) = EvidenceFor(old, s)
BY DEF SameView, EvidenceFor

LEMMA ValueSame ==
  ASSUME NEW i, NEW a, NEW drivers, drivers \subseteq {"category_trend"}, NEW event,
         NEW excluded, NEW old, NEW new, SameView(a, drivers, old, new)
  PROVE  /\ ValueOf(a, drivers, event, i, new, excluded)
              = ValueOf(a, drivers, event, i, old, excluded)
         /\ Fingerprint(a, drivers, new, excluded) = Fingerprint(a, drivers, old, excluded)
<1>1. /\ "category_trend" \in drivers =>
           EvidenceFor(new, "market") = EvidenceFor(old, "market")
  <2>1. "category_trend" \in drivers => "market" \in RequiredBy(drivers)
    BY OwnOf
  <2> QED BY <2>1, EvidenceSame
<1>2. TrainingFor(new, a) = TrainingFor(old, a) /\ new.base = old.base
  BY DEF SameView
<1>3. \A e : WithDrivers(drivers, e, i, new) = WithDrivers(drivers, e, i, old)
  BY <1>1 DEF WithDrivers
<1>4. \A training, usable : Origins(training, usable, new) = Origins(training, usable, old)
  BY <1>2 DEF Origins
<1>5. \A ms, training, usable :
        MethodsFor(ms, training, usable, i, new) = MethodsFor(ms, training, usable, i, old)
  BY <1>4 DEF MethodsFor
<1>6. \A e : CalculateOne(a, drivers, e, i, new, excluded)
               = CalculateOne(a, drivers, e, i, old, excluded)
  BY <1>2, <1>3, <1>5 DEF CalculateOne
<1>7. ValueOf(a, drivers, event, i, new, excluded) = ValueOf(a, drivers, event, i, old, excluded)
  <2>1. PICK with : with = CalculateOne(a, drivers, event, i, new, excluded)
    OBVIOUS
  <2>2. PICK without : without = CalculateOne(a, drivers, FALSE, i, new, excluded)
    OBVIOUS
  <2>3. with = CalculateOne(a, drivers, event, i, old, excluded)
    BY <1>6, <2>1, Zenon
  <2>4. without = CalculateOne(a, drivers, FALSE, i, old, excluded)
    BY <1>6, <2>2, Zenon
  <2>5. ValueOf(a, drivers, event, i, new, excluded)
          = IF with = {} /\ event /\ drivers = {} THEN without ELSE with
    BY <2>1, <2>2 DEF ValueOf, WithOrWithout
  <2>6. ValueOf(a, drivers, event, i, old, excluded)
          = IF with = {} /\ event /\ drivers = {} THEN without ELSE with
    BY <2>3, <2>4 DEF ValueOf, WithOrWithout
  <2> QED BY <2>5, <2>6
<1>8. [s \in RequiredBy(drivers) |-> EvidenceFor(new, s)]
        = [s \in RequiredBy(drivers) |-> EvidenceFor(old, s)]
  BY EvidenceSame
<1> QED BY <1>2, <1>7, <1>8 DEF Fingerprint

------------------------------------------------------------------------------
(* What a rerun leaves alone, step by step *)

\* Two results that agree about what a is made of agree about a.
LEMMA StandsAgree ==
  ASSUME NEW i, NEW prev, NEW r, NEW a, NEW drivers, drivers \subseteq {"category_trend"},
         drivers = prev.defined.assumptions[a], drivers = r.defined.assumptions[a],
         Stands(i, prev, a), Stands(i, r, a), SameView(a, drivers, prev.coll, r.coll),
         r.check.event = prev.check.event,
         a \in DOMAIN prev.prints /\ a \in DOMAIN r.prints =>
           r.prints[a].excluded = prev.prints[a].excluded
  PROVE  SameFor(a, prev, r)
<1>1. "category_trend" \in drivers => (TrendHolds(i, r.coll) <=> TrendHolds(i, prev.coll))
  BY TrendSame
<1>2. a \in DOMAIN prev.check.assumptions <=> a \in DOMAIN r.check.assumptions
  BY <1>1 DEF Stands
<1>3. a \in DOMAIN prev.prints <=> a \in DOMAIN r.prints
  BY <1>2 DEF Stands
<1>4. CASE a \notin DOMAIN prev.prints
  BY <1>3, <1>4 DEF Stands, SameFor
<1>5. CASE a \in DOMAIN prev.prints
  <2>1. PICK x : x = r.prints[a].excluded
    OBVIOUS
  <2>2. x = prev.prints[a].excluded
    BY <1>3, <1>5, <2>1
  <2>3. PICK e : e = prev.check.event
    OBVIOUS
  <2>4. /\ ValueOf(a, drivers, e, i, r.coll, x) = ValueOf(a, drivers, e, i, prev.coll, x)
        /\ Fingerprint(a, drivers, r.coll, x) = Fingerprint(a, drivers, prev.coll, x)
    BY ValueSame
  <2>5. /\ prev.prints[a] = Fingerprint(a, drivers, prev.coll, x)
        /\ a \in DOMAIN prev.values <=> ValueOf(a, drivers, e, i, prev.coll, x) # {}
        /\ a \in DOMAIN prev.values => prev.values[a] = ValueOf(a, drivers, e, i, prev.coll, x)
    BY <1>5, <2>2, <2>3 DEF Stands
  <2>6. /\ r.prints[a] = Fingerprint(a, drivers, r.coll, x)
        /\ a \in DOMAIN r.values <=> ValueOf(a, drivers, e, i, r.coll, x) # {}
        /\ a \in DOMAIN r.values => r.values[a] = ValueOf(a, drivers, e, i, r.coll, x)
    BY <1>3, <1>5, <2>1, <2>3 DEF Stands
  <2> QED BY <1>3, <2>4, <2>5, <2>6 DEF SameFor
<1> QED BY <1>4, <1>5

\* The scope of one rerun.
LEMMA RerunSpares ==
  ASSUME NEW i \in Inputs, NEW prev, ResultSound(prev), Reflects(i, prev), NEW cs,
         NEW excluded, NEW r, RerunOf(i, prev, cs, excluded, r), r.coll.usable,
         \A s \in Sources : prev.adj.from[s] <= r.adj.from[s],
         NEW a \in Live(prev) \ AllTargets(cs, prev),
         a \in DOMAIN prev.prints => excluded[a] = prev.prints[a].excluded
  PROVE  SameFor(a, prev, r)
<1> DEFINE drivers == prev.defined.assumptions[a]
<1>1. /\ Reflects(i, r) /\ r.adj = Adjusted(prev.adj, cs, prev)
      /\ r.defined.event = prev.defined.event
      /\ \A b \in DOMAIN r.prints : r.prints[b].excluded = excluded[b]
      /\ a \in Live(r) /\ r.defined.assumptions[a] = drivers
  BY DEF RerunOf
<1>2. drivers \subseteq {"category_trend"}
  BY DEF ResultSound, DefinedSound, Live
<1>3. Spared(a, prev, prev.adj, r.adj)
  BY <1>1, AdjustedSpares
<1>4. prev.coll.usable
  <2>1. Orders \in Sources
    BY DEF Sources
  <2>2. r.adj.from[Orders] = prev.adj.from[Orders]
    BY <1>3, <2>1 DEF Spared, UsesSource
  <2>3. Base(i, r.adj) = Base(i, prev.adj)
    BY <2>2 DEF Base
  <2>4. Usable(i, r.adj)
    BY <1>1 DEF Reflects
  <2> QED BY <2>3, <2>4 DEF Usable, Reflects
<1>5. Stands(i, prev, a) /\ Stands(i, r, a)
  BY <1>1, <1>4 DEF Reflects
<1>6. Gathered(i, prev.adj, prev.coll, a, drivers) /\ Gathered(i, r.adj, r.coll, a, drivers)
  BY <1>1, <1>5 DEF Stands
<1> HIDE DEF drivers
<1>7. drivers = prev.defined.assumptions[a] /\ drivers = r.defined.assumptions[a]
  BY <1>1 DEF drivers
<1>8. SameView(a, drivers, prev.coll, r.coll)
  BY <1>1, <1>2, <1>3, <1>4, <1>6, <1>7, GatheredSame
<1>9. EventHolds(i, r.coll) = EventHolds(i, prev.coll)
  BY <1>8 DEF SameView, EventHolds
<1>10. r.check.event = prev.check.event
  BY <1>1, <1>4, <1>9 DEF Reflects
<1>11. a \in DOMAIN prev.prints /\ a \in DOMAIN r.prints =>
         r.prints[a].excluded = prev.prints[a].excluded
  BY <1>1
<1> QED BY <1>2, <1>5, <1>7, <1>8, <1>10, <1>11, StandsAgree

LEMMA NoneExcluding ==
  ASSUME NEW excluded \in [Assumptions -> SUBSET Methods], NEW cs, NEW prev,
         OfType(cs, "method_selection") = {}
  PROVE  Excluding(excluded, cs, prev) = excluded
BY DEF Excluding

LEMMA NoCauses ==
  /\ OfType(<<>>, "method_selection") = {} /\ <<>> \in Seq(Range(<<>>))
BY DEF OfType, Range

LEMMA EnsureRecalls ==
  ASSUME Typed, ScopeInv
  PROVE  Recalls(EnsureHandling)
<1> DEFINE r == RunForecastSteps(in)
           h == Handling(r, NothingExcluded)
<1>1. CASE handling # NotRun
  BY <1>1 DEF ScopeInv, EnsureHandling
<1>2. CASE handling = NotRun
  <2>1. Reflects(in, r) /\ \A a \in DOMAIN r.prints : r.prints[a].excluded = NothingExcluded[a]
    BY FirstReflects
  <2> HIDE DEF r
  <2>2. h.result = r /\ h.excluded = NothingExcluded
    BY DEF Handling
  <2> HIDE DEF h
  <2>3. Recalls(h)
    BY <2>1, <2>2 DEF Recalls, Remembers
  <2> QED BY <1>2, <2>3 DEF EnsureHandling, h, r
<1> QED BY <1>1, <1>2

\* A rerun that goes through, from the handling h.
LEMMA RerunFromScope ==
  ASSUME Typed, causes \in Seq(Range(causes)), NEW h, HandlingSound(h), Recalls(h), in' = in,
         RerunFrom(h, Excluding(h.excluded, causes, h.result))
  PROVE  /\ RerunOf(in, h.result, causes, Excluding(h.excluded, causes, h.result),
                    handling'.result)
         /\ Recalls(handling)'
<1> DEFINE e == Excluding(h.excluded, causes, h.result)
           r == Rerun(in, h.result, e, causes)
<1>1. handling' = Handling(r, e)
  BY DEF RerunFrom
<1>2. \A c \in Range(causes) : WellFormed(c)
  BY DEF Typed
<1>3. ResultSound(h.result) /\ Reflects(in, h.result)
  BY DEF HandlingSound, Recalls
<1> HIDE DEF e
<1>4. RerunOf(in, h.result, causes, e, r)
  BY <1>2, <1>3, RerunReflects
<1> HIDE DEF r
<1>5. handling'.result = r /\ handling'.excluded = e
  BY <1>1 DEF Handling
<1>6. Reflects(in', handling'.result) /\ Remembers(handling', causes')
  BY <1>4, <1>5 DEF RerunOf, Remembers
<1> QED BY <1>4, <1>5, <1>6 DEF Recalls, e

LEMMA WriteScope ==
  ASSUME in' = in, NEW result, NEW after, Write(result, after), Recalls(handling)'
  PROVE  ScopeInv'
BY NoCauses DEF Write, ScopeInv

\* The list of what was found is a list of it.
LEMMA SequencesOf ==
  ASSUME NEW S, IsFiniteSet(S)
  PROVE  SetToSeq(S) \in Seq(Range(SetToSeq(S)))
<1>1. Cardinality(S) \in Nat /\ ExistsBijection(1..Cardinality(S), S)
  BY FS_CardinalityType
<1>2. \E f \in [1..Cardinality(S) -> S] : IsInjective(f)
  BY <1>1 DEF ExistsBijection, Bijection, Injection
<1>3. SetToSeq(S) \in [1..Cardinality(S) -> S]
  BY <1>2 DEF SetToSeq
<1> DEFINE q == SetToSeq(S)
<1>4. q \in [1..Cardinality(S) -> Range(q)]
  BY <1>3 DEF Range
<1> HIDE DEF q
<1>5. q \in Seq(Range(q))
  BY <1>1, <1>4
<1> QED BY <1>5 DEF q

\* Causes come only when there are none.
LEMMA NewCauses ==
  ASSUME ScopeInv, causes = <<>>, in' = in, handling' = handling, hold' = hold, hold = "none",
         causes' \in Seq(Range(causes'))
  PROVE  ScopeInv'
<1>1. handling' # NotRun => Reflects(in', handling'.result) /\ Remembers(handling', causes')
  BY NoCauses DEF ScopeInv, Recalls, Remembers
<1> QED BY <1>1 DEF ScopeInv, Recalls

LEMMA NextScope == Inv /\ ScopeInv /\ [Next]_vars => ScopeInv'
<1> SUFFICES ASSUME Inv, ScopeInv, [Next]_vars
             PROVE  ScopeInv'
  OBVIOUS
<1>1. CASE FirstRun
  <2>1. /\ handling' = Handling(RunForecastSteps(in), NothingExcluded)
        /\ Write(RunForecastSteps(in), FALSE) /\ in' = in
    BY <1>1 DEF FirstRun
  <2> DEFINE r == RunForecastSteps(in)
  <2>2. Reflects(in, r) /\ \A a \in DOMAIN r.prints : r.prints[a].excluded = NothingExcluded[a]
    BY FirstReflects
  <2> HIDE DEF r
  <2>3. handling'.result = r /\ handling'.excluded = NothingExcluded
    BY <2>1 DEF Handling, r
  <2>4. Recalls(handling)'
    BY <2>1, <2>2, <2>3 DEF Recalls, Remembers
  <2> QED BY <2>1, <2>4, WriteScope
<1>2. CASE RerunForecast
  <2>1. in' = in /\ RerunFrom(EnsureHandling, Excluding(EnsureHandling.excluded, causes,
                                                        EnsureHandling.result))
    BY <1>2 DEF RerunForecast
  <2>2. HandlingSound(EnsureHandling) /\ Recalls(EnsureHandling)
    BY EnsureSound, EnsureRecalls DEF Inv
  <2>3. Recalls(handling)' /\ Write(handling'.result, TRUE)
    BY <2>1, <2>2, RerunFromScope, RerunFromKeeps DEF Inv, ScopeInv
  <2> QED BY <2>1, <2>3, WriteScope
<1>3. CASE RerunUndefined \/ RerunRaises
  <2>1. /\ in' = in /\ causes' = causes /\ hold' = "forecast_run_error"
        /\ handling' = EnsureHandling
           \/ \E e \in {EnsureHandling.excluded,
                        Excluding(EnsureHandling.excluded, causes, EnsureHandling.result)} :
                handling' = Handling(EnsureHandling.result, e)
    BY <1>3 DEF RerunUndefined, RerunRaises, RunRaises
  <2>2. PICK h : h = EnsureHandling
    OBVIOUS
  <2>3. HandlingSound(h) /\ Recalls(h)
    BY <2>2, EnsureSound, EnsureRecalls DEF Inv
  <2>4. /\ handling'.result = h.result
        /\ handling'.excluded \in {h.excluded, Excluding(h.excluded, causes, h.result)}
    BY <2>1, <2>2 DEF Handling
  <2>5. OfType(causes, "method_selection") = {} => handling'.excluded = h.excluded
    BY <2>3, <2>4, NoneExcluding DEF HandlingSound
  <2>6. Recalls(handling)'
    BY <2>1, <2>3, <2>4, <2>5 DEF Recalls, Remembers
  <2> QED BY <2>1, <2>6 DEF ScopeInv
<1>4. CASE Validate
  <2>1. PICK more \in SUBSET OutOfRange : Judge(Found \cup more)
    BY <1>4 DEF Validate
  <2>2. IsFiniteSet(Found \cup more)
    BY <1>4, FoundSound DEF Inv, Typed, Validate, Awaiting
  <2>3. causes' \in Seq(Range(causes'))
    BY <2>1, <2>2, SequencesOf DEF Judge
  <2>4. causes = <<>>
    BY <1>4 DEF Validate, Awaiting, Inv, Typed
  <2> QED BY <1>4, <2>3, <2>4, NewCauses DEF Validate, Awaiting
<1>5. CASE SendBack
  <2>1. causes' \in Seq(Range(causes'))
    BY <1>5, RerunAssumption DEF SendBack
  <2>2. causes = <<>>
    BY <1>5 DEF SendBack, Inv, Typed
  <2> QED BY <1>5, <2>1, <2>2, NewCauses DEF SendBack
<1>6. CASE PersonAnswers
  <2>1. causes = <<>> /\ causes' = <<>> /\ hold' = "none" /\ UNCHANGED <<in, handling>>
    BY <1>6 DEF PersonAnswers, ScopeInv
  <2> QED BY <2>1 DEF ScopeInv, Recalls
<1>7. CASE FirstRunRaises \/ OperatorReruns \/ Restart \/ UNCHANGED vars
  <2>1. /\ in' = in /\ causes' = causes /\ handling' \in {handling, NotRun}
        /\ hold' \in {"none", "forecast_run_error", hold}
    BY <1>7 DEF FirstRunRaises, RunRaises, OperatorReruns, Restart, vars
  <2>2. handling' # NotRun => Recalls(handling)'
    BY <2>1 DEF ScopeInv, Recalls
  <2> QED BY <2>1, <2>2 DEF ScopeInv
<1> QED BY <1>1, <1>2, <1>3, <1>4, <1>5, <1>6, <1>7 DEF Next

LEMMA ScopeInvariant == Spec => [](Inv /\ ScopeInv)
<1>1. Init => ScopeInv
  BY NoCauses DEF Init, ScopeInv
<1> QED BY <1>1, InitInv, NextInv, NextScope, PTL DEF Spec

\* A rerun leaves an assumption that no cause concerns with the inputs, the methods
\* and the value it had: not even another assumption's loss of a source, or the
\* repetition of a rerun that raised, reaches it.
THEOREM ScopeIsKept == Spec => ScopeKept
<1> DEFINE Spares == Scoped =>
             \A a \in Live(handling.result) \ AllTargets(causes, handling.result) :
               SameFor(a, handling.result, handling'.result)
<1>1. ASSUME Inv, ScopeInv, Scoped,
             NEW a \in Live(handling.result) \ AllTargets(causes, handling.result)
      PROVE  SameFor(a, handling.result, handling'.result)
  <2>1. PICK h : h = handling
    OBVIOUS
  <2>2. PICK r : r = handling'.result
    OBVIOUS
  <2>3. /\ HandlingSound(h) /\ Recalls(h) /\ EnsureHandling = h /\ r.coll.usable
        /\ \A s \in Sources : h.result.adj.from[s] <= r.adj.from[s]
    BY <1>1, <2>1, <2>2 DEF Scoped, DatesOnlyAdvance, Inv, Typed, ScopeInv, EnsureHandling
  <2>4. in' = in /\ RerunFrom(h, Excluding(h.excluded, causes, h.result))
    BY <1>1, <2>3 DEF Scoped, RerunForecast
  <2>5. RerunOf(in, h.result, causes, Excluding(h.excluded, causes, h.result), r)
    BY <1>1, <2>2, <2>3, <2>4, RerunFromScope DEF Inv, ScopeInv
  <2>6. a \in Live(h.result) \ AllTargets(causes, h.result)
    BY <2>1
  <2>7. OfType(causes, "method_selection") = {}
    BY <2>6, TargetsInclude
  <2>8. Excluding(h.excluded, causes, h.result) = h.excluded
    BY <2>3, <2>7, NoneExcluding DEF HandlingSound
  <2>9. a \in DOMAIN h.result.prints => h.excluded[a] = h.result.prints[a].excluded
    BY <2>3, <2>6, <2>7 DEF Recalls, Remembers
  <2>10. in \in Inputs /\ ResultSound(h.result) /\ Reflects(in, h.result)
    BY <1>1, <2>3 DEF Inv, Typed, HandlingSound, Recalls
  <2>11. RerunOf(in, h.result, causes, h.excluded, r)
    BY <2>5, <2>8
  <2>12. SameFor(a, h.result, r)
    BY <2>3, <2>6, <2>9, <2>10, <2>11, RerunSpares
  <2> QED BY <2>1, <2>2, <2>12
<1>2. Inv /\ ScopeInv /\ [Next]_vars => [Spares]_vars
  BY <1>1
<1> QED BY <1>2, ScopeInvariant, PTL DEF Spec, ScopeKept

==============================================================================
