----------------------------- MODULE ForecastRerun -----------------------------
(* One forecast instance and everybody who can make it run again: the         *)
(* validation agent that judges its record, the receiver that sends a value   *)
(* back, the operator who has a run that raised repeated, the person who      *)
(* answers a hold, and a restart that loses the result of the last run.       *)
(* ForecastFlow says when forecast reruns; this module what a rerun does to   *)
(* the assumptions, sources and methods, and that it cannot go on for ever.   *)
EXTENDS ForecastSteps, SequencesExt

CONSTANTS
  Inputs,       \* the instances' inputs to look at
  Requests,     \* the lists of suspected causes a receiver may send back
  MaxFaults,    \* bound: runs that raise
  MaxRestarts,  \* bound: restarts of the process
  MaxAnswers    \* bound: holds that people end

NotRun == [never |-> "run"]

\* SuspectedCause's validator; Drivers stands for no driver in particular.
WellFormed(c) ==
  \/ c.type = "assumption" /\ c.of \in Assumptions /\ c.drivers \in (SUBSET Drivers) \ {{}}
  \/ /\ c.type = "data_source"
     /\ c.issue \in {"insufficient", "contaminated", "irrelevant", "outdated"}
     /\ c.issue # "insufficient" => c.source \in Sources
     /\ c.issue = "outdated" => c.month \in Months
     /\ c.issue = "irrelevant" => c.source # Orders
  \/ c.type = "method_selection" /\ c.issue = "none" /\ c.source = "none"

\* The months of the inputs are numbers; send_back: causes are given.
ASSUME RerunAssumption ==
  /\ \A i \in Inputs : i.orders \in Nat /\ i.cut \in Nat /\ i.first \in [Supplements -> Nat]
  /\ \A r \in Requests : r \in Seq(Range(r)) \ {<<>>} /\ \A c \in Range(r) : WellFormed(c)
  /\ {MaxFaults, MaxRestarts, MaxAnswers} \subseteq Nat

VARIABLES
  in,        \* runtime.inputs
  handling,  \* runtime.handling: the last result and the methods excluded so far
  record,    \* the instance's record in forecast_records
  verdict,   \* "none", "failed", "passed" (with what follows it) or "sent_back"
  causes,    \* suspected_causes of the verdict or of the send_back
  hold,      \* the reason of the open escalation, or "none"
  budget     \* what is left of the bounds

vars == <<in, handling, record, verdict, causes, hold, budget>>

NoRecord == [assumptions |-> <<>>, excluded |-> {}, undriven |-> {}, sources |-> {},
             scenario |-> "none"]

Init ==
  /\ in \in Inputs
  /\ handling = NotRun
  /\ record = NoRecord
  /\ verdict = "none"
  /\ causes = <<>>
  /\ hold = "none"
  /\ budget = [faults |-> MaxFaults, restarts |-> MaxRestarts, answers |-> MaxAnswers]

Spend(what) == budget[what] > 0 /\ budget' = [budget EXCEPT ![what] = @ - 1]

------------------------------------------------------------------------------
(* Writing the record *)

\* MUTANT of Applied: what was dropped is not recorded.
OnlyLackingApplied(result) ==
  [record EXCEPT !.excluded = result.lacking,
                 !.undriven = result.check.undriven,
                 !.sources = result.coll.sources]

\* apply_steps_to_record
Applied(result) ==
  [record EXCEPT !.excluded = result.lacking \cup result.dropped,
                 !.undriven = result.check.undriven,
                 !.sources = result.coll.sources]

\* The assumptions of the record, with their drivers and methods.
Chosen(result) ==
  [a \in DOMAIN result.values |->
     [drivers |-> result.check.assumptions[a], methods |-> result.values[a]]]

\* select_forecast_assumption: several values may be too far apart to decide.
SelectionHolds(result) ==
  IF Cardinality(DOMAIN result.values) > 1 THEN {"none", "selection_unresolved"} ELSE {"none"}

\* _plan_selection, _apply_plan: a value; or a rerun that leaves none keeps the
\* old one for a person to decide; or there is none.
WriteValue(result) ==
  /\ result.values # <<>>
  /\ record' = [Applied(result) EXCEPT !.assumptions = Chosen(result), !.scenario = "rule"]
  /\ hold' \in SelectionHolds(result)

WriteExhausted(result, afterRerun) ==
  /\ result.values = <<>> /\ afterRerun /\ record.scenario # "none"
  /\ record' = Applied(result)
  /\ hold' = "options_exhausted"

WriteNothing(result, afterRerun) ==
  /\ result.values = <<>> /\ (afterRerun => record.scenario = "none")
  /\ record' = [Applied(result) EXCEPT !.assumptions = <<>>, !.scenario = "none"]
  /\ hold' = "no_computable_assumption"

Write(result, afterRerun) ==
  /\ \/ WriteValue(result)
     \/ WriteExhausted(result, afterRerun)
     \/ WriteNothing(result, afterRerun)
  /\ verdict' = "none" /\ causes' = <<>>

\* _run_guarded: the record stays as it is.
RunRaises ==
  /\ hold' = "forecast_run_error"
  /\ UNCHANGED <<in, record, verdict, causes>>

------------------------------------------------------------------------------
(* forecast *)

Idle == record = NoRecord /\ hold = "none"
Handling(result, excluded) == [result |-> result, excluded |-> excluded]

\* run_first_run
FirstRun ==
  /\ Idle
  /\ \E result \in {RunForecastSteps(in)} :
       /\ handling' = Handling(result, NothingExcluded)
       /\ Write(result, FALSE)
  /\ UNCHANGED <<in, budget>>

FirstRunRaises == Idle /\ Spend("faults") /\ RunRaises /\ UNCHANGED handling

\* ensure_handling: after a restart the last result is that of a first run.
EnsureHandling ==
  IF handling = NotRun THEN Handling(RunForecastSteps(in), NothingExcluded) ELSE handling

\* check_forecast_verdict has something to rerun.
ToRerun == hold = "none" /\ verdict \in {"failed", "sent_back"}

\* rerun_forecast_steps_select_and_submit
RerunFrom(h, excluded) ==
  \E result \in {Rerun(in, h.result, excluded, causes)} :
    /\ handling' = Handling(result, excluded)
    /\ Write(result, TRUE)

RerunForecast ==
  /\ ToRerun
  /\ \E h \in {EnsureHandling} :
       /\ ~Undefined(causes, h.result)
       /\ RerunFrom(h, Excluding(h.excluded, causes, h.result))
  /\ UNCHANGED <<in, budget>>

\* A cause names an assumption that is not defined any more.
RerunUndefined ==
  /\ ToRerun
  /\ \E h \in {EnsureHandling} : Undefined(causes, h.result) /\ handling' = h
  /\ RunRaises /\ UNCHANGED budget

\* Any other exception; the methods may already have been excluded.
RerunRaises ==
  /\ ToRerun /\ Spend("faults") /\ RunRaises
  /\ \E h \in {EnsureHandling} :
       \E excluded \in {h.excluded, Excluding(h.excluded, causes, h.result)} :
         handling' = Handling(h.result, excluded)

------------------------------------------------------------------------------
(* forecast_validation *)

AssumptionCause(a, drivers) ==
  [type |-> "assumption", issue |-> "none", of |-> a, drivers |-> drivers,
   source |-> "none", month |-> 1]

\* A driver's own evidence, where a validator looks it up in data_sources.
DeclaredEvidence(driver) == IF driver = "category_trend" THEN "market" ELSE Orders

\* no_evidence names the drivers.
Unbacked(a) ==
  {d \in record.assumptions[a].drivers : DeclaredEvidence(d) \notin record.sources}

\* not_distinct: the second of two that are made the same way.
Repeated ==
  {a \in DOMAIN record.assumptions \ {Default} :
     Default \in DOMAIN record.assumptions
       /\ record.assumptions[a] = record.assumptions[Default]}

\* What validate_assumptions must find.
Found ==
  {AssumptionCause(a, Unbacked(a)) : a \in {b \in DOMAIN record.assumptions : Unbacked(b) # {}}}
    \cup {AssumptionCause(a, Drivers) : a \in Repeated}

\* value_out_of_range depends on quantities: any of the values may be.
OutOfRange == {AssumptionCause(a, Drivers) : a \in DOMAIN record.assumptions}

Awaiting == record.scenario # "none" /\ verdict = "none" /\ hold = "none"

Judge(found) ==
  /\ causes' = SetToSeq(found)
  /\ verdict' = IF found = {} THEN "passed" ELSE "failed"

Validate ==
  /\ Awaiting
  /\ \E more \in SUBSET OutOfRange : Judge(Found \cup more)
  /\ UNCHANGED <<in, handling, record, hold, budget>>

------------------------------------------------------------------------------
(* The receiver, people and restarts *)

\* The value was handed on, and comes back with causes.
SendBack ==
  /\ verdict = "passed" /\ hold = "none"
  /\ causes' \in Requests /\ verdict' = "sent_back"
  /\ UNCHANGED <<in, handling, record, hold, budget>>

\* system_operator: a run that raised is repeated.
OperatorReruns ==
  /\ hold = "forecast_run_error" /\ Spend("answers")
  /\ hold' = "none"
  /\ UNCHANGED <<in, handling, record, verdict, causes>>

\* human_manager's value is not validated.
PersonAnswers ==
  /\ hold \notin {"none", "forecast_run_error"} /\ Spend("answers")
  /\ record' = [record EXCEPT !.scenario = "human"]
  /\ hold' = "none" /\ verdict' = "passed" /\ causes' = <<>>
  /\ UNCHANGED <<in, handling>>

Restart ==
  /\ handling # NotRun /\ Spend("restarts")
  /\ handling' = NotRun
  /\ UNCHANGED <<in, record, verdict, causes, hold>>

Next ==
  \/ FirstRun
  \/ FirstRunRaises
  \/ RerunForecast
  \/ RerunUndefined
  \/ RerunRaises
  \/ Validate
  \/ SendBack
  \/ OperatorReruns
  \/ PersonAnswers
  \/ Restart

Spec == Init /\ [][Next]_vars

------------------------------------------------------------------------------
(* Properties *)

Holds == {"none", "forecast_run_error", "selection_unresolved", "options_exhausted",
          "no_computable_assumption"}

\* The variables have the values their comments say, and the assumptions of the
\* record and of the last result are those the steps define.
TypeOK ==
  /\ in \in Inputs
  /\ handling # NotRun =>
       /\ DOMAIN handling.result.values \subseteq DOMAIN handling.result.check.assumptions
       /\ handling.result.dropped \cup DOMAIN handling.result.defined.assumptions = Assumptions
       /\ handling.excluded \in [Assumptions -> SUBSET Methods]
  /\ DOMAIN record.assumptions \subseteq Assumptions
  /\ record.excluded \cup record.undriven \subseteq Assumptions
  /\ record.sources \subseteq Sources
  /\ record.scenario \in {"none", "rule", "human"}
  /\ verdict \in {"none", "failed", "passed", "sent_back"}
  /\ (causes = <<>>) = (verdict \in {"none", "passed"})
  /\ \A c \in Range(causes) : WellFormed(c)
  /\ hold \in Holds

\* An instance is not rerun for ever, whoever keeps rejecting its value: each
\* rerun changes the inputs of its targets or drops one of them
\* (forecast_steps.py).  There are two ways round it, and no third: causes that
\* move the date of a source to and fro, for the inputs are compared with the
\* last rerun's only; and causes that concern no assumption which is still
\* calculated, for only those are compared.
DateMoves ==
  handling # NotRun /\ handling' # NotRun /\ handling.result.adj.from # handling'.result.adj.from

NobodyCompared ==
  /\ RerunForecast
  /\ AllTargets(causes, EnsureHandling.result) \cap DOMAIN handling'.result.prints = {}

SettlesDown ==
  \/ <>[][~RerunForecast]_vars
  \/ []<><<DateMoves>>_vars
  \/ []<><<NobodyCompared>>_vars

\* An assumption that was dropped for a suspected cause is not in a later value,
\* as long as the last result was not lost to a restart.
DroppedStays ==
  [][handling # NotRun /\ record' # record =>
       handling.result.dropped
         \cap (DOMAIN record'.assumptions \ DOMAIN record.assumptions) = {}]_vars

\* A rerun leaves an assumption that no cause concerns with the same inputs and
\* the same methods (the rerun's scope), also when it repeats one that raised.
\* Not so when there are no orders to use and everybody is dropped, or when a
\* cause moves the date of a source back: adjustments are kept by source, and the
\* months it gives back are used by others too.
SameFor(a, old, new) ==
  /\ (a \in DOMAIN old.prints) = (a \in DOMAIN new.prints)
  /\ a \in DOMAIN old.prints => old.prints[a] = new.prints[a]
  /\ (a \in DOMAIN old.values) = (a \in DOMAIN new.values)
  /\ a \in DOMAIN old.values => old.values[a] = new.values[a]

DatesOnlyAdvance ==
  \A s \in Sources : handling.result.adj.from[s] <= handling'.result.adj.from[s]

Scoped ==
  /\ RerunForecast
  /\ handling # NotRun /\ handling'.result.coll.usable
  /\ DatesOnlyAdvance

ScopeKept ==
  [][Scoped =>
       \A a \in Live(handling.result) \ AllTargets(causes, handling.result) :
         SameFor(a, handling.result, handling'.result)]_vars

\* Whatever became of it, the record says of every assumption that it is part of
\* the value, was excluded, or lost a driver; unless there never were orders to
\* use.
AccountedFor ==
  record # NoRecord /\ in.orders <= LastMonth /\ Base(in, NoAdjustments) # {} =>
    Assumptions \subseteq DOMAIN record.assumptions \cup record.excluded \cup record.undriven

\* A value that awaits its judgement names in data_sources the evidence of each
\* of its assumptions: the validator never has to reject one for it.
EvidenceNamed == Awaiting => \A a \in DOMAIN record.assumptions : Unbacked(a) = {}

==============================================================================
