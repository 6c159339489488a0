--------------------------- MODULE LineCoordination ---------------------------
(* supply_coordination divides the supply of production lines: it checks a    *)
(* line when it gets a signal, fixes the inputs, computes, reads the inputs   *)
(* once more and writes the conclusion; allocation_validation judges it,      *)
(* people close holds, and outside data changes all the time.                 *)
(*                                                                            *)
(* The coordinator suspends only where compute_delay is awaited, so a check   *)
(* is one action and a coordination is two (Check, then Conclude); everybody  *)
(* else acts while it is idle or computing.  The forecast side is             *)
(* InstanceLife.                                                              *)
EXTENDS Naturals, Sequences, InstanceLife, RecordState, Escalations

CONSTANTS
  Lines,
  LineOf,      \* LineOf[i]: the line of instance i
  MaxRounds,   \* MAX_ROUNDS: coordinations in a row in one check
  MaxChanges,  \* bound: changes of the outside data
  MaxTrouble   \* bound: exceeded supplies, bad verdicts, exceptions, restarts

Supply == "supply_coordination"
Validator == "allocation_validation"
Daily == "daily"   \* the scheduler's signal, which points at no record

ASSUME LineAssumption ==
  /\ Lines # {} /\ Daily \notin Lines \cup Instances
  /\ Lines \cap Instances = {}
  /\ LineOf \in [Instances -> Lines]
  /\ {MaxRounds, MaxChanges, MaxTrouble} \subseteq Nat /\ MaxRounds > 0

VARIABLES
  basis,       \* "person" when a person decided the value of the instance
  soon,        \* outside data and human quantities whose change is immediate
  later,       \* outside data whose change waits for the daily time
  alloc,       \* allocations
  decided,     \* inputs in the log entry of the last conclusion
  divided,     \* history: the inputs the entries were computed from
  answered,    \* the operator's answer to allocation_invalid since the verdict
  esc,         \* escalation_records of the lines
  rung,        \* lines whose allocations record a signal for Supply points at
  daily,       \* a daily signal is in the channel
  toValidate,  \* the validator's channel
  co,          \* the coordinator: its program counter and locals
  budget

life == <<kind, bell, basis>>
data == <<soon, later>>
conclusion == <<decided, divided>>
lineState == <<alloc, conclusion, esc>>
vars == <<life, data, lineState, answered, rung, daily, toValidate, co, budget>>

------------------------------------------------------------------------------
InstancesOf(l) == {i \in Instances : LineOf[i] = l}

\* build_line_inputs
In(l) ==
  [soon |-> soon[l], later |-> later[l],
   demand |-> [i \in InstancesOf(l) |->
                 IF kind[i] = "delivered" THEN basis[i] ELSE "none"]]

\* diff_inputs, immediate: does the difference have to be coordinated at once?
Immediate(l, before, after) ==
  \/ before.soon # after.soon
  \/ \E i \in InstancesOf(l) :
       before.demand[i] # after.demand[i] /\ basis[i] = "person"

NoAllocation == [value |-> FALSE, basis |-> "none", verdict |-> "none",
                 forwardTo |-> "none", sendBack |-> "none"]
NewAllocation == [NoAllocation EXCEPT !.value = TRUE]

Concluded(l) == alloc[l].value

\* record_state: the card of supply_coordination has no produces.
LineState(l) == ComputeRecordState(alloc[l], OpenTargets(esc, l), TRUE, TRUE)
LineOwner(l) == OwnerChannel(LineState(l), alloc[l], Supply, Validator)

LineHeld(l) == OpenTargets(esc, l) # {}
LineDismissed(l) == IsDismissed(esc, l)

Idle == [at |-> "idle"]
Suspended == co.at # "checking"

Init ==
  /\ InstancesFresh
  /\ basis = [i \in Instances |-> "rule"]
  /\ soon = [l \in Lines |-> 0] /\ later = [l \in Lines |-> 0]
  /\ alloc = [l \in Lines |-> NoAllocation]
  /\ decided = [l \in Lines |-> In(l)] \* not used before the first conclusion
  /\ divided = decided
  /\ answered = [l \in Lines |-> "none"]
  /\ esc = <<>>
  /\ rung = Lines                      \* notify_cycle_started
  /\ daily = FALSE /\ toValidate = {}
  /\ co = Idle
  /\ budget = [changes |-> MaxChanges, trouble |-> MaxTrouble]

Trouble == budget.trouble > 0 /\ budget' = [budget EXCEPT !.trouble = @ - 1]

(* update_state, after the State was replaced *)

ClosedBySupply(l) ==
  \E k \in DOMAIN esc :
    /\ esc[k].inst = l /\ esc[k].creator = Supply
    /\ esc[k].status = "open" /\ esc'[k].status # "open"

Entered(l, channel) == LineState(l)' # LineState(l) /\ LineOwner(l)' = channel

\* MUTANT of RingsSupply: a closed escalation is told by the state alone.
RingsOwnerOnly(l) == Entered(l, Supply)

\* supply_coordination's card knows nobody, so a hold that begins or ends tells
\* no agent; the validator has no card, so its holds end unheard.
RingsSupply(l) == Entered(l, Supply) \/ ClosedBySupply(l)

\* again: signals put besides; judged: signals the validator acknowledges.
Notify(again, judged) ==
  /\ rung' = rung \cup again \cup {l \in Lines : RingsSupply(l)}
  /\ toValidate' = (toValidate \ judged) \cup {l \in Lines : Entered(l, Validator)}

Hold(l, creator, reason) == esc' = Append(esc, NewEscalation(creator, reason, l))

------------------------------------------------------------------------------
(* handle_signal *)

LinesOf(m) == IF m = Daily THEN Lines ELSE IF m \in Lines THEN {m} ELSE {LineOf[m]}

CheckLine(m, lines) ==
  \E l \in lines : co' = [at |-> "checking", msg |-> m, line |-> l,
                          todo |-> lines \ {l}, round |-> 1]

\* A second signal for the same record may stay behind.
Begin(m) ==
  /\ co.at = "idle"
  /\ CheckLine(m, LinesOf(m))
  /\ \/ m = Daily /\ daily /\ daily' = FALSE /\ UNCHANGED <<rung, life>>
     \/ m \in rung /\ rung' \in {rung, rung \ {m}} /\ UNCHANGED <<daily, life>>
     \/ /\ m \in bell /\ bell' \in {bell, bell \ {m}}
        /\ UNCHANGED <<daily, rung, kind, basis>>
  /\ UNCHANGED <<data, lineState, answered, toValidate, budget>>

\* receive_forwarded_forecast returns a record it does not accept (any more).
BeginMisrouted(i) ==
  /\ co.at = "idle" /\ i \in bell
  /\ GoBack(i) /\ Trouble
  /\ CheckLine(i, LinesOf(i))
  /\ UNCHANGED <<basis, data, lineState, answered, rung, daily, toValidate>>

\* The next line of the daily signal, or the end of the handler and the ack.
Proceed == IF co.todo = {} THEN co' = Idle ELSE CheckLine(co.msg, co.todo)

\* An exception ends the handler without an ack: the signal appears again.
GiveBack(m) ==
  /\ bell' = bell \cup ({m} \cap Instances)
  /\ rung' = rung \cup ({m} \cap Lines)
  /\ daily' = (daily \/ m = Daily)

Raise ==
  /\ co' = Idle
  /\ GiveBack(co.msg)
  /\ UNCHANGED <<kind, basis, data, lineState, answered, toValidate>>

------------------------------------------------------------------------------
(* _check_once *)

Free(l) == ~LineHeld(l) /\ ~LineDismissed(l)

\* NoProcessingInstances
Ready(l) == \A i \in InstancesOf(l) : kind[i] # "processing"

Failed(l) == LineState(l) = "judged" /\ alloc[l].verdict = "failed"

\* check_allocation_verdict
Recoordinate(l) == Failed(l) /\ (answered[l] = "rerun" \/ decided[l] # In(l))
Invalid(l) == Failed(l) /\ ~Recoordinate(l)

Regular(l) == ~Failed(l) /\ ~Concluded(l) /\ Ready(l)

Changed(l) == ~Failed(l) /\ Concluded(l) /\ decided[l] # In(l)

\* MUTANT of Continuing: the daily signal is handled like any other.
ContinuingIfImmediate(l) == Changed(l) /\ Immediate(l, decided[l], In(l))

\* co.msg = Daily is include_deferred.
Continuing(l) ==
  Changed(l) /\ (Immediate(l, decided[l], In(l)) \/ co.msg = Daily)

MustCoordinate(l) == Free(l) /\ (Recoordinate(l) \/ Regular(l) \/ Continuing(l))
MustReport(l) == Free(l) /\ Invalid(l)

\* allocate_line on the fixed inputs: the floors (or the hard pegs, which are
\* held in the same way) may exceed the supply.
Allocates(outcome) ==
  \/ outcome = "allocated" /\ UNCHANGED budget
  \/ outcome = "commitments_exceed_capacity" /\ Trouble

Outcomes == {"allocated", "commitments_exceed_capacity"}

FixInputs(l) ==
  /\ \E outcome \in Outcomes :
       /\ Allocates(outcome)
       /\ co' = [at |-> "computing", msg |-> co.msg, line |-> l, todo |-> co.todo,
                 round |-> co.round, fixed |-> In(l), outcome |-> outcome]
  /\ UNCHANGED <<life, data, lineState, answered, rung, daily, toValidate>>

ReportInvalid(l) ==
  /\ Hold(l, Supply, "allocation_invalid")
  /\ Proceed
  /\ UNCHANGED <<life, data, alloc, conclusion, answered, daily, budget>>
  /\ Notify({}, {})

Check ==
  /\ co.at = "checking"
  /\ \/ MustCoordinate(co.line) /\ FixInputs(co.line)
     \/ MustReport(co.line) /\ ReportInvalid(co.line)
     \/ /\ ~MustCoordinate(co.line) /\ ~MustReport(co.line)
        /\ Proceed
        /\ UNCHANGED <<life, data, lineState, answered, rung, daily, toValidate, budget>>
     \/ Free(co.line) /\ Trouble /\ Raise    \* the outside data cannot be read

(* coordinate_line after the await, and run_line_coordination *)

\* MUTANT of StoppedMeanwhile: nobody looks for a hold again.
NobodyLooks(l) == FALSE

\* line_has_open_hold
StoppedMeanwhile(l) == LineHeld(l)

\* MUTANT of InputsUsed: the log keeps the inputs of the beginning.
InputsFixed(l) == co.fixed

\* The inputs of the conclusion: what came in meanwhile is laid on top, unless
\* nothing will be divided.
InputsUsed(l) == IF co.outcome = "allocated" THEN In(l) ELSE co.fixed

\* MUTANT of MoreRounds: one round too many.
OneRoundMore == co.round <= MaxRounds

MoreRounds == co.round < MaxRounds

Settle(l, outcome) ==
  \/ /\ outcome = "allocated"
     /\ alloc' = [alloc EXCEPT ![l] = NewAllocation]
     /\ decided' = [decided EXCEPT ![l] = InputsUsed(l)]
     /\ divided' = [divided EXCEPT ![l] = In(l)]
     /\ UNCHANGED esc
     /\ IF MoreRounds
        THEN /\ co' = [at |-> "checking", msg |-> co.msg, line |-> l,
                       todo |-> co.todo, round |-> co.round + 1]
             /\ Notify({}, {})
        ELSE Proceed /\ Notify({l}, {})
  \/ /\ outcome # "allocated"
     /\ Hold(l, Supply, outcome)
     /\ Proceed
     /\ UNCHANGED <<alloc, conclusion>>
     /\ Notify({}, {})

Conclude ==
  /\ co.at = "computing"
  /\ \/ StoppedMeanwhile(co.line) /\ UNCHANGED budget /\ Raise
     \/ co.outcome = "allocated" /\ Trouble /\ Raise
     \/ /\ ~StoppedMeanwhile(co.line)
        /\ \E outcome \in Outcomes :
             /\ IF InputsUsed(co.line) = co.fixed
                THEN outcome = co.outcome /\ UNCHANGED budget
                ELSE Allocates(outcome)
             /\ Settle(co.line, outcome)
        /\ UNCHANGED <<life, data, answered, daily>>

------------------------------------------------------------------------------
(* allocation_validation: validate_job *)

Judge(l) ==
  /\ \/ /\ alloc' = [alloc EXCEPT ![l].verdict = "passed"]
        /\ UNCHANGED <<esc, budget>>
     \/ /\ alloc' = [alloc EXCEPT ![l].verdict = "failed"]
        /\ Trouble /\ UNCHANGED esc
     \/ /\ alloc' = [alloc EXCEPT ![l].verdict = "error"]
        /\ Trouble /\ Hold(l, Validator, "validation_error")
  /\ answered' = [answered EXCEPT ![l] = "none"]

Judgeable(l) == LineState(l) = "awaiting_validation"

Validate(l) ==
  /\ Suspended /\ l \in toValidate
  /\ \/ Judgeable(l) /\ Judge(l)
     \/ ~Judgeable(l) /\ UNCHANGED <<alloc, esc, answered, budget>>
  /\ \E judged \in {{}, {l}} : Notify({}, judged)
  /\ UNCHANGED <<life, data, conclusion, daily, co>>

(* resolve_escalation *)

Close(k, how) == esc' = [esc EXCEPT ![k].status = "resolved", ![k].kind = how]

\* The quantities a person sets are inputs from now on (resolution_inputs).
HumanResolve(k) ==
  /\ Suspended
  /\ esc[k].status = "open" /\ TargetRole(esc[k].reason) = "human_manager"
  /\ Close(k, "value")
  /\ \E v \in {0, 1} : soon' = [soon EXCEPT ![esc[k].inst] = v]
  /\ UNCHANGED <<life, later, alloc, conclusion, answered, daily, co, budget>>
  /\ Notify({}, {})

SystemResolve(k) ==
  LET l == esc[k].inst IN
  /\ Suspended
  /\ esc[k].status = "open" /\ TargetRole(esc[k].reason) = "system_operator"
  /\ \E how \in {"rerun", "dismiss"} :
       /\ Close(k, how)
       /\ alloc' = IF how = "rerun" /\ esc[k].reason = "validation_error"
                   THEN [alloc EXCEPT ![l].verdict = "none"] ELSE alloc
       /\ answered' = IF esc[k].reason = "allocation_invalid"
                      THEN [answered EXCEPT ![l] = how] ELSE answered
  /\ Notify({}, {})
  /\ UNCHANGED <<life, data, conclusion, daily, co, budget>>

(* The world: outside data, the scheduler, the forecast side, the runner *)

\* Whoever changes the data gives notice (notify_line_changed), but not the
\* production role that adjusts a capacity pool.
ExternalChange(l) ==
  /\ Suspended
  /\ budget.changes > 0 /\ budget' = [budget EXCEPT !.changes = @ - 1]
  /\ \/ /\ soon' = [soon EXCEPT ![l] = 1 - @]
        /\ rung' = rung \cup {l} /\ UNCHANGED later
     \/ /\ later' = [later EXCEPT ![l] = 1 - @]
        /\ rung' \in {rung, rung \cup {l}} /\ UNCHANGED soon
  /\ UNCHANGED <<life, lineState, answered, daily, toValidate, co>>

\* Scheduler.tick
DailyTick ==
  /\ Suspended /\ ~daily /\ daily' = TRUE
  /\ UNCHANGED <<life, data, lineState, answered, rung, toValidate, co, budget>>

InstanceStep(i) ==
  /\ Suspended
  /\ \/ Deliver(i) /\ basis' \in {basis, [basis EXCEPT ![i] = "rule"]}
     \/ Stop(i) /\ UNCHANGED basis
     \/ Release(i) /\ basis' \in {basis, [basis EXCEPT ![i] = "person"]}
     \/ Leave(i) /\ UNCHANGED basis
  /\ UNCHANGED <<data, lineState, answered, rung, daily, toValidate, co, budget>>

\* run_planning_cycle gives up and is called again: the coordinator is
\* cancelled, its signal appears again, every line is notified.
Restart ==
  /\ Suspended /\ Trouble
  /\ co' = Idle
  /\ IF co.at = "idle"
     THEN rung' = Lines /\ UNCHANGED <<bell, daily>>
     ELSE /\ bell' = bell \cup ({co.msg} \cap Instances)
          /\ rung' = Lines
          /\ daily' = (daily \/ co.msg = Daily)
  /\ UNCHANGED <<kind, basis, data, lineState, answered, toValidate>>

Next ==
  \/ \E m \in {Daily} \cup Lines \cup Instances : Begin(m)
  \/ Check \/ Conclude
  \/ \E l \in Lines : Validate(l) \/ ExternalChange(l)
  \/ \E k \in DOMAIN esc : HumanResolve(k) \/ SystemResolve(k)
  \/ \E i \in Instances : InstanceStep(i) \/ BeginMisrouted(i)
  \/ DailyTick \/ Restart

Spec == Init /\ [][Next]_vars

\* The coordinator's task runs on, its channel is first in first out, and the
\* validator and the scheduler get their turns among the others whenever the
\* coordinator suspends.  Nobody else owes the system anything.
Fairness ==
  /\ WF_vars(Check) /\ WF_vars(Conclude)
  /\ \A m \in {Daily} \cup Lines \cup Instances : SF_vars(Begin(m))
  /\ SF_vars(DailyTick)
  /\ \A l \in Lines : SF_vars(Validate(l))

FairSpec == Spec /\ Fairness

------------------------------------------------------------------------------
Inputs(l) ==
  [soon : {0, 1}, later : {0, 1},
   demand : [InstancesOf(l) -> {"none", "rule", "person"}]]

Allocation ==
  [value : BOOLEAN, basis : {"none"}, verdict : {"none", "passed", "failed", "error"},
   forwardTo : {"none"}, sendBack : {"none"}]

Messages == {Daily} \cup Lines \cup Instances

Coordinator ==
  {Idle}
  \cup [at : {"checking"}, msg : Messages, line : Lines, todo : SUBSET Lines,
        round : 1..MaxRounds]
  \cup [at : {"computing"}, msg : Messages, line : Lines, todo : SUBSET Lines,
        round : 1..MaxRounds, fixed : UNION {Inputs(l) : l \in Lines},
        outcome : Outcomes]

\* The State, the channels and the coordinator's locals hold what the code lets
\* them.
TypeOK ==
  /\ kind \in [Instances -> Kinds] /\ bell \subseteq Instances
  /\ basis \in [Instances -> {"rule", "person"}]
  /\ soon \in [Lines -> {0, 1}] /\ later \in [Lines -> {0, 1}]
  /\ alloc \in [Lines -> Allocation]
  /\ \A l \in Lines : decided[l] \in Inputs(l) /\ divided[l] \in Inputs(l)
  /\ answered \in [Lines -> {"none", "rerun", "dismiss"}]
  /\ esc \in Seq(Escalation(Lines, {Supply, Validator}))
  /\ rung \subseteq Lines /\ toValidate \subseteq Lines /\ daily \in BOOLEAN
  /\ co \in Coordinator
  /\ co.at = "computing" => co.fixed \in Inputs(co.line)
  /\ budget \in [changes : 0..MaxChanges, trouble : 0..MaxTrouble]

Busy(l) == co.at # "idle" /\ l \in {co.line} \cup co.todo

InChannel(l) == daily \/ l \in rung \/ \E i \in bell : LineOf[i] = l

Urgent(l) == Free(l) /\ Changed(l) /\ Immediate(l, decided[l], In(l))

\* Immediate changes are "coordinated as soon as the coordination in progress
\* ends": a line with one, which nothing stops and whose conclusion is not being
\* judged, has a signal or is being checked.
UrgentRings ==
  \A l \in Lines : Urgent(l) /\ ~Judgeable(l) => Busy(l) \/ InChannel(l)

ValidatorHeld(l) ==
  \E k \in DOMAIN esc : esc[k].inst = l /\ esc[k].creator = Validator

\* No doorbell of a line is lost: a verdict to answer, a regular coordination
\* that may begin, an immediate change (unless the validator stopped the line,
\* see UrgentRings) and a conclusion to judge have a signal in the channel or
\* somebody at work, although changes are not stored and skipped signals are
\* acknowledged.
LineRings ==
  \A l \in Lines :
    /\ \/ Free(l) /\ (Recoordinate(l) \/ Invalid(l) \/ Regular(l))
       \/ Urgent(l) /\ ~ValidatorHeld(l)
       => Busy(l) \/ InChannel(l)
    /\ Judgeable(l) => l \in toValidate

\* A line is held by one escalation at a time, although the validator may stop
\* it while the coordinator computes.
OneHoldPerLine ==
  \A j, k \in DOMAIN esc :
    /\ esc[j].inst = esc[k].inst
    /\ esc[j].status = "open" /\ esc[k].status = "open"
    => j = k

\* What an operator is asked is about the conclusion that is in the record: it
\* failed, or its validation broke off.
LineHoldFits ==
  \A k \in DOMAIN esc : esc[k].status = "open" =>
    LET verdict == alloc[esc[k].inst].verdict IN
    /\ esc[k].reason = "allocation_invalid" => verdict = "failed"
    /\ esc[k].reason = "validation_error" => verdict = "error"

\* Both: a line has at most one hold and it is about the line's conclusion.
LineHoldSound == OneHoldPerLine /\ LineHoldFits

\* The log entry a conclusion points to holds the inputs that were divided, so
\* no change that came in during the computation is taken for coordinated.
NothingSwallowed ==
  \A l \in Lines : Concluded(l) => decided[l] = divided[l]

\* While a line is held nobody touches its conclusion, not even a coordination
\* that began before the hold.
HeldLineStays ==
  [][\A l \in Lines : LineHeld(l) /\ LineHeld(l)' =>
       alloc'[l] = alloc[l] /\ decided'[l] = decided[l]]_lineState

\* A line that was taken out of the cycle is left alone.
DismissedLineStays ==
  [][\A l \in Lines : LineDismissed(l) => alloc'[l] = alloc[l]]_lineState

\* Every line is served again and again: it has a conclusion from its present
\* inputs that has not failed, unless it is held, dismissed or waits for an
\* instance.
Served(l) ==
  \/ ~Free(l)
  \/ ~Concluded(l) /\ ~Ready(l)
  \/ Concluded(l) /\ decided[l] = In(l) /\ ~Failed(l)

EveryLineServed == \A l \in Lines : []<>Served(l)
==============================================================================
