----------------------- MODULE LineCoordinationProofs -----------------------
(* Theorems about LineCoordination, for every set of lines and instances and  *)
(* every value of the bounds.                                                 *)
EXTENDS LineCoordination, TLAPS

Creators == {Supply, Validator}
LineEscalations == Seq(Escalation(Lines, Creators))
Budgets == [changes : 0..MaxChanges, trouble : 0..MaxTrouble]

------------------------------------------------------------------------------
(* Types of the parts of a step *)

LEMMA EscalationType ==
  ASSUME esc \in LineEscalations, NEW k \in DOMAIN esc
  PROVE  /\ esc[k] \in Escalation(Lines, Creators) /\ esc[k].inst \in Lines
         /\ esc[k].creator \in Creators /\ esc[k].reason \in Reasons
<1>1. esc[k] \in Escalation(Lines, Creators)
  BY DEF LineEscalations
<1>2. QED
  BY <1>1 DEF Escalation

LEMMA HoldType ==
  ASSUME esc \in LineEscalations, NEW l \in Lines, NEW creator \in Creators,
         NEW reason \in Reasons, Hold(l, creator, reason)
  PROVE  /\ esc' \in LineEscalations /\ Len(esc') = Len(esc) + 1
         /\ esc'[Len(esc) + 1] = NewEscalation(creator, reason, l)
         /\ \A k \in DOMAIN esc : k \in DOMAIN esc' /\ esc'[k] = esc[k]
<1>1. NewEscalation(creator, reason, l) \in Escalation(Lines, Creators)
  BY DEF NewEscalation, Escalation
<1>2. QED
  BY <1>1 DEF Hold, LineEscalations

\* The new record is the only one a hold adds.
LEMMA HoldAdds ==
  ASSUME esc \in LineEscalations, NEW l \in Lines, NEW creator \in Creators,
         NEW reason \in Reasons, Hold(l, creator, reason), NEW k \in DOMAIN esc'
  PROVE  \/ k \in DOMAIN esc /\ esc'[k] = esc[k]
         \/ /\ k = Len(esc) + 1 /\ esc'[k].inst = l /\ esc'[k].status = "open"
            /\ esc'[k].creator = creator /\ esc'[k].reason = reason
            /\ esc'[k].kind = "none"
<1>1. /\ esc' \in LineEscalations /\ Len(esc') = Len(esc) + 1
      /\ esc'[Len(esc) + 1] = NewEscalation(creator, reason, l)
      /\ \A j \in DOMAIN esc : esc'[j] = esc[j]
  BY HoldType
<1>2. k \in DOMAIN esc \/ k = Len(esc) + 1
  BY <1>1 DEF LineEscalations
<1>3. QED
  BY <1>1, <1>2 DEF NewEscalation

\* Closing changes the status and the kind of one record and nothing else.
LEMMA CloseType ==
  ASSUME esc \in LineEscalations, NEW k \in DOMAIN esc,
         NEW how \in {"value", "rerun", "dismiss"}, Close(k, how)
  PROVE  /\ esc' \in LineEscalations /\ DOMAIN esc' = DOMAIN esc
         /\ esc'[k].status = "resolved" /\ esc'[k].kind = how
         /\ esc'[k].inst = esc[k].inst /\ esc'[k].reason = esc[k].reason
         /\ esc'[k].creator = esc[k].creator
         /\ \A j \in DOMAIN esc : j # k => esc'[j] = esc[j]
<1> DEFINE e == [esc[k] EXCEPT !.status = "resolved", !.kind = how]
<1>1. esc[k] \in Escalation(Lines, Creators)
  BY DEF LineEscalations
<1>2. /\ e \in Escalation(Lines, Creators)
      /\ e.status = "resolved" /\ e.kind = how /\ e.inst = esc[k].inst
      /\ e.reason = esc[k].reason /\ e.creator = esc[k].creator
  BY <1>1 DEF Escalation
<1>3. esc' = [esc EXCEPT ![k] = e]
  BY <1>1 DEF Close, Escalation, LineEscalations
<1> HIDE DEF e
<1>4. esc' \in LineEscalations /\ DOMAIN esc' = DOMAIN esc
  BY <1>2, <1>3 DEF LineEscalations
<1>5. esc'[k] = e /\ \A j \in DOMAIN esc : j # k => esc'[j] = esc[j]
  BY <1>3 DEF LineEscalations
<1>6. QED
  BY <1>2, <1>4, <1>5

LEMMA ReasonsKnown ==
  {"commitments_exceed_capacity", "allocation_invalid", "validation_error"}
    \subseteq Reasons
BY DEF Reasons, BusinessReasons, SystemReasons

LEMMA InputsType ==
  ASSUME TypeOK, NEW l \in Lines
  PROVE  In(l) \in Inputs(l)
BY DEF TypeOK, In, Inputs, InstancesOf, Kinds

LEMMA TroubleType == TypeOK /\ Trouble => budget' \in Budgets
BY LineAssumption DEF TypeOK, Trouble, Budgets

LEMMA NotifyType ==
  ASSUME TypeOK, NEW again \in SUBSET Lines, NEW judged, Notify(again, judged)
  PROVE  rung' \subseteq Lines /\ toValidate' \subseteq Lines
BY DEF TypeOK, Notify

\* The lines a signal is about.
LEMMA LinesOfType ==
  ASSUME NEW m \in Messages
  PROVE  /\ LinesOf(m) \subseteq Lines /\ LinesOf(m) # {}
         /\ LinesOf(Daily) = Lines
         /\ \A l \in Lines : LinesOf(l) = {l}
         /\ \A i \in Instances : LinesOf(i) = {LineOf[i]} /\ LineOf[i] \in Lines
BY LineAssumption DEF LinesOf, Messages

LEMMA CheckLineType ==
  ASSUME NEW m \in Messages, NEW lines \in SUBSET Lines, CheckLine(m, lines)
  PROVE  /\ co' \in Coordinator /\ co'.at = "checking" /\ co'.msg = m
         /\ co'.line \in lines /\ co'.todo = lines \ {co'.line}
<1>1. PICK l \in lines : co' = [at |-> "checking", msg |-> m, line |-> l,
                                todo |-> lines \ {l}, round |-> 1]
  BY DEF CheckLine
<1>2. 1 \in 1..MaxRounds
  BY LineAssumption
<1>3. QED
  BY <1>1, <1>2 DEF Coordinator

\* What the coordinator keeps while it is at work.
LEMMA AtWork ==
  ASSUME TypeOK
  PROVE  /\ co.at \in {"idle", "checking", "computing"}
         /\ co.at = "idle" => co = Idle
         /\ co.at # "idle" => /\ co.msg \in Messages /\ co.line \in Lines
                              /\ co.todo \in SUBSET Lines /\ co.round \in 1..MaxRounds
         /\ co.at = "computing" => co.fixed \in Inputs(co.line) /\ co.outcome \in Outcomes
<1>1. co \in Coordinator /\ (co.at = "computing" => co.fixed \in Inputs(co.line))
  BY DEF TypeOK
<1>2. QED
  BY <1>1 DEF Coordinator, Idle

LEMMA ProceedType ==
  ASSUME TypeOK, co.at # "idle", Proceed
  PROVE  /\ co' \in Coordinator
         /\ \/ co'.at = "idle" /\ co.todo = {}
            \/ /\ co'.at = "checking" /\ co'.msg = co.msg
               /\ co'.line \in co.todo /\ co'.todo = co.todo \ {co'.line}
<1>1. CASE co.todo = {}
  BY <1>1 DEF Proceed, Coordinator, Idle
<1>2. CASE co.todo # {}
  BY <1>2, AtWork, CheckLineType DEF Proceed
<1>3. QED
  BY <1>1, <1>2

LEMMA IdleType == Idle \in Coordinator /\ Idle.at = "idle"
BY DEF Idle, Coordinator

LEMMA RaiseType ==
  ASSUME TypeOK, co.at # "idle", Raise
  PROVE  /\ co' = Idle /\ bell' \subseteq Instances /\ rung' \subseteq Lines
         /\ daily' \in BOOLEAN
BY DEF TypeOK, Raise, GiveBack

------------------------------------------------------------------------------
(* Type correctness, and what else the variables are: functions on the lines, *)
(* and a coordinator that checks lines its signal is about                    *)

Recorded == DOMAIN decided = Lines /\ DOMAIN divided = Lines

CheckFits == co.at # "idle" => {co.line} \cup co.todo \subseteq LinesOf(co.msg)

Typed == TypeOK /\ Recorded /\ CheckFits

\* The parts of the State that only conclusions, verdicts and answers touch.
StateTyped ==
  /\ alloc' \in [Lines -> Allocation]
  /\ \A l \in Lines : decided'[l] \in Inputs(l) /\ divided'[l] \in Inputs(l)
  /\ DOMAIN decided' = Lines /\ DOMAIN divided' = Lines
  /\ esc' \in LineEscalations

CoTyped ==
  /\ co' \in Coordinator
  /\ co'.at = "computing" => co'.fixed \in Inputs(co'.line)
  /\ co'.at # "idle" => {co'.line} \cup co'.todo \subseteq LinesOf(co'.msg)

WorldTyped ==
  /\ kind' \in [Instances -> Kinds] /\ bell' \subseteq Instances
  /\ basis' \in [Instances -> {"rule", "person"}]
  /\ soon' \in [Lines -> {0, 1}] /\ later' \in [Lines -> {0, 1}]
  /\ answered' \in [Lines -> {"none", "rerun", "dismiss"}]
  /\ rung' \subseteq Lines /\ toValidate' \subseteq Lines /\ daily' \in BOOLEAN
  /\ budget' \in Budgets

LEMMA TypedParts == StateTyped /\ CoTyped /\ WorldTyped => Typed'
BY DEF StateTyped, CoTyped, WorldTyped, Typed, TypeOK, Recorded, CheckFits,
       LineEscalations, Creators, Budgets

LEMMA Kept ==
  ASSUME Typed
  PROVE  /\ UNCHANGED lineState => StateTyped
         /\ UNCHANGED co => CoTyped
         /\ kind \in [Instances -> Kinds] /\ bell \subseteq Instances
         /\ basis \in [Instances -> {"rule", "person"}]
         /\ soon \in [Lines -> {0, 1}] /\ later \in [Lines -> {0, 1}]
         /\ answered \in [Lines -> {"none", "rerun", "dismiss"}]
         /\ rung \subseteq Lines /\ toValidate \subseteq Lines /\ daily \in BOOLEAN
         /\ budget \in Budgets
         /\ alloc \in [Lines -> Allocation] /\ esc \in LineEscalations
         /\ \A l \in Lines : decided[l] \in Inputs(l) /\ divided[l] \in Inputs(l)
         /\ DOMAIN decided = Lines /\ DOMAIN divided = Lines
<1> USE DEF Typed, TypeOK, Recorded, CheckFits, LineEscalations, Creators, Budgets
<1>1. UNCHANGED lineState => StateTyped
  BY DEF lineState, conclusion, StateTyped
<1>2. UNCHANGED co => CoTyped
  BY DEF CoTyped
<1>3. QED
  BY <1>1, <1>2

\* A signal is taken: what is left to check are its lines.
LEMMA CheckLineFits ==
  ASSUME NEW m \in Messages, NEW lines \in SUBSET Lines, lines \subseteq LinesOf(m),
         CheckLine(m, lines)
  PROVE  CoTyped
BY CheckLineType DEF CoTyped

LEMMA ProceedFits ==
  ASSUME Typed, co.at # "idle", Proceed
  PROVE  CoTyped
<1>1. CASE co.todo = {}
  BY <1>1, IdleType DEF Proceed, CoTyped
<1>2. CASE co.todo # {}
  BY <1>2, AtWork, CheckLineFits DEF Proceed, Typed, CheckFits
<1>3. QED
  BY <1>1, <1>2

\* Every kind of value an allocation takes.
LEMMA AllocationType ==
  /\ NoAllocation \in Allocation
  /\ NewAllocation \in Allocation
  /\ NewAllocation.value /\ NewAllocation.verdict = "none"
  /\ \A r \in Allocation, v \in {"none", "passed", "failed", "error"} :
       [r EXCEPT !.verdict = v] \in Allocation
<1>1. NoAllocation \in Allocation /\ NoAllocation.verdict = "none"
  BY DEF NoAllocation, Allocation
<1> HIDE DEF NoAllocation
<1>2. QED
  BY <1>1 DEF NewAllocation, Allocation

\* A verdict changes the verdict of one line.
LEMMA VerdictType ==
  ASSUME alloc \in [Lines -> Allocation], NEW l \in Lines,
         NEW v \in {"none", "passed", "failed", "error"},
         alloc' = [alloc EXCEPT ![l].verdict = v]
  PROVE  /\ alloc' \in [Lines -> Allocation]
         /\ alloc'[l].verdict = v /\ alloc'[l].value = alloc[l].value
         /\ \A m \in Lines : m # l => alloc'[m] = alloc[m]
<1> DEFINE r == [alloc[l] EXCEPT !.verdict = v]
<1>0. alloc[l] \in Allocation
  OBVIOUS
<1>1. r \in Allocation /\ r.verdict = v /\ r.value = alloc[l].value
  BY <1>0 DEF Allocation
<1>2. alloc' = [alloc EXCEPT ![l] = r]
  OBVIOUS
<1> HIDE DEF r
<1>3. QED
  BY <1>1, <1>2

------------------------------------------------------------------------------
(* What the State says of a line *)

LEMMA HeldIsOpen ==
  ASSUME NEW l
  PROVE  LineHeld(l) <=> \E k \in DOMAIN esc : esc[k].inst = l /\ esc[k].status = "open"
BY DEF LineHeld, OpenTargets

\* The state of a record its line's holds decide.
LEMMA HeldRecord ==
  ASSUME NEW records, NEW l, OpenTargets(records, l) # {}, NEW r
  PROVE  ComputeRecordState(r, OpenTargets(records, l), TRUE, TRUE) \in HoldStates
<1>1. \A reason : TargetRole(reason) \in {"human_manager", "system_operator"}
  BY DEF TargetRole
<1>2. \/ "human_manager" \in OpenTargets(records, l)
      \/ "system_operator" \in OpenTargets(records, l)
  BY <1>1 DEF OpenTargets
<1>3. QED
  BY <1>2 DEF ComputeRecordState, HoldStates

\* An allocation that nothing holds goes from the validator to its author.
Unheld(r) ==
  IF r.verdict = "passed" THEN "completed"
  ELSE IF r.verdict # "none" THEN "judged"
  ELSE IF r.value THEN "awaiting_validation" ELSE "none"

LEMMA FreeRecord ==
  ASSUME NEW r \in Allocation
  PROVE  ComputeRecordState(r, {}, TRUE, TRUE) = Unheld(r)
<1>1. r.basis = "none" /\ r.sendBack = "none" /\ r.forwardTo = "none"
  BY DEF Allocation
<1>2. QED
  BY <1>1 DEF ComputeRecordState, Unheld, Passed, IsExemptPassed

\* What the coordinator and the validator look for is never there while the
\* line is held.
LEMMA LookedFor ==
  ASSUME alloc \in [Lines -> Allocation], NEW l \in Lines
  PROVE  /\ LineHeld(l) => LineState(l) \in HoldStates
         /\ ~LineHeld(l) => LineState(l) = Unheld(alloc[l])
         /\ Failed(l) => ~LineHeld(l) /\ alloc[l].verdict = "failed"
         /\ Judgeable(l) => ~LineHeld(l) /\ alloc[l].value /\ alloc[l].verdict = "none"
<1>1. LineHeld(l) => LineState(l) \in HoldStates
  BY HeldRecord DEF LineHeld, LineState
<1>2. ~LineHeld(l) => LineState(l) = Unheld(alloc[l])
  <2>1. alloc[l] \in Allocation
    OBVIOUS
  <2>2. QED
    BY <2>1, FreeRecord DEF LineHeld, LineState
<1>3. QED
  BY <1>1, <1>2 DEF Failed, Judgeable, Unheld, HoldStates

\* The same of the state a step leads to.
LEMMA LookedForNext ==
  ASSUME alloc' \in [Lines -> Allocation], NEW l \in Lines
  PROVE  /\ LineHeld(l)' => LineState(l)' \in HoldStates
         /\ ~LineHeld(l)' => LineState(l)' = Unheld(alloc'[l])
         /\ Failed(l)' => ~LineHeld(l)' /\ alloc'[l].verdict = "failed"
         /\ Judgeable(l)' => ~LineHeld(l)' /\ alloc'[l].value /\ alloc'[l].verdict = "none"
<1>1. LineHeld(l)' => LineState(l)' \in HoldStates
  BY HeldRecord DEF LineHeld, LineState
<1>2. ~LineHeld(l)' => LineState(l)' = Unheld(alloc'[l])
  <2>1. alloc'[l] \in Allocation
    OBVIOUS
  <2>2. QED
    BY <2>1, FreeRecord DEF LineHeld, LineState
<1>3. QED
  BY <1>1, <1>2 DEF Failed, Judgeable, Unheld, HoldStates

------------------------------------------------------------------------------
(* Every step does one of five things to the State *)

Stopped(l) ==
  /\ ~LineHeld(l) /\ UNCHANGED <<alloc, conclusion>>
  /\ \/ Hold(l, Supply, "commitments_exceed_capacity")
     \/ Hold(l, Supply, "allocation_invalid") /\ alloc[l].verdict = "failed"

Divided(l) ==
  /\ ~LineHeld(l) /\ UNCHANGED esc
  /\ alloc' = [alloc EXCEPT ![l] = NewAllocation]
  /\ decided' = [decided EXCEPT ![l] = In(l)]
  /\ divided' = [divided EXCEPT ![l] = In(l)]

Judged(l) ==
  /\ Judgeable(l) /\ UNCHANGED conclusion
  /\ \/ \E v \in {"passed", "failed"} : alloc' = [alloc EXCEPT ![l].verdict = v] /\ UNCHANGED esc
     \/ /\ alloc' = [alloc EXCEPT ![l].verdict = "error"]
        /\ Hold(l, Validator, "validation_error")

\* Only an operator's rerun of a validation that broke off withdraws a verdict.
Answered(k) ==
  /\ esc[k].status = "open" /\ UNCHANGED conclusion
  /\ \E how \in {"value", "rerun", "dismiss"} :
       /\ Close(k, how)
       /\ alloc' = IF how = "rerun" /\ esc[k].reason = "validation_error"
                   THEN [alloc EXCEPT ![esc[k].inst].verdict = "none"] ELSE alloc

LEMMA CheckKind ==
  ASSUME Typed, Check
  PROVE  UNCHANGED lineState \/ \E l \in Lines : Stopped(l)
<1>1. CASE MustReport(co.line) /\ ReportInvalid(co.line)
  <2>1. co.line \in Lines
    BY AtWork DEF Check, Typed
  <2>2. ~LineHeld(co.line) /\ alloc[co.line].verdict = "failed"
    BY <1>1 DEF MustReport, Free, Invalid, Failed
  <2>3. Stopped(co.line)
    BY <1>1, <2>2 DEF ReportInvalid, Stopped
  <2>4. QED
    BY <2>1, <2>3
<1>2. CASE UNCHANGED lineState
  BY <1>2
<1>3. QED
  BY <1>1, <1>2 DEF Check, FixInputs, Raise, lineState

\* The conclusion is written with the inputs it was divided from.
LEMMA ConcludeKind ==
  ASSUME Typed, Conclude
  PROVE  UNCHANGED lineState \/ \E l \in Lines : Stopped(l) \/ Divided(l)
<1> DEFINE l == co.line
<1>0. l \in Lines /\ co.outcome \in Outcomes
  BY AtWork DEF Conclude, Typed
<1>1. CASE Raise
  BY <1>1 DEF Raise
<1>2. ASSUME ~StoppedMeanwhile(l), NEW outcome \in Outcomes,
             InputsUsed(l) = co.fixed => outcome = co.outcome,
             Settle(l, outcome)
      PROVE  Stopped(l) \/ Divided(l)
  <2>1. ~LineHeld(l)
    BY <1>2 DEF StoppedMeanwhile
  <2>2. CASE outcome = "allocated"
    <3>1. InputsUsed(l) = In(l)
      BY <1>2, <2>2 DEF InputsUsed
    <3>2. QED
      BY <1>2, <2>1, <2>2, <3>1 DEF Settle, Divided
  <2>3. CASE outcome # "allocated"
    BY <1>2, <2>1, <2>3 DEF Settle, Stopped, Outcomes
  <2>4. QED
    BY <2>2, <2>3
<1>3. \/ Raise
      \/ \E outcome \in Outcomes :
           /\ ~StoppedMeanwhile(l) /\ Settle(l, outcome)
           /\ InputsUsed(l) = co.fixed => outcome = co.outcome
  BY DEF Conclude
<1>4. QED
  BY <1>0, <1>1, <1>2, <1>3

LEMMA StateKinds ==
  ASSUME Typed, Next
  PROVE  \/ UNCHANGED lineState
         \/ \E l \in Lines : Stopped(l) \/ Divided(l) \/ Judged(l)
         \/ \E k \in DOMAIN esc : Answered(k)
<1>1. CASE Check \/ Conclude
  BY <1>1, CheckKind, ConcludeKind
<1>2. ASSUME NEW l \in Lines, Validate(l)
      PROVE  UNCHANGED lineState \/ Judged(l)
  BY <1>2 DEF Validate, Judge, Judged, lineState
<1>3. ASSUME NEW k \in DOMAIN esc, HumanResolve(k) \/ SystemResolve(k)
      PROVE  Answered(k)
  BY <1>3 DEF HumanResolve, SystemResolve, Answered
<1>4. ASSUME NEW m, Begin(m)
      PROVE  UNCHANGED lineState
  BY <1>4 DEF Begin
<1>5. ASSUME NEW x, ExternalChange(x) \/ InstanceStep(x) \/ BeginMisrouted(x) \/ DailyTick \/ Restart
      PROVE  UNCHANGED lineState
  BY <1>5 DEF ExternalChange, InstanceStep, BeginMisrouted, DailyTick, Restart
<1>6. QED
  BY <1>1, <1>2, <1>3, <1>4, <1>5 DEF Next

------------------------------------------------------------------------------
(* Type correctness *)

LEMMA StateKindTyped ==
  ASSUME Typed,
         \/ UNCHANGED lineState
         \/ \E l \in Lines : Stopped(l) \/ Divided(l) \/ Judged(l)
         \/ \E k \in DOMAIN esc : Answered(k)
  PROVE  StateTyped
<1>0. /\ alloc \in [Lines -> Allocation] /\ esc \in LineEscalations
      /\ \A l \in Lines : decided[l] \in Inputs(l) /\ divided[l] \in Inputs(l)
      /\ DOMAIN decided = Lines /\ DOMAIN divided = Lines
  BY Kept
<1>1. ASSUME NEW l \in Lines, NEW creator \in Creators, NEW reason \in Reasons,
             Hold(l, creator, reason)
      PROVE  esc' \in LineEscalations
  BY <1>0, <1>1, HoldType
<1>2. ASSUME NEW l \in Lines, Stopped(l)  PROVE StateTyped
  BY <1>0, <1>1, <1>2, ReasonsKnown DEF Stopped, conclusion, StateTyped, Creators
<1>3. ASSUME NEW l \in Lines, Divided(l)  PROVE StateTyped
  <2>1. In(l) \in Inputs(l) /\ NewAllocation \in Allocation
    BY InputsType, AllocationType DEF Typed
  <2>2. alloc' \in [Lines -> Allocation] /\ esc' \in LineEscalations
    BY <1>0, <1>3, <2>1 DEF Divided
  <2>3. /\ DOMAIN decided' = Lines /\ DOMAIN divided' = Lines
        /\ \A m \in Lines : decided'[m] \in Inputs(m) /\ divided'[m] \in Inputs(m)
    BY <1>0, <1>3, <2>1 DEF Divided
  <2>4. QED
    BY <2>2, <2>3 DEF StateTyped
<1>4. ASSUME NEW l \in Lines, Judged(l)  PROVE StateTyped
  <2>1. alloc' \in [Lines -> Allocation]
    BY <1>0, <1>4, VerdictType DEF Judged
  <2>2. esc' \in LineEscalations
    BY <1>0, <1>1, <1>4, ReasonsKnown DEF Judged, Creators
  <2>3. QED
    BY <1>0, <1>4, <2>1, <2>2 DEF Judged, conclusion, StateTyped
<1>5. ASSUME NEW k \in DOMAIN esc, Answered(k)  PROVE StateTyped
  <2>1. esc[k].inst \in Lines
    BY <1>0, EscalationType
  <2>2. alloc' \in [Lines -> Allocation]
    BY <1>0, <1>5, <2>1, VerdictType DEF Answered
  <2>3. esc' \in LineEscalations
    BY <1>0, <1>5, CloseType DEF Answered
  <2>4. QED
    BY <1>0, <1>5, <2>2, <2>3 DEF Answered, conclusion, StateTyped
<1>6. QED
  BY <1>2, <1>3, <1>4, <1>5, Kept

LEMMA InitTyped == Init => Typed
<1> SUFFICES ASSUME Init  PROVE Typed
  OBVIOUS
<1>1. /\ kind \in [Instances -> Kinds] /\ bell \subseteq Instances
      /\ basis \in [Instances -> {"rule", "person"}]
      /\ soon \in [Lines -> {0, 1}] /\ later \in [Lines -> {0, 1}]
  BY DEF Init, InstancesFresh, Kinds
<1>2. \A l \in Lines : In(l) \in Inputs(l)
  BY <1>1 DEF In, Inputs, InstancesOf, Kinds
<1>3. /\ alloc \in [Lines -> Allocation]
      /\ \A l \in Lines : decided[l] \in Inputs(l) /\ divided[l] \in Inputs(l)
      /\ Recorded
  BY <1>2, AllocationType DEF Init, Recorded
<1>4. co = Idle /\ co \in Coordinator /\ co.at = "idle"
  BY IdleType DEF Init
<1>5. /\ answered \in [Lines -> {"none", "rerun", "dismiss"}]
      /\ rung \subseteq Lines /\ toValidate \subseteq Lines /\ daily \in BOOLEAN
  BY DEF Init
<1>6. esc \in Seq(Escalation(Lines, {Supply, Validator}))
  BY DEF Init
<1>7. budget \in [changes : 0..MaxChanges, trouble : 0..MaxTrouble]
  <2>1. MaxChanges \in Nat /\ MaxTrouble \in Nat
    BY LineAssumption
  <2>2. QED
    BY <2>1 DEF Init
<1>8. QED
  BY <1>1, <1>3, <1>4, <1>5, <1>6, <1>7 DEF Typed, TypeOK, CheckFits

LEMMA CheckTyped ==
  ASSUME Typed, Check  PROVE CoTyped /\ WorldTyped
<1> DEFINE l == co.line
<1>0. /\ co.at = "checking" /\ co.msg \in Messages /\ l \in Lines
      /\ co.todo \in SUBSET Lines /\ co.round \in 1..MaxRounds
      /\ {l} \cup co.todo \subseteq LinesOf(co.msg)
  BY AtWork DEF Check, Typed, CheckFits
<1>1. CASE FixInputs(l)
  <2>1. PICK outcome \in Outcomes :
          /\ Allocates(outcome)
          /\ co' = [at |-> "computing", msg |-> co.msg, line |-> l, todo |-> co.todo,
                    round |-> co.round, fixed |-> In(l), outcome |-> outcome]
    BY <1>1 DEF FixInputs
  <2>2. In(l) \in Inputs(l)
    BY <1>0, InputsType DEF Typed
  <2>3. CoTyped
    BY <1>0, <2>1, <2>2 DEF CoTyped, Coordinator
  <2>4. budget' \in Budgets
    BY <2>1, Kept, TroubleType DEF Allocates, Typed
  <2>5. QED
    BY <1>1, <2>3, <2>4, Kept DEF FixInputs, WorldTyped, life, data
<1>2. CASE ReportInvalid(l)
  <2>1. CoTyped
    BY <1>0, <1>2, ProceedFits DEF ReportInvalid
  <2>2. rung' \subseteq Lines /\ toValidate' \subseteq Lines
    BY <1>2, NotifyType DEF ReportInvalid, Typed
  <2>3. QED
    BY <1>2, <2>1, <2>2, Kept DEF ReportInvalid, WorldTyped, life, data
<1>3. CASE /\ Proceed
           /\ UNCHANGED <<life, data, lineState, answered, rung, daily, toValidate, budget>>
  <2>1. CoTyped
    BY <1>0, <1>3, ProceedFits
  <2>2. QED
    BY <1>3, <2>1, Kept DEF WorldTyped, life, data
<1>4. CASE Trouble /\ Raise
  <2>1. co' = Idle /\ bell' \subseteq Instances /\ rung' \subseteq Lines /\ daily' \in BOOLEAN
    BY <1>0, <1>4, RaiseType DEF Typed
  <2>2. CoTyped
    BY <2>1, IdleType DEF CoTyped
  <2>3. budget' \in Budgets
    BY <1>4, TroubleType DEF Typed
  <2>4. QED
    BY <1>4, <2>1, <2>2, <2>3, Kept DEF Raise, WorldTyped, data
<1>5. QED
  BY <1>1, <1>2, <1>3, <1>4 DEF Check

LEMMA ConcludeTyped ==
  ASSUME Typed, Conclude  PROVE CoTyped /\ WorldTyped
<1> DEFINE l == co.line
<1>0. /\ co.at = "computing" /\ co.msg \in Messages /\ l \in Lines
      /\ co.todo \in SUBSET Lines /\ co.round \in 1..MaxRounds
      /\ {l} \cup co.todo \subseteq LinesOf(co.msg)
  BY AtWork DEF Conclude, Typed, CheckFits
<1>1. CASE Raise /\ (UNCHANGED budget \/ Trouble)
  <2>1. co' = Idle /\ bell' \subseteq Instances /\ rung' \subseteq Lines /\ daily' \in BOOLEAN
    BY <1>0, <1>1, RaiseType DEF Typed
  <2>2. CoTyped
    BY <2>1, IdleType DEF CoTyped
  <2>3. budget' \in Budgets
    BY <1>1, Kept, TroubleType DEF Typed
  <2>4. QED
    BY <1>1, <2>1, <2>2, <2>3, Kept DEF Raise, WorldTyped, data
<1>2. ASSUME NEW outcome \in Outcomes, Settle(l, outcome),
             UNCHANGED budget \/ Allocates(outcome), UNCHANGED <<life, data, answered, daily>>
      PROVE  CoTyped /\ WorldTyped
  <2>1. CoTyped
    <3>1. CASE Proceed
      BY <1>0, <3>1, ProceedFits
    <3>2. CASE /\ MoreRounds
               /\ co' = [at |-> "checking", msg |-> co.msg, line |-> l,
                         todo |-> co.todo, round |-> co.round + 1]
      <4>1. co.round + 1 \in 1..MaxRounds
        BY <1>0, <3>2, LineAssumption DEF MoreRounds
      <4>2. QED
        BY <1>0, <3>2, <4>1 DEF CoTyped, Coordinator
    <3>3. QED
      BY <1>2, <3>1, <3>2 DEF Settle
  <2>2. rung' \subseteq Lines /\ toValidate' \subseteq Lines
    <3>1. \E again \in SUBSET Lines : Notify(again, {})
      BY <1>0, <1>2 DEF Settle
    <3>2. QED
      BY <3>1, NotifyType DEF Typed
  <2>3. budget' \in Budgets
    BY <1>2, Kept, TroubleType DEF Allocates, Typed
  <2>4. QED
    BY <1>2, <2>1, <2>2, <2>3, Kept DEF WorldTyped, life, data
<1>3. QED
  BY <1>1, <1>2 DEF Conclude

\* A check begins with a signal, which it takes out or leaves for a second one.
LEMMA BeginTyped ==
  ASSUME Typed, NEW m \in Messages, Begin(m)  PROVE CoTyped /\ WorldTyped
<1>1. CoTyped
  BY LinesOfType, CheckLineFits DEF Begin
<1>2. rung' \subseteq Lines /\ bell' \subseteq Instances /\ daily' \in BOOLEAN
  BY Kept DEF Begin, life
<1>3. QED
  BY <1>1, <1>2, Kept DEF Begin, WorldTyped, life, data

LEMMA BeginMisroutedTyped ==
  ASSUME Typed, NEW i \in Instances, BeginMisrouted(i)  PROVE CoTyped /\ WorldTyped
<1>1. CoTyped
  BY LinesOfType, CheckLineFits DEF BeginMisrouted, Messages
<1>2. kind' \in [Instances -> Kinds] /\ bell' \subseteq Instances
  BY Kept DEF BeginMisrouted, GoBack, Becomes, Kinds
<1>3. QED
  BY <1>1, <1>2, Kept, TroubleType DEF BeginMisrouted, Typed, WorldTyped, data

LEMMA ValidateTyped ==
  ASSUME Typed, NEW l \in Lines, Validate(l)  PROVE CoTyped /\ WorldTyped
<1>1. rung' \subseteq Lines /\ toValidate' \subseteq Lines
  BY NotifyType DEF Validate, Typed
<1>2. answered' \in [Lines -> {"none", "rerun", "dismiss"}]
  BY Kept DEF Validate, Judge
<1>3. budget' \in Budgets
  BY Kept, TroubleType DEF Validate, Judge, Typed
<1>4. CoTyped
  BY Kept DEF Validate
<1>5. QED
  BY <1>1, <1>2, <1>3, <1>4, Kept DEF Validate, WorldTyped, life, data

LEMMA ResolveTyped ==
  ASSUME Typed, NEW k \in DOMAIN esc, HumanResolve(k) \/ SystemResolve(k)
  PROVE  CoTyped /\ WorldTyped
<1>1. rung' \subseteq Lines /\ toValidate' \subseteq Lines
  BY NotifyType DEF HumanResolve, SystemResolve, Typed
<1>2. soon' \in [Lines -> {0, 1}] /\ later' = later
  BY Kept DEF HumanResolve, SystemResolve, data
<1>3. answered' \in [Lines -> {"none", "rerun", "dismiss"}]
  BY Kept DEF HumanResolve, SystemResolve
<1>4. CoTyped /\ UNCHANGED <<life, daily, budget>>
  BY Kept DEF HumanResolve, SystemResolve
<1>5. QED
  BY <1>1, <1>2, <1>3, <1>4, Kept DEF WorldTyped, life

LEMMA WorldStepTyped ==
  ASSUME Typed,
         \/ \E l \in Lines : ExternalChange(l)
         \/ \E i \in Instances : InstanceStep(i)
         \/ DailyTick \/ Restart
  PROVE  CoTyped /\ WorldTyped
<1>1. ASSUME NEW l \in Lines, ExternalChange(l)  PROVE CoTyped /\ WorldTyped
  <2>1. soon' \in [Lines -> {0, 1}] /\ later' \in [Lines -> {0, 1}] /\ rung' \subseteq Lines
    <3>1. soon[l] \in {0, 1} /\ later[l] \in {0, 1}
      BY Kept
    <3>2. 1 - soon[l] \in {0, 1} /\ 1 - later[l] \in {0, 1}
      BY <3>1
    <3>3. QED
      BY <1>1, <3>2, Kept DEF ExternalChange
  <2>2. budget' \in Budgets
    BY <1>1, LineAssumption DEF ExternalChange, Typed, TypeOK, Budgets
  <2>3. QED
    BY <1>1, <2>1, <2>2, Kept DEF ExternalChange, WorldTyped, life
<1>2. ASSUME NEW i \in Instances, InstanceStep(i)  PROVE CoTyped /\ WorldTyped
  <2>1. kind' \in [Instances -> Kinds] /\ bell' \subseteq Instances
    BY <1>2, Kept DEF InstanceStep, Deliver, Stop, Release, Leave, Becomes, Ring, Kinds
  <2>2. basis' \in [Instances -> {"rule", "person"}]
    BY <1>2, Kept DEF InstanceStep
  <2>3. QED
    BY <1>2, <2>1, <2>2, Kept DEF InstanceStep, WorldTyped, data
<1>3. CASE DailyTick
  BY <1>3, Kept DEF DailyTick, WorldTyped, life, data
<1>4. CASE Restart
  <2>1. CoTyped
    BY <1>4, IdleType DEF Restart, CoTyped
  <2>2. bell' \subseteq Instances /\ rung' \subseteq Lines /\ daily' \in BOOLEAN
    BY <1>4, Kept DEF Restart
  <2>3. budget' \in Budgets
    BY <1>4, TroubleType DEF Restart, Typed
  <2>4. QED
    BY <1>4, <2>1, <2>2, <2>3, Kept DEF Restart, WorldTyped, data
<1>5. QED
  BY <1>1, <1>2, <1>3, <1>4

LEMMA NextTyped == Typed /\ [Next]_vars => Typed'
<1> SUFFICES ASSUME Typed, [Next]_vars  PROVE Typed'
  OBVIOUS
<1>1. CASE Next
  <2>1. StateTyped
    BY <1>1, StateKinds, StateKindTyped
  <2>2. CoTyped /\ WorldTyped
    BY <1>1, BeginTyped, BeginMisroutedTyped, CheckTyped, ConcludeTyped, ValidateTyped,
       ResolveTyped, WorldStepTyped DEF Next, Messages
  <2>3. QED
    BY <2>1, <2>2, TypedParts
<1>2. CASE UNCHANGED vars
  <2>1. StateTyped /\ CoTyped
    BY <1>2, Kept DEF vars
  <2>2. WorldTyped
    BY <1>2, Kept DEF vars, life, data, WorldTyped
  <2>3. QED
    BY <2>1, <2>2, TypedParts
<1>3. QED
  BY <1>1, <1>2

LEMMA AlwaysTyped == Spec => []Typed
<1>1. QED
  BY InitTyped, NextTyped, PTL DEF Spec

\* The State, the channels and the coordinator's locals hold what the code
\* lets them, in every reachable state.
THEOREM TypeCorrect == Spec => []TypeOK
<1>1. Typed => TypeOK
  BY DEF Typed
<1>2. QED
  BY <1>1, AlwaysTyped, PTL

------------------------------------------------------------------------------
(* The inductive invariant: beside the two properties, what a hold of the     *)
(* validator says of its line                                                 *)

HoldOfValidator ==
  \A k \in DOMAIN esc : esc[k].creator = Validator =>
    esc[k].reason = "validation_error" /\ Concluded(esc[k].inst)

Inv == Typed /\ LineHoldSound /\ NothingSwallowed /\ HoldOfValidator

LEMMA InitInv == Init => Inv
<1> SUFFICES ASSUME Init  PROVE Inv
  OBVIOUS
<1>1. DOMAIN esc = {}
  BY DEF Init
<1>2. LineHoldSound /\ HoldOfValidator
  BY <1>1 DEF LineHoldSound, OneHoldPerLine, LineHoldFits, HoldOfValidator
<1>3. NothingSwallowed
  BY DEF Init, NothingSwallowed
<1>4. QED
  BY <1>2, <1>3, InitTyped DEF Inv

\* A hold begins only on a line that has none.
LEMMA HoldKeepsOne ==
  ASSUME Inv, NEW l \in Lines, ~LineHeld(l),
         NEW creator \in Creators, NEW reason \in Reasons, Hold(l, creator, reason)
  PROVE  OneHoldPerLine'
<1>1. SUFFICES ASSUME NEW j \in DOMAIN esc', NEW k \in DOMAIN esc',
                      esc'[j].inst = esc'[k].inst,
                      esc'[j].status = "open", esc'[k].status = "open"
               PROVE  j = k
  BY DEF OneHoldPerLine
<1>2. \A n \in DOMAIN esc' :
        \/ n \in DOMAIN esc /\ esc'[n] = esc[n]
        \/ n = Len(esc) + 1 /\ esc'[n].inst = l
  BY HoldAdds, Kept DEF Inv
<1>3. \A n \in DOMAIN esc : ~(esc[n].inst = l /\ esc[n].status = "open")
  BY HeldIsOpen
<1>4. QED
  BY <1>1, <1>2, <1>3 DEF Inv, LineHoldSound, OneHoldPerLine

\* What a hold says remains right while the conclusions it is about remain.
LEMMA HoldKeepsFit ==
  ASSUME Inv, NEW l \in Lines, ~LineHeld(l),
         NEW creator \in Creators, NEW reason \in Reasons, Hold(l, creator, reason),
         \A m \in Lines : m # l => alloc'[m] = alloc[m],
         Concluded(l) => alloc'[l].value,
         reason = "allocation_invalid" => alloc'[l].verdict = "failed",
         reason = "validation_error" => alloc'[l].verdict = "error",
         creator = Validator => reason = "validation_error" /\ alloc'[l].value
  PROVE  LineHoldFits' /\ HoldOfValidator'
<1>0. esc \in LineEscalations
  BY Kept DEF Inv
<1>1. \A n \in DOMAIN esc' :
        \/ n \in DOMAIN esc /\ esc'[n] = esc[n]
        \/ esc'[n].inst = l /\ esc'[n].creator = creator /\ esc'[n].reason = reason
  BY <1>0, HoldAdds
<1>2. \A n \in DOMAIN esc : esc[n].inst \in Lines
                           /\ ~(esc[n].inst = l /\ esc[n].status = "open")
  BY <1>0, HeldIsOpen, EscalationType
<1>3. LineHoldFits'
  BY <1>1, <1>2 DEF Inv, LineHoldSound, LineHoldFits
<1>4. HoldOfValidator'
  BY <1>1, <1>2 DEF Inv, HoldOfValidator, Concluded
<1>5. QED
  BY <1>3, <1>4

\* The conclusion of a line nothing holds may change, if it stays a conclusion.
LEMMA FreeLineFits ==
  ASSUME Inv, NEW l \in Lines, ~LineHeld(l), UNCHANGED esc,
         \A m \in Lines : m # l => alloc'[m] = alloc[m],
         Concluded(l) => alloc'[l].value
  PROVE  LineHoldSound' /\ HoldOfValidator'
<1>1. \A n \in DOMAIN esc : esc[n].inst \in Lines
                           /\ ~(esc[n].inst = l /\ esc[n].status = "open")
  BY HeldIsOpen, EscalationType, Kept DEF Inv
<1>2. OneHoldPerLine'
  BY DEF Inv, LineHoldSound, OneHoldPerLine
<1>3. LineHoldFits'
  BY <1>1 DEF Inv, LineHoldSound, LineHoldFits
<1>4. HoldOfValidator'
  BY <1>1 DEF Inv, HoldOfValidator, Concluded
<1>5. QED
  BY <1>2, <1>3, <1>4 DEF LineHoldSound

LEMMA StoppedKeepsInv ==
  ASSUME Inv, NEW l \in Lines, Stopped(l)
  PROVE  LineHoldSound' /\ NothingSwallowed' /\ HoldOfValidator'
<1>1. PICK reason \in {"commitments_exceed_capacity", "allocation_invalid"} :
        /\ Hold(l, Supply, reason)
        /\ reason = "allocation_invalid" => alloc[l].verdict = "failed"
  BY DEF Stopped
<1>2. ~LineHeld(l) /\ alloc' = alloc /\ UNCHANGED conclusion
  BY DEF Stopped
<1>3. reason \in Reasons /\ Supply \in Creators /\ Supply # Validator
  BY ReasonsKnown DEF Creators, Supply, Validator
<1>4. OneHoldPerLine'
  BY <1>1, <1>2, <1>3, HoldKeepsOne
<1>5. LineHoldFits' /\ HoldOfValidator'
  BY <1>1, <1>2, <1>3, HoldKeepsFit DEF Concluded
<1>6. NothingSwallowed'
  BY <1>2 DEF Inv, NothingSwallowed, Concluded, conclusion
<1>7. QED
  BY <1>4, <1>5, <1>6 DEF LineHoldSound

LEMMA DividedKeepsInv ==
  ASSUME Inv, NEW l \in Lines, Divided(l)
  PROVE  LineHoldSound' /\ NothingSwallowed' /\ HoldOfValidator'
<1>0. /\ alloc \in [Lines -> Allocation]
      /\ DOMAIN decided = Lines /\ DOMAIN divided = Lines
  BY Kept DEF Inv
<1>1. ~LineHeld(l) /\ UNCHANGED esc
  BY DEF Divided
<1>2. alloc'[l].value /\ \A m \in Lines : m # l => alloc'[m] = alloc[m]
  BY <1>0, AllocationType DEF Divided
<1>3. LineHoldSound' /\ HoldOfValidator'
  BY <1>1, <1>2, FreeLineFits
<1>4. /\ decided'[l] = divided'[l]
      /\ \A m \in Lines : m # l => decided'[m] = decided[m] /\ divided'[m] = divided[m]
  BY <1>0 DEF Divided
<1>5. NothingSwallowed'
  BY <1>2, <1>4 DEF Inv, NothingSwallowed, Concluded
<1>6. QED
  BY <1>3, <1>5

LEMMA JudgedKeepsInv ==
  ASSUME Inv, NEW l \in Lines, Judged(l)
  PROVE  LineHoldSound' /\ NothingSwallowed' /\ HoldOfValidator'
<1>0. alloc \in [Lines -> Allocation]
  BY Kept DEF Inv
<1>1. ~LineHeld(l) /\ alloc[l].value /\ UNCHANGED conclusion
  BY <1>0, LookedFor DEF Judged
<1>2. PICK v \in {"passed", "failed", "error"} :
        /\ alloc' = [alloc EXCEPT ![l].verdict = v]
        /\ IF v = "error" THEN Hold(l, Validator, "validation_error") ELSE UNCHANGED esc
  BY DEF Judged
<1>3. /\ alloc'[l].verdict = v /\ alloc'[l].value = alloc[l].value
      /\ \A m \in Lines : m # l => alloc'[m] = alloc[m]
  BY <1>0, <1>2, VerdictType
<1>4. LineHoldSound' /\ HoldOfValidator'
  <2>1. CASE v = "error"
    <3>1. "validation_error" \in Reasons /\ Validator \in Creators
      BY ReasonsKnown DEF Creators
    <3>2. Hold(l, Validator, "validation_error")
      BY <1>2, <2>1
    <3>3. OneHoldPerLine'
      BY <1>1, <3>1, <3>2, HoldKeepsOne
    <3>4. LineHoldFits' /\ HoldOfValidator'
      BY <1>1, <1>3, <2>1, <3>1, <3>2, HoldKeepsFit
    <3>5. QED
      BY <3>3, <3>4 DEF LineHoldSound
  <2>2. CASE v # "error"
    BY <1>1, <1>2, <1>3, <2>2, FreeLineFits
  <2>3. QED
    BY <2>1, <2>2
<1>5. NothingSwallowed'
  <2>1. \A m \in Lines : alloc'[m].value = alloc[m].value
    BY <1>3
  <2>2. QED
    BY <1>1, <2>1 DEF Inv, NothingSwallowed, Concluded, conclusion
<1>6. QED
  BY <1>4, <1>5

\* After an answer the line has no hold: it had one.
LEMMA AnsweredFrees ==
  ASSUME Inv, NEW k \in DOMAIN esc, Answered(k)
  PROVE  /\ DOMAIN esc' = DOMAIN esc /\ esc'[k].status = "resolved"
         /\ esc[k].inst \in Lines
         /\ \A j \in DOMAIN esc : esc'[j].status = "open" =>
              esc'[j] = esc[j] /\ esc[j].inst # esc[k].inst
         /\ \A j \in DOMAIN esc : /\ esc'[j].inst = esc[j].inst
                                  /\ esc'[j].reason = esc[j].reason
                                  /\ esc'[j].creator = esc[j].creator
         /\ ~LineHeld(esc[k].inst)'
<1>0. esc \in LineEscalations /\ esc[k].inst \in Lines
  BY Kept, EscalationType DEF Inv
<1>1. PICK how \in {"value", "rerun", "dismiss"} : Close(k, how)
  BY DEF Answered
<1>2. /\ DOMAIN esc' = DOMAIN esc /\ esc'[k].status = "resolved"
      /\ esc'[k].inst = esc[k].inst /\ esc'[k].reason = esc[k].reason
      /\ esc'[k].creator = esc[k].creator
      /\ \A j \in DOMAIN esc : j # k => esc'[j] = esc[j]
  BY <1>0, <1>1, CloseType
<1>3. ASSUME NEW j \in DOMAIN esc, esc'[j].status = "open"
      PROVE  esc'[j] = esc[j] /\ esc[j].inst # esc[k].inst
  <2>1. j # k /\ esc'[j] = esc[j]
    BY <1>2, <1>3
  <2>2. QED
    BY <1>3, <2>1 DEF Answered, Inv, LineHoldSound, OneHoldPerLine
<1>4. \A j \in DOMAIN esc : /\ esc'[j].inst = esc[j].inst
                            /\ esc'[j].reason = esc[j].reason
                           /\ esc'[j].creator = esc[j].creator
  BY <1>2
<1>5. ~LineHeld(esc[k].inst)'
  BY <1>2, <1>3 DEF LineHeld, OpenTargets
<1>6. QED
  BY <1>0, <1>2, <1>3, <1>4, <1>5

LEMMA AnsweredKeepsInv ==
  ASSUME Inv, NEW k \in DOMAIN esc, Answered(k)
  PROVE  LineHoldSound' /\ NothingSwallowed' /\ HoldOfValidator'
<1> DEFINE l == esc[k].inst
<1>0. alloc \in [Lines -> Allocation] /\ l \in Lines
  BY Kept, AnsweredFrees DEF Inv
<1>1. /\ alloc'[l].value = alloc[l].value
      /\ \A m \in Lines : m # l => alloc'[m] = alloc[m]
  BY <1>0, VerdictType DEF Answered
<1>2. OneHoldPerLine'
  BY AnsweredFrees DEF Inv, LineHoldSound, OneHoldPerLine
<1>3. LineHoldFits'
  BY <1>1, AnsweredFrees, EscalationType, Kept DEF Inv, LineHoldSound, LineHoldFits
<1>4. HoldOfValidator'
  <2>1. \A j \in DOMAIN esc : esc[j].inst \in Lines
    BY EscalationType, Kept DEF Inv
  <2>2. \A m \in Lines : alloc'[m].value = alloc[m].value
    BY <1>1
  <2>3. QED
    BY <2>1, <2>2, AnsweredFrees DEF Inv, HoldOfValidator, Concluded
<1>5. NothingSwallowed'
  <2>1. \A m \in Lines : alloc'[m].value = alloc[m].value
    BY <1>1
  <2>2. QED
    BY <2>1 DEF Answered, Inv, NothingSwallowed, Concluded, conclusion
<1>6. QED
  BY <1>2, <1>3, <1>4, <1>5 DEF LineHoldSound

LEMMA UntouchedKeepsInv ==
  ASSUME Inv, UNCHANGED lineState
  PROVE  LineHoldSound' /\ NothingSwallowed' /\ HoldOfValidator'
BY DEF Inv, lineState, conclusion, LineHoldSound, OneHoldPerLine, LineHoldFits,
       NothingSwallowed, HoldOfValidator, Concluded

LEMMA NextInv == Inv /\ [Next]_vars => Inv'
<1> SUFFICES ASSUME Inv, [Next]_vars  PROVE Inv'
  OBVIOUS
<1>1. Typed'
  BY NextTyped DEF Inv
<1>2. LineHoldSound' /\ NothingSwallowed' /\ HoldOfValidator'
  <2>1. CASE UNCHANGED lineState
    BY <2>1, UntouchedKeepsInv
  <2>2. CASE \E l \in Lines : Stopped(l) \/ Divided(l) \/ Judged(l)
    BY <2>2, StoppedKeepsInv, DividedKeepsInv, JudgedKeepsInv
  <2>3. CASE \E k \in DOMAIN esc : Answered(k)
    BY <2>3, AnsweredKeepsInv
  <2>4. QED
    BY <2>1, <2>2, <2>3, StateKinds DEF Inv, vars
<1>3. QED
  BY <1>1, <1>2 DEF Inv

LEMMA Invariance == Spec => []Inv
<1>1. QED
  BY InitInv, NextInv, PTL DEF Spec

------------------------------------------------------------------------------
(* Holds and conclusions *)

\* A line never has two holds, although the validator may stop it while the
\* coordinator computes, and a hold asks about the conclusion in the record.
THEOREM HoldsSound == Spec => []LineHoldSound
<1>1. Inv => LineHoldSound
  BY DEF Inv
<1>2. QED
  BY <1>1, Invariance, PTL

\* The log entry of a conclusion holds the inputs it was divided from, so what
\* comes in during a computation is either divided or still a difference.
THEOREM NeverSwallowed == Spec => []NothingSwallowed
<1>1. Inv => NothingSwallowed
  BY DEF Inv
<1>2. QED
  BY <1>1, Invariance, PTL

\* A coordination that began before a hold does not write under it.
THEOREM HeldLinesStay == Spec => HeldLineStays
<1> DEFINE Stays == \A l \in Lines : LineHeld(l) /\ LineHeld(l)' =>
                      alloc'[l] = alloc[l] /\ decided'[l] = decided[l]
<1>1. Inv /\ [Next]_vars => [Stays]_lineState
  <2> SUFFICES ASSUME Inv, Next, NEW l \in Lines, LineHeld(l), LineHeld(l)'
               PROVE  (alloc'[l] = alloc[l] /\ decided'[l] = decided[l]) \/ UNCHANGED lineState
    BY DEF vars
  <2>0. /\ alloc \in [Lines -> Allocation]
        /\ DOMAIN decided = Lines /\ DOMAIN divided = Lines
    BY Kept DEF Inv
  <2>1. ASSUME NEW m \in Lines, Stopped(m) \/ Divided(m) \/ Judged(m)
        PROVE  alloc'[l] = alloc[l] /\ decided'[l] = decided[l]
    <3>1. m # l \/ Stopped(m)
      BY <2>0, <2>1, LookedFor DEF Divided, Judged
    <3>2. CASE Stopped(m)
      BY <3>2 DEF Stopped, conclusion
    <3>3. CASE m # l /\ (Divided(m) \/ Judged(m))
      BY <2>0, <3>3 DEF Divided, Judged, conclusion
    <3>4. QED
      BY <2>1, <3>1, <3>2, <3>3
  <2>2. ASSUME NEW k \in DOMAIN esc, Answered(k)
        PROVE  alloc'[l] = alloc[l] /\ decided'[l] = decided[l]
    <3>1. esc[k].inst # l
      BY <2>2, AnsweredFrees, HeldIsOpen
    <3>2. alloc'[l] = alloc[l]
      BY <2>0, <2>2, <3>1, AnsweredFrees, VerdictType DEF Answered
    <3>3. QED
      BY <2>2, <3>2 DEF Answered, conclusion
  <2>3. QED
    BY <2>1, <2>2, StateKinds DEF Inv
<1>2. QED
  BY <1>1, Invariance, PTL DEF Spec, HeldLineStays

------------------------------------------------------------------------------
(* Doorbells: what makes a line want to be checked, who attends to it, and    *)
(* which steps leave a line alone                                             *)

Wants(l) ==
  \/ Free(l) /\ (Failed(l) \/ Regular(l))
  \/ Urgent(l) /\ ~ValidatorHeld(l)

Attended(l) == Busy(l) \/ InChannel(l)

LEMMA RingsMeans ==
  LineRings <=> \A l \in Lines : /\ Wants(l) => Attended(l)
                                 /\ Judgeable(l) => l \in toValidate
BY DEF LineRings, Wants, Attended, Recoordinate, Invalid

SameLine(l) ==
  /\ alloc'[l] = alloc[l] /\ decided'[l] = decided[l]
  /\ OpenTargets(esc, l)' = OpenTargets(esc, l)
  /\ LineDismissed(l)' <=> LineDismissed(l)
  /\ ValidatorHeld(l)' <=> ValidatorHeld(l)

SameInputs(l) ==
  /\ soon'[l] = soon[l] /\ later'[l] = later[l]
  /\ \A i \in InstancesOf(l) : kind'[i] = kind[i] /\ basis'[i] = basis[i]

LEMMA UntouchedLine ==
  ASSUME NEW l, UNCHANGED lineState
  PROVE  SameLine(l)
BY DEF lineState, conclusion, SameLine, OpenTargets, LineDismissed, IsDismissed, ValidatorHeld

LEMMA UntouchedInputs ==
  ASSUME NEW l, UNCHANGED <<life, data>>
  PROVE  SameInputs(l)
BY DEF life, data, SameInputs

LEMMA SameState ==
  ASSUME NEW l, alloc'[l] = alloc[l], OpenTargets(esc, l)' = OpenTargets(esc, l)
  PROVE  /\ LineState(l)' = LineState(l)
         /\ Failed(l)' <=> Failed(l)
         /\ Judgeable(l)' <=> Judgeable(l)
         /\ LineHeld(l)' <=> LineHeld(l)
         /\ Concluded(l)' <=> Concluded(l)
BY DEF LineState, Failed, Judgeable, LineHeld, Concluded

LEMMA SameIn ==
  ASSUME NEW l, SameInputs(l)
  PROVE  In(l)' = In(l)
BY DEF In, SameInputs

LEMMA SameWants ==
  ASSUME NEW l, SameLine(l), SameInputs(l)
  PROVE  Wants(l)' <=> Wants(l)
<1>1. In(l)' = In(l)
  BY SameIn
<1>2. /\ Failed(l)' <=> Failed(l)
      /\ LineHeld(l)' <=> LineHeld(l)
      /\ Concluded(l)' <=> Concluded(l)
  BY SameState DEF SameLine
<1>3. Free(l)' <=> Free(l)
  BY <1>2 DEF Free, SameLine
<1>4. Regular(l)' <=> Regular(l)
  BY <1>2 DEF Regular, Ready, SameInputs
<1>5. Immediate(l, decided[l], In(l))' <=> Immediate(l, decided[l], In(l))
  BY <1>1 DEF Immediate, SameLine, SameInputs
<1>6. Urgent(l)' <=> Urgent(l)
  BY <1>1, <1>2, <1>3, <1>5 DEF Urgent, Changed, SameLine
<1>7. QED
  BY <1>2, <1>3, <1>4, <1>6 DEF Wants, SameLine

\* A line that is held, or out of the cycle, wants nothing.
LEMMA OnlyFreeWants ==
  ASSUME NEW l, LineHeld(l) \/ LineDismissed(l)
  PROVE  ~Wants(l)
BY DEF Wants, Free, Urgent

\* A hold of one line is nothing to the others.
LEMMA HoldSpares ==
  ASSUME esc \in LineEscalations, NEW l \in Lines, NEW creator \in Creators,
         NEW reason \in Reasons, Hold(l, creator, reason)
  PROVE  /\ LineHeld(l)'
         /\ \A m \in Lines : m # l =>
              /\ OpenTargets(esc, m)' = OpenTargets(esc, m)
              /\ LineDismissed(m)' <=> LineDismissed(m)
              /\ ValidatorHeld(m)' <=> ValidatorHeld(m)
<1>1. /\ esc' \in LineEscalations /\ Len(esc') = Len(esc) + 1
      /\ \A k \in DOMAIN esc : k \in DOMAIN esc' /\ esc'[k] = esc[k]
  BY HoldType
<1>2. \A k \in DOMAIN esc' :
        \/ k \in DOMAIN esc /\ esc'[k] = esc[k]
        \/ esc'[k].inst = l
  BY HoldAdds
<1>3. LineHeld(l)'
  <2>1. Len(esc) + 1 \in DOMAIN esc'
    BY <1>1 DEF LineEscalations
  <2>2. esc'[Len(esc) + 1] = NewEscalation(creator, reason, l)
    BY HoldType
  <2>3. esc'[Len(esc) + 1].inst = l /\ esc'[Len(esc) + 1].status = "open"
    BY <2>2 DEF NewEscalation
  <2>4. QED
    BY <2>1, <2>3 DEF LineHeld, OpenTargets
<1>4. ASSUME NEW m \in Lines, m # l
      PROVE  /\ OpenTargets(esc, m)' = OpenTargets(esc, m)
             /\ LineDismissed(m)' <=> LineDismissed(m)
             /\ ValidatorHeld(m)' <=> ValidatorHeld(m)
  <2>1. {j \in DOMAIN esc : esc[j].inst = m /\ esc[j].status = "open"}'
          = {j \in DOMAIN esc : esc[j].inst = m /\ esc[j].status = "open"}
    BY <1>1, <1>2, <1>4
  <2>2. OpenTargets(esc, m)' = OpenTargets(esc, m)
    BY <1>1, <2>1 DEF OpenTargets
  <2>3. QED
    BY <1>1, <1>2, <1>4, <2>2 DEF LineDismissed, IsDismissed, ValidatorHeld
<1>5. QED
  BY <1>3, <1>4

\* Nor is an answer.
LEMMA CloseSpares ==
  ASSUME esc \in LineEscalations, NEW k \in DOMAIN esc,
         NEW how \in {"value", "rerun", "dismiss"}, Close(k, how),
         NEW m \in Lines, m # esc[k].inst
  PROVE  /\ OpenTargets(esc, m)' = OpenTargets(esc, m)
         /\ LineDismissed(m)' <=> LineDismissed(m)
         /\ ValidatorHeld(m)' <=> ValidatorHeld(m)
<1>1. /\ DOMAIN esc' = DOMAIN esc /\ esc'[k].inst = esc[k].inst
      /\ \A j \in DOMAIN esc : j # k => esc'[j] = esc[j]
  BY CloseType
<1>2. {j \in DOMAIN esc : esc[j].inst = m /\ esc[j].status = "open"}'
        = {j \in DOMAIN esc : esc[j].inst = m /\ esc[j].status = "open"}
  BY <1>1
<1>3. OpenTargets(esc, m)' = OpenTargets(esc, m)
  BY <1>1, <1>2 DEF OpenTargets
<1>4. QED
  BY <1>1, <1>3 DEF LineDismissed, IsDismissed, ValidatorHeld

\* A step that does something to the State of l leaves the other lines alone.
LEMMA OthersSpared ==
  ASSUME Typed, NEW l \in Lines, NEW m \in Lines, m # l,
         \/ Stopped(l) \/ Divided(l) \/ Judged(l)
         \/ \E k \in DOMAIN esc : Answered(k) /\ esc[k].inst = l
  PROVE  SameLine(m)
<1>0. /\ alloc \in [Lines -> Allocation] /\ esc \in LineEscalations
      /\ DOMAIN decided = Lines
  BY Kept
<1>1. ASSUME UNCHANGED esc
      PROVE  /\ OpenTargets(esc, m)' = OpenTargets(esc, m)
             /\ LineDismissed(m)' <=> LineDismissed(m)
             /\ ValidatorHeld(m)' <=> ValidatorHeld(m)
  BY <1>1 DEF OpenTargets, LineDismissed, IsDismissed, ValidatorHeld
<1>2. CASE Stopped(l)
  BY <1>0, <1>2, HoldSpares, ReasonsKnown DEF Stopped, conclusion, SameLine, Creators
<1>3. CASE Divided(l)
  BY <1>0, <1>1, <1>3 DEF Divided, SameLine
<1>4. CASE Judged(l)
  <2>1. alloc'[m] = alloc[m] /\ decided'[m] = decided[m]
    BY <1>0, <1>4, VerdictType DEF Judged, conclusion
  <2>2. UNCHANGED esc \/ Hold(l, Validator, "validation_error")
    BY <1>4 DEF Judged
  <2>3. QED
    BY <1>0, <1>1, <2>1, <2>2, HoldSpares, ReasonsKnown DEF SameLine, Creators
<1>5. ASSUME NEW k \in DOMAIN esc, Answered(k), esc[k].inst = l
      PROVE  SameLine(m)
  <2>1. alloc'[m] = alloc[m] /\ decided'[m] = decided[m]
    BY <1>0, <1>5, VerdictType DEF Answered, conclusion
  <2>2. QED
    BY <1>0, <1>5, <2>1, CloseSpares DEF Answered, SameLine
<1>6. QED
  BY <1>2, <1>3, <1>4, <1>5

------------------------------------------------------------------------------
(* Who is told of what *)

\* Telling never takes away a signal for the coordinator.
LEMMA NotifyGrows ==
  ASSUME NEW again, NEW judged, Notify(again, judged)
  PROVE  rung \subseteq rung' /\ again \subseteq rung'
BY DEF Notify

\* A failed verdict rings for the author when it appears.
LEMMA FailedRings ==
  ASSUME NEW again, NEW judged, Notify(again, judged),
         NEW l \in Lines, Failed(l)', ~Failed(l), LineState(l) # "judged"
  PROVE  l \in rung'
<1>1. LineState(l)' = "judged" /\ LineState(l)' # LineState(l)
  BY DEF Failed
<1>2. LineOwner(l)' = Supply
  BY <1>1 DEF LineOwner, OwnerChannel
<1>3. QED
  BY <1>1, <1>2 DEF Notify, RingsSupply, Entered

\* What the validator has to judge rings for it when it appears, so its signal
\* is only gone after it has judged.
LEMMA JudgeableRings ==
  ASSUME NEW again, NEW judged, Notify(again, judged),
         NEW l \in Lines, Judgeable(l)', Judgeable(l) => l \in toValidate \ judged
  PROVE  l \in toValidate'
<1>1. LineState(l)' = "awaiting_validation"
  BY DEF Judgeable
<1>2. CASE LineState(l) = "awaiting_validation"
  BY <1>2 DEF Judgeable, Notify
<1>3. CASE LineState(l) # "awaiting_validation"
  <2>1. LineOwner(l)' = Validator
    BY <1>1 DEF LineOwner, OwnerChannel
  <2>2. QED
    BY <1>1, <1>3, <2>1 DEF Notify, Entered
<1>4. QED
  BY <1>2, <1>3

\* Who is at work stays at work, and the channels keep their signals.
Keeps(l) == Attended(l) => Attended(l)'

LEMMA ChannelsGrow ==
  ASSUME NEW l, rung \subseteq rung', bell \subseteq bell', daily => daily',
         Busy(l) => Busy(l)'
  PROVE  Keeps(l)
BY DEF Keeps, Attended, InChannel

\* A signal in a channel attends to the lines it is about.
LEMMA SignalAttends ==
  ASSUME NEW m \in Messages, NEW l \in LinesOf(m),
         \/ m = Daily /\ daily'
         \/ m \in Lines /\ m \in rung'
         \/ m \in Instances /\ m \in bell'
  PROVE  Attended(l)'
<1>1. CASE m = Daily /\ daily'
  BY <1>1 DEF Attended, InChannel
<1>2. CASE m \in Lines /\ m \in rung'
  BY <1>2, LinesOfType DEF Attended, InChannel
<1>3. CASE m \in Instances /\ m \in bell'
  BY <1>3, LinesOfType DEF Attended, InChannel
<1>4. QED
  BY <1>1, <1>2, <1>3

\* A handler that breaks off returns its signal: no line is left unattended.
LEMMA RaiseKeeps ==
  ASSUME Typed, co.at # "idle", Raise, NEW l \in Lines
  PROVE  Keeps(l)
<1>1. rung \subseteq rung' /\ bell \subseteq bell' /\ (daily => daily')
  BY DEF Raise, GiveBack
<1>2. CASE Busy(l)
  <2>1. co.msg \in Messages /\ l \in LinesOf(co.msg)
    BY <1>2, AtWork DEF Busy, Typed, CheckFits
  <2>2. \/ co.msg = Daily /\ daily'
        \/ co.msg \in Lines /\ co.msg \in rung'
        \/ co.msg \in Instances /\ co.msg \in bell'
    BY <2>1 DEF Raise, GiveBack, Messages
  <2>3. QED
    BY <2>1, <2>2, SignalAttends DEF Keeps
<1>3. CASE ~Busy(l)
  BY <1>1, <1>3, ChannelsGrow
<1>4. QED
  BY <1>2, <1>3

\* Going on to the next line drops only the line that was checked.
LEMMA ProceedKeeps ==
  ASSUME Typed, co.at # "idle", Proceed, NEW l \in Lines, l # co.line,
         rung \subseteq rung', bell \subseteq bell', daily => daily'
  PROVE  Keeps(l)
<1>1. Busy(l) => Busy(l)'
  BY ProceedType DEF Busy, Typed
<1>2. QED
  BY <1>1, ChannelsGrow

\* A new check: its lines are attended to, and the others keep their signals.
LEMMA CheckLineKeeps ==
  ASSUME co.at = "idle", bell \subseteq Instances,
         NEW m \in Messages, CheckLine(m, LinesOf(m)),
         rung \ {m} \subseteq rung', bell \ {m} \subseteq bell',
         m # Daily => (daily => daily')
  PROVE  /\ \A l \in LinesOf(m) : Attended(l)'
         /\ \A l \in Lines : Keeps(l)
<1>1. ASSUME NEW l \in LinesOf(m)
      PROVE  Attended(l)'
  BY CheckLineType, LinesOfType DEF Attended, Busy
<1>2. ASSUME NEW l \in Lines, l \notin LinesOf(m), Attended(l)
      PROVE  Attended(l)'
  <2>1. m # Daily /\ m # l /\ (m \in Instances => LineOf[m] # l)
    BY <1>2, LinesOfType
  <2>2. daily \/ l \in rung \/ \E i \in bell : LineOf[i] = l
    BY <1>2 DEF Attended, Busy, InChannel
  <2>3. CASE daily
    BY <2>1, <2>3 DEF Attended, InChannel
  <2>4. CASE l \in rung
    BY <2>1, <2>4 DEF Attended, InChannel
  <2>5. ASSUME NEW i \in bell, LineOf[i] = l
        PROVE  Attended(l)'
    <3>1. i # m
      BY <2>1, <2>5
    <3>2. QED
      BY <2>5, <3>1 DEF Attended, InChannel
  <2>6. QED
    BY <2>2, <2>3, <2>4, <2>5
<1>3. QED
  BY <1>1, <1>2 DEF Keeps

------------------------------------------------------------------------------
(* No doorbell of a line is lost *)

Rings(l) == (Wants(l) => Attended(l)) /\ (Judgeable(l) => l \in toValidate)

RInv == Inv /\ LineRings

LEMMA RInvMeans == RInv <=> Inv /\ \A l \in Lines : Rings(l)
BY RingsMeans DEF RInv, Rings

LEMMA InitRings == Init => RInv
<1> SUFFICES ASSUME Init  PROVE \A l \in Lines : Rings(l)
  BY InitInv, RInvMeans
<1>1. ASSUME NEW l \in Lines  PROVE Attended(l)
  BY <1>1 DEF Init, Attended, InChannel
<1>2. ASSUME NEW l \in Lines  PROVE ~Judgeable(l)
  <2>1. alloc[l] = NoAllocation /\ alloc \in [Lines -> Allocation]
    BY <1>2, InitInv, Kept DEF Init, Inv
  <2>2. ~alloc[l].value
    BY <2>1 DEF NoAllocation
  <2>3. QED
    BY <1>2, <2>1, <2>2, LookedFor
<1>3. QED
  BY <1>1, <1>2 DEF Rings

\* A step that changes neither the State nor the inputs of a line has to keep
\* only what attends to it.
LEMMA QuietRings ==
  ASSUME NEW l \in Lines, Rings(l), SameLine(l), SameInputs(l), Keeps(l),
         l \in toValidate => l \in toValidate'
  PROVE  Rings(l)'
<1>1. Wants(l)' <=> Wants(l)
  BY SameWants
<1>2. Judgeable(l)' <=> Judgeable(l)
  BY SameState DEF SameLine
<1>3. QED
  BY <1>1, <1>2 DEF Rings, Keeps

\* The same where an update told the owners.
LEMMA ToldRings ==
  ASSUME NEW l \in Lines, Rings(l), SameLine(l), SameInputs(l), Keeps(l),
         NEW again, NEW judged, Notify(again, judged), l \notin judged \/ ~Judgeable(l)
  PROVE  Rings(l)'
<1>1. Wants(l)' <=> Wants(l)
  BY SameWants
<1>2. Judgeable(l)' <=> Judgeable(l)
  BY SameState DEF SameLine
<1>3. l \in toValidate /\ l \notin judged => l \in toValidate'
  BY DEF Notify
<1>4. QED
  BY <1>1, <1>2, <1>3 DEF Rings, Keeps

\* A line that was just stopped is nobody's work but the person's.
LEMMA StoppedRings ==
  ASSUME Inv, NEW l \in Lines, Stopped(l)
  PROVE  Rings(l)'
<1>1. LineHeld(l)'
  BY HoldSpares, ReasonsKnown, Kept DEF Stopped, Creators, Inv
<1>2. ~Wants(l)'
  BY <1>1 DEF Wants, Free, Urgent
<1>3. ~Judgeable(l)'
  BY <1>1, LookedForNext, Kept DEF Stopped, Inv
<1>4. QED
  BY <1>2, <1>3 DEF Rings

LEMMA ReadyInv ==
  ASSUME RInv
  PROVE  /\ Inv /\ Typed /\ \A l \in Lines : Rings(l)
         /\ alloc \in [Lines -> Allocation] /\ esc \in LineEscalations
         /\ bell \subseteq Instances
BY RInvMeans, Kept DEF Inv

LEMMA CheckRings ==
  ASSUME RInv, Check  PROVE \A l \in Lines : Rings(l)'
<1>m. PICK m \in Lines : m = co.line
  BY ReadyInv, AtWork DEF Check, Typed
<1>0. /\ co.at = "checking" /\ m = co.line /\ co.todo \in SUBSET Lines
      /\ Inv /\ Typed /\ \A l \in Lines : Rings(l)
  BY <1>m, ReadyInv, AtWork DEF Check, Typed
<1>1. CASE FixInputs(m)
  <2>1. ASSUME NEW l \in Lines  PROVE Keeps(l)
    <3>1. Busy(l) => Busy(l)'
      BY <1>0, <1>1 DEF FixInputs, Busy
    <3>2. QED
      BY <1>1, <3>1, ChannelsGrow DEF FixInputs, life
  <2>2. QED
    BY <1>0, <1>1, <2>1, QuietRings, UntouchedLine, UntouchedInputs DEF FixInputs
<1>2. CASE MustReport(m) /\ ReportInvalid(m)
  <2>1. Stopped(m)
    BY <1>2 DEF MustReport, Free, Invalid, Failed, ReportInvalid, Stopped
  <2>2. rung \subseteq rung' /\ bell \subseteq bell' /\ (daily => daily') /\ Proceed
    BY <1>2, NotifyGrows DEF ReportInvalid, life
  <2>3. ASSUME NEW l \in Lines, l # m  PROVE Rings(l)'
    <3>1. SameLine(l)
      BY <1>0, <2>1, <2>3, OthersSpared
    <3>2. Keeps(l)
      BY <1>0, <2>2, <2>3, ProceedKeeps
    <3>3. QED
      BY <1>0, <1>2, <3>1, <3>2, ToldRings, UntouchedInputs DEF ReportInvalid
  <2>4. QED
    BY <1>0, <2>1, <2>3, StoppedRings
<1>3. CASE /\ ~MustCoordinate(m) /\ ~MustReport(m) /\ Proceed
           /\ UNCHANGED <<life, data, lineState, answered, rung, daily, toValidate, budget>>
  <2>1. ~Wants(m)
    BY <1>3 DEF MustCoordinate, MustReport, Wants, Recoordinate, Invalid, Continuing, Urgent
  <2>2. \A l \in Lines : l # m => Keeps(l)
    BY <1>0, <1>3, ProceedKeeps DEF life
  <2>3. ASSUME NEW l \in Lines  PROVE SameLine(l) /\ SameInputs(l)
    BY <1>3, UntouchedLine, UntouchedInputs
  <2>4. Rings(m)'
    <3>1. ~Wants(m)'
      BY <1>0, <2>1, <2>3, SameWants
    <3>2. Judgeable(m)' <=> Judgeable(m)
      BY <1>0, <2>3, SameState DEF SameLine
    <3>3. QED
      BY <1>0, <1>3, <3>1, <3>2 DEF Rings
  <2>5. QED
    BY <1>0, <1>3, <2>2, <2>3, <2>4, QuietRings
<1>4. CASE Raise
  <2>1. ASSUME NEW l \in Lines  PROVE Keeps(l)
    BY <1>0, <1>4, RaiseKeeps
  <2>2. ASSUME NEW l \in Lines  PROVE SameLine(l) /\ SameInputs(l)
    BY <1>4, UntouchedLine DEF Raise, SameInputs, data
  <2>3. QED
    BY <1>0, <1>4, <2>1, <2>2, QuietRings DEF Raise
<1>5. QED
  BY <1>0, <1>1, <1>2, <1>3, <1>4 DEF Check

LEMMA ConcludeRings ==
  ASSUME RInv, Conclude  PROVE \A l \in Lines : Rings(l)'
<1>m. PICK m \in Lines : m = co.line
  BY ReadyInv, AtWork DEF Conclude, Typed
<1>0. /\ co.at = "computing" /\ m = co.line /\ co.todo \in SUBSET Lines
      /\ co.outcome \in Outcomes
      /\ Inv /\ Typed /\ \A l \in Lines : Rings(l)
  BY <1>m, ReadyInv, AtWork DEF Conclude, Typed
<1>1. CASE Raise
  <2>1. ASSUME NEW l \in Lines  PROVE Keeps(l)
    BY <1>0, <1>1, RaiseKeeps
  <2>2. ASSUME NEW l \in Lines  PROVE SameLine(l) /\ SameInputs(l)
    BY <1>1, UntouchedLine DEF Raise, SameInputs, data
  <2>3. QED
    BY <1>0, <1>1, <2>1, <2>2, QuietRings DEF Raise
<1>2. ASSUME ~StoppedMeanwhile(m), NEW outcome \in Outcomes,
             InputsUsed(m) = co.fixed => outcome = co.outcome, Settle(m, outcome),
             UNCHANGED <<life, data, answered, daily>>, NEW l \in Lines
      PROVE  Rings(l)'
  <2>1. Stopped(m) \/ Divided(m)
    <3>1. ~LineHeld(m)
      BY <1>2 DEF StoppedMeanwhile
    <3>2. outcome = "allocated" => InputsUsed(m) = In(m)
      BY <1>2 DEF InputsUsed
    <3>3. QED
      BY <1>2, <3>1, <3>2 DEF Settle, Stopped, Divided, Outcomes
  <2>2. PICK again \in SUBSET Lines : Notify(again, {})
    BY <1>0, <1>2 DEF Settle
  <2>3. rung \subseteq rung' /\ bell \subseteq bell' /\ (daily => daily')
    BY <1>2, <2>2, NotifyGrows DEF life
  <2>4. CASE l # m
    <3>1. SameLine(l) /\ SameInputs(l)
      BY <1>0, <1>2, <2>1, <2>4, OthersSpared, UntouchedInputs
    <3>2. Keeps(l)
      <4>1. CASE Proceed
        BY <1>0, <2>3, <2>4, <4>1, ProceedKeeps
      <4>2. CASE /\ co'.at = "checking" /\ co'.line = m /\ co'.todo = co.todo
        BY <1>0, <2>3, <4>2, ChannelsGrow DEF Busy
      <4>3. QED
        BY <1>2, <4>1, <4>2 DEF Settle
    <3>3. QED
      BY <1>0, <2>2, <3>1, <3>2, ToldRings
  <2>5. CASE l = m /\ outcome # "allocated"
    <3>1. Stopped(m)
      BY <1>2, <2>5 DEF Settle, Stopped, Outcomes, StoppedMeanwhile
    <3>2. QED
      BY <1>0, <2>5, <3>1, StoppedRings
  <2>6. CASE l = m /\ outcome = "allocated"
    <3>1. Attended(m)'
      <4>1. CASE co'.at = "checking" /\ co'.line = m
        BY <4>1 DEF Attended, Busy
      <4>2. CASE Notify({m}, {})
        BY <4>2 DEF Notify, Attended, InChannel
      <4>3. QED
        BY <1>2, <2>6, <4>1, <4>2 DEF Settle
    <3>2. Judgeable(m) => m \in toValidate \ {}
      BY <1>0 DEF Rings
    <3>3. Judgeable(m)' => m \in toValidate'
      BY <1>0, <2>2, <3>2, JudgeableRings
    <3>4. QED
      BY <2>6, <3>1, <3>3 DEF Rings
  <2>7. QED
    BY <2>4, <2>5, <2>6
<1>3. \/ Raise
      \/ \E outcome \in Outcomes :
           /\ ~StoppedMeanwhile(m) /\ Settle(m, outcome)
           /\ InputsUsed(m) = co.fixed => outcome = co.outcome
           /\ UNCHANGED <<life, data, answered, daily>>
  BY <1>0 DEF Conclude
<1>4. QED
  BY <1>1, <1>2, <1>3

LEMMA BeginRings ==
  ASSUME RInv, NEW m \in Messages, Begin(m)  PROVE \A l \in Lines : Rings(l)'
<1>1. /\ co.at = "idle" /\ CheckLine(m, LinesOf(m))
      /\ rung \ {m} \subseteq rung' /\ bell \ {m} \subseteq bell'
      /\ m # Daily => (daily => daily')
  BY DEF Begin, life
<1>2. \A l \in Lines : Keeps(l)
  BY <1>1, ReadyInv, CheckLineKeeps
<1>3. ASSUME NEW l \in Lines  PROVE SameLine(l) /\ SameInputs(l)
  BY <1>3, UntouchedLine DEF Begin, SameInputs, data, life
<1>4. QED
  BY <1>2, <1>3, ReadyInv, QuietRings DEF Begin

\* What the forecast side does changes the inputs of the instance's line.
LEMMA OtherInputs ==
  ASSUME RInv, NEW i \in Instances, NEW l \in Lines, l # LineOf[i], UNCHANGED data,
         \E k : Becomes(i, k),
         basis' = basis \/ \E b : basis' = [basis EXCEPT ![i] = b]
  PROVE  SameInputs(l)
<1>1. kind \in [Instances -> Kinds] /\ basis \in [Instances -> {"rule", "person"}]
  BY ReadyInv, Kept
<1>2. \A j \in InstancesOf(l) : j \in Instances /\ j # i
  BY DEF InstancesOf
<1>3. QED
  BY <1>1, <1>2 DEF SameInputs, Becomes, data

LEMMA BeginMisroutedRings ==
  ASSUME RInv, NEW i \in Instances, BeginMisrouted(i)
  PROVE  \A l \in Lines : Rings(l)'
<1>1. /\ co.at = "idle" /\ CheckLine(i, LinesOf(i)) /\ i \in Messages
      /\ rung \ {i} \subseteq rung' /\ bell \ {i} \subseteq bell'
      /\ i # Daily => (daily => daily')
  BY DEF BeginMisrouted, GoBack, Messages
<1>2. /\ \A l \in LinesOf(i) : Attended(l)'
      /\ \A l \in Lines : Keeps(l)
  BY <1>1, ReadyInv, CheckLineKeeps
<1>3. ASSUME NEW l \in Lines  PROVE SameLine(l)
  BY <1>3, UntouchedLine DEF BeginMisrouted
<1>4. ASSUME NEW l \in Lines, l # LineOf[i]  PROVE Rings(l)'
  <2>1. SameInputs(l)
    BY <1>4, OtherInputs DEF BeginMisrouted, GoBack
  <2>2. QED
    BY <1>2, <1>3, <1>4, <2>1, ReadyInv, QuietRings DEF BeginMisrouted
<1>5. ASSUME NEW l \in Lines, l = LineOf[i]  PROVE Rings(l)'
  <2>1. Attended(l)'
    BY <1>2, <1>5, LinesOfType DEF Messages
  <2>2. Judgeable(l)' <=> Judgeable(l)
    BY <1>3, SameState DEF SameLine
  <2>3. QED
    BY <2>1, <2>2, ReadyInv DEF Rings, BeginMisrouted
<1>6. QED
  BY <1>4, <1>5

\* A verdict leaves nothing to judge, and a failed one rings for the author.
LEMMA JudgedRings ==
  ASSUME RInv, NEW l \in Lines, Judged(l), UNCHANGED <<life, data, co, daily>>,
         NEW again, NEW judged, Notify(again, judged)
  PROVE  Rings(l)'
<1>0. /\ Inv /\ Rings(l) /\ alloc \in [Lines -> Allocation] /\ esc \in LineEscalations
      /\ ~LineHeld(l) /\ alloc[l].value
      /\ LineState(l) = "awaiting_validation" /\ ~Failed(l)
  BY ReadyInv, LookedFor DEF Judged, Judgeable, Failed
<1>1. PICK v \in {"passed", "failed", "error"} :
        /\ alloc' = [alloc EXCEPT ![l].verdict = v]
        /\ IF v = "error" THEN Hold(l, Validator, "validation_error") ELSE UNCHANGED esc
  BY DEF Judged
<1>2. alloc' \in [Lines -> Allocation] /\ alloc'[l].verdict = v /\ alloc'[l].value
  BY <1>0, <1>1, VerdictType
<1>3. ~Judgeable(l)'
  BY <1>2, LookedForNext
<1>4. CASE v = "error"
  <2>1. LineHeld(l)'
    BY <1>0, <1>1, <1>4, HoldSpares, ReasonsKnown DEF Creators
  <2>2. ~Wants(l)'
    BY <2>1 DEF Wants, Free, Urgent
  <2>3. QED
    BY <1>3, <2>2 DEF Rings
<1>5. CASE v = "failed"
  <2>1. ~LineHeld(l)' /\ LineState(l)' = Unheld(alloc'[l])
    BY <1>0, <1>1, <1>2, <1>5, LookedForNext DEF LineHeld, OpenTargets
  <2>2. Failed(l)'
    BY <1>2, <1>5, <2>1 DEF Failed, Unheld
  <2>3. l \in rung'
    BY <1>0, <2>2, FailedRings
  <2>4. QED
    BY <1>3, <2>3 DEF Rings, Attended, InChannel
<1>6. CASE v = "passed"
  <2>1. Wants(l)' => Wants(l)
    <3>1. ~Failed(l)' /\ ~Regular(l)'
      BY <1>2, <1>6, LookedForNext DEF Regular, Concluded
    <3>2. In(l)' = In(l)
      BY UntouchedInputs, SameIn
    <3>3. UNCHANGED <<decided, esc, basis>>
      BY <1>1, <1>6 DEF Judged, conclusion, life
    <3>4. Urgent(l)' => Urgent(l)
      BY <1>0, <3>2, <3>3 DEF Urgent, Free, LineHeld, OpenTargets, LineDismissed, IsDismissed,
                              Changed, Concluded, Immediate
    <3>5. ValidatorHeld(l)' <=> ValidatorHeld(l)
      BY <3>3 DEF ValidatorHeld
    <3>6. QED
      BY <3>1, <3>4, <3>5 DEF Wants
  <2>2. Attended(l) => Attended(l)'
    BY NotifyGrows DEF Attended, Busy, InChannel, life
  <2>3. QED
    BY <1>0, <1>3, <2>1, <2>2 DEF Rings
<1>7. QED
  BY <1>4, <1>5, <1>6

LEMMA ValidateRings ==
  ASSUME RInv, NEW m \in Lines, Validate(m)  PROVE \A l \in Lines : Rings(l)'
<1>1. PICK judged \in {{}, {m}} : Notify({}, judged)
  BY DEF Validate
<1>2. UNCHANGED <<life, data, conclusion, daily, co>>
  BY DEF Validate
<1>3. ASSUME NEW l \in Lines  PROVE Keeps(l) /\ SameInputs(l)
  <2>1. Keeps(l)
    BY <1>1, <1>2, NotifyGrows, ChannelsGrow DEF life, Busy
  <2>2. QED
    BY <1>2, <2>1, UntouchedInputs
<1>4. CASE Judgeable(m) /\ Judge(m)
  <2>1. Judged(m)
    BY <1>2, <1>4 DEF Judge, Judged
  <2>2. Rings(m)'
    BY <1>1, <1>2, <2>1, JudgedRings
  <2>3. ASSUME NEW l \in Lines, l # m  PROVE Rings(l)'
    <3>1. SameLine(l) /\ l \notin judged
      BY <2>1, <2>3, ReadyInv, OthersSpared
    <3>2. QED
      BY <1>1, <1>3, <3>1, ReadyInv, ToldRings
  <2>4. QED
    BY <2>2, <2>3
<1>5. CASE ~Judgeable(m) /\ UNCHANGED <<alloc, esc>>
  <2>1. UNCHANGED lineState
    BY <1>2, <1>5 DEF lineState
  <2>2. ASSUME NEW l \in Lines  PROVE Rings(l)'
    <3>1. SameLine(l)
      BY <2>1, UntouchedLine
    <3>2. l \notin judged \/ ~Judgeable(l)
      BY <1>5
    <3>3. QED
      BY <1>1, <1>3, <3>1, <3>2, ReadyInv, ToldRings
  <2>3. QED
    BY <2>2
<1>6. QED
  BY <1>4, <1>5 DEF Validate

\* A closed hold of the coordinator's rings, whatever the line is now; after
\* the validator's there is a conclusion to judge again, or the line is out.
LEMMA ResolveRings ==
  ASSUME RInv, NEW k \in DOMAIN esc, HumanResolve(k) \/ SystemResolve(k)
  PROVE  \A l \in Lines : Rings(l)'
<1>m. PICK m \in Lines : m = esc[k].inst
  BY EscalationType, ReadyInv
<1>0. /\ Inv /\ Typed /\ \A l \in Lines : Rings(l)
      /\ alloc \in [Lines -> Allocation] /\ esc \in LineEscalations
  BY ReadyInv
<1>1. /\ Notify({}, {}) /\ UNCHANGED <<life, daily, co>> /\ Answered(k)
      /\ later' = later /\ \A l \in Lines : l # m => soon'[l] = soon[l]
  BY <1>m, <1>0, Kept DEF HumanResolve, SystemResolve, Answered, data
<1>2. ASSUME NEW l \in Lines  PROVE Keeps(l)
  BY <1>1, NotifyGrows, ChannelsGrow DEF life, Busy
<1>3. ASSUME NEW l \in Lines, l # m  PROVE Rings(l)'
  <2>1. SameLine(l)
    BY <1>m, <1>0, <1>1, <1>3, OthersSpared
  <2>2. SameInputs(l)
    BY <1>1, <1>3 DEF SameInputs, life
  <2>3. QED
    BY <1>0, <1>1, <1>2, <2>1, <2>2, ToldRings
<1>4. Judgeable(m)' => m \in toValidate'
  BY <1>0, <1>1, JudgeableRings DEF Rings
<1>5. Wants(m)' => Attended(m)'
  <2>1. /\ DOMAIN esc' = DOMAIN esc /\ esc'[k].status # "open"
        /\ esc'[k].inst = m /\ esc'[k].creator = esc[k].creator
    BY <1>m, <1>0, <1>1, AnsweredFrees
  <2>2. CASE esc[k].creator = Supply
    <3>1. ClosedBySupply(m)
      BY <1>m, <1>1, <2>1, <2>2 DEF ClosedBySupply, Answered
    <3>2. m \in rung'
      BY <1>1, <3>1 DEF Notify, RingsSupply
    <3>3. QED
      BY <3>2 DEF Attended, InChannel
  <2>3. CASE esc[k].creator = Validator
    <3>1. ValidatorHeld(m)'
      BY <2>1, <2>3 DEF ValidatorHeld
    <3>2. esc[k].reason = "validation_error" /\ Concluded(m)
      BY <1>m, <1>0, <2>3 DEF Inv, HoldOfValidator
    <3>3. SystemResolve(k)
      BY <3>2 DEF HumanResolve, TargetRole, BusinessReasons
    <3>4. PICK how \in {"rerun", "dismiss"} :
            /\ Close(k, how)
            /\ alloc' = IF how = "rerun" THEN [alloc EXCEPT ![m].verdict = "none"] ELSE alloc
      BY <1>m, <3>2, <3>3 DEF SystemResolve
    <3>5. CASE how = "dismiss"
      <4>1. esc'[k].status = "resolved" /\ esc'[k].kind = "dismiss"
        BY <1>0, <3>4, <3>5, CloseType
      <4>2. LineDismissed(m)'
        BY <2>1, <4>1 DEF LineDismissed, IsDismissed
      <4>3. QED
        BY <4>2 DEF Wants, Free, Urgent
    <3>6. CASE how = "rerun"
      <4>1. /\ alloc' \in [Lines -> Allocation] /\ alloc'[m].verdict = "none"
            /\ alloc'[m].value
        BY <1>0, <3>2, <3>4, <3>6, VerdictType DEF Concluded
      <4>2. ~Failed(m)' /\ ~Regular(m)'
        BY <4>1, LookedForNext DEF Regular, Concluded
      <4>3. QED
        BY <3>1, <4>2 DEF Wants
    <3>7. QED
      BY <3>4, <3>5, <3>6
  <2>4. QED
    BY <1>0, <2>2, <2>3, EscalationType DEF Creators
<1>6. QED
  BY <1>3, <1>4, <1>5 DEF Rings

\* An immediate change is signalled; one that can wait makes nothing urgent.
LEMMA ExternalChangeRings ==
  ASSUME RInv, NEW m \in Lines, ExternalChange(m)  PROVE \A l \in Lines : Rings(l)'
<1>0. /\ soon \in [Lines -> {0, 1}] /\ later \in [Lines -> {0, 1}]
      /\ \A l \in Lines : Rings(l)
  BY ReadyInv, Kept
<1>1. /\ UNCHANGED <<life, lineState, daily, toValidate, co>> /\ rung \subseteq rung'
      /\ \A l \in Lines : l # m => soon'[l] = soon[l] /\ later'[l] = later[l]
      /\ m \in rung' \/ soon'[m] = soon[m]
  BY <1>0 DEF ExternalChange
<1>2. ASSUME NEW l \in Lines  PROVE Keeps(l) /\ SameLine(l)
  BY <1>1, ChannelsGrow, UntouchedLine DEF life, Busy
<1>3. ASSUME NEW l \in Lines, l # m  PROVE Rings(l)'
  <2>1. SameInputs(l)
    BY <1>1, <1>3 DEF SameInputs, life
  <2>2. QED
    BY <1>0, <1>1, <1>2, <2>1, QuietRings
<1>4. Wants(m)' => Attended(m)'
  <2>1. CASE m \in rung'
    BY <2>1 DEF Attended, InChannel
  <2>2. CASE soon'[m] = soon[m]
    <3>1. /\ alloc'[m] = alloc[m] /\ decided'[m] = decided[m]
          /\ Failed(m)' <=> Failed(m)
          /\ Concluded(m)' <=> Concluded(m)
          /\ LineHeld(m)' <=> LineHeld(m)
          /\ LineDismissed(m)' <=> LineDismissed(m)
          /\ ValidatorHeld(m)' <=> ValidatorHeld(m)
      BY <1>2, SameState DEF SameLine
    <3>2. Free(m)' <=> Free(m)
      BY <3>1 DEF Free
    <3>3. Regular(m)' <=> Regular(m)
      BY <1>1, <3>1 DEF Regular, Ready, life
    <3>4. In(m)'.soon = In(m).soon /\ In(m)'.demand = In(m).demand
      BY <1>1, <2>2 DEF In, life
    <3>5. Immediate(m, decided[m], In(m))' <=> Immediate(m, decided[m], In(m))
      BY <1>1, <3>1, <3>4 DEF Immediate, life
    <3>6. Immediate(m, decided[m], In(m)) => decided[m] # In(m)
      BY DEF Immediate
    <3>7. Urgent(m)' => Urgent(m)
      BY <3>1, <3>2, <3>5, <3>6 DEF Urgent, Changed
    <3>8. Wants(m)' => Wants(m)
      BY <3>1, <3>2, <3>3, <3>7 DEF Wants
    <3>9. QED
      BY <1>0, <1>2, <3>8 DEF Rings, Keeps
  <2>3. QED
    BY <1>1, <2>1, <2>2
<1>5. Judgeable(m)' => m \in toValidate'
  BY <1>0, <1>1, <1>2, SameState DEF Rings, SameLine
<1>6. QED
  BY <1>3, <1>4, <1>5 DEF Rings

\* Supply coordination is told of everything the forecast side does to a line.
LEMMA InstanceStepRings ==
  ASSUME RInv, NEW i \in Instances, InstanceStep(i)  PROVE \A l \in Lines : Rings(l)'
<1>0. \A l \in Lines : Rings(l)
  BY ReadyInv
<1>1. /\ UNCHANGED <<data, lineState, rung, daily, toValidate, co>>
      /\ bell' = bell \cup {i} /\ \E k : Becomes(i, k)
      /\ basis' = basis \/ \E b : basis' = [basis EXCEPT ![i] = b]
  BY DEF InstanceStep, Deliver, Stop, Release, Leave, Ring
<1>2. ASSUME NEW l \in Lines  PROVE Keeps(l) /\ SameLine(l)
  BY <1>1, ChannelsGrow, UntouchedLine DEF Busy
<1>3. ASSUME NEW l \in Lines, l # LineOf[i]  PROVE Rings(l)'
  <2>1. SameInputs(l)
    BY <1>1, <1>3, OtherInputs
  <2>2. QED
    BY <1>0, <1>1, <1>2, <2>1, QuietRings
<1>4. ASSUME NEW l \in Lines, l = LineOf[i]  PROVE Rings(l)'
  <2>1. Attended(l)'
    BY <1>1, <1>4 DEF Attended, InChannel
  <2>2. Judgeable(l)' <=> Judgeable(l)
    BY <1>2, SameState DEF SameLine
  <2>3. QED
    BY <1>0, <1>1, <2>1, <2>2 DEF Rings
<1>5. QED
  BY <1>3, <1>4

LEMMA RemainingRings ==
  ASSUME RInv, DailyTick \/ Restart \/ UNCHANGED vars  PROVE \A l \in Lines : Rings(l)'
<1>1. UNCHANGED <<data, lineState, toValidate, kind, basis>>
  BY DEF DailyTick, Restart, vars, life
<1>2. ASSUME NEW l \in Lines  PROVE SameLine(l) /\ SameInputs(l)
  BY <1>1, UntouchedLine DEF SameInputs, data
<1>3. ASSUME NEW l \in Lines  PROVE Keeps(l)
  BY <1>3 DEF DailyTick, Restart, vars, life, Keeps, Attended, InChannel, Busy
<1>4. QED
  BY <1>1, <1>2, <1>3, ReadyInv, QuietRings

LEMMA NextRings == RInv /\ [Next]_vars => RInv'
<1> SUFFICES ASSUME RInv, [Next]_vars  PROVE RInv'
  OBVIOUS
<1>1. Inv'
  BY ReadyInv, NextInv
<1>2. \A l \in Lines : Rings(l)'
  BY BeginRings, BeginMisroutedRings, CheckRings, ConcludeRings, ValidateRings, ResolveRings,
     ExternalChangeRings, InstanceStepRings, RemainingRings DEF Next, Messages
<1>3. QED
  BY <1>1, <1>2 DEF RInv, LineRings, Rings, Wants, Attended, Recoordinate, Invalid

\* No doorbell of a line is lost: whatever the order of answers, verdicts,
\* deliveries, restarts and broken handlers, a line that wants to be
\* coordinated has a signal or is being checked, and a conclusion to judge has
\* one for the validator.
THEOREM NoDoorbellLost == Spec => []LineRings
<1>1. RInv => LineRings
  BY DEF RInv
<1>2. QED
  BY <1>1, InitRings, NextRings, PTL DEF Spec

==============================================================================
