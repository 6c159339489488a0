-------------------------- MODULE ForecastFlowProofs -------------------------
(* Theorems about ForecastFlow, for every set of instances and receivers and  *)
(* every value of the bounds.                                                 *)
EXTENDS ForecastFlow, TLAPS

Creators == {Forecast, Validator}
Records == [Instances -> Record]
EscalationSeqs == Seq(Escalation(Instances, Creators))

------------------------------------------------------------------------------
(* Types of the parts of a step *)

\* A record written for an instance keeps the records in their type.
LEMMA WriteType ==
  ASSUME NEW i \in Instances, NEW r \in Record, Write(i, r),
         rec \in Records, received \in [Instances -> BOOLEAN]
  PROVE  rec' \in Records /\ received' \in [Instances -> BOOLEAN]
BY DEF Write, Records

\* A hold is one more escalation; those before it stay as they are.
LEMMA HoldType ==
  ASSUME NEW i \in Instances, NEW creator \in Creators, NEW reason \in Reasons,
         Hold(i, creator, reason), esc \in EscalationSeqs
  PROVE  /\ esc' \in EscalationSeqs
         /\ Len(esc') = Len(esc) + 1
         /\ esc'[Len(esc) + 1] = NewEscalation(creator, reason, i)
         /\ \A k \in DOMAIN esc : esc'[k] = esc[k]
<1>1. NewEscalation(creator, reason, i) \in Escalation(Instances, Creators)
  BY DEF NewEscalation, Escalation
<1>2. QED
  BY <1>1 DEF Hold, EscalationSeqs

LEMMA UnvalidatedType ==
  ASSUME NEW r \in Record
  PROVE  /\ Unvalidated(r) \in Record
         /\ Unvalidated(r).verdict = "none" /\ Unvalidated(r).forwardTo = "none"
         /\ Unvalidated(r).sendBack = "none"
         /\ Unvalidated(r).value = r.value /\ Unvalidated(r).basis = r.basis
BY DEF Unvalidated, Record, Agents

\* The values that are decided: by the rule, a person, a deadline, or nobody.
LEMMA DecidedType ==
  ASSUME NEW r \in Record
  PROVE  /\ [Unvalidated(r) EXCEPT !.value = TRUE, !.basis = "rule"] \in Record
         /\ [Unvalidated(r) EXCEPT !.value = TRUE, !.basis = "human"] \in Record
         /\ [Unvalidated(r) EXCEPT !.basis = "expiry"] \in Record
         /\ [Unvalidated(r) EXCEPT !.value = FALSE, !.basis = "none"] \in Record
<1>1. Unvalidated(r) \in Record
  BY UnvalidatedType
<1>2. QED
  BY <1>1 DEF Record

\* Closing an escalation changes nothing else of it, and no other one.
LEMMA CloseType ==
  ASSUME esc \in EscalationSeqs, NEW k \in DOMAIN esc,
         NEW status \in {"resolved", "expired"}, NEW kind \in {"none", "value", "rerun", "dismiss"},
         esc' = [esc EXCEPT ![k] = [esc[k] EXCEPT !.status = status, !.kind = kind]]
  PROVE  /\ esc' \in EscalationSeqs /\ DOMAIN esc' = DOMAIN esc /\ Len(esc') = Len(esc)
         /\ esc'[k].status = status /\ esc'[k].kind = kind
         /\ esc'[k].inst = esc[k].inst /\ esc'[k].reason = esc[k].reason
         /\ \A j \in DOMAIN esc : j # k => esc'[j] = esc[j]
<1> USE DEF EscalationSeqs
<1>1. esc[k] \in Escalation(Instances, Creators)
  OBVIOUS
<1>2. [esc[k] EXCEPT !.status = status, !.kind = kind] \in Escalation(Instances, Creators)
  BY <1>1 DEF Escalation
<1>3. esc' \in EscalationSeqs /\ DOMAIN esc' = DOMAIN esc /\ Len(esc') = Len(esc)
  BY <1>2
<1>4. esc'[k] = [esc[k] EXCEPT !.status = status, !.kind = kind]
  OBVIOUS
<1>5. /\ esc'[k].status = status /\ esc'[k].kind = kind
      /\ esc'[k].inst = esc[k].inst /\ esc'[k].reason = esc[k].reason
  BY <1>1, <1>4 DEF Escalation
<1>6. \A j \in DOMAIN esc : j # k => esc'[j] = esc[j]
  OBVIOUS
<1>7. QED
  BY <1>3, <1>5, <1>6

\* The reasons a component holds with are in the table.
LEMMA ReasonsKnown ==
  {"selection_unresolved", "options_exhausted", "no_computable_assumption",
   "forecast_run_error", "no_next_agent", "multiple_next_agents",
   "validation_error"} \subseteq Reasons
BY DEF Reasons, BusinessReasons, SystemReasons

\* What an update leaves to be delivered is a set of instances per channel.
LEMMA NotifyType ==
  ASSUME NEW taken, Notify(taken)
  PROVE  pending' \in [Channels -> SUBSET Instances]
BY DEF Notify

\* What the forecast's handlers write is of the right type.
LEMMA HandleRecordType ==
  ASSUME TypeOK, NEW i \in Instances, HandleRecord(i)
  PROVE  /\ rec' \in Records
         /\ esc' \in EscalationSeqs /\ DOMAIN esc \subseteq DOMAIN esc'
         /\ received' \in [Instances -> BOOLEAN]
         /\ means' \in [Instances -> 0..MaxMeans]
<1> DEFINE Typed == /\ rec' \in Records
                   /\ esc' \in EscalationSeqs /\ DOMAIN esc \subseteq DOMAIN esc'
                   /\ received' \in [Instances -> BOOLEAN]
<1>0. /\ rec \in Records /\ rec[i] \in Record
      /\ esc \in EscalationSeqs
      /\ received \in [Instances -> BOOLEAN]
      /\ means \in [Instances -> 0..MaxMeans] /\ means[i] \in 0..MaxMeans
      /\ MaxMeans \in Nat
  BY FlowAssumption DEF TypeOK, Records, EscalationSeqs, Creators
<1>1. ASSUME NEW r \in Record, Write(i, r), NoHold
      PROVE  Typed
  BY <1>0, <1>1, WriteType DEF NoHold
<1>2. ASSUME NEW r \in Record, Write(i, r), NEW reason \in Reasons, Hold(i, Forecast, reason)
      PROVE  Typed
  <2>1. rec' \in Records /\ received' \in [Instances -> BOOLEAN]
    BY <1>0, <1>2, WriteType
  <2>2. esc' \in EscalationSeqs /\ Len(esc') = Len(esc) + 1
    BY <1>0, <1>2, HoldType DEF Creators
  <2>3. DOMAIN esc \subseteq DOMAIN esc'
    BY <1>0, <2>2 DEF EscalationSeqs
  <2>4. QED  BY <2>1, <2>2, <2>3
<1>3. ASSUME ValueFound(i)  PROVE Typed
  <2>1. [Unvalidated(rec[i]) EXCEPT !.value = TRUE, !.basis = "rule"] \in Record
    BY <1>0, DecidedType
  <2>2. QED  BY <1>1, <1>2, <1>3, <2>1, ReasonsKnown DEF ValueFound
<1>4. ASSUME NEW afterRerun \in BOOLEAN, NothingFound(i, afterRerun)  PROVE Typed
  <2>1. /\ Unvalidated(rec[i]) \in Record
        /\ [Unvalidated(rec[i]) EXCEPT !.value = FALSE, !.basis = "none"] \in Record
    BY <1>0, UnvalidatedType, DecidedType
  <2>2. QED  BY <1>2, <1>4, <2>1, ReasonsKnown DEF NothingFound
<1>5. ASSUME RunError(i)  PROVE Typed /\ UNCHANGED means
  <2>1. esc' \in EscalationSeqs /\ Len(esc') = Len(esc) + 1
    BY <1>0, <1>5, HoldType, ReasonsKnown DEF RunError, Creators
  <2>2. QED  BY <1>0, <1>5, <2>1 DEF RunError, EscalationSeqs
<1>6. CASE Run(i)
  <2>1. Typed  BY <1>3, <1>4, <1>5, <1>6 DEF Run
  <2>2. \/ means' = [means EXCEPT ![i] = MaxMeans]
        \/ means' = [means EXCEPT ![i] = 0]
        \/ means' = means
    BY <1>5, <1>6 DEF Run
  <2>3. means' \in [Instances -> 0..MaxMeans]  BY <1>0, <2>2
  <2>4. QED  BY <2>1, <2>3
<1>7. CASE Rerun(i)
  <2>1. Typed  BY <1>3, <1>4, <1>5, <1>7 DEF Rerun
  <2>2. \/ \E m \in 0..(means[i] - 1) : means' = [means EXCEPT ![i] = m]
        \/ means' = [means EXCEPT ![i] = 0]
        \/ means' = means
    BY <1>5, <1>7 DEF Rerun
  <2>3. means' \in [Instances -> 0..MaxMeans]
    <3>1. \A m \in 0..(means[i] - 1) : m \in 0..MaxMeans  BY <1>0
    <3>2. QED  BY <1>0, <2>2, <3>1
  <2>4. QED  BY <2>1, <2>3
<1>8. CASE SelectNextAgent(i)
  <2> DEFINE base == [rec[i] EXCEPT !.sendBack = "none", !.forwardTo = "none"]
  <2>1. base \in Record /\ \A a \in Receivers : [base EXCEPT !.forwardTo = a] \in Record
    BY <1>0 DEF Record, Agents
  <2>2. Typed  BY <1>1, <1>2, <1>8, <2>1, ReasonsKnown DEF SelectNextAgent
  <2>3. QED  BY <1>0, <1>8, <2>2 DEF SelectNextAgent
<1>9. CASE UNCHANGED <<state, received, means>>
  BY <1>0, <1>9 DEF state
<1>10. QED
  BY <1>6, <1>7, <1>8, <1>9 DEF HandleRecord

------------------------------------------------------------------------------
(* Type correctness *)

LEMMA InitTypeOK == Init => TypeOK
<1> SUFFICES ASSUME Init  PROVE TypeOK
  OBVIOUS
<1>1. NoRecord \in Record
  BY DEF NoRecord, Record, Agents
<1>2. QED
  BY <1>1, FlowAssumption DEF Init, TypeOK

\* The numbers that bounds are counted down from, one at a time.
LEMMA BudgetType ==
  ASSUME TypeOK
  PROVE  /\ budget.edits > 0 => [budget EXCEPT !.edits = @ - 1]
              \in [edits : 0..MaxCardEdits, sendBacks : 0..MaxSendBacks, restarts : 0..MaxRestarts]
         /\ budget.sendBacks > 0 => [budget EXCEPT !.sendBacks = @ - 1]
              \in [edits : 0..MaxCardEdits, sendBacks : 0..MaxSendBacks, restarts : 0..MaxRestarts]
         /\ budget.restarts > 0 => [budget EXCEPT !.restarts = @ - 1]
              \in [edits : 0..MaxCardEdits, sendBacks : 0..MaxSendBacks, restarts : 0..MaxRestarts]
BY FlowAssumption DEF TypeOK

LEMMA NextTypeOK == TypeOK /\ [Next]_vars => TypeOK'
<1> SUFFICES ASSUME TypeOK, [Next]_vars  PROVE TypeOK'
  OBVIOUS
<1> USE DEF EscalationSeqs, Creators, Records
<1>0. /\ rec \in Records /\ esc \in EscalationSeqs /\ received \in [Instances -> BOOLEAN]
      /\ means \in [Instances -> 0..MaxMeans] /\ returned \in [Instances -> SUBSET Receivers]
  BY DEF TypeOK
<1>a. ASSUME NEW k \in DOMAIN esc
      PROVE  /\ esc[k] \in Escalation(Instances, Creators)
             /\ esc[k].inst \in Instances /\ rec[esc[k].inst] \in Record
  <2>1. esc[k] \in Escalation(Instances, Creators)
    BY <1>0
  <2>2. QED  BY <1>0, <2>1 DEF Escalation
<1>1. ASSUME NEW i \in Instances, ForecastStep(i)  PROVE TypeOK'
  <2>1. /\ HandleRecord(i) /\ \E taken : Notify(taken)
        /\ UNCHANGED <<due, sentDue, returned, env>> /\ firstRun' \subseteq firstRun
    BY <1>1 DEF ForecastStep, FirstRun, HandleSignal
  <2>2. QED
    BY <1>0, <2>1, HandleRecordType, NotifyType DEF TypeOK, env
<1>2. ASSUME NEW i \in Instances, Validate(i)  PROVE TypeOK'
  <2>1. /\ rec' \in Records /\ received' \in [Instances -> BOOLEAN]
        /\ esc' \in EscalationSeqs /\ DOMAIN esc \subseteq DOMAIN esc'
    <3>1. CASE Judge(i)
      <4>1. \A v \in {"passed", "failed", "error"} : [rec[i] EXCEPT !.verdict = v] \in Record
        BY <1>0 DEF Record
      <4>2. \/ esc' = esc \/ Hold(i, Validator, "validation_error")
        BY <3>1 DEF Judge, NoHold
      <4>3. esc' \in EscalationSeqs /\ DOMAIN esc \subseteq DOMAIN esc'
        <5>1. CASE esc' = esc  BY <1>0, <5>1
        <5>2. CASE Hold(i, Validator, "validation_error")
          <6>1. Validator \in Creators /\ "validation_error" \in Reasons
            BY ReasonsKnown
          <6>2. esc' \in EscalationSeqs /\ Len(esc') = Len(esc) + 1
            BY <1>0, <5>2, <6>1, HoldType
          <6>3. QED  BY <1>0, <6>2
        <5>3. QED  BY <4>2, <5>1, <5>2
      <4>4. \E v \in {"passed", "failed", "error"} : Write(i, [rec[i] EXCEPT !.verdict = v])
        BY <3>1 DEF Judge
      <4>5. QED  BY <1>0, <4>1, <4>3, <4>4, WriteType
    <3>2. CASE UNCHANGED <<state, received>>
      BY <1>0, <3>2 DEF state
    <3>3. QED  BY <1>2, <3>1, <3>2 DEF Validate
  <2>2. returned' \in [Instances -> SUBSET Receivers]
    BY <1>0, <1>2 DEF Validate
  <2>3. UNCHANGED <<due, sentDue, firstRun, means, env>> /\ \E taken : Notify(taken)
    BY <1>2 DEF Validate
  <2>4. QED
    BY <1>0, <2>1, <2>2, <2>3, NotifyType DEF TypeOK, env
<1>3. ASSUME NEW a \in Receivers, NEW i \in Instances, Receive(a, i)  PROVE TypeOK'
  <2>1. [rec[i] EXCEPT !.sendBack = "misrouted"] \in Record
    BY <1>0 DEF Record
  <2>2. /\ rec' \in Records /\ received' \in [Instances -> BOOLEAN]
        /\ returned' \in [Instances -> SUBSET Receivers]
    <3>1. CASE /\ Write(i, [rec[i] EXCEPT !.sendBack = "misrouted"])
               /\ returned' = [returned EXCEPT ![i] = @ \cup {a}]
      BY <1>0, <2>1, <3>1, WriteType
    <3>2. CASE /\ UNCHANGED <<rec, returned>>
               /\ received' = received \/ received' = [received EXCEPT ![i] = TRUE]
      BY <1>0, <3>2
    <3>3. QED  BY <1>3, <3>1, <3>2 DEF Receive
  <2>3. UNCHANGED <<esc, due, sentDue, firstRun, means, env>> /\ \E taken : Notify(taken)
    BY <1>3 DEF Receive
  <2>4. QED
    BY <1>0, <2>2, <2>3, NotifyType DEF TypeOK, env
<1>4. ASSUME NEW a \in Receivers, NEW i \in Instances, SendBackValue(a, i)  PROVE TypeOK'
  <2>1. [rec[i] EXCEPT !.sendBack = "value"] \in Record
    BY <1>0 DEF Record
  <2>2. rec' \in Records /\ received' \in [Instances -> BOOLEAN]
    BY <1>0, <1>4, <2>1, WriteType DEF SendBackValue
  <2>3. /\ UNCHANGED <<esc, due, sentDue, firstRun, means, returned, accepting>> /\ \E taken : Notify(taken)
        /\ budget.sendBacks > 0 /\ budget' = [budget EXCEPT !.sendBacks = @ - 1]
    BY <1>4 DEF SendBackValue, NoHold
  <2>4. QED
    BY <1>0, <2>2, <2>3, NotifyType, BudgetType DEF TypeOK
<1>5. ASSUME NEW k \in DOMAIN esc, HandleDeadline(k)  PROVE TypeOK'
  <2> DEFINE i == esc[k].inst
  <2>1. [Unvalidated(rec[i]) EXCEPT !.basis = "expiry"] \in Record
    BY <1>a, DecidedType
  <2>2. esc' \in EscalationSeqs /\ DOMAIN esc' = DOMAIN esc
    <3>1. \/ esc' = esc
          \/ esc' = [esc EXCEPT ![k] = [esc[k] EXCEPT !.status = "expired", !.kind = esc[k].kind]]
      BY <1>0, <1>a, <1>5 DEF HandleDeadline, Expire, Escalation, state
    <3>2. esc[k].kind \in {"none", "value", "rerun", "dismiss"}
      BY <1>a DEF Escalation
    <3>3. QED  BY <1>0, <3>1, <3>2, CloseType
  <2>3. /\ rec' \in Records /\ received' \in [Instances -> BOOLEAN]
        /\ returned' \in [Instances -> SUBSET Receivers]
    BY <1>0, <1>a, <1>5, <2>1, WriteType DEF HandleDeadline, Expire, state
  <2>4. /\ UNCHANGED <<sentDue, firstRun, means, env>> /\ due' \subseteq due /\ \E taken : Notify(taken)
    BY <1>5 DEF HandleDeadline
  <2>5. QED
    BY <1>0, <2>2, <2>3, <2>4, NotifyType DEF TypeOK, env
<1>6. ASSUME NEW k \in DOMAIN esc, TickDeadline(k)  PROVE TypeOK'
  BY <1>6 DEF TickDeadline, TypeOK, state, env
<1>7. ASSUME NEW k \in DOMAIN esc, HumanResolve(k)  PROVE TypeOK'
  <2> DEFINE i == esc[k].inst
  <2>1. [Unvalidated(rec[i]) EXCEPT !.value = TRUE, !.basis = "human"] \in Record
    BY <1>a, DecidedType
  <2>2. esc' \in EscalationSeqs /\ DOMAIN esc' = DOMAIN esc
    <3>1. esc' = [esc EXCEPT ![k] = [esc[k] EXCEPT !.status = "resolved", !.kind = "value"]]
      BY <1>0, <1>a, <1>7 DEF HumanResolve, Escalation
    <3>2. QED  BY <1>0, <3>1, CloseType
  <2>3. /\ rec' \in Records /\ received' \in [Instances -> BOOLEAN]
        /\ returned' \in [Instances -> SUBSET Receivers]
    BY <1>0, <1>a, <1>7, <2>1, WriteType DEF HumanResolve
  <2>4. UNCHANGED <<due, sentDue, firstRun, means, env>> /\ \E taken : Notify(taken)
    BY <1>7 DEF HumanResolve
  <2>5. QED
    BY <1>0, <2>2, <2>3, <2>4, NotifyType DEF TypeOK, env
<1>8. ASSUME NEW k \in DOMAIN esc, SystemResolve(k)  PROVE TypeOK'
  <2> DEFINE i == esc[k].inst
  <2>1. [rec[i] EXCEPT !.verdict = "none"] \in Record
    BY <1>a DEF Record
  <2>2. esc' \in EscalationSeqs /\ DOMAIN esc' = DOMAIN esc
    <3>1. PICK kind \in {"rerun", "dismiss"} :
                 esc' = [esc EXCEPT ![k].status = "resolved", ![k].kind = kind]
      BY <1>8 DEF SystemResolve
    <3>2. esc' = [esc EXCEPT ![k] = [esc[k] EXCEPT !.status = "resolved", !.kind = kind]]
      BY <1>0, <1>a, <3>1 DEF Escalation
    <3>3. QED  BY <1>0, <3>2, CloseType
  <2>3. rec' \in Records /\ received' \in [Instances -> BOOLEAN]
    BY <1>0, <1>a, <1>8, <2>1, WriteType DEF SystemResolve
  <2>4. UNCHANGED <<due, sentDue, firstRun, means, returned, env>> /\ \E taken : Notify(taken)
    BY <1>8 DEF SystemResolve
  <2>5. QED
    BY <1>0, <2>2, <2>3, <2>4, NotifyType DEF TypeOK, env
<1>9. ASSUME NEW a \in Receivers, EditCard(a)  PROVE TypeOK'
  <2>1. /\ accepting' \subseteq Receivers
        /\ UNCHANGED <<rec, esc, pending, due, sentDue, firstRun, means, returned, received>>
        /\ budget.edits > 0 /\ budget' = [budget EXCEPT !.edits = @ - 1]
    BY <1>9 DEF EditCard, TypeOK, state
  <2>2. QED  BY <2>1, BudgetType DEF TypeOK
<1>10. ASSUME Restart  PROVE TypeOK'
  <2>1. means' \in [Instances -> 0..MaxMeans]
    BY <1>10, FlowAssumption DEF Restart
  <2>2. QED  BY <1>10, <2>1, BudgetType DEF Restart, TypeOK, state
<1>11. CASE UNCHANGED vars
  BY <1>11 DEF vars, state, env, TypeOK
<1>12. QED
  BY <1>1, <1>2, <1>3, <1>4, <1>5, <1>6, <1>7, <1>8, <1>9, <1>10, <1>11 DEF Next

\* The State, the channels and the tasks' memory hold only what they should,
\* for every number of instances and receivers.
THEOREM TypeCorrect == Spec => []TypeOK
<1>1. Init => TypeOK
  BY InitTypeOK
<1>2. TypeOK /\ [Next]_vars => TypeOK'
  BY NextTypeOK
<1>3. QED
  BY <1>1, <1>2, PTL DEF Spec

------------------------------------------------------------------------------
(* The inductive invariant *)

\* The state of a record that nothing holds.
Unheld(r) == ComputeRecordState(r, {}, FALSE, TRUE)

\* Nobody but forecast has anything to do for the record.
AtRest(r) == Unheld(r) \notin {"awaiting_validation", "forwarded"}

RecordFine(r, returners) ==
  /\ r.forwardTo # "none" => Passed(r) /\ r.value
  /\ IsExemptPassed(r) => r.verdict = "none"
  /\ r.forwardTo # "none" /\ r.sendBack = "none" => r.forwardTo \notin returners

\* What an open escalation says of the record it holds.
HoldFits(reason, r) ==
  /\ reason \in ProceedWithValue => r.value /\ r.verdict = "none"
  /\ reason \in ProceedWithoutDemand => ~r.value
  /\ reason = "validation_error" => r.verdict = "error"
  /\ reason \in {"no_next_agent", "multiple_next_agents"} => Passed(r)
  /\ r.forwardTo # "none" => r.sendBack = "value"
  /\ TargetRole(reason) = "system_operator" => AtRest(r)
  /\ reason = "selection_unresolved" => r.basis # "human"

Open(k, i) == k \in DOMAIN esc /\ esc[k].inst = i /\ esc[k].status = "open"

Inv ==
  /\ TypeOK
  /\ OneOpenHold
  /\ \A k \in DOMAIN esc : esc[k].status = "open" => HoldFits(esc[k].reason, rec[esc[k].inst])
  /\ \A i \in Instances : RecordFine(rec[i], returned[i])
  /\ \A i \in Instances : received[i] => ~Held(i) /\ Unheld(rec[i]) = "forwarded"
  /\ \A i \in Instances : Dismissed(i) => ~Held(i) /\ AtRest(rec[i])

------------------------------------------------------------------------------
(* What the State says of an instance *)

LEMMA HeldIsOpen ==
  ASSUME NEW i
  PROVE  Held(i) <=> \E k : Open(k, i)
BY DEF Held, OpenTargets, Open

LEMMA StateUnheld ==
  ASSUME NEW i, ~Held(i)
  PROVE  State(i) = Unheld(rec[i])
BY DEF Held, State, Unheld

LEMMA StateHeld ==
  ASSUME NEW i, Held(i)
  PROVE  State(i) \in HoldStates
<1>1. \A reason : TargetRole(reason) \in {"human_manager", "system_operator"}
  BY DEF TargetRole
<1>2. "human_manager" \in OpenTargets(esc, i) \/ "system_operator" \in OpenTargets(esc, i)
  BY <1>1 DEF Held, OpenTargets
<1>3. QED
  BY <1>2 DEF State, ComputeRecordState, HoldStates

\* A state that is no hold is the record's own.
LEMMA StateFree ==
  ASSUME NEW i, State(i) \notin HoldStates
  PROVE  ~Held(i) /\ State(i) = Unheld(rec[i])
BY StateHeld, StateUnheld

LEMMA Unvalued ==
  ASSUME NEW r \in Record
  PROVE  /\ Unheld(r) \notin HoldStates
         /\ Unheld(r) = "none" => ~IsExemptPassed(r) /\ r.verdict = "none" /\ ~r.value /\ r.sendBack = "none"
         /\ Unheld(r) = "awaiting_validation" => ~IsExemptPassed(r) /\ r.verdict = "none" /\ r.value /\ r.sendBack = "none"
         /\ Unheld(r) = "judged" => r.sendBack = "none" /\ ~(Passed(r) /\ r.forwardTo # "none")
         /\ Unheld(r) = "sent_back" <=> r.sendBack # "none"
         /\ Unheld(r) = "forwarded" <=> r.sendBack = "none" /\ Passed(r) /\ r.forwardTo # "none"
BY DEF Unheld, ComputeRecordState, HoldStates, Passed, IsExemptPassed, Record

------------------------------------------------------------------------------
(* Every step is of one of four kinds *)

\* Of the records, only that of i may have changed, to one that fits.
OnlyWrites(i) ==
  /\ \A j \in Instances \ {i} :
       rec'[j] = rec[j] /\ received'[j] = received[j] /\ returned'[j] = returned[j]
  /\ ~received'[i]
  /\ RecordFine(rec'[i], returned'[i])
  /\ rec[i].basis = "human" /\ rec'[i].basis # "human"
       => rec[i].sendBack = "value" \/ \E k : Open(k, i) /\ esc[k].reason = "options_exhausted"

Idle ==
  /\ UNCHANGED <<rec, esc, returned>>
  /\ \A i \in Instances : received'[i] => received[i] \/ State(i) = "forwarded"

Worked(i) == ~Held(i) /\ ~Dismissed(i) /\ OnlyWrites(i) /\ esc' = esc

Stopped(i) ==
  /\ ~Held(i) /\ ~Dismissed(i) /\ OnlyWrites(i)
  /\ \E creator \in Creators, reason \in Reasons :
       Hold(i, creator, reason) /\ HoldFits(reason, rec'[i])

ClosedAs(k, status, kind) ==
  esc' = [esc EXCEPT ![k] = [esc[k] EXCEPT !.status = status, !.kind = kind]]

Decided(k) ==
  /\ esc[k].status = "open" /\ OnlyWrites(esc[k].inst)
  /\ \E status \in {"resolved", "expired"}, kind \in {"none", "value", "rerun", "dismiss"} :
       /\ ClosedAs(k, status, kind)
       /\ status = "resolved" /\ kind = "dismiss" => AtRest(rec'[esc[k].inst])

\* A write that takes the hold's or the validator's place: nothing handed on.
LEMMA WrittenFine ==
  ASSUME TypeOK, NEW i \in Instances, NEW r \in Record, Write(i, r),
         \A j \in Instances \ {i} : returned'[j] = returned[j],
         rec[i].basis # "human" \/ r.basis = rec[i].basis \/ rec[i].sendBack = "value",
         RecordFine(r, returned'[i])
  PROVE  OnlyWrites(i) /\ rec'[i] = r
<1>1. rec \in Records /\ received \in [Instances -> BOOLEAN]
  BY DEF TypeOK, Records
<1>2. rec' = [rec EXCEPT ![i] = r] /\ received' = [received EXCEPT ![i] = FALSE]
  BY DEF Write
<1>3. QED
  BY <1>1, <1>2 DEF OnlyWrites, Records

\* What the forecast's handlers do: one of three kinds.
LEMMA HandleRecordKind ==
  ASSUME Inv, NEW i \in Instances, HandleRecord(i), returned' = returned
  PROVE  Idle \/ Worked(i) \/ Stopped(i)
<1>0. /\ TypeOK /\ rec[i] \in Record
      /\ RecordFine(rec[i], returned[i])
      /\ received[i] => ~Held(i) /\ Unheld(rec[i]) = "forwarded"
      /\ received \in [Instances -> BOOLEAN]
  BY DEF Inv, TypeOK
<1>1. CASE ~NeedsRun(i) /\ ~NeedsSelection(i) /\ ~NeedsRerun(i)
  BY <1>1, <1>0 DEF HandleRecord, state, Idle
<1>2. ASSUME NeedsRun(i) \/ NeedsSelection(i) \/ NeedsRerun(i)
      PROVE  ~Held(i) /\ ~Dismissed(i) /\ State(i) = Unheld(rec[i]) /\ ~received[i]
  <2>1. ~Dismissed(i) /\ State(i) \in {"none", "judged", "sent_back"}
    BY <1>2 DEF NeedsRun, NeedsSelection, NeedsRerun
  <2>2. QED
    BY <2>1, <1>0, StateFree DEF HoldStates
<1>3. ASSUME NeedsRun(i) \/ NeedsRerun(i)
      PROVE  /\ rec[i].basis # "human" \/ rec[i].sendBack = "value"
             /\ AtRest(rec[i])
             /\ rec[i].forwardTo # "none" => rec[i].sendBack = "value"
  <2>1. State(i) = Unheld(rec[i])
    BY <1>2, <1>3
  <2>2. CASE NeedsRun(i)
    <3>1. Unheld(rec[i]) = "none"  BY <2>1, <2>2 DEF NeedsRun
    <3>2. ~IsExemptPassed(rec[i]) /\ rec[i].verdict = "none"  BY <1>0, <3>1, Unvalued
    <3>3. QED
      BY <1>0, <3>1, <3>2 DEF AtRest, RecordFine, Passed, IsExemptPassed
  <2>3. CASE NeedsRerun(i)
    <3>1. \/ Unheld(rec[i]) = "sent_back" /\ rec[i].sendBack = "value"
          \/ Unheld(rec[i]) = "judged" /\ ~Passed(rec[i])
      BY <2>1, <2>3 DEF NeedsRerun
    <3>2. QED
      BY <1>0, <3>1 DEF AtRest, RecordFine, Passed, IsExemptPassed
  <2>4. QED  BY <1>3, <2>2, <2>3
<1>4. ASSUME NeedsRun(i) \/ NeedsRerun(i), ValueFound(i)
      PROVE  Worked(i) \/ Stopped(i)
  <2> DEFINE u == Unvalidated(rec[i])
  <2> DEFINE r == [u EXCEPT !.value = TRUE, !.basis = "rule"]
  <2>1. /\ r \in Record /\ r.value /\ r.basis = "rule" /\ r.verdict = "none"
        /\ r.forwardTo = "none" /\ r.sendBack = "none"
    <3>1. u \in Record /\ u.verdict = "none" /\ u.forwardTo = "none" /\ u.sendBack = "none"
      BY <1>0, UnvalidatedType
    <3> HIDE DEF u
    <3>2. QED  BY <3>1 DEF Record
  <2>2. RecordFine(r, returned[i])
    BY <2>1 DEF RecordFine, IsExemptPassed
  <2>3. OnlyWrites(i) /\ rec'[i] = r
    BY <1>0, <1>3, <1>4, <2>1, <2>2, WrittenFine DEF ValueFound
  <2>4. HoldFits("selection_unresolved", r)
    BY <2>1 DEF HoldFits, ProceedWithoutDemand, TargetRole, BusinessReasons
  <2>5. NoHold \/ Hold(i, Forecast, "selection_unresolved")
    BY <1>4 DEF ValueFound
  <2>6. QED
    BY <1>2, <1>4, <2>3, <2>4, <2>5, ReasonsKnown DEF NoHold, Worked, Stopped, Creators
<1>5. ASSUME NeedsRun(i) \/ NeedsRerun(i), NEW afterRerun \in BOOLEAN, NothingFound(i, afterRerun)
      PROVE  Stopped(i)
  <2>1. PICK r \in Record, reason \in {"options_exhausted", "no_computable_assumption"} :
          /\ Write(i, r) /\ Hold(i, Forecast, reason)
          /\ r.verdict = "none" /\ r.forwardTo = "none" /\ r.sendBack = "none"
          /\ IF reason = "options_exhausted" THEN r.value ELSE ~r.value
    <3> DEFINE u == Unvalidated(rec[i])
    <3> DEFINE e == [u EXCEPT !.value = FALSE, !.basis = "none"]
    <3>1. /\ u \in Record /\ u.verdict = "none" /\ u.forwardTo = "none" /\ u.sendBack = "none"
          /\ u.value = rec[i].value
      BY <1>0, UnvalidatedType
    <3>2. /\ e \in Record /\ e.verdict = "none" /\ e.forwardTo = "none" /\ e.sendBack = "none"
          /\ ~e.value
      BY <3>1 DEF Record
    <3>3. \/ rec[i].value /\ Write(i, u) /\ Hold(i, Forecast, "options_exhausted")
          \/ Write(i, e) /\ Hold(i, Forecast, "no_computable_assumption")
      BY <1>5 DEF NothingFound
    <3> HIDE DEF u, e
    <3>4. QED  BY <3>1, <3>2, <3>3
  <2>2. RecordFine(r, returned[i])
    BY <2>1 DEF RecordFine
  <2>3. OnlyWrites(i) /\ rec'[i] = r
    BY <1>0, <1>3, <1>5, <2>1, <2>2, WrittenFine
  <2>4. HoldFits(reason, r)
    BY <2>1 DEF HoldFits, ProceedWithoutDemand, ProceedWithValue, TargetRole, BusinessReasons
  <2>5. QED
    BY <1>2, <1>5, <2>1, <2>3, <2>4, ReasonsKnown DEF Stopped, Creators
<1>6. ASSUME NeedsRun(i) \/ NeedsRerun(i), RunError(i)
      PROVE  Stopped(i)
  <2>1. HoldFits("forecast_run_error", rec[i])
    BY <1>3, <1>6 DEF HoldFits, ProceedWithoutDemand, ProceedWithValue
  <2>2. rec' = rec /\ received' = received /\ Hold(i, Forecast, "forecast_run_error")
    BY <1>6 DEF RunError
  <2>3. OnlyWrites(i)
    BY <1>0, <1>2, <1>6, <2>2 DEF OnlyWrites
  <2>4. QED
    BY <1>2, <1>6, <2>1, <2>2, <2>3, ReasonsKnown DEF Stopped, Creators
<1>7. ASSUME NeedsSelection(i), SelectNextAgent(i)
      PROVE  Worked(i) \/ Stopped(i)
  <2> DEFINE base == [rec[i] EXCEPT !.sendBack = "none", !.forwardTo = "none"]
  <2>1. /\ base \in Record /\ Passed(base) /\ base.forwardTo = "none" /\ base.sendBack = "none"
        /\ base.basis = rec[i].basis /\ base.verdict = rec[i].verdict /\ base.value
    BY <1>0, <1>7 DEF NeedsSelection, Record, Agents, Passed, IsExemptPassed
  <2> HIDE DEF base
  <2>2. returned' = returned /\ (IsExemptPassed(base) => base.verdict = "none")
    BY <1>0, <2>1 DEF RecordFine, IsExemptPassed
  <2>3. ASSUME NEW a \in Receivers, Candidates(i) = {a},
               Write(i, [base EXCEPT !.forwardTo = a]), NoHold
        PROVE  Worked(i)
    <3> DEFINE r == [base EXCEPT !.forwardTo = a]
    <3>1. /\ r \in Record /\ Passed(r) /\ r.value /\ r.forwardTo = a
          /\ r.basis = base.basis /\ r.verdict = base.verdict
      BY <2>1 DEF Record, Agents, Passed, IsExemptPassed
    <3>2. a \notin returned[i]
      BY <2>3 DEF Candidates
    <3> HIDE DEF r
    <3>3. RecordFine(r, returned[i])
      BY <2>2, <3>1, <3>2 DEF RecordFine, IsExemptPassed
    <3>4. OnlyWrites(i)
      BY <1>0, <2>1, <2>2, <2>3, <3>1, <3>3, WrittenFine DEF r
    <3>5. QED
      BY <1>2, <1>7, <2>3, <3>4 DEF NoHold, Worked
  <2>4. ASSUME NEW reason \in {"no_next_agent", "multiple_next_agents"},
               Write(i, base), Hold(i, Forecast, reason)
        PROVE  Stopped(i)
    <3>1. RecordFine(base, returned[i])
      BY <2>1, <2>2 DEF RecordFine
    <3>2. OnlyWrites(i) /\ rec'[i] = base
      BY <1>0, <2>1, <2>2, <2>4, <3>1, WrittenFine
    <3>3. AtRest(base)
      BY <2>1, Unvalued DEF AtRest, Passed
    <3>4. HoldFits(reason, base)
      BY <2>1, <2>4, <3>3 DEF HoldFits, ProceedWithValue, ProceedWithoutDemand
    <3>5. QED
      BY <1>2, <1>7, <2>4, <3>2, <3>4, ReasonsKnown DEF Stopped, Creators
  <2>5. QED
    BY <1>7, <2>3, <2>4 DEF SelectNextAgent, base
<1>8. QED
  BY <1>1, <1>4, <1>5, <1>6, <1>7 DEF HandleRecord, Run, Rerun

LEMMA ValidateKind ==
  ASSUME Inv, NEW i \in Instances, Validate(i)
  PROVE  Idle \/ Worked(i) \/ Stopped(i)
<1>0. /\ TypeOK /\ rec[i] \in Record /\ returned \in [Instances -> SUBSET Receivers]
      /\ RecordFine(rec[i], returned[i])
      /\ Dismissed(i) => AtRest(rec[i])
  BY DEF Inv, TypeOK
<1>1. CASE UNCHANGED <<state, received, returned>>
  BY <1>1 DEF state, Idle
<1>2. CASE /\ State(i) = "awaiting_validation" /\ Judge(i)
           /\ returned' = [returned EXCEPT ![i] = {}]
  <2>1. ~Held(i) /\ ~Dismissed(i) /\ Unheld(rec[i]) = "awaiting_validation"
    BY <1>0, <1>2, StateFree DEF HoldStates, AtRest
  <2>2. ~IsExemptPassed(rec[i]) /\ rec[i].forwardTo = "none" /\ rec[i].sendBack = "none" /\ rec[i].value
    BY <1>0, <2>1, Unvalued DEF RecordFine, Passed
  <2>3. ASSUME NEW v \in {"passed", "failed", "error"}, Write(i, [rec[i] EXCEPT !.verdict = v])
        PROVE  OnlyWrites(i) /\ rec'[i] = [rec[i] EXCEPT !.verdict = v]
    <3> DEFINE r == [rec[i] EXCEPT !.verdict = v]
    <3>1. r \in Record /\ r.forwardTo = "none" /\ r.basis = rec[i].basis
      BY <1>0, <2>2 DEF Record
    <3> HIDE DEF r
    <3>2. RecordFine(r, returned'[i])
      BY <2>2, <3>1 DEF RecordFine, IsExemptPassed
    <3>3. \A j \in Instances \ {i} : returned'[j] = returned[j]
      BY <1>0, <1>2
    <3>4. QED
      BY <1>0, <2>3, <3>1, <3>2, <3>3, WrittenFine DEF r
  <2>4. CASE \E v \in {"passed", "failed"} : Write(i, [rec[i] EXCEPT !.verdict = v]) /\ NoHold
    BY <2>1, <2>3, <2>4 DEF NoHold, Worked
  <2>5. CASE Write(i, [rec[i] EXCEPT !.verdict = "error"]) /\ Hold(i, Validator, "validation_error")
    <3>1. OnlyWrites(i) /\ rec'[i] = [rec[i] EXCEPT !.verdict = "error"]
      BY <2>3, <2>5
    <3>2. /\ rec'[i].verdict = "error" /\ rec'[i].forwardTo = "none" /\ rec'[i].sendBack = "none"
          /\ ~IsExemptPassed(rec'[i]) /\ rec'[i] \in Record
      BY <1>0, <2>2, <3>1 DEF IsExemptPassed, Record
    <3>3. AtRest(rec'[i])
      BY <3>2, Unvalued DEF AtRest, Passed
    <3>4. HoldFits("validation_error", rec'[i])
      BY <3>2, <3>3 DEF HoldFits, ProceedWithValue, ProceedWithoutDemand
    <3>5. QED
      BY <2>1, <2>5, <3>1, <3>4, ReasonsKnown DEF Stopped, Creators
  <2>6. QED
    BY <1>2, <2>4, <2>5 DEF Judge
<1>3. QED
  BY <1>1, <1>2 DEF Validate

LEMMA ReceiverKind ==
  ASSUME Inv, NEW a \in Receivers, NEW i \in Instances, Receive(a, i) \/ SendBackValue(a, i)
  PROVE  Idle \/ Worked(i)
<1>0. /\ TypeOK /\ rec[i] \in Record /\ returned \in [Instances -> SUBSET Receivers]
      /\ RecordFine(rec[i], returned[i])
      /\ received \in [Instances -> BOOLEAN]
      /\ Dismissed(i) => AtRest(rec[i])
  BY DEF Inv, TypeOK
<1>1. CASE UNCHANGED <<rec, esc, received, returned>>
  BY <1>1 DEF Idle
<1>2. CASE /\ State(i) = "forwarded" /\ received' = [received EXCEPT ![i] = TRUE]
           /\ UNCHANGED <<rec, esc, returned>>
  BY <1>0, <1>2 DEF Idle
<1>3. ASSUME State(i) = "forwarded", UNCHANGED esc, NEW cause \in {"misrouted", "value"},
             Write(i, [rec[i] EXCEPT !.sendBack = cause]),
             \A j \in Instances \ {i} : returned'[j] = returned[j]
      PROVE  Worked(i)
  <2> DEFINE r == [rec[i] EXCEPT !.sendBack = cause]
  <2>1. ~Held(i) /\ ~Dismissed(i)
    BY <1>0, <1>3, StateFree DEF HoldStates, AtRest
  <2>2. /\ r \in Record /\ r.sendBack # "none" /\ r.forwardTo = rec[i].forwardTo
        /\ r.basis = rec[i].basis /\ r.verdict = rec[i].verdict /\ r.value = rec[i].value
    BY <1>0 DEF Record
  <2> HIDE DEF r
  <2>3. RecordFine(r, returned'[i])
    BY <1>0, <2>2 DEF RecordFine, Passed, IsExemptPassed
  <2>4. OnlyWrites(i)
    BY <1>0, <1>3, <2>2, <2>3, WrittenFine DEF r
  <2>5. QED
    BY <1>3, <2>1, <2>4 DEF Worked
<1>4. CASE Receive(a, i)
  <2>1. CASE /\ State(i) = "forwarded" /\ UNCHANGED esc
             /\ Write(i, [rec[i] EXCEPT !.sendBack = "misrouted"])
             /\ returned' = [returned EXCEPT ![i] = @ \cup {a}]
    <3>1. \A j \in Instances \ {i} : returned'[j] = returned[j]
      BY <1>0, <2>1
    <3>2. QED  BY <1>3, <2>1, <3>1
  <2>2. QED
    BY <1>1, <1>2, <1>4, <2>1 DEF Receive
<1>5. CASE SendBackValue(a, i)
  <2>1. returned' = returned /\ UNCHANGED esc /\ State(i) = "forwarded"
        /\ Write(i, [rec[i] EXCEPT !.sendBack = "value"])
    BY <1>5 DEF SendBackValue, NoHold
  <2>2. QED  BY <1>3, <2>1
<1>6. QED
  BY <1>4, <1>5

LEMMA CloserKind ==
  ASSUME Inv, NEW k \in DOMAIN esc, HandleDeadline(k) \/ HumanResolve(k) \/ SystemResolve(k)
  PROVE  Idle \/ Decided(k)
<1> DEFINE i == esc[k].inst
<1>0. /\ TypeOK /\ esc[k] \in Escalation(Instances, Creators)
      /\ i \in Instances /\ rec[i] \in Record /\ returned \in [Instances -> SUBSET Receivers]
      /\ RecordFine(rec[i], returned[i])
      /\ esc[k].status = "open" => HoldFits(esc[k].reason, rec[i])
      /\ esc[k].status = "open" => Held(i) /\ ~received[i]
      /\ esc \in EscalationSeqs
  <2>1. TypeOK /\ esc \in EscalationSeqs /\ esc[k] \in Escalation(Instances, Creators)
    BY DEF Inv, TypeOK, EscalationSeqs, Creators
  <2>2. i \in Instances /\ rec[i] \in Record /\ returned \in [Instances -> SUBSET Receivers]
    BY <2>1 DEF TypeOK, Escalation
  <2>3. esc[k].status = "open" => Held(i)
    BY HeldIsOpen DEF Open
  <2>4. QED
    BY <2>1, <2>2, <2>3 DEF Inv
<1>1. ASSUME esc[k].status = "open", NEW r \in Record, Write(i, r),
             returned' = [returned EXCEPT ![i] = {}] \/ returned' = returned,
             r.basis = rec[i].basis \/ r.basis = "human" \/ esc[k].reason \in ProceedWithValue,
             r.forwardTo = "none", r.verdict = "none"
      PROVE  OnlyWrites(i) /\ rec'[i] = r
  <2>1. /\ \A j \in Instances \ {i} : rec'[j] = rec[j] /\ received'[j] = received[j] /\ returned'[j] = returned[j]
        /\ rec'[i] = r /\ ~received'[i]
    BY <1>0, <1>1 DEF Write, TypeOK
  <2>2. RecordFine(r, returned'[i])
    BY <1>1 DEF RecordFine
  <2>3. rec[i].basis = "human" /\ r.basis # "human" => esc[k].reason = "options_exhausted"
    BY <1>0, <1>1 DEF HoldFits, ProceedWithValue
  <2>4. QED
    BY <1>0, <1>1, <2>1, <2>2, <2>3 DEF OnlyWrites, Open
<1>2. ASSUME esc[k].status = "open", UNCHANGED <<rec, received, returned>>
      PROVE  OnlyWrites(i)
  BY <1>0, <1>2 DEF OnlyWrites
<1>3. CASE HandleDeadline(k)
  <2>1. CASE UNCHANGED <<state, received, returned>>
    BY <2>1 DEF state, Idle
  <2>2. CASE Expirable(k) /\ Expire(k)
    <3>1. esc[k].status = "open" /\ ClosedAs(k, "expired", esc[k].kind)
      BY <1>0, <2>2 DEF Expirable, Expire, ClosedAs, EscalationSeqs, Escalation
    <3>2. OnlyWrites(i)
      <4>1. CASE /\ esc[k].reason \in ProceedWithValue
                 /\ Write(i, [Unvalidated(rec[i]) EXCEPT !.basis = "expiry"])
                 /\ returned' = [returned EXCEPT ![i] = {}]
        <5> DEFINE u == Unvalidated(rec[i])
        <5> DEFINE r == [u EXCEPT !.basis = "expiry"]
        <5>1. u \in Record /\ u.verdict = "none" /\ u.forwardTo = "none"
          BY <1>0, UnvalidatedType
        <5> HIDE DEF u
        <5>2. r \in Record /\ r.verdict = "none" /\ r.forwardTo = "none"
          BY <5>1 DEF Record
        <5> HIDE DEF r
        <5>3. QED  BY <1>1, <3>1, <4>1, <5>2 DEF r, u
      <4>2. QED  BY <1>2, <2>2, <3>1, <4>1 DEF Expire
    <3>3. esc[k].kind \in {"none", "value", "rerun", "dismiss"}
      BY <1>0 DEF Escalation
    <3>4. QED  BY <3>1, <3>2, <3>3 DEF Decided
  <2>3. QED  BY <1>3, <2>1, <2>2 DEF HandleDeadline
<1>4. CASE HumanResolve(k)
  <2>1. esc[k].status = "open" /\ ClosedAs(k, "resolved", "value")
    BY <1>0, <1>4 DEF HumanResolve, ClosedAs, EscalationSeqs, Escalation
  <2>2. OnlyWrites(i)
    <3> DEFINE u == Unvalidated(rec[i])
    <3> DEFINE r == [u EXCEPT !.value = TRUE, !.basis = "human"]
    <3>1. u \in Record /\ u.verdict = "none" /\ u.forwardTo = "none"
      BY <1>0, UnvalidatedType
    <3> HIDE DEF u
    <3>2. r \in Record /\ r.verdict = "none" /\ r.forwardTo = "none" /\ r.basis = "human"
      BY <3>1 DEF Record
    <3>3. Write(i, r) /\ returned' = [returned EXCEPT ![i] = {}]
      BY <1>4 DEF HumanResolve, u
    <3> HIDE DEF r
    <3>4. QED  BY <1>1, <2>1, <3>2, <3>3
  <2>3. QED  BY <2>1, <2>2 DEF Decided
<1>5. CASE SystemResolve(k)
  <2>1. PICK kind \in {"rerun", "dismiss"} :
          /\ esc[k].status = "open" /\ TargetRole(esc[k].reason) = "system_operator"
          /\ esc' = [esc EXCEPT ![k].status = "resolved", ![k].kind = kind]
          /\ returned' = returned
          /\ \/ /\ kind = "rerun" /\ esc[k].reason = "validation_error"
                /\ Write(i, [rec[i] EXCEPT !.verdict = "none"])
             \/ UNCHANGED <<rec, received>>
    BY <1>5 DEF SystemResolve
  <2>2. ClosedAs(k, "resolved", kind)
    BY <1>0, <2>1 DEF ClosedAs, EscalationSeqs, Escalation
  <2>3. HoldFits(esc[k].reason, rec[i])
    BY <1>0, <2>1
  <2>4. CASE /\ kind = "rerun" /\ esc[k].reason = "validation_error"
             /\ Write(i, [rec[i] EXCEPT !.verdict = "none"])
    <3> DEFINE r == [rec[i] EXCEPT !.verdict = "none"]
    <3>1. r \in Record /\ r.verdict = "none" /\ r.basis = rec[i].basis /\ r.forwardTo = rec[i].forwardTo
      BY <1>0 DEF Record
    <3>2. rec[i].forwardTo = "none"
      BY <1>0, <2>3, <2>4 DEF HoldFits, RecordFine, Passed
    <3> HIDE DEF r
    <3>3. OnlyWrites(i)
      BY <1>1, <2>1, <2>4, <3>1, <3>2 DEF r
    <3>4. QED  BY <2>1, <2>2, <2>4, <3>3 DEF Decided
  <2>5. CASE UNCHANGED <<rec, received>>
    <3>1. OnlyWrites(i)
      BY <1>2, <2>1, <2>5
    <3>2. AtRest(rec'[i])
      BY <2>1, <2>3, <2>5 DEF HoldFits
    <3>3. QED  BY <2>1, <2>2, <3>1, <3>2 DEF Decided
  <2>6. QED  BY <2>1, <2>4, <2>5
<1>6. QED
  BY <1>3, <1>4, <1>5

LEMMA StepKinds ==
  ASSUME Inv, [Next]_vars
  PROVE  \/ Idle
         \/ \E i \in Instances : Worked(i) \/ Stopped(i)
         \/ \E k \in DOMAIN esc : Decided(k)
<1>1. ASSUME NEW i \in Instances, ForecastStep(i)
      PROVE  Idle \/ Worked(i) \/ Stopped(i)
  <2>1. HandleRecord(i) /\ returned' = returned
    BY <1>1 DEF ForecastStep, FirstRun, HandleSignal
  <2>2. QED  BY <2>1, HandleRecordKind
<1>2. ASSUME NEW k \in DOMAIN esc, TickDeadline(k)  PROVE Idle
  BY <1>2 DEF TickDeadline, state, Idle
<1>3. ASSUME NEW a \in Receivers, EditCard(a)  PROVE Idle
  BY <1>3 DEF EditCard, state, Idle
<1>4. CASE Restart
  BY <1>4 DEF Restart, state, Idle
<1>5. CASE UNCHANGED vars
  BY <1>5 DEF vars, state, Idle
<1>6. QED
  BY <1>1, <1>2, <1>3, <1>4, <1>5, ValidateKind, ReceiverKind, CloserKind DEF Next

------------------------------------------------------------------------------
(* What a hold and its end change *)

LEMMA EscTyped ==
  ASSUME TypeOK
  PROVE  /\ esc \in EscalationSeqs
         /\ \A k \in DOMAIN esc : /\ esc[k] \in Escalation(Instances, Creators)
                                  /\ esc[k].inst \in Instances
<1>1. esc \in EscalationSeqs
  BY DEF TypeOK, EscalationSeqs, Creators
<1>2. \A k \in DOMAIN esc : esc[k] \in Escalation(Instances, Creators)
  BY <1>1 DEF EscalationSeqs
<1>3. QED
  BY <1>1, <1>2 DEF Escalation

LEMMA HoldEffect ==
  ASSUME TypeOK, NEW i \in Instances, NEW creator \in Creators, NEW reason \in Reasons,
         Hold(i, creator, reason)
  PROVE  /\ DOMAIN esc' = DOMAIN esc \cup {Len(esc) + 1} /\ Len(esc) + 1 \notin DOMAIN esc
         /\ \A k \in DOMAIN esc : esc'[k] = esc[k]
         /\ esc'[Len(esc) + 1].inst = i /\ esc'[Len(esc) + 1].status = "open"
         /\ esc'[Len(esc) + 1].reason = reason
         /\ \A j : j # i => (Held(j)' <=> Held(j))
         /\ \A j : Dismissed(j)' <=> Dismissed(j)
<1> DEFINE n == Len(esc) + 1
<1>1. /\ esc \in EscalationSeqs /\ esc' \in EscalationSeqs /\ Len(esc') = n
      /\ esc'[n] = NewEscalation(creator, reason, i)
      /\ \A k \in DOMAIN esc : esc'[k] = esc[k]
  BY HoldType, EscTyped
<1>2. DOMAIN esc' = DOMAIN esc \cup {n} /\ n \notin DOMAIN esc
  BY <1>1 DEF EscalationSeqs
<1>3. esc'[n].inst = i /\ esc'[n].status = "open" /\ esc'[n].reason = reason /\ esc'[n].kind = "none"
  BY <1>1 DEF NewEscalation
<1> HIDE DEF n
<1>4. ASSUME NEW j, j # i  PROVE Held(j)' <=> Held(j)
  <2>1. Held(j)' <=> \E k \in DOMAIN esc' : esc'[k].inst = j /\ esc'[k].status = "open"
    BY DEF Held, OpenTargets
  <2>2. Held(j) <=> \E k \in DOMAIN esc : esc[k].inst = j /\ esc[k].status = "open"
    BY DEF Held, OpenTargets
  <2>3. QED  BY <1>1, <1>2, <1>3, <1>4, <2>1, <2>2
<1>5. ASSUME NEW j  PROVE Dismissed(j)' <=> Dismissed(j)
  BY <1>1, <1>2, <1>3 DEF Dismissed, IsDismissed
<1>6. QED
  BY <1>1, <1>2, <1>3, <1>4, <1>5 DEF n

LEMMA CloseEffect ==
  ASSUME TypeOK, OneOpenHold, NEW k \in DOMAIN esc, esc[k].status = "open",
         NEW status \in {"resolved", "expired"}, NEW kind \in {"none", "value", "rerun", "dismiss"},
         ClosedAs(k, status, kind)
  PROVE  /\ DOMAIN esc' = DOMAIN esc /\ esc'[k].status # "open"
         /\ \A j \in DOMAIN esc : j # k => esc'[j] = esc[j]
         /\ \A j : j = esc[k].inst => ~Held(j)'
         /\ \A j : j # esc[k].inst => (Held(j)' <=> Held(j))
         /\ \A j : Dismissed(j)' => \/ Dismissed(j)
                                  \/ (j = esc[k].inst /\ status = "resolved" /\ kind = "dismiss")
<1>1. /\ DOMAIN esc' = DOMAIN esc /\ esc'[k].status = status /\ esc'[k].kind = kind
      /\ esc'[k].inst = esc[k].inst
      /\ \A j \in DOMAIN esc : j # k => esc'[j] = esc[j]
  BY EscTyped, CloseType DEF ClosedAs
<1>2. status # "open"
  OBVIOUS
<1>3. ASSUME NEW j, j = esc[k].inst  PROVE ~Held(j)'
  <2>1. \A m \in DOMAIN esc' : ~(esc'[m].inst = j /\ esc'[m].status = "open")
    BY <1>1, <1>2, <1>3 DEF OneOpenHold
  <2>2. Held(j)' => \E m \in DOMAIN esc' : esc'[m].inst = j /\ esc'[m].status = "open"
    BY DEF Held, OpenTargets
  <2>3. QED  BY <2>1, <2>2
<1>5. ASSUME NEW j, j # esc[k].inst  PROVE Held(j)' <=> Held(j)
  <2>1. Held(j)' <=> \E m \in DOMAIN esc' : esc'[m].inst = j /\ esc'[m].status = "open"
    BY DEF Held, OpenTargets
  <2>2. Held(j) <=> \E m \in DOMAIN esc : esc[m].inst = j /\ esc[m].status = "open"
    BY DEF Held, OpenTargets
  <2>3. QED  BY <1>1, <1>5, <2>1, <2>2
<1>6. ASSUME NEW j, Dismissed(j)'
      PROVE  Dismissed(j) \/ (j = esc[k].inst /\ status = "resolved" /\ kind = "dismiss")
  <2>1. PICK m \in DOMAIN esc' :
          esc'[m].inst = j /\ esc'[m].status = "resolved" /\ esc'[m].kind = "dismiss"
    BY <1>6 DEF Dismissed, IsDismissed
  <2>2. CASE m = k
    BY <1>1, <2>1, <2>2
  <2>3. CASE m # k
    <3>1. m \in DOMAIN esc /\ esc[m] = esc'[m]
      BY <1>1, <2>1, <2>3
    <3>2. Dismissed(j)
      BY <2>1, <3>1 DEF Dismissed, IsDismissed
    <3>3. QED  BY <3>2
  <2>4. QED  BY <2>2, <2>3
<1>7. QED
  BY <1>1, <1>2, <1>3, <1>5, <1>6

------------------------------------------------------------------------------
(* Invariance *)

\* The parts of Inv after TypeOK, for a step that writes record i at most.
LEMMA RecordsFineKept ==
  ASSUME Inv, NEW i \in Instances, OnlyWrites(i)
  PROVE  \A j \in Instances : RecordFine(rec'[j], returned'[j])
BY DEF Inv, OnlyWrites

LEMMA IdleKeepsInv ==
  ASSUME Inv, Idle, TypeOK'
  PROVE  Inv'
<1>1. /\ \A i \in Instances : Held(i)' <=> Held(i)
      /\ \A i \in Instances : Dismissed(i)' <=> Dismissed(i)
  BY DEF Idle, Held, Dismissed
<1>2. ASSUME NEW i \in Instances, received'[i]
      PROVE  ~Held(i) /\ Unheld(rec[i]) = "forwarded"
  <2>1. received[i] \/ State(i) = "forwarded"
    BY <1>2 DEF Idle
  <2>2. QED  BY <2>1, StateFree DEF Inv, HoldStates
<1>3. QED
  BY <1>1, <1>2 DEF Inv, Idle, OneOpenHold

LEMMA WorkedKeepsInv ==
  ASSUME Inv, NEW i \in Instances, Worked(i), TypeOK'
  PROVE  Inv'
<1>1. /\ esc' = esc /\ ~Held(i) /\ ~Dismissed(i) /\ OnlyWrites(i)
      /\ \A j \in Instances : Held(j)' <=> Held(j)
      /\ \A j \in Instances : Dismissed(j)' <=> Dismissed(j)
  BY DEF Worked, Held, Dismissed
<1>2. \A k \in DOMAIN esc : esc[k].status = "open" => esc[k].inst \in Instances \ {i}
  BY <1>1, HeldIsOpen, EscTyped DEF Inv, Open
<1>3. \A j \in Instances \ {i} : rec'[j] = rec[j] /\ received'[j] = received[j]
  BY <1>1 DEF OnlyWrites
<1>4. OneOpenHold'
  BY <1>1 DEF Inv, OneOpenHold
<1>5. \A k \in DOMAIN esc' : esc'[k].status = "open" => HoldFits(esc'[k].reason, rec'[esc'[k].inst])
  BY <1>1, <1>2, <1>3 DEF Inv
<1>6. \A j \in Instances : received'[j] => ~Held(j)' /\ Unheld(rec'[j]) = "forwarded"
  BY <1>1, <1>3 DEF Inv, OnlyWrites
<1>7. \A j \in Instances : Dismissed(j)' => ~Held(j)' /\ AtRest(rec'[j])
  BY <1>1, <1>3 DEF Inv
<1>8. QED
  BY <1>1, <1>4, <1>5, <1>6, <1>7, RecordsFineKept DEF Inv

LEMMA StoppedKeepsInv ==
  ASSUME Inv, NEW i \in Instances, Stopped(i), TypeOK'
  PROVE  Inv'
<1>1. ~Held(i) /\ ~Dismissed(i) /\ OnlyWrites(i)
  BY DEF Stopped
<1>2. PICK creator \in Creators, reason \in Reasons :
        Hold(i, creator, reason) /\ HoldFits(reason, rec'[i])
  BY DEF Stopped
<1> DEFINE n == Len(esc) + 1
<1>3. /\ DOMAIN esc' = DOMAIN esc \cup {n} /\ n \notin DOMAIN esc
      /\ \A k \in DOMAIN esc : esc'[k] = esc[k]
      /\ esc'[n].inst = i /\ esc'[n].status = "open" /\ esc'[n].reason = reason
      /\ \A j : j # i => (Held(j)' <=> Held(j))
      /\ \A j : Dismissed(j)' <=> Dismissed(j)
  BY <1>2, HoldEffect DEF Inv
<1> HIDE DEF n
<1>4. \A k \in DOMAIN esc : esc[k].status = "open" => esc[k].inst \in Instances \ {i}
  BY <1>1, HeldIsOpen, EscTyped DEF Inv, Open
<1>5. \A j \in Instances \ {i} : rec'[j] = rec[j] /\ received'[j] = received[j]
  BY <1>1 DEF OnlyWrites
<1>6. OneOpenHold'
  BY <1>3, <1>4 DEF Inv, OneOpenHold
<1>7. \A k \in DOMAIN esc' : esc'[k].status = "open" => HoldFits(esc'[k].reason, rec'[esc'[k].inst])
  BY <1>2, <1>3, <1>4, <1>5 DEF Inv
<1>8. \A j \in Instances : received'[j] => ~Held(j)' /\ Unheld(rec'[j]) = "forwarded"
  BY <1>1, <1>3, <1>5 DEF Inv, OnlyWrites
<1>9. \A j \in Instances : Dismissed(j)' => ~Held(j)' /\ AtRest(rec'[j])
  BY <1>1, <1>3, <1>5 DEF Inv
<1>10. QED
  BY <1>1, <1>6, <1>7, <1>8, <1>9, RecordsFineKept DEF Inv

LEMMA DecidedKeepsInv ==
  ASSUME Inv, NEW k \in DOMAIN esc, Decided(k), TypeOK'
  PROVE  Inv'
<1> DEFINE i == esc[k].inst
<1>1. esc[k].status = "open" /\ OnlyWrites(i) /\ i \in Instances
  BY EscTyped DEF Decided, Inv
<1>2. PICK status \in {"resolved", "expired"}, kind \in {"none", "value", "rerun", "dismiss"} :
        /\ ClosedAs(k, status, kind)
        /\ status = "resolved" /\ kind = "dismiss" => AtRest(rec'[i])
  BY DEF Decided
<1>3. /\ DOMAIN esc' = DOMAIN esc /\ esc'[k].status # "open"
      /\ \A j \in DOMAIN esc : j # k => esc'[j] = esc[j]
      /\ \A j : j = i => ~Held(j)'
      /\ \A j : j # i => (Held(j)' <=> Held(j))
      /\ \A j : Dismissed(j)' => \/ Dismissed(j)
                               \/ (j = i /\ status = "resolved" /\ kind = "dismiss")
  BY <1>1, <1>2, CloseEffect DEF Inv
<1>4. Held(i)
  BY <1>1, HeldIsOpen DEF Open
<1> HIDE DEF i
<1>5. \A m \in DOMAIN esc : m # k /\ esc[m].status = "open" => esc[m].inst \in Instances \ {i}
  BY <1>1, EscTyped DEF Inv, OneOpenHold, i
<1>6. \A j \in Instances \ {i} : rec'[j] = rec[j] /\ received'[j] = received[j]
  BY <1>1 DEF OnlyWrites
<1>7. OneOpenHold'
  BY <1>3 DEF Inv, OneOpenHold
<1>8. \A m \in DOMAIN esc' : esc'[m].status = "open" => HoldFits(esc'[m].reason, rec'[esc'[m].inst])
  BY <1>3, <1>5, <1>6 DEF Inv
<1>9. \A j \in Instances : received'[j] => ~Held(j)' /\ Unheld(rec'[j]) = "forwarded"
  BY <1>1, <1>3, <1>6 DEF Inv, OnlyWrites
<1>10. ASSUME NEW j \in Instances, Dismissed(j)'
       PROVE  ~Held(j)' /\ AtRest(rec'[j])
  <2>1. CASE j = i
    <3>1. ~Dismissed(i)  BY <1>1, <1>4 DEF Inv
    <3>2. status = "resolved" /\ kind = "dismiss"  BY <1>3, <1>10, <2>1, <3>1
    <3>3. QED  BY <1>2, <1>3, <2>1, <3>2
  <2>2. CASE j # i
    <3>1. Dismissed(j)  BY <1>3, <1>10, <2>2
    <3>2. QED  BY <1>3, <1>6, <2>2, <3>1 DEF Inv
  <2>3. QED  BY <2>1, <2>2
<1>11. QED
  BY <1>1, <1>7, <1>8, <1>9, <1>10, RecordsFineKept DEF Inv

LEMMA InitInv == Init => Inv
<1> SUFFICES ASSUME Init  PROVE Inv
  OBVIOUS
<1>1. RecordFine(NoRecord, {})
  BY DEF RecordFine, NoRecord, IsExemptPassed
<1>2. \A i : ~Held(i) /\ ~Dismissed(i)
  BY DEF Init, Held, OpenTargets, Dismissed, IsDismissed
<1>3. OneOpenHold /\ \A k \in DOMAIN esc : esc[k].status = "open" => HoldFits(esc[k].reason, rec[esc[k].inst])
  BY DEF Init, OneOpenHold
<1>4. QED
  BY <1>1, <1>2, <1>3, InitTypeOK DEF Init, Inv

LEMMA NextInv == Inv /\ [Next]_vars => Inv'
<1> SUFFICES ASSUME Inv, [Next]_vars  PROVE Inv'
  OBVIOUS
<1>1. TypeOK'
  BY NextTypeOK DEF Inv
<1>2. QED
  BY <1>1, StepKinds, IdleKeepsInv, WorkedKeepsInv, StoppedKeepsInv, DecidedKeepsInv

LEMMA Invariance == Spec => []Inv
BY InitInv, NextInv, PTL DEF Spec

------------------------------------------------------------------------------
(* The properties *)

\* An instance is never held twice, for any interleaving of the forecast's and
\* the validator's handlers, deadlines and people.
THEOREM HeldOnce == Spec => []OneOpenHold
<1>1. Inv => OneOpenHold
  BY DEF Inv
<1>2. QED
  BY <1>1, Invariance, PTL

\* An open escalation fits its record: what can expire has the value it expires
\* to, so expire_forecast_escalation never raises.
THEOREM HoldsFit == Spec => []HoldIsConsistent
<1>1. Inv => HoldIsConsistent
  BY DEF Inv, HoldIsConsistent, HoldFits
<1>2. QED
  BY <1>1, Invariance, PTL

\* A receiver has nothing but what passed, or what a person or a deadline let
\* through.
THEOREM HandedOnPassed == Spec => []OnlyPassedHandedOn
<1>1. Inv => OnlyPassedHandedOn
  BY StateUnheld DEF Inv, OnlyPassedHandedOn, RecordFine
<1>2. QED
  BY <1>1, Invariance, PTL

\* A misrouted record never returns to who returned it, as it passed.
THEOREM NeverBack == Spec => []NotBackToReturner
<1>1. ASSUME Inv, NEW i \in Instances, State(i) = "forwarded"
      PROVE  rec[i].forwardTo \notin returned[i]
  <2>1. rec[i] \in Record /\ RecordFine(rec[i], returned[i])
    BY <1>1 DEF Inv, TypeOK
  <2>2. Unheld(rec[i]) = "forwarded"
    BY <1>1, StateFree DEF HoldStates
  <2>3. QED  BY <2>1, <2>2, Unvalued DEF RecordFine
<1>2. Inv => NotBackToReturner
  BY <1>1 DEF NotBackToReturner
<1>3. QED
  BY <1>2, Invariance, PTL

LEMMA StepClosedOnce ==
  ASSUME Inv, [Next]_vars, NEW k \in DOMAIN esc, esc[k].status # "open"
  PROVE  k \in DOMAIN esc' /\ esc'[k] = esc[k]
<1>0. TypeOK /\ OneOpenHold
  BY DEF Inv
<1>1. ASSUME NEW j \in Instances, Stopped(j)  PROVE k \in DOMAIN esc' /\ esc'[k] = esc[k]
  BY <1>0, <1>1, HoldEffect DEF Stopped
<1>2. ASSUME NEW j \in DOMAIN esc, Decided(j)  PROVE k \in DOMAIN esc' /\ esc'[k] = esc[k]
  BY <1>0, <1>2, CloseEffect DEF Decided
<1>3. QED
  BY <1>1, <1>2, StepKinds DEF Idle, Worked

\* A person and a deadline never both close an escalation.
THEOREM ClosedForGood == Spec => ClosedOnce
<1>1. Inv /\ [Next]_vars
        => [\A k \in DOMAIN esc : esc[k].status # "open" => esc'[k] = esc[k]]_esc
  BY StepClosedOnce
<1>2. QED
  BY <1>1, Invariance, PTL DEF Spec, ClosedOnce

LEMMA StepHeldStaysPut ==
  ASSUME Inv, [Next]_vars, NEW i \in Instances
  PROVE  LeftAlone(i)
<1>0. TypeOK /\ OneOpenHold /\ (Dismissed(i) => ~Held(i))
  BY DEF Inv
<1>1. ASSUME NEW j \in Instances, Worked(j) \/ Stopped(j)
      PROVE  (Held(i) \/ Dismissed(i)) => rec'[i] = rec[i]
  BY <1>1 DEF Worked, Stopped, OnlyWrites
<1>2. ASSUME NEW k \in DOMAIN esc, Decided(k)
      PROVE  (Held(i) /\ Held(i)') \/ Dismissed(i) => rec'[i] = rec[i]
  <2>1. esc[k].status = "open" /\ (i # esc[k].inst => rec'[i] = rec[i])
    BY <1>2 DEF Decided, OnlyWrites
  <2>2. i = esc[k].inst => ~Held(i)'
    BY <1>0, <1>2, CloseEffect DEF Decided
  <2>3. i = esc[k].inst => Held(i)
    BY <2>1, HeldIsOpen DEF Open
  <2>4. QED  BY <1>0, <2>1, <2>2, <2>3
<1>3. (Held(i) /\ Held(i)') \/ Dismissed(i) => rec'[i] = rec[i]
  BY <1>1, <1>2, StepKinds DEF Idle
<1>4. ASSUME Dismissed(i)  PROVE ~Held(i)'
  <2>1. Dismissed(i)'
    BY <1>4, StepClosedOnce DEF Dismissed, IsDismissed
  <2>2. QED  BY <2>1, NextInv DEF Inv
<1>5. QED
  BY <1>3, <1>4 DEF LeftAlone

\* A held or dismissed instance is left alone by every handler that is late.
THEOREM StaysPut == Spec => HeldStaysPut
<1>1. Inv /\ [Next]_vars
        => [\A i \in Instances : LeftAlone(i)]_state
  BY StepHeldStaysPut
<1>2. QED
  BY <1>1, Invariance, PTL DEF Spec, HeldStaysPut

LEMMA StepHumanValueStands ==
  ASSUME Inv, [Next]_vars, NEW i \in Instances, rec[i].basis = "human", rec'[i].basis # "human"
  PROVE  \/ rec[i].sendBack = "value"
         \/ \E k \in DOMAIN esc : /\ esc[k].inst = i /\ esc[k].status = "open"
                                  /\ esc[k].reason = "options_exhausted"
<1>1. ~Idle
  BY DEF Idle
<1>2. PICK j \in Instances : OnlyWrites(j)
  BY <1>1, StepKinds, EscTyped DEF Inv, Worked, Stopped, Decided
<1>3. j = i
  BY <1>2 DEF OnlyWrites
<1>4. QED
  BY <1>2, <1>3 DEF OnlyWrites, Open

\* What a person decided is not overwritten behind their back.
THEOREM PersonDecides == Spec => HumanValueStands
<1>1. Inv /\ [Next]_vars
        => [\A i \in Instances :
              rec[i].basis = "human" /\ rec'[i].basis # "human"
                => \/ rec[i].sendBack = "value"
                   \/ \E k \in DOMAIN esc : /\ esc[k].inst = i /\ esc[k].status = "open"
                                            /\ esc[k].reason = "options_exhausted"]_rec
  BY StepHumanValueStands
<1>2. QED
  BY <1>1, Invariance, PTL DEF Spec, HumanValueStands
==============================================================================
