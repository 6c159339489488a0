-------------------------- MODULE ForecastBellProofs -------------------------
(* DoorbellRings of ForecastFlow: no signal is lost.  The proof needs the     *)
(* invariant of ForecastFlowProofs and, besides, who stops an instance with   *)
(* what, and which deadlines are remembered.                                  *)
(* On the same invariant, ForecastFlow implements InstanceLife: what supply   *)
(* coordination sees of an instance changes only in the ways it relies on,    *)
(* and it is told.                                                            *)
EXTENDS ForecastFlowProofs

Rings(i) ==
  /\ HasWork(i) => i \in firstRun \cup pending[Forecast]
  /\ State(i) = "awaiting_validation" => i \in pending[Validator]
  /\ State(i) = "forwarded" => received[i] \/ i \in pending[rec[i].forwardTo]

DeadlineRings == \A k \in sentDue : esc[k].status = "open" => k \in due

\* Only the validator stops an instance with validation_error, and with nothing
\* else; only what has a deadline was sent one; only a value has a verdict, and
\* only a value goes back.
CreatorFits(e) == e.creator = Validator <=> e.reason = "validation_error"
ValueThere(r) == r.verdict # "none" \/ r.sendBack # "none" => r.value

BellsFit ==
  /\ \A k \in DOMAIN esc : CreatorFits(esc[k])
  /\ \A k \in sentDue : HasDeadline(esc[k].reason)
  /\ \A i \in Instances : ValueThere(rec[i])

BInv == Inv /\ BellsFit /\ DoorbellRings

LEMMA DoorbellMeans ==
  DoorbellRings <=> DeadlineRings /\ \A i \in Instances : Rings(i)
BY DEF DoorbellRings, DeadlineRings, Rings

LEMMA Facts ==
  ASSUME Inv
  PROVE  /\ TypeOK /\ rec \in [Instances -> Record] /\ esc \in EscalationSeqs
         /\ received \in [Instances -> BOOLEAN]
         /\ pending \in [Channels -> SUBSET Instances]
         /\ firstRun \subseteq Instances
         /\ due \subseteq DOMAIN esc /\ sentDue \subseteq DOMAIN esc
         /\ \A k \in DOMAIN esc : esc[k].inst \in Instances
         /\ \A k \in DOMAIN esc : esc[k].creator \in Creators
         /\ \A k \in DOMAIN esc : esc[k].reason \in Reasons
<1>1. TypeOK /\ \A k \in DOMAIN esc : esc[k] \in Escalation(Instances, Creators)
  BY EscTyped DEF Inv
<1>2. QED
  BY <1>1, EscTyped DEF TypeOK, Escalation

------------------------------------------------------------------------------
(* The state of a record *)

LEMMA HoldState ==
  ASSUME NEW r, NEW records, NEW i, OpenTargets(records, i) # {}
  PROVE  ComputeRecordState(r, OpenTargets(records, i), FALSE, TRUE) \in HoldStates
<1>1. \A reason : TargetRole(reason) \in {"human_manager", "system_operator"}
  BY DEF TargetRole
<1>2. \/ "human_manager" \in OpenTargets(records, i)
      \/ "system_operator" \in OpenTargets(records, i)
  BY <1>1 DEF OpenTargets
<1>3. QED
  BY <1>2 DEF ComputeRecordState, HoldStates

LEMMA StateNext ==
  ASSUME NEW i
  PROVE  /\ Held(i)' => State(i)' \in HoldStates
         /\ ~Held(i)' => State(i)' = Unheld(rec'[i])
BY HoldState DEF Held, State, Unheld

\* What a record has to be to be in a state, whatever holds it.
LEMMA StateMeans ==
  ASSUME NEW r \in Record, NEW open
  PROVE  /\ ComputeRecordState(r, open, FALSE, TRUE) = "none" => ~r.value
         /\ ComputeRecordState(r, open, FALSE, TRUE) = "forwarded" => r.forwardTo \in Receivers
BY DEF ComputeRecordState, Record, Agents

------------------------------------------------------------------------------
(* Who is told *)

LEMMA OwnerTold ==
  ASSUME NEW taken, Notify(taken), NEW i \in Instances, State(i)' # State(i)
  PROVE  /\ State(i)' \in {"judged", "sent_back"} => i \in pending'[Forecast]
         /\ State(i)' = "awaiting_validation" => i \in pending'[Validator]
         /\ State(i)' = "forwarded" /\ rec'[i].forwardTo \in Receivers
              => i \in pending'[rec'[i].forwardTo]
<1>1. ASSUME NEW c \in Channels, c = Owner(i)'  PROVE i \in pending'[c]
  BY <1>1 DEF Notify, Told
<1>2. Owner(i)' = OwnerChannel(State(i)', rec'[i], Forecast, Validator)
  BY DEF Owner
<1>3. QED
  BY <1>1, <1>2 DEF OwnerChannel, Channels

LEMMA CreatorTold ==
  ASSUME NEW taken, Notify(taken), NEW i \in Instances, Closed(i, Forecast)
  PROVE  i \in pending'[Forecast]
BY DEF Notify, Told, HasCard, Channels

\* A record that enters a state has its bell rung, unless there is nothing to
\* compute and nobody is told.
LEMMA EnteredRings ==
  ASSUME TypeOK', NEW taken, Notify(taken), NEW i \in Instances, State(i)' # State(i),
         State(i)' # "none" \/ Closed(i, Forecast) \/ NoDemand(i)' \/ Dismissed(i)'
  PROVE  Rings(i)'
<1>1. rec'[i] \in Record
  BY DEF TypeOK
<1>2. State(i)' = "forwarded" => i \in pending'[rec'[i].forwardTo]
  BY <1>1, OwnerTold, StateMeans DEF State
<1>3. HasWork(i)' => i \in pending'[Forecast]
  <2>1. HasWork(i)' => /\ ~Dismissed(i)'
                       /\ \/ State(i)' = "none" /\ ~NoDemand(i)'
                          \/ State(i)' \in {"judged", "sent_back"}
    BY DEF HasWork, NeedsRun, NeedsSelection, NeedsRerun
  <2>2. QED
    BY <2>1, OwnerTold, CreatorTold
<1>4. QED
  BY <1>2, <1>3, OwnerTold DEF Rings

------------------------------------------------------------------------------
(* Records a step leaves alone *)

SameRecord(j) ==
  /\ rec'[j] = rec[j] /\ (received[j] => received'[j])
  /\ OpenTargets(esc, j)' = OpenTargets(esc, j)
  /\ Dismissed(j)' <=> Dismissed(j)
  /\ ExpiredWithoutDemand(esc, j)' <=> ExpiredWithoutDemand(esc, j)

LEMMA SameRecordWork ==
  ASSUME NEW j, SameRecord(j)
  PROVE  /\ State(j)' = State(j)
         /\ HasWork(j)' <=> HasWork(j)
<1>1. State(j)' = State(j)
  BY DEF SameRecord, State
<1>2. NoDemand(j)' <=> NoDemand(j)
  BY DEF SameRecord, NoDemand
<1>3. QED
  BY <1>1, <1>2 DEF SameRecord, HasWork, NeedsRun, NeedsSelection, NeedsRerun

LEMMA UntouchedRecord ==
  ASSUME NEW j, UNCHANGED state, received[j] => received'[j]
  PROVE  SameRecord(j)
BY DEF state, SameRecord, Dismissed, IsDismissed, OpenTargets, ExpiredWithoutDemand

\* Its bell goes on ringing if nobody took the signal or nobody needs it.
LEMMA SameRecordRings ==
  ASSUME Inv, NEW j \in Instances, Rings(j), SameRecord(j), NEW taken, Notify(taken),
         HasWork(j) => <<Forecast, j>> \notin taken /\ (j \in firstRun => j \in firstRun'),
         State(j) = "awaiting_validation" => <<Validator, j>> \notin taken,
         State(j) = "forwarded" => <<rec[j].forwardTo, j>> \notin taken \/ received'[j]
  PROVE  Rings(j)'
<1>1. State(j)' = State(j) /\ (HasWork(j)' <=> HasWork(j)) /\ rec'[j] = rec[j]
  BY SameRecordWork DEF SameRecord
<1>2. ASSUME NEW c \in Channels, j \in pending[c], <<c, j>> \notin taken
      PROVE  j \in pending'[c]
  BY <1>2 DEF Notify
<1>3. State(j) = "forwarded" => rec[j].forwardTo \in Receivers
  BY Facts, StateMeans DEF State
<1>4. Forecast \in Channels /\ Validator \in Channels /\ Receivers \subseteq Channels
  BY DEF Channels
<1>5. HasWork(j)' => j \in firstRun' \cup pending'[Forecast]
  BY <1>1, <1>2, <1>4 DEF Rings
<1>6. State(j)' = "awaiting_validation" => j \in pending'[Validator]
  BY <1>1, <1>2, <1>4 DEF Rings
<1>7. State(j)' = "forwarded" => received'[j] \/ j \in pending'[rec'[j].forwardTo]
  BY <1>1, <1>2, <1>3, <1>4 DEF Rings, SameRecord
<1>8. QED
  BY <1>5, <1>6, <1>7 DEF Rings

\* A hold and its end are nothing to the other records.
LEMMA HoldSpares ==
  ASSUME TypeOK, NEW i \in Instances, NEW creator \in Creators, NEW reason \in Reasons,
         Hold(i, creator, reason), NEW j, j # i
  PROVE  /\ OpenTargets(esc, j)' = OpenTargets(esc, j)
         /\ Dismissed(j)' <=> Dismissed(j)
         /\ ExpiredWithoutDemand(esc, j)' <=> ExpiredWithoutDemand(esc, j)
<1> DEFINE n == Len(esc) + 1
<1>1. /\ DOMAIN esc' = DOMAIN esc \cup {n} /\ n \notin DOMAIN esc
      /\ \A k \in DOMAIN esc : esc'[k] = esc[k]
      /\ esc'[n].inst = i
  BY HoldEffect
<1> HIDE DEF n
<1>2. {k \in DOMAIN esc : esc[k].inst = j /\ esc[k].status = "open"}'
        = {k \in DOMAIN esc : esc[k].inst = j /\ esc[k].status = "open"}
  BY <1>1
<1>3. OpenTargets(esc, j)' = OpenTargets(esc, j)
  BY <1>1, <1>2 DEF OpenTargets
<1>4. QED
  BY <1>1, <1>3 DEF Dismissed, IsDismissed, ExpiredWithoutDemand

LEMMA CloseSpares ==
  ASSUME TypeOK, NEW k \in DOMAIN esc,
         NEW status \in {"resolved", "expired"}, NEW kind \in {"none", "value", "rerun", "dismiss"},
         ClosedAs(k, status, kind), NEW j, j # esc[k].inst
  PROVE  /\ OpenTargets(esc, j)' = OpenTargets(esc, j)
         /\ Dismissed(j)' <=> Dismissed(j)
         /\ ExpiredWithoutDemand(esc, j)' <=> ExpiredWithoutDemand(esc, j)
<1>1. /\ DOMAIN esc' = DOMAIN esc /\ esc'[k].inst = esc[k].inst
      /\ \A m \in DOMAIN esc : m # k => esc'[m] = esc[m]
  BY EscTyped, CloseType DEF ClosedAs
<1>2. {m \in DOMAIN esc : esc[m].inst = j /\ esc[m].status = "open"}'
        = {m \in DOMAIN esc : esc[m].inst = j /\ esc[m].status = "open"}
  BY <1>1
<1>3. OpenTargets(esc, j)' = OpenTargets(esc, j)
  BY <1>1, <1>2 DEF OpenTargets
<1>4. QED
  BY <1>1, <1>3 DEF Dismissed, IsDismissed, ExpiredWithoutDemand

LEMMA OthersSame ==
  ASSUME Inv, NEW i \in Instances, NEW j \in Instances, j # i,
         \/ Worked(i) \/ Stopped(i)
         \/ \E k \in DOMAIN esc : Decided(k) /\ esc[k].inst = i
  PROVE  SameRecord(j)
<1>0. TypeOK
  BY DEF Inv
<1>1. OnlyWrites(i)
  BY DEF Worked, Stopped, Decided
<1>2. rec'[j] = rec[j] /\ received'[j] = received[j]
  BY <1>1 DEF OnlyWrites
<1>3. CASE Worked(i)
  BY <1>2, <1>3 DEF Worked, SameRecord, OpenTargets, Dismissed, IsDismissed, ExpiredWithoutDemand
<1>4. CASE Stopped(i)
  BY <1>0, <1>2, <1>4, HoldSpares DEF Stopped, SameRecord
<1>5. CASE \E k \in DOMAIN esc : Decided(k) /\ esc[k].inst = i
  BY <1>0, <1>2, <1>5, CloseSpares DEF Decided, SameRecord
<1>6. QED
  BY <1>3, <1>4, <1>5

\* The other records' bells ring on while a handler works on i.
LEMMA OthersRing ==
  ASSUME Inv, \A j \in Instances : Rings(j), NEW i \in Instances,
         \/ Worked(i) \/ Stopped(i)
         \/ \E k \in DOMAIN esc : Decided(k) /\ esc[k].inst = i,
         NEW c \in Channels, NEW taken \in {{}, {<<c, i>>}}, Notify(taken),
         firstRun \ {i} \subseteq firstRun'
  PROVE  \A j \in Instances : j # i => Rings(j)'
<1> SUFFICES ASSUME NEW j \in Instances, j # i  PROVE Rings(j)'
  OBVIOUS
<1>1. SameRecord(j)
  BY OthersSame
<1>2. \A d : <<d, j>> \notin taken
  OBVIOUS
<1>3. QED
  BY <1>1, <1>2, SameRecordRings

------------------------------------------------------------------------------
(* Forecast's handlers *)

\* Whatever there was to do, the record has left the states that ask for it.
LEMMA HandledLeads ==
  ASSUME Inv, NEW i \in Instances, HandleRecord(i), HasWork(i)
  PROVE  State(i)' # State(i) /\ State(i)' # "none"
<1>0. rec[i] \in Record /\ rec \in [Instances -> Record] /\ esc \in EscalationSeqs /\ TypeOK
  BY Facts
<1>1. State(i) \in {"none", "judged", "sent_back"}
  BY DEF HasWork, NeedsRun, NeedsSelection, NeedsRerun
<1>2. ~Held(i)
  BY <1>1, StateFree DEF HoldStates
<1>3. ASSUME NEW reason \in Reasons, Hold(i, Forecast, reason)
      PROVE  State(i)' \in HoldStates
  <2>1. /\ DOMAIN esc' = DOMAIN esc \cup {Len(esc) + 1}
        /\ esc'[Len(esc) + 1].inst = i /\ esc'[Len(esc) + 1].status = "open"
    BY <1>0, <1>3, HoldEffect DEF Creators
  <2>2. Held(i)'
    BY <2>1 DEF Held, OpenTargets
  <2>3. QED
    BY <2>2, StateNext
<1>4. ASSUME NoHold  PROVE State(i)' = Unheld(rec'[i])
  BY <1>2, <1>4, StateNext DEF NoHold, Held
<1>5. ASSUME ValueFound(i)
      PROVE  State(i)' \in {"awaiting_validation"} \cup HoldStates
  <2> DEFINE u == Unvalidated(rec[i])
  <2> DEFINE r == [u EXCEPT !.value = TRUE, !.basis = "rule"]
  <2>1. u \in Record /\ u.verdict = "none" /\ u.forwardTo = "none" /\ u.sendBack = "none"
    BY <1>0, UnvalidatedType
  <2>2. rec' = [rec EXCEPT ![i] = r]
    BY <1>5 DEF ValueFound, Write
  <2> HIDE DEF u
  <2>3. /\ r.value /\ r.basis = "rule" /\ r.verdict = "none"
        /\ r.forwardTo = "none" /\ r.sendBack = "none"
    BY <2>1 DEF Record
  <2> HIDE DEF r
  <2>4. rec'[i] = r
    BY <1>0, <2>2
  <2>5. Unheld(rec'[i]) = "awaiting_validation"
    BY <2>3, <2>4 DEF Unheld, ComputeRecordState, Passed, IsExemptPassed
  <2>6. QED
    BY <1>3, <1>4, <1>5, <2>5, ReasonsKnown DEF ValueFound
<1>6. ASSUME NEW afterRerun, NothingFound(i, afterRerun)
      PROVE  State(i)' \in HoldStates
  BY <1>3, <1>6, ReasonsKnown DEF NothingFound
<1>7. ASSUME RunError(i)  PROVE State(i)' \in HoldStates
  BY <1>3, <1>7, ReasonsKnown DEF RunError
<1>8. ASSUME NeedsSelection(i), SelectNextAgent(i)
      PROVE  State(i)' \in {"forwarded"} \cup HoldStates
  <2> DEFINE base == [rec[i] EXCEPT !.sendBack = "none", !.forwardTo = "none"]
  <2>1. base \in Record /\ Passed(base) /\ base.sendBack = "none" /\ base.forwardTo = "none"
    BY <1>0, <1>8 DEF NeedsSelection, Record, Agents, Passed, IsExemptPassed
  <2> HIDE DEF base
  <2>2. ASSUME NEW a \in Receivers, Write(i, [base EXCEPT !.forwardTo = a]), NoHold
        PROVE  State(i)' = "forwarded"
    <3> DEFINE r == [base EXCEPT !.forwardTo = a]
    <3>1. r \in Record /\ Passed(r) /\ r.sendBack = "none" /\ r.forwardTo = a /\ a # "none"
      BY <2>1, FlowAssumption DEF Record, Agents, Passed, IsExemptPassed
    <3> HIDE DEF r
    <3>2. rec'[i] = r
      BY <1>0, <2>2 DEF Write, r
    <3>3. QED
      BY <1>4, <2>2, <3>1, <3>2, Unvalued
  <2>3. QED
    BY <1>3, <1>8, <2>2, ReasonsKnown DEF SelectNextAgent, base
<1>9. State(i)' \in {"awaiting_validation", "forwarded"} \cup HoldStates
  BY <1>5, <1>6, <1>7, <1>8 DEF HandleRecord, HasWork, Run, Rerun
<1>10. QED
  BY <1>1, <1>9 DEF HoldStates

\* Nothing of i's is for the taken signals: a handler that finds no work.
LEMMA IdleRings ==
  ASSUME Inv, \A j \in Instances : Rings(j), UNCHANGED state,
         NEW i \in Instances, NEW c \in Channels, NEW taken \in {{}, {<<c, i>>}}, Notify(taken),
         firstRun \ {i} \subseteq firstRun',
         \A j \in Instances : received[j] => received'[j],
         c = Forecast \/ firstRun' # firstRun => ~HasWork(i),
         c = Validator => State(i) # "awaiting_validation",
         c \in Receivers => received'[i] \/ ~(State(i) = "forwarded" /\ rec[i].forwardTo = c)
  PROVE  \A j \in Instances : Rings(j)'
<1> SUFFICES ASSUME NEW j \in Instances  PROVE Rings(j)'
  OBVIOUS
<1>1. SameRecord(j)
  BY UntouchedRecord
<1>2. \A d : <<d, j>> \in taken => d = c /\ j = i
  OBVIOUS
<1>3. HasWork(j) => <<Forecast, j>> \notin taken /\ (j \in firstRun => j \in firstRun')
  BY <1>2
<1>4. State(j) = "awaiting_validation" => <<Validator, j>> \notin taken
  BY <1>2
<1>5. State(j) = "forwarded" => rec[j].forwardTo \in Receivers
  BY Facts, StateMeans DEF State
<1>6. State(j) = "forwarded" => <<rec[j].forwardTo, j>> \notin taken \/ received'[j]
  BY <1>2, <1>5
<1>7. QED
  BY <1>1, <1>3, <1>4, <1>6, SameRecordRings

LEMMA ForecastRings ==
  ASSUME Inv, TypeOK', \A j \in Instances : Rings(j), NEW i \in Instances, ForecastStep(i)
  PROVE  \A j \in Instances : Rings(j)'
<1>1. /\ HandleRecord(i) /\ returned' = returned
      /\ firstRun \ {i} \subseteq firstRun'
  BY DEF ForecastStep, FirstRun, HandleSignal
<1>2. PICK taken \in {{}, {<<Forecast, i>>}} : Notify(taken)
  BY DEF ForecastStep, FirstRun, HandleSignal, Taken
<1>3. Forecast \in Channels /\ Forecast # Validator /\ Forecast \notin Receivers
  BY FlowAssumption DEF Channels, Forecast, Validator
<1>4. CASE HasWork(i)
  <2>1. State(i)' # State(i) /\ State(i)' # "none"
    BY <1>1, <1>4, HandledLeads
  <2>2. ~(UNCHANGED <<rec, esc>>)
    BY <2>1 DEF State
  <2>3. Worked(i) \/ Stopped(i)
    BY <1>1, <2>2, HandleRecordKind DEF Idle
  <2>4. \A j \in Instances : j # i => Rings(j)'
    BY <1>1, <1>2, <1>3, <2>3, OthersRing
  <2>5. Rings(i)'
    BY <1>2, <2>1, EnteredRings
  <2>6. QED
    BY <2>4, <2>5
<1>5. CASE ~HasWork(i)
  <2>1. UNCHANGED <<state, received>>
    BY <1>1, <1>5 DEF HandleRecord, HasWork
  <2>2. QED
    BY <1>1, <1>2, <1>3, <1>5, <2>1, IdleRings
<1>6. QED
  BY <1>4, <1>5

------------------------------------------------------------------------------
(* The validator and the receivers *)

LEMMA ValidatorRings ==
  ASSUME Inv, TypeOK', \A j \in Instances : Rings(j), NEW i \in Instances, Validate(i)
  PROVE  \A j \in Instances : Rings(j)'
<1>1. PICK taken \in {{}, {<<Validator, i>>}} : Notify(taken)
  BY DEF Validate, Taken
<1>2. /\ Validator \in Channels /\ Forecast # Validator /\ Validator \notin Receivers
      /\ firstRun' = firstRun
  BY FlowAssumption DEF Channels, Forecast, Validator, Validate
<1>3. CASE State(i) # "awaiting_validation" /\ UNCHANGED <<state, received>>
  BY <1>1, <1>2, <1>3, IdleRings
<1>4. CASE State(i) = "awaiting_validation" /\ Judge(i)
  <2>0. rec[i] \in Record /\ rec \in [Instances -> Record]
    BY Facts
  <2>1. PICK v \in {"passed", "failed", "error"} : Write(i, [rec[i] EXCEPT !.verdict = v])
    BY <1>4 DEF Judge
  <2>2. rec'[i] \in Record /\ rec'[i].verdict # "none"
    BY <2>0, <2>1 DEF Write, Record
  <2>3. State(i)' \notin {"none", "awaiting_validation"}
    BY <2>2, StateNext, Unvalued DEF HoldStates
  <2>4. ~(UNCHANGED <<rec, esc>>)
    BY <1>4, <2>3 DEF State
  <2>5. Worked(i) \/ Stopped(i)
    BY <2>4, ValidateKind DEF Idle
  <2>6. \A j \in Instances : j # i => Rings(j)'
    BY <1>1, <1>2, <2>5, OthersRing
  <2>7. Rings(i)'
    BY <1>1, <1>4, <2>3, EnteredRings
  <2>8. QED
    BY <2>6, <2>7
<1>5. QED
  BY <1>3, <1>4 DEF Validate

\* A record that a receiver sends back is forecast's.
LEMMA SentBackRings ==
  ASSUME Inv, TypeOK', \A j \in Instances : Rings(j),
         NEW a \in Receivers, NEW i \in Instances, Receive(a, i) \/ SendBackValue(a, i),
         State(i) = "forwarded", UNCHANGED esc, firstRun' = firstRun,
         NEW cause \in {"misrouted", "value"}, Write(i, [rec[i] EXCEPT !.sendBack = cause]),
         NEW taken \in {{}, {<<a, i>>}}, Notify(taken)
  PROVE  \A j \in Instances : Rings(j)'
<1>0. rec[i] \in Record /\ rec \in [Instances -> Record]
  BY Facts
<1>1. rec'[i] \in Record /\ rec'[i].sendBack # "none"
  BY <1>0 DEF Write, Record
<1>2. State(i)' = "sent_back"
  <2>1. ~Held(i)
    BY StateFree DEF HoldStates
  <2>2. ~Held(i)'
    BY <2>1 DEF Held
  <2>3. QED
    BY <1>1, <2>2, StateNext, Unvalued
<1>3. ~(UNCHANGED <<rec, esc>>)
  BY <1>2 DEF State
<1>4. Worked(i) /\ a \in Channels
  BY <1>3, ReceiverKind DEF Idle, Channels
<1>5. \A j \in Instances : j # i => Rings(j)'
  BY <1>4, OthersRing
<1>6. Rings(i)'
  BY <1>2, EnteredRings
<1>7. QED
  BY <1>5, <1>6

LEMMA ReceiverRings ==
  ASSUME Inv, TypeOK', \A j \in Instances : Rings(j),
         NEW a \in Receivers, NEW i \in Instances, Receive(a, i) \/ SendBackValue(a, i)
  PROVE  \A j \in Instances : Rings(j)'
<1>0. /\ RecordFine(rec[i], returned[i]) /\ received \in [Instances -> BOOLEAN]
      /\ a \in Channels /\ a # "none" /\ a # Forecast /\ a # Validator
  BY Facts, FlowAssumption DEF Inv, Channels, Forecast, Validator
<1>1. CASE SendBackValue(a, i)
  <2>1. /\ State(i) = "forwarded" /\ Write(i, [rec[i] EXCEPT !.sendBack = "value"])
        /\ UNCHANGED esc /\ firstRun' = firstRun /\ Notify({})
    BY <1>1 DEF SendBackValue, NoHold
  <2>2. QED
    BY <1>1, <2>1, SentBackRings
<1>2. CASE Receive(a, i)
  <2>1. PICK taken \in {{}, {<<a, i>>}} : Notify(taken)
    BY <1>2 DEF Receive, Taken
  <2>2. UNCHANGED esc /\ firstRun' = firstRun
    BY <1>2 DEF Receive
  <2>3. CASE State(i) = "forwarded" /\ Write(i, [rec[i] EXCEPT !.sendBack = "misrouted"])
    BY <1>2, <2>1, <2>2, <2>3, SentBackRings
  <2>4. CASE received' = [received EXCEPT ![i] = TRUE] /\ UNCHANGED rec
    BY <1>0, <2>1, <2>2, <2>4, IdleRings DEF state
  <2>5. CASE /\ ~(State(i) = "forwarded" /\ rec[i].forwardTo = a /\ rec[i].value)
             /\ UNCHANGED <<rec, received>>
    <3>1. ~(State(i) = "forwarded" /\ rec[i].forwardTo = a)
      BY <1>0, <2>5 DEF RecordFine
    <3>2. QED
      BY <1>0, <2>1, <2>2, <2>5, <3>1, IdleRings DEF state
  <2>6. QED
    BY <1>2, <2>3, <2>4, <2>5 DEF Receive
<1>3. QED
  BY <1>1, <1>2

------------------------------------------------------------------------------
(* People and deadlines *)

\* The end of a hold is a change of state; someone hears of it who has work.
LEMMA ReleasedRings ==
  ASSUME Inv, TypeOK', \A j \in Instances : Rings(j), Notify({}), firstRun' = firstRun,
         NEW k \in DOMAIN esc, Decided(k), NEW i, i = esc[k].inst,
         State(i)' # "none" \/ Closed(i, Forecast) \/ Dismissed(i)'
  PROVE  \A j \in Instances : Rings(j)'
<1>0. /\ esc[k].status = "open" /\ i \in Instances /\ Forecast \in Channels
      /\ TypeOK /\ OneOpenHold
  BY Facts DEF Decided, Channels, Inv
<1>1. Held(i) /\ ~Held(i)'
  BY <1>0, HeldIsOpen, CloseEffect DEF Open, Decided
<1>2. State(i) \in HoldStates
  BY <1>1, StateHeld
<1>3. rec'[i] \in Record
  BY <1>0 DEF TypeOK
<1>4. State(i)' \notin HoldStates
  BY <1>1, <1>3, StateNext, Unvalued
<1>5. State(i)' # State(i)
  BY <1>2, <1>4
<1>6. Rings(i)'
  BY <1>0, <1>5, EnteredRings
<1>7. \A j \in Instances : j # i => Rings(j)'
  BY <1>0, OthersRing
<1>8. QED
  BY <1>6, <1>7

LEMMA ClosedNames ==
  ASSUME Inv, NEW k \in DOMAIN esc,
         NEW status \in {"resolved", "expired"}, NEW kind \in {"none", "value", "rerun", "dismiss"},
         ClosedAs(k, status, kind)
  PROVE  /\ DOMAIN esc' = DOMAIN esc
         /\ esc'[k].status = status /\ esc'[k].kind = kind
         /\ \A m \in DOMAIN esc : /\ esc'[m].inst = esc[m].inst
                                  /\ esc'[m].creator = esc[m].creator
                                  /\ esc'[m].reason = esc[m].reason
<1>1. esc \in EscalationSeqs /\ esc[k] \in Escalation(Instances, Creators)
  BY EscTyped DEF Inv
<1>2. /\ DOMAIN esc' = DOMAIN esc /\ esc'[k].status = status /\ esc'[k].kind = kind
      /\ \A m \in DOMAIN esc : m # k => esc'[m] = esc[m]
  BY <1>1, CloseType DEF ClosedAs
<1>3. esc'[k] = [esc[k] EXCEPT !.status = status, !.kind = kind]
  BY <1>1 DEF ClosedAs, EscalationSeqs
<1>4. esc'[k].inst = esc[k].inst /\ esc'[k].creator = esc[k].creator /\ esc'[k].reason = esc[k].reason
  BY <1>1, <1>3 DEF Escalation
<1>5. QED
  BY <1>2, <1>4

\* What each of the three who close an escalation does to it.
LEMMA CloserActs ==
  ASSUME Inv, NEW k \in DOMAIN esc
  PROVE  /\ Expirable(k) /\ Expire(k) => ClosedAs(k, "expired", esc[k].kind)
         /\ HumanResolve(k) => ClosedAs(k, "resolved", "value")
         /\ SystemResolve(k) =>
              \E kind \in {"rerun", "dismiss"} :
                /\ ClosedAs(k, "resolved", kind)
                /\ IF kind = "rerun" /\ esc[k].reason = "validation_error"
                   THEN Write(esc[k].inst, [rec[esc[k].inst] EXCEPT !.verdict = "none"])
                   ELSE UNCHANGED <<rec, received>>
<1>1. esc \in EscalationSeqs /\ esc[k] \in Escalation(Instances, Creators)
  BY EscTyped DEF Inv
<1>2. Expirable(k) /\ Expire(k) => ClosedAs(k, "expired", esc[k].kind)
  BY <1>1 DEF Expire, ClosedAs, Escalation, EscalationSeqs
<1>3. HumanResolve(k) => ClosedAs(k, "resolved", "value")
  BY <1>1 DEF HumanResolve, ClosedAs, Escalation, EscalationSeqs
<1>4. ASSUME SystemResolve(k)
      PROVE  \E kind \in {"rerun", "dismiss"} :
                /\ ClosedAs(k, "resolved", kind)
                /\ IF kind = "rerun" /\ esc[k].reason = "validation_error"
                   THEN Write(esc[k].inst, [rec[esc[k].inst] EXCEPT !.verdict = "none"])
                   ELSE UNCHANGED <<rec, received>>
  <2>1. PICK kind \in {"rerun", "dismiss"} :
          /\ esc' = [esc EXCEPT ![k].status = "resolved", ![k].kind = kind]
          /\ IF kind = "rerun" /\ esc[k].reason = "validation_error"
             THEN Write(esc[k].inst, [rec[esc[k].inst] EXCEPT !.verdict = "none"])
             ELSE UNCHANGED <<rec, received>>
    BY <1>4 DEF SystemResolve
  <2>2. ClosedAs(k, "resolved", kind)
    BY <1>1, <2>1 DEF ClosedAs, Escalation, EscalationSeqs
  <2>3. QED  BY <2>1, <2>2
<1>5. QED
  BY <1>2, <1>3, <1>4

LEMMA CloserRings ==
  ASSUME Inv, TypeOK', BellsFit, \A j \in Instances : Rings(j),
         NEW k \in DOMAIN esc, HandleDeadline(k) \/ HumanResolve(k) \/ SystemResolve(k)
  PROVE  \A j \in Instances : Rings(j)'
<1>a. PICK i : i = esc[k].inst
  OBVIOUS
<1> USE <1>a
<1>0. /\ Notify({}) /\ firstRun' = firstRun /\ i \in Instances
      /\ rec[i] \in Record /\ rec \in [Instances -> Record]
      /\ Idle \/ Decided(k)
      /\ esc[k].creator \in Creators /\ esc[k] \in Escalation(Instances, Creators)
  BY Facts, EscTyped, CloserKind DEF HandleDeadline, HumanResolve, SystemResolve, Inv
<1>1. ASSUME esc'[k].status # esc[k].status  PROVE Decided(k)
  BY <1>0, <1>1 DEF Idle
<1>2. ASSUME NEW status \in {"resolved", "expired"},
             NEW kind \in {"none", "value", "rerun", "dismiss"}, ClosedAs(k, status, kind),
             esc[k].status = "open"
      PROVE  /\ Decided(k) /\ DOMAIN esc' = DOMAIN esc /\ esc'[k].inst = i
             /\ esc'[k].status = status /\ esc'[k].kind = kind
             /\ esc[k].creator = Forecast => Closed(i, Forecast)
  <2>1. /\ DOMAIN esc' = DOMAIN esc /\ esc'[k].inst = i
        /\ esc'[k].status = status /\ esc'[k].kind = kind
    BY <1>2, ClosedNames
  <2>2. QED
    BY <1>1, <1>2, <2>1 DEF Closed
<1>3. CASE HandleDeadline(k) /\ ~Expirable(k)
  <2>1. UNCHANGED <<state, received>> /\ Forecast \in Channels
    BY <1>3 DEF HandleDeadline, Channels
  <2>2. \A j \in Instances : SameRecord(j)
    BY <2>1, UntouchedRecord
  <2>3. QED
    BY <1>0, <2>2, SameRecordRings
<1>4. CASE HandleDeadline(k) /\ Expirable(k)
  <2>1. Expire(k) /\ esc[k].creator = Forecast /\ esc[k].status = "open"
    BY <1>4 DEF HandleDeadline, Expirable
  <2>2. esc[k].kind \in {"none", "value", "rerun", "dismiss"}
    BY <1>0 DEF Escalation
  <2>3. ClosedAs(k, "expired", esc[k].kind)
    BY <1>4, <2>1, CloserActs
  <2>4. Decided(k) /\ Closed(i, Forecast)
    BY <1>2, <2>1, <2>2, <2>3
  <2>5. QED
    BY <1>0, <2>4, ReleasedRings
<1>5. CASE HumanResolve(k)
  <2>1. /\ esc[k].status = "open" /\ ClosedAs(k, "resolved", "value")
        /\ Write(i, [Unvalidated(rec[i]) EXCEPT !.value = TRUE, !.basis = "human"])
    BY <1>5, CloserActs DEF HumanResolve
  <2>2. rec'[i] \in Record /\ rec'[i].basis = "human"
    <3> DEFINE u == Unvalidated(rec[i])
    <3>1. u \in Record
      BY <1>0, UnvalidatedType
    <3>2. rec'[i] = [u EXCEPT !.value = TRUE, !.basis = "human"]
      BY <1>0, <2>1 DEF Write
    <3> HIDE DEF u
    <3>3. QED  BY <3>1, <3>2 DEF Record
  <2>3. Decided(k)
    BY <1>2, <2>1
  <2>4. State(i)' # "none"
    BY <2>2, StateNext, Unvalued DEF IsExemptPassed, HoldStates
  <2>5. QED
    BY <1>0, <2>3, <2>4, ReleasedRings
<1>6. CASE SystemResolve(k)
  <2>0. esc[k].status = "open"
    BY <1>6 DEF SystemResolve
  <2>1. PICK kind \in {"rerun", "dismiss"} :
          /\ ClosedAs(k, "resolved", kind)
          /\ IF kind = "rerun" /\ esc[k].reason = "validation_error"
             THEN Write(i, [rec[i] EXCEPT !.verdict = "none"])
             ELSE UNCHANGED <<rec, received>>
    BY <1>6, CloserActs
  <2>2. /\ Decided(k) /\ DOMAIN esc' = DOMAIN esc /\ esc'[k].inst = i
        /\ esc'[k].status = "resolved" /\ esc'[k].kind = kind
        /\ esc[k].creator = Forecast => Closed(i, Forecast)
    BY <1>2, <2>0, <2>1
  <2>3. CASE esc[k].creator = Forecast
    BY <1>0, <2>2, <2>3, ReleasedRings
  <2>4. CASE kind = "dismiss"
    <3>1. Dismissed(i)'
      BY <2>2, <2>4 DEF Dismissed, IsDismissed
    <3>2. QED
      BY <1>0, <2>2, <3>1, ReleasedRings
  <2>5. CASE esc[k].creator # Forecast /\ kind = "rerun"
    <3>1. esc[k].reason = "validation_error"
      BY <1>0, <2>5 DEF BellsFit, CreatorFits, Creators
    <3>2. rec[i].value
      BY <1>0, <2>0, <3>1 DEF Inv, HoldFits, BellsFit, ValueThere
    <3>3. rec'[i] \in Record /\ rec'[i].value
      BY <1>0, <2>1, <2>5, <3>1, <3>2 DEF Write, Record
    <3>4. State(i)' # "none"
      BY <3>3, StateNext, Unvalued DEF HoldStates
    <3>5. QED
      BY <1>0, <2>2, <3>4, ReleasedRings
  <2>6. QED
    BY <2>3, <2>4, <2>5
<1>7. QED
  BY <1>3, <1>4, <1>5, <1>6

------------------------------------------------------------------------------
(* Every step keeps the bells ringing *)

LEMMA NextRings ==
  ASSUME Inv, TypeOK', BellsFit, \A j \in Instances : Rings(j), [Next]_vars
  PROVE  \A j \in Instances : Rings(j)'
<1>1. ASSUME UNCHANGED <<rec, esc, pending, received>>, firstRun \subseteq firstRun'
      PROVE  \A j \in Instances : Rings(j)'
  <2>1. ASSUME NEW j \in Instances
        PROVE  State(j)' = State(j) /\ (HasWork(j)' <=> HasWork(j))
    <3>1. SameRecord(j)
      BY <1>1, UntouchedRecord DEF state
    <3>2. QED  BY <3>1, SameRecordWork
  <2>2. QED
    BY <1>1, <2>1 DEF Rings
<1>2. ASSUME NEW k \in DOMAIN esc, TickDeadline(k)  PROVE \A j \in Instances : Rings(j)'
  BY <1>1, <1>2 DEF TickDeadline, state
<1>3. ASSUME NEW a \in Receivers, EditCard(a)  PROVE \A j \in Instances : Rings(j)'
  BY <1>1, <1>3 DEF EditCard, state
<1>4. CASE Restart
  BY <1>1, <1>4, Facts DEF Restart, state
<1>5. CASE UNCHANGED vars
  BY <1>1, <1>5 DEF vars, state
<1>6. QED
  BY <1>2, <1>3, <1>4, <1>5, ForecastRings, ValidatorRings, ReceiverRings, CloserRings DEF Next

------------------------------------------------------------------------------
(* Who stops an instance with what, and which deadlines are remembered *)

Named(i) ==
  \/ esc' = esc
  \/ \E creator \in Creators, reason \in Reasons :
       /\ Hold(i, creator, reason)
       /\ creator = Validator <=> reason = "validation_error"

Valued(i) ==
  \/ rec' = rec
  \/ \E r \in Record : Write(i, r) /\ ValueThere(r)

LEMMA HandleNamed ==
  ASSUME Inv, BellsFit, NEW i \in Instances, HandleRecord(i)
  PROVE  Named(i) /\ Valued(i)
<1> DEFINE u == Unvalidated(rec[i])
<1>0. /\ rec[i] \in Record /\ u \in Record /\ u.verdict = "none" /\ u.sendBack = "none"
      /\ Forecast # Validator
  BY Facts, UnvalidatedType DEF Forecast, Validator
<1>1. ASSUME NEW reason \in Reasons, reason # "validation_error", Hold(i, Forecast, reason)
      PROVE  Named(i)
  BY <1>0, <1>1 DEF Named, Creators
<1>2. CASE ValueFound(i)
  <2> DEFINE r == [u EXCEPT !.value = TRUE, !.basis = "rule"]
  <2>1. Write(i, r)
    BY <1>2 DEF ValueFound
  <2> HIDE DEF u
  <2>2. r \in Record /\ r.verdict = "none" /\ r.sendBack = "none"
    BY <1>0 DEF Record
  <2> HIDE DEF r
  <2>3. QED
    BY <1>1, <1>2, <2>1, <2>2, ReasonsKnown DEF ValueFound, NoHold, Named, Valued, ValueThere
<1>3. ASSUME NEW afterRerun, NothingFound(i, afterRerun)  PROVE Named(i) /\ Valued(i)
  <2> DEFINE r == [u EXCEPT !.value = FALSE, !.basis = "none"]
  <2>1. Write(i, u) \/ Write(i, r)
    BY <1>3 DEF NothingFound
  <2> HIDE DEF u
  <2>2. r \in Record /\ r.verdict = "none" /\ r.sendBack = "none"
    BY <1>0 DEF Record
  <2> HIDE DEF r
  <2>3. QED
    BY <1>0, <1>1, <1>3, <2>1, <2>2, ReasonsKnown DEF NothingFound, Valued, ValueThere
<1>4. CASE RunError(i)
  BY <1>1, <1>4, ReasonsKnown DEF RunError, Valued
<1>5. CASE SelectNextAgent(i)
  <2> DEFINE base == [rec[i] EXCEPT !.sendBack = "none", !.forwardTo = "none"]
  <2>1. base \in Record /\ ValueThere(base)
    BY <1>0 DEF Record, Agents, BellsFit, ValueThere
  <2>2. \/ Write(i, base) \/ \E a \in Receivers : Write(i, [base EXCEPT !.forwardTo = a])
    BY <1>5 DEF SelectNextAgent
  <2> HIDE DEF base
  <2>3. \A a \in Receivers : /\ [base EXCEPT !.forwardTo = a] \in Record
                             /\ [base EXCEPT !.forwardTo = a].verdict = base.verdict
                             /\ [base EXCEPT !.forwardTo = a].sendBack = base.sendBack
                             /\ [base EXCEPT !.forwardTo = a].value = base.value
    BY <2>1 DEF Record, Agents
  <2>4. Valued(i)
    <3>1. CASE Write(i, base)
      BY <2>1, <3>1 DEF Valued
    <3>2. ASSUME NEW a \in Receivers, Write(i, [base EXCEPT !.forwardTo = a])  PROVE Valued(i)
      <4> DEFINE r == [base EXCEPT !.forwardTo = a]
      <4>1. r \in Record /\ ValueThere(r) /\ Write(i, r)
        BY <2>1, <2>3, <3>2 DEF ValueThere
      <4> HIDE DEF r
      <4>2. QED  BY <4>1 DEF Valued
    <3>3. QED  BY <2>2, <3>1, <3>2
  <2>5. QED
    BY <1>1, <1>5, <2>4, ReasonsKnown DEF SelectNextAgent, NoHold, Named
<1>6. QED
  BY <1>2, <1>3, <1>4, <1>5 DEF HandleRecord, Run, Rerun, state, Named, Valued

LEMMA JudgeNamed ==
  ASSUME Inv, NEW i \in Instances, State(i) = "awaiting_validation", Judge(i)
  PROVE  Named(i) /\ Valued(i)
<1>1. rec[i] \in Record /\ rec[i].value
  BY Facts, StateFree, Unvalued DEF HoldStates
<1>2. PICK v \in {"passed", "failed", "error"} : Write(i, [rec[i] EXCEPT !.verdict = v])
  BY DEF Judge
<1> DEFINE r == [rec[i] EXCEPT !.verdict = v]
<1>3. r \in Record /\ r.value /\ Write(i, r)
  BY <1>1, <1>2 DEF Record
<1> HIDE DEF r
<1>4. QED
  BY <1>3, ReasonsKnown DEF Judge, NoHold, Named, Valued, ValueThere, Creators

LEMMA ReceiverNamed ==
  ASSUME Inv, NEW a \in Receivers, NEW i \in Instances, Receive(a, i) \/ SendBackValue(a, i)
  PROVE  Named(i) /\ Valued(i)
<1>1. /\ rec[i] \in Record /\ RecordFine(rec[i], returned[i])
      /\ State(i) = "forwarded" => rec[i].forwardTo \in Receivers
  BY Facts, StateMeans DEF Inv, State
<1>2. ASSUME NEW cause \in {"misrouted", "value"}, Write(i, [rec[i] EXCEPT !.sendBack = cause]),
             State(i) = "forwarded"
      PROVE  Valued(i)
  <2> DEFINE r == [rec[i] EXCEPT !.sendBack = cause]
  <2>1. rec[i].value
    BY <1>1, <1>2, FlowAssumption DEF RecordFine
  <2>2. r \in Record /\ r.value /\ Write(i, r)
    BY <1>1, <1>2, <2>1 DEF Record
  <2> HIDE DEF r
  <2>3. QED  BY <2>2 DEF Valued, ValueThere
<1>3. \/ rec' = rec
      \/ /\ State(i) = "forwarded"
         /\ \E cause \in {"misrouted", "value"} : Write(i, [rec[i] EXCEPT !.sendBack = cause])
  BY DEF Receive, SendBackValue
<1>4. esc' = esc
  BY DEF Receive, SendBackValue, NoHold
<1>5. QED
  BY <1>2, <1>3, <1>4 DEF Named, Valued

LEMMA CloserNamed ==
  ASSUME Inv, BellsFit, NEW k \in DOMAIN esc, HandleDeadline(k) \/ HumanResolve(k) \/ SystemResolve(k)
  PROVE  /\ Valued(esc[k].inst)
         /\ \/ esc' = esc
            \/ \E status \in {"resolved", "expired"}, kind \in {"none", "value", "rerun", "dismiss"} :
                 ClosedAs(k, status, kind)
<1>a. PICK i : i = esc[k].inst
  OBVIOUS
<1> USE <1>a
<1> DEFINE u == Unvalidated(rec[i])
<1>0. /\ i \in Instances /\ rec[i] \in Record /\ u \in Record
      /\ u.verdict = "none" /\ u.sendBack = "none"
      /\ esc[k].kind \in {"none", "value", "rerun", "dismiss"}
      /\ ValueThere(rec[i])
  <2>1. i \in Instances /\ esc[k] \in Escalation(Instances, Creators)
    BY EscTyped DEF Inv
  <2>2. QED
    BY <2>1, Facts, UnvalidatedType DEF Escalation, BellsFit
<1>1. \/ esc' = esc
      \/ \E status \in {"resolved", "expired"}, kind \in {"none", "value", "rerun", "dismiss"} :
           ClosedAs(k, status, kind)
  BY <1>0, CloserActs DEF HandleDeadline, state
<1>2. \/ rec' = rec
      \/ Write(i, [u EXCEPT !.basis = "expiry"])
      \/ Write(i, [u EXCEPT !.value = TRUE, !.basis = "human"])
      \/ Write(i, [rec[i] EXCEPT !.verdict = "none"])
  BY DEF HandleDeadline, Expire, HumanResolve, SystemResolve, state
<1> HIDE DEF u
<1>3. ASSUME NEW r \in Record, ValueThere(r), Write(i, r)  PROVE Valued(i)
  BY <1>3 DEF Valued
<1>4. /\ [u EXCEPT !.basis = "expiry"] \in Record
      /\ ValueThere([u EXCEPT !.basis = "expiry"])
      /\ [u EXCEPT !.value = TRUE, !.basis = "human"] \in Record
      /\ ValueThere([u EXCEPT !.value = TRUE, !.basis = "human"])
      /\ [rec[i] EXCEPT !.verdict = "none"] \in Record
      /\ ValueThere([rec[i] EXCEPT !.verdict = "none"])
  BY <1>0 DEF Record, ValueThere
<1>5. Valued(i)
  BY <1>2, <1>3, <1>4 DEF Valued
<1>6. QED
  BY <1>1, <1>5

LEMMA NextNamed ==
  ASSUME Inv, BellsFit, [Next]_vars
  PROVE  /\ rec' = rec \/ \E i \in Instances : Valued(i)
         /\ \/ esc' = esc
            \/ \E i \in Instances : Named(i)
            \/ \E k \in DOMAIN esc, status \in {"resolved", "expired"},
                  kind \in {"none", "value", "rerun", "dismiss"} : ClosedAs(k, status, kind)
<1>1. ASSUME NEW i \in Instances, ForecastStep(i)  PROVE Valued(i) /\ Named(i)
  BY <1>1, HandleNamed DEF ForecastStep, FirstRun, HandleSignal
<1>2. ASSUME NEW i \in Instances, Validate(i)  PROVE Valued(i) /\ Named(i)
  BY <1>2, JudgeNamed DEF Validate, state, Valued, Named
<1>3. ASSUME NEW k \in DOMAIN esc, HandleDeadline(k) \/ HumanResolve(k) \/ SystemResolve(k)
      PROVE  /\ \E i \in Instances : Valued(i)
             /\ \/ esc' = esc
                \/ \E status \in {"resolved", "expired"},
                      kind \in {"none", "value", "rerun", "dismiss"} : ClosedAs(k, status, kind)
  BY <1>3, CloserNamed, EscTyped DEF Inv
<1>4. ASSUME NEW k \in DOMAIN esc, TickDeadline(k)  PROVE rec' = rec /\ esc' = esc
  BY <1>4 DEF TickDeadline, state
<1>5. ASSUME NEW a \in Receivers, EditCard(a)  PROVE rec' = rec /\ esc' = esc
  BY <1>5 DEF EditCard, state
<1>6. CASE Restart
  BY <1>6 DEF Restart, state
<1>7. CASE UNCHANGED vars
  BY <1>7 DEF vars, state
<1>8. QED
  BY <1>1, <1>2, <1>3, <1>4, <1>5, <1>6, <1>7, ReceiverNamed DEF Next

\* The escalations there are keep their numbers, creators and reasons.
LEMMA EscalationsKept ==
  ASSUME Inv, BellsFit, [Next]_vars
  PROVE  /\ DOMAIN esc \subseteq DOMAIN esc'
         /\ \A k \in DOMAIN esc : esc'[k].creator = esc[k].creator /\ esc'[k].reason = esc[k].reason
         /\ \A k \in DOMAIN esc' \ DOMAIN esc : CreatorFits(esc'[k])
<1>1. ASSUME NEW i \in Instances, NEW creator \in Creators, NEW reason \in Reasons,
             Hold(i, creator, reason), creator = Validator <=> reason = "validation_error"
      PROVE  /\ DOMAIN esc \subseteq DOMAIN esc'
             /\ \A k \in DOMAIN esc : esc'[k] = esc[k]
             /\ \A k \in DOMAIN esc' \ DOMAIN esc : CreatorFits(esc'[k])
  <2> DEFINE n == Len(esc) + 1
  <2>1. DOMAIN esc' = DOMAIN esc \cup {n} /\ \A k \in DOMAIN esc : esc'[k] = esc[k]
    BY <1>1, HoldEffect DEF Inv
  <2>2. esc'[n] = NewEscalation(creator, reason, i)
    BY <1>1, HoldType, EscTyped DEF Inv
  <2> HIDE DEF n
  <2>3. CreatorFits(esc'[n])
    BY <1>1, <2>2 DEF NewEscalation, CreatorFits
  <2>4. QED
    BY <2>1, <2>3
<1>2. ASSUME NEW k \in DOMAIN esc, NEW status \in {"resolved", "expired"},
             NEW kind \in {"none", "value", "rerun", "dismiss"}, ClosedAs(k, status, kind)
      PROVE  /\ DOMAIN esc' = DOMAIN esc
             /\ \A m \in DOMAIN esc : esc'[m].creator = esc[m].creator /\ esc'[m].reason = esc[m].reason
  BY <1>2, ClosedNames
<1>3. QED
  BY <1>1, <1>2, NextNamed DEF Named

LEMMA NextBellsFit ==
  ASSUME Inv, BellsFit, [Next]_vars
  PROVE  BellsFit'
<1>1. \A k \in DOMAIN esc' : CreatorFits(esc'[k])
  BY EscalationsKept DEF BellsFit, CreatorFits
<1>2. \A k \in sentDue' : HasDeadline(esc'[k].reason)
  <2>1. \A k \in sentDue' : k \in sentDue \/ (k \in DOMAIN esc /\ HasDeadline(esc[k].reason))
    BY DEF Next, ForecastStep, FirstRun, HandleSignal, Validate, Receive, SendBackValue,
           HandleDeadline, TickDeadline, HumanResolve, SystemResolve, EditCard, Restart, vars
  <2>2. \A k \in sentDue : k \in DOMAIN esc /\ HasDeadline(esc[k].reason)
    BY Facts DEF BellsFit
  <2>3. QED
    BY <2>1, <2>2, EscalationsKept
<1>3. \A i \in Instances : ValueThere(rec'[i])
  <2>1. CASE rec' = rec
    BY <2>1 DEF BellsFit
  <2>2. ASSUME NEW j \in Instances, NEW r \in Record, Write(j, r), ValueThere(r)
        PROVE  \A i \in Instances : ValueThere(rec'[i])
    BY <2>2, Facts DEF Write, BellsFit
  <2>3. QED
    BY <2>1, <2>2, NextNamed DEF Valued
<1>4. QED
  BY <1>1, <1>2, <1>3 DEF BellsFit, CreatorFits

LEMMA NextDeadlineRings ==
  ASSUME Inv, BellsFit, DeadlineRings, [Next]_vars
  PROVE  DeadlineRings'
<1>1. \A k \in DOMAIN esc : k \in DOMAIN esc' /\ (esc'[k].status = "open" => esc[k].status = "open")
  BY StepClosedOnce, EscalationsKept
<1>2. CASE sentDue' \subseteq sentDue /\ due' = due
  BY <1>1, <1>2, Facts DEF DeadlineRings
<1>3. ASSUME NEW k \in DOMAIN esc, HandleDeadline(k)  PROVE DeadlineRings'
  <2>1. sentDue' = sentDue /\ due \ {k} \subseteq due'
    BY <1>3 DEF HandleDeadline
  <2>2. k \in sentDue /\ esc[k].status = "open" => Expirable(k)
    BY Facts DEF BellsFit, CreatorFits, Creators, Expirable, HasDeadline,
                 ProceedWithValue, ProceedWithoutDemand
  <2>3. Expirable(k) => esc'[k].status # "open"
    <3>1. esc[k] \in Escalation(Instances, Creators)
      BY EscTyped DEF Inv
    <3>2. Expirable(k) => ClosedAs(k, "expired", esc[k].kind)
      BY <1>3, CloserActs DEF HandleDeadline
    <3>3. esc[k].kind \in {"none", "value", "rerun", "dismiss"}
      BY <3>1 DEF Escalation
    <3>4. QED
      BY <3>2, <3>3, ClosedNames
  <2>4. QED
    BY <1>1, <2>1, <2>2, <2>3, Facts DEF DeadlineRings
<1>4. ASSUME NEW k \in DOMAIN esc, TickDeadline(k)  PROVE DeadlineRings'
  BY <1>1, <1>4, Facts DEF DeadlineRings, TickDeadline
<1>5. QED
  BY <1>2, <1>3, <1>4
     DEF Next, ForecastStep, FirstRun, HandleSignal, Validate, Receive, SendBackValue,
         HumanResolve, SystemResolve, EditCard, Restart, vars

------------------------------------------------------------------------------
(* No doorbell is lost *)

LEMMA InitBell == Init => BInv
<1> SUFFICES ASSUME Init  PROVE BInv
  OBVIOUS
<1>1. Inv
  BY InitInv
<1>2. BellsFit
  BY DEF Init, BellsFit, ValueThere, NoRecord
<1>3. ASSUME NEW i \in Instances  PROVE Rings(i)
  <2>1. rec[i] = NoRecord /\ ~Held(i)
    BY <1>3 DEF Init, Held, OpenTargets
  <2>2. State(i) = "none"
    BY <2>1, StateUnheld DEF Unheld, ComputeRecordState, NoRecord, Passed, IsExemptPassed
  <2>3. QED
    BY <2>2 DEF Init, Rings
<1>4. DeadlineRings
  BY DEF Init, DeadlineRings
<1>5. QED
  BY <1>1, <1>2, <1>3, <1>4, DoorbellMeans DEF BInv

LEMMA NextBell == BInv /\ [Next]_vars => BInv'
<1> SUFFICES ASSUME BInv, [Next]_vars  PROVE BInv'
  OBVIOUS
<1>1. /\ Inv /\ BellsFit /\ DeadlineRings /\ \A i \in Instances : Rings(i)
  BY DoorbellMeans DEF BInv
<1>2. Inv' /\ TypeOK'
  BY <1>1, NextInv DEF Inv
<1>3. BellsFit' /\ DeadlineRings' /\ \A i \in Instances : Rings(i)'
  BY <1>1, <1>2, NextBellsFit, NextDeadlineRings, NextRings
<1>4. DoorbellRings'
  BY <1>3 DEF DoorbellRings, DeadlineRings, Rings
<1>5. QED
  BY <1>2, <1>3, <1>4 DEF BInv

\* Whoever must work on a record next has a signal for it, whatever handlers
\* acknowledge without working and whichever states a record skips.
THEOREM NoDoorbellLost == Spec => []DoorbellRings
<1>1. BInv => DoorbellRings
  BY DEF BInv
<1>2. QED
  BY <1>1, InitBell, NextBell, PTL DEF Spec

------------------------------------------------------------------------------
(* Implements InstanceLife *)

LInv == Inv /\ BellsFit

\* The step changes the state of i in a way that receivers are told of.
Tells(i) ==
  /\ State(i)' # State(i)
  /\ State(i)' = "forwarded" \/ {State(i), State(i)'} \cap HoldStates # {}

\* A handler of channel c ended that may have acknowledged its signal for i.
HandledBy(c, i) == \E taken \in {{}, {<<c, i>>}} : Notify(taken)

------------------------------------------------------------------------------
(* The bell *)

LEMMA ReceiversTold ==
  ASSUME Inv, TypeOK', Receivers # {}, NEW i \in Instances
  PROVE  (\E a \in Receivers : Told(a, i)) <=> Tells(i)
<1>1. ASSUME NEW a \in Receivers  PROVE ~Closed(i, a)
  <2>1. a \notin Creators
    BY FlowAssumption DEF Creators
  <2>2. QED
    BY <2>1, Facts DEF Closed
<1>2. rec'[i] \in Record
  BY DEF TypeOK
<1>3. Owner(i)' \in Receivers <=> State(i)' = "forwarded"
  <2>1. Owner(i)' = OwnerChannel(State(i)', rec'[i], Forecast, Validator)
    BY DEF Owner
  <2>2. State(i)' = "forwarded" => rec'[i].forwardTo \in Receivers
    BY <1>2, StateMeans DEF State
  <2>3. QED
    BY <2>1, <2>2, FlowAssumption DEF OwnerChannel
<1>4. (\E a \in Receivers : Told(a, i))
        <=> /\ State(i)' # State(i)
            /\ Owner(i)' \in Receivers \/ {State(i), State(i)'} \cap HoldStates # {}
  BY <1>1 DEF Told
<1>5. QED
  BY <1>3, <1>4 DEF Tells

LEMMA BellNext ==
  ASSUME Inv, TypeOK', Receivers # {}, NEW taken, Notify(taken), NEW j \in Instances
  PROVE  j \in Bell' <=> Tells(j) \/ \E a \in Receivers : j \in pending[a] /\ <<a, j>> \notin taken
<1>1. Receivers \subseteq Channels
  BY DEF Channels
<1>2. \A a \in Receivers :
        j \in pending'[a] <=> (j \in pending[a] /\ <<a, j>> \notin taken) \/ Told(a, j)
  BY <1>1 DEF Notify
<1>3. j \in Bell' <=> \E a \in Receivers : j \in pending'[a]
  BY DEF Bell
<1>4. QED
  BY <1>2, <1>3, ReceiversTold

LEMMA BellTyped ==
  ASSUME Inv
  PROVE  /\ Bell \subseteq Instances
         /\ \A taken : Notify(taken) => Bell' \subseteq Instances
         /\ \A j : j \in Bell <=> \E a \in Receivers : j \in pending[a]
<1>1. Receivers \subseteq Channels
  BY DEF Channels
<1>2. \A a \in Receivers : pending[a] \subseteq Instances
  BY <1>1, Facts
<1>3. ASSUME NEW taken, Notify(taken)  PROVE \A a \in Receivers : pending'[a] \subseteq Instances
  BY <1>1, <1>3 DEF Notify
<1>4. QED
  BY <1>2, <1>3 DEF Bell

\* The bell rings for i if i changes that way, and for nobody else.
LEMMA BellUpdate ==
  ASSUME Inv, TypeOK', Receivers # {}, NEW i \in Instances, NEW c, HandledBy(c, i),
         \A j \in Instances : j # i => SameRecord(j)
  PROVE  /\ Tells(i) => Bell' = Bell \cup {i}
         /\ ~Tells(i) => Bell' = Bell \/ Bell' = Bell \ {i}
         /\ ~Tells(i) /\ c \notin Receivers => Bell' = Bell
<1>1. PICK taken \in {{}, {<<c, i>>}} : Notify(taken)
  BY DEF HandledBy
<1>2. /\ Bell \subseteq Instances /\ Bell' \subseteq Instances
      /\ \A j : j \in Bell <=> \E a \in Receivers : j \in pending[a]
  BY <1>1, BellTyped
<1>3. ASSUME NEW j \in Instances, j # i  PROVE ~Tells(j)
  BY <1>3, SameRecordWork DEF Tells
<1>4. ASSUME NEW j \in Instances, j # i  PROVE j \in Bell' <=> j \in Bell
  BY <1>1, <1>2, <1>3, <1>4, BellNext
<1>5. i \in Bell' <=> Tells(i) \/ \E a \in Receivers : i \in pending[a] /\ <<a, i>> \notin taken
  BY <1>1, BellNext
<1>6. CASE Tells(i)
  BY <1>2, <1>4, <1>5, <1>6
<1>7. CASE ~Tells(i)
  <2>1. i \in Bell' => i \in Bell
    BY <1>2, <1>5, <1>7
  <2>2. c \notin Receivers => (i \in Bell' <=> i \in Bell)
    BY <1>2, <1>5, <1>7
  <2>3. Bell' = Bell \/ Bell' = Bell \ {i}
    BY <1>2, <1>4, <2>1
  <2>4. c \notin Receivers => Bell' = Bell
    BY <1>2, <1>4, <2>2
  <2>5. QED  BY <1>7, <2>3, <2>4
<1>8. QED
  BY <1>6, <1>7

------------------------------------------------------------------------------
(* The kind *)

LEMMA SameKind ==
  ASSUME NEW j, SameRecord(j)
  PROVE  InstanceKind(j)' = InstanceKind(j)
<1>1. State(j)' = State(j)
  BY SameRecordWork
<1>2. (Held(j)' <=> Held(j)) /\ (NoDemand(j)' <=> NoDemand(j)) /\ (Dismissed(j)' <=> Dismissed(j))
  BY DEF SameRecord, Held, NoDemand
<1>3. QED
  BY <1>1, <1>2 DEF InstanceKind

\* The kind of i changes to k, as InstanceLife has it.
LEMMA KindUpdate ==
  ASSUME NEW i \in Instances, \A j \in Instances : j # i => SameRecord(j)
  PROVE  /\ KindOf' = [KindOf EXCEPT ![i] = InstanceKind(i)']
         /\ KindOf[i] = InstanceKind(i)
         /\ InstanceKind(i)' = InstanceKind(i) => KindOf' = KindOf
<1>1. \A j \in Instances : j # i => InstanceKind(j)' = InstanceKind(j)
  BY SameKind
<1>2. KindOf' = [j \in Instances |-> InstanceKind(j)']
  BY DEF KindOf
<1>3. KindOf = [j \in Instances |-> InstanceKind(j)]
  BY DEF KindOf
<1>4. QED
  BY <1>1, <1>2, <1>3

LEMMA KindMeans ==
  ASSUME NEW i
  PROVE  /\ ~Held(i) /\ ~Dismissed(i) /\ ~NoDemand(i)
              => InstanceKind(i) = IF State(i) = "forwarded" THEN "delivered" ELSE "processing"
         /\ Held(i) /\ ~Dismissed(i) => InstanceKind(i) = "held"
         /\ ~Held(i) /\ State(i) # "forwarded" => InstanceKind(i) \in {"gone", "processing"}
         /\ ~Held(i)' /\ ~Dismissed(i)' /\ ~NoDemand(i)'
              => InstanceKind(i)' = IF State(i)' = "forwarded" THEN "delivered" ELSE "processing"
         /\ Held(i)' /\ ~Dismissed(i)' => InstanceKind(i)' = "held"
         /\ ~Held(i)' /\ State(i)' # "forwarded" => InstanceKind(i)' \in {"gone", "processing"}
BY DEF InstanceKind

------------------------------------------------------------------------------
(* The four kinds of step *)

LifeStep == [Life!LifeNext]_<<KindOf, Bell>>

\* Nothing changes but that a signal may be acknowledged.
LEMMA IdleLives ==
  ASSUME Inv, TypeOK', Receivers # {}, UNCHANGED state,
         \A j \in Instances : received[j] => received'[j],
         NEW i \in Instances, NEW c, HandledBy(c, i)
  PROVE  LifeStep
<1>1. \A j \in Instances : SameRecord(j)
  BY UntouchedRecord
<1>2. State(i)' = State(i) /\ InstanceKind(i)' = InstanceKind(i)
  BY <1>1, SameRecordWork, SameKind
<1>3. ~Tells(i)
  BY <1>2 DEF Tells
<1>4. KindOf' = KindOf
  BY <1>1, <1>2, KindUpdate
<1>5. Bell' = Bell \/ Bell' = Bell \ {i}
  BY <1>1, <1>3, BellUpdate
<1>6. CASE i \in Bell /\ Bell' = Bell \ {i}
  BY <1>4, <1>6 DEF LifeStep, Life!LifeNext, Life!Heard
<1>7. QED
  BY <1>4, <1>5, <1>6 DEF LifeStep

\* Work on a record nobody holds: it is delivered, goes back, or goes on.
LEMMA WorkedLives ==
  ASSUME Inv, TypeOK', Receivers # {}, NEW i \in Instances, Worked(i),
         rec[i].value \/ ~NoDemand(i), rec'[i].value,
         NEW c, HandledBy(c, i), c \in Receivers => State(i) = "forwarded"
  PROVE  LifeStep
<1>1. /\ ~Held(i) /\ ~Dismissed(i) /\ ~Held(i)' /\ ~Dismissed(i)'
      /\ ~NoDemand(i) /\ ~NoDemand(i)'
  BY DEF Worked, Held, Dismissed, NoDemand
<1>2. /\ InstanceKind(i) = IF State(i) = "forwarded" THEN "delivered" ELSE "processing"
      /\ InstanceKind(i)' = IF State(i)' = "forwarded" THEN "delivered" ELSE "processing"
  BY <1>1, KindMeans
<1>3. \A j \in Instances : j # i => SameRecord(j)
  BY OthersSame
<1>4. State(i) \notin HoldStates /\ State(i)' \notin HoldStates
  <2>1. rec[i] \in Record /\ rec'[i] \in Record
    BY Facts DEF TypeOK
  <2>2. QED
    BY <1>1, <2>1, StateUnheld, StateNext, Unvalued
<1>5. Tells(i) <=> State(i)' # State(i) /\ State(i)' = "forwarded"
  BY <1>4 DEF Tells
<1>6. /\ KindOf' = [KindOf EXCEPT ![i] = InstanceKind(i)'] /\ KindOf[i] = InstanceKind(i)
      /\ InstanceKind(i)' = InstanceKind(i) => KindOf' = KindOf
  BY <1>3, KindUpdate
<1>7. /\ Tells(i) => Bell' = Bell \cup {i}
      /\ ~Tells(i) => Bell' = Bell \/ Bell' = Bell \ {i}
      /\ ~Tells(i) /\ c \notin Receivers => Bell' = Bell
  BY <1>3, BellUpdate
<1>8. CASE State(i) # "forwarded" /\ State(i)' = "forwarded"
  BY <1>2, <1>5, <1>6, <1>7, <1>8
     DEF LifeStep, Life!LifeNext, Life!LifeStep, Life!Deliver, Life!Becomes, Life!Ring
<1>9. CASE State(i) # "forwarded" /\ State(i)' # "forwarded"
  BY <1>2, <1>5, <1>6, <1>7, <1>9 DEF LifeStep
<1>10. CASE State(i) = "forwarded" /\ State(i)' # "forwarded"
  BY <1>2, <1>5, <1>6, <1>7, <1>10
     DEF LifeStep, Life!LifeNext, Life!LifeStep, Life!GoBack, Life!Becomes
<1>11. CASE State(i) = "forwarded" /\ State(i)' = "forwarded"
  <2>1. CASE i \in Bell /\ Bell' = Bell \ {i}
    BY <1>2, <1>6, <1>11, <2>1 DEF LifeStep, Life!LifeNext, Life!Heard
  <2>2. QED
    BY <1>2, <1>5, <1>6, <1>7, <1>11, <2>1 DEF LifeStep
<1>12. QED
  BY <1>8, <1>9, <1>10, <1>11

LEMMA StoppedLives ==
  ASSUME Inv, TypeOK', Receivers # {}, NEW i \in Instances, Stopped(i),
         State(i) # "forwarded", rec[i].value \/ ~NoDemand(i),
         NEW c, HandledBy(c, i)
  PROVE  LifeStep
<1>1. PICK creator \in Creators, reason \in Reasons : Hold(i, creator, reason)
  BY DEF Stopped
<1>2. /\ DOMAIN esc' = DOMAIN esc \cup {Len(esc) + 1}
      /\ esc'[Len(esc) + 1].inst = i /\ esc'[Len(esc) + 1].status = "open"
      /\ Dismissed(i)' <=> Dismissed(i)
  BY <1>1, HoldEffect DEF Inv
<1>3. Held(i)'
  BY <1>2 DEF Held, OpenTargets
<1>4. ~Held(i) /\ ~Dismissed(i) /\ ~Dismissed(i)' /\ ~NoDemand(i)
  BY <1>2 DEF Stopped, NoDemand
<1>5. InstanceKind(i) = "processing" /\ InstanceKind(i)' = "held"
  BY <1>3, <1>4, KindMeans
<1>6. State(i) \notin HoldStates /\ State(i)' \in HoldStates
  <2>1. rec[i] \in Record
    BY Facts
  <2>2. QED
    BY <1>3, <1>4, <2>1, StateUnheld, StateNext, Unvalued
<1>7. Tells(i)
  BY <1>6 DEF Tells
<1>8. \A j \in Instances : j # i => SameRecord(j)
  BY OthersSame
<1>9. KindOf' = [KindOf EXCEPT ![i] = "held"] /\ KindOf[i] = "processing"
  BY <1>5, <1>8, KindUpdate
<1>10. Bell' = Bell \cup {i}
  BY <1>7, <1>8, BellUpdate
<1>11. QED
  BY <1>9, <1>10 DEF LifeStep, Life!LifeNext, Life!LifeStep, Life!Stop, Life!Becomes, Life!Ring

LEMMA DecidedLives ==
  ASSUME Inv, TypeOK', Receivers # {}, NEW k \in DOMAIN esc, Decided(k),
         NEW i, i = esc[k].inst, State(i)' # "forwarded", Notify({})
  PROVE  LifeStep
<1>1. i \in Instances /\ esc[k].status = "open" /\ TypeOK /\ OneOpenHold
  BY Facts DEF Decided, Inv
<1>2. Held(i) /\ ~Held(i)' /\ ~Dismissed(i)
  BY <1>1, HeldIsOpen, CloseEffect DEF Open, Decided, Inv
<1>3. InstanceKind(i) = "held" /\ InstanceKind(i)' \in {"gone", "processing"}
  BY <1>2, KindMeans
<1>4. State(i) \in HoldStates /\ State(i)' \notin HoldStates
  <2>1. rec'[i] \in Record
    BY <1>1 DEF TypeOK
  <2>2. QED
    BY <1>2, <2>1, StateHeld, StateNext, Unvalued
<1>5. Tells(i)
  BY <1>4 DEF Tells
<1>6. \A j \in Instances : j # i => SameRecord(j)
  BY <1>1, OthersSame
<1>7. KindOf' = [KindOf EXCEPT ![i] = InstanceKind(i)'] /\ KindOf[i] = "held"
  BY <1>1, <1>3, <1>6, KindUpdate
<1>8. Bell' = Bell \cup {i}
  <2>1. HandledBy(Forecast, i)
    BY DEF HandledBy
  <2>2. QED
    BY <1>1, <1>5, <1>6, <2>1, BellUpdate
<1>9. QED
  BY <1>1, <1>3, <1>7, <1>8
     DEF LifeStep, Life!LifeNext, Life!LifeStep, Life!Release, Life!Leave, Life!Becomes, Life!Ring

------------------------------------------------------------------------------
(* Every action *)

LEMMA ForecastLives ==
  ASSUME LInv, TypeOK', Receivers # {}, NEW i \in Instances, ForecastStep(i)
  PROVE  LifeStep
<1>0. Inv /\ rec[i] \in Record /\ ValueThere(rec[i]) /\ esc \in EscalationSeqs
  BY Facts DEF LInv, BellsFit
<1>1. HandleRecord(i) /\ returned' = returned
  BY DEF ForecastStep, FirstRun, HandleSignal
<1>2. HandledBy(Forecast, i)
  BY DEF ForecastStep, FirstRun, HandleSignal, HandledBy, Taken
<1>3. Forecast \notin Receivers
  BY FlowAssumption
<1>4. CASE ~HasWork(i)
  <2>1. UNCHANGED state /\ UNCHANGED received
    BY <1>1, <1>4 DEF HandleRecord, HasWork
  <2>2. QED
    BY <1>0, <1>2, <2>1, IdleLives
<1>5. CASE HasWork(i)
  <2>1. State(i)' # State(i)
    BY <1>0, <1>1, <1>5, HandledLeads
  <2>2. ~(UNCHANGED <<rec, esc>>)
    BY <2>1 DEF State
  <2>3. Worked(i) \/ Stopped(i)
    BY <1>0, <1>1, <2>2, HandleRecordKind DEF Idle
  <2>4. rec[i].value \/ ~NoDemand(i)
    BY <1>0, <1>5 DEF HasWork, NeedsRun, NeedsSelection, NeedsRerun, ValueThere
  <2>5. State(i) # "forwarded"
    BY <1>5 DEF HasWork, NeedsRun, NeedsSelection, NeedsRerun
  <2>6. CASE Stopped(i)
    BY <1>0, <1>2, <2>4, <2>5, <2>6, StoppedLives
  <2>7. CASE Worked(i)
    <3>1. ASSUME NEW reason \in Reasons  PROVE ~Hold(i, Forecast, reason)
      <4>1. SUFFICES ASSUME Hold(i, Forecast, reason)  PROVE FALSE
        OBVIOUS
      <4>2. Len(esc') = Len(esc) + 1
        BY <1>0, <4>1, HoldType DEF Creators
      <4>3. QED
        BY <1>0, <2>7, <4>2 DEF Worked, EscalationSeqs
    <3>2. ValueFound(i) \/ (NeedsSelection(i) /\ SelectNextAgent(i))
      BY <1>1, <1>5, <3>1, ReasonsKnown DEF HandleRecord, Run, Rerun, RunError, NothingFound, HasWork
    <3>3. CASE ValueFound(i)
      <4> DEFINE u == Unvalidated(rec[i])
      <4>1. rec'[i] = [u EXCEPT !.value = TRUE, !.basis = "rule"] /\ u \in Record
        BY <1>0, <3>3, Facts, UnvalidatedType DEF ValueFound, Write
      <4> HIDE DEF u
      <4>2. rec'[i].value
        BY <4>1 DEF Record
      <4>3. QED
        BY <1>0, <1>2, <1>3, <2>4, <2>7, <4>2, WorkedLives
    <3>4. CASE NeedsSelection(i) /\ SelectNextAgent(i)
      <4> DEFINE base == [rec[i] EXCEPT !.sendBack = "none", !.forwardTo = "none"]
      <4>1. base \in Record /\ base.value
        BY <1>0, <3>4 DEF Record, Agents, NeedsSelection
      <4>2. Write(i, base) \/ \E a \in Receivers : Write(i, [base EXCEPT !.forwardTo = a])
        BY <3>4 DEF SelectNextAgent
      <4> HIDE DEF base
      <4>3. \A a \in Receivers : [base EXCEPT !.forwardTo = a].value
        BY <4>1 DEF Record
      <4>4. rec'[i].value
        BY <1>0, <4>1, <4>2, <4>3, Facts DEF Write
      <4>5. QED
        BY <1>0, <1>2, <1>3, <2>4, <2>7, <4>4, WorkedLives
    <3>5. QED
      BY <3>2, <3>3, <3>4
  <2>8. QED
    BY <2>3, <2>6, <2>7
<1>6. QED
  BY <1>4, <1>5

LEMMA ValidateLives ==
  ASSUME LInv, TypeOK', Receivers # {}, NEW i \in Instances, Validate(i)
  PROVE  LifeStep
<1>0. Inv /\ rec[i] \in Record /\ rec \in [Instances -> Record]
  BY Facts DEF LInv
<1>1. HandledBy(Validator, i) /\ Validator \notin Receivers
  BY FlowAssumption DEF Validate, HandledBy, Taken
<1>2. CASE State(i) # "awaiting_validation" /\ UNCHANGED <<state, received>>
  BY <1>0, <1>1, <1>2, IdleLives
<1>3. CASE State(i) = "awaiting_validation" /\ Judge(i)
  <2>1. rec[i].value
    BY <1>0, <1>3, StateFree, Unvalued DEF HoldStates
  <2>2. PICK v \in {"passed", "failed", "error"} : Write(i, [rec[i] EXCEPT !.verdict = v])
    BY <1>3 DEF Judge
  <2>3. rec'[i].value /\ rec'[i].verdict # "none" /\ rec'[i] \in Record
    BY <1>0, <2>1, <2>2 DEF Write, Record
  <2>4. rec' # rec
    BY <1>0, <1>3, <2>3, StateFree, Unvalued DEF HoldStates
  <2>5. Worked(i) \/ Stopped(i)
    BY <1>0, <2>4, ValidateKind DEF Idle
  <2>6. QED
    BY <1>0, <1>1, <1>3, <2>1, <2>3, <2>5, WorkedLives, StoppedLives
<1>4. QED
  BY <1>2, <1>3 DEF Validate

LEMMA ReceiverLives ==
  ASSUME LInv, TypeOK', Receivers # {},
         NEW a \in Receivers, NEW i \in Instances, Receive(a, i) \/ SendBackValue(a, i)
  PROVE  LifeStep
<1>0. /\ Inv /\ rec[i] \in Record /\ rec \in [Instances -> Record]
      /\ RecordFine(rec[i], returned[i]) /\ received \in [Instances -> BOOLEAN]
      /\ State(i) = "forwarded" => rec[i].forwardTo \in Receivers
  BY Facts, StateMeans DEF LInv, Inv, State
<1>1. HandledBy(a, i)
  BY DEF Receive, SendBackValue, HandledBy, Taken
<1>2. CASE UNCHANGED <<rec, esc>> /\ \A j \in Instances : received[j] => received'[j]
  BY <1>0, <1>1, <1>2, IdleLives DEF state
<1>3. ASSUME State(i) = "forwarded", NEW cause \in {"misrouted", "value"},
             Write(i, [rec[i] EXCEPT !.sendBack = cause])
      PROVE  LifeStep
  <2>1. rec[i].value /\ rec[i].sendBack = "none"
    BY <1>0, <1>3, StateFree, Unvalued, FlowAssumption DEF RecordFine, HoldStates
  <2>2. rec'[i].value /\ rec'[i].sendBack = cause
    BY <1>0, <1>3, <2>1 DEF Write, Record
  <2>3. Worked(i)
    BY <1>0, <2>1, <2>2, ReceiverKind DEF Idle
  <2>4. QED
    BY <1>0, <1>1, <1>3, <2>1, <2>2, <2>3, WorkedLives
<1>4. CASE SendBackValue(a, i)
  BY <1>3, <1>4 DEF SendBackValue
<1>5. CASE Receive(a, i)
  <2>1. CASE received' = [received EXCEPT ![i] = TRUE] /\ UNCHANGED rec
    BY <1>0, <1>2, <1>5, <2>1 DEF Receive
  <2>2. CASE UNCHANGED <<rec, received>>
    BY <1>2, <1>5, <2>2 DEF Receive
  <2>3. QED
    BY <1>3, <1>5, <2>1, <2>2 DEF Receive
<1>6. QED
  BY <1>4, <1>5

LEMMA CloserLives ==
  ASSUME LInv, TypeOK', Receivers # {},
         NEW k \in DOMAIN esc, HandleDeadline(k) \/ HumanResolve(k) \/ SystemResolve(k)
  PROVE  LifeStep
<1>a. PICK i : i = esc[k].inst
  OBVIOUS
<1> USE <1>a
<1> DEFINE u == Unvalidated(rec[i])
<1>0. /\ Inv /\ i \in Instances /\ rec[i] \in Record /\ rec \in [Instances -> Record]
      /\ u \in Record /\ u.forwardTo = "none" /\ Notify({})
      /\ esc[k] \in Escalation(Instances, Creators)
  BY Facts, EscTyped, UnvalidatedType DEF LInv, Inv, HandleDeadline, HumanResolve, SystemResolve
<1>1. CASE HandleDeadline(k) /\ ~Expirable(k)
  <2>1. UNCHANGED state /\ UNCHANGED received /\ HandledBy(Forecast, i)
    BY <1>0, <1>1 DEF HandleDeadline, HandledBy
  <2>2. QED
    BY <1>0, <2>1, IdleLives
<1>2. CASE ~(HandleDeadline(k) /\ ~Expirable(k))
  <2>1. esc[k].status = "open" /\ HoldFits(esc[k].reason, rec[i])
    BY <1>0, <1>2 DEF HandleDeadline, Expirable, HumanResolve, SystemResolve, Inv
  <2>2. esc'[k].status # "open" /\ Decided(k)
    <3>1. \E status \in {"resolved", "expired"}, kind \in {"none", "value", "rerun", "dismiss"} :
            ClosedAs(k, status, kind)
      <4>1. esc[k].kind \in {"none", "value", "rerun", "dismiss"}
        BY <1>0 DEF Escalation
      <4>2. QED
        BY <1>0, <1>2, <4>1, CloserActs DEF HandleDeadline
    <3>2. esc'[k].status # "open"
      BY <1>0, <3>1, ClosedNames
    <3>3. QED
      BY <1>0, <2>1, <3>2, CloserKind DEF Idle
  <2>3. \/ rec' = rec
        \/ Write(i, [u EXCEPT !.basis = "expiry"])
        \/ Write(i, [u EXCEPT !.value = TRUE, !.basis = "human"])
        \/ Write(i, [rec[i] EXCEPT !.verdict = "none"])
    BY DEF HandleDeadline, Expire, HumanResolve, SystemResolve, state
  <2> HIDE DEF u
  <2>4. rec'[i] \in Record /\ (rec'[i].forwardTo # "none" => rec'[i].sendBack = "value")
    <3>1. rec[i].forwardTo # "none" => rec[i].sendBack = "value"
      BY <2>1 DEF HoldFits
    <3>2. CASE rec' = rec
      BY <1>0, <3>1, <3>2
    <3>3. CASE Write(i, [u EXCEPT !.basis = "expiry"])
      BY <1>0, <3>3 DEF Write, Record
    <3>4. CASE Write(i, [u EXCEPT !.value = TRUE, !.basis = "human"])
      BY <1>0, <3>4 DEF Write, Record
    <3>5. CASE Write(i, [rec[i] EXCEPT !.verdict = "none"])
      BY <1>0, <3>1, <3>5 DEF Write, Record
    <3>6. QED
      BY <2>3, <3>2, <3>3, <3>4, <3>5
  <2>5. State(i)' # "forwarded"
    BY <2>4, StateNext, Unvalued DEF HoldStates
  <2>6. QED
    BY <1>0, <2>2, <2>5, DecidedLives
<1>3. QED
  BY <1>1, <1>2

LEMMA NextLives ==
  ASSUME LInv, TypeOK', Receivers # {}, [Next]_vars
  PROVE  LifeStep
<1>1. ASSUME UNCHANGED <<rec, esc, pending>>  PROVE LifeStep
  <2>1. Bell' = Bell
    BY <1>1 DEF Bell
  <2>2. KindOf' = KindOf
    BY <1>1 DEF KindOf, InstanceKind, Held, Dismissed, NoDemand, State
  <2>3. QED
    BY <2>1, <2>2 DEF LifeStep
<1>2. ASSUME NEW k \in DOMAIN esc, TickDeadline(k)  PROVE LifeStep
  BY <1>1, <1>2 DEF TickDeadline, state
<1>3. ASSUME NEW a \in Receivers, EditCard(a)  PROVE LifeStep
  BY <1>1, <1>3 DEF EditCard, state
<1>4. CASE Restart
  BY <1>1, <1>4 DEF Restart, state
<1>5. CASE UNCHANGED vars
  BY <1>1, <1>5 DEF vars, state
<1>6. QED
  BY <1>2, <1>3, <1>4, <1>5, ForecastLives, ValidateLives, ReceiverLives, CloserLives DEF Next

------------------------------------------------------------------------------
LEMMA InitLives == Init => Life!InstancesFresh
<1> SUFFICES ASSUME Init  PROVE Life!InstancesFresh
  OBVIOUS
<1>1. ASSUME NEW i \in Instances  PROVE InstanceKind(i) = "processing"
  <2>1. rec[i] = NoRecord /\ ~Held(i) /\ ~Dismissed(i) /\ ~NoDemand(i)
    BY <1>1 DEF Init, Held, OpenTargets, Dismissed, IsDismissed, NoDemand, ExpiredWithoutDemand
  <2>2. State(i) = "none"
    BY <2>1, StateUnheld DEF Unheld, ComputeRecordState, NoRecord, Passed, IsExemptPassed
  <2>3. QED
    BY <2>1, <2>2, KindMeans
<1>2. KindOf = [i \in Instances |-> "processing"]
  BY <1>1 DEF KindOf
<1>3. Bell = {}
  BY DEF Init, Bell, Channels
<1>4. QED
  BY <1>2, <1>3 DEF Life!InstancesFresh

\* The forecast side keeps what the coordination of lines relies on: it changes
\* the kind of an instance only in the six ways of InstanceLife, and each but
\* the way back is told, for every number of instances.
THEOREM ForecastImplementsLife ==
  ASSUME Receivers # {}
  PROVE  Spec => ImplementsInstanceLife
<1>1. Init => LInv
  BY InitBell DEF BInv, LInv
<1>2. LInv /\ [Next]_vars => LInv' /\ TypeOK'
  BY NextInv, NextBellsFit DEF LInv, Inv
<1>3. LInv /\ TypeOK' /\ [Next]_vars => [Life!LifeNext]_<<KindOf, Bell>>
  BY NextLives DEF LifeStep
<1>4. QED
  BY <1>1, <1>2, <1>3, InitLives, PTL DEF Spec, ImplementsInstanceLife, Life!LifeSpec
==============================================================================
