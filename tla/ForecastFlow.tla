----------------------------- MODULE ForecastFlow ----------------------------
(* The life of the forecast records of one planning cycle: forecast runs an   *)
(* instance, forecast_validation judges the value, forecast hands a passed    *)
(* one to the next agent or reruns a failed one, people and deadlines close   *)
(* the escalations, a receiver takes the record or sends it back.  Everybody  *)
(* works on the one State and is called by signals that                       *)
(* StateStore.update_state sends.                                             *)
(*                                                                            *)
(* Every handler below runs to its end without suspending, so it is one       *)
(* action.  A channel is the set of the records it has signals for: a handler *)
(* may end without its ack (it raised after its update, or was late), and     *)
(* then the signal stays, which also covers a second signal for one record    *)
(* (SignalQueue implements AtLeastOnce).                                      *)
EXTENDS Naturals, Sequences, RecordState, Escalations

CONSTANTS
  Instances,       \* the forecast instances, one per (company, item)
  Receivers,       \* known_agents of forecast's card
  MaxMeans,        \* how often at most reruns may find a way to change a value
  MaxEscalations,  \* bound: nobody causes a further escalation by choice
  MaxCardEdits,    \* bound: changes of the receivers' cards
  MaxSendBacks,    \* bound: values sent back by a receiver
  MaxRestarts      \* bound: new runs of the cycle on the same State

Forecast == "forecast"
Validator == "forecast_validation"
Channels == {Forecast, Validator} \cup Receivers

ASSUME FlowAssumption ==
  /\ Receivers \cap {"none", Forecast, Validator, "human_manager", "system_operator"} = {}
  /\ {MaxMeans, MaxEscalations, MaxCardEdits, MaxSendBacks, MaxRestarts} \subseteq Nat

VARIABLES
  rec,        \* forecast_records
  esc,        \* escalation_records
  accepting,  \* the receivers whose card's accepts is forecast's produces
  pending,    \* pending[c]: the records channel c has signals for
  due,        \* escalation numbers with a deadline signal in forecast's channel
  sentDue,    \* Scheduler._sent_deadlines
  firstRun,   \* instances whose task has not made its first run
  means,      \* runtime.handling: how often a rerun can still change the value
  returned,   \* misrouted_send_back log: who returned the record as it passed
  received,   \* history: the receiver took the record as it stands
  budget      \* what is left of the bounds on card edits, send-backs, restarts

state == <<rec, esc>>
env == <<accepting, budget>>
vars == <<state, pending, due, sentDue, firstRun, means, returned, received, env>>

NoRecord == [value |-> FALSE, basis |-> "none", verdict |-> "none",
             forwardTo |-> "none", sendBack |-> "none"]

Init ==
  /\ rec = [i \in Instances |-> NoRecord]
  /\ esc = <<>>
  /\ accepting \in SUBSET Receivers
  /\ pending = [c \in Channels |-> {}]
  /\ due = {}
  /\ sentDue = {}
  /\ firstRun = Instances
  /\ means = [i \in Instances |-> 0]
  /\ returned = [i \in Instances |-> {}]
  /\ received = [i \in Instances |-> FALSE]
  /\ budget = [edits |-> MaxCardEdits, sendBacks |-> MaxSendBacks, restarts |-> MaxRestarts]

------------------------------------------------------------------------------
(* What the State says of an instance *)

\* record_state: forecast's card has a produces, and forecast has a validator.
State(i) == ComputeRecordState(rec[i], OpenTargets(esc, i), FALSE, TRUE)
Owner(i) == OwnerChannel(State(i), rec[i], Forecast, Validator)

Held(i) == OpenTargets(esc, i) # {}
Dismissed(i) == IsDismissed(esc, i)
NoDemand(i) == ~rec[i].value /\ ExpiredWithoutDemand(esc, i)

\* instance_statuses: how supply coordination sees the instance (InstanceLife).
InstanceKind(i) ==
  IF ~Dismissed(i) /\ Held(i)          THEN "held"
  ELSE IF Dismissed(i) \/ NoDemand(i) THEN "gone"
  ELSE IF State(i) = "forwarded"      THEN "delivered"
  ELSE "processing"

(* update_state, after the State was replaced *)

\* The creators of escalations that have a card.
HasCard == {Forecast} \cup Receivers

Closed(i, c) ==
  \E k \in DOMAIN esc :
    /\ esc[k].inst = i /\ esc[k].creator = c
    /\ esc[k].status = "open" /\ esc'[k].status # "open"

\* MUTANT of Told: the creator of a closed escalation is told nothing more.
ToldOfStatesOnly(c, i) ==
  \/ State(i)' # State(i) /\ c = Owner(i)'
  \/ State(i)' # State(i) /\ {State(i), State(i)'} \cap HoldStates # {} /\ c \in Receivers

\* MUTANT of Told: the agents that forecast knows do not hear of holds.
ToldOwnerAndCreator(c, i) ==
  \/ State(i)' # State(i) /\ c = Owner(i)'
  \/ c \in HasCard /\ Closed(i, c)

\* Whom the update tells of record i: the owner of the state it entered; the
\* agents forecast knows, when a hold began or ended; the creator of an
\* escalation that was closed.
Told(c, i) ==
  \/ State(i)' # State(i) /\ c = Owner(i)'
  \/ State(i)' # State(i) /\ {State(i), State(i)'} \cap HoldStates # {} /\ c \in Receivers
  \/ c \in HasCard /\ Closed(i, c)

\* taken: the signals acknowledged in the step, as <<channel, instance>>.
Notify(taken) ==
  pending' = [c \in Channels |->
                {i \in Instances : (i \in pending[c] /\ <<c, i>> \notin taken) \/ Told(c, i)}]

\* A handler's ack; without it the signal will be delivered again.
Taken(c, i) == {{}, {<<c, i>>}}

------------------------------------------------------------------------------
(* Writing a record *)

\* MUTANT of Unvalidated: a new value keeps the old verdict.
VerdictKept(r) == [r EXCEPT !.forwardTo = "none", !.sendBack = "none"]

Unvalidated(r) == [r EXCEPT !.verdict = "none", !.forwardTo = "none", !.sendBack = "none"]

Write(i, r) ==
  /\ rec' = [rec EXCEPT ![i] = r]
  /\ received' = [received EXCEPT ![i] = FALSE]

Hold(i, creator, reason) == esc' = Append(esc, NewEscalation(creator, reason, i))
NoHold == UNCHANGED esc

\* An escalation that the bound lets the model add by choice.
MayHold == Len(esc) < MaxEscalations

(* forecast: _plan_selection, _apply_plan, _run_guarded *)

\* Assumptions were computed: a value, or a value that needs confirmation.
ValueFound(i) ==
  /\ Write(i, [Unvalidated(rec[i]) EXCEPT !.value = TRUE, !.basis = "rule"])
  /\ NoHold \/ (MayHold /\ Hold(i, Forecast, "selection_unresolved"))

\* No assumption is left.
NothingFound(i, afterRerun) ==
  IF afterRerun /\ rec[i].value
  THEN /\ Write(i, Unvalidated(rec[i]))
       /\ Hold(i, Forecast, "options_exhausted")
  ELSE /\ Write(i, [Unvalidated(rec[i]) EXCEPT !.value = FALSE, !.basis = "none"])
       /\ Hold(i, Forecast, "no_computable_assumption")

RunError(i) ==
  /\ MayHold
  /\ Hold(i, Forecast, "forecast_run_error")
  /\ UNCHANGED <<rec, received, means>>

\* run_first_run
Run(i) ==
  \/ ValueFound(i) /\ means' = [means EXCEPT ![i] = MaxMeans]
  \/ MayHold /\ NothingFound(i, FALSE) /\ means' = [means EXCEPT ![i] = 0]
  \/ RunError(i)

\* MUTANT of Rerun: an assumption whose inputs did not change is kept.
RerunUnchanged(i) ==
  \/ ValueFound(i) /\ UNCHANGED means
  \/ NothingFound(i, TRUE) /\ means' = [means EXCEPT ![i] = 0]
  \/ RunError(i)

\* MUTANT of Rerun: it does not notice that nothing is left to change.
RerunPastTheEnd(i) == ValueFound(i) /\ means' = [means EXCEPT ![i] = @ - 1]

\* rerun_forecast_steps_select_and_submit: a rerun that changes no input of an
\* assumption drops it, so each rerun uses up some of the means.
Rerun(i) ==
  \/ /\ means[i] > 0
     /\ ValueFound(i)
     /\ \E m \in 0..(means[i] - 1) : means' = [means EXCEPT ![i] = m]
  \/ NothingFound(i, TRUE) /\ means' = [means EXCEPT ![i] = 0]
  \/ RunError(i)

\* MUTANT of Candidates: those who returned the record are not excluded.
AllAccepting(i) == accepting

\* select_next_agent
Candidates(i) == accepting \ returned[i]

SelectNextAgent(i) ==
  LET base == [rec[i] EXCEPT !.sendBack = "none", !.forwardTo = "none"] IN
  /\ \/ \E a \in Receivers : /\ Candidates(i) = {a}
                             /\ Write(i, [base EXCEPT !.forwardTo = a])
                             /\ NoHold
     \/ /\ Candidates(i) = {}
        /\ Write(i, base) /\ Hold(i, Forecast, "no_next_agent")
     \/ /\ \E a, b \in Candidates(i) : a # b
        /\ Write(i, base) /\ Hold(i, Forecast, "multiple_next_agents")
  /\ UNCHANGED means

------------------------------------------------------------------------------
(* handle_forecast_signal, check_forecast_verdict *)

\* MUTANT of NeedsRun: a first run does not look for a hold (skip_if_held).
NeedsRunThoughHeld(i) ==
  ~Dismissed(i) /\ ~rec[i].value /\ State(i) \in {"none"} \cup HoldStates /\ ~NoDemand(i)

NeedsRun(i) == ~Dismissed(i) /\ State(i) = "none" /\ ~NoDemand(i)

\* MUTANT of NeedsSelection: any verdict will do.
NeedsSelectionAnyVerdict(i) ==
  /\ ~Dismissed(i)
  /\ State(i) = "judged" \/ (State(i) = "sent_back" /\ rec[i].sendBack = "misrouted")

NeedsSelection(i) ==
  /\ ~Dismissed(i)
  /\ Passed(rec[i]) /\ rec[i].value
  /\ State(i) = "judged" \/ (State(i) = "sent_back" /\ rec[i].sendBack = "misrouted")

\* MUTANT of NeedsRerun: a dismissed instance is not left out.
NeedsRerunThoughDismissed(i) ==
  \/ State(i) = "sent_back" /\ rec[i].sendBack = "value"
  \/ State(i) = "judged" /\ ~Passed(rec[i]) /\ rec[i].verdict = "failed"

NeedsRerun(i) ==
  /\ ~Dismissed(i)
  /\ \/ State(i) = "sent_back" /\ rec[i].sendBack = "value"
     \/ State(i) = "judged" /\ ~Passed(rec[i]) /\ rec[i].verdict = "failed"

HandleRecord(i) ==
  \/ NeedsRun(i) /\ Run(i)
  \/ NeedsSelection(i) /\ SelectNextAgent(i)
  \/ NeedsRerun(i) /\ Rerun(i)
  \/ /\ ~NeedsRun(i) /\ ~NeedsSelection(i) /\ ~NeedsRerun(i)
     /\ UNCHANGED <<state, received, means>>

\* run_instance: the first run needs no signal and comes before any.
FirstRun(i) ==
  /\ i \in firstRun
  /\ firstRun' = firstRun \ {i}
  /\ HandleRecord(i)
  /\ Notify({})
  /\ UNCHANGED <<due, sentDue, returned, env>>

HandleSignal(i) ==
  /\ i \in pending[Forecast] /\ i \notin firstRun
  /\ HandleRecord(i)
  /\ \E taken \in Taken(Forecast, i) : Notify(taken)
  /\ UNCHANGED <<due, sentDue, firstRun, returned, env>>

\* MUTANT of Expirable: the deadline does not look whether somebody answered.
ExpirableThoughClosed(k) == esc[k].creator = Forecast /\ HasDeadline(esc[k].reason)

\* expire_forecast_escalation, called by the scheduler's signal.
Expirable(k) ==
  /\ esc[k].creator = Forecast
  /\ esc[k].status = "open"
  /\ HasDeadline(esc[k].reason)

Expire(k) ==
  LET i == esc[k].inst IN
  /\ esc' = [esc EXCEPT ![k].status = "expired"]
  /\ IF esc[k].reason \in ProceedWithValue
     THEN /\ rec[i].value
          /\ Write(i, [Unvalidated(rec[i]) EXCEPT !.basis = "expiry"])
          /\ returned' = [returned EXCEPT ![i] = {}]
     ELSE UNCHANGED <<rec, received, returned>>

HandleDeadline(k) ==
  /\ k \in due /\ esc[k].inst \notin firstRun
  /\ \/ Expirable(k) /\ Expire(k)
     \/ ~Expirable(k) /\ UNCHANGED <<state, received, returned>>
  /\ due' \in {due, due \ {k}}
  /\ Notify({})
  /\ UNCHANGED <<sentDue, firstRun, means, env>>

\* Scheduler.tick, for one escalation whose deadline has passed.
TickDeadline(k) ==
  /\ k \in DOMAIN esc \ sentDue
  /\ esc[k].status = "open" /\ HasDeadline(esc[k].reason)
  /\ due' = due \cup {k}
  /\ sentDue' = sentDue \cup {k}
  /\ UNCHANGED <<state, pending, firstRun, means, returned, received, env>>

------------------------------------------------------------------------------
(* validate_job *)

Judge(i) ==
  \/ \E verdict \in {"passed", "failed"} :
       Write(i, [rec[i] EXCEPT !.verdict = verdict]) /\ NoHold
  \/ /\ MayHold
     /\ Write(i, [rec[i] EXCEPT !.verdict = "error"])
     /\ Hold(i, Validator, "validation_error")

Validate(i) ==
  /\ i \in pending[Validator]
  /\ \/ /\ State(i) = "awaiting_validation"
        /\ Judge(i)
        /\ returned' = [returned EXCEPT ![i] = {}]
     \/ State(i) # "awaiting_validation" /\ UNCHANGED <<state, received, returned>>
  /\ \E taken \in Taken(Validator, i) : Notify(taken)
  /\ UNCHANGED <<due, sentDue, firstRun, means, env>>

(* receive_forwarded_forecast, send_back_misrouted *)

Receive(a, i) ==
  /\ i \in pending[a]
  /\ LET mine == State(i) = "forwarded" /\ rec[i].forwardTo = a /\ rec[i].value IN
     \/ /\ mine /\ a \in accepting
        /\ received' = [received EXCEPT ![i] = TRUE]
        /\ UNCHANGED <<rec, returned>>
     \/ /\ mine /\ a \notin accepting
        /\ Write(i, [rec[i] EXCEPT !.sendBack = "misrouted"])
        /\ returned' = [returned EXCEPT ![i] = @ \cup {a}]
     \/ ~mine /\ UNCHANGED <<rec, received, returned>>
  /\ UNCHANGED esc
  /\ \E taken \in Taken(a, i) : Notify(taken)
  /\ UNCHANGED <<due, sentDue, firstRun, means, env>>

\* A receiver finds the value infeasible and sends it back (no agent in src/
\* writes this yet; forecast's side of it is in check_forecast_verdict).
SendBackValue(a, i) ==
  /\ budget.sendBacks > 0
  /\ State(i) = "forwarded" /\ rec[i].forwardTo = a /\ received[i]
  /\ Write(i, [rec[i] EXCEPT !.sendBack = "value"])
  /\ NoHold
  /\ Notify({})
  /\ budget' = [budget EXCEPT !.sendBacks = @ - 1]
  /\ UNCHANGED <<due, sentDue, firstRun, means, returned, accepting>>

(* resolve_escalation *)

HumanResolve(k) ==
  LET i == esc[k].inst IN
  /\ esc[k].status = "open" /\ TargetRole(esc[k].reason) = "human_manager"
  /\ esc' = [esc EXCEPT ![k].status = "resolved", ![k].kind = "value"]
  /\ Write(i, [Unvalidated(rec[i]) EXCEPT !.value = TRUE, !.basis = "human"])
  /\ returned' = [returned EXCEPT ![i] = {}]
  /\ Notify({})
  /\ UNCHANGED <<due, sentDue, firstRun, means, env>>

SystemResolve(k) ==
  LET i == esc[k].inst IN
  /\ esc[k].status = "open" /\ TargetRole(esc[k].reason) = "system_operator"
  /\ \E kind \in {"rerun", "dismiss"} :
       /\ kind = "rerun" => MayHold
       /\ esc' = [esc EXCEPT ![k].status = "resolved", ![k].kind = kind]
       /\ IF kind = "rerun" /\ esc[k].reason = "validation_error"
          THEN Write(i, [rec[i] EXCEPT !.verdict = "none"])
          ELSE UNCHANGED <<rec, received>>
  /\ Notify({})
  /\ UNCHANGED <<due, sentDue, firstRun, means, returned, env>>

\* Someone edits the agent cards: a receiver takes up or gives up this work.
EditCard(a) ==
  /\ budget.edits > 0
  /\ accepting' = IF a \in accepting THEN accepting \ {a} ELSE accepting \cup {a}
  /\ budget' = [budget EXCEPT !.edits = @ - 1]
  /\ UNCHANGED <<state, pending, due, sentDue, firstRun, means, returned, received>>

\* run_planning_cycle again on the same State: every instance makes a first run
\* again and the results kept for reruns are gone (ensure_handling); with them
\* may go what the scheduler remembers.  The signals stay in their queues.
Restart ==
  /\ budget.restarts > 0
  /\ firstRun' = Instances
  /\ means' = [i \in Instances |-> MaxMeans]
  /\ sentDue' \in {{}, sentDue}
  /\ budget' = [budget EXCEPT !.restarts = @ - 1]
  /\ UNCHANGED <<state, pending, due, returned, received, accepting>>

------------------------------------------------------------------------------
ForecastStep(i) == FirstRun(i) \/ HandleSignal(i)

Next ==
  \/ \E i \in Instances : ForecastStep(i) \/ Validate(i)
  \/ \E a \in Receivers, i \in Instances : Receive(a, i) \/ SendBackValue(a, i)
  \/ \E k \in DOMAIN esc :
       HandleDeadline(k) \/ TickDeadline(k) \/ HumanResolve(k) \/ SystemResolve(k)
  \/ \E a \in Receivers : EditCard(a)
  \/ Restart

Spec == Init /\ [][Next]_vars

\* Every task gets its turn, a signal is delivered until a delivery of it is
\* acknowledged (a delivery that changes nothing and is not acknowledged is a
\* stutter), and the scheduler wakes up; no person owes the system anything.
Fairness ==
  /\ \A i \in Instances :
       /\ WF_vars(FirstRun(i))
       /\ WF_vars(HandleSignal(i))
       /\ WF_vars(Validate(i))
       /\ \A a \in Receivers : WF_vars(Receive(a, i))
  /\ WF_vars(\E k \in DOMAIN esc : HandleDeadline(k))
  /\ WF_vars(\E k \in DOMAIN esc : TickDeadline(k))

FairSpec == Spec /\ Fairness

------------------------------------------------------------------------------
Agents == {"none"} \cup Receivers
Record ==
  [value : BOOLEAN, basis : {"none", "rule", "human", "expiry"},
   verdict : {"none", "passed", "failed", "error"},
   forwardTo : Agents, sendBack : {"none", "misrouted", "value"}]

\* The State, the channels and the tasks' memory hold what the code lets them.
TypeOK ==
  /\ rec \in [Instances -> Record]
  /\ esc \in Seq(Escalation(Instances, {Forecast, Validator}))
  /\ accepting \subseteq Receivers
  /\ pending \in [Channels -> SUBSET Instances]
  /\ due \subseteq DOMAIN esc /\ sentDue \subseteq DOMAIN esc
  /\ firstRun \subseteq Instances
  /\ means \in [Instances -> 0..MaxMeans]
  /\ returned \in [Instances -> SUBSET Receivers]
  /\ received \in [Instances -> BOOLEAN]
  /\ budget \in [edits : 0..MaxCardEdits, sendBacks : 0..MaxSendBacks,
                 restarts : 0..MaxRestarts]

HasWork(i) == NeedsRun(i) \/ NeedsSelection(i) \/ NeedsRerun(i)

\* No doorbell is lost: whoever must work on a record next has a signal for it
\* (or has not made its first run), although signals are sent only when a
\* computed state changes and every handler acknowledges what it skipped.
DoorbellRings ==
  /\ \A i \in Instances :
       /\ HasWork(i) => i \in firstRun \cup pending[Forecast]
       /\ State(i) = "awaiting_validation" => i \in pending[Validator]
       /\ State(i) = "forwarded" => received[i] \/ i \in pending[rec[i].forwardTo]
  /\ \A k \in sentDue : esc[k].status = "open" => k \in due

\* An instance is held by one escalation at a time: the person who closes it
\* decides, and nothing else stops the instance.
OneOpenHold ==
  \A j, k \in DOMAIN esc :
    /\ esc[j].inst = esc[k].inst
    /\ esc[j].status = "open" /\ esc[k].status = "open"
    => j = k

\* What is held can be let go: an expiring escalation that proceeds with the
\* value has one (expire_forecast_escalation raises otherwise, for ever), and
\* a person's value is asked for only while the record is not with a receiver.
HoldIsConsistent ==
  \A k \in DOMAIN esc : esc[k].status = "open" =>
    LET r == rec[esc[k].inst] IN
    /\ esc[k].reason \in ProceedWithValue => r.value /\ r.verdict = "none"
    /\ esc[k].reason \in ProceedWithoutDemand => ~r.value
    /\ esc[k].reason = "validation_error" => r.verdict = "error"
    /\ esc[k].reason \in {"no_next_agent", "multiple_next_agents"} => Passed(r)
    /\ r.forwardTo # "none" => r.sendBack = "value"

\* Only a checked value leaves forecast: what was handed on passed, or a person
\* or a deadline decided it, and never carries a verdict besides that decision.
OnlyPassedHandedOn ==
  \A i \in Instances :
    /\ rec[i].forwardTo # "none" => Passed(rec[i]) /\ rec[i].value
    /\ received[i] => State(i) = "forwarded"
    /\ IsExemptPassed(rec[i]) => rec[i].verdict = "none"

\* A record is not handed again, as it passed, to a receiver that returned it,
\* whatever happened to the cards in between.
NotBackToReturner ==
  \A i \in Instances : State(i) = "forwarded" => rec[i].forwardTo \notin returned[i]

\* While an instance is held, and after it was dismissed, nobody changes its
\* record, and a dismissed one is never held again, whatever signals still
\* arrive.
LeftAlone(i) ==
  /\ Held(i) /\ Held(i)' => rec'[i] = rec[i]
  /\ Dismissed(i) => rec'[i] = rec[i] /\ ~Held(i)'

HeldStaysPut == [][\A i \in Instances : LeftAlone(i)]_state

\* An escalation is closed once, by whoever comes first of the person and the
\* deadline, and stays as it was closed.
ClosedOnce ==
  [][\A k \in DOMAIN esc : esc[k].status # "open" => esc'[k] = esc[k]]_esc

\* A person's value is replaced only when a receiver sent it back.
HumanValueStands ==
  [][\A i \in Instances :
       rec[i].basis = "human" /\ rec'[i].basis # "human"
         => \/ rec[i].sendBack = "value"
            \/ \E k \in DOMAIN esc : /\ esc[k].inst = i /\ esc[k].status = "open"
                                     /\ esc[k].reason = "options_exhausted"]_rec

\* The cycle comes to rest with every instance, without anybody's help:
\* delivered, dismissed, without demand, or with the system operator.
Settled(i) ==
  received[i] \/ Dismissed(i) \/ NoDemand(i) \/ State(i) = "awaiting_system"

EverySettles == \A i \in Instances : <>[]Settled(i)

------------------------------------------------------------------------------
(* The view of the coordinator *)

\* What instance_statuses says, and whom the receivers have a signal for.
KindOf == [i \in Instances |-> InstanceKind(i)]
Bell == UNION {pending[a] : a \in Receivers}

Life == INSTANCE InstanceLife WITH kind <- KindOf, bell <- Bell

\* Supply coordination (the receivers, if there are more) is told of every
\* instance that is delivered, stopped, let go or given up, and sees no other
\* change of one: the regular coordination of a line, which waits until no
\* instance is processing, misses no turn.
ImplementsInstanceLife == Life!LifeSpec
==============================================================================
