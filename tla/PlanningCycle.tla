----------------------------- MODULE PlanningCycle -----------------------------
(* cycle_runner: planning cycles over the forecast channel with its router,   *)
(* inboxes and instance tasks, the coordinator and a validation agent, and    *)
(* run_planning_cycle, which ends when is_idle says so twice.  What a signal  *)
(* makes its receiver do is left out; ForecastFlow and LineCoordination have  *)
(* that.  The channels are SignalQueue's, with deadlines reduced to their     *)
(* order: whose deadline comes first may be requeued first.                   *)
EXTENDS Naturals, Sequences, SequencesExt, FiniteSets, Functions

CONSTANTS
  Instances,   \* the forecast instances
  MaxSignals,  \* bound: signals that are sent
  MaxCycles,   \* bound: calls of run_planning_cycle
  MaxFaults,   \* bound: handlers that raise
  MaxLate      \* bound: deadlines that pass while somebody has the signal

ASSUME CycleAssumption ==
  /\ Instances # {} /\ IsFiniteSet(Instances)
  /\ Instances \cap {"unknown", "coordination", "validation"} = {}
  /\ {MaxSignals, MaxCycles, MaxFaults, MaxLate} \subseteq Nat

\* Where a signal leads: to an instance by its record path, to no instance that
\* is known, to the coordinator or to the validation agent.
Destinations == Instances \cup {"unknown", "coordination", "validation"}
Channels == {"forecast", "coordination", "validation"}
ChannelOf(d) == IF d \in {"coordination", "validation"} THEN d ELSE "forecast"

VARIABLES
  phase,     \* "new", "running", or how the last cycle ended: "done", "timeout"
  poll,      \* "look" at is_idle, or "confirm" it
  to,        \* to[s]: the destination of signal s; signals are numbered as sent
  ready,     \* ready[c], inFlight[c]: the channels
  inFlight,
  inbox,     \* inboxes
  queued,    \* _queued
  pending,   \* first_runs_pending
  ran,       \* the instances whose first run of this cycle is over
  work,      \* work[w]: the signal that task w handles
  handled,   \* history: the signals whose handling was completed
  cycles,    \* cycles started
  budget     \* what is left of MaxFaults and MaxLate

channels == <<ready, inFlight>>
forecast == <<inbox, queued, pending>>
vars == <<phase, poll, to, channels, forecast, work, handled, ran, cycles, budget>>

Tasks == Instances \cup {"coordination"}
Signals == DOMAIN to
NoSignal == 0

Init ==
  /\ phase = "new" /\ poll = "look"
  /\ to = <<>>
  /\ ready = [c \in Channels |-> <<>>]
  /\ inFlight = [c \in Channels |-> <<>>]
  /\ inbox = [i \in Instances |-> <<>>]
  /\ queued = {}
  /\ pending = 0
  /\ work = [w \in Tasks |-> NoSignal]
  /\ handled = {} /\ ran = {}
  /\ cycles = 0
  /\ budget = [faults |-> MaxFaults, late |-> MaxLate]

Running == phase = "running"
Spend(what) == budget[what] > 0 /\ budget' = [budget EXCEPT ![what] = @ - 1]

------------------------------------------------------------------------------
(* The channels *)

\* put_nowait of a new signal; by a handler, a person or the scheduler.
Put(d) ==
  /\ Len(to) < MaxSignals
  /\ to' = Append(to, d)
  /\ ready' = [ready EXCEPT ![ChannelOf(d)] = Append(@, Len(to) + 1)]

Send(d) ==
  /\ cycles > 0 /\ Put(d)
  /\ UNCHANGED <<phase, poll, inFlight, forecast, work, handled, ran, cycles, budget>>

\* get: the first signal that is ready.
FirstOf(c) == Head(ready[c])
Taken(c) == [ready EXCEPT ![c] = Tail(@)]

\* ack: among the signals in flight first, then among the ready ones.
IndexOf(s, seq) == CHOOSE k \in DOMAIN seq : seq[k] = s
Without(seq, s) == IF Contains(seq, s) THEN RemoveAt(seq, IndexOf(s, seq)) ELSE seq

Acknowledge(c, s) ==
  IF Contains(inFlight[c], s)
  THEN inFlight' = [inFlight EXCEPT ![c] = Without(@, s)] /\ UNCHANGED ready
  ELSE ready' = [ready EXCEPT ![c] = Without(@, s)] /\ UNCHANGED inFlight

\* Some task or inbox has the signal.
InHand(s) == s \in Range(work) \/ \E i \in Instances : Contains(inbox[i], s)

\* _requeue_expired
Requeue(c) ==
  /\ ready' = [ready EXCEPT ![c] = Append(@, Head(inFlight[c]))]
  /\ inFlight' = [inFlight EXCEPT ![c] = Tail(@)]
  /\ UNCHANGED <<phase, poll, to, forecast, work, handled, ran, cycles>>

\* The deadline of a signal whose handler raised, or was cancelled.
Reappears(c) ==
  /\ inFlight[c] # <<>> /\ ~InHand(Head(inFlight[c]))
  /\ Requeue(c) /\ UNCHANGED budget

\* The deadline of a signal that waits in an inbox or is being handled.
Late(c) ==
  /\ inFlight[c] # <<>> /\ InHand(Head(inFlight[c]))
  /\ Spend("late") /\ Requeue(c)

------------------------------------------------------------------------------
(* ForecastInstances *)

\* run_router, up to the choice what to do with the signal.
RouterGets(s) ==
  /\ Running /\ ready["forecast"] # <<>> /\ s = FirstOf("forecast")
  /\ ready' = Taken("forecast")
  /\ UNCHANGED <<phase, poll, to, pending, work, ran, cycles, budget>>

\* A signal for no known instance is acknowledged.
RouteUnknown(s) ==
  /\ RouterGets(s) /\ to[s] = "unknown"
  /\ handled' = handled \cup {s}
  /\ UNCHANGED <<inFlight, inbox, queued>>

\* MUTANT of IsQueued: a signal is put into the inbox whenever it comes.
NeverQueued(s) == FALSE

\* It reappeared while the inbox has it; it is in flight again.
IsQueued(s) == s \in queued

RouteAgain(s) ==
  /\ RouterGets(s) /\ to[s] # "unknown" /\ IsQueued(s)
  /\ inFlight' = [inFlight EXCEPT !["forecast"] = Append(@, s)]
  /\ UNCHANGED <<inbox, queued, handled>>

Route(s) ==
  /\ RouterGets(s) /\ to[s] # "unknown" /\ ~IsQueued(s)
  /\ inFlight' = [inFlight EXCEPT !["forecast"] = Append(@, s)]
  /\ inbox' = [inbox EXCEPT ![to[s]] = Append(@, s)]
  /\ queued' = queued \cup {s}
  /\ UNCHANGED handled

\* run_instance: the first run is over, or raised; the count goes down anyway.
FirstRunEnds(i) ==
  /\ Running /\ i \notin ran
  /\ pending' = pending - 1
  /\ ran' = ran \cup {i}
  /\ UNCHANGED <<phase, poll, to, channels, inbox, queued, work, handled, cycles, budget>>

\* MUTANT of WithoutTaken: a signal is forgotten only with its acknowledgement.
StaysQueued(s) == queued

\* A signal that is being handled may be put into the inbox again.
WithoutTaken(s) == queued \ {s}

Take(i) ==
  /\ Running /\ i \in ran /\ work[i] = NoSignal /\ inbox[i] # <<>>
  /\ work' = [work EXCEPT ![i] = Head(inbox[i])]
  /\ inbox' = [inbox EXCEPT ![i] = Tail(@)]
  /\ queued' = WithoutTaken(Head(inbox[i]))
  /\ UNCHANGED <<phase, poll, to, channels, pending, handled, ran, cycles, budget>>

------------------------------------------------------------------------------
(* The other consumers *)

\* SupplyCoordinator.run
CoordinatorGets ==
  /\ Running /\ work["coordination"] = NoSignal /\ ready["coordination"] # <<>>
  /\ work' = [work EXCEPT !["coordination"] = FirstOf("coordination")]
  /\ ready' = Taken("coordination")
  /\ inFlight' = [inFlight EXCEPT !["coordination"] = Append(@, FirstOf("coordination"))]
  /\ UNCHANGED <<phase, poll, to, forecast, handled, ran, cycles, budget>>

\* _process, and the coordinator's: acknowledged when it is done,
Finish(w) ==
  /\ Running /\ work[w] # NoSignal
  /\ work' = [work EXCEPT ![w] = NoSignal]
  /\ handled' = handled \cup {work[w]}
  /\ Acknowledge(ChannelOf(w), work[w])
  /\ UNCHANGED <<phase, poll, to, forecast, ran, cycles, budget>>

\* and not if the handler raises.
Raise(w) ==
  /\ Running /\ work[w] # NoSignal /\ Spend("faults")
  /\ work' = [work EXCEPT ![w] = NoSignal]
  /\ UNCHANGED <<phase, poll, to, channels, forecast, handled, ran, cycles>>

\* run_validator: validate_job suspends nowhere.
Judges ==
  /\ Running /\ ready["validation"] # <<>>
  /\ ready' = Taken("validation")
  /\ handled' = handled \cup {FirstOf("validation")}
  /\ UNCHANGED <<phase, poll, to, inFlight, forecast, work, ran, cycles, budget>>

JudgeRaises ==
  /\ Running /\ ready["validation"] # <<>> /\ Spend("faults")
  /\ ready' = Taken("validation")
  /\ inFlight' = [inFlight EXCEPT !["validation"] = Append(@, FirstOf("validation"))]
  /\ UNCHANGED <<phase, poll, to, forecast, work, handled, ran, cycles>>

------------------------------------------------------------------------------
(* run_planning_cycle *)

\* New ForecastInstances, one task each; notify_cycle_started.
Begin ==
  /\ ~Running /\ cycles < MaxCycles
  /\ phase' = "running" /\ poll' = "look" /\ cycles' = cycles + 1
  /\ inbox' = [i \in Instances |-> <<>>]
  /\ queued' = {}
  /\ pending' = Cardinality(Instances)
  /\ work' = [w \in Tasks |-> NoSignal]
  /\ ran' = {}
  /\ Put("coordination")
  /\ UNCHANGED <<inFlight, handled, budget>>

\* MUTANT of is_idle: only what is ready counts.
NothingReady == pending = 0 /\ \A c \in Channels : ready[c] = <<>>

\* is_idle
is_idle ==
  pending = 0 /\ \A c \in Channels : ready[c] = <<>> /\ inFlight[c] = <<>>

\* The tasks are cancelled, wherever they are.
End(how) ==
  /\ phase' = how /\ poll' = "look"
  /\ work' = [w \in Tasks |-> NoSignal]
  /\ UNCHANGED <<to, channels, forecast, handled, ran, cycles, budget>>

Look ==
  /\ Running /\ poll = "look" /\ is_idle
  /\ poll' = "confirm"
  /\ UNCHANGED <<phase, to, channels, forecast, work, handled, ran, cycles, budget>>

Confirm == Running /\ poll = "confirm" /\ is_idle /\ End("done")

LookAgain ==
  /\ Running /\ poll = "confirm" /\ ~is_idle
  /\ poll' = "look"
  /\ UNCHANGED <<phase, to, channels, forecast, work, handled, ran, cycles, budget>>

\* asyncio.timeout
TimeOut == Running /\ End("timeout")

Next ==
  \/ \E d \in Destinations : Send(d)
  \/ \E c \in Channels : Reappears(c) \/ Late(c)
  \/ \E s \in Signals : RouteUnknown(s) \/ RouteAgain(s) \/ Route(s)
  \/ \E i \in Instances : FirstRunEnds(i) \/ Take(i)
  \/ CoordinatorGets
  \/ \E w \in Tasks : Finish(w) \/ Raise(w)
  \/ Judges \/ JudgeRaises
  \/ Begin \/ Look \/ Confirm \/ LookAgain \/ TimeOut

\* The tasks go on as long as the loop runs, a deadline passes in the end.
\* Nobody owes a signal, a fault, a late deadline, another cycle or the timeout.
Fairness ==
  /\ \A c \in Channels : WF_vars(Reappears(c))
  /\ WF_vars(\E s \in Signals : RouteUnknown(s) \/ RouteAgain(s) \/ Route(s))
  /\ \A i \in Instances : WF_vars(FirstRunEnds(i)) /\ WF_vars(Take(i))
  /\ WF_vars(CoordinatorGets)
  /\ \A w \in Tasks : WF_vars(Finish(w))
  /\ WF_vars(Judges)
  /\ WF_vars(Look \/ LookAgain)
  /\ WF_vars(Confirm)

Spec == Init /\ [][Next]_vars
FairSpec == Spec /\ Fairness

------------------------------------------------------------------------------
(* Properties *)

\* The identity set is what the inboxes hold; an inbox holds only signals for
\* its instance, and none of them twice, however often their deadlines pass.
\* What an inbox holds is in the channel, unless a redelivery was already
\* acknowledged by the task that had it.
BoxesMatch ==
  /\ queued = UNION {Range(inbox[i]) : i \in Instances}
  /\ \A i \in Instances :
       /\ IsInjective(inbox[i])
       /\ \A s \in Range(inbox[i]) :
            /\ to[s] = i
            /\ Contains(ready["forecast"] \o inFlight["forecast"], s) \/ s \in handled

\* A cycle ends without a timeout only when every instance had its first run and
\* every signal that was ever sent, in this cycle or before, was handled by its
\* receiver; a handler that is cancelled then was repeating one that completed.
NoEarlyEnd ==
  [][Running /\ phase' = "done" => ran = Instances /\ Signals \subseteq handled]_vars

\* A cycle ends, though handlers raise and deadlines pass, if signals stop coming
\* and no handler raises every time.
CycleEnds == [](Running => <>(~Running))

==============================================================================
