# TLA+ models of the demand–supply negotiation system

The program plans a manufacturing month with a set of agents that run as asyncio
tasks on one shared `State`. Forecast instances decide how much each (company,
item) will ask for, a validator judges the value, a passed value is handed to
supply coordination, which divides the supply of a production line, and two
human roles answer what the rules cannot decide. This directory holds TLA+
models of that code (`src/sop/*.py`), the TLC runs that check them, and proofs
that TLAPS checks.

## 1. The system

| Component | State it keeps | Operations | What makes it correct |
|---|---|---|---|
| Signal queue (`signal_queue.py`) | ready signals, signals in flight with a deadline, a wake-up event | `put_nowait`, `get`, `ack`, requeue of expired signals, `qsize`, `in_flight_count` | nothing lost or doubled; a failed handler sees its signal again; a poison signal starves nobody |
| State store (`access.py`) | the `State`, one queue per role, locks | `update_state` (atomic write, then the signals), `write_held`, `get_field`, `append_log` | whoever must act next is told; a write is all or nothing; append-only lists only grow |
| Record states (`record_state.py`) | none: computed from record, escalations, cards, settings | `compute_record_state`, `owner_channel` | every record that needs work has exactly one owner |
| Escalations (`escalation_records.py`, `escalation_resolution.py`, `forecast_escalation_expiry.py`) | the list of escalation records | create, resolve (value, rerun, dismiss), expire | one open hold per instance; closed once, by the person or by the deadline; a hold fits its record |
| Forecast (`forecast_signals.py`, `forecast_supply_allocation.py`) | the record | first run, rerun, select the next agent, forward | only passed values leave; held and dismissed instances stay put |
| Forecast's internal steps (`forecast_steps.py`, `forecast_assumption_*.py`, `data_source_judgment.py`, `forecast_driver_check.py`, `category_trend.py`, `forecast_method_selection.py`) | in memory the last result, the methods excluded so far | define assumptions, collect data, check drivers, select methods and calculate; rerun from a suspected cause | reruns end; a rerun touches only what its causes concern; what was dropped stays out and is accounted for |
| Validators (`validation_agent.py`, rules) | none | judge one record | a verdict is on the value that is in the record |
| Supply coordination (`supply_coordination_agent.py`, `supply_coordination_line.py`, `coordination_*.py`, `supply_allocation_rules.py`) | one allocation per line, the inputs of the last conclusion in the log | check a line, regular and continuing coordination, failed verdicts, change notices | every change is coordinated, urgent ones at once; a held line is left alone; never more allocated than supplied |
| Scheduler (`scheduler.py`) | next daily time, deadlines already signalled | `tick` | every deadline and every day is signalled |
| Cycle runner (`cycle_runner.py`) | inboxes, first runs that are pending | router, one task per instance, `is_idle` | a cycle ends only when nothing is left to do |
| Capacity pools (`capacity.py`) | remaining capacity of a line | adjust under a lock | no adjustment is lost |
| Repeat counting, manual quantities, schema, computation, data | – | pure functions, file input | see section 7 |

**Interaction.** Agents never call each other. An agent writes the State with
`update_state`; when the *computed state* of a record changes, the update puts a
signal, which carries only the record's position, into the channel of the new
owner. The receiver reads the State again, works if the state is its own, and
acknowledges the signal whether it worked or not. Two signals are extra: agents
that the author knows are told when a hold begins or ends, and the creator of an
escalation is told when it is closed. The scheduler adds deadline and daily
signals; outsiders add change notices.

**What is hard.** Signals are redelivered, late and stale; a hold can begin
between the signal and its handling; a person and a deadline race; cards change
between two steps; values are replaced while a verdict is under way; the loop of
verdict and rerun is not counted; the results it depends on are lost by a
restart; one coordination waits in the middle while its inputs change. The
complete list, each at its line, is under `hazards` in `PROJECT.json`.

## 2. Modules

| Module | Models | Proofs |
|---|---|---|
| `AtLeastOnce` | abstract: what a channel promises (pending until acknowledged) | refined by `SignalQueue` (TLC and proof) |
| `SignalQueue` | `signal_queue.py` with its workers and the clock | `SignalQueueProofs` |
| `Escalations` | the reason table and the questions asked of the records | |
| `RecordState` | `record_state.py` | |
| `ForecastFlow` | forecast, its validator, receivers, people, scheduler deadlines, on one State | `ForecastFlowProofs`, `ForecastBellProofs` |
| `InstanceLife` | abstract: what supply coordination sees of an instance and is told of it | refined by `ForecastFlow` (TLC and proof) |
| `LineCoordination` | supply coordination on its lines, the allocation validator, holds on lines, outside changes, the daily time | `LineCoordinationProofs` |
| `AllocationRules` | `supply_allocation_rules.py`, `coordination_changes.py`, `continuation_judgment`: pure operators | the lemmas in `LineAllocationProofs` |
| `LineAllocation` | the conclusions of one line in a row, with quantities | `LineAllocationProofs`, with the facts on sums of `FiniteSums` |
| `ForecastSteps` | forecast's steps 1-4 and `ForecastRerunHandling.rerun`: pure operators | |
| `ForecastRerun` | one instance with its validator, receiver, people and restarts, run after run | `ForecastRerunProofs` |
| `PlanningCycle` | `cycle_runner.py` over three channels: router, inboxes, tasks, `is_idle`, the end of a cycle | `PlanningCycleProofs` |
| `MCSignalQueue`, `MCForecastFlow`, `MCForecastRerun`, `MCPlanningCycle`, `MCLineCoordination`, `MCLineAllocation` | the instances TLC checks | |

`ForecastFlow` and `LineCoordination` both use `RecordState` and `Escalations`, as
forecast records and allocations go through the same `update_state`. They meet
in `InstanceLife`: `ForecastFlow` is shown to implement it
(`ImplementsInstanceLife`), and `LineCoordination` extends it, so the forecast
side of a line is its abstract view and not the whole flow once more.

### SignalQueue

`ready` and `inFlight` are `_ready` and `_in_flight`; an absolute deadline is
kept as the time that is left, and `Tick` takes one unit from every one of them,
so the clock is not a variable. `Get` and `Wait` are the two outcomes of one turn
of the loop in `get()`; `WaitTimesOut` is the `TimeoutError`. `_requeue_expired`
is not an action: it is part of every call that the code makes it part of
(`Get`, `Wait`, `Poll`). `clear()` and the registration of the waiter happen
without a suspension between them, so no wake-up falls in between. A worker's
exception ends the task in the pool worker of `validation_agent.py`
(`Fragile`), and is caught in the loops of `cycle_runner.py` and
`supply_coordination_agent.py`. `sent`, `delivered`, `acked` and `lease` are
history variables. Each signal object is put at most once, as in the code, which
builds a new dict per signal and compares by identity. `Sublist(q, I)` is a list
comprehension: the elements of `q` at the positions in `I`, in their order; the
expired and the unexpired entries and the queue without an acknowledged signal
are all written with it.

### ForecastFlow

No handler of the forecast side suspends between reading the State and writing
it (the coroutines contain no await that yields), so each handler is one action:
`FirstRun`/`HandleSignal` (`handle_forecast_signal` and all it calls),
`HandleDeadline`, `Validate`, `Receive`, `HumanResolve`, `SystemResolve`,
`TickDeadline`. Every action that writes ends in `Notify`, which is the tail of
`update_state`: it compares the computed state before and after, and rings the
owner, the known agents and the creator.

*Channels as sets.* `pending[c]` is the set of records that channel `c` has a
signal for. A signal is only a doorbell, so two signals for a record differ from
one only in that the second is still there after the first was acknowledged; the
model lets every handler end with or without its acknowledgement, which gives
exactly that, and also covers redelivery after a failure. That a channel is such
a set is what `SignalQueue => AtLeastOnce` shows. The same holds for `due`, the
deadline signals.

*Reruns.* `means[i]` bounds how often reruns can still find another way to
compute a value. For the causes `forecast_validation` sends (they name an
assumption) a rerun removes a driver from the assumption or drops it
(`redefine_assumptions`, the fingerprint comparison in
`ForecastRerunHandling.rerun`), so every rerun uses up some; when none is left
the plan is `options_exhausted`. That this is so for these causes, and under which
conditions for those a receiver sends, is what `ForecastRerun` checks
(`SettlesDown`). A restart rebuilds the results from the same inputs and starts
over.

*returned* stands for the log entries `misrouted_send_back` with the time stamp
of the current verdict or resolution: a new verdict, resolution or expiry is a
new time stamp, so it empties the set.

*External actions*, which the code serves but does not perform: `EditCard`
(the cards are configuration) and `SendBackValue` (a receiver that finds the
value infeasible; `check_forecast_verdict` handles it, no receiver writes it
yet).

### InstanceLife

`kind` is `InstanceStatus.kind` as `instance_statuses` computes it, with
`excluded` split in two: `held` comes back, `gone` (dismissed, or at an end
without a demand) does not. `bell` is the set of instances that supply
coordination has a signal for: `ForecastFlow` calls the roles that receive values
`Receivers`, and any of them may be the coordinator, so the mapping takes
`Bell == UNION {pending[a] : a \in Receivers}`. What the coordinator relies on is that every
change of kind rings, except `GoBack`, where a delivered value returns to
forecast and is no longer an input until it is delivered again.

### LineCoordination

*Where the coordinator suspends.* `check_line` and everything below it runs
without yielding, except for the await of `compute_delay` in `coordinate_line`.
So the coordinator has three places: `idle`, `checking` (between the lines of a
daily signal, and between the rounds of `check_line`; nobody runs there) and
`computing`. `Check` is one `_check_once`: it leaves the line alone, reports
`allocation_invalid`, or fixes the inputs and computes. `Conclude` is everything
after the await: the look for an open hold, the second reading of the inputs, the
computation on them, and the single `update_state` of `run_line_coordination`.
All other actors are guarded by `Suspended`.

*Abstract data.* The inputs of a line are `soon` (data and human quantities whose
change is coordinated at once), `later` (data whose change waits for the daily
time; a changed forecast value decided by a rule counts as such a change) and,
per instance, whether a demand came in and whether a person decided it. The
outcome of `allocate_line` is a choice, except that equal inputs give an equal
outcome. `pegged_exceeds_capacity` is not told apart from
`commitments_exceed_capacity`: both hold the line in the same way and are
answered by the same person. Notices are left out; they hold nothing. The
expiry of a hold is left out too: holds on lines have no deadline.

*answered* stands for the comparison of time stamps in `_handled_invalid`: an
answer counts for the verdict in the record, and a new verdict empties it.
*divided* is a history variable. *Channels* are sets, as in `ForecastFlow`;
`Begin` may leave a second signal behind, and an exception gives the signal back.

*Environment.* `ExternalChange`: whoever changes data gives notice
(`notify_line_changed`), except the role that adjusts a capacity pool, which need
not. `Restart`: `run_planning_cycle` gives up, cancels the tasks and is called
again, which notifies every line.

### AllocationRules and LineAllocation

`LineCoordination` says *when* a line is coordinated and takes the division as a
choice; these two modules are the same code seen from the other side, with one
step per coordination and the quantities in the foreground. `AllocationRules` is
`LineInputs -> judgment`: the demands with their hard and soft part
(`Demands`), the floors (`ContractFloors`), the stages (`Divide`), the kept
entries (`Frozen`, `Fits`) and the differences of two inputs (`DiffInputs`).

*Loops.* The loops over due dates and over margins serve one group after the
other and break at the first group that is not filled. `InTurn` says so directly:
a group shares what is left when all earlier ones had everything they wanted,
which is nothing (or less) as soon as one had not. `FillFloors` does the same
for the demands of one company and item in the order of `order_key`. Everything
is a whole number: the code rounds to nine digits before it cuts down to units,
so that its floating-point numbers behave like exact ones.

*References* are numbers in the order of the code's strings. A person's floor
override belongs to a company and item, and the model admits one per pair (with
several, the code takes the last in the order of the answers). A commitment's
months are given instead of being computed from dates; overdue, in the freeze
window and in the cycle are what dates are compared with. Units and margins are
constant.

`LineAllocation` keeps `decided`, the inputs in the log entry of the last
conclusion. `Coordinate` is `coordinate_line` as a whole: the inputs may change
while it computes (`inputs'`), and `LaidOnTop` is the second reading. A rerun
after a failed conclusion is `Continuing` without a difference. Verdicts and
dismissals, and whether a forecast value came from a person, are left to
`LineCoordination`.

### ForecastSteps and ForecastRerun

`ForecastSteps` keeps of a monthly series the months it covers and, for each
month, the sources its value was computed from and by which months those were
fitted to our level. Two series that agree in this are equal in the code, and
that is all a fingerprint compares. What depends on quantities is fixed per
instance: which supplements correlate with the orders (`related`), from which
months on the market effect is significant (`trend`), which methods the series'
characteristics call for (`methods`) and how they rank by past error (`rank`).
Everything that depends on counts of months is computed as in the code: minimum
overlaps, the backward fill and its limit, the tiers, the evidence, the hold-out
months, what each method needs. The steps return their results by operators
that pass the collection, the check and the values on (`CollectedFirst`,
`Checked`, `Resumed`, `Compared`, `Finished`), in the order of the code.

`ForecastRerun` puts the steps into one instance. `handling` is
`runtime.handling` and is lost by `Restart`; `record` has what
`apply_steps_to_record` and `_apply_plan` write. `Validate` computes
`no_evidence` and `not_distinct` and chooses `value_out_of_range`, which compares
quantities (`double_counted` needs two drivers in one assumption, which this code
never builds). `SendBack` is the receiver of `ForecastFlow`. `RerunRaises` and
`FirstRunRaises` are exceptions anywhere in the steps (`_run_guarded`); the
methods may have been excluded by then.

### PlanningCycle

The coordinator's and the instances' tasks are `work`, what a signal makes its
receiver do is left out. The channels are those of `SignalQueue`, which shows
what may be assumed of them: an unacknowledged signal in flight returns to the
end of the queue, in the order of the deadlines, if its handler raised or was
cancelled (`Reappears`) or while it is still waiting or worked on (`Late`).
`queued` is the identity set `_queued`. `RouteAgain` is the `continue` of a signal
that the inbox already has: it stays in flight. A signal that is being handled is
not in the set and may be queued once more; its acknowledgement removes the
first copy's entry wherever it is, and the second handling finds nothing to
acknowledge. `Begin` is the whole synchronous beginning of `run_planning_cycle`
up to its first sleep; `Look`, `LookAgain` and `Confirm` are the two looks of
`is_idle` with the sleep between them, and `End` cancels the tasks wherever they
are. Each call gets a new `ForecastInstances`, as its counter of first runs is not
reset. The branch for a task that ended is unreachable: the loops catch their
handlers' exceptions, and the first run's too, so that an instance whose first run
raised counts as having had it.

## 3. Properties and runs

| Run | Bounds | Properties |
|---|---|---|
| `queue` | 3 signals, one with a handler that always raises, 2 workers of which one dies of exceptions, ack timeout 2 units, runner polls | `TypeOK`, `NoLossNoDuplicate`, `FirstDeliveryInOrder`, `LeasesHold`, `ImplementsAtLeastOnce`, `OthersGetThrough`, `Reappears` |
| `planning_cycle` | 2 instances, 3 channels, 4 signals of any destination, 2 cycles, 1 raising handler, 1 deadline that passes while somebody has the signal | `BoxesMatch`, `NoEarlyEnd`, `CycleEnds` |
| `forecast_safety` | 1 instance, 2 receivers, 1 rerun that changes something, 2 escalations by choice (more where the code has no choice), 1 card edit, 1 value send-back, 1 restart | `TypeOK`, `DoorbellRings`, `OneOpenHold`, `HoldIsConsistent`, `OnlyPassedHandedOn`, `HeldStaysPut`, `ClosedOnce`, `HumanValueStands` |
| `forecast_liveness` | 1 instance, 1 receiver, as `forecast_safety` without restarts and with 2 card edits | `NotBackToReturner`, `EverySettles`, `ImplementsInstanceLife` |
| `forecast_rerun` | 3 instances (long history with a promotion, short history that supplements extend, no usable orders) of 6 months, 2 assumptions, 4 methods, 10 requests of one or two causes, 1 exception, 1 restart, 1 answer | `TypeOK`, `AccountedFor`, `EvidenceNamed`, `SettlesDown`, `DroppedStays`, `ScopeKept` |
| `line_safety` | 1 line with 1 instance, 1 coordination per check (so that the signal is put again), 2 outside changes, 2 troubles | `TypeOK`, `LineRings`, `LineHoldSound`, `NothingSwallowed`, `HeldLineStays` |
| `line_liveness` | 2 lines without instances, 2 coordinations per check, 1 change, 1 trouble | `EveryLineServed` |
| `line_urgent` | 1 line with 1 instance, 1 change, 2 troubles | `UrgentRings` (refuted, see section 5) |
| `line_dismissed` | the same | `DismissedLineStays` (refuted, see section 5) |
| `allocation_safety` | 2 items; 2 orders, 2 forecasts, 1 quantity without a company; 3 contract units of 1 and one of 2; hard pegs by order of a person and by work in progress; 2 changes, any number of answers | `TypeOK`, `ConclusionFits`, `CommitmentsKept`, `PrioritiesKept`, `NotTwice`, `TouchedCovers`, `OthersKeep` |
| `allocation_urgent` | the same | `FloorChangeIsUrgent` (refuted, see section 5) |
| `allocation_floors` | the same | `FloorsAskedOnce` (refuted, see section 5) |

*Why these bounds are enough to be interesting.* Instances share only the list
of escalations and the cards, and every operator filters the list by instance;
so one instance shows every race on a record, and the proofs cover any number.
Two receivers make "no next agent", "one" and "several" possible, and let a
record be returned by both. Two units of timeout let a worker be early, exactly
at and past its deadline. `NotBackToReturner` says something only when a
receiver returned a record and accepts again, which takes the two card edits of
its run. A *trouble* is anything that goes wrong on the
lines: an exceeded supply, a failed or broken-off validation, an exception, a
record sent back, a restart. Every disagreement met so far needs at most two of
them, and each hold can be answered in every way the code offers. Lines share
nothing but the coordinator and the daily signal: two lines are needed where a
signal breaks off between lines (`line_liveness`), one where a line races with
its own instance, validator and people (`line_safety`). Every property has a mutant, a plausible bug
in one mapped definition, that makes TLC refute it under the same bounds; the
mutants stand next to the definitions they change.

`MaxEscalations` bounds only escalations that the environment chooses
(exceptions, operators' reruns); what the code is forced to raise is always
raised. `CHECK_DEADLOCK FALSE` is set because all of these systems rightly come
to rest; in `LineAllocation` the changes are used up.

*Fairness.* `SignalQueue`: a runnable task is run by the loop, timers fire, the
clock advances (weak fairness; nobody has to poll, so that what the runner's
`qsize` requeues is a help and not a condition), and a handler that can succeed does not fail at
every attempt (strong fairness per signal; without it "handled in the end" is
false of any retrying system). Signals whose handlers always raise are excluded
by `Poison`. `ForecastFlow`: each task gets its turn and a signal is delivered
until a delivery is acknowledged, which is what `OthersGetThrough` and
`Reappears` show of the queue; the scheduler wakes up. No fairness is assumed of
people, cards or receivers' send-backs, so `EverySettles` says what the system
reaches alone. `LineCoordination`: a check and a conclusion go on once they have
begun (weak fairness); a signal in the coordinator's channel is taken in the end,
since the channel is first in first out (strong fairness per message, because
the coordinator is busy with others in between); the validator and the scheduler
get their turn while the coordinator waits (strong fairness, for the same
reason). People, the forecast side and the outside data owe nothing.
`PlanningCycle`: each task goes on as long as the loop runs and deadlines pass
(weak fairness); signals, exceptions, late deadlines and further cycles are
bounded and owed by nobody, and the timeout need not come. `SettlesDown` of
`ForecastRerun` needs no fairness: it excludes behaviours that rerun for ever.

`ImplementsInstanceLife` is checked with the receivers' channels mapped to
`bell`; its mutant, which tells only the owner and the creator of a hold and not
the known agents, lets a line wait for ever for an instance that was held.
`LineRings` is the counterpart of `DoorbellRings` for lines. `NothingSwallowed`
and `HeldLineStays` are about the await in the middle of a coordination.
`EveryLineServed` says that each line gets, again and again, into a state where
its conclusion is from its present inputs and did not fail, or where it must not
be touched.

`ConclusionFits` and `CommitmentsKept` look at the entries that stand after a
chain of coordinations, of which each kept a part of the one before, and compare
them with the inputs they were decided on, not with the stages that produced
them. `PrioritiesKept` states what the order of the stages is for, and
`TouchedCovers` what the differences of inputs must find so that it is right to
keep the rest. Two changes are enough for the combinations that matter: a kept
entry from a first conclusion and a hard peg that grows afterwards, or a hold, an
answer and a change of another item; with answers and late changes the chains
have up to 15 steps. The rules work on every company and item alike, so two items
(touched and untouched) and two companies suffice; the units differ so that
rounding leaves remainders.

`SettlesDown` says that an instance cannot be rerun for ever, whoever keeps
rejecting its value, and names the only two ways round it (section 5). The
adjustments, the dropped list, the exclusions and the fingerprint comparison
all have to work together for it: methods that come back, for example, refute it.
`ScopeKept` and `DroppedStays` are the two promises a rerun makes about
everybody else, `AccountedFor` and `EvidenceNamed` what its record owes to the
reader and to the validator. The history of six months is long enough for every
minimum of the steps to be met in one instance and missed in another, and short
enough that every cause changes some series. `BoxesMatch` compares the identity
set, the inboxes and the channel; `NoEarlyEnd` says that a cycle that ended by
itself has left no signal unhandled, sent in it or before; `CycleEnds` that it
does end, which a signal stuck in the set would prevent. Four signals let one be
redelivered into an inbox that has another, two cycles let one be cancelled and
found again.

`DoorbellRings` is the property the design rests on: signals are sent on
*changes* of a computed state and consumed even when skipped, so it relates the
State, the channels and the tasks' progress in every reachable state. Its last
conjunct says the same of the scheduler's deadlines.

## 4. What is proved

| Module | Assumption on the constants | Theorems (property) |
|---|---|---|
| `SignalQueueProofs` | `QueueAssumption` | `TypeCorrect` (`TypeOK`), `NothingLost` (`NoLossNoDuplicate`), `FirstInFirstOut` (`FirstDeliveryInOrder`), `LeaseExclusive` (`LeasesHold`), `QueueImplements` (`ImplementsAtLeastOnce`) |
| `PlanningCycleProofs` | `CycleAssumption` | `BoxesAgree` (`BoxesMatch`), `EndsComplete` (`NoEarlyEnd`) |
| `ForecastFlowProofs` | `FlowAssumption` | `TypeCorrect` (`TypeOK`), `HeldOnce` (`OneOpenHold`), `HoldsFit` (`HoldIsConsistent`), `HandedOnPassed` (`OnlyPassedHandedOn`), `NeverBack` (`NotBackToReturner`), `StaysPut` (`HeldStaysPut`), `ClosedForGood` (`ClosedOnce`), `PersonDecides` (`HumanValueStands`) |
| `ForecastBellProofs` | `FlowAssumption` | `NoDoorbellLost` (`DoorbellRings`); if some receiver exists, `ForecastImplementsLife` (`ImplementsInstanceLife`) |
| `ForecastRerunProofs` | `RerunAssumption`, `StepsAssumption` | `TypeCorrect` (`TypeOK`), `AllAccountedFor` (`AccountedFor`), `EvidenceIsNamed` (`EvidenceNamed`), `DroppedForGood` (`DroppedStays`), `ScopeIsKept` (`ScopeKept`) |
| `LineCoordinationProofs` | `LineAssumption` | `TypeCorrect` (`TypeOK`), `HoldsSound` (`LineHoldSound`), `NeverSwallowed` (`NothingSwallowed`), `HeldLinesStay` (`HeldLineStays`), `NoDoorbellLost` (`LineRings`) |
| `LineAllocationProofs` | `RulesAssumption`, `LineAllocationAssumption` | `TypeCorrect` (`TypeOK`), `ConclusionsFit` (`ConclusionFits`), `CommitmentsAreKept` (`CommitmentsKept`), `PrioritiesAreKept` (`PrioritiesKept`), `NothingTwice` (`NotTwice`), `TouchedCoversAll` (`TouchedCovers`), `OthersAreKept` (`OthersKeep`) |

The theorems hold for every set of signals, workers, instances, receivers, lines,
series, sources and methods and every value of the bounds; the assumptions say no
more than that the bounds are natural numbers, that the names of roles are
different, and what shape the given data of an instance has. Fairness is used
nowhere: everything proved is about every behaviour of `Init /\ [][Next]_vars`.

*SignalQueue.* `NoLossNoDuplicate` needs to know why a signal cannot be put
again while it is under way. `Inv` says that `ready` has nothing twice (`Once`),
that what is in the queue is exactly what was sent and not acknowledged (`Kept`),
and that a worker that has a signal had it delivered (`Busy`). Every operation is
a rearrangement of positions: `Sublist` is what the code's comprehensions do, and
the lemmas on it (its length, its elements, and that it repeats nothing)
carry the proof of `Requeued`, which all of `Get`, `Wait` and `Poll` share. The
positions are counted by `CountedInOrder`, whose induction is stated about a set
of numbers (`Inductive` in `FiniteSums`) as the induction theorems of the library, which have an
operator as a parameter, cannot be instantiated. The refinement maps a signal
that is ready, in flight or both to a pending one; a requeue, a deadline and a
late acknowledgement of what is gone already are stutters.

*PlanningCycle.* `Boxed` is `BoxesMatch` with the channel as a set; it is
inductive with what a channel holds (`Placed`), that a signal is there until its
handling is completed (`Kept`), and that the first runs are counted right
(`Counted`). Two lemmas, `ApartKeeps` and `ChannelledKeeps`, serve the steps that
touch only the channels or only the tasks. `EndsComplete` then reads off `Kept`:
the two looks of `is_idle` together exclude every place but `handled`.

*ForecastFlow.* `OneOpenHold` is not inductive alone: an expiry or a person's value
must leave a record that fits whatever is raised next. The invariant `Inv` is
`TypeOK`, `OneOpenHold`, that every open escalation fits its record, that
the parts of a record fit each other (`RecordFine`: a `forward_to` only on a
passed value and never to one who returned it, no verdict beside an exemption), that a received record is
forwarded and not held, and that a dismissed instance is not held and is at
rest. Each step is first classified (lemma `StepKinds`): it leaves State alone
(*Idle*), rewrites one record that is not held (*Worked*), rewrites it and opens
one escalation (*Stopped*), or closes one and may rewrite its record
(*Decided*). One preservation lemma per kind then serves all actions, and the
action properties follow from the same classification. The lemmas on
`OpenTargets`, `IsDismissed` and appending a record say once what creating and
closing an escalation changes.

*DoorbellRings* needs `BellsFit` besides: that only the validator raises
`validation_error`, and nothing else, so that the owner of the state after a hold
is among those whom closing it tells (owner, known agents, creator); that only a
value has a verdict; and that the deadlines remembered are deadlines of the
list. A step rings for the records it rewrites (`EnteredRings`), spares the bells
of the others (`OthersRing`), and a receiver that takes a signal leaves nothing
that still needs it (`HandledLeads`). The hypothesis `validation_error` is what
fails on lines, and is the finding of `line_urgent`.

*InstanceLife.* The same kinds of steps are mapped: `KindUpdate` says what
rewriting a record does to the kinds, `BellUpdate` what `Notify` does to the bells;
one lemma per kind and actor shows which abstract step results. Some receiver has
to exist, since without one nobody is told of a hold.

*ForecastRerun.* The record repeats what the last result says, and the result is
what steps 1 to 4 returned. `ResultSound` is the postcondition of the steps: of
the assumptions that are defined, those with a driver left are checked, those
with a value have been calculated by some method on a series that is there, and
all others are dropped. Each step has a lemma that says what it returns
(`FinishedSound`, `ComparedSound`, `RecollectedSound`, `RerunSound`), and `Inv`
adds that what was written last is such a result (`Accounted`), and that a value
that nobody has judged is the one of the last result (`Backed`).

`ScopeKept` compares two results, and a rerun about the methods takes the data
of the one before as they are, so what a result says must be known to be what
steps 2 to 4 say now, under its adjustments (`Reflects`); `RerunReflects` shows
that a rerun keeps this. The methods excluded must be those the fingerprints
name (`Remembers`), but for what a rerun that raised has added, which it does
only for a cause that targets everybody. A cause that does not concern an
assumption leaves its own sources and the filled months it uses as they were
(`AdjustedSpares`), and may take other sources away or shorten them
(`CandidateShrinks`). The lemma the theorem turns on is `FillSame`: a history
extended from the best sources of each month stays the same when only sources
that were best nowhere shrink, since neither the months that can be filled nor the
best of a month change. This is where the dates of sources may only advance: one
that moves back gives a source new months, in which it may be the best.

*LineCoordination.* `Typed` includes what the coordinator holds at each of its
places. `LineHoldSound` and `NothingSwallowed` are inductive with `HoldOfValidator`
(the validator raises only `validation_error`, and only on a line that has a
conclusion). A step of State is one of *stopped*,
*divided*, *judged*, *answered* (`StateKinds`), and all the rest leave State alone.
`LineRings` is proved like `DoorbellRings`, with the daily time and the lines
still to be checked of the signal in work as further places where a change may
be waiting (`Attended`).

*LineAllocation.* `RulesAssumption` says that the references are a finite set of
numbers and that the days are in order; `LineAllocationAssumption` that the first
inputs and the other contracts are inputs at all (`IsLineInputs`: `LineInputs`,
with quantities that are whole numbers, not negative, and units that are positive).
The proof follows the code from the bottom up. `FiniteSums` has what is true of
sums over any finite set: how they split, compare, and stay under a bound, and
that a share of each (`SumOfShares`) is no more than the share of the whole; its
inductions are over finite sets and stated as facts about sets (`Inductive`,
`RemovalInduction`). `DemandsMean` says what `build_demands` returns: finitely
many demands, each in whole units, at most one hard and one soft for a
reference. `ShareOutMeans`, `InTurnMeans`, `FillMeans`, `FillFloorsMeans` and
`AfterFloorsMeans` are the postconditions of the stages (no demand gets more than
it asks for, each gets whole units, together they get no more than there is, and
a group gets something only when all before it are full), `StagesMean`,
`DivideMeans` and `AllocateMeans` those of `allocate_line`.

`ConclusionFits` is not inductive: what a continuing coordination keeps is read
from the entries alone, so their sum must be known to be a division of the inputs
they were decided on. `IInv` is `TypeOK` and, once there is a conclusion,
`Concluded`: the entries are exactly those of a division of `decided` that is
`Sound` (fits the demands, fits the supply, gives the hard demands in full and,
under the mode that holds the line, serves what is overdue and the floors).
`ContinueSound` shows that a division that keeps entries (`Frozen`) is sound
again. It needs `UntouchedCovers`: an item that no difference touches has the same
demands and floors in both inputs. That is also `TouchedCovers`, which so holds of any
two inputs and not only of those a chain of coordinations leads to. `PrioritiesKept`
and `NotTwice` are such facts on any inputs, too; `OthersKeep` follows from the
invariant and `ContinuingFirst`, what the first of the two divisions of a
coordination keeps.

*Only model-checked.* Liveness (`EverySettles`, `OthersGetThrough`, `Reappears`,
`CycleEnds`, `SettlesDown`, `EveryLineServed`): it rests on fairness or on a measure,
and is out of the prover's reach. The properties that the runs refute are false and
stay refuted.

## 5. Findings

Four disagreements between comments, tests and code, each with a run that shows it.

* `line_urgent`: `coordination_changes.py:7` says that an urgent change is
  coordinated as soon as the coordination in progress ends. If it arrives while
  the validator's hold (`validation_error`) stops the line, its signal is
  acknowledged as *held*; when that hold ends, `update_state` tells the owner of
  the new state, the known agents and the creator of the escalation, and supply
  coordination is none of them (the creator is the validator, which has no card,
  and the rerun goes to the validator). The change then waits for the daily time.
  That it is coordinated then is part of `EveryLineServed`, and that this is the
  only case is `LineRings`.
* `line_dismissed`: `supply_coordination_agent.py:11` says that nothing is done
  for a line that was taken out of the cycle. The dismissal is looked up before
  the await of `compute_delay` only; afterwards only an open hold is looked up
  (`supply_coordination_line.py:84`). A line that is stopped and dismissed while
  the coordination waits gets a new conclusion. It needs a `compute_delay` that
  really suspends.
* `allocation_urgent`: `coordination_changes.py:8` and `GRAPH_FLOW.md:118` call
  every change urgent that alters the overdue backlog or the floor that really
  applies to a company and item. `diff_inputs` looks at `_affected_keys` for
  forecasts and orders only; of the other fields it marks just commitments and
  guarantees. A hard peg that moves, or work in progress that turns an order into
  a hard peg, alters the soft demand of a company and item and so its floor, and
  waits for the daily time.
* `allocation_floors`: `tests/test_continuing_allocation.py:63` says that kept
  entries do not enter the floor stage because the previous conclusion has already
  honoured them. Only what has an entry is kept; a demand of the same company and
  item that got nothing is divided anew, and `contract_floors` asks the whole
  floor for it. A continuing coordination of another item is then held with
  `commitments_exceed_capacity` although what is owed fits.

Further behaviour of the reruns that the models show and that a reader of
`forecast_steps.py` should know; the properties of `forecast_rerun` are stated so
that exactly this is left out.

* The comment at `forecast_steps.py:34` says that reruns must end, as each changes
  the inputs of its targets or drops one. Only targets that are still calculated
  are compared. A cause whose targets lost their driver (they are excluded by the
  driver check, not dropped) or that concerns no live assumption reruns
  everything without any effect, as often as it is sent (`NobodyCompared`).
* Inputs are compared with the last rerun only. Two `outdated` causes that name
  different dates in turn change the inputs every time (`DateMoves`); `use_from`
  is overwritten and may go back.
* Adjustments are kept by source: a date that is moved back for one target gives
  months back to assumptions that are no targets (`DatesOnlyAdvance` in
  `ScopeKept`).
* A rerun that raises after its causes were applied leaves its method exclusions
  in the handling. The repetition has the same causes and the same last result and
  excludes nothing more, so nobody notices (`ScopeKept` and `SettlesDown` hold with
  exceptions).
* After a restart `ensure_handling` starts from a first run: assumptions and
  sources that were dropped are there again, though `state.py:216` says of an
  excluded source that a rerun does not choose it again. `DroppedStays` holds
  between restarts.
* When a cause leaves no usable orders, every assumption is dropped, targets or
  not.

## 6. Plan

Done: the queue, the planning cycle, the forecast flow, the steps and reruns
inside forecast, the coordination of lines, the view that joins it with the
forecast flow, and the allocation rules, each with its proofs. Next:

1. `AccessControl`: which role may write which path, append-only lists, all or
   nothing (today `update_state` is modelled as the atomic step it is).

## 7. Not modelled

The numbers of the forecast (values, correlations, significance, accuracy), data
cleaning, data loading and sample generation: computation on floating-point
series and files without shared state. `capacity.py` and `round_repeat.py`, which
nothing calls yet; `adjust_capacity_pool` does not suspend while it holds its
lock. Texts and logs that nothing reads back, and the input checks of human
values (a rejected value writes nothing). Permissions and path checks of
`access.py`, which reject a write as a whole. The agents planned for later
milestones of the program have no code yet.
