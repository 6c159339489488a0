----------------------------- MODULE SignalQueue -----------------------------
(* One channel: signal_queue.SignalQueue, the workers that read it with       *)
(* get()/ack(), and the tasks that put signals.  All of them run in one       *)
(* asyncio loop, so a method runs to its end before another task runs; the    *)
(* only suspension inside the queue is the wait in get().                     *)
(*                                                                            *)
(* Time is relative: every deadline the code keeps as an absolute clock value *)
(* is kept as the time left until it, and Tick takes one unit from each.      *)
EXTENDS Naturals, Sequences, SequencesExt, FiniteSets

CONSTANTS
  Signals,     \* the signal objects; each is put at most once
  Workers,     \* the tasks that read the channel
  NoSignal,    \* a worker that holds nothing
  NoTimer,     \* wait_for(..., None): a wait without a timeout
  AckTimeout,  \* ACK_TIMEOUT_SECONDS, in clock units
  Poison,      \* signals whose handler raises every time
  Fragile      \* workers whose task the handler's exception ends
               \*   (run_validation_worker); the other loops catch it and go on
               \*   (run_validator, SupplyCoordinator.run, run_instance)

ASSUME QueueAssumption ==
  /\ AckTimeout \in Nat \ {0}
  /\ Poison \subseteq Signals
  /\ NoSignal \notin Signals
  /\ NoTimer \notin Nat
  /\ Fragile \subseteq Workers

VARIABLES
  ready,      \* _ready
  inFlight,   \* _in_flight, deadlines as time left
  task,       \* what each worker's task is doing
  delay,      \* delay[w]: time left of the timeout of a waiting worker
  job,        \* job[w]: the signal a handling worker holds
  sent,       \* history: the signals put, in order
  delivered,  \* history: the signals handed out at least once
  acked,      \* history: the signals removed by ack
  lease       \* history: lease[w]: time left until w's own deadline for job[w]

queue == <<ready, inFlight>>
history == <<sent, delivered, acked, lease>>
vars == <<queue, task, delay, job, history>>

Init ==
  /\ ready = <<>>
  /\ inFlight = <<>>
  /\ task = [w \in Workers |-> "running"]
  /\ delay = [w \in Workers |-> NoTimer]
  /\ job = [w \in Workers |-> NoSignal]
  /\ sent = <<>>
  /\ delivered = {}
  /\ acked = {}
  /\ lease = [w \in Workers |-> 0]

------------------------------------------------------------------------------
SignalsOf(entries) == [i \in DOMAIN entries |-> entries[i].sig]

\* A list comprehension: the elements of seq at the positions I, in order.
\* (SelectSeq says the same, but nothing can be proved of it.)
InOrder(f) == \A a, b \in DOMAIN f : a < b => f[a] < f[b]
PositionsInOrder(I) == CHOOSE f \in [1..Cardinality(I) -> I] : InOrder(f)
Sublist(seq, I) == [k \in 1..Cardinality(I) |-> seq[PositionsInOrder(I)[k]]]

\* MUTANT of Unexpired: a signal is taken back one unit early.
UnexpiredEarly(e) == e.left > 1

\* _requeue_expired: deadline <= now.
Expired(e) == e.left = 0
Unexpired(e) == e.left > 0
ExpiredAt == {i \in DOMAIN inFlight : Expired(inFlight[i])}
UnexpiredAt == {i \in DOMAIN inFlight : Unexpired(inFlight[i])}

\* MUTANT of ReadyAfterRequeue: an expired signal goes to the front.
RequeuedInFront == SignalsOf(Sublist(inFlight, ExpiredAt)) \o ready
\* MUTANT of InFlightAfterRequeue: an expired signal also stays in flight.
RequeuedAndKept == inFlight

\* _requeue_expired: what _ready and _in_flight become.
ReadyAfterRequeue == ready \o SignalsOf(Sublist(inFlight, ExpiredAt))
InFlightAfterRequeue == Sublist(inFlight, UnexpiredAt)

\* _wakeup.set(): every waiting worker becomes runnable.
Woken == [w \in Workers |-> IF task[w] = "waiting" THEN "running" ELSE task[w]]
WokenIfRequeued == IF ExpiredAt = {} THEN task ELSE Woken

\* del seq[index] at the index where the signal s is found.
PositionOf(s, seq) == CHOOSE i \in DOMAIN seq : seq[i] = s
Without(seq, i) == Sublist(seq, DOMAIN seq \ {i})

------------------------------------------------------------------------------
\* MUTANT of ReadyWith: put at the end that get takes from.
ReadyWithFirst(s) == <<s>> \o ready

\* put_nowait: the signal goes behind the ready ones.
ReadyWith(s) == Append(ready, s)

Put(s) ==
  /\ ~Contains(sent, s)
  /\ ready' = ReadyWith(s)
  /\ task' = Woken
  /\ sent' = Append(sent, s)
  /\ UNCHANGED <<inFlight, delay, job, delivered, acked, lease>>

\* get(): get_nowait() succeeds, after expired signals went back to _ready.
Get(w) ==
  /\ task[w] = "running"
  /\ ReadyAfterRequeue # <<>>
  /\ LET s == Head(ReadyAfterRequeue) IN
       /\ ready' = Tail(ReadyAfterRequeue)
       /\ inFlight' = Append(InFlightAfterRequeue, [sig |-> s, left |-> AckTimeout])
       /\ job' = [job EXCEPT ![w] = s]
       /\ delivered' = delivered \cup {s}
  /\ task' = [WokenIfRequeued EXCEPT ![w] = "handling"]
  /\ lease' = [lease EXCEPT ![w] = AckTimeout]
  /\ UNCHANGED <<delay, sent, acked>>

\* MUTANTS of ShortestWait: no timeout; a timeout past every deadline.
WaitWithoutTimeout == NoTimer
WaitTooLong == IF inFlight = <<>> THEN NoTimer ELSE AckTimeout + 1

\* get(): nothing is ready; wait for _wakeup, at most until the first deadline.
ShortestWait ==
  LET lefts == {inFlight[i].left : i \in DOMAIN inFlight}
  IN IF lefts = {} THEN NoTimer
     ELSE CHOOSE d \in lefts : \A e \in lefts : d <= e

Wait(w) ==
  /\ task[w] = "running"
  /\ ReadyAfterRequeue = <<>>
  /\ task' = [task EXCEPT ![w] = "waiting"]
  /\ delay' = [delay EXCEPT ![w] = ShortestWait]
  /\ UNCHANGED <<queue, job, history>>

\* wait_for raises TimeoutError; the loop calls get_nowait() again.
WaitTimesOut(w) ==
  /\ task[w] = "waiting"
  /\ delay[w] = 0
  /\ task' = [task EXCEPT ![w] = "running"]
  /\ UNCHANGED <<queue, delay, job, history>>

\* MUTANT of AckEffect: whatever was handed out first is removed.
AckOldest(s) ==
  /\ inFlight' = IF inFlight = <<>> THEN inFlight ELSE Tail(inFlight)
  /\ UNCHANGED ready

\* ack(s): among the signals in flight first, then among the ready ones.
AckEffect(s) ==
  IF Contains(SignalsOf(inFlight), s)
  THEN /\ inFlight' = Without(inFlight, PositionOf(s, SignalsOf(inFlight)))
       /\ UNCHANGED ready
  ELSE /\ ready' = (IF Contains(ready, s) THEN Without(ready, PositionOf(s, ready)) ELSE ready)
       /\ UNCHANGED inFlight

Acknowledge(w) ==
  /\ task[w] = "handling"
  /\ job[w] \notin Poison
  /\ AckEffect(job[w])
  /\ acked' = acked \cup {job[w]}
  /\ task' = [task EXCEPT ![w] = "running"]
  /\ job' = [job EXCEPT ![w] = NoSignal]
  /\ lease' = [lease EXCEPT ![w] = 0]
  /\ UNCHANGED <<delay, sent, delivered>>

\* The handler raises: no ack.
Fail(w) ==
  /\ task[w] = "handling"
  /\ task' = [task EXCEPT ![w] = IF w \in Fragile THEN "dead" ELSE "running"]
  /\ job' = [job EXCEPT ![w] = NoSignal]
  /\ lease' = [lease EXCEPT ![w] = 0]
  /\ UNCHANGED <<queue, delay, sent, delivered, acked>>

\* is_idle, called by the cycle runner: qsize() and in_flight_count().
Poll ==
  /\ ExpiredAt # {}
  /\ ready' = ReadyAfterRequeue
  /\ inFlight' = InFlightAfterRequeue
  /\ task' = Woken
  /\ UNCHANGED <<delay, job, history>>

Less(n) == IF n \in Nat \ {0} THEN n - 1 ELSE n

Tick ==
  /\ inFlight' = [i \in DOMAIN inFlight |->
       [sig |-> inFlight[i].sig, left |-> Less(inFlight[i].left)]]
  /\ delay' = [w \in Workers |-> Less(delay[w])]
  /\ lease' = [w \in Workers |-> Less(lease[w])]
  /\ <<inFlight, delay, lease>>' # <<inFlight, delay, lease>>
  /\ UNCHANGED <<ready, task, job, sent, delivered, acked>>

Work(w) == Get(w) \/ Wait(w) \/ WaitTimesOut(w) \/ Acknowledge(w) \/ Fail(w)

Next ==
  \/ \E s \in Signals : Put(s)
  \/ \E w \in Workers : Work(w)
  \/ Poll
  \/ Tick

Spec == Init /\ [][Next]_vars

\* A runnable task runs, timers fire and the clock advances; a handler that can
\* succeed does not fail every time it is tried.  No poll is promised: nobody
\* may depend on the cycle runner to requeue what expired.
Fairness ==
  /\ \A w \in Workers : WF_vars(Get(w) \/ Wait(w) \/ WaitTimesOut(w))
  /\ \A w \in Workers : WF_vars(Acknowledge(w) \/ Fail(w))
  /\ \A s \in Signals : SF_vars(\E w \in Workers : job[w] = s /\ Acknowledge(w))
  /\ WF_vars(Tick)

FairSpec == Spec /\ Fairness

------------------------------------------------------------------------------
Entry == [sig : Signals, left : 0..AckTimeout]

\* The queue, its workers and the histories hold what the code lets them hold.
TypeOK ==
  /\ ready \in Seq(Signals)
  /\ inFlight \in Seq(Entry)
  /\ task \in [Workers -> {"running", "waiting", "handling", "dead"}]
  /\ delay \in [Workers -> {NoTimer} \cup 0..AckTimeout]
  /\ job \in [Workers -> Signals \cup {NoSignal}]
  /\ sent \in Seq(Signals)
  /\ delivered \subseteq Signals
  /\ acked \subseteq delivered
  /\ lease \in [Workers -> 0..AckTimeout]

\* No signal is lost and none is duplicated: a signal that was put is in the
\* queue exactly once, ready or in flight, until ack removes it, whatever
\* requeues, late acks and failures happened (_requeue_expired, ack).
Held == ready \o SignalsOf(inFlight)
NoLossNoDuplicate ==
  /\ IsInjective(Held)
  /\ ToSet(Held) = ToSet(sent) \ acked

\* A signal that was never handed out is waiting, behind those put before it
\* that were not handed out either; only a redelivery may come out of order
\* (put_nowait appends, get pops the left, an expired signal goes behind those
\* already waiting).
FirstDeliveryInOrder ==
  LET Fresh == {i \in DOMAIN ready : ready[i] \notin delivered} IN
  /\ ToSet(sent) \ delivered \subseteq ToSet(ready)
  /\ \A i, j \in Fresh :
       i < j => \E a, b \in DOMAIN sent : a < b /\ sent[a] = ready[i] /\ sent[b] = ready[j]

\* While a worker is inside its ack timeout nobody else is inside one for the
\* same signal: two workers handle a signal at once only after one was late.
OneWorkerInTime ==
  \A v, w \in Workers :
    (v # w /\ job[v] = job[w] /\ job[v] # NoSignal) => (lease[v] = 0 \/ lease[w] = 0)

\* A worker inside its ack timeout works for something: its signal is still in
\* flight under its own deadline, so that no one else is given it, unless a late
\* worker that had it before acknowledged it meanwhile (ack, first loop: the
\* object is found in flight whoever took it).
InTimeIsInFlight ==
  \A w \in Workers :
    lease[w] > 0 =>
      \/ job[w] \in acked
      \/ \E i \in DOMAIN inFlight : inFlight[i].sig = job[w] /\ inFlight[i].left = lease[w]

\* Both: within the ack timeout a lease is exclusive and worth something.
LeasesHold == OneWorkerInTime /\ InTimeIsInFlight

\* A signal whose handler keeps failing holds nobody else up: every other
\* signal that is put is acknowledged in the end (an expired signal goes behind
\* the ones already waiting), as long as one worker survives exceptions.
OthersGetThrough ==
  \A s \in Signals \ Poison : Contains(sent, s) ~> s \in acked

\* A signal that a worker failed to acknowledge is handed out again, with no
\* new signal and no poll to wake anyone: whoever waits has a timeout that is
\* short enough, because put, requeue and every new wait look at all deadlines.
Reappears ==
  \A s \in Signals :
    (s \in delivered /\ s \notin acked /\ (\A w \in Workers : job[w] # s))
      ~> (\E w \in Workers : job[w] = s) \/ (\A w \in Workers : task[w] = "dead")

------------------------------------------------------------------------------
\* The queue keeps the channel's promise.
Channel == INSTANCE AtLeastOnce WITH pending <- ToSet(Held)
ImplementsAtLeastOnce == Channel!ASpec
==============================================================================
