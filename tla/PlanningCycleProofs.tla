-------------------------- MODULE PlanningCycleProofs --------------------------
(* Proofs about PlanningCycle: what the router's inboxes hold agrees with its *)
(* identity set and with the channel however deadlines pass (BoxesMatch), and *)
(* a cycle that ends without a timeout has left nothing undone (NoEarlyEnd).  *)
EXTENDS PlanningCycle, FiniteSetTheorems, SequenceTheorems, TLAPS

------------------------------------------------------------------------------
(* The inductive invariant *)

InChannel(c) == Range(ready[c]) \cup Range(inFlight[c])

Typed ==
  /\ to \in Seq(Destinations)
  /\ ready \in [Channels -> Seq(Nat)]
  /\ inFlight \in [Channels -> Seq(Nat)]
  /\ inbox \in [Instances -> Seq(Nat)]

\* A channel holds signals that were sent on it.
Placed ==
  \A c \in Channels : \A s \in InChannel(c) : s \in Signals /\ ChannelOf(to[s]) = c

\* A signal is in its channel until its handling is completed.
Kept == \A s \in Signals : s \in InChannel(ChannelOf(to[s])) \/ s \in handled

\* first_runs_pending counts the instances whose first run is not over.
Counted ==
  Running => ran \subseteq Instances /\ pending = Cardinality(Instances \ ran)

\* BoxesMatch, with the channel as a set.
Mirrored == queued = UNION {Range(inbox[i]) : i \in Instances}
BoxSound(i) ==
  /\ IsInjective(inbox[i])
  /\ \A s \in Range(inbox[i]) :
       to[s] = i /\ s \in Signals /\ (s \in InChannel("forecast") \/ s \in handled)
Boxed == Mirrored /\ \A i \in Instances : BoxSound(i)

Inv == Typed /\ Placed /\ Kept /\ Counted /\ Boxed

------------------------------------------------------------------------------
(* Sequences as queues *)

\* What Append adds to a queue.
LEMMA RangeAppend ==
  ASSUME NEW S, NEW q \in Seq(S), NEW e \in S
  PROVE  Append(q, e) \in Seq(S) /\ Range(Append(q, e)) = Range(q) \cup {e}
<1>1. /\ Append(q, e) \in Seq(S)
      /\ DOMAIN Append(q, e) = DOMAIN q \cup {Len(q) + 1}
      /\ \A k \in DOMAIN q : Append(q, e)[k] = q[k]
      /\ Append(q, e)[Len(q) + 1] = e
  OBVIOUS
<1>2. ASSUME NEW x \in Range(Append(q, e))
      PROVE  x \in Range(q) \cup {e}
  BY <1>1 DEF Range
<1>3. Range(q) \cup {e} \subseteq Range(Append(q, e))
  BY <1>1 DEF Range
<1> QED BY <1>1, <1>2, <1>3

\* What a queue holds is its head and what its tail holds.
LEMMA RangeHeadTail ==
  ASSUME NEW S, NEW q \in Seq(S), q # <<>>
  PROVE  /\ Head(q) \in S /\ Tail(q) \in Seq(S)
         /\ Range(q) = {Head(q)} \cup Range(Tail(q))
<1>1. /\ Head(q) \in S /\ Tail(q) \in Seq(S) /\ Head(q) = q[1]
      /\ Len(q) \in Nat \ {0} /\ DOMAIN q = 1..Len(q)
      /\ DOMAIN Tail(q) = 1..(Len(q) - 1)
      /\ \A k \in 1..(Len(q) - 1) : Tail(q)[k] = q[k + 1]
  OBVIOUS
<1>2. ASSUME NEW x \in Range(q)
      PROVE  x \in {Head(q)} \cup Range(Tail(q))
  <2>1. PICK k \in 1..Len(q) : x = q[k]
    BY <1>1 DEF Range
  <2>2. CASE k = 1
    BY <2>1, <2>2, <1>1
  <2>3. CASE k # 1
    <3>1. k - 1 \in 1..(Len(q) - 1) /\ Tail(q)[k - 1] = q[k]
      BY <2>3, <1>1
    <3> QED BY <3>1, <2>1, <1>1 DEF Range
  <2> QED BY <2>2, <2>3
<1>3. ASSUME NEW x \in Range(Tail(q))
      PROVE  x \in Range(q)
  <2>1. PICK k \in 1..(Len(q) - 1) : x = q[k + 1]
    BY <1>1 DEF Range
  <2>2. k + 1 \in DOMAIN q
    BY <1>1
  <2> QED BY <2>1, <2>2 DEF Range
<1>4. Head(q) \in Range(q)
  BY <1>1 DEF Range
<1> QED BY <1>1, <1>2, <1>3, <1>4

\* A queue without repetition has none in its tail, and its head is not there.
LEMMA InjectiveTail ==
  ASSUME NEW S, NEW q \in Seq(S), q # <<>>, IsInjective(q)
  PROVE  IsInjective(Tail(q)) /\ Head(q) \notin Range(Tail(q))
<1>1. /\ Head(q) = q[1] /\ Len(q) \in Nat \ {0} /\ DOMAIN q = 1..Len(q)
      /\ DOMAIN Tail(q) = 1..(Len(q) - 1)
      /\ \A k \in 1..(Len(q) - 1) : Tail(q)[k] = q[k + 1]
  OBVIOUS
<1>2. ASSUME NEW a \in DOMAIN Tail(q), NEW b \in DOMAIN Tail(q),
             Tail(q)[a] = Tail(q)[b]
      PROVE  a = b
  <2>1. a + 1 \in DOMAIN q /\ b + 1 \in DOMAIN q /\ q[a + 1] = q[b + 1]
    BY <1>1, <1>2
  <2>2. a + 1 = b + 1
    BY <2>1 DEF IsInjective
  <2> QED BY <2>2, <1>1
<1>3. ASSUME NEW a \in DOMAIN Tail(q), Tail(q)[a] = Head(q)
      PROVE  FALSE
  <2>1. a + 1 \in DOMAIN q /\ 1 \in DOMAIN q /\ q[a + 1] = q[1]
    BY <1>1, <1>3
  <2>2. a + 1 = 1
    BY <2>1 DEF IsInjective
  <2> QED BY <2>2, <1>1
<1> QED BY <1>2, <1>3 DEF IsInjective, Range

\* A queue stays without repetition when what is appended was not in it.
LEMMA InjectiveAppend ==
  ASSUME NEW S, NEW q \in Seq(S), NEW e \in S, IsInjective(q), e \notin Range(q)
  PROVE  IsInjective(Append(q, e))
<1>1. /\ DOMAIN Append(q, e) = DOMAIN q \cup {Len(q) + 1}
      /\ \A k \in DOMAIN q : Append(q, e)[k] = q[k]
      /\ Append(q, e)[Len(q) + 1] = e
  OBVIOUS
<1> QED BY <1>1 DEF IsInjective, Range

\* Without takes nothing but the signal out of a queue.
LEMMA RangeWithout ==
  ASSUME NEW q \in Seq(Nat), NEW s
  PROVE  /\ Without(q, s) \in Seq(Nat)
         /\ Range(Without(q, s)) \subseteq Range(q)
         /\ Range(q) \subseteq Range(Without(q, s)) \cup {s}
<1>1. CASE ~Contains(q, s)
  BY <1>1 DEF Without
<1>2. CASE Contains(q, s)
  <2> DEFINE k == IndexOf(s, q)
             r == RemoveAt(q, k)
  <2>1. k \in 1..Len(q) /\ q[k] = s
    <3>1. \E j \in DOMAIN q : q[j] = s
      BY <1>2 DEF Contains
    <3> QED BY <3>1 DEF IndexOf
  <2> HIDE DEF k
  <2>2. /\ r \in Seq(Nat) /\ Len(r) = Len(q) - 1
        /\ \A j \in 1..(k - 1) : r[j] = q[j]
        /\ \A j \in k..(Len(q) - 1) : r[j] = q[j + 1]
    <3> DEFINE a == SubSeq(q, 1, k - 1)
               b == SubSeq(q, k + 1, Len(q))
    <3>1. /\ a \in Seq(Nat) /\ Len(a) = k - 1
          /\ \A j \in 1..(k - 1) : a[j] = q[j]
      BY <2>1
    <3>2. /\ b \in Seq(Nat) /\ Len(b) = Len(q) - k
          /\ \A j \in 1..(Len(q) - k) : b[j] = q[k + j]
      BY <2>1
    <3>3. r = a \o b
      BY DEF RemoveAt
    <3> HIDE DEF a, b, r
    <3>4. /\ r \in Seq(Nat) /\ Len(r) = Len(a) + Len(b)
          /\ \A j \in 1..Len(a) : r[j] = a[j]
          /\ \A j \in (Len(a) + 1)..(Len(a) + Len(b)) : r[j] = b[j - Len(a)]
      <4>1. /\ r \in Seq(Nat) /\ Len(r) = Len(a) + Len(b)
            /\ \A j \in 1..(Len(a) + Len(b)) :
                 r[j] = IF j <= Len(a) THEN a[j] ELSE b[j - Len(a)]
        BY <3>1, <3>2, <3>3, ConcatProperties
      <4>2. Len(a) \in Nat /\ Len(b) \in Nat
        BY <3>1, <3>2
      <4> QED BY <4>1, <4>2
    <3>5. ASSUME NEW j \in k..(Len(q) - 1)
          PROVE  b[j - (k - 1)] = q[j + 1]
      <4>1. j - (k - 1) \in 1..(Len(q) - k) /\ k + (j - (k - 1)) = j + 1
        BY <2>1
      <4> QED BY <4>1, <3>2
    <3>6. Len(r) = Len(q) - 1
      BY <2>1, <3>1, <3>2, <3>4
    <3>7. ASSUME NEW j \in 1..(k - 1)
          PROVE  r[j] = q[j]
      BY <3>1, <3>4
    <3>8. ASSUME NEW j \in k..(Len(q) - 1)
          PROVE  r[j] = q[j + 1]
      <4>1. j \in (Len(a) + 1)..(Len(a) + Len(b)) /\ j - Len(a) = j - (k - 1)
        BY <2>1, <3>1, <3>2
      <4> QED BY <4>1, <3>4, <3>5
    <3> QED BY <3>4, <3>6, <3>7, <3>8
  <2>3. Without(q, s) = r
    BY <1>2 DEF Without, k
  <2> HIDE DEF r
  <2>4. ASSUME NEW x \in Range(r)
        PROVE  x \in Range(q)
    <3>1. PICK j \in 1..(Len(q) - 1) : x = r[j]
      BY <2>2 DEF Range
    <3>2. j \in DOMAIN q /\ j + 1 \in DOMAIN q
      BY <2>1
    <3>3. CASE j < k
      <4>1. r[j] = q[j]
        BY <3>3, <2>1, <2>2
      <4> QED BY <4>1, <3>1, <3>2 DEF Range
    <3>4. CASE j >= k
      <4>1. r[j] = q[j + 1]
        BY <3>4, <2>1, <2>2
      <4> QED BY <4>1, <3>1, <3>2 DEF Range
    <3> QED BY <3>3, <3>4, <2>1
  <2>5. ASSUME NEW x \in Range(q), x # s
        PROVE  x \in Range(r)
    <3>1. PICK j \in 1..Len(q) : x = q[j]
      BY DEF Range
    <3>2. CASE j < k
      <4>1. r[j] = x /\ j \in DOMAIN r
        BY <3>1, <3>2, <2>1, <2>2
      <4> QED BY <4>1 DEF Range
    <3>3. CASE j > k
      <4>1. j - 1 \in k..(Len(q) - 1) /\ (j - 1) + 1 = j
        BY <3>3, <2>1
      <4>2. r[j - 1] = x /\ j - 1 \in DOMAIN r
        BY <4>1, <3>1, <2>1, <2>2
      <4> QED BY <4>2 DEF Range
    <3>4. j # k
      BY <2>1, <2>5, <3>1
    <3> QED BY <3>2, <3>3, <3>4, <2>1
  <2> QED BY <2>2, <2>3, <2>4, <2>5
<1> QED BY <1>1, <1>2

------------------------------------------------------------------------------
(* What a step does to the channels *)

\* Nothing leaves a channel but what is handled, and nothing new comes in.
Channelled ==
  /\ \A c \in Channels : InChannel(c)' \subseteq InChannel(c)
  /\ \A c \in Channels : InChannel(c) \subseteq InChannel(c)' \cup handled'
  /\ handled \subseteq handled'
  /\ ready' \in [Channels -> Seq(Nat)] /\ inFlight' \in [Channels -> Seq(Nat)]

LEMMA ChannelsOf ==
  /\ {"forecast", "coordination", "validation"} = Channels
  /\ \A d \in Destinations : ChannelOf(d) \in Channels
  /\ \A d \in Destinations \ {"unknown"} : ChannelOf(d) = "forecast" => d \in Instances
  /\ \A i \in Instances : ChannelOf(i) = "forecast"
BY CycleAssumption DEF Channels, Destinations, ChannelOf

\* The same channels, and at most more is handled.
LEMMA Undisturbed ==
  ASSUME Typed, UNCHANGED channels, handled \subseteq handled'
  PROVE  Channelled
BY DEF Typed, Channelled, channels, InChannel

\* A signal that is taken stays in flight, or is handled.
LEMMA Getting ==
  ASSUME Typed, NEW c \in Channels, ready[c] # <<>>, ready' = Taken(c),
         \/ inFlight' = [inFlight EXCEPT ![c] = Append(@, FirstOf(c))] /\ handled' = handled
         \/ inFlight' = inFlight /\ handled' = handled \cup {FirstOf(c)}
  PROVE  Channelled
<1>1. /\ ready[c] \in Seq(Nat) /\ inFlight[c] \in Seq(Nat)
      /\ DOMAIN ready = Channels /\ DOMAIN inFlight = Channels
  BY DEF Typed
<1>2. /\ FirstOf(c) \in Nat /\ Tail(ready[c]) \in Seq(Nat)
      /\ Range(ready[c]) = {FirstOf(c)} \cup Range(Tail(ready[c]))
  BY <1>1, RangeHeadTail DEF FirstOf
<1>3. /\ ready' \in [Channels -> Seq(Nat)]
      /\ ready'[c] = Tail(ready[c])
      /\ \A d \in Channels \ {c} : ready'[d] = ready[d]
  BY <1>1, <1>2 DEF Taken, Typed
<1>4. CASE inFlight' = [inFlight EXCEPT ![c] = Append(@, FirstOf(c))] /\ handled' = handled
  <2>1. /\ Append(inFlight[c], FirstOf(c)) \in Seq(Nat)
        /\ Range(Append(inFlight[c], FirstOf(c))) = Range(inFlight[c]) \cup {FirstOf(c)}
    BY <1>1, <1>2, RangeAppend
  <2>2. /\ inFlight' \in [Channels -> Seq(Nat)]
        /\ inFlight'[c] = Append(inFlight[c], FirstOf(c))
        /\ \A d \in Channels \ {c} : inFlight'[d] = inFlight[d]
    BY <1>1, <1>4, <2>1 DEF Typed
  <2>3. \A d \in Channels : InChannel(d)' = InChannel(d)
    BY <1>2, <1>3, <2>1, <2>2 DEF InChannel
  <2> QED BY <1>3, <1>4, <2>2, <2>3 DEF Channelled
<1>5. CASE inFlight' = inFlight /\ handled' = handled \cup {FirstOf(c)}
  <2>1. \A d \in Channels : /\ InChannel(d)' \subseteq InChannel(d)
                            /\ InChannel(d) \subseteq InChannel(d)' \cup {FirstOf(c)}
    BY <1>2, <1>3, <1>5 DEF InChannel
  <2> QED BY <1>3, <1>5, <2>1 DEF Channelled, Typed
<1> QED BY <1>4, <1>5

\* A signal whose deadline passes goes from one half of its channel to the other.
LEMMA Requeueing ==
  ASSUME Typed, NEW c \in Channels, inFlight[c] # <<>>, Requeue(c)
  PROVE  Channelled
<1>1. /\ ready[c] \in Seq(Nat) /\ inFlight[c] \in Seq(Nat)
      /\ DOMAIN ready = Channels /\ DOMAIN inFlight = Channels
  BY DEF Typed
<1>2. /\ Head(inFlight[c]) \in Nat /\ Tail(inFlight[c]) \in Seq(Nat)
      /\ Range(inFlight[c]) = {Head(inFlight[c])} \cup Range(Tail(inFlight[c]))
  BY <1>1, RangeHeadTail
<1>3. /\ Append(ready[c], Head(inFlight[c])) \in Seq(Nat)
      /\ Range(Append(ready[c], Head(inFlight[c]))) = Range(ready[c]) \cup {Head(inFlight[c])}
  BY <1>1, <1>2, RangeAppend
<1>4. /\ ready' \in [Channels -> Seq(Nat)]
      /\ ready'[c] = Append(ready[c], Head(inFlight[c]))
      /\ \A d \in Channels \ {c} : ready'[d] = ready[d]
  BY <1>1, <1>3 DEF Requeue, Typed
<1>5. /\ inFlight' \in [Channels -> Seq(Nat)]
      /\ inFlight'[c] = Tail(inFlight[c])
      /\ \A d \in Channels \ {c} : inFlight'[d] = inFlight[d]
  BY <1>1, <1>2 DEF Requeue, Typed
<1>6. \A d \in Channels : InChannel(d)' = InChannel(d)
  BY <1>2, <1>3, <1>4, <1>5 DEF InChannel
<1>7. handled' = handled
  BY DEF Requeue
<1> QED BY <1>4, <1>5, <1>6, <1>7 DEF Channelled

\* ack takes out one signal, which is handled.
LEMMA Acknowledging ==
  ASSUME Typed, NEW c \in Channels, NEW s, Acknowledge(c, s), handled' = handled \cup {s}
  PROVE  Channelled
<1>1. /\ ready[c] \in Seq(Nat) /\ inFlight[c] \in Seq(Nat)
      /\ DOMAIN ready = Channels /\ DOMAIN inFlight = Channels
  BY DEF Typed
<1>2. \A q \in Seq(Nat) : /\ Without(q, s) \in Seq(Nat)
                          /\ Range(Without(q, s)) \subseteq Range(q)
                          /\ Range(q) \subseteq Range(Without(q, s)) \cup {s}
  BY RangeWithout
<1>3. CASE inFlight' = [inFlight EXCEPT ![c] = Without(@, s)] /\ UNCHANGED ready
  <2>1. /\ inFlight' \in [Channels -> Seq(Nat)] /\ inFlight'[c] = Without(inFlight[c], s)
        /\ \A d \in Channels \ {c} : inFlight'[d] = inFlight[d]
    BY <1>1, <1>2, <1>3 DEF Typed
  <2>2. \A d \in Channels : /\ InChannel(d)' \subseteq InChannel(d)
                            /\ InChannel(d) \subseteq InChannel(d)' \cup {s}
    BY <1>1, <1>2, <1>3, <2>1 DEF InChannel
  <2> QED BY <1>3, <2>1, <2>2 DEF Channelled, Typed
<1>4. CASE ready' = [ready EXCEPT ![c] = Without(@, s)] /\ UNCHANGED inFlight
  <2>1. /\ ready' \in [Channels -> Seq(Nat)] /\ ready'[c] = Without(ready[c], s)
        /\ \A d \in Channels \ {c} : ready'[d] = ready[d]
    BY <1>1, <1>2, <1>4 DEF Typed
  <2>2. \A d \in Channels : /\ InChannel(d)' \subseteq InChannel(d)
                            /\ InChannel(d) \subseteq InChannel(d)' \cup {s}
    BY <1>1, <1>2, <1>4, <2>1 DEF InChannel
  <2> QED BY <1>4, <2>1, <2>2 DEF Channelled, Typed
<1> QED BY <1>3, <1>4 DEF Acknowledge

\* What such a step keeps when nothing is sent.
LEMMA ChannelledKeeps ==
  ASSUME Placed, Kept, Channelled, UNCHANGED to, to \in Seq(Destinations)
  PROVE  Placed' /\ Kept'
<1>1. \A s \in Signals : ChannelOf(to[s]) \in Channels
  BY ChannelsOf DEF Signals
<1>2. Placed'
  BY DEF Placed, Channelled, Signals
<1>3. Kept'
  BY <1>1 DEF Kept, Channelled, Signals
<1> QED BY <1>2, <1>3

\* And the inboxes, if they stay as they are.
LEMMA ChannelledBoxes ==
  ASSUME Boxed, Channelled, UNCHANGED <<to, inbox, queued>>
  PROVE  Boxed'
<1>1. \A s \in InChannel("forecast") : s \in InChannel("forecast")' \/ s \in handled'
  BY DEF Channelled, Channels
<1>2. Mirrored'
  BY DEF Boxed, Mirrored
<1>3. ASSUME NEW i \in Instances
      PROVE  BoxSound(i)'
  BY <1>1 DEF Boxed, BoxSound, Channelled, Signals
<1> QED BY <1>2, <1>3 DEF Boxed

------------------------------------------------------------------------------
(* The steps *)

\* A step that moves no signal into or out of an inbox and ends no first run.
Apart == UNCHANGED <<to, inbox, queued, pending, ran>> /\ (Running' => Running)

LEMMA ApartKeeps ==
  ASSUME Inv, Channelled, Apart
  PROVE  Inv'
<1>1. Typed'
  BY DEF Inv, Typed, Channelled, Apart
<1>2. Placed' /\ Kept'
  BY ChannelledKeeps DEF Inv, Typed, Apart
<1>3. Boxed'
  BY ChannelledBoxes DEF Inv, Apart
<1>4. Counted'
  BY DEF Inv, Counted, Apart
<1> QED BY <1>1, <1>2, <1>3, <1>4 DEF Inv

\* A new signal is in its channel.
LEMMA PutKeeps ==
  ASSUME Inv, NEW d \in Destinations, Put(d), UNCHANGED <<inFlight, handled>>
  PROVE  /\ to' \in Seq(Destinations) /\ ready' \in [Channels -> Seq(Nat)]
         /\ Placed' /\ Kept'
         /\ Signals \subseteq Signals' /\ \A s \in Signals : to'[s] = to[s]
         /\ \A c \in Channels : InChannel(c) \subseteq InChannel(c)'
<1> DEFINE n == Len(to) + 1
           c == ChannelOf(d)
<1>1. /\ c \in Channels /\ to \in Seq(Destinations) /\ n \in Nat
      /\ ready \in [Channels -> Seq(Nat)] /\ ready[c] \in Seq(Nat)
  BY ChannelsOf DEF Inv, Typed
<1>2. /\ to' \in Seq(Destinations) /\ Signals' = Signals \cup {n} /\ n \notin Signals
      /\ to'[n] = d /\ \A s \in Signals : to'[s] = to[s]
  BY <1>1 DEF Put, Signals
<1>3. /\ Append(ready[c], n) \in Seq(Nat)
      /\ Range(Append(ready[c], n)) = Range(ready[c]) \cup {n}
  BY <1>1, RangeAppend
<1>4. /\ ready' \in [Channels -> Seq(Nat)]
      /\ ready'[c] = Append(ready[c], n)
      /\ \A e \in Channels \ {c} : ready'[e] = ready[e]
  BY <1>1, <1>3 DEF Put
<1> HIDE DEF n, c
<1>5. /\ InChannel(c)' = InChannel(c) \cup {n}
      /\ \A e \in Channels \ {c} : InChannel(e)' = InChannel(e)
  BY <1>3, <1>4 DEF InChannel
<1>6. ASSUME NEW e \in Channels, NEW s \in InChannel(e)'
      PROVE  s \in Signals' /\ ChannelOf(to'[s]) = e
  <2>1. CASE s \in InChannel(e)
    BY <1>2, <2>1 DEF Inv, Placed
  <2>2. CASE s \notin InChannel(e)
    BY <1>2, <1>5, <1>6, <2>2 DEF c
  <2> QED BY <2>1, <2>2
<1>7. ASSUME NEW s \in Signals'
      PROVE  s \in InChannel(ChannelOf(to[s]))' \/ s \in handled'
  <2>1. CASE s \in Signals
    <3>1. ChannelOf(to[s]) \in Channels
      BY <1>1, <2>1, ChannelsOf DEF Signals
    <3>2. InChannel(ChannelOf(to[s])) \subseteq InChannel(ChannelOf(to[s]))'
      <4> DEFINE e == ChannelOf(to[s])
      <4> QED BY <3>1, <1>4, <1>3, <1>2, <2>1 DEF InChannel
    <3> QED BY <3>2, <2>1 DEF Inv, Kept
  <2>2. CASE s = n
    BY <2>2, <1>2, <1>5 DEF c
  <2> QED BY <2>1, <2>2, <1>2
<1> QED BY <1>2, <1>4, <1>5, <1>6, <1>7 DEF Placed, Kept

LEMMA SendKeeps ==
  ASSUME Inv, NEW d \in Destinations, Send(d)
  PROVE  Inv'
<1>1. Put(d) /\ UNCHANGED <<inFlight, handled, inbox, queued, pending, ran, phase>>
  BY DEF Send, forecast
<1>2. /\ to' \in Seq(Destinations) /\ ready' \in [Channels -> Seq(Nat)]
      /\ Placed' /\ Kept'
      /\ Signals \subseteq Signals' /\ \A s \in Signals : to'[s] = to[s]
      /\ \A c \in Channels : InChannel(c) \subseteq InChannel(c)'
  BY <1>1, PutKeeps
<1>3. Typed'
  BY <1>1, <1>2 DEF Inv, Typed
<1>4. Counted'
  BY <1>1 DEF Inv, Counted, Running
<1>5. Mirrored'
  BY <1>1 DEF Inv, Boxed, Mirrored
<1>6. ASSUME NEW i \in Instances
      PROVE  BoxSound(i)'
  <2>1. BoxSound(i)
    BY DEF Inv, Boxed
  <2>2. InChannel("forecast") \subseteq InChannel("forecast")'
    BY <1>2 DEF Channels
  <2> QED BY <1>1, <1>2, <2>1, <2>2 DEF BoxSound
<1> QED BY <1>2, <1>3, <1>4, <1>5, <1>6 DEF Inv, Boxed

\* A deadline passes.
LEMMA DeadlineKeeps ==
  ASSUME Inv, NEW c \in Channels, Reappears(c) \/ Late(c)
  PROVE  Inv'
<1>1. inFlight[c] # <<>> /\ Requeue(c)
  BY DEF Reappears, Late
<1>2. Channelled
  BY <1>1, Requeueing DEF Inv
<1>3. Apart
  BY <1>1 DEF Requeue, Apart, forecast, Running
<1> QED BY <1>2, <1>3, ApartKeeps

\* The router acknowledges what no instance takes, and leaves in flight what an
\* inbox has already.
LEMMA RouteAsideKeeps ==
  ASSUME Inv, NEW s, RouteUnknown(s) \/ RouteAgain(s)
  PROVE  Inv'
<1>1. /\ ready["forecast"] # <<>> /\ ready' = Taken("forecast") /\ s = FirstOf("forecast")
      /\ UNCHANGED <<to, inbox, queued, pending, ran, phase>>
      /\ \/ /\ inFlight' = [inFlight EXCEPT !["forecast"] = Append(@, FirstOf("forecast"))]
            /\ handled' = handled
         \/ inFlight' = inFlight /\ handled' = handled \cup {FirstOf("forecast")}
  BY DEF RouteUnknown, RouteAgain, RouterGets
<1>2. Channelled
  BY <1>1, Getting, ChannelsOf DEF Inv
<1>3. Apart
  BY <1>1 DEF Apart, Running
<1> QED BY <1>2, <1>3, ApartKeeps

\* The router puts a signal that no inbox has into the inbox of its instance.
LEMMA RouteKeeps ==
  ASSUME Inv, NEW s, Route(s)
  PROVE  Inv'
<1>1. /\ ready["forecast"] # <<>> /\ ready' = Taken("forecast") /\ s = FirstOf("forecast")
      /\ UNCHANGED <<to, pending, ran, phase, handled>>
      /\ to[s] # "unknown" /\ s \notin queued
      /\ inFlight' = [inFlight EXCEPT !["forecast"] = Append(@, s)]
      /\ inbox' = [inbox EXCEPT ![to[s]] = Append(@, s)]
      /\ queued' = queued \cup {s}
  BY DEF Route, RouterGets, IsQueued
<1>2. Channelled
  BY <1>1, Getting, ChannelsOf DEF Inv
<1>3. Placed' /\ Kept'
  BY <1>1, <1>2, ChannelledKeeps DEF Inv, Typed
<1>4. Counted'
  BY <1>1 DEF Inv, Counted, Running
<1>5. /\ s \in Signals /\ to[s] \in Instances /\ s \in Nat
      /\ s \in InChannel("forecast")
  <2>1. "forecast" \in Channels /\ ready["forecast"] \in Seq(Nat)
    BY DEF Channels, Inv, Typed
  <2>2. s \in Nat /\ s \in InChannel("forecast")
    BY <1>1, <2>1, RangeHeadTail DEF FirstOf, InChannel
  <2>3. s \in Signals /\ ChannelOf(to[s]) = "forecast"
    BY <2>1, <2>2 DEF Inv, Placed
  <2>4. to[s] \in Destinations
    BY <2>3 DEF Inv, Typed, Signals
  <2> QED BY <1>1, <2>2, <2>3, <2>4, ChannelsOf
<1>6. PICK i : i = to[s]
  OBVIOUS
<1>7. /\ i \in Instances /\ inbox \in [Instances -> Seq(Nat)] /\ inbox[i] \in Seq(Nat)
      /\ s \notin Range(inbox[i]) /\ IsInjective(inbox[i])
  BY <1>1, <1>5, <1>6 DEF Inv, Typed, Boxed, Mirrored, BoxSound
<1>8. /\ Append(inbox[i], s) \in Seq(Nat) /\ IsInjective(Append(inbox[i], s))
      /\ Range(Append(inbox[i], s)) = Range(inbox[i]) \cup {s}
  BY <1>5, <1>7, RangeAppend, InjectiveAppend
<1>9. /\ inbox' \in [Instances -> Seq(Nat)]
      /\ inbox'[i] = Append(inbox[i], s)
      /\ \A j \in Instances \ {i} : inbox'[j] = inbox[j]
  BY <1>1, <1>6, <1>7, <1>8
<1>10. Typed'
  BY <1>1, <1>2, <1>9 DEF Inv, Typed, Channelled
<1>11. Mirrored'
  <2>1. queued = UNION {Range(inbox[j]) : j \in Instances}
    BY DEF Inv, Boxed, Mirrored
  <2>2. ASSUME NEW x \in queued'
        PROVE  \E j \in Instances : x \in Range(inbox'[j])
    <3>1. CASE x = s
      BY <3>1, <1>7, <1>8, <1>9
    <3>2. CASE x \in queued
      <4>1. PICK j \in Instances : x \in Range(inbox[j])
        BY <2>1, <3>2
      <4> QED BY <4>1, <1>7, <1>8, <1>9
    <3> QED BY <1>1, <3>1, <3>2
  <2>3. ASSUME NEW j \in Instances, NEW x \in Range(inbox'[j])
        PROVE  x \in queued'
    BY <1>1, <1>7, <1>8, <1>9, <2>1, <2>3
  <2> QED BY <2>2, <2>3 DEF Mirrored
<1>12. ASSUME NEW j \in Instances
       PROVE  BoxSound(j)'
  <2>1. BoxSound(j)
    BY DEF Inv, Boxed
  <2>2. \A x \in InChannel("forecast") : x \in InChannel("forecast")' \/ x \in handled'
    BY <1>2 DEF Channelled, Channels
  <2>3. CASE j = i
    BY <1>1, <1>5, <1>6, <1>8, <1>9, <2>1, <2>2, <2>3 DEF BoxSound, Signals
  <2>4. CASE j # i
    BY <1>1, <1>9, <2>1, <2>2, <2>4 DEF BoxSound, Signals
  <2> QED BY <2>3, <2>4
<1> QED BY <1>3, <1>4, <1>10, <1>11, <1>12 DEF Inv, Boxed

\* An instance takes the head of its inbox, which no other inbox has.
LEMMA TakeKeeps ==
  ASSUME Inv, NEW i \in Instances, Take(i)
  PROVE  Inv'
<1> DEFINE h == Head(inbox[i])
<1>1. /\ inbox[i] # <<>> /\ UNCHANGED <<to, channels, pending, ran, phase, handled>>
      /\ inbox' = [inbox EXCEPT ![i] = Tail(@)]
      /\ queued' = queued \ {h}
  BY DEF Take, WithoutTaken
<1>2. Channelled
  BY <1>1, Undisturbed DEF Inv
<1>3. Placed' /\ Kept'
  BY <1>1, <1>2, ChannelledKeeps DEF Inv, Typed
<1>4. Counted'
  BY <1>1 DEF Inv, Counted, Running
<1>5. /\ inbox \in [Instances -> Seq(Nat)] /\ inbox[i] \in Seq(Nat) /\ IsInjective(inbox[i])
  BY DEF Inv, Typed, Boxed, BoxSound
<1>6. /\ Tail(inbox[i]) \in Seq(Nat) /\ IsInjective(Tail(inbox[i]))
      /\ h \notin Range(Tail(inbox[i]))
      /\ Range(inbox[i]) = {h} \cup Range(Tail(inbox[i]))
  BY <1>1, <1>5, RangeHeadTail, InjectiveTail
<1> HIDE DEF h
<1>7. /\ inbox' \in [Instances -> Seq(Nat)]
      /\ inbox'[i] = Tail(inbox[i])
      /\ \A j \in Instances \ {i} : inbox'[j] = inbox[j]
  BY <1>1, <1>5, <1>6
<1>8. Typed'
  BY <1>1, <1>2, <1>7 DEF Inv, Typed, Channelled
<1>9. \A j \in Instances \ {i} : h \notin Range(inbox[j])
  <2>1. to[h] = i
    BY <1>6 DEF Inv, Boxed, BoxSound
  <2> QED BY <2>1 DEF Inv, Boxed, BoxSound
<1>10. Mirrored'
  <2>1. queued = UNION {Range(inbox[j]) : j \in Instances}
    BY DEF Inv, Boxed, Mirrored
  <2>2. ASSUME NEW x \in queued'
        PROVE  \E j \in Instances : x \in Range(inbox'[j])
    <3>1. PICK j \in Instances : x \in Range(inbox[j]) /\ x # h
      BY <1>1, <2>1, <2>2
    <3> QED BY <3>1, <1>6, <1>7
  <2>3. ASSUME NEW j \in Instances, NEW x \in Range(inbox'[j])
        PROVE  x \in queued'
    <3>1. CASE j = i
      BY <3>1, <1>1, <1>6, <1>7, <2>1, <2>3
    <3>2. CASE j # i
      BY <3>2, <1>1, <1>7, <1>9, <2>1, <2>3
    <3> QED BY <3>1, <3>2
  <2> QED BY <2>2, <2>3 DEF Mirrored
<1>11. ASSUME NEW j \in Instances
       PROVE  BoxSound(j)'
  <2>1. BoxSound(j)
    BY DEF Inv, Boxed
  <2>2. \A x \in InChannel("forecast") : x \in InChannel("forecast")' \/ x \in handled'
    BY <1>2 DEF Channelled, Channels
  <2>3. CASE j = i
    BY <1>1, <1>6, <1>7, <2>1, <2>2, <2>3 DEF BoxSound, Signals
  <2>4. CASE j # i
    BY <1>1, <1>7, <2>1, <2>2, <2>4 DEF BoxSound, Signals
  <2> QED BY <2>3, <2>4
<1> QED BY <1>3, <1>4, <1>8, <1>10, <1>11 DEF Inv, Boxed

\* The end of a first run counts down what is pending.
LEMMA FirstRunKeeps ==
  ASSUME Inv, NEW i \in Instances, FirstRunEnds(i)
  PROVE  Inv'
<1>1. /\ Running /\ i \notin ran /\ pending' = pending - 1 /\ ran' = ran \cup {i}
      /\ UNCHANGED <<to, channels, inbox, queued, handled, phase>>
  BY DEF FirstRunEnds
<1>2. Channelled
  BY <1>1, Undisturbed DEF Inv
<1>3. Placed' /\ Kept'
  BY <1>1, <1>2, ChannelledKeeps DEF Inv, Typed
<1>4. Typed' /\ Boxed'
  BY <1>1, <1>2, ChannelledBoxes DEF Inv, Typed, Channelled
<1>5. Counted'
  <2>1. ran \subseteq Instances /\ pending = Cardinality(Instances \ ran)
    BY <1>1 DEF Inv, Counted
  <2>2. IsFiniteSet(Instances \ ran) /\ i \in Instances \ ran
    BY <1>1, CycleAssumption, FS_Subset
  <2>3. Cardinality((Instances \ ran) \ {i}) = Cardinality(Instances \ ran) - 1
    BY <2>2, FS_RemoveElement
  <2>4. (Instances \ ran) \ {i} = Instances \ ran'
    BY <1>1
  <2> QED BY <1>1, <2>1, <2>3, <2>4 DEF Counted
<1> QED BY <1>3, <1>4, <1>5 DEF Inv

\* The coordinator and the validation agent.
LEMMA CoordinatorGetsKeeps ==
  ASSUME Inv, CoordinatorGets
  PROVE  Inv'
<1>1. Channelled
  BY Getting, ChannelsOf DEF Inv, CoordinatorGets
<1>2. Apart
  BY DEF CoordinatorGets, Apart, forecast, Running
<1> QED BY <1>1, <1>2, ApartKeeps

LEMMA FinishKeeps ==
  ASSUME Inv, NEW w \in Tasks, Finish(w)
  PROVE  Inv'
<1>1. ChannelOf(w) \in Channels
  BY DEF Tasks, ChannelOf, Channels
<1>2. Channelled
  BY <1>1, Acknowledging DEF Inv, Finish
<1>3. Apart
  BY DEF Finish, Apart, forecast, Running
<1> QED BY <1>2, <1>3, ApartKeeps

LEMMA RaiseKeeps ==
  ASSUME Inv, NEW w \in Tasks, Raise(w)
  PROVE  Inv'
<1>1. Channelled
  BY Undisturbed DEF Inv, Raise
<1>2. Apart
  BY DEF Raise, Apart, forecast, Running
<1> QED BY <1>1, <1>2, ApartKeeps

LEMMA JudgingKeeps ==
  ASSUME Inv, Judges \/ JudgeRaises
  PROVE  Inv'
<1>1. Channelled
  BY Getting, ChannelsOf DEF Inv, Judges, JudgeRaises
<1>2. Apart
  BY DEF Judges, JudgeRaises, Apart, forecast, Running
<1> QED BY <1>1, <1>2, ApartKeeps

\* A cycle begins with empty inboxes, whatever the channels still hold.
LEMMA BeginKeeps ==
  ASSUME Inv, Begin
  PROVE  Inv'
<1>1. /\ inbox' = [i \in Instances |-> <<>>] /\ queued' = {} /\ ran' = {}
      /\ pending' = Cardinality(Instances)
      /\ Put("coordination") /\ UNCHANGED <<inFlight, handled>>
  BY DEF Begin
<1>2. /\ to' \in Seq(Destinations) /\ ready' \in [Channels -> Seq(Nat)]
      /\ Placed' /\ Kept'
  BY <1>1, PutKeeps DEF Destinations
<1>3. \A i \in Instances : inbox'[i] = <<>> /\ Range(inbox'[i]) = {}
  BY <1>1 DEF Range
<1>4. Typed'
  <2>1. <<>> \in Seq(Nat)
    OBVIOUS
  <2> QED BY <1>1, <1>2, <2>1 DEF Inv, Typed
<1>5. Counted'
  <2>1. Instances \ {} = Instances
    OBVIOUS
  <2> QED BY <1>1, <2>1 DEF Counted
<1>6. Mirrored'
  BY <1>1, <1>3 DEF Mirrored
<1>7. ASSUME NEW i \in Instances
      PROVE  BoxSound(i)'
  BY <1>3 DEF BoxSound, IsInjective
<1> QED BY <1>2, <1>4, <1>5, <1>6, <1>7 DEF Inv, Boxed

\* The polls of run_planning_cycle, and its ends.
LEMMA PollKeeps ==
  ASSUME Inv, Look \/ Confirm \/ LookAgain \/ TimeOut
  PROVE  Inv'
<1>1. Channelled
  BY Undisturbed DEF Inv, Look, Confirm, LookAgain, TimeOut, End
<1>2. Apart
  BY DEF Look, Confirm, LookAgain, TimeOut, End, Apart, forecast, Running
<1> QED BY <1>1, <1>2, ApartKeeps

LEMMA InitInv == Init => Inv
<1> SUFFICES ASSUME Init
             PROVE  Inv
  OBVIOUS
<1>1. <<>> \in Seq(Nat) /\ <<>> \in Seq(Destinations) /\ Signals = {}
  BY DEF Init, Signals
<1>2. Typed
  BY <1>1 DEF Init, Typed
<1>3. \A c \in Channels : InChannel(c) = {}
  BY DEF Init, InChannel, Range
<1>4. \A i \in Instances : inbox[i] = <<>> /\ Range(inbox[i]) = {}
  BY DEF Init, Range
<1>5. Placed /\ Kept /\ Counted
  BY <1>1, <1>3 DEF Init, Placed, Kept, Counted, Running
<1>6. Boxed
  BY <1>4 DEF Init, Boxed, Mirrored, BoxSound, IsInjective
<1> QED BY <1>2, <1>5, <1>6 DEF Inv

LEMMA NextInv == Inv /\ [Next]_vars => Inv'
<1> SUFFICES ASSUME Inv, [Next]_vars
             PROVE  Inv'
  OBVIOUS
<1>1. ASSUME NEW d \in Destinations, Send(d) PROVE Inv'
  BY <1>1, SendKeeps
<1>2. ASSUME NEW c \in Channels, Reappears(c) \/ Late(c) PROVE Inv'
  BY <1>2, DeadlineKeeps
<1>3. ASSUME NEW s \in Signals, RouteUnknown(s) \/ RouteAgain(s) \/ Route(s) PROVE Inv'
  BY <1>3, RouteAsideKeeps, RouteKeeps
<1>4. ASSUME NEW i \in Instances, FirstRunEnds(i) \/ Take(i) PROVE Inv'
  BY <1>4, FirstRunKeeps, TakeKeeps
<1>5. CASE CoordinatorGets
  BY <1>5, CoordinatorGetsKeeps
<1>6. ASSUME NEW w \in Tasks, Finish(w) \/ Raise(w) PROVE Inv'
  BY <1>6, FinishKeeps, RaiseKeeps
<1>7. CASE Judges \/ JudgeRaises
  BY <1>7, JudgingKeeps
<1>8. CASE Begin
  BY <1>8, BeginKeeps
<1>9. CASE Look \/ Confirm \/ LookAgain \/ TimeOut
  BY <1>9, PollKeeps
<1>10. CASE UNCHANGED vars
  <2>1. Channelled
    BY <1>10, Undisturbed DEF vars, Inv
  <2>2. Apart
    BY <1>10 DEF vars, forecast, Apart, Running
  <2> QED BY <2>1, <2>2, ApartKeeps
<1> QED BY <1>1, <1>2, <1>3, <1>4, <1>5, <1>6, <1>7, <1>8, <1>9, <1>10 DEF Next

------------------------------------------------------------------------------
(* The theorems *)

LEMMA Invariant == Spec => []Inv
BY InitInv, NextInv, PTL DEF Spec

LEMMA InvGivesBoxes == Inv => BoxesMatch
<1> SUFFICES ASSUME Inv
             PROVE  BoxesMatch
  OBVIOUS
<1>1. ASSUME NEW s \in InChannel("forecast")
      PROVE  Contains(ready["forecast"] \o inFlight["forecast"], s)
  <2>1. ready["forecast"] \in Seq(Nat) /\ inFlight["forecast"] \in Seq(Nat)
    BY DEF Inv, Typed, Channels
  <2>2. Range(ready["forecast"] \o inFlight["forecast"]) = InChannel("forecast")
    BY <2>1, RangeConcatenation DEF InChannel
  <2>3. ready["forecast"] \o inFlight["forecast"] \in Seq(Nat)
    BY <2>1
  <2>4. \A q \in Seq(Nat) : s \in Range(q) => Contains(q, s)
    BY DEF Range, Contains
  <2> QED BY <2>2, <2>3, <2>4
<1> QED BY <1>1 DEF Inv, Boxed, Mirrored, BoxSound, BoxesMatch

\* However often deadlines pass, handlers raise and cycles begin again: the
\* router's identity set is what the inboxes hold, no inbox holds a signal twice
\* or one of another instance, and what it holds is in the channel or was handled.
THEOREM BoxesAgree == Spec => []BoxesMatch
BY Invariant, InvGivesBoxes, PTL

\* run_planning_cycle returns without a timeout only when every instance had its
\* first run and every signal ever sent was handled by its receiver.
THEOREM EndsComplete == Spec => NoEarlyEnd
<1>1. ASSUME Inv, [Next]_vars, Running, phase' = "done"
      PROVE  ran = Instances /\ Signals \subseteq handled
  <2>1. is_idle
    BY <1>1 DEF Next, vars, Running, Send, Reappears, Late, Requeue, RouteUnknown, RouteAgain,
      Route, RouterGets, FirstRunEnds, Take, CoordinatorGets, Finish, Raise, Judges,
      JudgeRaises, Begin, Look, Confirm, LookAgain, TimeOut, End
  <2>2. ran \subseteq Instances /\ Cardinality(Instances \ ran) = 0
    BY <1>1, <2>1 DEF Inv, Counted, is_idle
  <2>3. Instances \ ran = {}
    BY <2>2, CycleAssumption, FS_Subset, FS_EmptySet
  <2>4. \A c \in Channels : InChannel(c) = {}
    BY <2>1 DEF is_idle, InChannel, Range
  <2>5. \A s \in Signals : ChannelOf(to[s]) \in Channels
    BY <1>1, ChannelsOf DEF Inv, Typed, Signals
  <2> QED BY <1>1, <2>2, <2>3, <2>4, <2>5 DEF Inv, Kept
<1>2. Inv /\ [Next]_vars
        => [Running /\ phase' = "done" => ran = Instances /\ Signals \subseteq handled]_vars
  BY <1>1
<1> QED BY <1>2, Invariant, PTL DEF Spec, NoEarlyEnd

==============================================================================
