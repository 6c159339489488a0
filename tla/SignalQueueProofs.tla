-------------------------- MODULE SignalQueueProofs --------------------------
(* What the TLA+ proof system proves of one channel, for every set of signals *)
(* and workers: its types, that no signal is lost or duplicated, the order of *)
(* first deliveries, the leases of the workers, and that the queue implements *)
(* the promise of AtLeastOnce.                                                *)
EXTENDS SignalQueue, SequenceTheorems, FiniteSums

------------------------------------------------------------------------------
(* Sublist: the elements at a set of positions, in their order.               *)

\* Every finite set of natural numbers can be counted in increasing order.
LEMMA CountedInOrder ==
  ASSUME NEW I \in SUBSET Nat, IsFiniteSet(I)
  PROVE  \E f \in [1..Cardinality(I) -> I] : InOrder(f)
<1> DEFINE Good(J) == \E f \in [1..Cardinality(J) -> J] : InOrder(f)
           T == {n \in Nat : \A J \in SUBSET Nat :
                               IsFiniteSet(J) /\ Cardinality(J) = n => Good(J)}
<1>1. 0 \in T
  <2> SUFFICES ASSUME NEW J \in SUBSET Nat, IsFiniteSet(J), Cardinality(J) = 0
               PROVE  Good(J)
    OBVIOUS
  <2>1. <<>> \in [1..0 -> J] /\ InOrder(<<>>)
    BY DEF InOrder
  <2> QED BY <2>1
<1>2. ASSUME NEW n \in T
      PROVE  n + 1 \in T
  <2> SUFFICES ASSUME NEW J \in SUBSET Nat, IsFiniteSet(J), Cardinality(J) = n + 1
               PROVE  Good(J)
    OBVIOUS
  <2>1. J # {}
    BY FS_EmptySet
  <2>2. PICK x \in J : \A y \in J : x <= y
    BY <2>1, Least
  <2> DEFINE K == J \ {x}
  <2>3. IsFiniteSet(K) /\ Cardinality(K) = n
    <3>1. IsFiniteSet(K) /\ Cardinality(K) = Cardinality(J) - 1
      BY FS_RemoveElement
    <3> QED BY <3>1
  <2>4. PICK f \in [1..n -> K] : InOrder(f)
    BY <2>3
  <2> DEFINE g == [k \in 1..(n + 1) |-> IF k = 1 THEN x ELSE f[k - 1]]
  <2>5. \A k \in 2..(n + 1) : k - 1 \in 1..n
    OBVIOUS
  <2>6. g \in [1..(n + 1) -> J]
    BY <2>4, <2>5
  <2>7. ASSUME NEW a \in 1..(n + 1), NEW b \in 1..(n + 1), a < b
        PROVE  g[a] < g[b]
    <3>1. b - 1 \in 1..n /\ g[b] = f[b - 1] /\ f[b - 1] \in K
      BY <2>4, <2>5, <2>7
    <3>2. CASE a = 1
      <4>1. g[a] = x
        BY <3>2
      <4>2. x \in Nat /\ g[b] \in Nat /\ g[b] # x /\ x <= g[b]
        BY <3>1, <2>2
      <4> QED BY <4>1, <4>2
    <3>3. CASE a # 1
      <4>1. a - 1 \in 1..n /\ g[a] = f[a - 1] /\ a - 1 < b - 1
        BY <3>3, <2>5, <2>7
      <4> QED BY <3>1, <4>1, <2>4 DEF InOrder
    <3> QED BY <3>2, <3>3
  <2> HIDE DEF g
  <2>8. InOrder(g)
    BY <2>6, <2>7 DEF InOrder
  <2> QED BY <2>6, <2>8
<1>3. T = Nat
  <2> HIDE DEF T
  <2>1. T \in SUBSET Nat
    BY DEF T
  <2> QED BY <1>1, <1>2, <2>1, Inductive
<1>4. Cardinality(I) \in Nat
  BY FS_CardinalityType
<1> QED BY <1>3, <1>4

\* The positions are counted one by one, upwards, and none is left out.
LEMMA PositionsCounted ==
  ASSUME NEW I \in SUBSET Nat, IsFiniteSet(I)
  PROVE  /\ Cardinality(I) \in Nat
         /\ PositionsInOrder(I) \in [1..Cardinality(I) -> I]
         /\ InOrder(PositionsInOrder(I))
         /\ \A a, b \in 1..Cardinality(I) :
              PositionsInOrder(I)[a] = PositionsInOrder(I)[b] => a = b
         /\ \A i \in I : \E k \in 1..Cardinality(I) : PositionsInOrder(I)[k] = i
<1> DEFINE n == Cardinality(I)
           f == PositionsInOrder(I)
<1>1. n \in Nat
  BY FS_CardinalityType
<1>2. f \in [1..n -> I] /\ InOrder(f)
  BY CountedInOrder DEF PositionsInOrder
<1> HIDE DEF f
<1>3. ASSUME NEW a \in 1..n, NEW b \in 1..n, f[a] = f[b]
      PROVE  a = b
  <2>1. f[a] \in Nat /\ f[b] \in Nat /\ DOMAIN f = 1..n
    BY <1>2
  <2>2. ~(f[a] < f[b]) /\ ~(f[b] < f[a])
    BY <1>3, <2>1
  <2>3. ~(a < b) /\ ~(b < a)
    BY <1>2, <2>1, <2>2 DEF InOrder
  <2> QED BY <1>1, <2>3
<1>4. \A i \in I : \E k \in 1..n : f[k] = i
  <2>1. f \in Injection(1..n, I)
    BY <1>2, <1>3 DEF Injection, IsInjective
  <2>2. Cardinality(1..n) = n
    BY <1>1, FS_Interval
  <2>3. f \in Surjection(1..n, I)
    BY <2>1, <2>2, FS_Injection
  <2> QED BY <2>3 DEF Surjection
<1> QED BY <1>1, <1>2, <1>3, <1>4 DEF f

\* A sublist of a sequence: its elements are those at the positions, each
\* position is met once, and in increasing order.
LEMMA SublistPositions ==
  ASSUME NEW S, NEW q \in Seq(S), NEW I \in SUBSET DOMAIN q
  PROVE  /\ Sublist(q, I) \in Seq(S)
         /\ \E f \in [DOMAIN Sublist(q, I) -> I] :
              /\ \A k \in DOMAIN Sublist(q, I) : Sublist(q, I)[k] = q[f[k]]
              /\ \A a, b \in DOMAIN Sublist(q, I) : a < b => f[a] < f[b]
              /\ \A a, b \in DOMAIN Sublist(q, I) : f[a] = f[b] => a = b
              /\ \A i \in I : \E k \in DOMAIN Sublist(q, I) : f[k] = i
<1> DEFINE n == Cardinality(I)
           f == PositionsInOrder(I)
<1>1. I \in SUBSET Nat /\ IsFiniteSet(I)
  <2>1. DOMAIN q = 1..Len(q) /\ Len(q) \in Nat
    OBVIOUS
  <2>2. IsFiniteSet(1..Len(q))
    BY <2>1, FS_Interval
  <2> QED BY <2>1, <2>2, FS_Subset
<1>2. /\ n \in Nat /\ f \in [1..n -> I] /\ InOrder(f)
      /\ \A a, b \in 1..n : f[a] = f[b] => a = b
      /\ \A i \in I : \E k \in 1..n : f[k] = i
  BY <1>1, PositionsCounted
<1>3. Sublist(q, I) = [k \in 1..n |-> q[f[k]]]
  BY DEF Sublist
<1> HIDE DEF f, n
<1>4. \A i \in I : q[i] \in S
  OBVIOUS
<1>5. Sublist(q, I) \in [1..n -> S]
  BY <1>2, <1>3, <1>4
<1>6. DOMAIN Sublist(q, I) = 1..n
  BY <1>3
<1>7. Sublist(q, I) \in Seq(S)
  BY <1>2, <1>5
<1>8. \A k \in 1..n : Sublist(q, I)[k] = q[f[k]]
  BY <1>3
<1>9. \A a, b \in 1..n : a < b => f[a] < f[b]
  BY <1>2 DEF InOrder
<1>10. /\ f \in [DOMAIN Sublist(q, I) -> I]
       /\ \A k \in DOMAIN Sublist(q, I) : Sublist(q, I)[k] = q[f[k]]
       /\ \A a, b \in DOMAIN Sublist(q, I) : a < b => f[a] < f[b]
       /\ \A a, b \in DOMAIN Sublist(q, I) : f[a] = f[b] => a = b
       /\ \A i \in I : \E k \in DOMAIN Sublist(q, I) : f[k] = i
  BY <1>2, <1>6, <1>8, <1>9
<1> QED BY <1>7, <1>10

\* A sublist holds what is at its positions, and repeats nothing that the
\* sequence does not repeat.
LEMMA SublistOnce ==
  ASSUME NEW S, NEW q \in Seq(S), NEW I \in SUBSET DOMAIN q
  PROVE  /\ Sublist(q, I) \in Seq(S)
         /\ ToSet(Sublist(q, I)) = {q[i] : i \in I}
         /\ IsInjective(q) => IsInjective(Sublist(q, I))
<1> DEFINE r == Sublist(q, I)
<1>1. PICK f \in [DOMAIN r -> I] :
        /\ \A k \in DOMAIN r : r[k] = q[f[k]]
        /\ \A a, b \in DOMAIN r : f[a] = f[b] => a = b
        /\ \A i \in I : \E k \in DOMAIN r : f[k] = i
  BY SublistPositions
<1>2. r \in Seq(S)
  BY SublistPositions
<1> HIDE DEF r
<1>3. ToSet(r) = {q[i] : i \in I}
  BY <1>1 DEF ToSet
<1>4. IsInjective(q) => IsInjective(r)
  BY <1>1 DEF IsInjective
<1> QED BY <1>2, <1>3, <1>4 DEF r

\* Concatenation: what it holds and when it repeats nothing.
LEMMA ConcatOnce ==
  ASSUME NEW S, NEW p \in Seq(S), NEW q \in Seq(S)
  PROVE  /\ p \o q \in Seq(S)
         /\ ToSet(p \o q) = ToSet(p) \cup ToSet(q)
         /\ IsInjective(p \o q) <=> /\ IsInjective(p)
                                    /\ IsInjective(q)
                                    /\ ToSet(p) \cap ToSet(q) = {}
<1> DEFINE r == p \o q
<1>1. /\ Len(p) \in Nat /\ Len(q) \in Nat
      /\ DOMAIN p = 1..Len(p) /\ DOMAIN q = 1..Len(q)
  OBVIOUS
<1>2. /\ r \in Seq(S)
      /\ DOMAIN r = 1..(Len(p) + Len(q))
      /\ \A k \in 1..(Len(p) + Len(q)) :
           r[k] = IF k <= Len(p) THEN p[k] ELSE q[k - Len(p)]
  BY ConcatProperties
<1> HIDE DEF r
<1>3. \A k \in DOMAIN p : k \in DOMAIN r /\ r[k] = p[k]
  BY <1>1, <1>2
<1>4. \A k \in DOMAIN q : Len(p) + k \in DOMAIN r /\ r[Len(p) + k] = q[k]
  BY <1>1, <1>2
<1>5. \A k \in DOMAIN r : k \in DOMAIN p \/ \E j \in DOMAIN q : k = Len(p) + j
  <2> TAKE k \in DOMAIN r
  <2>1. CASE k <= Len(p)
    BY <1>1, <1>2, <2>1
  <2>2. CASE k > Len(p)
    <3>1. k - Len(p) \in DOMAIN q /\ k = Len(p) + (k - Len(p))
      BY <1>1, <1>2, <2>2
    <3> QED BY <3>1
  <2> QED BY <1>1, <1>2, <2>1, <2>2
<1>6. ToSet(r) = ToSet(p) \cup ToSet(q)
  <2>1. ToSet(p) \subseteq ToSet(r)
    BY <1>3 DEF ToSet
  <2>2. ToSet(q) \subseteq ToSet(r)
    BY <1>4 DEF ToSet
  <2>3. ASSUME NEW k \in DOMAIN r
        PROVE  r[k] \in ToSet(p) \cup ToSet(q)
    BY <1>3, <1>4, <1>5 DEF ToSet
  <2> QED BY <2>1, <2>2, <2>3 DEF ToSet
<1>7. ASSUME IsInjective(r)
      PROVE  IsInjective(p) /\ IsInjective(q) /\ ToSet(p) \cap ToSet(q) = {}
  <2>1. IsInjective(p)
    BY <1>3, <1>7 DEF IsInjective
  <2>2. ASSUME NEW a \in DOMAIN q, NEW b \in DOMAIN q, q[a] = q[b]
        PROVE  a = b
    <3>1. Len(p) + a = Len(p) + b
      BY <1>4, <1>7, <2>2 DEF IsInjective
    <3> QED BY <1>1, <3>1
  <2>3. ASSUME NEW a \in DOMAIN p, NEW b \in DOMAIN q, p[a] = q[b]
        PROVE  FALSE
    <3>1. a = Len(p) + b
      BY <1>3, <1>4, <1>7, <2>3 DEF IsInjective
    <3> QED BY <1>1, <3>1
  <2> QED BY <2>1, <2>2, <2>3 DEF IsInjective, ToSet
<1>8. ASSUME IsInjective(p), IsInjective(q), ToSet(p) \cap ToSet(q) = {}
      PROVE  IsInjective(r)
  <2>1. \A a \in DOMAIN p, b \in DOMAIN q : p[a] # q[b]
    BY <1>8 DEF ToSet
  <2>2. ASSUME NEW a \in DOMAIN r, NEW b \in DOMAIN r, r[a] = r[b]
        PROVE  a = b
    <3>1. CASE a \in DOMAIN p /\ b \in DOMAIN p
      BY <1>3, <1>8, <2>2, <3>1 DEF IsInjective
    <3>2. CASE a \notin DOMAIN p /\ b \notin DOMAIN p
      BY <1>4, <1>5, <1>8, <2>2, <3>2 DEF IsInjective
    <3>3. CASE a \in DOMAIN p /\ b \notin DOMAIN p
      BY <1>3, <1>4, <1>5, <2>1, <2>2, <3>3
    <3>4. CASE a \notin DOMAIN p /\ b \in DOMAIN p
      BY <1>3, <1>4, <1>5, <2>1, <2>2, <3>4
    <3> QED BY <3>1, <3>2, <3>3, <3>4
  <2> QED BY <2>2 DEF IsInjective
<1> QED BY <1>2, <1>6, <1>7, <1>8 DEF r

\* Append: what it holds and when it repeats nothing.
LEMMA AppendOnce ==
  ASSUME NEW S, NEW q \in Seq(S), NEW e \in S
  PROVE  /\ Append(q, e) \in Seq(S)
         /\ ToSet(Append(q, e)) = ToSet(q) \cup {e}
         /\ IsInjective(q) /\ e \notin ToSet(q) => IsInjective(Append(q, e))
<1>1. /\ Append(q, e) \in Seq(S)
      /\ DOMAIN Append(q, e) = DOMAIN q \cup {Len(q) + 1}
      /\ \A k \in DOMAIN q : Append(q, e)[k] = q[k]
      /\ Append(q, e)[Len(q) + 1] = e
  OBVIOUS
<1>2. ToSet(Append(q, e)) = ToSet(q) \cup {e}
  BY <1>1 DEF ToSet
<1>3. IsInjective(q) /\ e \notin ToSet(q) => IsInjective(Append(q, e))
  BY <1>1 DEF IsInjective, ToSet
<1> QED BY <1>1, <1>2, <1>3

\* Head and tail: what they hold.
LEMMA TailOnce ==
  ASSUME NEW S, NEW q \in Seq(S), q # <<>>
  PROVE  /\ Head(q) \in S /\ Tail(q) \in Seq(S)
         /\ ToSet(q) = {Head(q)} \cup ToSet(Tail(q))
         /\ IsInjective(q) => IsInjective(Tail(q)) /\ Head(q) \notin ToSet(Tail(q))
         /\ \A k \in DOMAIN Tail(q) : k + 1 \in DOMAIN q /\ Tail(q)[k] = q[k + 1]
<1>1. /\ Head(q) \in S /\ Tail(q) \in Seq(S) /\ Head(q) = q[1] /\ 1 \in DOMAIN q
      /\ Len(Tail(q)) = Len(q) - 1
      /\ \A k \in DOMAIN Tail(q) : k + 1 \in DOMAIN q /\ Tail(q)[k] = q[k + 1]
  BY HeadTailProperties
<1>2. \A k \in DOMAIN q : k = 1 \/ (k - 1 \in DOMAIN Tail(q) /\ (k - 1) + 1 = k)
  BY <1>1
<1>3. ToSet(q) = {Head(q)} \cup ToSet(Tail(q))
  <2>1. ASSUME NEW k \in DOMAIN q
        PROVE  q[k] \in {Head(q)} \cup ToSet(Tail(q))
    BY <1>1, <1>2 DEF ToSet
  <2> QED BY <1>1, <2>1 DEF ToSet
<1>4. ASSUME IsInjective(q)
      PROVE  IsInjective(Tail(q)) /\ Head(q) \notin ToSet(Tail(q))
  <2>1. DOMAIN Tail(q) \subseteq Nat \ {0}
    BY <1>1
  <2>2. IsInjective(Tail(q))
    BY <1>1, <1>4, <2>1 DEF IsInjective
  <2>3. ASSUME NEW k \in DOMAIN Tail(q), Tail(q)[k] = Head(q)
        PROVE  FALSE
    <3>1. k + 1 = 1
      BY <1>1, <1>4, <2>3 DEF IsInjective
    <3> QED BY <2>1, <3>1
  <2> QED BY <2>2, <2>3 DEF ToSet
<1> QED BY <1>1, <1>3, <1>4

------------------------------------------------------------------------------
(* The inductive invariant.                                                   *)
InFlightSignals == ToSet(SignalsOf(inFlight))

\* Nothing is in the queue twice.
Once ==
  /\ IsInjective(ready)
  /\ IsInjective(SignalsOf(inFlight))
  /\ ToSet(ready) \cap InFlightSignals = {}

\* What was put and not acknowledged is there; what is in flight was delivered.
Kept ==
  /\ ToSet(ready) \cup InFlightSignals = ToSet(sent) \ acked
  /\ delivered \subseteq ToSet(sent)
  /\ InFlightSignals \subseteq delivered

\* A worker holds a signal, and a lease, only while it handles it.
Busy ==
  \A w \in Workers :
    /\ task[w] = "handling" => job[w] \in delivered
    /\ task[w] # "handling" => job[w] = NoSignal /\ lease[w] = 0

Inv ==
  /\ TypeOK
  /\ Once
  /\ Kept
  /\ Busy
  /\ FirstDeliveryInOrder
  /\ LeasesHold

------------------------------------------------------------------------------
(* Facts about the queue's two lists.                                         *)

\* The signals of a list of entries.
LEMMA SignalsOfEntries ==
  ASSUME NEW q \in Seq(Entry)
  PROVE  /\ SignalsOf(q) \in Seq(Signals)
         /\ DOMAIN SignalsOf(q) = DOMAIN q
         /\ \A i \in DOMAIN q : SignalsOf(q)[i] = q[i].sig
<1>1. Len(q) \in Nat /\ DOMAIN q = 1..Len(q)
  OBVIOUS
<1>2. \A i \in DOMAIN q : q[i] \in Entry
  OBVIOUS
<1>3. \A i \in DOMAIN q : q[i].sig \in Signals
  BY <1>2 DEF Entry
<1>4. SignalsOf(q) \in [1..Len(q) -> Signals]
  BY <1>1, <1>3 DEF SignalsOf
<1> QED BY <1>1, <1>4 DEF SignalsOf

\* The signals of some of the entries.
LEMMA SignalsOfSublist ==
  ASSUME NEW q \in Seq(Entry), NEW I \in SUBSET DOMAIN q
  PROVE  /\ Sublist(q, I) \in Seq(Entry)
         /\ ToSet(Sublist(q, I)) = {q[i] : i \in I}
         /\ ToSet(SignalsOf(Sublist(q, I))) = {q[i].sig : i \in I}
         /\ IsInjective(SignalsOf(q)) => IsInjective(SignalsOf(Sublist(q, I)))
<1> DEFINE r == Sublist(q, I)
           g == SignalsOf(q)
           h == SignalsOf(r)
<1>1. /\ r \in Seq(Entry)
      /\ ToSet(r) = {q[i] : i \in I}
  BY SublistOnce
<1>2. PICK f \in [DOMAIN r -> I] :
        /\ \A k \in DOMAIN r : r[k] = q[f[k]]
        /\ \A a, b \in DOMAIN r : f[a] = f[b] => a = b
        /\ \A i \in I : \E k \in DOMAIN r : f[k] = i
  BY SublistPositions
<1>3. DOMAIN g = DOMAIN q /\ \A i \in DOMAIN q : g[i] = q[i].sig
  BY SignalsOfEntries
<1>4. DOMAIN h = DOMAIN r /\ \A k \in DOMAIN r : h[k] = r[k].sig
  BY <1>1, SignalsOfEntries
<1> HIDE DEF r, g, h
<1>5. \A k \in DOMAIN r : h[k] = g[f[k]] /\ h[k] = q[f[k]].sig
  BY <1>2, <1>3, <1>4
<1>6. ToSet(h) = {q[i].sig : i \in I}
  BY <1>2, <1>4, <1>5 DEF ToSet
<1>7. ASSUME IsInjective(g)
      PROVE  IsInjective(h)
  <2> SUFFICES ASSUME NEW a \in DOMAIN r, NEW b \in DOMAIN r, h[a] = h[b]
               PROVE  a = b
    BY <1>4 DEF IsInjective
  <2>1. f[a] = f[b]
    BY <1>3, <1>5, <1>7, <1>2 DEF IsInjective
  <2> QED BY <2>1, <1>2
<1> QED BY <1>1, <1>6, <1>7 DEF r, g, h

\* What is not expired is kept, what is expired goes behind what is ready, and
\* nothing is lost or duplicated by it (_requeue_expired).
LEMMA Requeued ==
  ASSUME TypeOK, Once
  PROVE  /\ ReadyAfterRequeue \in Seq(Signals)
         /\ InFlightAfterRequeue \in Seq(Entry)
         /\ IsInjective(ReadyAfterRequeue)
         /\ IsInjective(SignalsOf(InFlightAfterRequeue))
         /\ ToSet(ReadyAfterRequeue) \cap ToSet(SignalsOf(InFlightAfterRequeue)) = {}
         /\ ToSet(ReadyAfterRequeue) \cup ToSet(SignalsOf(InFlightAfterRequeue))
              = ToSet(ready) \cup InFlightSignals
         /\ ToSet(SignalsOf(InFlightAfterRequeue)) \subseteq InFlightSignals
         /\ ToSet(ready) \subseteq ToSet(ReadyAfterRequeue)
         /\ \A i \in DOMAIN inFlight :
              inFlight[i].left > 0 => inFlight[i] \in ToSet(InFlightAfterRequeue)
         /\ \A k \in DOMAIN ReadyAfterRequeue :
              \/ k \in DOMAIN ready /\ ReadyAfterRequeue[k] = ready[k]
              \/ ReadyAfterRequeue[k] \in InFlightSignals
<1> DEFINE x == Sublist(inFlight, ExpiredAt)
           f == Sublist(inFlight, UnexpiredAt)
           g == SignalsOf(inFlight)
<1>1. /\ ready \in Seq(Signals) /\ inFlight \in Seq(Entry)
      /\ ExpiredAt \subseteq DOMAIN inFlight
      /\ UnexpiredAt \subseteq DOMAIN inFlight
  BY DEF TypeOK, ExpiredAt, UnexpiredAt
<1>2. /\ DOMAIN g = DOMAIN inFlight
      /\ \A i \in DOMAIN inFlight : g[i] = inFlight[i].sig
  BY <1>1, SignalsOfEntries
<1>3. \A i \in DOMAIN inFlight : inFlight[i].left \in Nat
  <2>1. \A i \in DOMAIN inFlight : inFlight[i] \in Entry
    BY <1>1
  <2>2. \A i \in DOMAIN inFlight : inFlight[i].left \in 0..AckTimeout
    BY <2>1 DEF Entry
  <2> QED BY <2>2, QueueAssumption
<1>4. /\ ExpiredAt \cup UnexpiredAt = DOMAIN inFlight
      /\ ExpiredAt \cap UnexpiredAt = {}
  BY <1>3 DEF ExpiredAt, UnexpiredAt, Expired, Unexpired
<1>5. /\ x \in Seq(Entry) /\ f \in Seq(Entry)
      /\ ToSet(f) = {inFlight[i] : i \in UnexpiredAt}
      /\ ToSet(SignalsOf(x)) = {inFlight[i].sig : i \in ExpiredAt}
      /\ ToSet(SignalsOf(f)) = {inFlight[i].sig : i \in UnexpiredAt}
      /\ IsInjective(SignalsOf(x)) /\ IsInjective(SignalsOf(f))
  BY <1>1, SignalsOfSublist DEF Once
<1>6. SignalsOf(x) \in Seq(Signals) /\ SignalsOf(f) \in Seq(Signals)
  BY <1>5, SignalsOfEntries
<1>7. InFlightSignals = {inFlight[i].sig : i \in DOMAIN inFlight}
  BY <1>2 DEF InFlightSignals, ToSet
<1>8. \A i \in ExpiredAt, j \in UnexpiredAt : inFlight[i].sig # inFlight[j].sig
  BY <1>1, <1>2, <1>4 DEF Once, IsInjective
<1>9. /\ ReadyAfterRequeue = ready \o SignalsOf(x)
      /\ InFlightAfterRequeue = f
  BY DEF ReadyAfterRequeue, InFlightAfterRequeue
<1> HIDE DEF x, f, g
<1>10. /\ ToSet(SignalsOf(x)) \cap ToSet(SignalsOf(f)) = {}
       /\ ToSet(SignalsOf(x)) \cup ToSet(SignalsOf(f)) = InFlightSignals
  BY <1>4, <1>5, <1>7, <1>8
<1>11. /\ ReadyAfterRequeue \in Seq(Signals)
       /\ ToSet(ReadyAfterRequeue) = ToSet(ready) \cup ToSet(SignalsOf(x))
       /\ IsInjective(ReadyAfterRequeue)
  <2>1. IsInjective(ready) /\ ToSet(ready) \cap ToSet(SignalsOf(x)) = {}
    BY <1>10 DEF Once
  <2> QED BY <1>1, <1>5, <1>6, <1>9, <2>1, ConcatOnce
<1>12. ASSUME NEW k \in DOMAIN ReadyAfterRequeue
       PROVE  \/ k \in DOMAIN ready /\ ReadyAfterRequeue[k] = ready[k]
              \/ ReadyAfterRequeue[k] \in InFlightSignals
  <2>1. ReadyAfterRequeue[k] \in ToSet(ready) \cup ToSet(SignalsOf(x))
    BY <1>11 DEF ToSet
  <2>2. CASE k \in DOMAIN ready
    BY <1>1, <1>6, <1>9, <2>2
  <2>3. CASE k \notin DOMAIN ready
    <3>1. /\ Len(ready) \in Nat /\ DOMAIN ready = 1..Len(ready)
          /\ Len(SignalsOf(x)) \in Nat
          /\ DOMAIN SignalsOf(x) = 1..Len(SignalsOf(x))
          /\ k \in 1..(Len(ready) + Len(SignalsOf(x)))
      BY <1>1, <1>6, <1>9
    <3>2. /\ k - Len(ready) \in DOMAIN SignalsOf(x)
          /\ ReadyAfterRequeue[k] = SignalsOf(x)[k - Len(ready)]
      BY <1>1, <1>6, <1>9, <2>3, <3>1
    <3> QED BY <1>10, <3>2 DEF ToSet
  <2> QED BY <2>2, <2>3
<1>13. \A i \in DOMAIN inFlight :
         inFlight[i].left > 0 => inFlight[i] \in ToSet(InFlightAfterRequeue)
  BY <1>5, <1>9 DEF UnexpiredAt, Unexpired
<1>14. /\ IsInjective(SignalsOf(InFlightAfterRequeue))
       /\ InFlightAfterRequeue \in Seq(Entry)
       /\ ToSet(SignalsOf(InFlightAfterRequeue)) \subseteq InFlightSignals
  BY <1>5, <1>9, <1>10
<1>15. ToSet(ReadyAfterRequeue) \cap ToSet(SignalsOf(InFlightAfterRequeue)) = {}
  BY <1>9, <1>10, <1>11 DEF Once
<1> QED BY <1>9, <1>10, <1>11, <1>12, <1>13, <1>14, <1>15

\* Waking the waiting workers changes no handling worker.
LEMMA WokenHandle ==
  ASSUME TypeOK
  PROVE  /\ Woken \in [Workers -> {"running", "waiting", "handling", "dead"}]
         /\ \A w \in Workers : Woken[w] = "handling" <=> task[w] = "handling"
         /\ WokenIfRequeued \in [Workers -> {"running", "waiting", "handling", "dead"}]
         /\ \A w \in Workers : WokenIfRequeued[w] = "handling" <=> task[w] = "handling"
BY DEF TypeOK, Woken, WokenIfRequeued

\* The shortest wait is a time left of some entry, or no timeout.
LEMMA WaitTyped ==
  ASSUME TypeOK
  PROVE  ShortestWait \in {NoTimer} \cup 0..AckTimeout
<1> DEFINE lefts == {inFlight[i].left : i \in DOMAIN inFlight}
<1>1. \A i \in DOMAIN inFlight : inFlight[i] \in Entry
  BY DEF TypeOK
<1>2. lefts \subseteq 0..AckTimeout
  BY <1>1 DEF Entry
<1>3. lefts \in SUBSET Nat
  BY <1>2, QueueAssumption
<1>4. CASE lefts = {}
  BY <1>4 DEF ShortestWait
<1>5. CASE lefts # {}
  <2> HIDE DEF lefts
  <2>1. \E d \in lefts : \A e \in lefts : d <= e
    BY <1>3, <1>5, Least
  <2>2. (CHOOSE d \in lefts : \A e \in lefts : d <= e) \in lefts
    BY <2>1
  <2>3. ShortestWait = CHOOSE d \in lefts : \A e \in lefts : d <= e
    BY <1>5 DEF ShortestWait, lefts
  <2> QED BY <1>2, <2>2, <2>3
<1> QED BY <1>4, <1>5

LEMMA InvInit == Init => Inv
<1> SUFFICES ASSUME Init
             PROVE  Inv
  OBVIOUS
<1>1. /\ ready = <<>> /\ inFlight = <<>> /\ sent = <<>>
      /\ delivered = {} /\ acked = {}
      /\ DOMAIN ready = {} /\ DOMAIN inFlight = {}
  BY DEF Init
<1>2. <<>> \in Seq(Signals) /\ <<>> \in Seq(Entry)
  OBVIOUS
<1>3. TypeOK
  BY <1>1, <1>2, QueueAssumption DEF Init, TypeOK
<1>4. /\ DOMAIN SignalsOf(inFlight) = {}
      /\ ToSet(ready) = {} /\ ToSet(sent) = {} /\ InFlightSignals = {}
  BY <1>1 DEF SignalsOf, ToSet, InFlightSignals
<1>5. Once
  BY <1>1, <1>4 DEF Once, IsInjective
<1>6. Kept
  BY <1>1, <1>4 DEF Kept
<1>7. Busy
  BY DEF Init, Busy
<1>8. FirstDeliveryInOrder
  BY <1>1, <1>4 DEF FirstDeliveryInOrder
<1>9. LeasesHold
  BY DEF Init, LeasesHold, OneWorkerInTime, InTimeIsInFlight
<1> QED BY <1>3, <1>5, <1>6, <1>7, <1>8, <1>9 DEF Inv

\* put_nowait: the new signal is the last sent and the last of the ready ones.
LEMMA PutKeeps ==
  ASSUME Inv, NEW s \in Signals, Put(s)
  PROVE  Inv'
<1>1. /\ ready' = Append(ready, s) /\ sent' = Append(sent, s) /\ task' = Woken
      /\ UNCHANGED <<inFlight, delay, job, delivered, acked, lease>>
      /\ ~Contains(sent, s)
  BY DEF Put, ReadyWith
<1>2. ready \in Seq(Signals) /\ sent \in Seq(Signals) /\ acked \subseteq delivered
  BY DEF Inv, TypeOK
<1>3. s \notin ToSet(sent)
  <2>1. DOMAIN sent = 1..Len(sent)
    BY <1>2
  <2> QED BY <1>1, <2>1 DEF Contains, ToSet
<1>4. s \notin ToSet(ready) /\ s \notin InFlightSignals /\ s \notin delivered
  BY <1>3 DEF Inv, Kept
<1>5. /\ ready' \in Seq(Signals) /\ ToSet(ready') = ToSet(ready) \cup {s}
      /\ IsInjective(ready')
      /\ sent' \in Seq(Signals) /\ ToSet(sent') = ToSet(sent) \cup {s}
  BY <1>1, <1>2, <1>4, AppendOnce DEF Inv, Once
<1>6. InFlightSignals' = InFlightSignals /\ SignalsOf(inFlight') = SignalsOf(inFlight)
  BY <1>1 DEF InFlightSignals
<1>7. TypeOK'
  BY <1>1, <1>5, WokenHandle DEF Inv, TypeOK
<1>8. Once'
  BY <1>4, <1>5, <1>6 DEF Inv, Once
<1>9. Kept'
  BY <1>1, <1>2, <1>3, <1>4, <1>5, <1>6 DEF Inv, Kept
<1>10. Busy'
  BY <1>1, WokenHandle DEF Inv, Busy
<1>11. FirstDeliveryInOrder'
  <2>1. ToSet(sent') \ delivered' \subseteq ToSet(ready')
    BY <1>1, <1>5 DEF Inv, FirstDeliveryInOrder
  <2>2. ASSUME NEW i \in DOMAIN ready', NEW j \in DOMAIN ready', i < j,
               ready'[i] \notin delivered, ready'[j] \notin delivered
        PROVE  \E a, b \in DOMAIN sent' :
                 a < b /\ sent'[a] = ready'[i] /\ sent'[b] = ready'[j]
    <3>1. /\ DOMAIN ready' = DOMAIN ready \cup {Len(ready) + 1}
          /\ \A k \in DOMAIN ready : ready'[k] = ready[k]
          /\ ready'[Len(ready) + 1] = s
          /\ DOMAIN ready = 1..Len(ready) /\ Len(ready) \in Nat
      BY <1>1, <1>2
    <3>2. /\ DOMAIN sent' = DOMAIN sent \cup {Len(sent) + 1}
          /\ \A k \in DOMAIN sent : sent'[k] = sent[k]
          /\ sent'[Len(sent) + 1] = s
          /\ DOMAIN sent = 1..Len(sent) /\ Len(sent) \in Nat
      BY <1>1, <1>2
    <3>3. i \in DOMAIN ready /\ ready'[i] = ready[i]
      BY <2>2, <3>1
    <3>4. CASE j \in DOMAIN ready
      <4>1. PICK a \in DOMAIN sent, b \in DOMAIN sent :
              a < b /\ sent[a] = ready[i] /\ sent[b] = ready[j]
        BY <2>2, <3>1, <3>3, <3>4 DEF Inv, FirstDeliveryInOrder
      <4>2. /\ a \in DOMAIN sent' /\ b \in DOMAIN sent' /\ a < b
            /\ sent'[a] = ready'[i] /\ sent'[b] = ready'[j]
        BY <3>1, <3>2, <3>3, <3>4, <4>1
      <4> QED BY <4>2
    <3>5. CASE j = Len(ready) + 1
      <4>1. ready[i] \in ToSet(sent)
        BY <3>3 DEF Inv, Kept, ToSet
      <4>2. PICK a \in DOMAIN sent : sent[a] = ready[i]
        BY <4>1 DEF ToSet
      <4>3. /\ a \in DOMAIN sent' /\ Len(sent) + 1 \in DOMAIN sent' /\ a < Len(sent) + 1
            /\ sent'[a] = ready'[i] /\ sent'[Len(sent) + 1] = ready'[j]
        BY <3>1, <3>2, <3>3, <3>5, <4>2
      <4> QED BY <4>3
    <3> QED BY <3>1, <3>4, <3>5
  <2> QED BY <1>1, <2>1, <2>2 DEF FirstDeliveryInOrder
<1>12. LeasesHold'
  BY <1>1 DEF Inv, LeasesHold, OneWorkerInTime, InTimeIsInFlight
<1> QED BY <1>7, <1>8, <1>9, <1>10, <1>11, <1>12 DEF Inv

\* A requeue by itself (is_idle).
LEMMA PollKeeps ==
  ASSUME Inv, Poll
  PROVE  Inv'
<1>1. /\ ready' = ReadyAfterRequeue /\ inFlight' = InFlightAfterRequeue
      /\ task' = Woken
      /\ UNCHANGED <<delay, job, sent, delivered, acked, lease>>
  BY DEF Poll, history
<1>2. TypeOK /\ Once
  BY DEF Inv
<1>3. TypeOK'
  BY <1>1, <1>2, Requeued, WokenHandle DEF TypeOK
<1>4. InFlightSignals' = ToSet(SignalsOf(InFlightAfterRequeue))
  BY <1>1 DEF InFlightSignals
<1>5. Once'
  BY <1>1, <1>2, <1>4, Requeued DEF Once
<1>6. Kept'
  BY <1>1, <1>2, <1>4, Requeued DEF Inv, Kept
<1>7. Busy'
  BY <1>1, <1>2, WokenHandle DEF Inv, Busy
<1>8. FirstDeliveryInOrder'
  <2>1. ToSet(sent') \ delivered' \subseteq ToSet(ready')
    BY <1>1, <1>2, Requeued DEF Inv, FirstDeliveryInOrder
  <2>2. ASSUME NEW k \in DOMAIN ready', ready'[k] \notin delivered
        PROVE  k \in DOMAIN ready /\ ready'[k] = ready[k]
    BY <1>1, <1>2, <2>2, Requeued DEF Inv, Kept
  <2> QED BY <1>1, <2>1, <2>2 DEF Inv, FirstDeliveryInOrder
<1>9. LeasesHold'
  <2>1. OneWorkerInTime'
    BY <1>1 DEF Inv, LeasesHold, OneWorkerInTime
  <2>2. ASSUME NEW i \in DOMAIN inFlight, inFlight[i].left > 0
        PROVE  \E k \in DOMAIN inFlight' : inFlight'[k] = inFlight[i]
    BY <1>1, <1>2, <2>2, Requeued DEF ToSet
  <2>3. InTimeIsInFlight'
    BY <1>1, <2>2 DEF Inv, LeasesHold, InTimeIsInFlight
  <2> QED BY <2>1, <2>3 DEF LeasesHold
<1> QED BY <1>3, <1>5, <1>6, <1>7, <1>8, <1>9 DEF Inv

\* get: the head of the ready ones goes in flight with a full deadline.
LEMMA GetKeeps ==
  ASSUME Inv, NEW w \in Workers, Get(w)
  PROVE  Inv'
<1> DEFINE R == ReadyAfterRequeue
           F == InFlightAfterRequeue
           s == Head(R)
           e == [sig |-> s, left |-> AckTimeout]
<1>1. /\ task[w] = "running" /\ R # <<>>
      /\ ready' = Tail(R)
      /\ inFlight' = Append(F, e)
      /\ job' = [job EXCEPT ![w] = s]
      /\ delivered' = delivered \cup {s}
      /\ task' = [WokenIfRequeued EXCEPT ![w] = "handling"]
      /\ lease' = [lease EXCEPT ![w] = AckTimeout]
      /\ UNCHANGED <<delay, sent, acked>>
  BY DEF Get
<1>2. TypeOK /\ Once /\ Kept /\ Busy
  BY DEF Inv
<1>3. /\ R \in Seq(Signals) /\ F \in Seq(Entry)
      /\ IsInjective(R) /\ IsInjective(SignalsOf(F))
      /\ ToSet(R) \cap ToSet(SignalsOf(F)) = {}
      /\ ToSet(R) \cup ToSet(SignalsOf(F)) = ToSet(ready) \cup InFlightSignals
      /\ ToSet(SignalsOf(F)) \subseteq InFlightSignals
      /\ ToSet(ready) \subseteq ToSet(R)
      /\ \A i \in DOMAIN inFlight : inFlight[i].left > 0 => inFlight[i] \in ToSet(F)
      /\ \A k \in DOMAIN R : \/ k \in DOMAIN ready /\ R[k] = ready[k]
                             \/ R[k] \in InFlightSignals
  BY <1>2, Requeued
<1> HIDE DEF R, F
<1>4. /\ s \in Signals /\ Tail(R) \in Seq(Signals)
      /\ ToSet(R) = {s} \cup ToSet(Tail(R))
      /\ IsInjective(Tail(R)) /\ s \notin ToSet(Tail(R))
      /\ \A k \in DOMAIN Tail(R) : k + 1 \in DOMAIN R /\ Tail(R)[k] = R[k + 1]
  BY <1>1, <1>3, TailOnce
<1>5. e \in Entry /\ e.sig = s /\ e.left = AckTimeout
  BY <1>4, QueueAssumption DEF Entry
<1> HIDE DEF s, e
<1>6. /\ SignalsOf(inFlight') = Append(SignalsOf(F), s)
      /\ inFlight' \in Seq(Entry)
      /\ \A k \in DOMAIN F : k \in DOMAIN inFlight' /\ inFlight'[k] = F[k]
      /\ \E k \in DOMAIN inFlight' : inFlight'[k] = e
  <2>1. /\ inFlight' \in Seq(Entry)
        /\ DOMAIN inFlight' = 1..(Len(F) + 1)
        /\ DOMAIN F = 1..Len(F) /\ Len(F) \in Nat
        /\ \A k \in DOMAIN F : inFlight'[k] = F[k]
        /\ inFlight'[Len(F) + 1] = e
    BY <1>1, <1>3, <1>5
  <2>2. SignalsOf(F) \in Seq(Signals) /\ DOMAIN SignalsOf(F) = DOMAIN F
    BY <1>3, SignalsOfEntries
  <2>3. Len(SignalsOf(F)) = Len(F)
    BY <2>1, <2>2
  <2>4. /\ SignalsOf(inFlight') \in Seq(Signals)
        /\ DOMAIN SignalsOf(inFlight') = 1..(Len(F) + 1)
        /\ \A k \in DOMAIN inFlight' : SignalsOf(inFlight')[k] = inFlight'[k].sig
    BY <2>1, SignalsOfEntries
  <2>5. /\ Append(SignalsOf(F), s) \in Seq(Signals)
        /\ DOMAIN Append(SignalsOf(F), s) = 1..(Len(F) + 1)
        /\ \A k \in DOMAIN F : Append(SignalsOf(F), s)[k] = SignalsOf(F)[k]
        /\ Append(SignalsOf(F), s)[Len(F) + 1] = s
    BY <1>4, <2>1, <2>2, <2>3
  <2>6. ASSUME NEW k \in 1..(Len(F) + 1)
        PROVE  SignalsOf(inFlight')[k] = Append(SignalsOf(F), s)[k]
    <3>1. CASE k \in DOMAIN F
      <4>1. SignalsOf(F)[k] = F[k].sig
        BY <3>1, <1>3, SignalsOfEntries
      <4> QED BY <2>1, <2>4, <2>5, <3>1, <4>1
    <3>2. CASE k = Len(F) + 1
      BY <2>1, <2>4, <2>5, <3>2, <1>5
    <3>3. k \in DOMAIN F \/ k = Len(F) + 1
      <4>1. Len(F) \in Nat /\ k \in 1..(Len(F) + 1) /\ DOMAIN F = 1..Len(F)
        BY <2>1
      <4>2. k \in 1..Len(F) \/ k = Len(F) + 1
        BY <4>1
      <4> QED BY <4>1, <4>2
    <3> QED BY <3>1, <3>2, <3>3
  <2>7. SignalsOf(inFlight') = Append(SignalsOf(F), s)
    <3>1. /\ Len(SignalsOf(inFlight')) = Len(F) + 1
          /\ Len(Append(SignalsOf(F), s)) = Len(F) + 1
      BY <2>1, <2>4, <2>5
    <3> QED BY <2>4, <2>5, <2>6, <3>1, SeqEqual
  <2>8. Len(F) + 1 \in DOMAIN inFlight' /\ DOMAIN F \subseteq DOMAIN inFlight'
    BY <2>1
  <2> QED BY <2>1, <2>7, <2>8
<1>7. /\ s \in ToSet(R) /\ s \notin ToSet(SignalsOf(F))
      /\ s \in ToSet(sent) /\ s \notin acked
  BY <1>3, <1>4, <1>2 DEF Kept
<1>8. /\ InFlightSignals' = ToSet(SignalsOf(F)) \cup {s}
      /\ IsInjective(SignalsOf(inFlight'))
  <2>1. SignalsOf(F) \in Seq(Signals)
    BY <1>3, SignalsOfEntries
  <2>2. InFlightSignals' = ToSet(SignalsOf(inFlight'))
    BY DEF InFlightSignals
  <2> QED BY <1>3, <1>4, <1>6, <1>7, <2>1, <2>2, AppendOnce
<1>9. TypeOK'
  <2>1. task' \in [Workers -> {"running", "waiting", "handling", "dead"}]
    BY <1>1, <1>2, WokenHandle
  <2>2. AckTimeout \in 0..AckTimeout
    BY QueueAssumption
  <2> QED BY <1>1, <1>2, <1>4, <1>6, <2>1, <2>2 DEF TypeOK
<1>10. Once'
  BY <1>1, <1>3, <1>4, <1>7, <1>8 DEF Once
<1>11. Kept'
  BY <1>1, <1>2, <1>3, <1>4, <1>7, <1>8 DEF Kept
<1>12. Busy'
  <2> SUFFICES ASSUME NEW v \in Workers
               PROVE  /\ task'[v] = "handling" => job'[v] \in delivered'
                      /\ task'[v] # "handling" => job'[v] = NoSignal /\ lease'[v] = 0
    BY DEF Busy
  <2>1. CASE v = w
    BY <1>1, <1>2, <2>1, WokenHandle DEF TypeOK
  <2>2. CASE v # w
    BY <1>1, <1>2, <2>2, WokenHandle DEF TypeOK, Busy
  <2> QED BY <2>1, <2>2
<1>13. FirstDeliveryInOrder'
  <2>1. ToSet(sent') \ delivered' \subseteq ToSet(ready')
    BY <1>1, <1>3, <1>4 DEF Inv, FirstDeliveryInOrder
  <2>2. ASSUME NEW k \in DOMAIN ready', ready'[k] \notin delivered'
        PROVE  k + 1 \in DOMAIN ready /\ ready'[k] = ready[k + 1] /\ ready'[k] \notin delivered
    <3>1. k + 1 \in DOMAIN R /\ ready'[k] = R[k + 1]
      BY <1>1, <1>4
    <3>2. ready'[k] \notin delivered
      BY <1>1, <2>2
    <3> QED BY <1>2, <1>3, <3>1, <3>2 DEF Kept
  <2>3. DOMAIN ready' \subseteq Nat
    BY <1>1, <1>4
  <2>4. ASSUME NEW i \in DOMAIN ready', NEW j \in DOMAIN ready', i < j,
               ready'[i] \notin delivered', ready'[j] \notin delivered'
        PROVE  \E a, b \in DOMAIN sent' :
                 a < b /\ sent'[a] = ready'[i] /\ sent'[b] = ready'[j]
    <3>1. i + 1 < j + 1
      BY <2>3, <2>4
    <3>2. \E a, b \in DOMAIN sent :
            a < b /\ sent[a] = ready[i + 1] /\ sent[b] = ready[j + 1]
      BY <2>2, <2>4, <3>1 DEF Inv, FirstDeliveryInOrder
    <3> QED BY <1>1, <2>2, <2>4, <3>2
  <2> QED BY <2>1, <2>4 DEF FirstDeliveryInOrder
<1>14. \A v \in Workers \ {w} : job'[v] = job[v] /\ lease'[v] = lease[v]
  BY <1>1, <1>2 DEF TypeOK
<1>15. job'[w] = s /\ lease'[w] = AckTimeout
  BY <1>1, <1>2 DEF TypeOK
<1>16. ASSUME NEW v \in Workers \ {w}, lease[v] > 0
       PROVE  \/ job[v] \in acked
              \/ \E k \in DOMAIN F : F[k].sig = job[v] /\ F[k].left = lease[v]
  <2>1. CASE job[v] \in acked
    BY <2>1
  <2>2. CASE job[v] \notin acked
    <3>1. PICK i \in DOMAIN inFlight : inFlight[i].sig = job[v] /\ inFlight[i].left = lease[v]
      BY <1>16, <2>2 DEF Inv, LeasesHold, InTimeIsInFlight
    <3>2. inFlight[i] \in ToSet(F)
      BY <1>3, <1>16, <3>1
    <3> QED BY <3>1, <3>2 DEF ToSet
  <2> QED BY <2>1, <2>2
<1>17. ASSUME NEW v \in Workers \ {w}, lease[v] > 0
       PROVE  job[v] # s
  <2>1. CASE job[v] \in acked
    BY <1>7, <2>1
  <2>2. CASE job[v] \notin acked
    <3>1. PICK k \in DOMAIN F : F[k].sig = job[v]
      BY <1>16, <1>17, <2>2
    <3>2. job[v] \in ToSet(SignalsOf(F))
      BY <1>3, <3>1, SignalsOfEntries DEF ToSet
    <3> QED BY <1>7, <3>2
  <2> QED BY <2>1, <2>2
<1>18. OneWorkerInTime'
  <2> SUFFICES ASSUME NEW u \in Workers, NEW v \in Workers, u # v,
                      job'[u] = job'[v], lease'[u] # 0, lease'[v] # 0
               PROVE  job'[u] = NoSignal
    BY DEF OneWorkerInTime
  <2>1. \A x \in Workers : lease[x] \in Nat
    BY <1>2, QueueAssumption DEF TypeOK
  <2>2. CASE u # w /\ v # w
    BY <1>14, <2>2 DEF Inv, LeasesHold, OneWorkerInTime
  <2>3. CASE u = w
    BY <1>14, <1>15, <1>17, <2>1, <2>3
  <2>4. CASE v = w
    BY <1>14, <1>15, <1>17, <2>1, <2>4
  <2> QED BY <2>2, <2>3, <2>4
<1>19. InTimeIsInFlight'
  <2> SUFFICES ASSUME NEW v \in Workers, lease'[v] > 0
               PROVE  \/ job'[v] \in acked'
                      \/ \E i \in DOMAIN inFlight' :
                           inFlight'[i].sig = job'[v] /\ inFlight'[i].left = lease'[v]
    BY DEF InTimeIsInFlight
  <2>1. CASE v = w
    BY <1>5, <1>6, <1>15, <2>1
  <2>2. CASE v # w
    <3>1. v \in Workers \ {w} /\ job'[v] = job[v] /\ lease'[v] = lease[v] /\ lease[v] > 0
      BY <1>14, <2>2
    <3>2. CASE job[v] \in acked
      BY <1>1, <3>1, <3>2
    <3>3. CASE job[v] \notin acked
      <4>1. PICK k \in DOMAIN F : F[k].sig = job[v] /\ F[k].left = lease[v]
        BY <1>16, <3>1, <3>3
      <4>2. k \in DOMAIN inFlight' /\ inFlight'[k] = F[k]
        BY <1>6
      <4> QED BY <3>1, <4>1, <4>2
    <3> QED BY <3>2, <3>3
  <2> QED BY <2>1, <2>2
<1> QED BY <1>9, <1>10, <1>11, <1>12, <1>13, <1>18, <1>19 DEF Inv, LeasesHold

\* get: waiting, and being woken by the timeout, touch no signal.
LEMMA WaitKeeps ==
  ASSUME Inv, NEW w \in Workers, Wait(w) \/ WaitTimesOut(w)
  PROVE  Inv'
<1>1. /\ UNCHANGED <<ready, inFlight, job, sent, delivered, acked, lease>>
      /\ task[w] # "handling"
      /\ \E t \in {"running", "waiting"} : task' = [task EXCEPT ![w] = t]
      /\ \/ delay' = delay
         \/ delay' = [delay EXCEPT ![w] = ShortestWait]
  BY DEF Wait, WaitTimesOut, queue, history
<1>2. TypeOK'
  BY <1>1, WaitTyped DEF Inv, TypeOK
<1>3. Busy'
  BY <1>1 DEF Inv, TypeOK, Busy
<1>4. Once' /\ Kept'
  BY <1>1 DEF Inv, Once, Kept, InFlightSignals
<1>5. FirstDeliveryInOrder'
  BY <1>1 DEF Inv, FirstDeliveryInOrder
<1>6. LeasesHold'
  BY <1>1 DEF Inv, LeasesHold, OneWorkerInTime, InTimeIsInFlight
<1> QED BY <1>2, <1>3, <1>4, <1>5, <1>6 DEF Inv

\* The handler raises: the signal stays in flight, the worker lets go of it.
LEMMA FailKeeps ==
  ASSUME Inv, NEW w \in Workers, Fail(w)
  PROVE  Inv'
<1>1. /\ UNCHANGED <<ready, inFlight, delay, sent, delivered, acked>>
      /\ \E t \in {"running", "dead"} : task' = [task EXCEPT ![w] = t]
      /\ job' = [job EXCEPT ![w] = NoSignal]
      /\ lease' = [lease EXCEPT ![w] = 0]
  BY DEF Fail, queue
<1>2. TypeOK'
  BY <1>1, QueueAssumption DEF Inv, TypeOK
<1>3. Busy'
  BY <1>1 DEF Inv, TypeOK, Busy
<1>4. Once' /\ Kept'
  BY <1>1 DEF Inv, Once, Kept, InFlightSignals
<1>5. FirstDeliveryInOrder'
  BY <1>1 DEF Inv, FirstDeliveryInOrder
<1>6. \A v \in Workers : IF v = w THEN lease'[v] = 0 /\ job'[v] = NoSignal
                         ELSE lease'[v] = lease[v] /\ job'[v] = job[v]
  BY <1>1 DEF Inv, TypeOK
<1>7. OneWorkerInTime'
  BY <1>6 DEF Inv, LeasesHold, OneWorkerInTime
<1>8. InTimeIsInFlight'
  BY <1>1, <1>6 DEF Inv, LeasesHold, InTimeIsInFlight
<1> QED BY <1>2, <1>3, <1>4, <1>5, <1>7, <1>8 DEF Inv, LeasesHold

\* ack takes the signal out of the queue, wherever it is, and nothing else; it
\* changes no order (ack: two loops over distinct objects).
LEMMA AckRemoves ==
  ASSUME TypeOK, Once, NEW s \in Signals, AckEffect(s)
  PROVE  /\ ready' \in Seq(Signals) /\ inFlight' \in Seq(Entry)
         /\ IsInjective(ready') /\ IsInjective(SignalsOf(inFlight'))
         /\ ToSet(ready') = ToSet(ready) \ {s}
         /\ InFlightSignals' = InFlightSignals \ {s}
         /\ \A i \in DOMAIN inFlight :
              inFlight[i].sig # s => \E k \in DOMAIN inFlight' : inFlight'[k] = inFlight[i]
         /\ \E f \in [DOMAIN ready' -> DOMAIN ready] :
              /\ \A k \in DOMAIN ready' : ready'[k] = ready[f[k]]
              /\ \A a, b \in DOMAIN ready' : a < b => f[a] < f[b]
<1> DEFINE g == SignalsOf(inFlight)
<1>1. /\ ready \in Seq(Signals) /\ inFlight \in Seq(Entry)
      /\ IsInjective(ready) /\ IsInjective(g)
      /\ ToSet(ready) \cap InFlightSignals = {}
  BY DEF TypeOK, Once
<1>2. /\ g \in Seq(Signals) /\ DOMAIN g = DOMAIN inFlight
      /\ \A i \in DOMAIN inFlight : g[i] = inFlight[i].sig
  BY <1>1, SignalsOfEntries
<1>3. InFlightSignals = ToSet(g)
  BY DEF InFlightSignals
<1>4. /\ Contains(g, s) <=> s \in ToSet(g)
      /\ Contains(ready, s) <=> s \in ToSet(ready)
  <2>1. DOMAIN g = 1..Len(g) /\ DOMAIN ready = 1..Len(ready)
    BY <1>1, <1>2
  <2> QED BY <2>1 DEF Contains, ToSet
<1>5. \E f \in [DOMAIN ready -> DOMAIN ready] :
        /\ \A k \in DOMAIN ready : ready[k] = ready[f[k]]
        /\ \A a, b \in DOMAIN ready : a < b => f[a] < f[b]
  <2> DEFINE id == [k \in DOMAIN ready |-> k]
  <2>1. /\ id \in [DOMAIN ready -> DOMAIN ready]
        /\ \A k \in DOMAIN ready : id[k] = k
    OBVIOUS
  <2> QED BY <2>1
<1>6. CASE s \in ToSet(g)
  <2> DEFINE p == PositionOf(s, g)
             I == DOMAIN inFlight \ {p}
  <2>1. /\ inFlight' = Sublist(inFlight, I)
        /\ ready' = ready
    BY <1>2, <1>4, <1>6 DEF AckEffect, Without
  <2>2. p \in DOMAIN g /\ g[p] = s
    <3>1. \E i \in DOMAIN g : g[i] = s
      BY <1>6 DEF ToSet
    <3> QED BY <3>1 DEF PositionOf
  <2> HIDE DEF p
  <2>3. I \in SUBSET DOMAIN inFlight
    OBVIOUS
  <2>4. /\ inFlight' \in Seq(Entry)
        /\ ToSet(inFlight') = {inFlight[i] : i \in I}
        /\ ToSet(SignalsOf(inFlight')) = {inFlight[i].sig : i \in I}
        /\ IsInjective(SignalsOf(inFlight'))
    BY <1>1, <2>1, <2>3, SignalsOfSublist
  <2>5. \A i \in I : inFlight[i].sig # s
    BY <1>1, <1>2, <2>2 DEF IsInjective
  <2>6. \A i \in DOMAIN inFlight : inFlight[i].sig # s => i \in I
    BY <1>2, <2>2
  <2>7. InFlightSignals' = InFlightSignals \ {s}
    <3>1. InFlightSignals' = {inFlight[i].sig : i \in I}
      BY <2>4 DEF InFlightSignals
    <3>2. InFlightSignals = {inFlight[i].sig : i \in DOMAIN inFlight}
      BY <1>2, <1>3 DEF ToSet
    <3> HIDE DEF I
    <3> QED BY <2>3, <2>5, <2>6, <3>1, <3>2
  <2>8. ASSUME NEW i \in DOMAIN inFlight, inFlight[i].sig # s
        PROVE  \E k \in DOMAIN inFlight' : inFlight'[k] = inFlight[i]
    <3>1. inFlight[i] \in ToSet(inFlight')
      BY <2>4, <2>6, <2>8
    <3> QED BY <3>1 DEF ToSet
  <2>9. ToSet(ready') = ToSet(ready) \ {s}
    BY <1>1, <1>3, <1>6, <2>1
  <2> QED BY <1>1, <1>5, <2>1, <2>4, <2>7, <2>8, <2>9
<1>7. CASE s \notin ToSet(g) /\ s \in ToSet(ready)
  <2> DEFINE p == PositionOf(s, ready)
             I == DOMAIN ready \ {p}
  <2>1. /\ ready' = Sublist(ready, I)
        /\ inFlight' = inFlight
    BY <1>2, <1>4, <1>7 DEF AckEffect, Without
  <2>2. p \in DOMAIN ready /\ ready[p] = s
    <3>1. \E i \in DOMAIN ready : ready[i] = s
      BY <1>7 DEF ToSet
    <3> QED BY <3>1 DEF PositionOf
  <2> HIDE DEF p
  <2>3. I \in SUBSET DOMAIN ready
    OBVIOUS
  <2>4. /\ ready' \in Seq(Signals) /\ IsInjective(ready')
        /\ ToSet(ready') = {ready[i] : i \in I}
    BY <1>1, <2>1, <2>3, SublistOnce
  <2>5. PICK f \in [DOMAIN ready' -> I] :
          /\ \A k \in DOMAIN ready' : ready'[k] = ready[f[k]]
          /\ \A a, b \in DOMAIN ready' : a < b => f[a] < f[b]
    <3> HIDE DEF I
    <3>1. PICK f \in [DOMAIN Sublist(ready, I) -> I] :
            /\ \A k \in DOMAIN Sublist(ready, I) : Sublist(ready, I)[k] = ready[f[k]]
            /\ \A a, b \in DOMAIN Sublist(ready, I) : a < b => f[a] < f[b]
      BY <1>1, <2>3, SublistPositions
    <3> QED BY <2>1, <3>1
  <2>6. f \in [DOMAIN ready' -> DOMAIN ready]
    BY <2>3, <2>5
  <2>7. ToSet(ready') = ToSet(ready) \ {s}
    BY <1>1, <2>2, <2>4 DEF ToSet, IsInjective
  <2>8. InFlightSignals' = InFlightSignals /\ SignalsOf(inFlight') = g
    BY <2>1 DEF InFlightSignals
  <2> QED BY <1>1, <1>3, <1>7, <2>1, <2>4, <2>5, <2>6, <2>7, <2>8
<1>8. CASE s \notin ToSet(g) /\ s \notin ToSet(ready)
  <2>1. ready' = ready /\ inFlight' = inFlight
    BY <1>2, <1>4, <1>8 DEF AckEffect
  <2>2. InFlightSignals' = InFlightSignals /\ SignalsOf(inFlight') = g
    BY <2>1 DEF InFlightSignals
  <2> QED BY <1>1, <1>3, <1>5, <1>8, <2>1, <2>2
<1> QED BY <1>6, <1>7, <1>8

\* The worker acknowledges what it handled.
LEMMA AcknowledgeKeeps ==
  ASSUME Inv, NEW w \in Workers, Acknowledge(w)
  PROVE  Inv'
<1> DEFINE s == job[w]
<1>1. /\ task[w] = "handling" /\ AckEffect(s)
      /\ acked' = acked \cup {s}
      /\ task' = [task EXCEPT ![w] = "running"]
      /\ job' = [job EXCEPT ![w] = NoSignal]
      /\ lease' = [lease EXCEPT ![w] = 0]
      /\ UNCHANGED <<delay, sent, delivered>>
  BY DEF Acknowledge
<1>2. TypeOK /\ Once /\ Kept /\ Busy
  BY DEF Inv
<1>3. s \in delivered /\ s \in Signals /\ s \in ToSet(sent)
  BY <1>1, <1>2 DEF Busy, TypeOK, Kept
<1> HIDE DEF s
<1>4. /\ ready' \in Seq(Signals) /\ inFlight' \in Seq(Entry)
      /\ IsInjective(ready') /\ IsInjective(SignalsOf(inFlight'))
      /\ ToSet(ready') = ToSet(ready) \ {s}
      /\ InFlightSignals' = InFlightSignals \ {s}
      /\ \A i \in DOMAIN inFlight :
           inFlight[i].sig # s => \E k \in DOMAIN inFlight' : inFlight'[k] = inFlight[i]
  BY <1>1, <1>2, <1>3, AckRemoves
<1>5. PICK f \in [DOMAIN ready' -> DOMAIN ready] :
        /\ \A k \in DOMAIN ready' : ready'[k] = ready[f[k]]
        /\ \A a, b \in DOMAIN ready' : a < b => f[a] < f[b]
  BY <1>1, <1>2, <1>3, AckRemoves
<1>6. \A v \in Workers : IF v = w THEN lease'[v] = 0 /\ job'[v] = NoSignal /\ task'[v] = "running"
                         ELSE lease'[v] = lease[v] /\ job'[v] = job[v] /\ task'[v] = task[v]
  BY <1>1, <1>2 DEF TypeOK
<1>7. TypeOK'
  BY <1>1, <1>2, <1>3, <1>4, QueueAssumption DEF TypeOK
<1>8. Once'
  BY <1>2, <1>4 DEF Once
<1>9. Kept'
  BY <1>1, <1>2, <1>4 DEF Kept
<1>10. Busy'
  BY <1>1, <1>2, <1>6 DEF Busy
<1>11. FirstDeliveryInOrder'
  <2>1. ToSet(sent') \ delivered' \subseteq ToSet(ready')
    BY <1>1, <1>3, <1>4 DEF Inv, FirstDeliveryInOrder
  <2>2. ASSUME NEW i \in DOMAIN ready', NEW j \in DOMAIN ready', i < j,
               ready'[i] \notin delivered', ready'[j] \notin delivered'
        PROVE  \E a, b \in DOMAIN sent' :
                 a < b /\ sent'[a] = ready'[i] /\ sent'[b] = ready'[j]
    <3>1. /\ f[i] \in DOMAIN ready /\ f[j] \in DOMAIN ready /\ f[i] < f[j]
          /\ ready'[i] = ready[f[i]] /\ ready'[j] = ready[f[j]]
      BY <1>5, <2>2
    <3>2. \E a, b \in DOMAIN sent :
            a < b /\ sent[a] = ready[f[i]] /\ sent[b] = ready[f[j]]
      BY <1>1, <2>2, <3>1 DEF Inv, FirstDeliveryInOrder
    <3> QED BY <1>1, <3>1, <3>2
  <2> QED BY <2>1, <2>2 DEF FirstDeliveryInOrder
<1>12. OneWorkerInTime'
  BY <1>6 DEF Inv, LeasesHold, OneWorkerInTime
<1>13. InTimeIsInFlight'
  <2> SUFFICES ASSUME NEW v \in Workers, lease'[v] > 0
               PROVE  \/ job'[v] \in acked'
                      \/ \E i \in DOMAIN inFlight' :
                           inFlight'[i].sig = job'[v] /\ inFlight'[i].left = lease'[v]
    BY DEF InTimeIsInFlight
  <2>1. lease'[v] = lease[v] /\ job'[v] = job[v] /\ lease[v] > 0
    BY <1>6
  <2>2. CASE job[v] \in acked \cup {s}
    BY <1>1, <2>1, <2>2
  <2>3. CASE job[v] \notin acked \cup {s}
    <3>1. PICK i \in DOMAIN inFlight : inFlight[i].sig = job[v] /\ inFlight[i].left = lease[v]
      BY <2>1, <2>3 DEF Inv, LeasesHold, InTimeIsInFlight
    <3>2. \E k \in DOMAIN inFlight' : inFlight'[k] = inFlight[i]
      BY <1>4, <2>3, <3>1
    <3> QED BY <2>1, <3>1, <3>2
  <2> QED BY <2>2, <2>3
<1> QED BY <1>7, <1>8, <1>9, <1>10, <1>11, <1>12, <1>13 DEF Inv, LeasesHold

\* The clock advances: every deadline is one unit nearer.
LEMMA TickKeeps ==
  ASSUME Inv, Tick
  PROVE  Inv'
<1>1. /\ inFlight' = [i \in DOMAIN inFlight |->
                        [sig |-> inFlight[i].sig, left |-> Less(inFlight[i].left)]]
      /\ delay' = [w \in Workers |-> Less(delay[w])]
      /\ lease' = [w \in Workers |-> Less(lease[w])]
      /\ UNCHANGED <<ready, task, job, sent, delivered, acked>>
  BY DEF Tick
<1>2. TypeOK /\ Once /\ Kept /\ Busy
  BY DEF Inv
<1>3. \A n \in 0..AckTimeout : Less(n) \in 0..AckTimeout
  BY QueueAssumption DEF Less
<1>4. Less(NoTimer) = NoTimer
  BY QueueAssumption DEF Less
<1>5. /\ inFlight' \in Seq(Entry)
      /\ DOMAIN inFlight' = DOMAIN inFlight
      /\ \A i \in DOMAIN inFlight : /\ inFlight'[i].sig = inFlight[i].sig
                                    /\ inFlight'[i].left = Less(inFlight[i].left)
  <2>1. inFlight \in Seq(Entry)
    BY <1>2 DEF TypeOK
  <2>2. Len(inFlight) \in Nat /\ DOMAIN inFlight = 1..Len(inFlight)
    BY <2>1
  <2>3. \A i \in DOMAIN inFlight : inFlight[i] \in Entry
    BY <2>1
  <2>4. \A i \in DOMAIN inFlight :
          [sig |-> inFlight[i].sig, left |-> Less(inFlight[i].left)] \in Entry
    BY <1>3, <2>3 DEF Entry
  <2>5. inFlight' \in [1..Len(inFlight) -> Entry]
    BY <1>1, <2>2, <2>4
  <2> QED BY <1>1, <2>2, <2>5
<1>6. SignalsOf(inFlight') = SignalsOf(inFlight)
  BY <1>5 DEF SignalsOf
<1>7. InFlightSignals' = InFlightSignals
  BY <1>6 DEF InFlightSignals
<1>8. TypeOK'
  <2>1. delay' \in [Workers -> {NoTimer} \cup 0..AckTimeout]
    BY <1>1, <1>2, <1>3, <1>4 DEF TypeOK
  <2>2. lease' \in [Workers -> 0..AckTimeout]
    BY <1>1, <1>2, <1>3 DEF TypeOK
  <2> QED BY <1>1, <1>2, <1>5, <2>1, <2>2 DEF TypeOK
<1>9. Once' /\ Kept'
  BY <1>1, <1>2, <1>6, <1>7 DEF Once, Kept
<1>10. Less(0) = 0
  BY DEF Less
<1>11. Busy'
  BY <1>1, <1>2, <1>10 DEF Busy
<1>12. FirstDeliveryInOrder'
  BY <1>1 DEF Inv, FirstDeliveryInOrder
<1>13. OneWorkerInTime'
  BY <1>1, <1>10 DEF Inv, LeasesHold, OneWorkerInTime
<1>14. InTimeIsInFlight'
  <2> SUFFICES ASSUME NEW v \in Workers, lease'[v] > 0
               PROVE  \/ job'[v] \in acked'
                      \/ \E i \in DOMAIN inFlight' :
                           inFlight'[i].sig = job'[v] /\ inFlight'[i].left = lease'[v]
    BY DEF InTimeIsInFlight
  <2>1. lease[v] > 0
    <3>1. lease[v] \in Nat /\ lease'[v] = Less(lease[v])
      BY <1>1, <1>2, QueueAssumption DEF TypeOK
    <3>2. lease[v] # 0
      BY <1>10, <3>1
    <3> QED BY <3>1, <3>2
  <2>2. CASE job[v] \in acked
    BY <1>1, <2>2
  <2>3. CASE job[v] \notin acked
    <3>1. PICK i \in DOMAIN inFlight : inFlight[i].sig = job[v] /\ inFlight[i].left = lease[v]
      BY <2>1, <2>3 DEF Inv, LeasesHold, InTimeIsInFlight
    <3> QED BY <1>1, <1>5, <3>1
  <2> QED BY <2>2, <2>3
<1> QED BY <1>8, <1>9, <1>11, <1>12, <1>13, <1>14 DEF Inv, LeasesHold

LEMMA InvNext == Inv /\ [Next]_vars => Inv'
<1> SUFFICES ASSUME Inv, [Next]_vars
             PROVE  Inv'
  OBVIOUS
<1>1. ASSUME NEW s \in Signals, Put(s)
      PROVE  Inv'
  BY <1>1, PutKeeps
<1>2. ASSUME NEW w \in Workers, Work(w)
      PROVE  Inv'
  BY <1>2, GetKeeps, WaitKeeps, AcknowledgeKeeps, FailKeeps DEF Work
<1>3. CASE Poll
  BY <1>3, PollKeeps
<1>4. CASE Tick
  BY <1>4, TickKeeps
<1>5. CASE UNCHANGED vars
  <2>1. UNCHANGED <<ready, inFlight, task, delay, job, sent, delivered, acked, lease>>
    BY <1>5 DEF vars, queue, history
  <2> QED BY <2>1 DEF Inv, TypeOK, Once, Kept, Busy, InFlightSignals, FirstDeliveryInOrder,
                      LeasesHold, OneWorkerInTime, InTimeIsInFlight
<1> QED BY <1>1, <1>2, <1>3, <1>4, <1>5 DEF Next

LEMMA InvAlways == Spec => []Inv
BY InvInit, InvNext, PTL DEF Spec

------------------------------------------------------------------------------
(* The theorems.                                                              *)

\* The queue, its workers and the histories hold what the code lets them hold.
THEOREM TypeCorrect == Spec => []TypeOK
<1>1. Inv => TypeOK
  BY DEF Inv
<1> QED BY <1>1, InvAlways, PTL

\* No signal is lost and none is duplicated: whatever was put and not yet
\* acknowledged is in the queue exactly once, ready or in flight, after any
\* requeue, late acknowledgement or failure (_requeue_expired, get, ack).
THEOREM NothingLost == Spec => []NoLossNoDuplicate
<1>1. Inv => NoLossNoDuplicate
  <2> SUFFICES ASSUME Inv
               PROVE  NoLossNoDuplicate
    OBVIOUS
  <2>1. ready \in Seq(Signals) /\ SignalsOf(inFlight) \in Seq(Signals)
    BY SignalsOfEntries DEF Inv, TypeOK
  <2>2. /\ ToSet(Held) = ToSet(ready) \cup ToSet(SignalsOf(inFlight))
        /\ IsInjective(Held) <=>
             /\ IsInjective(ready)
             /\ IsInjective(SignalsOf(inFlight))
             /\ ToSet(ready) \cap ToSet(SignalsOf(inFlight)) = {}
    BY <2>1, ConcatOnce DEF Held
  <2> QED BY <2>2 DEF Inv, Once, Kept, InFlightSignals, NoLossNoDuplicate
<1> QED BY <1>1, InvAlways, PTL

\* Signals are handed out for the first time in the order in which they were
\* put (put_nowait appends, get pops the left, a requeue goes behind).
THEOREM FirstInFirstOut == Spec => []FirstDeliveryInOrder
<1>1. Inv => FirstDeliveryInOrder
  BY DEF Inv
<1> QED BY <1>1, InvAlways, PTL

\* Inside its acknowledgement timeout a worker is alone with its signal, and
\* the signal is in flight for it (get_nowait's deadline, _requeue_expired).
THEOREM LeaseExclusive == Spec => []LeasesHold
<1>1. Inv => LeasesHold
  BY DEF Inv
<1> QED BY <1>1, InvAlways, PTL

------------------------------------------------------------------------------
(* The queue implements the promise of a channel: pending is what it holds.   *)

LEMMA HeldSignals ==
  ASSUME TypeOK
  PROVE  ToSet(Held) = ToSet(ready) \cup InFlightSignals
<1>1. ready \in Seq(Signals) /\ SignalsOf(inFlight) \in Seq(Signals)
  BY SignalsOfEntries DEF TypeOK
<1> QED BY <1>1, ConcatOnce DEF Held, InFlightSignals

LEMMA ImplementsInit == Init => Channel!AInit
<1> SUFFICES ASSUME Init
             PROVE  Channel!AInit
  OBVIOUS
<1>1. Inv
  BY InvInit
<1>2. ToSet(Held) = {}
  <2>1. ToSet(Held) = ToSet(sent) \ acked
    BY <1>1, HeldSignals DEF Inv, Kept
  <2> QED BY <2>1 DEF Init, ToSet
<1> QED BY <1>2 DEF Init, Channel!AInit

LEMMA ImplementsNext ==
  ASSUME Inv, Inv', [Next]_vars
  PROVE  [Channel!ANext]_(Channel!avars)
<1> DEFINE P == ToSet(sent) \ acked
<1>1. ToSet(Held) = P /\ ToSet(Held)' = P'
  <2>1. ToSet(Held) = P
    BY HeldSignals DEF Inv, Kept
  <2>2. (TypeOK => ToSet(Held) = ToSet(ready) \cup InFlightSignals)'
    BY HeldSignals, PTL
  <2>3. ToSet(Held)' = P'
    BY <2>2 DEF Inv, Kept
  <2> QED BY <2>1, <2>3
<1>2. acked \subseteq ToSet(sent)
  BY DEF Inv, TypeOK, Kept
<1>3. job \in [Workers -> Signals \cup {NoSignal}]
  BY DEF Inv, TypeOK
<1>4. CASE \E s \in Signals : Put(s)
  <2>1. PICK s \in Signals : Put(s)
    BY <1>4
  <2>2. /\ sent' = Append(sent, s) /\ ~Contains(sent, s)
        /\ UNCHANGED <<job, acked>>
    BY <2>1 DEF Put
  <2>3. sent \in Seq(Signals)
    BY DEF Inv, TypeOK
  <2>4. s \notin ToSet(sent)
    <3>1. DOMAIN sent = 1..Len(sent)
      BY <2>3
    <3> QED BY <2>2, <3>1 DEF Contains, ToSet
  <2>5. ToSet(sent') = ToSet(sent) \cup {s}
    BY <2>2, <2>3, AppendOnce
  <2>6. /\ s \notin P \cup acked
        /\ P' = P \cup {s}
    BY <1>2, <2>2, <2>4, <2>5
  <2>7. Channel!APut(s)
    BY <1>1, <2>2, <2>6 DEF Channel!APut
  <2> QED BY <2>7 DEF Channel!ANext
<1>5. CASE \E w \in Workers : Get(w)
  <2>1. PICK w \in Workers : Get(w)
    BY <1>5
  <2>2. /\ task[w] = "running" /\ ReadyAfterRequeue # <<>>
        /\ job' = [job EXCEPT ![w] = Head(ReadyAfterRequeue)]
        /\ UNCHANGED <<sent, acked>>
    BY <2>1 DEF Get
  <2>3. job[w] = NoSignal
    BY <2>2 DEF Inv, Busy
  <2>4. Head(ReadyAfterRequeue) \in P
    <3>1. ReadyAfterRequeue \in Seq(Signals)
      BY Requeued DEF Inv
    <3>2. Head(ReadyAfterRequeue) \in ToSet(ReadyAfterRequeue)
      BY <2>2, <3>1, TailOnce
    <3>3. ToSet(ReadyAfterRequeue) \subseteq ToSet(ready) \cup InFlightSignals
      BY Requeued DEF Inv
    <3> QED BY <3>2, <3>3 DEF Inv, Kept
  <2>5. Channel!ADeliver(w)
    BY <1>1, <2>2, <2>3, <2>4 DEF Channel!ADeliver
  <2> QED BY <2>5 DEF Channel!ANext
<1>6. CASE \E w \in Workers : Acknowledge(w)
  <2>1. PICK w \in Workers : Acknowledge(w)
    BY <1>6
  <2>2. /\ task[w] = "handling"
        /\ acked' = acked \cup {job[w]}
        /\ job' = [job EXCEPT ![w] = NoSignal]
        /\ UNCHANGED sent
    BY <2>1 DEF Acknowledge
  <2>3. job[w] # NoSignal
    BY <2>2, QueueAssumption DEF Inv, Busy, TypeOK
  <2>4. P' = P \ {job[w]}
    BY <2>2
  <2>5. Channel!AAck(w)
    BY <1>1, <2>2, <2>3, <2>4 DEF Channel!AAck
  <2> QED BY <2>5 DEF Channel!ANext
<1>7. CASE \E w \in Workers : Fail(w)
  <2>1. PICK w \in Workers : Fail(w)
    BY <1>7
  <2>2. /\ task[w] = "handling"
        /\ job' = [job EXCEPT ![w] = NoSignal]
        /\ UNCHANGED <<sent, acked>>
    BY <2>1 DEF Fail
  <2>3. job[w] # NoSignal
    BY <2>2, QueueAssumption DEF Inv, Busy, TypeOK
  <2>4. Channel!AFail(w)
    BY <1>1, <2>2, <2>3 DEF Channel!AFail
  <2> QED BY <2>4 DEF Channel!ANext
<1>8. CASE UNCHANGED <<sent, acked, job>>
  BY <1>1, <1>8 DEF Channel!avars
<1>9. \/ \E s \in Signals : Put(s)
      \/ \E w \in Workers : Get(w)
      \/ \E w \in Workers : Acknowledge(w)
      \/ \E w \in Workers : Fail(w)
      \/ UNCHANGED <<sent, acked, job>>
  BY DEF Next, Work, Wait, WaitTimesOut, Poll, Tick, vars, history
<1> QED BY <1>4, <1>5, <1>6, <1>7, <1>8, <1>9

\* The queue keeps the channel's promise: a signal that was put is pending until
\* a worker that handled it acknowledges it, and a worker that fails leaves it
\* pending (the module docstring of signal_queue.py).
THEOREM QueueImplements == Spec => ImplementsAtLeastOnce
<1>1. Inv /\ Inv' /\ [Next]_vars => [Channel!ANext]_(Channel!avars)
  BY ImplementsNext
<1> QED BY <1>1, ImplementsInit, InvAlways, PTL DEF Spec, ImplementsAtLeastOnce, Channel!ASpec
==============================================================================
