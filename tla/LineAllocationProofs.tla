------------------------- MODULE LineAllocationProofs -------------------------
(* Theorems about LineAllocation and the rules it uses, for every set of      *)
(* demands, every inputs and every chain of coordinations.                    *)
EXTENDS LineAllocation, FiniteSums

UnitOf(in, r) == in.units[KeyOf[r]]

------------------------------------------------------------------------------
(* Numbers *)

LEMMA MinOfTwo ==
  ASSUME NEW a \in Int, NEW b \in Int
  PROVE  Min({a, b}) = IF a <= b THEN a ELSE b
<1>1. \E x \in {a, b} : \A y \in {a, b} : x <= y
  OBVIOUS
<1> QED BY <1>1 DEF Min

LEMMA MaxOfTwo ==
  ASSUME NEW a \in Int, NEW b \in Int
  PROVE  Max({a, b}) = IF a >= b THEN a ELSE b
<1>1. \E x \in {a, b} : \A y \in {a, b} : x >= y
  OBVIOUS
<1> QED BY <1>1 DEF Max

LEMMA MaxOfSet ==
  ASSUME NEW S \in SUBSET Int, IsFiniteSet(S), S # {}
  PROVE  Max(S) \in S /\ \A y \in S : y <= Max(S)
<1>1. PICK x \in S : \A y \in S : y <= x
  BY Greatest
<1>2. \A y \in S : x >= y
  BY <1>1
<1>3. Max(S) \in S /\ \A y \in S : Max(S) >= y
  BY <1>2 DEF Max
<1> QED BY <1>3

\* A floor is a multiple of the unit and not above the quantity.
LEMMA FloorMeans ==
  ASSUME NEW q \in Nat, NEW u \in Nat \ {0}
  PROVE  /\ FloorToUnit(q, u) \in Nat /\ FloorToUnit(q, u) <= q
         /\ FloorToUnit(q, u) % u = 0
<1>1. q \div u \in Nat
  OBVIOUS
<1>2. \A i \in Nat : i * u \in Nat /\ (i * u) % u = 0
  OBVIOUS
<1>3. (q \div u) * u <= q
  OBVIOUS
<1> QED BY <1>1, <1>2, <1>3 DEF FloorToUnit

------------------------------------------------------------------------------
(* The inputs *)

LEMMA UnitsOf ==
  ASSUME NEW in, IsLineInputs(in), NEW r \in Refs
  PROVE  KeyOf[r] \in Keys /\ UnitOf(in, r) \in Nat \ {0}
BY DEF IsLineInputs, UnitOf, Keys

LEMMA Finiteness ==
  /\ IsFiniteSet(Refs) /\ IsFiniteSet(Keys)
  /\ Refs \subseteq Nat /\ DOMAIN KeyOf = Refs
  /\ \A S \in SUBSET Refs : IsFiniteSet(S)
<1>1. IsFiniteSet(Refs) /\ Refs \subseteq Nat /\ DOMAIN KeyOf = Refs
  BY RulesAssumption
<1>2. IsFiniteSet(Keys)
  BY <1>1, ImageFinite DEF Keys
<1> QED BY <1>1, <1>2, FS_Subset

LEMMA OverMeans ==
  ASSUME NEW f, NEW g
  PROVE  /\ DOMAIN Over(f, g) = DOMAIN f \cup DOMAIN g
         /\ \A x \in DOMAIN f : Over(f, g)[x] = f[x]
         /\ \A x \in DOMAIN g \ DOMAIN f : Over(f, g)[x] = g[x]
BY DEF Over

LEMMA CycleBacklogType ==
  ASSUME NEW in, IsLineInputs(in), NEW key
  PROVE  CycleBacklog(in, key) \in Nat
<1> DEFINE S == {p \in DOMAIN in.orders : InCycle(in, p) /\ KeyOf[p] = key}
           w == [o \in S |-> in.orders[o].backlog]
<1>1. S \in SUBSET Refs
  BY DEF IsLineInputs, IsPartial, Refs
<1>2. IsFiniteSet(S)
  BY <1>1, Finiteness
<1>3. DOMAIN w = S /\ \A o \in S : w[o] \in Nat
  BY DEF IsLineInputs, IsPartial
<1>4. CycleBacklog(in, key) = SumFunctionOnSet(w, S)
  BY DEF CycleBacklog, SumFunction
<1> HIDE DEF w, S
<1> QED BY <1>2, <1>3, <1>4, SumNat

LEMMA SupplyType ==
  ASSUME NEW in, IsLineInputs(in)
  PROVE  Supply(in) \in Nat
<1>1. DOMAIN in.wip \in SUBSET Refs /\ \A o \in DOMAIN in.wip : in.wip[o] \in Nat
  BY DEF IsLineInputs, IsPartial, Refs
<1>2. IsFiniteSet(DOMAIN in.wip)
  BY <1>1, Finiteness
<1>3. SumFunction(in.wip) \in Nat
  BY <1>1, <1>2, SumNat DEF SumFunction
<1>4. in.inventory \in Nat /\ in.capacity \in Nat
  BY DEF IsLineInputs
<1> QED BY <1>3, <1>4 DEF Supply

------------------------------------------------------------------------------
(* build_demands: what the demands of a reference are *)

LEMMA PartsMean ==
  ASSUME NEW ref \in Refs, NEW due \in Nat, NEW u \in Nat \ {0},
         NEW quantity \in Nat, quantity % u = 0,
         NEW hard \in Nat, hard % u = 0, hard <= quantity
  PROVE  LET P == Parts(ref, due, quantity, hard) IN
         /\ IsFiniteSet(P)
         /\ \A d \in P : /\ d \in Demand /\ d.ref = ref /\ d.due = due
                         /\ d.requested % u = 0
         /\ \A d, e \in P : d.peg = e.peg => d = e
         /\ Requested(P) = quantity
<1> DEFINE H == [ref |-> ref, due |-> due, peg |-> "hard", requested |-> hard]
           S == [ref |-> ref, due |-> due, peg |-> "soft", requested |-> quantity - hard]
           P == Parts(ref, due, quantity, hard)
           w == [d \in P |-> d.requested]
           v == [d \in {H, S} |-> d.requested]
<1>1. P = {d \in {H, S} : d.requested > 0}
  BY DEF Parts
<1>2. IsFiniteSet({H}) /\ IsFiniteSet({S}) /\ IsFiniteSet({H, S})
  <2>1. IsFiniteSet({H}) /\ IsFiniteSet({S})
    BY FS_Singleton
  <2>2. {H, S} = {H} \cup {S}
    OBVIOUS
  <2> HIDE DEF H, S
  <2>3. IsFiniteSet({H} \cup {S})
    BY <2>1, FS_AddElement
  <2> QED BY <2>1, <2>2, <2>3
<1>3. IsFiniteSet(P)
  BY <1>1, <1>2, FS_Subset
<1>4. quantity - hard \in Nat /\ (quantity - hard) % u = 0
  <2>1. quantity \in Int /\ hard \in Int /\ quantity - hard \in Nat
    OBVIOUS
  <2> QED BY <2>1, Multiples
<1>5. /\ H.ref = ref /\ H.due = due /\ H.peg = "hard" /\ H.requested = hard
      /\ S.ref = ref /\ S.due = due /\ S.peg = "soft" /\ S.requested = quantity - hard
  OBVIOUS
<1>6. \A d \in P : /\ d \in Demand /\ d.ref = ref /\ d.due = due /\ d.requested % u = 0
  BY <1>1, <1>4 DEF Demand
<1>7. \A d, e \in P : d.peg = e.peg => d = e
  <2> HIDE DEF H, S, P
  <2> QED BY <1>1, <1>5
<1>8. Requested(P) = quantity
  <2>1. Requested(P) = SumFunctionOnSet(w, P)
    BY DEF Requested, SumFunction
  <2>2. \A d \in {H, S} : v[d] = d.requested /\ v[d] \in Nat
    BY <1>4
  <2>3. \A d \in P : w[d] = v[d] /\ w[d] \in Int
    BY <1>1, <2>2
  <2>4. SumFunctionOnSet(w, P) = SumFunctionOnSet(v, P)
    <3> HIDE DEF w, v, P
    <3> QED BY <1>3, <2>3, SumSame
  <2> DEFINE Z == {H, S} \ P
  <2>5. /\ Z \in SUBSET {H, S} /\ P \in SUBSET {H, S} /\ P \cup Z = {H, S} /\ P \cap Z = {}
        /\ \A d \in Z : v[d] = 0
    BY <1>1, <2>2
  <2>6. SumFunctionOnSet(v, P \cup Z) = SumFunctionOnSet(v, P) + SumFunctionOnSet(v, Z)
    <3>1. IsFiniteSet(Z)
      BY <1>2, <2>5, FS_Subset
    <3>2. \A d \in P \cup Z : v[d] \in Int
      BY <2>2, <2>5
    <3> HIDE DEF v, P, Z
    <3> QED BY <1>3, <2>5, <3>1, <3>2, SumSplit
  <2>7. SumFunctionOnSet(v, Z) = 0
    <3>1. IsFiniteSet(Z)
      BY <1>2, <2>5, FS_Subset
    <3> HIDE DEF v, Z
    <3> QED BY <2>5, <3>1, SumZero
  <2>8. SumFunctionOnSet(v, {H, S}) = v[H] + v[S]
    <3>1. H # S
      BY <1>5
    <3>2. {H, S} = {H} \cup {S} /\ v[H] \in Int /\ v[S] \in Int
      BY <2>2
    <3>3. S \notin {H} /\ \A d \in {H} \cup {S} : v[d] \in Int
      BY <3>1, <3>2
    <3> HIDE DEF v, H, S
    <3>4. SumFunctionOnSet(v, {H} \cup {S}) = SumFunctionOnSet(v, {H}) + v[S]
      BY <1>2, <3>3, SumAdd
    <3>5. SumFunctionOnSet(v, {H}) = v[H]
      BY <3>2, SumOne
    <3> QED BY <3>2, <3>4, <3>5
  <2>9. v[H] = hard /\ v[S] = quantity - hard
    BY <2>2, <1>5
  <2>10. SumFunctionOnSet(v, P) \in Int
    <3>1. \A d \in P : v[d] \in Int
      BY <2>2, <2>5
    <3> HIDE DEF v, P
    <3> QED BY <1>3, <3>1, SumInt
  <2>11. P \cup Z = {H, S}
    BY <2>5
  <2> HIDE DEF v, w, P, H, S, Z
  <2>12. SumFunctionOnSet(v, {H, S}) = SumFunctionOnSet(v, P) + 0
    BY <2>6, <2>7, <2>11
  <2>13. SumFunctionOnSet(v, {H, S}) = hard + (quantity - hard)
    BY <2>8, <2>9
  <2> QED BY <2>1, <2>4, <2>10, <2>12, <2>13
<1> QED BY <1>3, <1>6, <1>7, <1>8

LEMMA LimitedMeans ==
  ASSUME NEW in, IsLineInputs(in), NEW r \in Refs,
         NEW hard \in Nat, hard % UnitOf(in, r) = 0
  PROVE  LET l == Limited(in, r, hard)
         IN l \in Nat /\ l <= hard /\ l % UnitOf(in, r) = 0
<1>1. UnitOf(in, r) \in Nat \ {0}
  BY UnitsOf
<1>2. CASE r \notin DOMAIN in.pegLimits
  <2>1. Limited(in, r, hard) = hard
    BY <1>2 DEF Limited
  <2> QED BY <2>1
<1>3. CASE r \in DOMAIN in.pegLimits
  <2> DEFINE f == FloorToUnit(in.pegLimits[r], UnitOf(in, r))
  <2>1. in.pegLimits[r] \in Nat
    BY <1>3 DEF IsLineInputs, IsPartial
  <2>2. f \in Nat /\ f % UnitOf(in, r) = 0
    BY <1>1, <2>1, FloorMeans
  <2>3. Limited(in, r, hard) = Min({hard, f})
    BY <1>3 DEF Limited, UnitOf
  <2> HIDE DEF f
  <2>4. Min({hard, f}) = IF hard <= f THEN hard ELSE f
    BY <2>2, MinOfTwo
  <2> QED BY <2>2, <2>3, <2>4
<1> QED BY <1>2, <1>3

LEMMA ProducedMeans ==
  ASSUME NEW in, IsLineInputs(in), NEW o \in Refs,
         NEW backlog \in Nat, backlog % UnitOf(in, o) = 0
  PROVE  LET p == Produced(in, o, backlog)
         IN p \in Nat /\ p <= backlog /\ p % UnitOf(in, o) = 0
<1>1. UnitOf(in, o) \in Nat \ {0}
  BY UnitsOf
<1>2. CASE o \in in.pegs
  <2>1. Produced(in, o, backlog) = backlog
    BY <1>2 DEF Produced
  <2> QED BY <2>1
<1>3. CASE o \notin in.pegs /\ o \in DOMAIN in.wip
  <2> DEFINE m == Min({in.wip[o], backlog})
  <2>1. in.wip[o] \in Nat
    BY <1>3 DEF IsLineInputs, IsPartial
  <2>2. m = IF in.wip[o] <= backlog THEN in.wip[o] ELSE backlog
    BY <2>1, MinOfTwo
  <2>3. m \in Nat /\ m <= backlog
    BY <2>1, <2>2
  <2>4. Produced(in, o, backlog) = FloorToUnit(m, UnitOf(in, o))
    BY <1>3 DEF Produced, UnitOf
  <2> HIDE DEF m
  <2>5. /\ FloorToUnit(m, UnitOf(in, o)) \in Nat /\ FloorToUnit(m, UnitOf(in, o)) <= m
        /\ FloorToUnit(m, UnitOf(in, o)) % UnitOf(in, o) = 0
    BY <1>1, <2>3, FloorMeans
  <2> QED BY <2>3, <2>4, <2>5
<1>4. CASE o \notin in.pegs /\ o \notin DOMAIN in.wip
  <2>1. Produced(in, o, backlog) = 0 /\ 0 % UnitOf(in, o) = 0
    BY <1>1, <1>4 DEF Produced
  <2> QED BY <2>1
<1> QED BY <1>2, <1>3, <1>4

\* The demands of a reference, and what they come to.
DueOf(in, r) == IF r \in Orders THEN in.orders[r].due ELSE Never

IsDemanded(in, r) ==
  IF r \in Orders THEN r \in DOMAIN in.orders /\ in.orders[r].due <= CycleEnd
  ELSE IF r \in Forecasts THEN r \in DOMAIN in.forecasts
  ELSE r \in DOMAIN in.manual

QuantityOfRef(in, r) ==
  IF r \in Orders THEN FloorToUnit(in.orders[r].backlog, UnitOf(in, r))
  ELSE IF r \in Forecasts THEN Remainder(in, r)
  ELSE FloorToUnit(in.manual[r], UnitOf(in, r))

PeggedOf(in, r) ==
  IF r \in Orders THEN Limited(in, r, Produced(in, r, QuantityOfRef(in, r)))
  ELSE Limited(in, r, IF r \in in.pegs THEN QuantityOfRef(in, r) ELSE 0)

DemandsOf(in, r) ==
  IF IsDemanded(in, r)
  THEN Parts(r, DueOf(in, r), QuantityOfRef(in, r), PeggedOf(in, r))
  ELSE {}

LEMMA DemandsAre ==
  ASSUME NEW in, IsLineInputs(in)
  PROVE  Demands(in) = UNION {DemandsOf(in, r) : r \in Refs}
<1>1. /\ DOMAIN in.orders \subseteq Orders /\ DOMAIN in.forecasts \subseteq Forecasts
      /\ DOMAIN in.manual \subseteq Manuals
  BY DEF IsLineInputs, IsPartial
<1>2. Orders \cap Forecasts = {} /\ (Orders \cup Forecasts) \cap Manuals = {}
  BY RulesAssumption
<1>3. ASSUME NEW o \in DOMAIN in.orders, in.orders[o].due <= CycleEnd
      PROVE  OrderParts(in, o) = DemandsOf(in, o) /\ o \in Refs
  BY <1>1, <1>3 DEF OrderParts, OfOrder, DemandsOf, IsDemanded, DueOf, QuantityOfRef, PeggedOf,
                    UnitOf, Refs
<1>4. ASSUME NEW f \in DOMAIN in.forecasts
      PROVE  UnscheduledParts(in, f, Remainder(in, f)) = DemandsOf(in, f) /\ f \in Refs
  BY <1>1, <1>2 DEF UnscheduledParts, DemandsOf, IsDemanded, DueOf, QuantityOfRef, PeggedOf, Refs
<1>5. ASSUME NEW m \in DOMAIN in.manual
      PROVE  /\ UnscheduledParts(in, m, FloorToUnit(in.manual[m], in.units[KeyOf[m]]))
                  = DemandsOf(in, m)
             /\ m \in Refs
  BY <1>1, <1>2 DEF UnscheduledParts, DemandsOf, IsDemanded, DueOf, QuantityOfRef, PeggedOf,
                    UnitOf, Refs
<1>6. ASSUME NEW r \in Refs, DemandsOf(in, r) # {}
      PROVE  \/ r \in DOMAIN in.orders /\ in.orders[r].due <= CycleEnd
             \/ r \in DOMAIN in.forecasts
             \/ r \in DOMAIN in.manual
  BY <1>6 DEF DemandsOf, IsDemanded
<1>7. Demands(in) =
        UNION ({OrderParts(in, o) : o \in {p \in DOMAIN in.orders : in.orders[p].due <= CycleEnd}}
          \cup {UnscheduledParts(in, f, Remainder(in, f)) : f \in DOMAIN in.forecasts}
          \cup {UnscheduledParts(in, m, FloorToUnit(in.manual[m], in.units[KeyOf[m]])) :
                  m \in DOMAIN in.manual})
  BY DEF Demands
<1>8. ASSUME NEW d \in Demands(in)
      PROVE  \E r \in Refs : d \in DemandsOf(in, r)
  BY <1>3, <1>4, <1>5, <1>7
<1>9. ASSUME NEW r \in Refs, NEW d \in DemandsOf(in, r)
      PROVE  d \in Demands(in)
  BY <1>3, <1>4, <1>5, <1>6, <1>7
<1> QED BY <1>8, <1>9

LEMMA DemandsOfMean ==
  ASSUME NEW in, IsLineInputs(in), NEW r \in Refs
  PROVE  /\ IsFiniteSet(DemandsOf(in, r))
         /\ \A d \in DemandsOf(in, r) :
              /\ d \in Demand /\ d.ref = r /\ d.due = DueOf(in, r)
              /\ d.requested % UnitOf(in, r) = 0
         /\ \A d, e \in DemandsOf(in, r) : d.peg = e.peg => d = e
         /\ IsDemanded(in, r) => /\ QuantityOfRef(in, r) \in Nat
                                 /\ Requested(DemandsOf(in, r)) = QuantityOfRef(in, r)
<1>1. CASE ~IsDemanded(in, r)
  BY <1>1, FS_EmptySet DEF DemandsOf
<1>2. CASE IsDemanded(in, r)
  <2> DEFINE u == UnitOf(in, r)
             q == QuantityOfRef(in, r)
  <2>1. u \in Nat \ {0}
    BY UnitsOf
  <2>2. q \in Nat /\ q % u = 0
    <3>1. CASE r \in Orders
      <4>1. in.orders[r].backlog \in Nat
        BY <1>2, <3>1 DEF IsDemanded, IsLineInputs, IsPartial
      <4> QED BY <2>1, <3>1, <4>1, FloorMeans DEF QuantityOfRef
    <3>2. CASE r \notin Orders /\ r \in Forecasts
      <4> DEFINE b == CycleBacklog(in, KeyOf[r])
                 m == Max({0, in.forecasts[r] - b})
      <4>1. in.forecasts[r] \in Nat /\ b \in Nat
        BY <1>2, <3>2, CycleBacklogType DEF IsDemanded, IsLineInputs, IsPartial
      <4>2. in.forecasts[r] - b \in Int
        BY <4>1
      <4>3. m \in Nat
        BY <4>2, MaxOfTwo
      <4>4. q = FloorToUnit(m, u)
        BY <3>2 DEF QuantityOfRef, Remainder, UnitOf
      <4> HIDE DEF m, u, q
      <4> QED BY <2>1, <4>3, <4>4, FloorMeans
    <3>3. CASE r \notin Orders /\ r \notin Forecasts
      <4>1. in.manual[r] \in Nat
        BY <1>2, <3>3 DEF IsDemanded, IsLineInputs, IsPartial
      <4> QED BY <2>1, <3>3, <4>1, FloorMeans DEF QuantityOfRef
    <3> QED BY <3>1, <3>2, <3>3
  <2> DEFINE h == PeggedOf(in, r)
  <2>3. h \in Nat /\ h <= q /\ h % u = 0
    <3>1. CASE r \in Orders
      <4> DEFINE p == Produced(in, r, q)
      <4>1. p \in Nat /\ p <= q /\ p % u = 0
        BY <2>2, ProducedMeans
      <4>2. h = Limited(in, r, p)
        BY <3>1 DEF PeggedOf
      <4> HIDE DEF p, q, h
      <4>3. h \in Nat /\ h <= p /\ h % u = 0
        BY <4>1, <4>2, LimitedMeans
      <4> QED BY <2>2, <4>1, <4>3
    <3>2. CASE r \notin Orders
      <4> DEFINE p == IF r \in in.pegs THEN q ELSE 0
      <4>1. p \in Nat /\ p <= q /\ p % u = 0
        <5>1. 0 % u = 0
          BY <2>1
        <5> HIDE DEF q, u
        <5> QED BY <2>2, <5>1
      <4>2. h = Limited(in, r, p)
        BY <3>2 DEF PeggedOf
      <4> HIDE DEF p, q, h
      <4>3. h \in Nat /\ h <= p /\ h % u = 0
        BY <4>1, <4>2, LimitedMeans
      <4> QED BY <2>2, <4>1, <4>3
    <3> QED BY <3>1, <3>2
  <2>4. DueOf(in, r) \in Nat
    <3>1. Never \in Nat
      BY RulesAssumption DEF Never
    <3>2. r \in Orders => in.orders[r].due \in Nat
      BY <1>2 DEF IsDemanded, IsLineInputs, IsPartial
    <3> QED BY <3>1, <3>2 DEF DueOf
  <2>5. DemandsOf(in, r) = Parts(r, DueOf(in, r), q, h)
    BY <1>2 DEF DemandsOf
  <2> HIDE DEF u, q, h
  <2>6. /\ IsFiniteSet(Parts(r, DueOf(in, r), q, h))
        /\ \A d \in Parts(r, DueOf(in, r), q, h) :
             d \in Demand /\ d.ref = r /\ d.due = DueOf(in, r) /\ d.requested % u = 0
        /\ \A d, e \in Parts(r, DueOf(in, r), q, h) : d.peg = e.peg => d = e
        /\ Requested(Parts(r, DueOf(in, r), q, h)) = q
    BY <2>1, <2>2, <2>3, <2>4, PartsMean
  <2> QED BY <2>2, <2>5, <2>6 DEF u, q
<1> QED BY <1>1, <1>2

\* What the demands of a line are: one per reference and kind of pegging, of
\* whole units.
WholeDemands(in, D) ==
  /\ IsFiniteSet(D) /\ D \subseteq Demand
  /\ \A d \in D : d.requested % UnitOf(in, d.ref) = 0
  /\ \A d, e \in D : d.ref = e.ref /\ d.peg = e.peg => d = e

LEMMA DemandsMean ==
  ASSUME NEW in, IsLineInputs(in)
  PROVE  /\ WholeDemands(in, Demands(in))
         /\ \A d \in Demands(in) : d \in DemandsOf(in, d.ref)
<1>1. \A d \in Demands(in) : d.ref \in Refs /\ d \in DemandsOf(in, d.ref)
  BY DemandsAre, DemandsOfMean
<1>2. IsFiniteSet(Demands(in))
  <2> DEFINE h == [r \in Refs |-> DemandsOf(in, r)]
  <2>1. IsFiniteSet({h[r] : r \in Refs})
    <3> HIDE DEF h
    <3> QED BY Finiteness, ImageFinite
  <2>2. {h[r] : r \in Refs} = {DemandsOf(in, r) : r \in Refs}
    OBVIOUS
  <2>3. \A T \in {DemandsOf(in, r) : r \in Refs} : IsFiniteSet(T)
    BY DemandsOfMean
  <2>4. IsFiniteSet(UNION {DemandsOf(in, r) : r \in Refs})
    BY <2>1, <2>2, <2>3, FS_UNION
  <2> QED BY <2>4, DemandsAre
<1>3. Demands(in) \subseteq Demand
  BY <1>1, DemandsOfMean
<1>4. \A d \in Demands(in) : d.requested % UnitOf(in, d.ref) = 0
  BY <1>1, DemandsOfMean
<1>5. \A d, e \in Demands(in) : d.ref = e.ref /\ d.peg = e.peg => d = e
  BY <1>1, DemandsOfMean
<1> QED BY <1>1, <1>2, <1>3, <1>4, <1>5 DEF WholeDemands

------------------------------------------------------------------------------
(* allocate_line: groups served in turn *)

LEMMA Ratio ==
  ASSUME NEW a \in Nat, NEW w \in Nat, NEW t \in Nat \ {0}, a <= t
  PROVE  (a * w) \div t \in Nat /\ (a * w) \div t <= w
<1>1. a * w \in Nat /\ t * w \in Nat /\ a * w <= t * w
  <2>1. a * w \in Nat /\ t * w \in Nat
    OBVIOUS
  <2>2. \A i, j, k \in Nat : i <= j => i * k <= j * k
    OBVIOUS
  <2> QED BY <2>1, <2>2
<1>2. \A i \in Nat : i \div t \in Nat /\ t * (i \div t) <= i
  OBVIOUS
<1>3. (a * w) \div t \in Nat /\ t * ((a * w) \div t) <= a * w
  BY <1>1, <1>2
<1>4. \A q \in Nat : t * q <= t * w => q <= w
  OBVIOUS
<1>5. t * ((a * w) \div t) <= t * w
  <2>1. \A i, j, k \in Int : i <= j /\ j <= k => i <= k
    OBVIOUS
  <2>2. t * ((a * w) \div t) \in Int
    BY <1>3
  <2> QED BY <1>1, <1>3, <2>1, <2>2
<1> QED BY <1>3, <1>4, <1>5

LEMMA ShareOutMeans ==
  ASSUME NEW in, IsLineInputs(in), NEW d \in Demand, NEW want,
         want[d] \in Nat, want[d] % UnitOf(in, d.ref) = 0,
         NEW total \in Nat, want[d] <= total, NEW amount \in Int
  PROVE  LET share == ShareOut(in, want, total, amount, d) IN
         /\ share \in Nat /\ share <= want[d] /\ share % UnitOf(in, d.ref) = 0
         /\ amount <= 0 => share = 0
         /\ amount >= total => share = want[d]
         /\ 0 < amount /\ amount < total => share <= (amount * want[d]) \div total
<1> DEFINE u == UnitOf(in, d.ref)
           q == (amount * want[d]) \div total
<1>1. u \in Nat \ {0}
  BY UnitsOf DEF Demand
<1>2. CASE amount <= 0
  <2>1. ShareOut(in, want, total, amount, d) = 0 /\ 0 % u = 0
    BY <1>1, <1>2 DEF ShareOut
  <2>2. amount >= total => want[d] = 0
    BY <1>2
  <2> QED BY <1>2, <2>1, <2>2
<1>3. CASE 0 < amount /\ amount >= total
  <2>1. ShareOut(in, want, total, amount, d) = want[d]
    BY <1>3 DEF ShareOut
  <2> QED BY <1>3, <2>1
<1>4. CASE 0 < amount /\ amount < total
  <2>1. ShareOut(in, want, total, amount, d) = FloorToUnit(q, u)
    BY <1>4 DEF ShareOut, UnitOf
  <2>2. q \in Nat /\ q <= want[d]
    BY <1>4, Ratio
  <2> HIDE DEF q, u
  <2>3. FloorToUnit(q, u) \in Nat /\ FloorToUnit(q, u) <= q /\ FloorToUnit(q, u) % u = 0
    BY <1>1, <2>2, FloorMeans
  <2>4. FloorToUnit(q, u) <= want[d]
    BY <2>2, <2>3
  <2> QED BY <1>4, <2>1, <2>3, <2>4 DEF q, u
<1> QED BY <1>2, <1>3, <1>4

\* What a group of one rank gets.
LEMMA GroupMeans ==
  ASSUME NEW in, IsLineInputs(in), NEW G, IsFiniteSet(G), G \subseteq Demand, NEW want,
         \A d \in G : want[d] \in Nat /\ want[d] % UnitOf(in, d.ref) = 0,
         NEW amount \in Nat, NEW got,
         \A d \in G : got[d] = ShareOut(in, want, SumFunctionOnSet(want, G), amount, d)
  PROVE  SumFunctionOnSet(got, G) <= amount
<1> DEFINE total == SumFunctionOnSet(want, G)
<1>1. total \in Nat
  BY SumNat
<1>2. \A d \in G : want[d] <= total
  <2> SUFFICES ASSUME NEW d \in G
               PROVE  want[d] <= total
    OBVIOUS
  <2>1. SumFunctionOnSet(want, {d}) <= total
    BY SumSubset
  <2>2. want[d] \in Int
    OBVIOUS
  <2>3. SumFunctionOnSet(want, {d}) = want[d]
    BY <2>2, SumOne
  <2> QED BY <2>1, <2>3
<1>3. \A d \in G :
        /\ got[d] \in Nat /\ got[d] <= want[d]
        /\ amount <= 0 => got[d] = 0
        /\ 0 < amount /\ amount < total => got[d] <= (amount * want[d]) \div total
  BY <1>1, <1>2, ShareOutMeans
<1>4. CASE amount = 0
  <2>1. \A d \in G : got[d] = 0
    BY <1>3, <1>4
  <2>2. SumFunctionOnSet(got, G) = 0
    BY <2>1, SumZero
  <2> QED BY <1>4, <2>2
<1>5. CASE amount >= total
  <2>1. SumFunctionOnSet(got, G) <= SumFunctionOnSet(want, G)
    BY <1>3, SumLeq
  <2>2. SumFunctionOnSet(got, G) \in Nat
    BY <1>3, SumNat
  <2> QED BY <1>1, <1>5, <2>1, <2>2
<1>6. CASE 0 < amount /\ amount < total
  <2>1. total \in Nat \ {0} /\ total = SumFunctionOnSet(want, G)
    BY <1>1, <1>6
  <2>2. \A d \in G : /\ want[d] \in Nat /\ got[d] \in Nat
                     /\ got[d] <= (amount * want[d]) \div total
    BY <1>3, <1>6
  <2> HIDE DEF total
  <2> QED BY <2>1, <2>2, SumOfShares
<1> QED BY <1>1, <1>4, <1>5, <1>6

LEMMA InTurnMeans ==
  ASSUME NEW in, IsLineInputs(in), NEW want, NEW rank, NEW amount \in Int,
         IsFiniteSet(DOMAIN want), DOMAIN want \subseteq Demand,
         \A d \in DOMAIN want :
           want[d] \in Nat /\ want[d] % UnitOf(in, d.ref) = 0 /\ rank[d] \in Int
  PROVE  LET got == InTurn(in, want, rank, amount) IN
         /\ DOMAIN got = DOMAIN want
         /\ \A d \in DOMAIN want :
              got[d] \in Nat /\ got[d] <= want[d] /\ got[d] % UnitOf(in, d.ref) = 0
         /\ amount >= 0 => SumFunction(got) <= amount
         /\ SumFunction(want) <= amount => \A d \in DOMAIN want : got[d] = want[d]
         /\ \A d, e \in DOMAIN want : got[d] < want[d] /\ rank[d] < rank[e] => got[e] = 0
<1> DEFINE got == InTurn(in, want, rank, amount)
           D == DOMAIN want
           Earlier(d) == {e \in D : rank[e] < rank[d]}
           Group(d) == {e \in D : rank[e] = rank[d]}
           W(A) == SumFunctionOnSet(want, A)
           Left(d) == amount - W(Earlier(d))
<1>1. DOMAIN got = D
  BY DEF InTurn
<1>2. \A d \in D : got[d] = ShareOut(in, want, W(Group(d)), Left(d), d)
  BY DEF InTurn
<1>3. \A A \in SUBSET D : IsFiniteSet(A) /\ W(A) \in Nat
  <2>1. \A A \in SUBSET D : IsFiniteSet(A)
    BY FS_Subset
  <2> QED BY <2>1, SumNat
<1>4. \A A, B \in SUBSET D : A \subseteq B => W(A) <= W(B)
  <2> SUFFICES ASSUME NEW A \in SUBSET D, NEW B \in SUBSET D, A \subseteq B
               PROVE  W(A) <= W(B)
    OBVIOUS
  <2>1. IsFiniteSet(B) /\ A \in SUBSET B /\ \A x \in B : want[x] \in Nat
    BY <1>3
  <2> HIDE DEF D
  <2> QED BY <2>1, SumSubset
<1>5. \A A, B \in SUBSET D : A \cap B = {} => W(A \cup B) = W(A) + W(B)
  <2> SUFFICES ASSUME NEW A \in SUBSET D, NEW B \in SUBSET D, A \cap B = {}
               PROVE  W(A \cup B) = W(A) + W(B)
    OBVIOUS
  <2>1. IsFiniteSet(A) /\ IsFiniteSet(B) /\ \A x \in A \cup B : want[x] \in Int
    BY <1>3
  <2> HIDE DEF D
  <2> QED BY <2>1, SumSplit
<1>6. \A d \in D : /\ Earlier(d) \in SUBSET D /\ Group(d) \in SUBSET D /\ d \in Group(d)
                   /\ Earlier(d) \cap Group(d) = {}
                   /\ Left(d) \in Int /\ W(Group(d)) \in Nat /\ W(Earlier(d)) \in Nat
  <2>1. \A d \in D : /\ Earlier(d) \in SUBSET D /\ Group(d) \in SUBSET D /\ d \in Group(d)
                     /\ Earlier(d) \cap Group(d) = {}
    OBVIOUS
  <2> HIDE DEF Earlier, Group, W, D
  <2>2. \A d \in D : W(Group(d)) \in Nat /\ W(Earlier(d)) \in Nat
    BY <1>3, <2>1
  <2> QED BY <2>1, <2>2
<1>7. \A d \in D : want[d] <= W(Group(d))
  <2> SUFFICES ASSUME NEW d \in D
               PROVE  want[d] <= W(Group(d))
    OBVIOUS
  <2>1. {d} \in SUBSET D /\ {d} \subseteq Group(d) /\ Group(d) \in SUBSET D
    BY <1>6
  <2>2. W({d}) = want[d]
    BY SumOne
  <2> HIDE DEF W, D, Group
  <2> QED BY <1>4, <2>1, <2>2
<1>8. \A d \in D :
        /\ got[d] \in Nat /\ got[d] <= want[d] /\ got[d] % UnitOf(in, d.ref) = 0
        /\ Left(d) <= 0 => got[d] = 0
        /\ Left(d) >= W(Group(d)) => got[d] = want[d]
  <2> SUFFICES ASSUME NEW d \in D
               PROVE  /\ got[d] \in Nat /\ got[d] <= want[d] /\ got[d] % UnitOf(in, d.ref) = 0
                      /\ Left(d) <= 0 => got[d] = 0
                      /\ Left(d) >= W(Group(d)) => got[d] = want[d]
    OBVIOUS
  <2>1. /\ d \in Demand /\ want[d] \in Nat /\ want[d] % UnitOf(in, d.ref) = 0
        /\ W(Group(d)) \in Nat /\ want[d] <= W(Group(d)) /\ Left(d) \in Int
    BY <1>6, <1>7
  <2>2. got[d] = ShareOut(in, want, W(Group(d)), Left(d), d)
    BY <1>2
  <2> HIDE DEF got, D, W, Group, Left
  <2> QED BY <2>1, <2>2, ShareOutMeans
\* The demands of a later rank come after all of an earlier one.
<1>9. \A d, e \in D : rank[d] < rank[e] => W(Earlier(d)) + W(Group(d)) <= W(Earlier(e))
  <2> SUFFICES ASSUME NEW d \in D, NEW e \in D, rank[d] < rank[e]
               PROVE  W(Earlier(d)) + W(Group(d)) <= W(Earlier(e))
    OBVIOUS
  <2>1. Earlier(d) \cup Group(d) \subseteq Earlier(e)
    OBVIOUS
  <2>2. Earlier(d) \cup Group(d) \in SUBSET D /\ Earlier(e) \in SUBSET D
    BY <1>6
  <2>3. W(Earlier(d) \cup Group(d)) = W(Earlier(d)) + W(Group(d))
    <3>1. Earlier(d) \in SUBSET D /\ Group(d) \in SUBSET D /\ Earlier(d) \cap Group(d) = {}
      BY <1>6
    <3> HIDE DEF Earlier, Group, D, W
    <3> QED BY <1>5, <3>1
  <2> HIDE DEF Earlier, Group, D, W
  <2> QED BY <1>4, <2>1, <2>2, <2>3
<1>10. ASSUME SumFunction(want) <= amount
       PROVE  \A d \in D : got[d] = want[d]
  <2> SUFFICES ASSUME NEW d \in D
               PROVE  got[d] = want[d]
    OBVIOUS
  <2>1. W(D) <= amount /\ D \in SUBSET D
    BY <1>10 DEF SumFunction
  <2>2. Earlier(d) \in SUBSET D /\ Group(d) \in SUBSET D /\ Earlier(d) \cap Group(d) = {}
        /\ W(Earlier(d)) \in Nat /\ W(Group(d)) \in Nat
    BY <1>6
  <2> HIDE DEF Earlier, Group, D, W, got
  <2>3. Earlier(d) \cup Group(d) \in SUBSET D
    BY <2>2
  <2>4. W(Earlier(d) \cup Group(d)) = W(Earlier(d)) + W(Group(d))
    BY <1>5, <2>2
  <2>5. W(Earlier(d) \cup Group(d)) <= W(D) /\ W(D) \in Nat
    BY <1>3, <1>4, <2>1, <2>3
  <2>6. Left(d) >= W(Group(d))
    BY <2>1, <2>2, <2>4, <2>5
  <2> QED BY <1>8, <2>6
<1>11. ASSUME NEW d \in D, NEW e \in D, got[d] < want[d], rank[d] < rank[e]
       PROVE  got[e] = 0
  <2>1. ~(Left(d) >= W(Group(d)))
    BY <1>8, <1>11
  <2>2. W(Earlier(d)) + W(Group(d)) <= W(Earlier(e))
    BY <1>9, <1>11
  <2>3. /\ W(Earlier(d)) \in Nat /\ W(Group(d)) \in Nat /\ W(Earlier(e)) \in Nat
    BY <1>6
  <2> HIDE DEF Earlier, Group, D, W, got
  <2>4. Left(e) <= 0
    BY <2>1, <2>2, <2>3
  <2> QED BY <1>8, <2>4
<1>12. ASSUME amount >= 0
       PROVE  SumFunction(got) <= amount
  <2> DEFINE A == {d \in D : Left(d) > 0}
             Z == D \ A
             G(B) == SumFunctionOnSet(got, B)
  <2>0. \A d \in D : got[d] \in Int /\ want[d] \in Int /\ got[d] <= want[d]
    <3>1. \A d \in D : got[d] \in Nat /\ got[d] <= want[d] /\ want[d] \in Nat
      BY <1>8
    <3> HIDE DEF got
    <3> QED BY <3>1
  <2>1. A \in SUBSET D /\ Z \in SUBSET D /\ A \cup Z = D /\ A \cap Z = {}
    OBVIOUS
  <2>2. IsFiniteSet(A) /\ IsFiniteSet(Z)
    BY <1>3, <2>1
  <2>3. G(Z) = 0
    <3>1. \A d \in Z : Left(d) <= 0
      <4>1. \A d \in D : Left(d) \in Int
        BY <1>6
      <4> HIDE DEF Left
      <4> QED BY <4>1
    <3>2. \A d \in Z : got[d] = 0
      BY <1>8, <3>1
    <3> HIDE DEF Z, got
    <3> QED BY <2>2, <3>2, SumZero
  <2>4. G(D) = G(A) + G(Z)
    <3>1. \A d \in A \cup Z : got[d] \in Int
      BY <2>0, <2>1
    <3> HIDE DEF Z, A, got, D
    <3>2. G(A \cup Z) = G(A) + G(Z)
      BY <2>1, <2>2, <3>1, SumSplit
    <3> QED BY <2>1, <3>2
  <2>5. SumFunction(got) = G(D)
    BY <1>1 DEF SumFunction
  <2>6. CASE A = {}
    <3>1. G(A) = 0
      BY <2>6, SumEmpty
    <3> QED BY <1>12, <2>3, <2>4, <2>5, <3>1
  <2>7. CASE A # {}
    <3>1. PICK m \in A : \A x \in A : rank[x] <= rank[m]
      <4>1. \A x \in A : rank[x] \in Int
        OBVIOUS
      <4> HIDE DEF A
      <4> QED BY <2>2, <2>7, <4>1, Highest
    <3>2. m \in D /\ Left(m) > 0
      BY <3>1
    <3>3. A = Earlier(m) \cup Group(m)
      <4>1. ASSUME NEW x \in D, rank[x] < rank[m]
            PROVE  Left(x) > 0
        <5>1. W(Earlier(x)) + W(Group(x)) <= W(Earlier(m))
          BY <1>9, <3>2, <4>1
        <5>2. W(Earlier(x)) \in Nat /\ W(Group(x)) \in Nat /\ W(Earlier(m)) \in Nat
          BY <1>6, <3>2
        <5> HIDE DEF W, Earlier, Group, D
        <5> QED BY <3>2, <5>1, <5>2
      <4>2. ASSUME NEW x \in D, rank[x] = rank[m]
            PROVE  Left(x) > 0
        <5>1. Earlier(x) = Earlier(m)
          BY <4>2
        <5> QED BY <3>2, <5>1
      <4>3. \A x \in D : x \in A <=> x \in Earlier(m) \cup Group(m)
        <5>1. \A x \in D : rank[x] \in Int
          OBVIOUS
        <5>2. \A x \in D : rank[x] <= rank[m] <=> x \in Earlier(m) \cup Group(m)
          BY <5>1, <3>2
        <5>3. \A x \in D : x \in A => rank[x] <= rank[m]
          BY <3>1
        <5>4. \A x \in D : rank[x] <= rank[m] => x \in A
          BY <4>1, <4>2, <5>1, <3>2
        <5> HIDE DEF A, Earlier, Group, D
        <5> QED BY <5>2, <5>3, <5>4
      <4> QED BY <4>3
    <3>4. G(A) = G(Earlier(m)) + G(Group(m))
      <4>1. /\ IsFiniteSet(Earlier(m)) /\ IsFiniteSet(Group(m)) /\ Earlier(m) \cap Group(m) = {}
        BY <1>3, <1>6, <3>2
      <4>2. \A d \in Earlier(m) \cup Group(m) : got[d] \in Int
        <5> HIDE DEF got
        <5> QED BY <2>0
      <4> HIDE DEF got, Earlier, Group, A
      <4> QED BY <3>3, <4>1, <4>2, SumSplit
    <3>5. G(Earlier(m)) <= W(Earlier(m))
      <4>1. IsFiniteSet(Earlier(m))
        BY <1>3, <1>6, <3>2
      <4>2. \A d \in Earlier(m) : got[d] \in Int /\ want[d] \in Int /\ got[d] <= want[d]
        <5> HIDE DEF got
        <5> QED BY <2>0
      <4> HIDE DEF got, Earlier
      <4> QED BY <4>1, <4>2, SumLeq
    <3>6. G(Group(m)) <= Left(m)
      <4>1. /\ IsFiniteSet(Group(m)) /\ Group(m) \subseteq Demand
            /\ \A d \in Group(m) : want[d] \in Nat /\ want[d] % UnitOf(in, d.ref) = 0
        BY <1>3, <1>6, <3>2
      <4>2. ASSUME NEW d \in Group(m)
            PROVE  got[d] = ShareOut(in, want, W(Group(m)), Left(m), d)
        <5>1. Group(d) = Group(m) /\ Earlier(d) = Earlier(m) /\ d \in D
          BY <4>2
        <5>2. got[d] = ShareOut(in, want, W(Group(d)), Left(d), d)
          BY <1>2, <5>1
        <5> HIDE DEF got, Group, Earlier
        <5> QED BY <5>1, <5>2
      <4>3. Left(m) \in Nat
        <5>1. Left(m) \in Int /\ Left(m) > 0
          BY <1>6, <3>2
        <5> HIDE DEF Left
        <5> QED BY <5>1
      <4> HIDE DEF got, Group, Left
      <4> QED BY <4>1, <4>2, <4>3, GroupMeans
    <3>7. /\ G(Earlier(m)) \in Int /\ G(Group(m)) \in Int /\ W(Earlier(m)) \in Int
      <4>1. IsFiniteSet(Earlier(m)) /\ IsFiniteSet(Group(m)) /\ W(Earlier(m)) \in Int
        BY <1>3, <1>6, <3>2
      <4>2. \A d \in Earlier(m) \cup Group(m) : got[d] \in Int
        <5> HIDE DEF got
        <5> QED BY <2>0
      <4> HIDE DEF got, Earlier, Group
      <4> QED BY <4>1, <4>2, SumInt
    <3> HIDE DEF got, Earlier, Group, W, G, A, Z, D
    <3>8. G(A) <= amount
      BY <3>4, <3>5, <3>6, <3>7
    <3>9. G(A) \in Int
      BY <3>4, <3>7
    <3> QED BY <2>3, <2>4, <2>5, <3>8, <3>9
  <2> QED BY <2>6, <2>7
<1> QED BY <1>1, <1>8, <1>10, <1>11, <1>12

------------------------------------------------------------------------------
(* allocate_line: the floors *)

LEMMA RequestedIs ==
  ASSUME NEW A, IsFiniteSet(A), A \subseteq Demand, NEW w, \A d \in A : w[d] = d.requested
  PROVE  /\ Requested(A) = SumFunctionOnSet(w, A)
         /\ Requested(A) \in Nat
<1> DEFINE v == [d \in A |-> d.requested]
<1>1. Requested(A) = SumFunctionOnSet(v, A)
  BY DEF Requested, SumFunction
<1>2. \A d \in A : d.requested \in Nat
  BY DEF Demand
<1>3. \A d \in A : v[d] = w[d] /\ v[d] \in Nat /\ v[d] \in Int
  BY <1>2
<1> HIDE DEF v
<1>4. SumFunctionOnSet(v, A) \in Nat
  BY <1>3, SumNat
<1>5. SumFunctionOnSet(v, A) = SumFunctionOnSet(w, A)
  BY <1>3, SumSame
<1> QED BY <1>1, <1>4, <1>5

LEMMA BeforeOrders ==
  ASSUME NEW K, K \subseteq Demand, \A d, e \in K : d.ref = e.ref => d = e
  PROVE  /\ \A d \in K : ~Before(d, d)
         /\ \A d, e, f \in K : Before(d, e) /\ Before(e, f) => Before(d, f)
         /\ \A d, e \in K : d = e \/ Before(d, e) \/ Before(e, d)
<1>1. \A d \in K : d.ref \in Nat /\ d.due \in Nat /\ KindRank(d.ref) \in Nat
  BY Finiteness DEF Demand, KindRank
<1> QED BY <1>1 DEF Before

\* The demands of a key share a target: one after the other until it is used up.
LEMMA FillMeans ==
  ASSUME NEW K, IsFiniteSet(K), K \subseteq Demand, \A d, e \in K : d.ref = e.ref => d = e,
         NEW target \in Nat, NEW got,
         \A d \in K : got[d] = Max({0, Min({d.requested,
                                            target - Requested({e \in K : Before(e, d)})})})
  PROVE  /\ \A d \in K : got[d] \in Nat /\ got[d] <= d.requested
         /\ SumFunctionOnSet(got, K) <= target
         /\ target <= Requested(K) => SumFunctionOnSet(got, K) = target
<1> DEFINE w == [d \in K |-> d.requested]
           W(A) == SumFunctionOnSet(w, A)
           First(d) == {e \in K : Before(e, d)}
           start == [d \in K |-> W(First(d))]
           Left(d) == target - W(First(d))
           G(A) == SumFunctionOnSet(got, A)
<1>1. \A d \in K : w[d] = d.requested /\ w[d] \in Nat /\ w[d] > 0
  BY DEF Demand
<1>2. \A A \in SUBSET K : IsFiniteSet(A) /\ W(A) \in Nat /\ Requested(A) = W(A)
  <2> SUFFICES ASSUME NEW A \in SUBSET K
               PROVE  IsFiniteSet(A) /\ W(A) \in Nat /\ Requested(A) = W(A)
    OBVIOUS
  <2>1. IsFiniteSet(A)
    BY FS_Subset
  <2>2. A \subseteq Demand /\ \A d \in A : w[d] = d.requested /\ w[d] \in Nat
    BY <1>1
  <2> HIDE DEF w
  <2> QED BY <2>1, <2>2, RequestedIs
<1>3. \A A, B \in SUBSET K : A \cap B = {} => W(A \cup B) = W(A) + W(B)
  <2> SUFFICES ASSUME NEW A \in SUBSET K, NEW B \in SUBSET K, A \cap B = {}
               PROVE  W(A \cup B) = W(A) + W(B)
    OBVIOUS
  <2>1. IsFiniteSet(A) /\ IsFiniteSet(B)
    BY <1>2
  <2>2. \A d \in A \cup B : w[d] \in Int
    BY <1>1
  <2> HIDE DEF w
  <2> QED BY <2>1, <2>2, SumSplit
<1>4. \A A, B \in SUBSET K : A \subseteq B => W(A) <= W(B)
  <2> SUFFICES ASSUME NEW A \in SUBSET K, NEW B \in SUBSET K, A \subseteq B
               PROVE  W(A) <= W(B)
    OBVIOUS
  <2>1. IsFiniteSet(B) /\ A \in SUBSET B
    BY <1>2
  <2>2. \A d \in B : w[d] \in Nat
    BY <1>1
  <2> HIDE DEF w
  <2> QED BY <2>1, <2>2, SumSubset
<1>5. \A d \in K : W({d}) = d.requested
  <2> SUFFICES ASSUME NEW d \in K
               PROVE  W({d}) = d.requested
    OBVIOUS
  <2>1. w[d] \in Int /\ w[d] = d.requested
    BY <1>1
  <2> HIDE DEF w
  <2> QED BY <2>1, SumOne
<1>6. \A d \in K : /\ First(d) \in SUBSET K /\ W(First(d)) \in Nat /\ start[d] = W(First(d))
                   /\ start[d] \in Nat /\ Left(d) \in Int /\ Left(d) = target - start[d]
  <2>1. \A d \in K : First(d) \in SUBSET K
    OBVIOUS
  <2> HIDE DEF First, W
  <2>2. \A d \in K : W(First(d)) \in Nat
    BY <1>2, <2>1
  <2> QED BY <2>1, <2>2
<1> HIDE DEF start, w
<1>a. \A d \in K : start[d] \in Nat /\ start[d] \in Int /\ Left(d) = target - start[d]
  <2> HIDE DEF First, W, Left
  <2> QED BY <1>6
<1>7. \A d \in K : /\ got[d] \in Nat /\ got[d] <= d.requested
                   /\ Left(d) <= 0 => got[d] = 0
                   /\ Left(d) >= d.requested => got[d] = d.requested
                   /\ 0 <= Left(d) /\ Left(d) <= d.requested => got[d] = Left(d)
  <2> SUFFICES ASSUME NEW d \in K
               PROVE  /\ got[d] \in Nat /\ got[d] <= d.requested
                      /\ Left(d) <= 0 => got[d] = 0
                      /\ Left(d) >= d.requested => got[d] = d.requested
                      /\ 0 <= Left(d) /\ Left(d) <= d.requested => got[d] = Left(d)
    OBVIOUS
  <2> DEFINE l == Left(d)
             m == Min({d.requested, l})
  <2>1. got[d] = Max({0, m})
    <3>1. Requested(First(d)) = W(First(d))
      BY <1>2, <1>6
    <3>2. got[d] = Max({0, Min({d.requested, target - Requested(First(d))})})
      OBVIOUS
    <3> HIDE DEF W, First
    <3> QED BY <3>1, <3>2
  <2>2. l \in Int /\ d.requested \in Nat /\ d.requested > 0 /\ l = Left(d)
    BY <1>1, <1>6
  <2> HIDE DEF l, Left
  <2>3. m = IF d.requested <= l THEN d.requested ELSE l
    BY <2>2, MinOfTwo
  <2>4. m \in Int
    BY <2>2, <2>3
  <2> HIDE DEF m
  <2>5. got[d] = IF 0 >= m THEN 0 ELSE m
    BY <2>1, <2>4, MaxOfTwo
  <2> QED BY <2>2, <2>3, <2>4, <2>5
\* Whoever comes later starts where the earlier ones have had theirs.
<1>8. \A d, e \in K : Before(d, e) => start[d] + d.requested <= start[e]
  <2> SUFFICES ASSUME NEW d \in K, NEW e \in K, Before(d, e)
               PROVE  start[d] + d.requested <= start[e]
    OBVIOUS
  <2>1. /\ d \notin First(d) /\ First(d) \cup {d} \subseteq First(e)
    BY BeforeOrders
  <2>2. First(d) \in SUBSET K /\ First(e) \in SUBSET K /\ {d} \in SUBSET K
    OBVIOUS
  <2> HIDE DEF First, W, start
  <2>3. W(First(d) \cup {d}) = W(First(d)) + W({d})
    BY <1>3, <2>1, <2>2
  <2>4. W(First(d) \cup {d}) <= W(First(e))
    BY <1>4, <2>1, <2>2
  <2> QED BY <1>5, <1>6, <2>3, <2>4
<1> HIDE DEF Left
<1>b. \A d \in K : got[d] \in Nat /\ got[d] \in Int /\ got[d] <= d.requested
  <2> HIDE DEF First, W, Left
  <2> QED BY <1>7
<1>9. \A A \in SUBSET K : IsFiniteSet(A) /\ G(A) \in Int
  <2>1. \A d \in K : got[d] \in Int
    BY <1>7
  <2> QED BY <1>2, <2>1, SumInt
<1>10. \A A, B \in SUBSET K : A \cap B = {} => G(A \cup B) = G(A) + G(B)
  <2> SUFFICES ASSUME NEW A \in SUBSET K, NEW B \in SUBSET K, A \cap B = {}
               PROVE  G(A \cup B) = G(A) + G(B)
    OBVIOUS
  <2>1. IsFiniteSet(A) /\ IsFiniteSet(B) /\ \A d \in A \cup B : got[d] \in Int
    BY <1>2, <1>7
  <2> QED BY <2>1, SumSplit
<1>11. CASE K = {}
  <2>1. G(K) = 0 /\ W(K) = 0 /\ Requested(K) = W(K)
    <3>1. G(K) = 0
      BY <1>11, SumEmpty
    <3>2. W(K) = 0
      BY <1>11, SumEmpty
    <3> QED BY <1>2, <3>1, <3>2
  <2> QED BY <1>b, <2>1
<1>12. CASE target = 0
  <2>1. \A d \in K : got[d] = 0
    <3>1. \A d \in K : Left(d) <= 0
      BY <1>a, <1>12
    <3> QED BY <1>7, <3>1
  <2>2. G(K) = 0
    BY <2>1, SumZero
  <2> QED BY <1>b, <1>12, <2>2
<1>13. CASE K # {} /\ target > 0
  <2> DEFINE B == {d \in K : start[d] < target}
  <2>0. \A d \in K : start[d] \in Int
    BY <1>a
  <2>1. PICK z \in K : \A x \in K : start[z] <= start[x]
    <3> HIDE DEF start
    <3> QED BY <1>13, <2>0, Lowest
  <2>2. First(z) = {}
    <3>1. ASSUME NEW e \in First(z)
          PROVE  FALSE
      <4>1. e \in K /\ Before(e, z)
        OBVIOUS
      <4>2. /\ start[e] + e.requested <= start[z] /\ e.requested > 0 /\ e.requested \in Int
            /\ start[z] <= start[e] /\ start[e] \in Int /\ start[z] \in Int
        BY <1>1, <1>8, <2>0, <2>1, <4>1
      <4> HIDE DEF start
      <4> QED BY <4>2
    <3> QED BY <3>1
  <2>3. start[z] = 0
    <3>1. W({}) = 0
      BY SumEmpty
    <3> QED BY <1>6, <2>2, <3>1
  <2>4. IsFiniteSet(B) /\ B # {}
    <3>1. z \in B
      BY <1>13, <2>3
    <3> QED BY <3>1, FS_Subset
  <2>5. PICK m \in B : \A x \in B : start[x] <= start[m]
    <3>1. \A x \in B : start[x] \in Int
      BY <2>0
    <3> HIDE DEF start, B
    <3> QED BY <2>4, <3>1, Highest
  <2>6. m \in K /\ start[m] < target
    BY <2>5
  <2> DEFINE Rest == {e \in K : Before(m, e)}
  <2>7. K = (First(m) \cup {m}) \cup Rest
    BY <2>6, BeforeOrders
  <2>8. /\ First(m) \cap {m} = {} /\ (First(m) \cup {m}) \cap Rest = {}
        /\ First(m) \in SUBSET K /\ {m} \in SUBSET K /\ Rest \in SUBSET K
        /\ First(m) \cup {m} \in SUBSET K
    BY <2>6, BeforeOrders
  <2>9. \A e \in First(m) : got[e] = e.requested
    <3> SUFFICES ASSUME NEW e \in First(m)
                 PROVE  got[e] = e.requested
      OBVIOUS
    <3>1. e \in K /\ Before(e, m)
      OBVIOUS
    <3>2. start[e] + e.requested <= start[m] /\ start[e] \in Int /\ start[m] \in Int
          /\ e.requested \in Int
      BY <1>1, <1>8, <2>0, <2>6, <3>1
    <3>3. Left(e) = target - start[e]
      BY <1>6, <3>1
    <3> HIDE DEF start, Left
    <3>4. Left(e) >= e.requested
      BY <2>6, <3>2, <3>3
    <3> QED BY <1>7, <3>1, <3>4
  <2>10. \A e \in Rest : start[e] >= target
    <3> SUFFICES ASSUME NEW e \in Rest
                 PROVE  start[e] >= target
      OBVIOUS
    <3>1. e \in K /\ Before(m, e)
      OBVIOUS
    <3>2. /\ start[m] + m.requested <= start[e] /\ m.requested > 0 /\ m.requested \in Int
          /\ start[e] \in Int /\ start[m] \in Int
      BY <1>1, <1>8, <2>0, <2>6, <3>1
    <3>3. e \notin B
      <4> HIDE DEF start, B
      <4> QED BY <2>5, <3>2
    <3> HIDE DEF start
    <3> QED BY <3>1, <3>2, <3>3
  <2>11. G(Rest) = 0
    <3>1. \A e \in Rest : got[e] = 0
      <4> SUFFICES ASSUME NEW e \in Rest
                   PROVE  got[e] = 0
        OBVIOUS
      <4>1. e \in K /\ start[e] >= target /\ start[e] \in Int
        BY <2>0, <2>10
      <4>2. Left(e) = target - start[e]
        BY <1>6, <4>1
      <4> HIDE DEF start, Left
      <4>3. Left(e) <= 0
        BY <4>1, <4>2
      <4> QED BY <1>7, <4>1, <4>3
    <3>2. IsFiniteSet(Rest)
      BY <1>2
    <3> HIDE DEF Rest
    <3> QED BY <3>1, <3>2, SumZero
  <2>12. G(First(m)) = start[m]
    <3>1. IsFiniteSet(First(m)) /\ \A e \in First(m) : got[e] \in Int /\ got[e] = w[e]
      BY <1>1, <1>2, <1>7, <2>9
    <3>2. G(First(m)) = W(First(m))
      <4> HIDE DEF w, First
      <4> QED BY <3>1, SumSame
    <3>3. start[m] = W(First(m))
      BY <1>6, <2>6
    <3> HIDE DEF W, start, First
    <3> QED BY <3>2, <3>3
  <2>13. G({m}) = got[m]
    <3>1. got[m] \in Int
      BY <1>b, <2>6
    <3> QED BY <3>1, SumOne
  <2>14. G(K) = start[m] + got[m]
    <3>1. G(First(m) \cup {m}) = G(First(m)) + G({m})
      <4> HIDE DEF G, First
      <4> QED BY <1>10, <2>8
    <3>2. G((First(m) \cup {m}) \cup Rest) = G(First(m) \cup {m}) + G(Rest)
      <4> HIDE DEF G, First, Rest
      <4> QED BY <1>10, <2>8
    <3>3. start[m] \in Int /\ got[m] \in Int
      BY <1>a, <1>b, <2>6
    <3> HIDE DEF G, First, Rest, start
    <3> QED BY <2>7, <2>11, <2>12, <2>13, <3>1, <3>2, <3>3
  <2>15. W(First(m) \cup {m}) = start[m] + m.requested
    <3>1. W(First(m) \cup {m}) = W(First(m)) + W({m})
      <4> HIDE DEF W, First
      <4> QED BY <1>3, <2>8
    <3>2. W({m}) = m.requested /\ start[m] = W(First(m))
      BY <1>5, <1>6, <2>6
    <3> HIDE DEF W, First, start
    <3> QED BY <3>1, <3>2
  <2>16. /\ start[m] \in Nat /\ m.requested \in Nat /\ m.requested > 0 /\ got[m] \in Nat
         /\ got[m] <= m.requested
         /\ Left(m) = target - start[m]
    <3> HIDE DEF Left
    <3> QED BY <1>1, <1>a, <1>b, <2>6
  <2>17. CASE start[m] + m.requested >= target
    <3>1. got[m] = target - start[m]
      <4> HIDE DEF Left, start
      <4>1. 0 <= Left(m) /\ Left(m) <= m.requested
        BY <2>6, <2>16, <2>17
      <4> QED BY <1>7, <2>6, <2>16, <4>1
    <3> HIDE DEF start, G
    <3>2. G(K) = target
      <4>1. target \in Int /\ start[m] \in Int
        BY <1>a, <2>6
      <4>2. G(K) = start[m] + (target - start[m])
        BY <2>14, <3>1
      <4>3. \A a, b \in Int : a + (b - a) = b
        OBVIOUS
      <4> QED BY <4>1, <4>2, <4>3
    <3> QED BY <1>b, <3>2 DEF G
  <2>18. CASE start[m] + m.requested < target
    <3>1. Rest = {}
      <4>1. ASSUME NEW e \in Rest
            PROVE  FALSE
        <5>1. IsFiniteSet(Rest) /\ Rest # {} /\ \A x \in Rest : start[x] \in Int
          BY <1>2, <2>0
        <5>2. PICK n \in Rest : \A x \in Rest : start[n] <= start[x]
          <6> HIDE DEF Rest, start
          <6> QED BY <5>1, Lowest
        <5>3. n \in K /\ Before(m, n)
          BY <5>2
        <5>4. First(n) = First(m) \cup {m}
          <6>1. \A x \in First(m) \cup {m} : x \in First(n)
            BY <2>6, <5>3, BeforeOrders
          <6>2. ASSUME NEW x \in First(n), x \notin First(m) \cup {m}
                PROVE  FALSE
            <7>1. x \in Rest /\ x \in K /\ Before(x, n)
              BY <2>7, <6>2
            <7>2. start[x] + x.requested <= start[n] /\ start[n] <= start[x]
              BY <1>8, <5>2, <5>3, <7>1
            <7>3. x.requested > 0 /\ x.requested \in Int /\ start[x] \in Int /\ start[n] \in Int
              BY <1>1, <2>0, <5>3, <7>1
            <7> HIDE DEF start
            <7> QED BY <7>2, <7>3
          <6> QED BY <6>1, <6>2
        <5>5. start[n] = start[m] + m.requested
          <6>1. start[n] = W(First(n))
            BY <1>6, <5>3
          <6> HIDE DEF start, W, First
          <6> QED BY <2>15, <5>4, <6>1
        <5>6. start[n] >= target /\ start[n] \in Int
          BY <2>0, <2>10, <5>2, <5>3
        <5> HIDE DEF start
        <5> QED BY <2>16, <2>18, <5>5, <5>6
      <4> QED BY <4>1
    <3>2. got[m] = m.requested
      <4> HIDE DEF Left, start
      <4>1. Left(m) >= m.requested
        BY <2>16, <2>18
      <4> QED BY <1>7, <2>6, <4>1
    <3>3. K = First(m) \cup {m}
      BY <2>7, <3>1
    <3>4. Requested(K) = W(K)
      BY <1>2
    <3>5. Requested(K) = start[m] + m.requested
      <4> HIDE DEF W, First, start
      <4> QED BY <2>15, <3>3, <3>4
    <3> HIDE DEF start, G, W
    <3>6. G(K) <= target /\ ~(target <= Requested(K))
      BY <2>14, <2>16, <2>18, <3>2, <3>5
    <3> QED BY <1>b, <3>6 DEF G
  <2>19. start[m] + m.requested \in Int
    <3> HIDE DEF start
    <3> QED BY <2>16
  <2> HIDE DEF start
  <2> QED BY <2>17, <2>18, <2>19
<1> QED BY <1>11, <1>12, <1>13

LEMMA RequestedWhole ==
  ASSUME NEW A, IsFiniteSet(A), A \subseteq Demand, NEW u \in Nat \ {0},
         \A d \in A : d.requested % u = 0
  PROVE  Requested(A) % u = 0
<1> DEFINE v == [d \in A |-> d.requested]
<1>1. Requested(A) = SumFunctionOnSet(v, A)
  BY DEF Requested, SumFunction
<1>2. \A d \in A : v[d] \in Int /\ v[d] % u = 0
  BY DEF Demand
<1> HIDE DEF v
<1> QED BY <1>1, <1>2, SumMultiple

LEMMA WantedType ==
  ASSUME NEW in, IsLineInputs(in), NEW key
  PROVE  Wanted(in, key) \in Nat
<1> DEFINE overrides == {r \in DOMAIN in.floorOverrides :
                           r \in Present(in) /\ KeyOf[r] = key /\ key.company # "none"}
           C == {b \in in.commitments : b.binding /\ b.key = key}
           H == {h \in in.guarantees : h.key = key}
           shares == {Share(c) : c \in C}
           guarantees == {g.quantity : g \in H}
<1>1. Wanted(in, key) = IF overrides # {} THEN in.floorOverrides[Max(overrides)]
                        ELSE Max({0} \cup shares \cup guarantees)
  BY DEF Wanted
<1>2. CASE overrides # {}
  <2>1. overrides \in SUBSET Refs /\ \A r \in overrides : in.floorOverrides[r] \in Nat
    BY DEF IsLineInputs, IsPartial
  <2> HIDE DEF overrides
  <2>2. IsFiniteSet(overrides) /\ overrides \in SUBSET Int
    <3>1. IsFiniteSet(overrides) /\ overrides \in SUBSET Nat
      BY <2>1, Finiteness
    <3> QED BY <3>1
  <2>3. Max(overrides) \in overrides
    BY <1>2, <2>2, MaxOfSet
  <2> QED BY <1>1, <1>2, <2>1, <2>3
<1>3. CASE overrides = {}
  <2>1. IsFiniteSet(C) /\ IsFiniteSet(H)
    BY FS_Subset DEF IsLineInputs
  <2>2. \A c \in C : Share(c) \in Nat
    <3> SUFFICES ASSUME NEW c \in C
                 PROVE  Share(c) \in Nat
      OBVIOUS
    <3>1. c.total \in Nat /\ c.taken \in Nat /\ c.months \in Nat
      BY DEF IsLineInputs
    <3>2. CASE c.months = 0 \/ c.taken >= c.total
      BY <3>2 DEF Share
    <3>3. CASE ~(c.months = 0 \/ c.taken >= c.total)
      <4>1. c.total - c.taken \in Nat /\ c.months \in Nat \ {0}
        BY <3>1, <3>3
      <4>2. Share(c) = (c.total - c.taken) \div c.months
        BY <3>3 DEF Share
      <4> QED BY <4>1, <4>2
    <3> QED BY <3>2, <3>3
  <2>3. IsFiniteSet(shares)
    <3> DEFINE h == [c \in C |-> Share(c)]
    <3>1. IsFiniteSet({h[c] : c \in C})
      <4> HIDE DEF h, C
      <4> QED BY <2>1, ImageFinite
    <3>2. {h[c] : c \in C} = shares
      OBVIOUS
    <3> QED BY <3>1, <3>2
  <2>4. IsFiniteSet(guarantees)
    <3> DEFINE h == [g \in H |-> g.quantity]
    <3>1. IsFiniteSet({h[g] : g \in H})
      <4> HIDE DEF h, H
      <4> QED BY <2>1, ImageFinite
    <3>2. {h[g] : g \in H} = guarantees
      OBVIOUS
    <3> QED BY <3>1, <3>2
  <2>5. shares \subseteq Nat /\ guarantees \subseteq Nat
    <3>1. \A g \in H : g.quantity \in Nat
      BY DEF IsLineInputs
    <3> HIDE DEF C, H
    <3> QED BY <2>2, <3>1
  <2> DEFINE all == {0} \cup shares \cup guarantees
  <2>6. IsFiniteSet(all)
    <3> HIDE DEF shares, guarantees
    <3> QED BY <2>3, <2>4, FS_Union, FS_Singleton
  <2>7. all # {} /\ all \in SUBSET Nat /\ all \in SUBSET Int
    <3> HIDE DEF shares, guarantees
    <3> QED BY <2>5
  <2> HIDE DEF all
  <2>8. Max(all) \in all
    BY <2>6, <2>7, MaxOfSet
  <2>9. Wanted(in, key) = Max(all)
    BY <1>1, <1>3 DEF all
  <2> QED BY <2>7, <2>8, <2>9
<1> QED BY <1>2, <1>3

\* A floor is wanted in whole units, and no more than there is demand.
FloorsFit(in, cycle, floors) ==
  /\ DOMAIN floors = Keys
  /\ \A key \in Keys : /\ floors[key] \in Nat /\ floors[key] % in.units[key] = 0
                       /\ floors[key] <= Requested(OfKey(cycle, key))

LEMMA OfKeyMeans ==
  ASSUME NEW in, IsLineInputs(in), NEW cycle, IsFiniteSet(cycle), cycle \subseteq Demand,
         \A d \in cycle : d.requested % UnitOf(in, d.ref) = 0, NEW key \in Keys
  PROVE  /\ IsFiniteSet(OfKey(cycle, key)) /\ OfKey(cycle, key) \subseteq Demand
         /\ in.units[key] \in Nat \ {0}
         /\ \A d \in OfKey(cycle, key) : d.requested % in.units[key] = 0
         /\ Requested(OfKey(cycle, key)) \in Nat
         /\ \A A \in SUBSET OfKey(cycle, key) :
              Requested(A) \in Nat /\ Requested(A) % in.units[key] = 0
<1>1. in.units[key] \in Nat \ {0}
  BY DEF IsLineInputs
<1>2. IsFiniteSet(OfKey(cycle, key)) /\ OfKey(cycle, key) \subseteq Demand
  BY FS_Subset DEF OfKey
<1>3. \A d \in OfKey(cycle, key) : d.requested % in.units[key] = 0
  BY DEF OfKey, UnitOf
<1>4. ASSUME NEW A \in SUBSET OfKey(cycle, key)
      PROVE  Requested(A) \in Nat /\ Requested(A) % in.units[key] = 0
  <2>1. IsFiniteSet(A) /\ A \subseteq Demand /\ \A d \in A : d.requested % in.units[key] = 0
    BY <1>2, <1>3, FS_Subset
  <2> DEFINE w == [d \in A |-> d.requested]
  <2>2. \A d \in A : w[d] = d.requested
    OBVIOUS
  <2> HIDE DEF w
  <2>3. Requested(A) \in Nat
    BY <2>1, <2>2, RequestedIs
  <2> QED BY <1>1, <2>1, <2>3, RequestedWhole
<1> QED BY <1>1, <1>2, <1>3, <1>4

LEMMA ContractFloorsFit ==
  ASSUME NEW in, IsLineInputs(in), NEW cycle, IsFiniteSet(cycle), cycle \subseteq Demand,
         \A d \in cycle : d.requested % UnitOf(in, d.ref) = 0
  PROVE  FloorsFit(in, cycle, ContractFloors(in, cycle))
<1> DEFINE floors == ContractFloors(in, cycle)
<1>1. DOMAIN floors = Keys
  BY DEF ContractFloors
<1>2. ASSUME NEW key \in Keys
      PROVE  /\ floors[key] \in Nat /\ floors[key] % in.units[key] = 0
             /\ floors[key] <= Requested(OfKey(cycle, key))
  <2> DEFINE f == FloorToUnit(Wanted(in, key), in.units[key])
             r == Requested(OfKey(cycle, key))
  <2>1. in.units[key] \in Nat \ {0} /\ r \in Nat /\ r % in.units[key] = 0
    BY OfKeyMeans
  <2>2. f \in Nat /\ f % in.units[key] = 0
    BY <2>1, WantedType, FloorMeans
  <2>3. floors[key] = Min({f, r})
    BY DEF ContractFloors
  <2> HIDE DEF f, r, floors
  <2>4. floors[key] = IF f <= r THEN f ELSE r
    BY <2>1, <2>2, <2>3, MinOfTwo
  <2>5. floors[key] \in Nat /\ floors[key] % in.units[key] = 0 /\ floors[key] <= r
    BY <2>1, <2>2, <2>4
  <2> QED BY <2>5 DEF r
<1> HIDE DEF floors
<1> QED BY <1>1, <1>2 DEF FloorsFit, floors

\* Distinct demands of a set of one pegging are of distinct references.
OneRef(D) == \A d, e \in D : d.ref = e.ref => d = e

WholeSet(in, D) ==
  /\ IsFiniteSet(D) /\ D \subseteq Demand
  /\ \A d \in D : d.requested % UnitOf(in, d.ref) = 0

LEMMA TargetMeans ==
  ASSUME NEW in, IsLineInputs(in), NEW key \in Keys,
         NEW floor \in Nat, floor % in.units[key] = 0,
         NEW need \in Nat, NEW amount \in Nat
  PROVE  LET t == Target(in, key, floor, need, amount) IN
         /\ t \in Nat /\ t % in.units[key] = 0 /\ t <= floor
         /\ need <= amount => t = floor
         /\ need > amount => t <= (amount * floor) \div need
<1> DEFINE q == (floor * amount) \div need
           u == in.units[key]
<1>1. u \in Nat \ {0}
  BY DEF IsLineInputs
<1>2. CASE need <= amount
  <2>1. Target(in, key, floor, need, amount) = floor
    BY <1>2 DEF Target
  <2> QED BY <1>2, <2>1
<1>3. CASE need > amount
  <2>1. Target(in, key, floor, need, amount) = FloorToUnit(q, u)
    BY <1>3 DEF Target
  <2>2. floor * amount = amount * floor
    OBVIOUS
  <2>3. (amount * floor) \div need \in Nat /\ (amount * floor) \div need <= floor
    BY <1>3, Ratio
  <2>4. q = (amount * floor) \div need
    BY <2>2
  <2> HIDE DEF q, u
  <2>5. q \in Nat /\ q <= floor
    BY <2>3, <2>4
  <2>6. FloorToUnit(q, u) \in Nat /\ FloorToUnit(q, u) <= q /\ FloorToUnit(q, u) % u = 0
    BY <1>1, <2>5, FloorMeans
  <2>7. FloorToUnit(q, u) <= floor
    BY <2>5, <2>6
  <2> QED BY <1>3, <2>1, <2>4, <2>6, <2>7 DEF u
<1> QED BY <1>2, <1>3

LEMMA FillFloorsMeans ==
  ASSUME NEW in, IsLineInputs(in), NEW cycle, WholeSet(in, cycle), OneRef(cycle),
         NEW floors, FloorsFit(in, cycle, floors), NEW amount \in Nat
  PROVE  LET got == FillFloors(in, cycle, floors, SumFunction(floors), amount) IN
         /\ DOMAIN got = cycle
         /\ \A d \in cycle : /\ got[d] \in Nat /\ got[d] <= d.requested
                             /\ got[d] % UnitOf(in, d.ref) = 0
         /\ SumFunction(got) <= amount
         /\ \A key \in Keys :
              /\ SumFunctionOnSet(got, OfKey(cycle, key)) <= floors[key]
              /\ SumFunction(floors) <= amount
                   => SumFunctionOnSet(got, OfKey(cycle, key)) = floors[key]
<1> DEFINE need == SumFunction(floors)
           got == FillFloors(in, cycle, floors, need, amount)
           T == [key \in Keys |-> Target(in, key, floors[key], need, amount)]
           K(key) == OfKey(cycle, key)
           g == [key \in Keys |-> SumFunctionOnSet(got, K(key))]
<1>1. IsFiniteSet(cycle) /\ cycle \subseteq Demand /\ IsFiniteSet(Keys)
  BY Finiteness DEF WholeSet
<1>2. \A key \in Keys : floors[key] \in Nat /\ floors[key] <= Requested(K(key))
  BY DEF FloorsFit
<1>3. need \in Nat /\ need = SumFunctionOnSet(floors, Keys)
  <2>1. need = SumFunctionOnSet(floors, Keys)
    BY DEF SumFunction, FloorsFit
  <2> QED BY <1>1, <1>2, <2>1, SumNat
<1>4. \A key \in Keys : /\ T[key] \in Nat /\ T[key] % in.units[key] = 0 /\ T[key] <= floors[key]
                        /\ need <= amount => T[key] = floors[key]
                        /\ need > amount => T[key] <= (amount * floors[key]) \div need
  <2> SUFFICES ASSUME NEW key \in Keys
               PROVE  /\ T[key] \in Nat /\ T[key] % in.units[key] = 0 /\ T[key] <= floors[key]
                      /\ need <= amount => T[key] = floors[key]
                      /\ need > amount => T[key] <= (amount * floors[key]) \div need
    OBVIOUS
  <2>1. floors[key] \in Nat /\ floors[key] % in.units[key] = 0
    BY DEF FloorsFit
  <2>2. T[key] = Target(in, key, floors[key], need, amount)
    OBVIOUS
  <2> DEFINE f == floors[key]
  <2> HIDE DEF T, need, f
  <2>3. f \in Nat /\ f % in.units[key] = 0 /\ need \in Nat
    BY <1>3, <2>1 DEF f
  <2>4. LET t == Target(in, key, f, need, amount) IN
        /\ t \in Nat /\ t % in.units[key] = 0 /\ t <= f
        /\ need <= amount => t = f
        /\ need > amount => t <= (amount * f) \div need
    BY <2>3, TargetMeans
  <2>5. T[key] = Target(in, key, f, need, amount)
    BY <2>2 DEF f
  <2> QED BY <2>4, <2>5 DEF f
<1>5. \A key \in Keys : /\ IsFiniteSet(K(key)) /\ K(key) \subseteq Demand /\ K(key) \subseteq cycle
                        /\ in.units[key] \in Nat \ {0}
                        /\ \A d \in K(key) : d.requested % in.units[key] = 0
                        /\ Requested(K(key)) \in Nat
                        /\ \A A \in SUBSET K(key) :
                             Requested(A) \in Nat /\ Requested(A) % in.units[key] = 0
  <2>1. \A d \in cycle : d.requested % UnitOf(in, d.ref) = 0
    BY DEF WholeSet
  <2>2. \A key : K(key) \subseteq cycle
    BY DEF OfKey
  <2> HIDE DEF K
  <2> QED BY <1>1, <2>1, <2>2, OfKeyMeans DEF K
<1>6. DOMAIN got = cycle
  BY DEF FillFloors
<1>7. \A key \in Keys : \A d \in K(key) :
        /\ d \in cycle /\ KeyOf[d.ref] = key
        /\ got[d] = Max({0, Min({d.requested,
                                 T[key] - Requested({e \in K(key) : Before(e, d)})})})
  BY DEF FillFloors, OfKey
<1> HIDE DEF T, got
<1>8. \A key \in Keys :
        /\ \A d \in K(key) : got[d] \in Nat /\ got[d] <= d.requested
        /\ SumFunctionOnSet(got, K(key)) <= T[key]
        /\ T[key] <= Requested(K(key)) => SumFunctionOnSet(got, K(key)) = T[key]
  <2> SUFFICES ASSUME NEW key \in Keys
               PROVE  /\ \A d \in K(key) : got[d] \in Nat /\ got[d] <= d.requested
                      /\ SumFunctionOnSet(got, K(key)) <= T[key]
                      /\ T[key] <= Requested(K(key)) => SumFunctionOnSet(got, K(key)) = T[key]
    OBVIOUS
  <2>1. IsFiniteSet(K(key)) /\ K(key) \subseteq Demand /\ T[key] \in Nat
    BY <1>4, <1>5
  <2>2. \A d, e \in K(key) : d.ref = e.ref => d = e
    BY <1>5 DEF OneRef
  <2>3. \A d \in K(key) : got[d] = Max({0, Min({d.requested,
                                    T[key] - Requested({e \in K(key) : Before(e, d)})})})
    BY <1>7
  <2> HIDE DEF K
  <2> QED BY <2>1, <2>2, <2>3, FillMeans
<1>9. \A d \in cycle : KeyOf[d.ref] \in Keys /\ d \in K(KeyOf[d.ref])
  BY <1>1 DEF Demand, Keys, OfKey
<1>10. \A d \in cycle : got[d] \in Nat /\ got[d] <= d.requested
  BY <1>8, <1>9
<1>11. \A d \in cycle : got[d] % UnitOf(in, d.ref) = 0
  <2> SUFFICES ASSUME NEW d \in cycle
               PROVE  got[d] % UnitOf(in, d.ref) = 0
    OBVIOUS
  <2> DEFINE key == KeyOf[d.ref]
             u == in.units[key]
             A == {e \in K(key) : Before(e, d)}
             l == T[key] - Requested(A)
             m == Min({d.requested, l})
  <2>1. key \in Keys /\ d \in K(key) /\ A \in SUBSET K(key)
    BY <1>9
  <2>2. u \in Nat \ {0} /\ d.requested % u = 0 /\ Requested(A) \in Nat /\ Requested(A) % u = 0
    <3> HIDE DEF K, A, key
    <3> QED BY <1>5, <2>1
  <2>3. T[key] \in Nat /\ T[key] % u = 0 /\ d.requested \in Nat
    BY <1>1, <1>4, <2>1 DEF Demand
  <2>4. got[d] = Max({0, m})
    BY <1>7, <2>1
  <2>5. l \in Int /\ l % u = 0
    <3> HIDE DEF A, u, key
    <3>1. T[key] \in Int /\ Requested(A) \in Int
      BY <2>2, <2>3
    <3>2. (T[key] - Requested(A)) % u = 0
      BY <2>2, <2>3, <3>1, Multiples
    <3> QED BY <3>1, <3>2
  <2> HIDE DEF l, u, A, K, key
  <2>6. m = IF d.requested <= l THEN d.requested ELSE l
    BY <2>3, <2>5, MinOfTwo
  <2>7. m \in Int /\ m % u = 0
    BY <2>2, <2>3, <2>5, <2>6
  <2> HIDE DEF m
  <2>8. got[d] = IF 0 >= m THEN 0 ELSE m
    BY <2>4, <2>7, MaxOfTwo
  <2>9. 0 % u = 0
    BY <2>2
  <2>10. got[d] % u = 0
    BY <2>7, <2>8, <2>9
  <2> QED BY <2>10 DEF u, key, UnitOf
<1>12. \A key \in Keys : g[key] = SumFunctionOnSet(got, K(key)) /\ g[key] \in Nat
  <2> SUFFICES ASSUME NEW key \in Keys
               PROVE  g[key] = SumFunctionOnSet(got, K(key)) /\ g[key] \in Nat
    OBVIOUS
  <2>1. IsFiniteSet(K(key)) /\ \A d \in K(key) : got[d] \in Nat
    BY <1>5, <1>8
  <2>2. g[key] = SumFunctionOnSet(got, K(key))
    OBVIOUS
  <2> HIDE DEF K, g
  <2> QED BY <2>1, <2>2, SumNat
<1> HIDE DEF g
<1>13. SumFunction(got) = SumFunctionOnSet(g, Keys)
  <2> DEFINE h == [d \in cycle |-> KeyOf[d.ref]]
  <2>1. SumFunction(got) = SumFunctionOnSet(got, cycle)
    BY <1>6 DEF SumFunction
  <2>2. (\A d \in cycle : got[d] \in Int) /\ h \in [cycle -> Keys]
    BY <1>9, <1>10
  <2> DEFINE C == [key \in Keys |-> K(key)]
  <2>3. /\ \A key \in Keys : g[key] = SumFunctionOnSet(got, C[key])
        /\ \A key \in Keys : \A d \in cycle : d \in C[key] <=> h[d] = key
        /\ C \in [Keys -> SUBSET cycle]
    <3>1. \A key \in Keys : \A d : d \in K(key) <=> d \in cycle /\ h[d] = key
      BY DEF OfKey
    <3>2. \A key \in Keys : C[key] = K(key)
      OBVIOUS
    <3>3. C \in [Keys -> SUBSET cycle]
      BY DEF OfKey
    <3> HIDE DEF K, h, C
    <3> QED BY <1>12, <3>1, <3>2, <3>3
  <2> HIDE DEF h, C
  <2>4. SumFunctionOnSet(got, cycle) = SumFunctionOnSet(g, Keys)
    <3>1. IsFiniteSet(cycle) /\ IsFiniteSet(Keys)
      BY <1>1
    <3> QED BY <2>2, <2>3, <3>1, SumClasses
  <2> QED BY <2>1, <2>4
<1>14. \A key \in Keys : g[key] <= T[key]
  BY <1>8, <1>12
<1>15. SumFunctionOnSet(g, Keys) <= amount
  <2>1. CASE need <= amount
    <3>1. \A key \in Keys : g[key] \in Int /\ floors[key] \in Int /\ g[key] <= floors[key]
      BY <1>2, <1>4, <1>12, <1>14, <2>1
    <3>2. SumFunctionOnSet(g, Keys) <= SumFunctionOnSet(floors, Keys)
      BY <1>1, <3>1, SumLeq
    <3>3. SumFunctionOnSet(g, Keys) \in Int
      BY <1>1, <3>1, SumInt
    <3> HIDE DEF need
    <3> QED BY <1>3, <2>1, <3>2, <3>3
  <2>2. CASE need > amount
    <3>1. \A key \in Keys : floors[key] \in Nat /\ g[key] \in Nat
      BY <1>2, <1>12
    <3>2. \A key \in Keys : g[key] <= (amount * floors[key]) \div need
      <4> SUFFICES ASSUME NEW key \in Keys
                   PROVE  g[key] <= (amount * floors[key]) \div need
        OBVIOUS
      <4>1. T[key] <= (amount * floors[key]) \div need /\ T[key] \in Nat
        BY <1>4, <2>2
      <4>2. g[key] <= T[key] /\ g[key] \in Nat
        BY <1>12, <1>14
      <4>3. (amount * floors[key]) \div need \in Nat
        <5> HIDE DEF need
        <5> QED BY <1>3, <2>2, <3>1, Ratio
      <4> HIDE DEF need
      <4> QED BY <4>1, <4>2, <4>3
    <3>3. need \in Nat \ {0}
      <4> HIDE DEF need
      <4> QED BY <1>3, <2>2
    <3> HIDE DEF need
    <3> QED BY <1>1, <1>3, <3>1, <3>2, <3>3, SumOfShares
  <2> HIDE DEF need
  <2> QED BY <1>3, <2>1, <2>2
<1>16. ASSUME NEW key \in Keys
       PROVE  /\ SumFunctionOnSet(got, K(key)) <= floors[key]
              /\ need <= amount => SumFunctionOnSet(got, K(key)) = floors[key]
  <2>1. /\ T[key] \in Nat /\ T[key] <= floors[key] /\ floors[key] \in Nat
        /\ g[key] = SumFunctionOnSet(got, K(key)) /\ g[key] \in Nat /\ g[key] <= T[key]
    BY <1>2, <1>4, <1>12, <1>14
  <2>2. need <= amount => T[key] = floors[key] /\ T[key] <= Requested(K(key))
    BY <1>2, <1>4
  <2>3. need <= amount => SumFunctionOnSet(got, K(key)) = T[key]
    BY <1>8, <2>2
  <2> HIDE DEF need, K
  <2> QED BY <2>1, <2>2, <2>3
<1> QED BY <1>6, <1>10, <1>11, <1>13, <1>15, <1>16 DEF got

------------------------------------------------------------------------------
(* allocate_line: the stages together *)

\* Everybody gets whole units, and no more than was requested.
GotFits(in, D, got) ==
  /\ DOMAIN got = D
  /\ \A d \in D : got[d] \in Nat /\ got[d] <= d.requested /\ got[d] % UnitOf(in, d.ref) = 0

MarginOf(in, d) == in.margins[KeyOf[d.ref].item]

LEMMA AfterFloorsMeans ==
  ASSUME NEW in, IsLineInputs(in), NEW cycle, WholeSet(in, cycle),
         NEW floored, GotFits(in, cycle, floored),
         NEW amount \in Nat, SumFunction(floored) <= amount
  PROVE  LET got == AfterFloors(in, floored, amount) IN
         /\ GotFits(in, cycle, got)
         /\ SumFunction(got) <= amount
         /\ \A d \in cycle : floored[d] <= got[d]
         /\ \A d, e \in cycle :
              got[d] < d.requested /\ MarginOf(in, d) > MarginOf(in, e) => got[e] = floored[e]
<1> DEFINE rest == amount - SumFunction(floored)
           S == {e \in cycle : e.requested > floored[e]}
           want == [d \in S |-> d.requested - floored[d]]
           rank == [d \in cycle |-> -in.margins[KeyOf[d.ref].item]]
           more == InTurn(in, want, rank, rest)
           ext == [d \in cycle |-> IF d \in S THEN more[d] ELSE 0]
           got == AfterFloors(in, floored, amount)
<1>1. /\ IsFiniteSet(cycle) /\ cycle \subseteq Demand /\ DOMAIN floored = cycle
      /\ IsFiniteSet(S) /\ S \subseteq cycle
  BY FS_Subset DEF WholeSet, GotFits
<1>2. \A d \in cycle : /\ floored[d] \in Nat /\ floored[d] <= d.requested
                       /\ d.requested \in Nat
                       /\ floored[d] % UnitOf(in, d.ref) = 0
                       /\ d.requested % UnitOf(in, d.ref) = 0
                       /\ UnitOf(in, d.ref) \in Nat \ {0}
                       /\ MarginOf(in, d) \in Int
  <2>1. \A d \in cycle : /\ floored[d] \in Nat /\ floored[d] <= d.requested
                         /\ floored[d] % UnitOf(in, d.ref) = 0
                         /\ d.requested % UnitOf(in, d.ref) = 0
    BY DEF WholeSet, GotFits
  <2>2. \A d \in cycle : d.requested \in Nat /\ d.ref \in Refs
    BY <1>1 DEF Demand
  <2>3. \A d \in cycle : UnitOf(in, d.ref) \in Nat \ {0}
    BY <2>2, UnitsOf
  <2>4. \A d \in cycle : MarginOf(in, d) \in Int
    BY <2>2 DEF MarginOf, IsLineInputs, Keys, Items
  <2> QED BY <2>1, <2>2, <2>3, <2>4
<1>3. SumFunction(floored) \in Nat /\ rest \in Nat
  <2>1. SumFunction(floored) \in Nat
    BY <1>1, <1>2, SumNat DEF SumFunction
  <2> QED BY <2>1
<1>4. DOMAIN want = S /\ \A d \in S : /\ want[d] \in Nat /\ want[d] = d.requested - floored[d]
                                      /\ want[d] % UnitOf(in, d.ref) = 0
                                      /\ rank[d] \in Int
  <2> SUFFICES ASSUME NEW d \in S
               PROVE  /\ want[d] \in Nat /\ want[d] = d.requested - floored[d]
                      /\ want[d] % UnitOf(in, d.ref) = 0 /\ rank[d] \in Int
    OBVIOUS
  <2>1. want[d] = d.requested - floored[d] /\ rank[d] = -MarginOf(in, d) /\ d \in cycle
    BY <1>1 DEF MarginOf
  <2>2. d.requested \in Int /\ floored[d] \in Int /\ d.requested - floored[d] \in Nat
    BY <1>2, <2>1
  <2>3. (d.requested - floored[d]) % UnitOf(in, d.ref) = 0
    BY <1>2, <2>1, <2>2, Multiples
  <2> HIDE DEF want, rank
  <2> QED BY <1>2, <2>1, <2>2, <2>3
<1>5. \A d \in cycle : rank[d] = -MarginOf(in, d)
  BY DEF MarginOf
<1>6. ByMargin(in, floored, rest) = more
  <2>1. DOMAIN floored = cycle
    BY <1>1
  <2> QED BY <2>1 DEF ByMargin
<1> HIDE DEF want, rank
<1>7. /\ DOMAIN more = S
      /\ \A d \in S : more[d] \in Nat /\ more[d] <= want[d] /\ more[d] % UnitOf(in, d.ref) = 0
      /\ SumFunction(more) <= rest
      /\ \A d, e \in S : more[d] < want[d] /\ rank[d] < rank[e] => more[e] = 0
  <2>1. IsFiniteSet(DOMAIN want) /\ DOMAIN want \subseteq Demand /\ rest \in Int /\ rest >= 0
    BY <1>1, <1>3, <1>4
  <2>2. \A d \in DOMAIN want :
          want[d] \in Nat /\ want[d] % UnitOf(in, d.ref) = 0 /\ rank[d] \in Int
    BY <1>4
  <2> HIDE DEF rest, S
  <2> QED BY <1>4, <2>1, <2>2, InTurnMeans
<1> HIDE DEF more
<1>8. DOMAIN got = cycle /\ \A d \in cycle : got[d] = floored[d] + ext[d]
  <2>1. got = Plus(floored, more)
    BY <1>6 DEF AfterFloors
  <2> HIDE DEF got, S
  <2> QED BY <1>1, <1>7, <2>1 DEF Plus
<1>9. \A d \in cycle : /\ d \in S => ext[d] = more[d]
                       /\ d \notin S => ext[d] = 0
                       /\ ext[d] \in Nat /\ floored[d] + ext[d] <= d.requested
                       /\ ext[d] % UnitOf(in, d.ref) = 0
  <2> SUFFICES ASSUME NEW d \in cycle
               PROVE  /\ d \in S => ext[d] = more[d]
                      /\ d \notin S => ext[d] = 0
                      /\ ext[d] \in Nat /\ floored[d] + ext[d] <= d.requested
                      /\ ext[d] % UnitOf(in, d.ref) = 0
    OBVIOUS
  <2>1. (d \in S => ext[d] = more[d]) /\ (d \notin S => ext[d] = 0)
    OBVIOUS
  <2> HIDE DEF ext
  <2>2. CASE d \in S
    <3>1. /\ more[d] \in Nat /\ more[d] <= want[d] /\ more[d] % UnitOf(in, d.ref) = 0
          /\ want[d] = d.requested - floored[d]
      BY <1>4, <1>7, <2>2
    <3>2. floored[d] \in Nat /\ d.requested \in Nat
      BY <1>2
    <3> HIDE DEF S
    <3> QED BY <2>1, <2>2, <3>1, <3>2
  <2>3. CASE d \notin S
    <3>1. 0 % UnitOf(in, d.ref) = 0
      BY <1>2
    <3> QED BY <1>2, <2>1, <2>3, <3>1
  <2> QED BY <2>2, <2>3
<1>10. GotFits(in, cycle, got)
  <2> SUFFICES ASSUME NEW d \in cycle
               PROVE  /\ got[d] \in Nat /\ got[d] <= d.requested
                      /\ got[d] % UnitOf(in, d.ref) = 0
    BY <1>8 DEF GotFits
  <2>1. got[d] = floored[d] + ext[d] /\ ext[d] \in Nat /\ floored[d] \in Nat
    BY <1>2, <1>8, <1>9
  <2>2. /\ ext[d] % UnitOf(in, d.ref) = 0 /\ floored[d] % UnitOf(in, d.ref) = 0
        /\ UnitOf(in, d.ref) \in Nat \ {0} /\ floored[d] + ext[d] <= d.requested
    BY <1>2, <1>9
  <2> HIDE DEF ext, got
  <2>3. (floored[d] + ext[d]) % UnitOf(in, d.ref) = 0
    <3>1. floored[d] \in Int /\ ext[d] \in Int
      BY <2>1
    <3> QED BY <2>2, <3>1, Multiples
  <2> QED BY <2>1, <2>2, <2>3
<1>11. SumFunction(got) <= amount
  <2>1. SumFunction(got) = SumFunctionOnSet(got, cycle)
    BY <1>8 DEF SumFunction
  <2>2. SumFunctionOnSet(got, cycle)
          = SumFunctionOnSet(floored, cycle) + SumFunctionOnSet(ext, cycle)
    <3>1. \A d \in cycle : floored[d] \in Int /\ ext[d] \in Int /\ got[d] = floored[d] + ext[d]
      <4>1. \A d \in cycle : floored[d] \in Nat /\ ext[d] \in Nat
        BY <1>2, <1>9
      <4> HIDE DEF ext, got
      <4> QED BY <1>8, <4>1
    <3> HIDE DEF ext, got
    <3> QED BY <1>1, <3>1, SumPlus
  <2>3. SumFunctionOnSet(ext, cycle) = SumFunctionOnSet(more, S)
    <3>1. S \in SUBSET cycle /\ \A d \in S : more[d] \in Int /\ ext[d] = more[d]
      <4>1. \A d \in S : more[d] \in Nat /\ ext[d] = more[d]
        BY <1>7, <1>9
      <4> HIDE DEF ext
      <4> QED BY <1>1, <4>1
    <3>2. \A d \in cycle \ S : ext[d] = 0
      OBVIOUS
    <3> HIDE DEF ext, S
    <3> QED BY <1>1, <3>1, <3>2, SumWithin
  <2>4. SumFunctionOnSet(more, S) = SumFunction(more) /\ SumFunctionOnSet(more, S) \in Int
    <3>1. SumFunctionOnSet(more, S) = SumFunction(more)
      BY <1>7 DEF SumFunction
    <3>2. \A d \in S : more[d] \in Int
      <4>1. \A d \in S : more[d] \in Nat
        BY <1>7
      <4> QED BY <4>1
    <3> HIDE DEF S
    <3> QED BY <1>1, <3>1, <3>2, SumInt
  <2>5. SumFunctionOnSet(floored, cycle) = SumFunction(floored)
    BY <1>1 DEF SumFunction
  <2>6. SumFunction(more) <= amount - SumFunction(floored)
    BY <1>7
  <2> HIDE DEF S, ext, got
  <2> QED BY <1>3, <2>1, <2>2, <2>3, <2>4, <2>5, <2>6
<1>12. \A d \in cycle : floored[d] <= got[d]
  <2> SUFFICES ASSUME NEW d \in cycle
               PROVE  floored[d] <= got[d]
    OBVIOUS
  <2>1. got[d] = floored[d] + ext[d] /\ ext[d] \in Nat /\ floored[d] \in Nat
    BY <1>2, <1>8, <1>9
  <2> HIDE DEF ext, got
  <2> QED BY <2>1
<1>13. ASSUME NEW d \in cycle, NEW e \in cycle, got[d] < d.requested,
              MarginOf(in, d) > MarginOf(in, e)
       PROVE  got[e] = floored[e]
  <2>1. /\ got[d] = floored[d] + ext[d] /\ ext[d] \in Nat /\ floored[d] \in Nat
        /\ got[e] = floored[e] + ext[e] /\ floored[e] \in Nat
        /\ d.requested \in Nat
    BY <1>2, <1>8, <1>9
  <2>2. d \in S
    <3>1. floored[d] < d.requested
      <4> HIDE DEF ext, got
      <4> QED BY <1>13, <2>1
    <3> QED BY <3>1, <1>2
  <2>3. more[d] < want[d]
    <3>1. ext[d] = more[d] /\ want[d] = d.requested - floored[d]
      BY <1>4, <2>2
    <3> HIDE DEF ext, got, S
    <3> QED BY <1>13, <2>1, <3>1
  <2>4. rank[d] < rank[e]
    <3>1. rank[d] = -MarginOf(in, d) /\ rank[e] = -MarginOf(in, e)
      BY <1>5
    <3>2. MarginOf(in, d) \in Int /\ MarginOf(in, e) \in Int
      BY <1>2
    <3> QED BY <1>13, <3>1, <3>2
  <2>5. ext[e] = 0
    <3>1. e \in S => more[e] = 0
      BY <1>7, <2>2, <2>3, <2>4
    <3> QED BY <3>1
  <2> HIDE DEF ext, got
  <2> QED BY <2>1, <2>5
<1> QED BY <1>10, <1>11, <1>12, <1>13

------------------------------------------------------------------------------
(* The division of a line *)

LEMMA SumOver ==
  ASSUME NEW f, NEW g, IsFiniteSet(DOMAIN f), IsFiniteSet(DOMAIN g),
         DOMAIN f \cap DOMAIN g = {},
         \A x \in DOMAIN f : f[x] \in Int, \A x \in DOMAIN g : g[x] \in Int
  PROVE  /\ SumFunction(Over(f, g)) = SumFunction(f) + SumFunction(g)
         /\ \A A \in SUBSET DOMAIN g :
              SumFunctionOnSet(Over(f, g), A) = SumFunctionOnSet(g, A)
<1> DEFINE h == Over(f, g)
           F == DOMAIN f
           G == DOMAIN g
<1>1. /\ DOMAIN h = F \cup G
      /\ \A x \in F : h[x] = f[x]
      /\ \A x \in G : h[x] = g[x]
  <2>1. /\ DOMAIN h = DOMAIN f \cup DOMAIN g
        /\ \A x \in DOMAIN f : h[x] = f[x]
        /\ \A x \in DOMAIN g \ DOMAIN f : h[x] = g[x]
    BY OverMeans
  <2> HIDE DEF h
  <2> QED BY <2>1
<1>2. \A x \in F \cup G : h[x] \in Int
  BY <1>1
<1>3. \A A \in SUBSET G : SumFunctionOnSet(h, A) = SumFunctionOnSet(g, A)
  <2> SUFFICES ASSUME NEW A \in SUBSET G
               PROVE  SumFunctionOnSet(h, A) = SumFunctionOnSet(g, A)
    OBVIOUS
  <2>1. IsFiniteSet(A)
    BY FS_Subset
  <2>2. \A x \in A : h[x] \in Int /\ h[x] = g[x]
    BY <1>1, <1>2
  <2> HIDE DEF h
  <2> QED BY <2>1, <2>2, SumSame
<1>4. SumFunctionOnSet(h, F) = SumFunctionOnSet(f, F)
  <2>1. \A x \in F : h[x] \in Int /\ h[x] = f[x]
    BY <1>1, <1>2
  <2> HIDE DEF h
  <2> QED BY <2>1, SumSame
<1>5. SumFunctionOnSet(h, F \cup G) = SumFunctionOnSet(h, F) + SumFunctionOnSet(h, G)
  <2> HIDE DEF h
  <2> QED BY <1>2, SumSplit
<1>6. SumFunction(h) = SumFunctionOnSet(h, F \cup G)
  BY <1>1 DEF SumFunction
<1>7. SumFunction(f) = SumFunctionOnSet(f, F) /\ SumFunction(g) = SumFunctionOnSet(g, G)
  BY DEF SumFunction
<1> QED BY <1>3, <1>4, <1>5, <1>6, <1>7

\* What the demands that are not settled get: never more than is available; all
\* that is overdue and every floor unless they exceed it; the oldest and the
\* higher margins first.
LEMMA StagesMean ==
  ASSUME NEW in, IsLineInputs(in), NEW overdue, WholeSet(in, overdue),
         NEW cycle, WholeSet(in, cycle), OneRef(cycle), overdue \cap cycle = {},
         NEW floors, FloorsFit(in, cycle, floors), NEW available \in Nat
  PROVE  LET got == Stages(in, Late(in, overdue, available), cycle, floors, available) IN
         /\ GotFits(in, overdue \cup cycle, got)
         /\ SumFunction(got) <= available
         /\ ~Exceeds(overdue, floors, available) =>
              /\ \A d \in overdue : got[d] = d.requested
              /\ \A key \in Keys : floors[key] <= SumFunctionOnSet(got, OfKey(cycle, key))
         /\ \A d, e \in overdue : got[d] < d.requested /\ d.due < e.due => got[e] = 0
         /\ \A d, e \in cycle :
              got[d] < d.requested /\ MarginOf(in, d) > MarginOf(in, e) =>
                SumFunctionOnSet(got, OfKey(cycle, KeyOf[e.ref])) <= floors[KeyOf[e.ref]]
<1> DEFINE want == [d \in overdue |-> d.requested]
           rank == [d \in overdue |-> d.due]
           late == Late(in, overdue, available)
           amount == available - SumFunction(late)
           floored == FillFloors(in, cycle, floors, SumFunction(floors), amount)
           after == AfterFloors(in, floored, amount)
           got == Stages(in, late, cycle, floors, available)
<1>1. /\ IsFiniteSet(overdue) /\ IsFiniteSet(cycle)
      /\ overdue \subseteq Demand /\ cycle \subseteq Demand
      /\ \A d \in overdue \cup cycle : d.requested % UnitOf(in, d.ref) = 0
  BY DEF WholeSet
<1>2. /\ DOMAIN want = overdue
      /\ \A d \in overdue : want[d] = d.requested /\ rank[d] = d.due
      /\ \A d \in DOMAIN want :
           want[d] \in Nat /\ want[d] % UnitOf(in, d.ref) = 0 /\ rank[d] \in Int
  BY <1>1 DEF Demand
<1>3. late = InTurn(in, want, rank, available) /\ SumFunction(want) = Requested(overdue)
  BY DEF Late, Requested
<1>4. /\ DOMAIN late = overdue
      /\ \A d \in overdue :
           late[d] \in Nat /\ late[d] <= d.requested /\ late[d] % UnitOf(in, d.ref) = 0
      /\ SumFunction(late) <= available
      /\ Requested(overdue) <= available => \A d \in overdue : late[d] = d.requested
      /\ \A d, e \in overdue : late[d] < d.requested /\ d.due < e.due => late[e] = 0
  <2>1. available \in Int /\ available >= 0 /\ IsFiniteSet(DOMAIN want)
        /\ DOMAIN want \subseteq Demand
    BY <1>1, <1>2
  <2> HIDE DEF want, rank
  <2>2. /\ DOMAIN late = DOMAIN want
        /\ \A d \in DOMAIN want :
             late[d] \in Nat /\ late[d] <= want[d] /\ late[d] % UnitOf(in, d.ref) = 0
        /\ SumFunction(late) <= available
        /\ SumFunction(want) <= available => \A d \in DOMAIN want : late[d] = want[d]
        /\ \A d, e \in DOMAIN want : late[d] < want[d] /\ rank[d] < rank[e] => late[e] = 0
    BY <1>2, <1>3, <2>1, InTurnMeans
  <2> HIDE DEF late
  <2> QED BY <1>2, <1>3, <2>2
<1>5. SumFunction(late) \in Nat /\ amount \in Nat
  <2>1. \A d \in overdue : late[d] \in Nat
    BY <1>4
  <2>2. SumFunctionOnSet(late, overdue) \in Nat
    <3> HIDE DEF late
    <3> QED BY <1>1, <2>1, SumNat
  <2>3. SumFunction(late) \in Nat
    BY <1>4, <2>2 DEF SumFunction
  <2> HIDE DEF late
  <2> QED BY <1>4, <2>3
<1> HIDE DEF late, amount
<1>6. /\ DOMAIN floored = cycle
      /\ GotFits(in, cycle, floored)
      /\ SumFunction(floored) <= amount
      /\ \A key \in Keys :
           /\ SumFunctionOnSet(floored, OfKey(cycle, key)) <= floors[key]
           /\ SumFunction(floors) <= amount
                => SumFunctionOnSet(floored, OfKey(cycle, key)) = floors[key]
  BY <1>5, FillFloorsMeans DEF GotFits
<1> HIDE DEF floored
<1>7. /\ GotFits(in, cycle, after)
      /\ SumFunction(after) <= amount
      /\ \A d \in cycle : floored[d] <= after[d]
      /\ \A d, e \in cycle :
           after[d] < d.requested /\ MarginOf(in, d) > MarginOf(in, e) => after[e] = floored[e]
  BY <1>5, <1>6, AfterFloorsMeans
<1>8. got = Over(late, after)
  BY DEF Stages, AfterLate, after, amount, floored
<1> HIDE DEF after, got
<1>9. /\ DOMAIN after = cycle
      /\ \A d \in cycle : /\ after[d] \in Nat /\ after[d] <= d.requested
                          /\ after[d] % UnitOf(in, d.ref) = 0
                          /\ floored[d] \in Nat
  BY <1>6, <1>7 DEF GotFits
<1>10. /\ DOMAIN got = overdue \cup cycle
       /\ \A d \in overdue : got[d] = late[d]
       /\ \A d \in cycle : got[d] = after[d]
  <2>1. /\ DOMAIN got = DOMAIN late \cup DOMAIN after
        /\ \A d \in DOMAIN late : got[d] = late[d]
        /\ \A d \in DOMAIN after \ DOMAIN late : got[d] = after[d]
    <3>1. /\ DOMAIN Over(late, after) = DOMAIN late \cup DOMAIN after
          /\ \A d \in DOMAIN late : Over(late, after)[d] = late[d]
          /\ \A d \in DOMAIN after \ DOMAIN late : Over(late, after)[d] = after[d]
      BY OverMeans
    <3> QED BY <1>8, <3>1
  <2> QED BY <1>4, <1>9, <2>1
<1>11. GotFits(in, overdue \cup cycle, got)
  BY <1>4, <1>9, <1>10 DEF GotFits
<1>12. SumFunction(got) = SumFunction(late) + SumFunction(after)
  <2>1. /\ \A d \in DOMAIN late : late[d] \in Int
        /\ \A d \in DOMAIN after : after[d] \in Int
    BY <1>4, <1>9
  <2> QED BY <1>1, <1>4, <1>8, <1>9, <2>1, SumOver
<1>13. SumFunction(after) \in Nat
  <2>1. SumFunctionOnSet(after, cycle) \in Nat
    BY <1>1, <1>9, SumNat
  <2> QED BY <1>9, <2>1 DEF SumFunction
<1>14. SumFunction(got) <= available
  BY <1>5, <1>7, <1>12, <1>13 DEF amount
<1>15. \A key : SumFunctionOnSet(got, OfKey(cycle, key)) = SumFunctionOnSet(after, OfKey(cycle, key))
  <2> SUFFICES ASSUME NEW key
               PROVE  SumFunctionOnSet(got, OfKey(cycle, key))
                        = SumFunctionOnSet(after, OfKey(cycle, key))
    OBVIOUS
  <2> DEFINE K == OfKey(cycle, key)
  <2>1. K \subseteq cycle
    BY DEF OfKey
  <2>2. IsFiniteSet(K)
    BY <1>1, <2>1, FS_Subset
  <2>3. \A d \in K : got[d] \in Int /\ got[d] = after[d]
    BY <1>9, <1>10, <2>1
  <2> HIDE DEF K
  <2>4. SumFunctionOnSet(got, K) = SumFunctionOnSet(after, K)
    BY <2>2, <2>3, SumSame
  <2> QED BY <2>4 DEF K
<1>16. ASSUME ~Exceeds(overdue, floors, available)
       PROVE  /\ \A d \in overdue : got[d] = d.requested
              /\ \A key \in Keys : floors[key] <= SumFunctionOnSet(got, OfKey(cycle, key))
  <2>1. Requested(overdue) + SumFunction(floors) <= available
        /\ SumFunction(floors) \in Nat /\ Requested(overdue) \in Nat
    <3>1. SumFunction(floors) \in Nat
      <4>1. DOMAIN floors = Keys /\ \A key \in Keys : floors[key] \in Nat
        BY DEF FloorsFit
      <4>2. SumFunctionOnSet(floors, Keys) \in Nat
        BY <4>1, Finiteness, SumNat
      <4> QED BY <4>1, <4>2 DEF SumFunction
    <3>2. Requested(overdue) \in Nat
      <4>1. \A d \in overdue : want[d] = d.requested
        BY <1>2
      <4> HIDE DEF want
      <4> QED BY <1>1, <4>1, RequestedIs
    <3> QED BY <1>16, <3>1, <3>2 DEF Exceeds
  <2>2. \A d \in overdue : late[d] = d.requested
    BY <1>4, <2>1
  <2>3. SumFunction(floors) <= amount
    <3>1. SumFunction(late) = Requested(overdue)
      <4>1. SumFunction(late) = SumFunctionOnSet(late, overdue)
        BY <1>4 DEF SumFunction
      <4> QED BY <1>1, <2>2, <4>1, RequestedIs
    <3> QED BY <2>1, <3>1 DEF amount
  <2>4. ASSUME NEW key \in Keys
        PROVE  floors[key] <= SumFunctionOnSet(got, OfKey(cycle, key))
    <3> DEFINE K == OfKey(cycle, key)
    <3>1. K \subseteq cycle
      BY DEF OfKey
    <3>2. IsFiniteSet(K)
      BY <1>1, <3>1, FS_Subset
    <3>3. \A d \in K : floored[d] \in Int /\ after[d] \in Int /\ floored[d] <= after[d]
      BY <1>7, <1>9, <3>1
    <3>4. SumFunctionOnSet(floored, K) = floors[key]
      BY <1>6, <2>3
    <3>5. SumFunctionOnSet(got, K) = SumFunctionOnSet(after, K)
      BY <1>15
    <3> HIDE DEF K
    <3>6. SumFunctionOnSet(floored, K) <= SumFunctionOnSet(after, K)
      BY <3>2, <3>3, SumLeq
    <3>7. floors[key] <= SumFunctionOnSet(got, K)
      BY <3>4, <3>5, <3>6
    <3> QED BY <3>7 DEF K
  <2> QED BY <1>10, <2>2, <2>4
<1>17. \A d, e \in overdue : got[d] < d.requested /\ d.due < e.due => got[e] = 0
  BY <1>4, <1>10
<1>18. ASSUME NEW d \in cycle, NEW e \in cycle, got[d] < d.requested,
              MarginOf(in, d) > MarginOf(in, e)
       PROVE  SumFunctionOnSet(got, OfKey(cycle, KeyOf[e.ref])) <= floors[KeyOf[e.ref]]
  <2> DEFINE key == KeyOf[e.ref]
             K == OfKey(cycle, key)
  <2>1. K \subseteq cycle /\ \A x \in K : KeyOf[x.ref] = KeyOf[e.ref]
    BY DEF OfKey
  <2>2. IsFiniteSet(K)
    BY <1>1, <2>1, FS_Subset
  <2>3. \A x \in K : MarginOf(in, x) = MarginOf(in, e)
    BY <2>1 DEF MarginOf
  <2>4. \A x \in K : after[x] = floored[x] /\ floored[x] \in Int
    BY <1>7, <1>9, <1>10, <1>18, <2>1, <2>3
  <2>5. key \in Keys
    BY <1>1 DEF Keys, Demand
  <2>6. SumFunctionOnSet(got, K) = SumFunctionOnSet(after, K)
    BY <1>15
  <2>7. SumFunctionOnSet(floored, K) <= floors[key]
    BY <1>6, <2>5
  <2> HIDE DEF K
  <2>8. SumFunctionOnSet(floored, K) = SumFunctionOnSet(after, K)
    BY <2>2, <2>4, SumSame
  <2>9. SumFunctionOnSet(got, K) <= floors[key]
    BY <2>6, <2>7, <2>8
  <2> QED BY <2>9 DEF K
<1>19. QED
  BY <1>11, <1>14, <1>16, <1>17, <1>18 DEF got, late

LateOf(D) == {d \in D : Overdue(d)}
CycleOf(D) == {d \in D : ~Overdue(d)}

\* The older comes first, and the higher margin.
Ranked(in, got, open) ==
  /\ \A d, e \in LateOf(open) : got[d] < d.requested /\ d.due < e.due => got[e] = 0
  /\ \A d, e \in CycleOf(open) :
       got[d] < d.requested /\ MarginOf(in, d) > MarginOf(in, e) =>
         SumFunctionOnSet(got, OfKey(CycleOf(open), KeyOf[e.ref]))
           <= ContractFloors(in, CycleOf(open))[KeyOf[e.ref]]

\* What is owed to the demands `open' is given.
Served(in, got, open) ==
  /\ \A d \in LateOf(open) : got[d] = d.requested
  /\ \A key \in Keys : ContractFloors(in, CycleOf(open))[key]
                         <= SumFunctionOnSet(got, OfKey(CycleOf(open), key))

LEMMA WholeSubset ==
  ASSUME NEW in, NEW D, WholeSet(in, D), NEW A, A \subseteq D
  PROVE  WholeSet(in, A) /\ (OneRef(D) => OneRef(A))
<1>1. IsFiniteSet(A)
  BY FS_Subset DEF WholeSet
<1> QED BY <1>1 DEF WholeSet, OneRef

LEMMA GotSum ==
  ASSUME NEW in, NEW D, IsFiniteSet(D), NEW got, GotFits(in, D, got)
  PROVE  SumFunction(got) \in Nat /\ SumFunction(got) = SumFunctionOnSet(got, D)
<1>1. DOMAIN got = D /\ \A d \in D : got[d] \in Nat
  BY DEF GotFits
<1>2. SumFunctionOnSet(got, D) \in Nat
  BY <1>1, SumNat
<1> QED BY <1>1, <1>2 DEF SumFunction

\* What stands is kept, nobody gets more than he asks for, no more is given than
\* there is; and a line that is divided serves what is owed.
LEMMA DivideMeans ==
  ASSUME NEW in, IsLineInputs(in), NEW how, NEW open, WholeSet(in, open), OneRef(open),
         NEW settled, NEW S, WholeSet(in, S), GotFits(in, S, settled), S \cap open = {},
         SumFunction(settled) <= Supply(in)
  PROVE  LET result == Divide(in, how, settled, open)
             got == result.got
         IN /\ result.outcome \in {"allocated", "commitments_exceed_capacity"}
            /\ result.outcome # "allocated" => got = << >>
            /\ result.outcome = "allocated" =>
                 /\ GotFits(in, S \cup open, got)
                 /\ SumFunction(got) <= Supply(in)
                 /\ \A d \in S : got[d] = settled[d]
                 /\ how = "intervention" => Served(in, got, open)
                 /\ Ranked(in, got, open)
<1> DEFINE overdue == LateOf(open)
           cycle == CycleOf(open)
           floors == ContractFloors(in, cycle)
           available == Supply(in) - SumFunction(settled)
           late == Late(in, overdue, available)
           rest == Stages(in, late, cycle, floors, available)
           result == Divide(in, how, settled, open)
           got == Over(settled, rest)
<1>1. result = IF Exceeds(overdue, floors, available) /\ how = "intervention"
               THEN Outcome("commitments_exceed_capacity", << >>)
               ELSE Outcome("allocated", got)
  BY DEF Divide, DivideOpen, LateOf, CycleOf
<1>2. /\ overdue \subseteq open /\ cycle \subseteq open /\ overdue \cap cycle = {}
      /\ overdue \cup cycle = open
  BY DEF LateOf, CycleOf
<1>3. WholeSet(in, overdue) /\ WholeSet(in, cycle) /\ OneRef(cycle)
  BY <1>2, WholeSubset
<1>4. IsFiniteSet(S) /\ IsFiniteSet(open) /\ IsFiniteSet(cycle) /\ cycle \subseteq Demand
      /\ \A d \in cycle : d.requested % UnitOf(in, d.ref) = 0
  BY <1>3 DEF WholeSet
<1>5. FloorsFit(in, cycle, floors)
  BY <1>4, ContractFloorsFit
<1>6. SumFunction(settled) \in Nat /\ available \in Nat
  <2>1. SumFunction(settled) \in Nat
    BY <1>4, GotSum
  <2> QED BY <2>1, SupplyType
<1> HIDE DEF overdue, cycle, floors, available
<1>7. /\ GotFits(in, overdue \cup cycle, rest)
      /\ SumFunction(rest) <= available
      /\ ~Exceeds(overdue, floors, available) =>
           /\ \A d \in overdue : rest[d] = d.requested
           /\ \A key \in Keys : floors[key] <= SumFunctionOnSet(rest, OfKey(cycle, key))
      /\ \A d, e \in overdue : rest[d] < d.requested /\ d.due < e.due => rest[e] = 0
      /\ \A d, e \in cycle :
           rest[d] < d.requested /\ MarginOf(in, d) > MarginOf(in, e) =>
             SumFunctionOnSet(rest, OfKey(cycle, KeyOf[e.ref])) <= floors[KeyOf[e.ref]]
  BY <1>2, <1>3, <1>5, <1>6, StagesMean
<1> HIDE DEF rest, late
<1>7a. GotFits(in, open, rest)
  BY <1>2, <1>7
<1>8. /\ DOMAIN settled = S /\ \A d \in S : settled[d] \in Int
      /\ DOMAIN rest = open /\ \A d \in open : rest[d] \in Int
  <2>1. \A d \in S : settled[d] \in Nat
    BY DEF GotFits
  <2>2. \A d \in open : rest[d] \in Nat
    BY <1>7a DEF GotFits
  <2> QED BY <1>7a, <2>1, <2>2 DEF GotFits
<1>9. /\ DOMAIN got = S \cup open
      /\ \A d \in S : got[d] = settled[d]
      /\ \A d \in open : got[d] = rest[d]
  <2>1. /\ DOMAIN got = DOMAIN settled \cup DOMAIN rest
        /\ \A d \in DOMAIN settled : got[d] = settled[d]
        /\ \A d \in DOMAIN rest \ DOMAIN settled : got[d] = rest[d]
    BY OverMeans
  <2> HIDE DEF got
  <2> QED BY <1>8, <2>1
<1>10. SumFunction(got) = SumFunction(settled) + SumFunction(rest)
       /\ \A A \in SUBSET open : SumFunctionOnSet(got, A) = SumFunctionOnSet(rest, A)
  BY <1>4, <1>8, SumOver
<1> HIDE DEF got
<1>11. GotFits(in, S \cup open, got)
  BY <1>7a, <1>9 DEF GotFits
<1>12. SumFunction(got) <= Supply(in)
  <2>1. SumFunction(rest) \in Nat
    BY <1>4, <1>7a, GotSum
  <2>2. Supply(in) \in Nat
    BY SupplyType
  <2> QED BY <1>6, <1>7, <1>10, <2>1, <2>2 DEF available
<1>13. \A key : SumFunctionOnSet(got, OfKey(cycle, key))
                  = SumFunctionOnSet(rest, OfKey(cycle, key))
  <2>1. \A key : OfKey(cycle, key) \subseteq open
    BY <1>2 DEF OfKey
  <2> QED BY <1>10, <2>1
<1>14. Ranked(in, got, open)
  <2>1. \A d, e \in overdue : got[d] < d.requested /\ d.due < e.due => got[e] = 0
    BY <1>2, <1>7, <1>9
  <2>2. \A d, e \in cycle :
          got[d] < d.requested /\ MarginOf(in, d) > MarginOf(in, e) =>
             SumFunctionOnSet(got, OfKey(cycle, KeyOf[e.ref])) <= floors[KeyOf[e.ref]]
    <3>1. \A d \in cycle : got[d] = rest[d]
      BY <1>2, <1>9
    <3> QED BY <1>7, <1>13, <3>1
  <2> QED BY <2>1, <2>2 DEF Ranked, overdue, cycle, floors
<1>15. ASSUME ~Exceeds(overdue, floors, available)
       PROVE  Served(in, got, open)
  <2>1. \A d \in overdue : got[d] = d.requested
    BY <1>2, <1>7, <1>9, <1>15
  <2>2. \A key \in Keys : floors[key] <= SumFunctionOnSet(got, OfKey(cycle, key))
    BY <1>7, <1>13, <1>15
  <2> QED BY <2>1, <2>2 DEF Served, overdue, cycle, floors
<1>16. /\ result.outcome \in {"allocated", "commitments_exceed_capacity"}
       /\ result.outcome # "allocated" => result.got = << >>
       /\ result.outcome = "allocated" => result.got = got
       /\ result.outcome = "allocated" /\ how = "intervention"
            => ~Exceeds(overdue, floors, available)
  <2> HIDE DEF result
  <2> QED BY <1>1 DEF Outcome
<1> HIDE DEF result
<1>17. /\ result.outcome = "allocated" =>
            /\ GotFits(in, S \cup open, result.got)
            /\ SumFunction(result.got) <= Supply(in)
            /\ \A d \in S : result.got[d] = settled[d]
            /\ how = "intervention" => Served(in, result.got, open)
            /\ Ranked(in, result.got, open)
  BY <1>9, <1>11, <1>12, <1>14, <1>15, <1>16
<1> QED BY <1>16, <1>17 DEF result

\* The soft demands whose entries are kept.
KeptOf(D, frozen) == {d \in Soft(D) : d.ref \in DOMAIN frozen}
HardGot(D) == [d \in Hard(D) |-> d.requested]
KeptGot(D, frozen) == [d \in KeptOf(D, frozen) |-> Min({d.requested, frozen[d.ref]})]

LEMMA SoftAndHard ==
  ASSUME NEW in, NEW D, WholeDemands(in, D)
  PROVE  /\ WholeSet(in, D)
         /\ Hard(D) \subseteq D /\ Soft(D) \subseteq D
         /\ Hard(D) \cap Soft(D) = {} /\ Hard(D) \cup Soft(D) = D
         /\ \A d \in Hard(D) : d.peg = "hard"
         /\ \A d \in Soft(D) : d.peg = "soft"
         /\ WholeSet(in, Hard(D)) /\ WholeSet(in, Soft(D))
         /\ OneRef(Soft(D)) /\ OneRef(Hard(D))
<1>1. WholeSet(in, D)
  BY DEF WholeDemands, WholeSet
<1>2. /\ Hard(D) \subseteq D /\ Soft(D) \subseteq D
      /\ Hard(D) \cap Soft(D) = {} /\ Hard(D) \cup Soft(D) = D
  BY DEF Hard, Soft
<1>3. \A d \in D : d.peg \in {"hard", "soft"}
  BY DEF WholeDemands, Demand
<1>4. /\ \A d \in Hard(D) : d.peg = "hard"
      /\ \A d \in Soft(D) : d.peg = "soft"
  BY <1>3 DEF Hard, Soft
<1>5. OneRef(Soft(D)) /\ OneRef(Hard(D))
  <2>1. \A d, e \in D : d.ref = e.ref /\ d.peg = e.peg => d = e
    BY DEF WholeDemands
  <2> QED BY <1>2, <1>4, <2>1 DEF OneRef
<1> QED BY <1>1, <1>2, <1>4, <1>5, WholeSubset

\* The hard demands get what they ask for.
LEMMA HardGotFits ==
  ASSUME NEW in, NEW D, WholeDemands(in, D)
  PROVE  /\ GotFits(in, Hard(D), HardGot(D))
         /\ SumFunction(HardGot(D)) = Requested(Hard(D))
<1>1. \A d \in Hard(D) : d.requested \in Nat /\ d.requested % UnitOf(in, d.ref) = 0
  BY SoftAndHard DEF WholeSet, Demand
<1> QED BY <1>1 DEF GotFits, HardGot, Requested

\* A soft demand gets what is kept for it, as far as it still asks for it.
LEMMA KeptGotFits ==
  ASSUME NEW in, NEW D, WholeDemands(in, D), NEW frozen,
         \A r \in DOMAIN frozen : frozen[r] \in Nat /\ frozen[r] % UnitOf(in, r) = 0
  PROVE  /\ GotFits(in, KeptOf(D, frozen), KeptGot(D, frozen))
         /\ \A d \in KeptOf(D, frozen) :
              KeptGot(D, frozen)[d]
                = IF d.requested <= frozen[d.ref] THEN d.requested ELSE frozen[d.ref]
<1>1. KeptOf(D, frozen) \subseteq Soft(D)
  BY DEF KeptOf
<1>2. \A d \in KeptOf(D, frozen) :
        /\ d.requested \in Nat /\ d.requested % UnitOf(in, d.ref) = 0
        /\ frozen[d.ref] \in Nat /\ frozen[d.ref] % UnitOf(in, d.ref) = 0
  <2>1. WholeSet(in, Soft(D))
    BY SoftAndHard
  <2> QED BY <1>1, <2>1 DEF KeptOf, WholeSet, Demand
<1>3. \A d \in KeptOf(D, frozen) :
        Min({d.requested, frozen[d.ref]})
          = IF d.requested <= frozen[d.ref] THEN d.requested ELSE frozen[d.ref]
  <2>1. \A d \in KeptOf(D, frozen) : d.requested \in Int /\ frozen[d.ref] \in Int
    BY <1>2
  <2> QED BY <2>1, MinOfTwo
<1>4. /\ DOMAIN KeptGot(D, frozen) = KeptOf(D, frozen)
      /\ \A d \in KeptOf(D, frozen) :
           KeptGot(D, frozen)[d]
             = IF d.requested <= frozen[d.ref] THEN d.requested ELSE frozen[d.ref]
  BY <1>3 DEF KeptGot
<1>5. GotFits(in, KeptOf(D, frozen), KeptGot(D, frozen))
  BY <1>2, <1>4 DEF GotFits
<1> QED BY <1>4, <1>5

\* What the demands of a line are given when the quantities of `frozen' are
\* kept: either the kept demands stand, or there is no supply for them and all
\* soft demands are open again.
LEMMA AllocateMeans ==
  ASSUME NEW in, IsLineInputs(in), NEW how, NEW D, WholeDemands(in, D), NEW frozen,
         \A r \in DOMAIN frozen : frozen[r] \in Nat /\ frozen[r] % UnitOf(in, r) = 0
  PROVE  LET result == Allocate(in, how, frozen, D)
             got == result.got
             kept == KeptOf(D, frozen)
             fits == Requested(Hard(D)) + SumFunction(KeptGot(D, frozen)) <= Supply(in)
             open == IF fits THEN Soft(D) \ kept ELSE Soft(D)
         IN /\ result.outcome \in {"allocated", "pegged_exceed_capacity",
                                   "commitments_exceed_capacity"}
            /\ result.outcome # "allocated" => got = << >>
            /\ result.outcome = "allocated" =>
                 /\ GotFits(in, D, got)
                 /\ SumFunction(got) <= Supply(in)
                 /\ \A d \in Hard(D) : got[d] = d.requested
                 /\ fits => \A d \in kept : got[d] = KeptGot(D, frozen)[d]
                 /\ how = "intervention" => Served(in, got, open)
                 /\ Ranked(in, got, open)
<1> DEFINE kept == KeptOf(D, frozen)
           hard == HardGot(D)
           fixed == KeptGot(D, frozen)
           settled == Over(hard, fixed)
           fits == Requested(Hard(D)) + SumFunction(fixed) <= Supply(in)
           result == Allocate(in, how, frozen, D)
           got == result.got
           Claim(open) ==
             /\ result.outcome \in {"allocated", "pegged_exceed_capacity",
                                    "commitments_exceed_capacity"}
             /\ result.outcome # "allocated" => got = << >>
             /\ result.outcome = "allocated" =>
                  /\ GotFits(in, D, got)
                  /\ SumFunction(got) <= Supply(in)
                  /\ \A d \in Hard(D) : got[d] = d.requested
                  /\ fits => \A d \in kept : got[d] = fixed[d]
                  /\ how = "intervention" => Served(in, got, open)
                  /\ Ranked(in, got, open)
<1>1. /\ WholeSet(in, D) /\ WholeSet(in, Hard(D)) /\ WholeSet(in, Soft(D))
      /\ OneRef(Soft(D)) /\ Hard(D) \cap Soft(D) = {} /\ Hard(D) \cup Soft(D) = D
  BY SoftAndHard
<1>2. GotFits(in, Hard(D), hard) /\ SumFunction(hard) = Requested(Hard(D))
  BY HardGotFits
<1>3. GotFits(in, kept, fixed)
  BY KeptGotFits
<1>4. kept \subseteq Soft(D)
  BY DEF KeptOf
<1>5. /\ DOMAIN hard = Hard(D) /\ \A d \in Hard(D) : hard[d] = d.requested /\ hard[d] \in Int
      /\ DOMAIN fixed = kept /\ \A d \in kept : fixed[d] \in Int
  <2>1. /\ \A d \in Hard(D) : hard[d] = d.requested /\ hard[d] \in Nat
        /\ \A d \in kept : fixed[d] \in Nat
    BY <1>2, <1>3 DEF GotFits, HardGot
  <2>2. DOMAIN hard = Hard(D) /\ DOMAIN fixed = kept
    BY <1>2, <1>3 DEF GotFits
  <2> HIDE DEF hard, fixed, kept
  <2> QED BY <2>1, <2>2
<1>6. result = IF SumFunction(hard) > Supply(in) THEN Outcome("pegged_exceed_capacity", << >>)
               ELSE IF Fits(in, settled)
               THEN Divide(in, how, settled, D \ (DOMAIN hard \cup DOMAIN fixed))
               ELSE Divide(in, how, hard, D \ DOMAIN hard)
  BY DEF Allocate, AllocateDemands, HardGot, KeptGot, KeptOf
<1> HIDE DEF kept, hard, fixed, settled
<1>7. /\ DOMAIN settled = Hard(D) \cup kept
      /\ \A d \in Hard(D) : settled[d] = hard[d]
      /\ \A d \in kept : settled[d] = fixed[d]
  <2>1. /\ DOMAIN settled = DOMAIN hard \cup DOMAIN fixed
        /\ \A d \in DOMAIN hard : settled[d] = hard[d]
        /\ \A d \in DOMAIN fixed \ DOMAIN hard : settled[d] = fixed[d]
    BY OverMeans DEF settled
  <2> QED BY <1>1, <1>4, <1>5, <2>1
<1>8. SumFunction(settled) = SumFunction(hard) + SumFunction(fixed)
  <2>1. IsFiniteSet(Hard(D)) /\ IsFiniteSet(kept)
    BY <1>1, <1>4, FS_Subset DEF WholeSet
  <2>2. Hard(D) \cap kept = {}
    BY <1>1, <1>4
  <2> QED BY <1>5, <2>1, <2>2, SumOver DEF settled
<1>9. Fits(in, settled) <=> fits
  BY <1>2, <1>8 DEF Fits
<1>10. GotFits(in, Hard(D) \cup kept, settled)
  BY <1>2, <1>3, <1>7 DEF GotFits
<1>11. CASE SumFunction(hard) > Supply(in)
  <2>1. result.outcome = "pegged_exceed_capacity" /\ got = << >>
    BY <1>6, <1>11 DEF Outcome
  <2> HIDE DEF result
  <2>2. \A open : Claim(open)
    BY <2>1
  <2> QED BY <2>2 DEF result, kept, fixed
<1>12. CASE ~(SumFunction(hard) > Supply(in)) /\ fits
  <2> DEFINE open == Soft(D) \ kept
             S == Hard(D) \cup kept
  <2>1. result = Divide(in, how, settled, open)
    <3>1. D \ (DOMAIN hard \cup DOMAIN fixed) = open
      BY <1>1, <1>4, <1>5
    <3> HIDE DEF result, open
    <3> QED BY <1>6, <1>9, <1>12, <3>1
  <2>2. WholeSet(in, open) /\ OneRef(open) /\ WholeSet(in, S)
    <3>1. open \subseteq Soft(D) /\ S \subseteq D
      BY <1>1, <1>4
    <3> QED BY <1>1, <3>1, WholeSubset
  <2>3. S \cap open = {} /\ S \cup open = D
    BY <1>1, <1>4
  <2>4. SumFunction(settled) <= Supply(in)
    BY <1>9, <1>12 DEF Fits
  <2>5. GotFits(in, S, settled)
    BY <1>10
  <2> HIDE DEF open, S, result
  <2>6. /\ result.outcome \in {"allocated", "commitments_exceed_capacity"}
        /\ result.outcome # "allocated" => got = << >>
        /\ result.outcome = "allocated" =>
             /\ GotFits(in, S \cup open, got)
             /\ SumFunction(got) <= Supply(in)
             /\ \A d \in S : got[d] = settled[d]
             /\ how = "intervention" => Served(in, got, open)
             /\ Ranked(in, got, open)
    <3> DEFINE div == Divide(in, how, settled, open)
    <3>1. /\ div.outcome \in {"allocated", "commitments_exceed_capacity"}
          /\ div.outcome # "allocated" => div.got = << >>
          /\ div.outcome = "allocated" =>
               /\ GotFits(in, S \cup open, div.got)
               /\ SumFunction(div.got) <= Supply(in)
               /\ \A d \in S : div.got[d] = settled[d]
               /\ how = "intervention" => Served(in, div.got, open)
               /\ Ranked(in, div.got, open)
      BY <2>2, <2>3, <2>4, <2>5, DivideMeans
    <3>2. result = div
      BY <2>1
    <3> HIDE DEF div
    <3> QED BY <3>1, <3>2
  <2>7. /\ (\A d \in S : got[d] = settled[d]) => \A d \in Hard(D) : got[d] = d.requested
        /\ (\A d \in S : got[d] = settled[d]) => \A d \in kept : got[d] = fixed[d]
    BY <1>5, <1>7 DEF S
  <2>8. Claim(open)
    BY <2>3, <2>6, <2>7
  <2> QED BY <1>12, <2>8 DEF open, result, kept, fixed
<1>13. CASE ~(SumFunction(hard) > Supply(in)) /\ ~fits
  <2> DEFINE open == Soft(D)
             S == Hard(D)
  <2>1. result = Divide(in, how, hard, open)
    <3>1. D \ DOMAIN hard = open
      BY <1>1, <1>5
    <3> HIDE DEF result, open
    <3> QED BY <1>6, <1>9, <1>13, <3>1
  <2>4. SumFunction(hard) <= Supply(in)
    <3>1. SumFunction(hard) \in Nat /\ Supply(in) \in Nat
      <4>1. IsFiniteSet(Hard(D))
        BY <1>1 DEF WholeSet
      <4> QED BY <1>2, <4>1, GotSum, SupplyType
    <3> QED BY <1>13, <3>1
  <2> HIDE DEF result
  <2>6. /\ result.outcome \in {"allocated", "commitments_exceed_capacity"}
        /\ result.outcome # "allocated" => got = << >>
        /\ result.outcome = "allocated" =>
             /\ GotFits(in, S \cup open, got)
             /\ SumFunction(got) <= Supply(in)
             /\ \A d \in S : got[d] = hard[d]
             /\ how = "intervention" => Served(in, got, open)
             /\ Ranked(in, got, open)
    <3> DEFINE div == Divide(in, how, hard, open)
    <3>1. /\ div.outcome \in {"allocated", "commitments_exceed_capacity"}
          /\ div.outcome # "allocated" => div.got = << >>
          /\ div.outcome = "allocated" =>
               /\ GotFits(in, S \cup open, div.got)
               /\ SumFunction(div.got) <= Supply(in)
               /\ \A d \in S : div.got[d] = hard[d]
               /\ how = "intervention" => Served(in, div.got, open)
               /\ Ranked(in, div.got, open)
      BY <1>1, <1>2, <2>4, DivideMeans
    <3>2. result = div
      BY <2>1
    <3> HIDE DEF div
    <3> QED BY <3>1, <3>2
  <2>7. (\A d \in S : got[d] = hard[d]) => \A d \in Hard(D) : got[d] = d.requested
    BY <1>5
  <2>8. Claim(open)
    BY <1>1, <1>13, <2>6, <2>7
  <2> QED BY <1>13, <2>8 DEF result, kept, fixed
<1> QED BY <1>11, <1>12, <1>13

------------------------------------------------------------------------------
(* Entries *)

EntryOf(got, d) == [ref |-> d.ref, peg |-> d.peg, quantity |-> got[d]]
EntriesFor(D, got) == {EntryOf(got, d) : d \in {e \in D : got[e] > 0}}
GivenIn(es, d) == Total({e \in es : e.ref = d.ref /\ e.peg = d.peg})

\* The entries add up to what is given.
LEMMA EntriesTotal ==
  ASSUME NEW in, NEW D, WholeDemands(in, D), NEW got, GotFits(in, D, got),
         NEW A, A \subseteq D
  PROVE  Total(EntriesFor(A, got)) = SumFunctionOnSet(got, A)
<1> DEFINE P == {e \in A : got[e] > 0}
           h == [d \in P |-> EntryOf(got, d)]
           T == EntriesFor(A, got)
           v == [e \in T |-> e.quantity]
<1>1. IsFiniteSet(A) /\ \A d \in A : got[d] \in Nat
  BY FS_Subset DEF WholeDemands, GotFits
<1>2. SumFunctionOnSet(got, A) = SumFunctionOnSet(got, P)
  <2>1. /\ P \in SUBSET A
        /\ \A x \in P : got[x] \in Int /\ got[x] = got[x]
        /\ \A x \in A \ P : got[x] = 0
    BY <1>1
  <2> HIDE DEF P
  <2> QED BY <1>1, <2>1, SumWithin
<1>3. SumFunctionOnSet(got, P) = SumFunctionOnSet(v, T)
  <2>1. \A x \in P : got[x] \in Int /\ h[x] \in T /\ v[h[x]] = got[x]
    BY <1>1 DEF EntriesFor, EntryOf
  <2>2. \A x, y \in P : h[x] = h[y] => x = y
    <3>1. \A x, y \in D : x.ref = y.ref /\ x.peg = y.peg => x = y
      BY DEF WholeDemands
    <3>2. \A x, y \in P : h[x] = h[y] => x.ref = y.ref /\ x.peg = y.peg
      BY DEF EntryOf
    <3>3. P \subseteq D
      OBVIOUS
    <3> HIDE DEF P, h
    <3> QED BY <3>1, <3>2, <3>3
  <2>3. \A t \in T : \E x \in P : h[x] = t
    BY DEF EntriesFor
  <2>4. IsFiniteSet(P)
    BY <1>1, FS_Subset
  <2> HIDE DEF P, h, T, v
  <2> QED BY <2>1, <2>2, <2>3, <2>4, SumRenamed
<1>4. Total(T) = SumFunctionOnSet(v, T)
  BY DEF Total, SumFunction
<1> QED BY <1>2, <1>3, <1>4

\* The entries say what every demand is given.
LEMMA EntriesMean ==
  ASSUME NEW in, NEW D, WholeDemands(in, D), NEW got, GotFits(in, D, got)
  PROVE  LET es == EntriesFor(D, got) IN
         /\ es \subseteq Entry
         /\ Total(es) = SumFunction(got)
         /\ \A d \in D : GivenIn(es, d) = got[d]
         /\ \A e \in es : \E d \in D : got[d] > 0 /\ e = EntryOf(got, d)
         /\ \A d \in D : got[d] > 0 => EntryOf(got, d) \in es
<1> DEFINE es == EntriesFor(D, got)
<1>1. /\ DOMAIN got = D /\ D \subseteq Demand /\ \A d \in D : got[d] \in Nat
      /\ \A x, y \in D : x.ref = y.ref /\ x.peg = y.peg => x = y
  BY DEF GotFits, WholeDemands
<1>2. \A e \in es : \E d \in D : got[d] > 0 /\ e = EntryOf(got, d)
  BY DEF EntriesFor
<1>3. \A d \in D : got[d] > 0 => EntryOf(got, d) \in es
  BY DEF EntriesFor
<1>4. es \subseteq Entry
  <2>1. \A d \in D : got[d] > 0 => EntryOf(got, d) \in Entry
    BY <1>1 DEF EntryOf, Entry, Demand
  <2> QED BY <1>2, <2>1
<1>5. Total(es) = SumFunction(got)
  <2>1. Total(es) = SumFunctionOnSet(got, D)
    BY EntriesTotal
  <2> HIDE DEF es
  <2> QED BY <1>1, <2>1 DEF SumFunction
<1>6. ASSUME NEW d \in D
      PROVE  GivenIn(es, d) = got[d]
  <2>1. {e \in es : e.ref = d.ref /\ e.peg = d.peg} = EntriesFor({d}, got)
    <3>1. \A x \in D : EntryOf(got, x).ref = x.ref /\ EntryOf(got, x).peg = x.peg
      BY DEF EntryOf
    <3>2. \A e : e \in es <=> \E x \in D : got[x] > 0 /\ e = EntryOf(got, x)
      BY DEF EntriesFor
    <3>3. \A e : e \in EntriesFor({d}, got) <=> got[d] > 0 /\ e = EntryOf(got, d)
      BY DEF EntriesFor
    <3> HIDE DEF es
    <3>4. ASSUME NEW e \in es, e.ref = d.ref, e.peg = d.peg
          PROVE  e \in EntriesFor({d}, got)
      <4>1. PICK x \in D : got[x] > 0 /\ e = EntryOf(got, x)
        BY <3>2
      <4>2. x = d
        BY <1>1, <3>1, <3>4, <4>1
      <4> QED BY <3>3, <4>1, <4>2
    <3>5. ASSUME NEW e \in EntriesFor({d}, got)
          PROVE  e \in es /\ e.ref = d.ref /\ e.peg = d.peg
      BY <3>1, <3>2, <3>3
    <3> QED BY <3>4, <3>5
  <2>2. Total(EntriesFor({d}, got)) = SumFunctionOnSet(got, {d})
    <3>1. {d} \subseteq D
      OBVIOUS
    <3> QED BY <3>1, EntriesTotal
  <2>3. SumFunctionOnSet(got, {d}) = got[d]
    <3>1. got[d] \in Int
      BY <1>1
    <3> QED BY <3>1, SumOne
  <2> HIDE DEF es
  <2> QED BY <2>1, <2>2, <2>3 DEF GivenIn
<1> QED BY <1>2, <1>3, <1>4, <1>5, <1>6

------------------------------------------------------------------------------
(* What a change touches *)

Touched(before, after) == TouchedItems(DiffInputs(before, after))
SameAt(f, g, r) == (r \in DOMAIN f <=> r \in DOMAIN g) /\ (r \in DOMAIN f => f[r] = g[r])

LEMMA ValuesSame ==
  ASSUME NEW f, NEW g, NEW r, r \notin Differ(f, g)
  PROVE  SameAt(f, g, r)
BY DEF Differ, Values, SameAt

LEMMA ChangeTouches ==
  ASSUME NEW before, NEW after, NEW c \in DiffInputs(before, after)
  PROVE  c.items \subseteq Touched(before, after)
BY DEF Touched, TouchedItems

LEMMA ItemOfRef ==
  ASSUME NEW r \in Refs
  PROVE  KeyOf[r] \in Keys /\ KeyOf[r].item \in Items /\ KeyOf[r].item \in ItemOf(r)
BY DEF Keys, Items, ItemOf

\* A change at a demand touches its item, one of the supply side all items.
LEMMA UntouchedSame ==
  ASSUME NEW before, NEW after, NEW item \in Items, item \notin Touched(before, after)
  PROVE  /\ \A g \in {"commitments", "guarantees", "wip", "units", "margins",
                      "inventory", "capacity", "pegs"} : before[g] = after[g]
         /\ \A r \in Refs : KeyOf[r].item = item =>
              /\ SameAt(before.orders, after.orders, r)
              /\ SameAt(before.forecasts, after.forecasts, r)
              /\ SameAt(before.manual, after.manual, r)
              /\ SameAt(before.floorOverrides, after.floorOverrides, r)
              /\ SameAt(before.pegLimits, after.pegLimits, r)
<1> DEFINE diff == DiffInputs(before, after)
<1>1. \A c \in diff : item \notin c.items
  BY ChangeTouches
<1>2. /\ DemandChanges(before, after, Affected(before, after)) \subseteq diff
      /\ PersonChanges(before, after) \subseteq diff
      /\ SupplyChanges(before, after) \subseteq diff
  BY DEF DiffInputs
<1> HIDE DEF diff
<1>3. ASSUME NEW g \in {"commitments", "guarantees", "wip", "units", "margins",
                        "inventory", "capacity", "pegs"}, before[g] # after[g]
      PROVE  FALSE
  <2>1. Change(Items, g \in {"commitments", "guarantees"}, FALSE)
          \in SupplyChanges(before, after)
    BY <1>3 DEF SupplyChanges
  <2>2. Change(Items, g \in {"commitments", "guarantees"}, FALSE).items = Items
    BY DEF Change
  <2> QED BY <1>1, <1>2, <2>1, <2>2
<1>4. ASSUME NEW r \in Refs, KeyOf[r].item = item
      PROVE  /\ r \notin Differ(before.orders, after.orders)
             /\ r \notin Differ(before.forecasts, after.forecasts)
             /\ r \notin Differ(before.manual, after.manual)
             /\ r \notin Differ(before.floorOverrides, after.floorOverrides)
             /\ r \notin Differ(before.pegLimits, after.pegLimits)
  <2>1. \A items, u, h : item \in items => Change(items, u, h) \notin diff
    <3>1. \A items, u, h : Change(items, u, h).items = items
      BY DEF Change
    <3> QED BY <1>1, <3>1
  <2>2. item \in ItemOf(r) /\ item \in OwnedBy(before, after, r)
    BY <1>4, ItemOfRef DEF OwnedBy
  <2>3. r \in Differ(before.orders, after.orders)
          => \E u : Change(ItemOf(r), u, FALSE) \in diff
    BY <1>2 DEF DemandChanges
  <2>4. r \in Differ(before.forecasts, after.forecasts)
          => \E u : Change(ItemOf(r), u, FALSE) \in diff
    BY <1>2 DEF DemandChanges
  <2>5. r \in Differ(before.manual, after.manual)
          => Change(ItemOf(r), FALSE, TRUE) \in diff
    BY <1>2 DEF DemandChanges
  <2>6. r \in Differ(before.floorOverrides, after.floorOverrides)
              \cup Differ(before.pegLimits, after.pegLimits)
          => Change(OwnedBy(before, after, r), FALSE, TRUE) \in diff
    BY <1>2 DEF PersonChanges
  <2> QED BY <2>1, <2>2, <2>3, <2>4, <2>5, <2>6
<1>5. \A g \in {"commitments", "guarantees", "wip", "units", "margins",
                "inventory", "capacity", "pegs"} : before[g] = after[g]
  BY <1>3
<1> QED BY <1>4, <1>5, ValuesSame

\* The inputs of the demands of one item are the same.
SameFor(before, after, item) ==
  /\ before.units = after.units /\ before.wip = after.wip /\ before.pegs = after.pegs
  /\ before.commitments = after.commitments /\ before.guarantees = after.guarantees
  /\ \A r \in Refs : KeyOf[r].item = item =>
       /\ SameAt(before.orders, after.orders, r)
       /\ SameAt(before.forecasts, after.forecasts, r)
       /\ SameAt(before.manual, after.manual, r)
       /\ SameAt(before.floorOverrides, after.floorOverrides, r)
       /\ SameAt(before.pegLimits, after.pegLimits, r)

LEMMA UntouchedIsSame ==
  ASSUME NEW before, NEW after, NEW item \in Items, item \notin Touched(before, after)
  PROVE  SameFor(before, after, item)
<1>1. \A g \in {"commitments", "guarantees", "wip", "units", "margins",
                "inventory", "capacity", "pegs"} : before[g] = after[g]
  BY UntouchedSame
<1>2. /\ before["units"] = after["units"] /\ before["wip"] = after["wip"]
      /\ before["pegs"] = after["pegs"] /\ before["commitments"] = after["commitments"]
      /\ before["guarantees"] = after["guarantees"]
  BY <1>1
<1>3. \A r \in Refs : KeyOf[r].item = item =>
        /\ SameAt(before.orders, after.orders, r)
        /\ SameAt(before.forecasts, after.forecasts, r)
        /\ SameAt(before.manual, after.manual, r)
        /\ SameAt(before.floorOverrides, after.floorOverrides, r)
        /\ SameAt(before.pegLimits, after.pegLimits, r)
  BY UntouchedSame
<1> QED BY <1>2, <1>3 DEF SameFor

LEMMA SameBacklog ==
  ASSUME NEW before, IsLineInputs(before), NEW after, IsLineInputs(after), NEW key,
         SameFor(before, after, key.item)
  PROVE  CycleBacklog(before, key) = CycleBacklog(after, key)
<1> DEFINE A(in) == {p \in DOMAIN in.orders : InCycle(in, p) /\ KeyOf[p] = key}
           f(in) == [o \in A(in) |-> in.orders[o].backlog]
<1>1. DOMAIN before.orders \subseteq Refs /\ DOMAIN after.orders \subseteq Refs
  BY DEF IsLineInputs, IsPartial, Refs
<1>2. \A p \in Refs : KeyOf[p] = key => SameAt(before.orders, after.orders, p)
  BY DEF SameFor
<1>3. A(before) = A(after)
  BY <1>1, <1>2 DEF SameAt, InCycle
<1>4. \A o \in A(before) : before.orders[o].backlog = after.orders[o].backlog
  BY <1>1, <1>2 DEF SameAt
<1>5. f(before) = f(after)
  <2> HIDE DEF A
  <2> QED BY <1>3, <1>4
<1> QED BY <1>5 DEF CycleBacklog

LEMMA SameDemandsOf ==
  ASSUME NEW before, IsLineInputs(before), NEW after, IsLineInputs(after), NEW r \in Refs,
         SameFor(before, after, KeyOf[r].item)
  PROVE  DemandsOf(before, r) = DemandsOf(after, r)
<1>1. /\ SameAt(before.orders, after.orders, r)
      /\ SameAt(before.forecasts, after.forecasts, r)
      /\ SameAt(before.manual, after.manual, r)
      /\ SameAt(before.pegLimits, after.pegLimits, r)
      /\ before.units = after.units /\ before.wip = after.wip /\ before.pegs = after.pegs
  BY DEF SameFor
<1>2. CycleBacklog(before, KeyOf[r]) = CycleBacklog(after, KeyOf[r])
  BY SameBacklog
<1>3. UnitOf(before, r) = UnitOf(after, r)
  BY <1>1 DEF UnitOf
<1>4. IsDemanded(before, r) = IsDemanded(after, r)
  <2>1. IsDemanded(before, r) <=> IsDemanded(after, r)
    BY <1>1 DEF IsDemanded, SameAt
  <2> QED BY <2>1 DEF IsDemanded
<1>5. ASSUME IsDemanded(before, r)
      PROVE  DueOf(before, r) = DueOf(after, r)
  BY <1>1, <1>5 DEF IsDemanded, DueOf, SameAt
<1>6. ASSUME IsDemanded(before, r)
      PROVE  QuantityOfRef(before, r) = QuantityOfRef(after, r)
  BY <1>1, <1>2, <1>3, <1>6 DEF IsDemanded, QuantityOfRef, Remainder, UnitOf, SameAt
<1>7. \A q : Limited(before, r, q) = Limited(after, r, q)
  BY <1>1 DEF Limited, SameAt
<1>8. \A q : Produced(before, r, q) = Produced(after, r, q)
  BY <1>1 DEF Produced
<1>9. ASSUME IsDemanded(before, r)
      PROVE  PeggedOf(before, r) = PeggedOf(after, r)
  BY <1>1, <1>6, <1>7, <1>8, <1>9 DEF PeggedOf
<1> QED BY <1>4, <1>5, <1>6, <1>9 DEF DemandsOf

LEMMA SameDemands ==
  ASSUME NEW before, IsLineInputs(before), NEW after, IsLineInputs(after), NEW key \in Keys,
         SameFor(before, after, key.item)
  PROVE  OfKey(Demands(before), key) = OfKey(Demands(after), key)
<1>1. \A in : IsLineInputs(in) =>
        \A d : d \in Demands(in) <=> \E r \in Refs : d \in DemandsOf(in, r)
  BY DemandsAre
<1>2. \A in : IsLineInputs(in) => \A r \in Refs : \A d \in DemandsOf(in, r) : d.ref = r
  BY DemandsOfMean
<1>3. \A r \in Refs : KeyOf[r] = key => DemandsOf(before, r) = DemandsOf(after, r)
  BY SameDemandsOf
<1>4. ASSUME NEW d, d \in OfKey(Demands(before), key)
      PROVE  d \in OfKey(Demands(after), key)
  <2>1. d \in Demands(before) /\ KeyOf[d.ref] = key
    BY <1>4 DEF OfKey
  <2>2. PICK r \in Refs : d \in DemandsOf(before, r)
    BY <1>1, <2>1
  <2>3. d \in Demands(after)
    BY <1>1, <1>2, <1>3, <2>1, <2>2
  <2> QED BY <2>1, <2>3 DEF OfKey
<1>5. ASSUME NEW d, d \in OfKey(Demands(after), key)
      PROVE  d \in OfKey(Demands(before), key)
  <2>1. d \in Demands(after) /\ KeyOf[d.ref] = key
    BY <1>5 DEF OfKey
  <2>2. PICK r \in Refs : d \in DemandsOf(after, r)
    BY <1>1, <2>1
  <2>3. d \in Demands(before)
    BY <1>1, <1>2, <1>3, <2>1, <2>2
  <2> QED BY <2>1, <2>3 DEF OfKey
<1> QED BY <1>4, <1>5

LEMMA SameWanted ==
  ASSUME NEW before, IsLineInputs(before), NEW after, IsLineInputs(after), NEW key \in Keys,
         SameFor(before, after, key.item)
  PROVE  Wanted(before, key) = Wanted(after, key)
<1> DEFINE O(in) == {r \in DOMAIN in.floorOverrides :
                       r \in Present(in) /\ KeyOf[r] = key /\ key.company # "none"}
<1>1. /\ DOMAIN before.floorOverrides \subseteq Refs /\ DOMAIN after.floorOverrides \subseteq Refs
      /\ before.commitments = after.commitments /\ before.guarantees = after.guarantees
  BY DEF IsLineInputs, IsPartial, SameFor
<1>2. \A r \in Refs : KeyOf[r] = key =>
        /\ SameAt(before.floorOverrides, after.floorOverrides, r)
        /\ r \in Present(before) <=> r \in Present(after)
  BY DEF SameFor, SameAt, Present
<1>3. O(before) = O(after)
  BY <1>1, <1>2 DEF SameAt
<1>4. ASSUME O(before) # {}
      PROVE  before.floorOverrides[Max(O(before))] = after.floorOverrides[Max(O(after))]
  <2>1. O(before) \in SUBSET Refs
    BY <1>1
  <2>2. O(before) \in SUBSET Int /\ IsFiniteSet(O(before))
    <3>1. IsFiniteSet(O(before))
      BY <2>1, Finiteness
    <3>2. \A r \in O(before) : r \in Nat
      BY <2>1, Finiteness
    <3>3. \A r \in O(before) : r \in Int
      BY <3>2
    <3> QED BY <3>1, <3>3
  <2>3. Max(O(before)) \in O(before)
    <3> HIDE DEF O
    <3> QED BY <1>4, <2>2, MaxOfSet
  <2>4. \A r \in O(before) : before.floorOverrides[r] = after.floorOverrides[r]
    BY <1>1, <1>2 DEF SameAt
  <2> HIDE DEF O
  <2> QED BY <1>3, <2>3, <2>4
<1>5. \A in : Wanted(in, key)
                = IF O(in) # {} THEN in.floorOverrides[Max(O(in))]
                  ELSE Max({0} \cup {Share(c) : c \in {b \in in.commitments : b.binding /\ b.key = key}}
                           \cup {g.quantity : g \in {h \in in.guarantees : h.key = key}})
  BY DEF Wanted
<1> HIDE DEF O
<1> QED BY <1>1, <1>3, <1>4, <1>5

\* The floor of a company and item depends on its own demands only.
LEMMA FloorDepends ==
  ASSUME NEW before, NEW after, NEW key \in Keys, NEW C, NEW D,
         Wanted(before, key) = Wanted(after, key), before.units = after.units,
         OfKey(C, key) = OfKey(D, key)
  PROVE  ContractFloors(before, C)[key] = ContractFloors(after, D)[key]
BY DEF ContractFloors

LEMMA CycleOfSame ==
  ASSUME NEW C, NEW D, NEW key, OfKey(C, key) = OfKey(D, key)
  PROVE  /\ OfKey(CycleOf(Soft(C)), key) = OfKey(CycleOf(Soft(D)), key)
         /\ OfKey(LateOf(Soft(C)), key) = OfKey(LateOf(Soft(D)), key)
BY DEF OfKey, CycleOf, LateOf, Soft, Hard

LEMMA FloorsAre ==
  ASSUME NEW in
  PROVE  EffectiveFloors(in) = ContractFloors(in, CycleOf(Soft(Demands(in))))
BY DEF EffectiveFloors, FloorsOf, CycleOf

LEMMA UntouchedCovers ==
  ASSUME NEW before, IsLineInputs(before), NEW after, IsLineInputs(after), NEW key \in Keys,
         key.item \notin Touched(before, after)
  PROVE  /\ OfKey(Demands(before), key) = OfKey(Demands(after), key)
         /\ EffectiveFloors(before)[key] = EffectiveFloors(after)[key]
         /\ before.units = after.units
<1>1. key.item \in Items
  BY DEF Items
<1>2. SameFor(before, after, key.item)
  BY <1>1, UntouchedIsSame
<1>3. OfKey(Demands(before), key) = OfKey(Demands(after), key)
  BY <1>2, SameDemands
<1>4. Wanted(before, key) = Wanted(after, key)
  BY <1>2, SameWanted
<1>5. before.units = after.units
  BY <1>2 DEF SameFor
<1>6. OfKey(CycleOf(Soft(Demands(before))), key) = OfKey(CycleOf(Soft(Demands(after))), key)
  BY <1>3, CycleOfSame
<1>7. ContractFloors(before, CycleOf(Soft(Demands(before))))[key]
        = ContractFloors(after, CycleOf(Soft(Demands(after))))[key]
  BY <1>4, <1>5, <1>6, FloorDepends
<1> QED BY <1>3, <1>5, <1>7, FloorsAre

------------------------------------------------------------------------------
(* Conclusions *)

\* What a conclusion is worth at the inputs it was drawn from: the quantities
\* are those of a division that fits and serves what is owed.
Sound(in, how, got) ==
  /\ GotFits(in, Demands(in), got)
  /\ SumFunction(got) <= Supply(in)
  /\ \A d \in Hard(Demands(in)) : got[d] = d.requested
  /\ how = "intervention" => Served(in, got, Soft(Demands(in)))

GotOf(in, es) == [d \in Demands(in) |-> GivenIn(es, d)]

Concluded(in, how, es) ==
  es = EntriesFor(Demands(in), GotOf(in, es)) /\ Sound(in, how, GotOf(in, es))

LEMMA ConcludedBy ==
  ASSUME NEW in, IsLineInputs(in), NEW how, NEW got, Sound(in, how, got)
  PROVE  Concluded(in, how, EntriesFor(Demands(in), got))
<1> DEFINE D == Demands(in)
           es == EntriesFor(D, got)
           g == GotOf(in, es)
<1>1. WholeDemands(in, D) /\ IsFiniteSet(D)
  BY DemandsMean DEF WholeDemands
<1>2. GotFits(in, D, got) /\ DOMAIN got = D
  BY DEF Sound, GotFits
<1>3. DOMAIN g = D /\ \A d \in D : g[d] = got[d]
  <2>1. \A d \in D : GivenIn(es, d) = got[d]
    BY <1>1, <1>2, EntriesMean
  <2> HIDE DEF D, es
  <2> QED BY <2>1 DEF GotOf, D
<1> HIDE DEF D, g
<1>4. GotFits(in, D, g)
  BY <1>2, <1>3 DEF GotFits
<1>5. \A A \in SUBSET D : SumFunctionOnSet(g, A) = SumFunctionOnSet(got, A)
  <2> SUFFICES ASSUME NEW A \in SUBSET D
               PROVE  SumFunctionOnSet(g, A) = SumFunctionOnSet(got, A)
    OBVIOUS
  <2>1. IsFiniteSet(A)
    BY <1>1, FS_Subset
  <2>2. \A d \in D : got[d] \in Int
    <3>1. \A d \in D : got[d] \in Nat
      BY <1>2 DEF GotFits
    <3> QED BY <3>1
  <2>3. \A d \in A : g[d] \in Int /\ g[d] = got[d]
    BY <1>3, <2>2
  <2> QED BY <2>1, <2>3, SumSame
<1>6. SumFunction(g) = SumFunction(got)
  <2>1. SumFunctionOnSet(g, D) = SumFunctionOnSet(got, D)
    BY <1>5
  <2> QED BY <1>2, <1>3, <2>1 DEF SumFunction
<1>7. EntriesFor(D, g) = es
  <2>1. {e \in D : g[e] > 0} = {e \in D : got[e] > 0}
    BY <1>3
  <2>2. \A d \in D : EntryOf(g, d) = EntryOf(got, d)
    BY <1>3 DEF EntryOf
  <2> QED BY <2>1, <2>2 DEF EntriesFor, es
<1>8. Soft(D) \subseteq D /\ Hard(D) \subseteq D
  BY DEF Soft, Hard
<1>9. ASSUME Served(in, got, Soft(D))
      PROVE  Served(in, g, Soft(D))
  <2>1. \A d \in LateOf(Soft(D)) : g[d] = got[d]
    BY <1>3, <1>8 DEF LateOf
  <2>2. \A key : OfKey(CycleOf(Soft(D)), key) \in SUBSET D
    BY <1>8 DEF OfKey, CycleOf
  <2>3. \A key : SumFunctionOnSet(g, OfKey(CycleOf(Soft(D)), key))
                   = SumFunctionOnSet(got, OfKey(CycleOf(Soft(D)), key))
    BY <1>5, <2>2
  <2> QED BY <1>9, <2>1, <2>3 DEF Served
<1>10. Sound(in, how, g)
  BY <1>3, <1>4, <1>6, <1>8, <1>9 DEF Sound, D
<1> QED BY <1>7, <1>10 DEF Concluded, D, g, es

\* The quantities a continuing coordination keeps are those that the last
\* conclusion gave the demands nothing touched.
LEMMA FrozenMeans ==
  ASSUME NEW before, IsLineInputs(before), NEW after, IsLineInputs(after), NEW got,
         GotFits(before, Demands(before), got)
  PROVE  LET D == Demands(after)
             stay == Frozen(EntriesFor(Demands(before), got), Touched(before, after))
             frozen == QuantityOf(stay)
             Free(d) == KeyOf[d.ref].item \notin Touched(before, after)
         IN /\ \A r \in DOMAIN frozen :
                 frozen[r] \in Nat /\ frozen[r] % UnitOf(after, r) = 0
            /\ \A d \in KeptOf(D, frozen) :
                 /\ Free(d) /\ d \in Soft(Demands(before))
                 /\ got[d] = frozen[d.ref] /\ got[d] > 0
            /\ \A d \in Soft(D) \ KeptOf(D, frozen) : Free(d) => got[d] = 0
            /\ stay = EntriesFor(KeptOf(D, frozen), got)
<1> DEFINE B == Demands(before)
           D == Demands(after)
           touched == Touched(before, after)
           es == EntriesFor(B, got)
           stay == Frozen(es, touched)
           frozen == QuantityOf(stay)
           Free(d) == KeyOf[d.ref].item \notin touched
<1>1. /\ WholeDemands(before, B) /\ WholeDemands(after, D)
  BY DemandsMean
<1>2. /\ OneRef(Soft(B)) /\ Soft(B) \subseteq B /\ Soft(D) \subseteq D
      /\ \A d \in Soft(B) : d.peg = "soft"
      /\ \A d \in B : d.peg = "soft" => d \in Soft(B)
      /\ \A d \in D : d.peg = "soft" => d \in Soft(D)
      /\ \A d \in Soft(D) : d.peg = "soft"
      /\ \A d \in B \cup D : d.ref \in Refs
  <2>1. /\ OneRef(Soft(B)) /\ Soft(B) \subseteq B /\ Soft(D) \subseteq D
        /\ \A d \in Soft(B) : d.peg = "soft"
        /\ \A d \in Soft(D) : d.peg = "soft"
    BY <1>1, SoftAndHard
  <2>2. \A d \in B \cup D : d.ref \in Refs
    BY <1>1 DEF WholeDemands, Demand
  <2> QED BY <2>1, <2>2 DEF Soft, Hard
<1>3. \A d \in B : /\ got[d] \in Nat /\ got[d] <= d.requested
                   /\ got[d] % UnitOf(before, d.ref) = 0
  BY DEF GotFits
<1>4. /\ \A d \in B : Free(d) => d \in D
      /\ \A d \in D : Free(d) => d \in B
      /\ \A d \in B : Free(d) => UnitOf(after, d.ref) = UnitOf(before, d.ref)
  <2>1. ASSUME NEW r \in Refs, KeyOf[r].item \notin touched
        PROVE  /\ OfKey(B, KeyOf[r]) = OfKey(D, KeyOf[r])
               /\ before.units = after.units
    BY <2>1, UntouchedCovers, ItemOfRef
  <2>2. \A d \in B \cup D : Free(d) =>
          /\ OfKey(B, KeyOf[d.ref]) = OfKey(D, KeyOf[d.ref])
          /\ before.units = after.units
    BY <1>2, <2>1
  <2>3. \A d \in B : d \in OfKey(B, KeyOf[d.ref])
    BY DEF OfKey
  <2>4. \A d \in D : d \in OfKey(D, KeyOf[d.ref])
    BY DEF OfKey
  <2>5. \A key : OfKey(B, key) \subseteq B /\ OfKey(D, key) \subseteq D
    BY DEF OfKey
  <2> HIDE DEF B, D, touched
  <2> QED BY <2>2, <2>3, <2>4, <2>5 DEF UnitOf
<1> HIDE DEF B, D, touched
<1>5. \A e : e \in es <=> \E d \in B : got[d] > 0 /\ e = EntryOf(got, d)
  BY DEF EntriesFor
<1>6. \A d : EntryOf(got, d).ref = d.ref /\ EntryOf(got, d).peg = d.peg
             /\ EntryOf(got, d).quantity = got[d]
  BY DEF EntryOf
<1>7. \A e : e \in stay <=>
        \E d \in B : got[d] > 0 /\ e = EntryOf(got, d) /\ d.peg = "soft" /\ Free(d)
  <2>1. \A e : e \in stay <=> e \in es /\ e.peg = "soft" /\ KeyOf[e.ref].item \notin touched
    BY DEF Frozen
  <2> HIDE DEF stay, es
  <2> QED BY <1>5, <1>6, <2>1
<1> HIDE DEF es, stay
<1>8. \A e, f \in stay : e.ref = f.ref => e = f
  <2> SUFFICES ASSUME NEW e \in stay, NEW f \in stay, e.ref = f.ref
               PROVE  e = f
    OBVIOUS
  <2>1. PICK d \in B : e = EntryOf(got, d) /\ d.peg = "soft"
    BY <1>7
  <2>2. PICK c \in B : f = EntryOf(got, c) /\ c.peg = "soft"
    BY <1>7
  <2>3. d = c
    BY <1>2, <1>6, <2>1, <2>2 DEF OneRef
  <2> QED BY <2>1, <2>2, <2>3
<1>9. \A r : r \in DOMAIN frozen <=> \E e \in stay : e.ref = r
  BY DEF QuantityOf
<1>10. \A e \in stay : frozen[e.ref] = e.quantity
  <2> SUFFICES ASSUME NEW e \in stay
               PROVE  frozen[e.ref] = e.quantity
    OBVIOUS
  <2>1. (CHOOSE f \in stay : f.ref = e.ref) = e
    BY <1>8
  <2>2. e.ref \in {f.ref : f \in stay}
    OBVIOUS
  <2> QED BY <2>1, <2>2 DEF QuantityOf
<1> HIDE DEF frozen
<1>11. \A r \in DOMAIN frozen :
         \E d \in B : /\ d.ref = r /\ d.peg = "soft" /\ Free(d)
                      /\ got[d] > 0 /\ frozen[r] = got[d]
  BY <1>6, <1>7, <1>9, <1>10
<1>12. \A r \in DOMAIN frozen : frozen[r] \in Nat /\ frozen[r] % UnitOf(after, r) = 0
  BY <1>3, <1>4, <1>11
<1>13. ASSUME NEW d \in KeptOf(D, frozen)
       PROVE  /\ Free(d) /\ d \in Soft(B)
              /\ got[d] = frozen[d.ref] /\ got[d] > 0
  <2>1. d \in Soft(D) /\ d.ref \in DOMAIN frozen
    BY DEF KeptOf
  <2>2. PICK b \in B : /\ b.ref = d.ref /\ b.peg = "soft" /\ Free(b)
                       /\ got[b] > 0 /\ frozen[d.ref] = got[b]
    BY <1>11, <2>1
  <2>3. Free(d)
    BY <2>2
  <2>4. d \in Soft(B) /\ b \in Soft(B)
    BY <1>2, <1>4, <2>1, <2>2, <2>3
  <2>5. b = d
    BY <1>2, <2>2, <2>4 DEF OneRef
  <2> QED BY <2>2, <2>3, <2>4, <2>5
<1>14. ASSUME NEW d \in Soft(D) \ KeptOf(D, frozen), Free(d)
       PROVE  got[d] = 0
  <2>1. d \in B /\ d.peg = "soft"
    BY <1>2, <1>4, <1>14
  <2>2. ~(got[d] > 0)
    <3>1. SUFFICES ASSUME got[d] > 0
                   PROVE  FALSE
      OBVIOUS
    <3>2. EntryOf(got, d) \in stay
      BY <1>7, <1>14, <2>1, <3>1
    <3>3. d.ref \in DOMAIN frozen
      BY <1>6, <1>9, <3>2
    <3> QED BY <3>3 DEF KeptOf
  <2> QED BY <1>3, <2>1, <2>2
<1>15. stay = EntriesFor(KeptOf(D, frozen), got)
  <2>1. \A e : e \in EntriesFor(KeptOf(D, frozen), got) <=>
          \E d \in KeptOf(D, frozen) : got[d] > 0 /\ e = EntryOf(got, d)
    BY DEF EntriesFor
  <2>2. ASSUME NEW e \in stay
        PROVE  e \in EntriesFor(KeptOf(D, frozen), got)
    <3>1. PICK d \in B : got[d] > 0 /\ e = EntryOf(got, d) /\ d.peg = "soft" /\ Free(d)
      BY <1>7
    <3>2. d.ref \in DOMAIN frozen
      BY <1>6, <1>9, <3>1
    <3>3. d \in KeptOf(D, frozen)
      BY <1>2, <1>4, <3>1, <3>2 DEF KeptOf
    <3> QED BY <2>1, <3>1, <3>3
  <2>3. ASSUME NEW e \in EntriesFor(KeptOf(D, frozen), got)
        PROVE  e \in stay
    <3>1. PICK d \in KeptOf(D, frozen) : got[d] > 0 /\ e = EntryOf(got, d)
      BY <2>1
    <3>2. d \in B /\ d.peg = "soft" /\ Free(d)
      BY <1>2, <1>13
    <3> QED BY <1>7, <3>1, <3>2
  <2> QED BY <2>2, <2>3
<1>16. \A d \in KeptOf(D, frozen) :
         Free(d) /\ d \in Soft(B) /\ got[d] = frozen[d.ref] /\ got[d] > 0
  BY <1>13
<1>17. \A d \in Soft(D) \ KeptOf(D, frozen) : Free(d) => got[d] = 0
  BY <1>14
<1> QED BY <1>12, <1>15, <1>16, <1>17 DEF B, D, touched, es, stay, frozen

LEMMA EntriesOfSound ==
  ASSUME NEW in, NEW how, NEW result, Sound(in, how, result.got)
  PROVE  EntriesOf(result) = EntriesFor(Demands(in), result.got)
<1>1. DOMAIN result.got = Demands(in)
  BY DEF Sound, GotFits
<1> QED BY <1>1 DEF EntriesOf, EntriesFor, EntryOf

Outcomes == {"allocated", "pegged_exceed_capacity", "commitments_exceed_capacity"}

\* A division of the whole line is sound, and the older and the higher margins
\* come first.
LEMMA FreshSound ==
  ASSUME NEW in, IsLineInputs(in), NEW how
  PROVE  LET result == AllocateLine(in, how, << >>) IN
         /\ result.outcome \in Outcomes
         /\ result.outcome # "allocated" => result.got = << >>
         /\ result.outcome = "allocated" =>
              /\ Sound(in, how, result.got)
              /\ Ranked(in, result.got, Soft(Demands(in)))
<1> DEFINE D == Demands(in)
           frozen == << >>
           kept == KeptOf(D, frozen)
           fits == Requested(Hard(D)) + SumFunction(KeptGot(D, frozen)) <= Supply(in)
           open == IF fits THEN Soft(D) \ kept ELSE Soft(D)
           result == Allocate(in, how, frozen, D)
<1>1. WholeDemands(in, D)
  BY DemandsMean
<1>2. DOMAIN frozen = {}
  OBVIOUS
<1>3. open = Soft(D)
  <2>1. kept = {}
    BY <1>2 DEF KeptOf
  <2> HIDE DEF kept, fits
  <2> QED BY <2>1
<1> HIDE DEF D, frozen, open
<1>4. /\ result.outcome \in Outcomes
      /\ result.outcome # "allocated" => result.got = << >>
      /\ result.outcome = "allocated" =>
           /\ GotFits(in, D, result.got)
           /\ SumFunction(result.got) <= Supply(in)
           /\ \A d \in Hard(D) : result.got[d] = d.requested
           /\ fits => \A d \in kept : result.got[d] = KeptGot(D, frozen)[d]
           /\ how = "intervention" => Served(in, result.got, open)
           /\ Ranked(in, result.got, open)
  <2>1. \A r \in DOMAIN frozen : frozen[r] \in Nat /\ frozen[r] % UnitOf(in, r) = 0
    BY <1>2
  <2> QED BY <1>1, <2>1, AllocateMeans DEF open, Outcomes
<1>5. result = AllocateLine(in, how, << >>)
  BY DEF AllocateLine, D, frozen
<1> HIDE DEF result
<1>6. /\ result.outcome \in Outcomes
      /\ result.outcome # "allocated" => result.got = << >>
      /\ result.outcome = "allocated" =>
              /\ Sound(in, how, result.got)
              /\ Ranked(in, result.got, Soft(D))
  BY <1>3, <1>4 DEF Sound, D
<1> QED BY <1>5, <1>6 DEF D

\* What stays of a sound conclusion, together with what is divided anew, is a
\* sound conclusion again; and it stays if there is supply for it.
LEMMA ContinueSound ==
  ASSUME NEW before, IsLineInputs(before), NEW after, IsLineInputs(after), NEW how, NEW got,
         Sound(before, how, got)
  PROVE  LET es == EntriesFor(Demands(before), got)
             stay == Frozen(es, Touched(before, after))
             result == Continue(after, es, DiffInputs(before, after), how)
         IN /\ result.outcome \in Outcomes
            /\ result.outcome = "allocated" =>
                 /\ Sound(after, how, result.got)
                 /\ Total(stay) + Requested(Hard(Demands(after))) <= Supply(after)
                      => stay \subseteq EntriesOf(result)
<1> DEFINE B == Demands(before)
           D == Demands(after)
           touched == Touched(before, after)
           es == EntriesFor(B, got)
           stay == Frozen(es, touched)
           frozen == QuantityOf(stay)
           Free(d) == KeyOf[d.ref].item \notin touched
           kept == KeptOf(D, frozen)
           fits == Requested(Hard(D)) + SumFunction(KeptGot(D, frozen)) <= Supply(after)
           open == IF fits THEN Soft(D) \ kept ELSE Soft(D)
           result == Allocate(after, how, frozen, D)
           new == result.got
<1>1. WholeDemands(before, B) /\ WholeDemands(after, D)
  BY DemandsMean
<1>2. GotFits(before, B, got)
  BY DEF Sound
<1>3. /\ \A r \in DOMAIN frozen : frozen[r] \in Nat /\ frozen[r] % UnitOf(after, r) = 0
      /\ \A d \in kept : Free(d) /\ d \in Soft(B) /\ got[d] = frozen[d.ref] /\ got[d] > 0
      /\ \A d \in Soft(D) \ kept : Free(d) => got[d] = 0
      /\ stay = EntriesFor(kept, got)
  BY <1>2, FrozenMeans
<1>4. Continue(after, es, DiffInputs(before, after), how) = result
  BY DEF Continue, AllocateLine, Touched
<1> HIDE DEF frozen
<1>5. /\ result.outcome \in Outcomes
      /\ result.outcome = "allocated" =>
           /\ GotFits(after, D, new)
           /\ SumFunction(new) <= Supply(after)
           /\ \A d \in Hard(D) : new[d] = d.requested
           /\ fits => \A d \in kept : new[d] = KeptGot(D, frozen)[d]
           /\ how = "intervention" => Served(after, new, open)
  <2> HIDE DEF D
  <2> QED BY <1>1, <1>3, AllocateMeans DEF Outcomes
<1> HIDE DEF B, D, touched, es, stay, kept, result
<1>6. /\ Soft(B) \subseteq B /\ Soft(D) \subseteq D /\ kept \subseteq Soft(D)
      /\ IsFiniteSet(B) /\ IsFiniteSet(D) /\ B \subseteq Demand /\ D \subseteq Demand
      /\ \A d \in Soft(B) : d.peg = "soft"
      /\ \A d \in D : d.peg = "soft" => d \in Soft(D)
  <2>1. kept \subseteq Soft(D)
    BY DEF kept, KeptOf
  <2>2. /\ Soft(B) \subseteq B /\ Soft(D) \subseteq D /\ \A d \in Soft(B) : d.peg = "soft"
    BY <1>1, SoftAndHard
  <2>3. \A d \in D : d.peg = "soft" => d \in Soft(D)
    BY DEF Soft, Hard
  <2> QED BY <1>1, <2>1, <2>2, <2>3 DEF WholeDemands
<1>7. \A d \in B : got[d] \in Nat /\ got[d] <= d.requested
  BY <1>2 DEF GotFits
<1>8. \A d \in kept : KeptGot(D, frozen)[d] = got[d]
  <2>1. \A d \in kept : KeptGot(D, frozen)[d]
                          = IF d.requested <= frozen[d.ref] THEN d.requested ELSE frozen[d.ref]
    BY <1>1, <1>3, KeptGotFits DEF kept
  <2>2. \A d \in kept : got[d] = frozen[d.ref] /\ got[d] <= d.requested /\ got[d] \in Nat
    BY <1>3, <1>6, <1>7
  <2>3. \A d \in kept : d.requested \in Nat
    BY <1>6 DEF Demand
  <2> QED BY <2>1, <2>2, <2>3
<1>9. ASSUME result.outcome = "allocated", fits, how = "intervention"
      PROVE  Served(after, new, Soft(D))
  <2>1. Served(after, new, Soft(D) \ kept) /\ Served(before, got, Soft(B))
        /\ \A d \in kept : new[d] = got[d]
    BY <1>5, <1>8, <1>9 DEF Sound, B
  <2>2. /\ GotFits(after, D, new) /\ \A d \in D : new[d] \in Nat
    BY <1>5, <1>9 DEF GotFits
  <2>3. \A d \in LateOf(Soft(D)) : new[d] = d.requested
    <3>1. ASSUME NEW d \in kept, Overdue(d)
          PROVE  new[d] = d.requested
      <4>1. d \in LateOf(Soft(B))
        BY <1>3, <3>1 DEF LateOf
      <4> QED BY <2>1, <4>1 DEF Served
    <3>2. ASSUME NEW d \in Soft(D) \ kept, Overdue(d)
          PROVE  new[d] = d.requested
      <4>1. d \in LateOf(Soft(D) \ kept)
        BY <3>2 DEF LateOf
      <4> QED BY <2>1, <4>1 DEF Served
    <3> QED BY <3>1, <3>2 DEF LateOf
  <2>4. ASSUME NEW key \in Keys
        PROVE  ContractFloors(after, CycleOf(Soft(D)))[key]
                 <= SumFunctionOnSet(new, OfKey(CycleOf(Soft(D)), key))
    <3>1. CASE key.item \in touched
      <4>1. \A d \in kept : KeyOf[d.ref] # key
        BY <1>3, <3>1
      <4>2. OfKey(CycleOf(Soft(D)), key) = OfKey(CycleOf(Soft(D) \ kept), key)
        BY <4>1 DEF OfKey, CycleOf
      <4>3. ContractFloors(after, CycleOf(Soft(D)))[key]
              = ContractFloors(after, CycleOf(Soft(D) \ kept))[key]
        BY <4>2, FloorDepends
      <4>4. ContractFloors(after, CycleOf(Soft(D) \ kept))[key]
              <= SumFunctionOnSet(new, OfKey(CycleOf(Soft(D) \ kept), key))
        BY <2>1 DEF Served
      <4> QED BY <4>2, <4>3, <4>4
    <3>2. CASE key.item \notin touched
      <4> DEFINE C == OfKey(CycleOf(Soft(D)), key)
      <4>1. /\ OfKey(B, key) = OfKey(D, key)
            /\ EffectiveFloors(before)[key] = EffectiveFloors(after)[key]
        BY <3>2, UntouchedCovers DEF touched, B, D
      <4>2. OfKey(CycleOf(Soft(B)), key) = C
        BY <4>1, CycleOfSame
      <4>3. ContractFloors(before, CycleOf(Soft(B)))[key] <= SumFunctionOnSet(got, C)
        BY <2>1, <4>2 DEF Served
      <4>4. ContractFloors(before, CycleOf(Soft(B)))[key]
              = ContractFloors(after, CycleOf(Soft(D)))[key]
        BY <4>1, FloorsAre DEF B, D
      <4>5. C \subseteq Soft(D) /\ C \subseteq Soft(B) /\ \A d \in C : KeyOf[d.ref] = key
        BY <4>2 DEF OfKey, CycleOf
      <4>6. \A d \in C : got[d] \in Int /\ new[d] \in Int /\ got[d] <= new[d]
        <5> SUFFICES ASSUME NEW d \in C
                     PROVE  got[d] \in Int /\ new[d] \in Int /\ got[d] <= new[d]
          OBVIOUS
        <5>1. got[d] \in Nat /\ new[d] \in Nat
          BY <1>6, <1>7, <2>2, <4>5
        <5>2. CASE d \in kept
          BY <2>1, <5>1, <5>2
        <5>3. CASE d \notin kept
          <6>1. got[d] = 0
            BY <1>3, <3>2, <4>5, <5>3
          <6> QED BY <5>1, <6>1
        <5> QED BY <5>2, <5>3
      <4>7. IsFiniteSet(C)
        BY <1>6, <4>5, FS_Subset
      <4> HIDE DEF C
      <4>8. SumFunctionOnSet(got, C) <= SumFunctionOnSet(new, C)
        BY <4>6, <4>7, SumLeq
      <4>9. SumFunctionOnSet(got, C) \in Int /\ SumFunctionOnSet(new, C) \in Int
        <5>1. (\A d \in C : got[d] \in Int) /\ (\A d \in C : new[d] \in Int)
          BY <4>6
        <5> QED BY <4>7, <5>1, SumInt
      <4>10. ContractFloors(after, CycleOf(Soft(D)))[key] \in Int
        <5>1. WholeSet(after, Soft(D)) /\ CycleOf(Soft(D)) \subseteq Soft(D)
          BY <1>1, SoftAndHard DEF CycleOf
        <5>2. WholeSet(after, CycleOf(Soft(D)))
          BY <5>1, WholeSubset
        <5>3. FloorsFit(after, CycleOf(Soft(D)), ContractFloors(after, CycleOf(Soft(D))))
          BY <5>2, ContractFloorsFit DEF WholeSet
        <5>4. ContractFloors(after, CycleOf(Soft(D)))[key] \in Nat
          BY <5>3 DEF FloorsFit
        <5> QED BY <5>4
      <4>11. ContractFloors(after, CycleOf(Soft(D)))[key] <= SumFunctionOnSet(new, C)
        BY <4>3, <4>4, <4>8, <4>9, <4>10
      <4> QED BY <4>11 DEF C
    <3> QED BY <3>1, <3>2
  <2> QED BY <2>3, <2>4 DEF Served
<1>10. ASSUME result.outcome = "allocated"
       PROVE  Sound(after, how, new)
  <2>1. how = "intervention" => Served(after, new, Soft(D))
    BY <1>5, <1>9, <1>10
  <2> QED BY <1>5, <1>10, <2>1 DEF Sound, D
<1>11. Total(stay) = SumFunction(KeptGot(D, frozen))
  <2>1. kept \subseteq B /\ IsFiniteSet(kept)
    BY <1>3, <1>6, FS_Subset
  <2>2. Total(stay) = SumFunctionOnSet(got, kept)
    BY <1>1, <1>2, <1>3, <2>1, EntriesTotal
  <2>3. DOMAIN KeptGot(D, frozen) = kept
    BY DEF KeptGot, kept
  <2>4. \A d \in kept : got[d] \in Int /\ got[d] = KeptGot(D, frozen)[d]
    BY <1>7, <1>8, <2>1
  <2>5. SumFunctionOnSet(got, kept) = SumFunctionOnSet(KeptGot(D, frozen), kept)
    BY <2>1, <2>4, SumSame
  <2> QED BY <2>2, <2>3, <2>5 DEF SumFunction
<1>12. ASSUME result.outcome = "allocated",
              Total(stay) + Requested(Hard(D)) <= Supply(after)
       PROVE  stay \subseteq EntriesOf(result)
  <2>1. fits
    <3>1. Requested(Hard(D)) \in Nat /\ Total(stay) \in Nat
      <4>1. WholeSet(after, Hard(D)) /\ IsFiniteSet(kept)
        BY <1>1, <1>6, SoftAndHard, FS_Subset
      <4>2. GotFits(after, kept, KeptGot(D, frozen))
        BY <1>1, <1>3, KeptGotFits DEF kept
      <4>3. SumFunction(KeptGot(D, frozen)) \in Nat
        BY <4>1, <4>2, GotSum
      <4>4. GotFits(after, Hard(D), HardGot(D)) /\ IsFiniteSet(Hard(D))
            /\ SumFunction(HardGot(D)) = Requested(Hard(D))
        BY <1>1, <4>1, HardGotFits DEF WholeSet
      <4>5. SumFunction(HardGot(D)) \in Nat
        BY <4>4, GotSum
      <4> QED BY <1>11, <4>3, <4>4, <4>5
    <3> QED BY <1>11, <1>12, <3>1
  <2>2. EntriesOf(result) = EntriesFor(D, new)
    BY <1>10, <1>12, EntriesOfSound DEF D
  <2>3. \A d \in kept : new[d] = got[d]
    BY <1>5, <1>8, <1>12, <2>1
  <2>4. \A d \in kept : EntryOf(got, d) = EntryOf(new, d) /\ new[d] > 0 /\ d \in D
    BY <1>3, <1>6, <2>3 DEF EntryOf
  <2>5. EntriesFor(kept, got) \subseteq EntriesFor(D, new)
    BY <2>4 DEF EntriesFor
  <2> QED BY <1>3, <2>2, <2>5
<1> QED BY <1>4, <1>5, <1>10, <1>12 DEF B, D, touched, es, stay

------------------------------------------------------------------------------
(* What is forecast and then ordered *)

\* If one amount is taken off every summand, it is taken off the sum at least
\* once, or nothing is left.
LEMMA TakenOff ==
  ASSUME NEW w, NEW v, NEW S, IsFiniteSet(S), NEW B \in Nat,
         \A x \in S : /\ w[x] \in Nat /\ v[x] \in Nat
                      /\ v[x] = 0 \/ v[x] <= w[x] - B
  PROVE  SumFunctionOnSet(v, S) = 0
         \/ SumFunctionOnSet(v, S) <= SumFunctionOnSet(w, S) - B
<1>1. CASE \A x \in S : v[x] = 0
  BY <1>1, SumZero
<1>2. CASE \E x \in S : v[x] # 0
  <2>1. PICK p \in S : v[p] # 0
    BY <1>2
  <2> DEFINE g == [x \in S |-> IF x = p THEN w[x] - B ELSE w[x]]
             R == S \ {p}
  <2>2. \A x \in S : v[x] \in Int /\ g[x] \in Int /\ v[x] <= g[x] /\ w[x] \in Int
    BY <2>1
  <2>3. g[p] = w[p] - B /\ \A x \in R : g[x] = w[x]
    BY <2>1
  <2>4. IsFiniteSet(R) /\ R \subseteq S
    BY FS_Subset
  <2> HIDE DEF g
  <2>5. SumFunctionOnSet(v, S) <= SumFunctionOnSet(g, S)
    BY <2>2, SumLeq
  <2>6. SumFunctionOnSet(g, S) = g[p] + SumFunctionOnSet(g, R)
    BY <2>2, SumRemove
  <2>7. SumFunctionOnSet(w, S) = w[p] + SumFunctionOnSet(w, R)
    BY <2>2, SumRemove
  <2>8. SumFunctionOnSet(g, R) = SumFunctionOnSet(w, R)
    <3> HIDE DEF R
    <3>1. \A x \in R : g[x] \in Int /\ g[x] = w[x]
      BY <2>2, <2>3, <2>4
    <3> QED BY <2>4, <3>1, SumSame
  <2>9. SumFunctionOnSet(w, R) \in Int /\ w[p] \in Int /\ SumFunctionOnSet(v, S) \in Int
    <3> HIDE DEF R
    <3>1. (\A x \in R : w[x] \in Int) /\ (\A x \in S : v[x] \in Int) /\ w[p] \in Int
      BY <2>2, <2>4
    <3> QED BY <2>4, <3>1, SumInt
  <2> HIDE DEF R
  <2> QED BY <2>3, <2>5, <2>6, <2>7, <2>8, <2>9
<1> QED BY <1>1, <1>2

LEMMA RemainderMeans ==
  ASSUME NEW in, IsLineInputs(in), NEW f \in DOMAIN in.forecasts
  PROVE  LET B == CycleBacklog(in, KeyOf[f]) IN
         /\ Remainder(in, f) \in Nat
         /\ Remainder(in, f) = 0 \/ Remainder(in, f) <= in.forecasts[f] - B
<1> DEFINE B == CycleBacklog(in, KeyOf[f])
           fc == in.forecasts[f]
           q == Max({0, fc - B})
<1>1. f \in Refs /\ fc \in Nat /\ B \in Nat
  BY CycleBacklogType DEF IsLineInputs, IsPartial, Refs
<1>2. UnitOf(in, f) \in Nat \ {0}
  BY <1>1, UnitsOf
<1>3. Remainder(in, f) = FloorToUnit(q, UnitOf(in, f))
  BY DEF Remainder, UnitOf
<1> HIDE DEF B, fc
<1>4. q = IF 0 >= fc - B THEN 0 ELSE fc - B
  <2>1. fc - B \in Int /\ 0 \in Int
    BY <1>1
  <2> QED BY <2>1, MaxOfTwo
<1> HIDE DEF q
<1>5. q \in Nat
  BY <1>1, <1>4
<1>6. FloorToUnit(q, UnitOf(in, f)) \in Nat /\ FloorToUnit(q, UnitOf(in, f)) <= q
  BY <1>2, <1>5, FloorMeans
<1>7. Remainder(in, f) = 0 \/ Remainder(in, f) <= fc - B
  BY <1>1, <1>3, <1>4, <1>6
<1> QED BY <1>3, <1>6, <1>7 DEF B, fc

LEMMA RequestedByRef ==
  ASSUME NEW X, IsFiniteSet(X), X \subseteq Demand, NEW R, IsFiniteSet(R),
         \A d \in X : d.ref \in R, NEW g,
         \A r \in R : g[r] = Requested({d \in X : d.ref = r})
  PROVE  Requested(X) = SumFunctionOnSet(g, R)
<1> DEFINE w == [d \in X |-> d.requested]
           h == [d \in X |-> d.ref]
<1>1. (\A d \in X : w[d] \in Int) /\ h \in [X -> R]
  BY DEF Demand
<1>2. \A d \in X : w[d] = d.requested /\ h[d] = d.ref
  OBVIOUS
<1> HIDE DEF w, h
<1> DEFINE C == [r \in R |-> {d \in X : d.ref = r}]
<1>3. \A r \in R : g[r] = SumFunctionOnSet(w, C[r])
  <2> SUFFICES ASSUME NEW r \in R
               PROVE  g[r] = SumFunctionOnSet(w, C[r])
    OBVIOUS
  <2> DEFINE A == {d \in X : d.ref = r}
  <2>1. A = C[r]
    OBVIOUS
  <2>2. IsFiniteSet(A) /\ A \subseteq Demand /\ \A d \in A : w[d] = d.requested
    <3>1. A \subseteq X
      OBVIOUS
    <3> HIDE DEF A
    <3> QED BY <1>2, <3>1, FS_Subset
  <2>3. g[r] = Requested(A)
    OBVIOUS
  <2> HIDE DEF A
  <2>4. g[r] = SumFunctionOnSet(w, A)
    BY <2>2, <2>3, RequestedIs
  <2> QED BY <2>1, <2>4
<1>4. (\A r \in R : \A d \in X : d \in C[r] <=> h[d] = r) /\ C \in [R -> SUBSET X]
  BY <1>2
<1> HIDE DEF C
<1>5. SumFunctionOnSet(w, X) = SumFunctionOnSet(g, R)
  BY <1>1, <1>3, <1>4, SumClasses
<1> QED BY <1>2, <1>5, RequestedIs

LEMMA CountedOnce ==
  ASSUME NEW in, IsLineInputs(in), NEW key \in Keys
  PROVE  LET demands == {d \in Demands(in) :
                           KeyOf[d.ref] = key /\ ~Overdue(d) /\ d.ref \notin Manuals}
             forecast == SumFunctionOnSet(in.forecasts,
                                          {f \in DOMAIN in.forecasts : KeyOf[f] = key})
         IN Requested(demands) <= Max({CycleBacklog(in, key), forecast})
<1> DEFINE X == {d \in Demands(in) : KeyOf[d.ref] = key /\ ~Overdue(d) /\ d.ref \notin Manuals}
           RO == {p \in DOMAIN in.orders : InCycle(in, p) /\ KeyOf[p] = key}
           RF == {f \in DOMAIN in.forecasts : KeyOf[f] = key}
           B == CycleBacklog(in, key)
           F == SumFunctionOnSet(in.forecasts, RF)
           w == [d \in X |-> d.requested]
           h == [d \in X |-> d.ref]
           Of(r) == {d \in X : h[d] = r}
           g == [r \in RO \cup RF |-> Requested(Of(r))]
           bl == [o \in RO |-> in.orders[o].backlog]
<1>1. /\ IsFiniteSet(Demands(in)) /\ Demands(in) \subseteq Demand
      /\ \A d \in Demands(in) : d \in DemandsOf(in, d.ref)
  BY DemandsMean DEF WholeDemands
<1>2. IsFiniteSet(X) /\ X \subseteq Demands(in) /\ X \subseteq Demand
  <2>1. X \subseteq Demands(in)
    OBVIOUS
  <2> HIDE DEF X
  <2> QED BY <1>1, <2>1, FS_Subset
<1>3. /\ Orders \cap Forecasts = {} /\ Orders \cap Manuals = {} /\ Forecasts \cap Manuals = {}
      /\ Refs = Orders \cup Forecasts \cup Manuals /\ AsOf \in Nat /\ CycleEnd \in Nat
  BY RulesAssumption DEF Refs
<1>4. /\ DOMAIN in.orders \subseteq Orders /\ DOMAIN in.forecasts \subseteq Forecasts
      /\ \A o \in DOMAIN in.orders : in.orders[o].backlog \in Nat /\ in.orders[o].due \in Nat
      /\ \A f \in DOMAIN in.forecasts : in.forecasts[f] \in Nat
  BY DEF IsLineInputs, IsPartial
<1>5. RO \subseteq Refs /\ RF \subseteq Refs /\ RO \cap RF = {}
      /\ IsFiniteSet(RO) /\ IsFiniteSet(RF)
  <2>1. RO \subseteq Refs /\ RF \subseteq Refs /\ RO \cap RF = {}
    BY <1>3, <1>4
  <2> HIDE DEF RO, RF
  <2> QED BY <2>1, Finiteness
<1>6. ASSUME NEW d \in X
      PROVE  d.ref \in RO \cup RF /\ IsDemanded(in, d.ref) /\ d \in DemandsOf(in, d.ref)
  <2>1. /\ d \in DemandsOf(in, d.ref) /\ d \in Demand /\ KeyOf[d.ref] = key
        /\ ~Overdue(d) /\ d.ref \notin Manuals
    BY <1>1, <1>2
  <2>2. d.ref \in Refs
    BY <2>1 DEF Demand
  <2>3. IsDemanded(in, d.ref)
    BY <2>1 DEF DemandsOf
  <2>4. d.due = DueOf(in, d.ref)
    BY <2>1, <2>2, DemandsOfMean
  <2>5. CASE d.ref \in Orders
    <3>1. /\ d.ref \in DOMAIN in.orders /\ in.orders[d.ref].due <= CycleEnd
          /\ d.due = in.orders[d.ref].due
      BY <2>3, <2>4, <2>5 DEF IsDemanded, DueOf
    <3>2. InCycle(in, d.ref)
      BY <1>3, <1>4, <2>1, <3>1 DEF InCycle, Overdue
    <3> QED BY <2>1, <2>3, <3>1, <3>2
  <2>6. CASE d.ref \in Forecasts
    <3>1. d.ref \in DOMAIN in.forecasts
      BY <1>3, <2>3, <2>6 DEF IsDemanded
    <3> QED BY <2>1, <2>3, <3>1
  <2> QED BY <1>3, <2>1, <2>2, <2>5, <2>6
<1>7. \A d \in X : w[d] = d.requested /\ d.requested \in Int /\ h[d] = d.ref
  BY <1>2 DEF Demand
<1>8. ASSUME NEW r \in RO \cup RF
      PROVE  /\ g[r] = SumFunctionOnSet(w, Of(r)) /\ g[r] \in Nat
             /\ g[r] = 0 \/ (IsDemanded(in, r) /\ g[r] <= QuantityOfRef(in, r))
  <2>1. IsFiniteSet(Of(r)) /\ Of(r) \subseteq X /\ Of(r) \subseteq Demand
    <3>1. Of(r) \subseteq X
      OBVIOUS
    <3> HIDE DEF Of
    <3> QED BY <1>2, <3>1, FS_Subset
  <2>2. g[r] = Requested(Of(r))
    OBVIOUS
  <2>3. \A d \in Of(r) : w[d] = d.requested /\ d.ref = r
    BY <1>7
  <2> HIDE DEF Of, w, g
  <2>4. g[r] = SumFunctionOnSet(w, Of(r)) /\ g[r] \in Nat
    BY <2>1, <2>2, <2>3, RequestedIs
  <2>5. CASE Of(r) = {}
    BY <2>4, <2>5, SumEmpty
  <2>6. CASE Of(r) # {}
    <3>1. IsDemanded(in, r) /\ Of(r) \subseteq DemandsOf(in, r)
      BY <1>6, <2>1, <2>3, <2>6
    <3>2. r \in Refs
      BY <1>5
    <3> DEFINE A == DemandsOf(in, r)
               u == [d \in A |-> d.requested]
    <3>3. IsFiniteSet(A) /\ A \subseteq Demand /\ Requested(A) = QuantityOfRef(in, r)
      BY <3>1, <3>2, DemandsOfMean
    <3>4. \A d \in A : u[d] = d.requested /\ u[d] \in Nat
      BY <3>3 DEF Demand
    <3>5. Of(r) \in SUBSET A
      BY <3>1
    <3> HIDE DEF A, u
    <3>6. Requested(A) = SumFunctionOnSet(u, A) /\ Requested(Of(r)) = SumFunctionOnSet(u, Of(r))
      <4>1. \A d \in Of(r) : u[d] = d.requested
        BY <3>4, <3>5
      <4> QED BY <2>1, <3>3, <3>4, <4>1, RequestedIs
    <3>7. SumFunctionOnSet(u, Of(r)) <= SumFunctionOnSet(u, A)
      BY <3>3, <3>4, <3>5, SumSubset
    <3> QED BY <2>2, <2>4, <3>1, <3>3, <3>6, <3>7
  <2> QED BY <2>4, <2>5, <2>6
<1>9. Requested(X) = SumFunctionOnSet(g, RO) + SumFunctionOnSet(g, RF)
  <2>1. Requested(X) = SumFunctionOnSet(w, X)
    <3>1. \A d \in X : w[d] = d.requested
      BY <1>7
    <3> HIDE DEF X, w
    <3> QED BY <1>2, <3>1, RequestedIs
  <2>2. \A d \in X : w[d] \in Int /\ h[d] \in RO \cup RF
    BY <1>6, <1>7
  <2>3. \A r \in RO \cup RF : g[r] = SumFunctionOnSet(w, {d \in X : h[d] = r})
    BY <1>8
  <2>4. \A r \in RO \cup RF : g[r] \in Int
    <3>1. \A r \in RO \cup RF : g[r] \in Nat
      BY <1>8
    <3> HIDE DEF g, RO, RF
    <3> QED BY <3>1
  <2>5. IsFiniteSet(RO \cup RF)
    BY <1>5, Finiteness
  <2>8. \A r \in RO \cup RF : g[r] = Requested({d \in X : d.ref = r})
    <3>1. \A r : Of(r) = {d \in X : d.ref = r}
      BY <1>7
    <3>2. \A r \in RO \cup RF : g[r] = Requested(Of(r))
      OBVIOUS
    <3> QED BY <3>1, <3>2
  <2> HIDE DEF X, w, h, g, RO, RF
  <2>6. SumFunctionOnSet(w, X) = SumFunctionOnSet(g, RO \cup RF)
    <3> DEFINE R == RO \cup RF
    <3>1. \A d \in X : d.ref \in R
      BY <1>6
    <3>2. \A r \in R : g[r] = Requested({d \in X : d.ref = r})
      BY <2>8
    <3>3. IsFiniteSet(R)
      BY <2>5
    <3> HIDE DEF R
    <3>4. Requested(X) = SumFunctionOnSet(g, R)
      BY <1>2, <3>1, <3>2, <3>3, RequestedByRef
    <3> QED BY <2>1, <3>4 DEF R
  <2>7. SumFunctionOnSet(g, RO \cup RF) = SumFunctionOnSet(g, RO) + SumFunctionOnSet(g, RF)
    BY <1>5, <2>4, SumSplit
  <2> QED BY <2>1, <2>6, <2>7
<1>10. SumFunctionOnSet(g, RO) <= B /\ B \in Nat
  <2>1. B = SumFunctionOnSet(bl, RO)
    <3>1. B = SumFunction(bl)
      BY DEF CycleBacklog
    <3>2. DOMAIN bl = RO
      OBVIOUS
    <3> HIDE DEF B, bl, RO
    <3> QED BY <3>1, <3>2 DEF SumFunction
  <2>2. \A o \in RO : bl[o] \in Nat /\ bl[o] = in.orders[o].backlog /\ o \in Orders
    BY <1>4
  <2>3. ASSUME NEW o \in RO
        PROVE  g[o] \in Int /\ bl[o] \in Int /\ g[o] <= bl[o]
    <3>1. /\ g[o] \in Nat /\ bl[o] \in Nat /\ bl[o] = in.orders[o].backlog /\ o \in Orders
          /\ g[o] = 0 \/ g[o] <= QuantityOfRef(in, o)
      BY <1>8, <2>2
    <3>2. UnitOf(in, o) \in Nat \ {0}
      BY <1>5, UnitsOf
    <3> HIDE DEF g, bl, RO
    <3>3. QuantityOfRef(in, o) = FloorToUnit(bl[o], UnitOf(in, o))
      BY <3>1 DEF QuantityOfRef
    <3>4. QuantityOfRef(in, o) \in Nat /\ QuantityOfRef(in, o) <= bl[o]
      BY <3>1, <3>2, <3>3, FloorMeans
    <3> QED BY <3>1, <3>4
  <2>4. \A o \in RO : g[o] \in Int /\ bl[o] \in Int /\ g[o] <= bl[o]
    BY <2>3
  <2>5. B \in Nat
    BY CycleBacklogType
  <2> HIDE DEF g, bl, RO, B
  <2>6. SumFunctionOnSet(g, RO) <= SumFunctionOnSet(bl, RO)
    BY <1>5, <2>4, SumLeq
  <2> QED BY <2>1, <2>5, <2>6
<1>11. SumFunctionOnSet(g, RF) = 0 \/ SumFunctionOnSet(g, RF) <= F - B
  <2>1. ASSUME NEW f \in RF
        PROVE  /\ in.forecasts[f] \in Nat /\ g[f] \in Nat
               /\ g[f] = 0 \/ g[f] <= in.forecasts[f] - B
    <3>1. /\ f \in DOMAIN in.forecasts /\ KeyOf[f] = key /\ in.forecasts[f] \in Nat
          /\ f \in Forecasts /\ f \notin Orders
      BY <1>3, <1>4
    <3>2. QuantityOfRef(in, f) = Remainder(in, f)
      BY <3>1 DEF QuantityOfRef
    <3>3. /\ Remainder(in, f) \in Nat
          /\ Remainder(in, f) = 0 \/ Remainder(in, f) <= in.forecasts[f] - B
      BY <3>1, RemainderMeans
    <3>4. g[f] \in Nat /\ (g[f] = 0 \/ g[f] <= QuantityOfRef(in, f))
      BY <1>8
    <3>5. B \in Nat
      BY <1>10
    <3> HIDE DEF g, B, RF
    <3> QED BY <3>1, <3>2, <3>3, <3>4, <3>5
  <2>2. \A f \in RF : /\ in.forecasts[f] \in Nat /\ g[f] \in Nat
                      /\ g[f] = 0 \/ g[f] <= in.forecasts[f] - B
    BY <2>1
  <2>3. B \in Nat
    BY <1>10
  <2> HIDE DEF g, B, RF
  <2> QED BY <1>5, <2>2, <2>3, TakenOff
<1>12. F \in Int /\ SumFunctionOnSet(g, RO) \in Nat /\ SumFunctionOnSet(g, RF) \in Nat
  <2>1. \A f \in RF : in.forecasts[f] \in Int
    BY <1>4
  <2>2. (\A r \in RO : g[r] \in Nat) /\ \A r \in RF : g[r] \in Nat
    BY <1>8
  <2> HIDE DEF g, RO, RF
  <2> QED BY <1>5, <2>1, <2>2, SumInt, SumNat
<1>13. Max({B, F}) = IF B >= F THEN B ELSE F
  <2>1. B \in Int /\ F \in Int
    BY <1>10, <1>12
  <2> HIDE DEF B, F
  <2> QED BY <2>1, MaxOfTwo
<1>14. Requested(X) <= Max({B, F})
  <2> HIDE DEF X, g, RO, RF, B, F
  <2> QED BY <1>9, <1>10, <1>11, <1>12, <1>13
<1> QED BY <1>14

------------------------------------------------------------------------------
(* The inputs stay inputs *)

LEMMA PartialPut ==
  ASSUME NEW f, NEW S, NEW T, IsPartial(f, S, T), NEW x \in S, NEW v \in T
  PROVE  IsPartial(Over([s \in {x} |-> v], f), S, T)
BY DEF IsPartial, Over

LEMMA PartialOut ==
  ASSUME NEW f, NEW S, NEW T, IsPartial(f, S, T), NEW x
  PROVE  IsPartial(Restrict(f, DOMAIN f \ {x}), S, T)
BY DEF IsPartial, Restrict

\* What an outsider or a person may set.
IsValueOf(field, value) ==
  \/ field = "orders" /\ IsPartial(value, Orders, [backlog : Nat, due : Nat])
  \/ field = "forecasts" /\ IsPartial(value, Forecasts, Nat)
  \/ field = "manual" /\ IsPartial(value, Manuals, Nat)
  \/ field = "wip" /\ IsPartial(value, Orders, Nat)
  \/ field = "pegs" /\ value \subseteq Refs
  \/ field \in {"floorOverrides", "pegLimits"} /\ IsPartial(value, Refs, Nat)
  \/ field = "capacity" /\ value \in Nat

Fields == {"orders", "forecasts", "manual", "commitments", "guarantees", "wip", "pegs",
           "floorOverrides", "pegLimits", "units", "margins", "inventory", "capacity"}

LEMMA SetKeepsInputs ==
  ASSUME NEW in, IsLineInputs(in), NEW field, NEW value, IsValueOf(field, value)
  PROVE  IsLineInputs([in EXCEPT ![field] = value])
<1> DEFINE out == [in EXCEPT ![field] = value]
<1>1. DOMAIN in = Fields
  BY DEF IsLineInputs, Fields
<1>2. /\ field \in Fields /\ field # "commitments" /\ field # "guarantees"
      /\ field # "units" /\ field # "margins" /\ field # "inventory"
  BY DEF IsValueOf, Fields
<1>3. /\ DOMAIN out = Fields /\ out[field] = value
      /\ \A g \in Fields : g # field => out[g] = in[g]
  BY <1>1, <1>2
<1> HIDE DEF out
<1>4. /\ out.commitments = in.commitments /\ out.guarantees = in.guarantees
      /\ out.units = in.units /\ out.margins = in.margins /\ out.inventory = in.inventory
  BY <1>2, <1>3 DEF Fields
<1>5. IsPartial(out.orders, Orders, [backlog : Nat, due : Nat])
  BY <1>3 DEF Fields, IsValueOf, IsLineInputs
<1>6. IsPartial(out.forecasts, Forecasts, Nat) /\ IsPartial(out.manual, Manuals, Nat)
  BY <1>3 DEF Fields, IsValueOf, IsLineInputs
<1>7. IsPartial(out.wip, Orders, Nat) /\ out.pegs \subseteq Refs
  BY <1>3 DEF Fields, IsValueOf, IsLineInputs
<1>8. IsPartial(out.floorOverrides, Refs, Nat) /\ IsPartial(out.pegLimits, Refs, Nat)
  BY <1>3 DEF Fields, IsValueOf, IsLineInputs
<1>9. out.capacity \in Nat
  BY <1>3 DEF Fields, IsValueOf, IsLineInputs
<1>10. IsLineInputs(out)
  BY <1>3, <1>4, <1>5, <1>6, <1>7, <1>8, <1>9 DEF IsLineInputs, Fields
<1> QED BY <1>10 DEF out

LEMMA ContractsKeepInputs ==
  ASSUME NEW in, IsLineInputs(in), NEW c \in Contracts
  PROVE  IsLineInputs([in EXCEPT !.commitments = c.commitments, !.guarantees = c.guarantees])
<1> DEFINE start == [Start EXCEPT !.commitments = c.commitments, !.guarantees = c.guarantees]
           out == [in EXCEPT !.commitments = c.commitments, !.guarantees = c.guarantees]
<1>1. IsLineInputs(start) /\ IsLineInputs(Start)
  BY LineAllocationAssumption
<1>2. DOMAIN Start = Fields /\ DOMAIN in = Fields
  BY <1>1 DEF IsLineInputs, Fields
<1>3. start.commitments = c.commitments /\ start.guarantees = c.guarantees
  BY <1>2 DEF Fields
<1>4. /\ DOMAIN out = Fields
      /\ out.commitments = c.commitments /\ out.guarantees = c.guarantees
      /\ \A g \in Fields \ {"commitments", "guarantees"} : out[g] = in[g]
  BY <1>2 DEF Fields
<1> HIDE DEF start, out
<1>5. /\ out.commitments = start.commitments /\ out.guarantees = start.guarantees
  BY <1>3, <1>4
<1>6. /\ out.orders = in.orders /\ out.forecasts = in.forecasts /\ out.manual = in.manual
      /\ out.wip = in.wip /\ out.pegs = in.pegs /\ out.units = in.units
      /\ out.floorOverrides = in.floorOverrides /\ out.pegLimits = in.pegLimits
      /\ out.margins = in.margins /\ out.inventory = in.inventory /\ out.capacity = in.capacity
  BY <1>4 DEF Fields
<1>7. IsLineInputs(out)
  BY <1>1, <1>4, <1>5, <1>6 DEF IsLineInputs, Fields
<1> QED BY <1>7 DEF out

LEMMA ChangesKeepInputs ==
  ASSUME IsLineInputs(inputs), changes \in 0..MaxChanges, Changes
  PROVE  IsLineInputs(inputs') /\ changes' \in 0..MaxChanges
<1>1. changes' \in 0..MaxChanges
  <2>1. MaxChanges \in Nat
    BY LineAllocationAssumption
  <2>2. changes > 0 /\ changes' = changes - 1
    BY DEF Changes
  <2> QED BY <2>1, <2>2
<1> SUFFICES IsLineInputs(inputs')
  BY <1>1
<1>2. ASSUME NEW field, NEW value, IsValueOf(field, value), Set(field, value)
      PROVE  IsLineInputs(inputs')
  BY <1>2, SetKeepsInputs DEF Set
<1>3. Quantities \subseteq Nat /\ Capacities \subseteq Nat /\ Dues \subseteq Nat
  BY LineAllocationAssumption
<1>4. Orders \subseteq Refs /\ Forecasts \subseteq Refs /\ Manuals \subseteq Refs
  BY DEF Refs
<1>5. CASE OrderChanges
  <2>1. PICK o \in Orders, q \in Quantities, due \in Dues :
          Put("orders", o, [backlog |-> q, due |-> due])
    BY <1>5 DEF OrderChanges
  <2> DEFINE value == Over([s \in {o} |-> [backlog |-> q, due |-> due]], inputs.orders)
  <2>2. IsPartial(value, Orders, [backlog : Nat, due : Nat])
    <3>1. [backlog |-> q, due |-> due] \in [backlog : Nat, due : Nat]
      BY <1>3
    <3>2. IsPartial(inputs.orders, Orders, [backlog : Nat, due : Nat])
      BY DEF IsLineInputs
    <3> DEFINE v == [backlog |-> q, due |-> due]
               T == [backlog : Nat, due : Nat]
    <3>3. v \in T /\ IsPartial(inputs.orders, Orders, T)
      BY <3>1, <3>2
    <3> HIDE DEF v, T
    <3>4. IsPartial(Over([s \in {o} |-> v], inputs.orders), Orders, T)
      BY <3>3, PartialPut
    <3> QED BY <3>4 DEF v, T
  <2>3. Set("orders", value)
    BY <2>1 DEF Put
  <2>4. IsValueOf("orders", value)
    BY <2>2 DEF IsValueOf
  <2> QED BY <1>2, <2>3, <2>4
<1>6. CASE ForecastChanges
  <2>1. IsPartial(inputs.forecasts, Forecasts, Nat)
    BY DEF IsLineInputs
  <2>2. ASSUME NEW f \in Forecasts, NEW q \in Quantities, Put("forecasts", f, q)
        PROVE  IsLineInputs(inputs')
    <3> DEFINE value == Over([s \in {f} |-> q], inputs.forecasts)
    <3>1. IsPartial(value, Forecasts, Nat)
      BY <1>3, <2>1, PartialPut
    <3>2. Set("forecasts", value) /\ IsValueOf("forecasts", value)
      BY <2>2, <3>1 DEF Put, IsValueOf
    <3> QED BY <1>2, <3>2
  <2>3. ASSUME NEW f \in Forecasts,
               Set("forecasts", Restrict(inputs.forecasts, DOMAIN inputs.forecasts \ {f}))
        PROVE  IsLineInputs(inputs')
    <3> DEFINE value == Restrict(inputs.forecasts, DOMAIN inputs.forecasts \ {f})
    <3>1. IsPartial(value, Forecasts, Nat)
      BY <2>1, PartialOut
    <3>2. Set("forecasts", value) /\ IsValueOf("forecasts", value)
      BY <2>3, <3>1 DEF IsValueOf
    <3> QED BY <1>2, <3>2
  <2> QED BY <1>6, <2>2, <2>3 DEF ForecastChanges
<1>7. CASE ManualChanges
  <2>1. PICK m \in Manuals, q \in Quantities : Put("manual", m, q)
    BY <1>7 DEF ManualChanges
  <2> DEFINE value == Over([s \in {m} |-> q], inputs.manual)
  <2>2. IsPartial(value, Manuals, Nat)
    <3>1. IsPartial(inputs.manual, Manuals, Nat)
      BY DEF IsLineInputs
    <3> QED BY <1>3, <3>1, PartialPut
  <2>3. Set("manual", value) /\ IsValueOf("manual", value)
    BY <2>1, <2>2 DEF Put, IsValueOf
  <2> QED BY <1>2, <2>3
<1>8. CASE ContractChanges
  BY <1>8, ContractsKeepInputs DEF ContractChanges
<1>9. CASE SupplyChange
  <2>1. ASSUME NEW c \in Capacities, Set("capacity", c)
        PROVE  IsLineInputs(inputs')
    <3>1. IsValueOf("capacity", c)
      BY <1>3 DEF IsValueOf
    <3> QED BY <1>2, <2>1, <3>1
  <2>2. ASSUME NEW o \in Orders, NEW q \in Quantities, Set("wip", [s \in {o} |-> q])
        PROVE  IsLineInputs(inputs')
    <3>1. IsPartial([s \in {o} |-> q], Orders, Nat)
      BY <1>3 DEF IsPartial
    <3>2. IsValueOf("wip", [s \in {o} |-> q])
      BY <3>1 DEF IsValueOf
    <3> QED BY <1>2, <2>2, <3>2
  <2>3. ASSUME NEW f \in Forecasts, Set("pegs", {f})
        PROVE  IsLineInputs(inputs')
    <3>1. IsValueOf("pegs", {f})
      BY <1>4 DEF IsValueOf
    <3> QED BY <1>2, <2>3, <3>1
  <2> QED BY <1>9, <2>1, <2>2, <2>3 DEF SupplyChange
<1> QED BY <1>5, <1>6, <1>7, <1>8, <1>9 DEF Changes

LEMMA ResolveKeepsInputs ==
  ASSUME IsLineInputs(inputs), HumanResolve
  PROVE  IsLineInputs(inputs')
<1>1. PICK r \in Present(inputs), q \in Answers :
        Put("floorOverrides", r, q) \/ Put("pegLimits", r, q)
  BY DEF HumanResolve
<1>2. r \in Refs /\ q \in Nat
  <2>1. Present(inputs) \subseteq Refs
    BY DEF Present, IsLineInputs, IsPartial, Refs
  <2> QED BY <2>1, LineAllocationAssumption
<1>3. IsPartial(inputs.floorOverrides, Refs, Nat) /\ IsPartial(inputs.pegLimits, Refs, Nat)
  BY DEF IsLineInputs
<1> DEFINE floors == Over([s \in {r} |-> q], inputs.floorOverrides)
           limits == Over([s \in {r} |-> q], inputs.pegLimits)
<1>4. IsPartial(floors, Refs, Nat) /\ IsPartial(limits, Refs, Nat)
  BY <1>2, <1>3, PartialPut
<1>5. Set("floorOverrides", floors) \/ Set("pegLimits", limits)
  BY <1>1 DEF Put
<1>6. IsValueOf("floorOverrides", floors) /\ IsValueOf("pegLimits", limits)
  BY <1>4 DEF IsValueOf
<1> QED BY <1>5, <1>6, SetKeepsInputs DEF Set

------------------------------------------------------------------------------
(* The invariant *)

\* The last conclusion was a sound division of the inputs it was drawn from.
IInv == TypeOK /\ (concluded => Concluded(decided, mode, entries))

LEMMA InitHolds ==
  Init => IInv
<1> SUFFICES ASSUME Init
             PROVE  IInv
  OBVIOUS
<1>1. IsLineInputs(Start)
  BY LineAllocationAssumption
<1>2. Demands(Start) \subseteq Demand
  BY <1>1, DemandsMean DEF WholeDemands
<1>3. changes \in 0..MaxChanges
  <2>1. MaxChanges \in Nat
    BY LineAllocationAssumption
  <2> QED BY <2>1 DEF Init
<1> QED BY <1>1, <1>2, <1>3 DEF Init, IInv, TypeOK

\* A second reading of the inputs leaves a sound result sound.
LEMMA LaidOnTopSound ==
  ASSUME IsLineInputs(inputs), IsLineInputs(inputs'), NEW first,
         first.outcome \in Outcomes,
         first.outcome = "allocated" => Sound(inputs, mode, first.got)
  PROVE  /\ LaidOnTop(first).outcome \in Outcomes
         /\ LaidOnTop(first).outcome = "allocated"
              => Sound(inputs', mode, LaidOnTop(first).got)
<1>1. CASE first.outcome = "allocated" /\ inputs' # inputs
  <2> DEFINE after == inputs'
             result == Continue(after, EntriesFor(Demands(inputs), first.got),
                                DiffInputs(inputs, after), mode)
  <2>1. EntriesOf(first) = EntriesFor(Demands(inputs), first.got)
    BY <1>1, EntriesOfSound
  <2>2. LaidOnTop(first) = result
    BY <1>1, <2>1 DEF LaidOnTop
  <2>3. IsLineInputs(after)
    OBVIOUS
  <2>4. result.outcome \in Outcomes
        /\ (result.outcome = "allocated" => Sound(after, mode, result.got))
    <3> HIDE DEF after
    <3> QED BY <1>1, <2>3, ContinueSound
  <2> HIDE DEF result
  <2> QED BY <2>2, <2>4
<1>2. CASE first.outcome # "allocated" \/ inputs' = inputs
  <2>1. LaidOnTop(first) = first
    BY <1>2 DEF LaidOnTop
  <2> QED BY <1>2, <2>1
<1> QED BY <1>1, <1>2

\* A coordination writes a sound conclusion, or the last one stands.
LEMMA CoordinateKeeps ==
  ASSUME IInv, NEW first, Coordinate(first),
         first.outcome \in Outcomes,
         first.outcome = "allocated" => Sound(inputs, mode, first.got)
  PROVE  IInv'
<1> DEFINE result == LaidOnTop(first)
<1>1. IsLineInputs(inputs) /\ IsLineInputs(decided) /\ changes \in 0..MaxChanges
  BY DEF IInv, TypeOK
<1>2. IsLineInputs(inputs') /\ changes' \in 0..MaxChanges
  <2>1. CASE Changes
    BY <1>1, <2>1, ChangesKeepInputs
  <2>2. CASE UNCHANGED <<inputs, changes>>
    BY <1>1, <2>2
  <2> QED BY <2>1, <2>2 DEF Coordinate
<1>3. /\ result.outcome \in Outcomes
      /\ result.outcome = "allocated" => Sound(inputs', mode, result.got)
  BY <1>1, <1>2, LaidOnTopSound
<1>4. mode' = mode /\ hold = "none" /\ Conclude(result)
  BY DEF Coordinate
<1>5. \A in : IsLineInputs(in) => Demands(in) \subseteq Demand
  BY DemandsMean DEF WholeDemands
<1>6. CASE result.outcome = "allocated"
  <2> DEFINE es == EntriesFor(Demands(inputs'), result.got)
  <2>1. concluded' = TRUE /\ decided' = inputs' /\ entries' = EntriesOf(result) /\ hold' = hold
    BY <1>4, <1>6 DEF Conclude
  <2>2. entries' = es
    BY <1>3, <1>6, <2>1, EntriesOfSound
  <2>3. Concluded(inputs', mode, es)
    BY <1>2, <1>3, <1>6, ConcludedBy
  <2>4. es \subseteq Entry
    <3>1. WholeDemands(inputs', Demands(inputs')) /\ GotFits(inputs', Demands(inputs'), result.got)
      BY <1>2, <1>3, <1>6, DemandsMean DEF Sound
    <3> QED BY <3>1, EntriesMean
  <2> HIDE DEF es, result
  <2>5. Concluded(decided', mode', entries')
    BY <1>4, <2>1, <2>2, <2>3
  <2> QED BY <1>2, <1>4, <1>5, <2>1, <2>2, <2>4, <2>5 DEF IInv, TypeOK
<1>7. CASE result.outcome # "allocated"
  <2>1. hold' = result.outcome /\ UNCHANGED <<concluded, decided, entries>>
    BY <1>4, <1>7 DEF Conclude
  <2>2. hold' \in {"none", "pegged_exceed_capacity", "commitments_exceed_capacity"}
    BY <1>3, <1>7, <2>1 DEF Outcomes
  <2> HIDE DEF result
  <2> QED BY <1>2, <1>4, <1>5, <2>1, <2>2 DEF IInv, TypeOK
<1> QED BY <1>6, <1>7

\* What a continuing coordination starts from is sound.
LEMMA ContinuingFirst ==
  ASSUME IInv, concluded
  PROVE  LET first == Continue(inputs, entries, DiffInputs(decided, inputs), mode)
             stay == Frozen(entries, Touched(decided, inputs))
         IN /\ first.outcome \in Outcomes
            /\ first.outcome = "allocated" =>
                 /\ Sound(inputs, mode, first.got)
                 /\ Total(stay) + Requested(Hard(Demands(inputs))) <= Supply(inputs)
                      => stay \subseteq EntriesOf(first)
<1> DEFINE got == GotOf(decided, entries)
           es == EntriesFor(Demands(decided), got)
<1>1. IsLineInputs(inputs) /\ IsLineInputs(decided)
  BY DEF IInv, TypeOK
<1>2. entries = es /\ Sound(decided, mode, got)
  BY DEF IInv, Concluded
<1> HIDE DEF got
<1> DEFINE first == Continue(inputs, es, DiffInputs(decided, inputs), mode)
           stay == Frozen(es, Touched(decided, inputs))
<1>3. /\ first.outcome \in Outcomes
      /\ first.outcome = "allocated" =>
           /\ Sound(inputs, mode, first.got)
           /\ Total(stay) + Requested(Hard(Demands(inputs))) <= Supply(inputs)
                => stay \subseteq EntriesOf(first)
  BY <1>1, <1>2, ContinueSound
<1> HIDE DEF es
<1> QED BY <1>2, <1>3

LEMMA NextKeeps ==
  IInv /\ [Next]_vars => IInv'
<1> SUFFICES ASSUME IInv, [Next]_vars
             PROVE  IInv'
  OBVIOUS
<1>1. IsLineInputs(inputs) /\ IsLineInputs(decided) /\ changes \in 0..MaxChanges
  BY DEF IInv, TypeOK
<1>2. \A in : IsLineInputs(in) => Demands(in) \subseteq Demand
  BY DemandsMean DEF WholeDemands
<1>3. CASE OutsideChange
  <2>1. IsLineInputs(inputs') /\ changes' \in 0..MaxChanges
    BY <1>1, <1>3, ChangesKeepInputs DEF OutsideChange
  <2>2. UNCHANGED <<mode, concluded, decided, entries, hold>>
    BY <1>3 DEF OutsideChange
  <2> QED BY <1>2, <2>1, <2>2 DEF IInv, TypeOK
<1>4. CASE HumanResolve
  <2>1. IsLineInputs(inputs')
    BY <1>1, <1>4, ResolveKeepsInputs
  <2>2. hold' = "none" /\ UNCHANGED <<mode, concluded, decided, entries, changes>>
    BY <1>4 DEF HumanResolve
  <2> QED BY <1>2, <2>1, <2>2 DEF IInv, TypeOK
<1>5. CASE Regular
  <2> DEFINE first == AllocateLine(inputs, mode, << >>)
  <2>1. first.outcome \in Outcomes
        /\ (first.outcome = "allocated" => Sound(inputs, mode, first.got))
    BY <1>1, FreshSound
  <2>2. Coordinate(first)
    BY <1>5 DEF Regular
  <2> HIDE DEF first
  <2> QED BY <2>1, <2>2, CoordinateKeeps
<1>6. CASE Continuing
  <2> DEFINE first == Continue(inputs, entries, DiffInputs(decided, inputs), mode)
  <2>1. concluded /\ Coordinate(first)
    BY <1>6 DEF Continuing
  <2>2. first.outcome \in Outcomes
        /\ (first.outcome = "allocated" => Sound(inputs, mode, first.got))
    BY <2>1, ContinuingFirst
  <2> HIDE DEF first
  <2> QED BY <2>1, <2>2, CoordinateKeeps
<1>7. CASE UNCHANGED vars
  BY <1>7 DEF vars, IInv, TypeOK
<1> QED BY <1>3, <1>4, <1>5, <1>6, <1>7 DEF Next

LEMMA Invariant ==
  Spec => []IInv
<1> QED BY InitHolds, NextKeeps, PTL DEF Spec

------------------------------------------------------------------------------
(* The theorems *)

\* Every state the coordinations of a line go through is one the code could
\* hold: the inputs stay well formed whatever changes, and a conclusion has an
\* entry of a positive quantity for known demands only.
THEOREM TypeCorrect ==
  Spec => []TypeOK
<1>1. IInv => TypeOK
  BY DEF IInv
<1> QED BY <1>1, Invariant, PTL

LEMMA ConcludedFits ==
  IInv => ConclusionFits
<1> SUFFICES ASSUME IInv, concluded
             PROVE  /\ Total(entries) <= Supply(decided)
                    /\ \A d \in Demands(decided) :
                         /\ Given(d) <= d.requested
                         /\ Given(d) % decided.units[KeyOf[d.ref]] = 0
                         /\ d.peg = "hard" => Given(d) = d.requested
                    /\ \A e \in entries : \E d \in Demands(decided) : d.ref = e.ref /\ d.peg = e.peg
  BY DEF ConclusionFits
<1> DEFINE D == Demands(decided)
           got == GotOf(decided, entries)
<1>1. WholeDemands(decided, D)
  BY DemandsMean DEF IInv, TypeOK
<1>2. entries = EntriesFor(D, got) /\ Sound(decided, mode, got)
  BY DEF IInv, Concluded
<1>3. \A d \in D : got[d] = Given(d)
  BY DEF GotOf, GivenIn, Given
<1> HIDE DEF D, got
<1>4. GotFits(decided, D, got) /\ SumFunction(got) <= Supply(decided)
      /\ \A d \in Hard(D) : got[d] = d.requested
  BY <1>2 DEF Sound, D
<1>5. Total(entries) = SumFunction(got)
      /\ \A e \in entries : \E d \in D : e = EntryOf(got, d)
  BY <1>1, <1>2, <1>4, EntriesMean
<1>6. \A d \in D : /\ Given(d) <= d.requested
                   /\ Given(d) % decided.units[KeyOf[d.ref]] = 0
                   /\ d.peg = "hard" => Given(d) = d.requested
  BY <1>3, <1>4 DEF GotFits, UnitOf, Hard
<1>7. \A e \in entries : \E d \in D : d.ref = e.ref /\ d.peg = e.peg
  BY <1>5 DEF EntryOf
<1> QED BY <1>4, <1>5, <1>6, <1>7 DEF D

\* No chain of coordinations, whatever they keep of older conclusions, gives
\* away more than the supply, more than a demand asks for, a broken contract
\* unit, or less than what is in production for an order.
THEOREM ConclusionsFit ==
  Spec => []ConclusionFits
<1> QED BY ConcludedFits, Invariant, PTL

LEMMA ConcludedKeeps ==
  IInv => CommitmentsKept
<1> SUFFICES ASSUME IInv, concluded, mode = "intervention", NEW key \in Keys
             PROVE  LET cycle == {d \in SoftOf(decided, key) : ~Overdue(d)} IN
                    /\ \A d \in SoftOf(decided, key) : Overdue(d) => Given(d) = d.requested
                    /\ SumFunction([d \in cycle |-> Given(d)]) >= EffectiveFloors(decided)[key]
  BY DEF CommitmentsKept
<1> DEFINE D == Demands(decided)
           got == GotOf(decided, entries)
           cycle == {d \in SoftOf(decided, key) : ~Overdue(d)}
           given == [d \in cycle |-> Given(d)]
<1>1. WholeDemands(decided, D) /\ IsFiniteSet(D)
  BY DemandsMean DEF IInv, TypeOK, WholeDemands
<1>2. Served(decided, got, Soft(D)) /\ GotFits(decided, D, got)
  BY DEF IInv, Concluded, Sound
<1>3. \A d \in D : got[d] = Given(d)
  BY DEF GotOf, GivenIn, Given
<1>4. cycle = OfKey(CycleOf(Soft(D)), key)
  BY DEF SoftOf, OfKey, CycleOf
<1>5. SoftOf(decided, key) \subseteq D /\ cycle \subseteq D
  BY DEF SoftOf, Soft
<1>6. EffectiveFloors(decided) = ContractFloors(decided, CycleOf(Soft(D)))
  BY FloorsAre
<1>7. \A d \in SoftOf(decided, key) : Overdue(d) => d \in LateOf(Soft(D))
  BY DEF SoftOf, LateOf
<1> HIDE DEF D, got, cycle
<1>8. \A d \in SoftOf(decided, key) : Overdue(d) => Given(d) = d.requested
  BY <1>2, <1>3, <1>5, <1>7 DEF Served
<1>9. SumFunction(given) = SumFunctionOnSet(got, cycle) /\ SumFunction(given) \in Int
  <2>1. IsFiniteSet(cycle)
    BY <1>1, <1>5, FS_Subset
  <2>2. DOMAIN given = cycle
    OBVIOUS
  <2>3. \A d \in cycle : got[d] \in Int
    <3>1. \A d \in cycle : got[d] \in Nat
      BY <1>2, <1>5 DEF GotFits
    <3> QED BY <3>1
  <2>4. \A d \in cycle : given[d] = got[d]
    BY <1>3, <1>5
  <2> HIDE DEF given
  <2>5. \A d \in cycle : given[d] \in Int /\ given[d] = got[d]
    BY <2>3, <2>4
  <2>6. SumFunctionOnSet(given, cycle) = SumFunctionOnSet(got, cycle)
        /\ SumFunctionOnSet(given, cycle) \in Int
    BY <2>1, <2>5, SumSame, SumInt
  <2> QED BY <2>2, <2>6 DEF SumFunction
<1>10. EffectiveFloors(decided)[key] <= SumFunctionOnSet(got, cycle)
  BY <1>2, <1>4, <1>6 DEF Served
<1>11. EffectiveFloors(decided)[key] \in Int
  <2>1. WholeSet(decided, Soft(D)) /\ CycleOf(Soft(D)) \subseteq Soft(D)
    BY <1>1, SoftAndHard DEF CycleOf
  <2>2. WholeSet(decided, CycleOf(Soft(D)))
    BY <2>1, WholeSubset
  <2>3. IsLineInputs(decided)
    BY DEF IInv, TypeOK
  <2>4. FloorsFit(decided, CycleOf(Soft(D)), ContractFloors(decided, CycleOf(Soft(D))))
    BY <2>2, <2>3, ContractFloorsFit DEF WholeSet
  <2>5. ContractFloors(decided, CycleOf(Soft(D)))[key] \in Nat
    BY <2>4 DEF FloorsFit
  <2> QED BY <1>6, <2>5
<1>12. SumFunction(given) >= EffectiveFloors(decided)[key]
  <2> HIDE DEF given
  <2> QED BY <1>9, <1>10, <1>11
<1> QED BY <1>8, <1>12 DEF cycle

\* Under the protocol that holds a line rather than break a commitment, every
\* conclusion gives what is overdue in full and each company its floor, also
\* when the part that met the floor was only kept.
THEOREM CommitmentsAreKept ==
  Spec => []CommitmentsKept
<1> QED BY ConcludedKeeps, Invariant, PTL

LEMMA FreshInOrder ==
  IInv => PrioritiesKept
<1> SUFFICES ASSUME IInv
             PROVE  InOrder(AllocateLine(inputs, mode, << >>).got)
  BY DEF PrioritiesKept
<1> DEFINE result == AllocateLine(inputs, mode, << >>)
           got == result.got
           soft == Soft(DOMAIN got)
           late == {d \in soft : Overdue(d) = TRUE}
           cycle == {d \in soft : Overdue(d) = FALSE}
           Margin(d) == inputs.margins[KeyOf[d.ref].item]
           GotFor(key) == SumFunctionOnSet(got, OfKey(cycle, key))
<1>1. IsLineInputs(inputs)
  BY DEF IInv, TypeOK
<1>2. late = LateOf(soft) /\ cycle = CycleOf(soft)
  BY DEF LateOf, CycleOf, Overdue
<1>3. result.outcome \in Outcomes
      /\ (result.outcome # "allocated" => got = << >>)
      /\ (result.outcome = "allocated" =>
            Sound(inputs, mode, got) /\ Ranked(inputs, got, Soft(Demands(inputs))))
  BY <1>1, FreshSound
<1>4. InOrder(got)
        <=> /\ \A d, e \in late : got[d] < d.requested /\ d.due < e.due => got[e] = 0
            /\ \A d, e \in cycle :
                 got[d] < d.requested /\ Margin(d) > Margin(e) =>
                   GotFor(KeyOf[e.ref]) <= EffectiveFloors(inputs)[KeyOf[e.ref]]
  BY DEF InOrder
<1> HIDE DEF result
<1>5. ASSUME result.outcome = "allocated"
      PROVE  InOrder(got)
  <2>1. DOMAIN got = Demands(inputs)
    BY <1>3, <1>5 DEF Sound, GotFits
  <2>2. Ranked(inputs, got, soft)
    BY <1>3, <1>5, <2>1
  <2>3. ContractFloors(inputs, CycleOf(soft)) = EffectiveFloors(inputs)
    BY <2>1, FloorsAre
  <2> HIDE DEF late, cycle, soft
  <2> QED BY <1>2, <1>4, <2>2, <2>3 DEF Ranked, MarginOf
<1>6. ASSUME result.outcome # "allocated"
      PROVE  InOrder(got)
  <2>1. got = << >>
    BY <1>3, <1>6
  <2>2. DOMAIN got = {}
    BY <2>1
  <2>3. late = {} /\ cycle = {}
    BY <2>2 DEF Soft
  <2> HIDE DEF late, cycle, soft
  <2> QED BY <1>4, <2>3
<1> QED BY <1>5, <1>6 DEF result

\* At every moment a division of the whole line would serve the oldest overdue
\* orders first, and then the floors, and then the higher margins.
THEOREM PrioritiesAreKept ==
  Spec => []PrioritiesKept
<1> QED BY FreshInOrder, Invariant, PTL

\* What was forecast and then ordered is divided once, for whatever orders and
\* forecasts there are of a company and item.
THEOREM NothingTwice ==
  Spec => []NotTwice
<1>1. IInv => NotTwice
  BY CountedOnce DEF IInv, TypeOK, NotTwice
<1> QED BY <1>1, Invariant, PTL

\* What no change since the last conclusion touches has the demands and floors
\* it had, so a continuing coordination may keep its entries.
THEOREM TouchedCoversAll ==
  Spec => []TouchedCovers
<1>1. IInv => TouchedCovers
  <2> SUFFICES ASSUME IInv
               PROVE  Covers(Touched(decided, inputs))
    BY DEF TouchedCovers, Touched
  <2>1. IsLineInputs(inputs) /\ IsLineInputs(decided)
    BY DEF IInv, TypeOK
  <2> QED BY <2>1, UntouchedCovers DEF Covers
<1> QED BY <1>1, Invariant, PTL

\* A continuing coordination moves nothing of an item that no change touches,
\* as long as there is supply for what stays.
THEOREM OthersAreKept ==
  Spec => OthersKeep
<1> DEFINE Step == concluded /\ decided' # decided /\ inputs' = inputs => Stay \subseteq entries'
<1>1. ASSUME IInv, [Next]_vars, concluded, decided' # decided, inputs' = inputs
      PROVE  Stay \subseteq entries'
  <2> DEFINE first == Continue(inputs, entries, DiffInputs(decided, inputs), mode)
             stay == Frozen(entries, Touched(decided, inputs))
  <2>1. Continuing
    BY <1>1 DEF Next, vars, OutsideChange, HumanResolve, Regular
  <2>2. /\ first.outcome \in Outcomes
        /\ first.outcome = "allocated" =>
             /\ Total(stay) + Requested(Hard(Demands(inputs))) <= Supply(inputs)
                  => stay \subseteq EntriesOf(first)
    BY <1>1, ContinuingFirst
  <2>3. Coordinate(first)
    BY <2>1 DEF Continuing
  <2>4. Stay = IF Total(stay) + Requested(Hard(Demands(inputs))) <= Supply(inputs)
               THEN stay ELSE {}
    BY DEF Stay, StayBut, IfSupplied, Frozen, Touched
  <2> HIDE DEF first, stay
  <2>5. Conclude(first)
    BY <1>1, <2>3 DEF Coordinate, LaidOnTop
  <2>6. first.outcome = "allocated" /\ entries' = EntriesOf(first)
    BY <1>1, <2>5 DEF Conclude
  <2> QED BY <2>2, <2>4, <2>6
<1>2. IInv /\ [Next]_vars => [Step]_vars
  BY <1>1
<1> QED BY <1>2, Invariant, PTL DEF Spec, OthersKeep
==============================================================================
