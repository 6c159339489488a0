--------------------------- MODULE AllocationRules ---------------------------
(* supply_allocation_rules.py and coordination_changes.py: how the supply of  *)
(* one line is divided among its demands, and what a change of the inputs     *)
(* touches.  Pure operators; LineAllocation uses them in a row.               *)
(*                                                                            *)
(* Quantities are natural numbers (the code rounds before it cuts to whole    *)
(* units, so exact arithmetic is what it computes).  A demand_ref is a        *)
(* number, ordered as the code orders its strings.  An input `in' is the      *)
(* record LineInputs, with partial functions for its lists and dicts.         *)
EXTENDS Integers, FiniteSets, FiniteSetsExt, Functions

CONSTANTS
  Orders, Forecasts, Manuals,  \* the demand_refs there may be
  KeyOf,      \* KeyOf[ref]: [company, item] of a demand
  AsOf,       \* the last due date that is overdue
  WindowEnd,  \* the last due date inside the freeze window
  CycleEnd    \* the last due date of this cycle

Refs == Orders \cup Forecasts \cup Manuals
Keys == {KeyOf[r] : r \in Refs}
Items == {k.item : k \in Keys}

ASSUME RulesAssumption ==
  /\ Refs \subseteq Nat /\ IsFiniteSet(Refs)
  /\ Orders \cap Forecasts = {} /\ (Orders \cup Forecasts) \cap Manuals = {}
  /\ DOMAIN KeyOf = Refs
  /\ {AsOf, WindowEnd, CycleEnd} \subseteq Nat /\ AsOf < CycleEnd /\ AsOf < WindowEnd

IsPartial(f, S, T) == DOMAIN f \subseteq S /\ \A x \in DOMAIN f : f[x] \in T

\* The inputs there may be.
IsLineInputs(in) ==
  /\ DOMAIN in = {"orders", "forecasts", "manual", "commitments", "guarantees", "wip", "pegs",
                  "floorOverrides", "pegLimits", "units", "margins", "inventory", "capacity"}
  /\ IsPartial(in.orders, Orders, [backlog : Nat, due : Nat])
  /\ IsPartial(in.forecasts, Forecasts, Nat) /\ IsPartial(in.manual, Manuals, Nat)
  /\ IsFiniteSet(in.commitments) /\ IsFiniteSet(in.guarantees)
  /\ \A c \in in.commitments : c.total \in Nat /\ c.taken \in Nat /\ c.months \in Nat
  /\ \A g \in in.guarantees : g.quantity \in Nat
  /\ IsPartial(in.wip, Orders, Nat) /\ in.pegs \subseteq Refs
  /\ IsPartial(in.floorOverrides, Refs, Nat) /\ IsPartial(in.pegLimits, Refs, Nat)
  /\ in.units \in [Keys -> Nat \ {0}] /\ in.margins \in [Items -> Int]
  /\ in.inventory \in Nat /\ in.capacity \in Nat

\* f where it is defined, and g everywhere else.
Over(f, g) == [x \in DOMAIN f \cup DOMAIN g |-> IF x \in DOMAIN f THEN f[x] ELSE g[x]]

FloorToUnit(quantity, unit) == (quantity \div unit) * unit

Present(in) == DOMAIN in.orders \cup DOMAIN in.forecasts \cup DOMAIN in.manual

Supply(in) == in.inventory + SumFunction(in.wip) + in.capacity

Never == CycleEnd + 1   \* date.max

Overdue(d) == d.due <= AsOf

KindRank(ref) == IF ref \in Orders THEN 0 ELSE IF ref \in Manuals THEN 1 ELSE 2

\* _Demand.order_key
Before(d, e) ==
  \/ d.due < e.due
  \/ d.due = e.due /\ KindRank(d.ref) < KindRank(e.ref)
  \/ d.due = e.due /\ KindRank(d.ref) = KindRank(e.ref) /\ d.ref < e.ref

Requested(demands) == SumFunction([d \in demands |-> d.requested])

------------------------------------------------------------------------------
(* build_demands *)

\* peg_limits
Limited(in, ref, hard) ==
  IF ref \in DOMAIN in.pegLimits
  THEN Min({hard, FloorToUnit(in.pegLimits[ref], in.units[KeyOf[ref]])})
  ELSE hard

\* The hard and the soft part of a demand, as far as there is one.
Parts(ref, due, quantity, hard) ==
  LET Part(peg, q) == [ref |-> ref, due |-> due, peg |-> peg, requested |-> q]
  IN {d \in {Part("hard", hard), Part("soft", quantity - hard)} : d.requested > 0}

\* add_order: what is in production for an order is pegged hard to it.
Produced(in, o, backlog) ==
  IF o \in in.pegs THEN backlog
  ELSE IF o \in DOMAIN in.wip
       THEN FloorToUnit(Min({in.wip[o], backlog}), in.units[KeyOf[o]])
       ELSE 0

OfOrder(in, o, backlog) ==
  Parts(o, in.orders[o].due, backlog, Limited(in, o, Produced(in, o, backlog)))

OrderParts(in, o) ==
  OfOrder(in, o, FloorToUnit(in.orders[o].backlog, in.units[KeyOf[o]]))

\* add_unscheduled
UnscheduledParts(in, ref, quantity) ==
  Parts(ref, Never, quantity, Limited(in, ref, IF ref \in in.pegs THEN quantity ELSE 0))

InCycle(in, o) == AsOf < in.orders[o].due /\ in.orders[o].due <= CycleEnd

CycleBacklog(in, key) ==
  SumFunction([o \in {p \in DOMAIN in.orders : InCycle(in, p) /\ KeyOf[p] = key} |->
                 in.orders[o].backlog])

\* MUTANT of Remainder: orders are not taken off the forecast.
WholeForecast(in, f) == FloorToUnit(in.forecasts[f], in.units[KeyOf[f]])

\* What of a forecast did not arrive as orders yet.
Remainder(in, f) ==
  FloorToUnit(Max({0, in.forecasts[f] - CycleBacklog(in, KeyOf[f])}), in.units[KeyOf[f]])

Demands(in) ==
  UNION ({OrderParts(in, o) : o \in {p \in DOMAIN in.orders : in.orders[p].due <= CycleEnd}}
    \cup {UnscheduledParts(in, f, Remainder(in, f)) : f \in DOMAIN in.forecasts}
    \cup {UnscheduledParts(in, m, FloorToUnit(in.manual[m], in.units[KeyOf[m]])) :
            m \in DOMAIN in.manual})

Hard(demands) == {d \in demands : d.peg = "hard"}
Soft(demands) == demands \ Hard(demands)

------------------------------------------------------------------------------
(* contract_floors *)

\* commitment_share: months is months_remaining, 0 outside the period.
Share(c) ==
  IF c.months = 0 \/ c.taken >= c.total THEN 0 ELSE (c.total - c.taken) \div c.months

\* The floor that is wanted; a person's value replaces it (one per key).
Wanted(in, key) ==
  LET overrides == {r \in DOMAIN in.floorOverrides :
                      r \in Present(in) /\ KeyOf[r] = key /\ key.company # "none"}
      shares == {Share(c) : c \in {b \in in.commitments : b.binding /\ b.key = key}}
      guarantees == {g.quantity : g \in {h \in in.guarantees : h.key = key}}
  IN IF overrides # {} THEN in.floorOverrides[Max(overrides)]
     ELSE Max({0} \cup shares \cup guarantees)

OfKey(demands, key) == {d \in demands : KeyOf[d.ref] = key}

\* What holds for the demands of this cycle that are given.
ContractFloors(in, cycle) ==
  [key \in Keys |->
     Min({FloorToUnit(Wanted(in, key), in.units[key]), Requested(OfKey(cycle, key))})]

FloorsOf(in, demands) == ContractFloors(in, {d \in Soft(demands) : ~Overdue(d)})

EffectiveFloors(in) == FloorsOf(in, Demands(in))

OverdueOf(demands) ==
  [key \in Keys |-> Requested({d \in OfKey(demands, key) : Overdue(d)})]

OverdueBacklog(in) == OverdueOf(Demands(in))

------------------------------------------------------------------------------
(* allocate_line *)

\* _share_out: want[d] of every demand of the group, which want total, or what
\* its share of the amount is in whole units.
ShareOut(in, want, total, amount, d) ==
  IF amount <= 0 THEN 0
  ELSE IF amount >= total THEN want[d]
  ELSE FloorToUnit((amount * want[d]) \div total, in.units[KeyOf[d.ref]])

\* MUTANT of InTurn: groups of a later rank are not made to wait.
AllAtOnce(in, want, rank, amount) ==
  [d \in DOMAIN want |-> ShareOut(in, want, SumFunction(want), amount, d)]

\* The loops over due dates and over margins: one group after the other, until
\* one is not filled.
InTurn(in, want, rank, amount) ==
  [d \in DOMAIN want |->
     LET earlier == {e \in DOMAIN want : rank[e] < rank[d]}
         group == {e \in DOMAIN want : rank[e] = rank[d]}
     IN ShareOut(in, want, SumFunctionOnSet(want, group),
                 amount - SumFunctionOnSet(want, earlier), d)]

\* 1. The overdue demands, the oldest first.
Late(in, overdue, amount) ==
  InTurn(in, [d \in overdue |-> d.requested], [d \in overdue |-> d.due], amount)

\* 2. The floors are filled in the order of order_key; an amount that is less
\* than they need is shared by ratio.
Target(in, key, floor, need, amount) ==
  IF need <= amount THEN floor ELSE FloorToUnit((floor * amount) \div need, in.units[key])

FillFloors(in, cycle, floors, need, amount) ==
  [d \in cycle |->
     LET key == KeyOf[d.ref]
         first == {e \in OfKey(cycle, key) : Before(e, d)}
         left == Target(in, key, floors[key], need, amount) - Requested(first)
     IN Max({0, Min({d.requested, left})})]

\* 3-4. The higher margins first.
ByMargin(in, floored, amount) ==
  InTurn(in, [d \in {e \in DOMAIN floored : e.requested > floored[e]} |->
                d.requested - floored[d]],
         [d \in DOMAIN floored |-> -in.margins[KeyOf[d.ref].item]], amount)

Plus(f, g) == [d \in DOMAIN f |-> f[d] + IF d \in DOMAIN g THEN g[d] ELSE 0]

\* MUTANT of Exceeds: only the floors are compared with the supply.
FloorsExceed(overdue, floors, available) == SumFunction(floors) > available

Exceeds(overdue, floors, available) ==
  Requested(overdue) + SumFunction(floors) > available

\* What the soft demands get that are not settled, stage by stage.
AfterFloors(in, floored, amount) ==
  Plus(floored, ByMargin(in, floored, amount - SumFunction(floored)))

AfterLate(in, late, cycle, floors, amount) ==
  Over(late, AfterFloors(in, FillFloors(in, cycle, floors, SumFunction(floors), amount), amount))

Stages(in, late, cycle, floors, available) ==
  AfterLate(in, late, cycle, floors, available - SumFunction(late))

Outcome(outcome, got) == [outcome |-> outcome, got |-> got]

DivideOpen(in, mode, settled, overdue, cycle, floors, available) ==
  IF Exceeds(overdue, floors, available) /\ mode = "intervention"
  THEN Outcome("commitments_exceed_capacity", << >>)
  ELSE Outcome("allocated",
               Over(settled, Stages(in, Late(in, overdue, available), cycle, floors, available)))

\* The division when the quantities of `settled' stand.  The result maps every
\* demand to its quantity.
Divide(in, mode, settled, open) ==
  LET overdue == {d \in open : Overdue(d)}
      cycle == {d \in open : ~Overdue(d)}
  IN DivideOpen(in, mode, settled, overdue, cycle, ContractFloors(in, cycle),
                Supply(in) - SumFunction(settled))

\* MUTANT of Fits: settled entries are kept whatever the supply is.
AlwaysFits(in, settled) == TRUE

Fits(in, settled) == SumFunction(settled) <= Supply(in)

AllocateDemands(in, mode, demands, hard, fixed) ==
  IF SumFunction(hard) > Supply(in) THEN Outcome("pegged_exceed_capacity", << >>)
  ELSE IF Fits(in, Over(hard, fixed))
  THEN Divide(in, mode, Over(hard, fixed), demands \ (DOMAIN hard \cup DOMAIN fixed))
  ELSE Divide(in, mode, hard, demands \ DOMAIN hard)

Allocate(in, mode, frozen, demands) ==
  AllocateDemands(in, mode, demands,
    [d \in Hard(demands) |-> d.requested],
    [d \in {e \in Soft(demands) : e.ref \in DOMAIN frozen} |->
       Min({d.requested, frozen[d.ref]})])

\* frozen: demand_ref -> quantity of the soft entries to keep.
AllocateLine(in, mode, frozen) == Allocate(in, mode, frozen, Demands(in))

\* MUTANT of EntriesOf: demands that got nothing have entries, too.
EveryDemand(result) ==
  {[ref |-> d.ref, peg |-> d.peg, quantity |-> result.got[d]] : d \in DOMAIN result.got}

\* entries_of
EntriesOf(result) ==
  {[ref |-> d.ref, peg |-> d.peg, quantity |-> result.got[d]] :
     d \in {e \in DOMAIN result.got : result.got[e] > 0}}

------------------------------------------------------------------------------
(* diff_inputs *)

Values(f, r) == IF r \in DOMAIN f THEN {f[r]} ELSE {}
Differ(f, g) == {r \in DOMAIN f \cup DOMAIN g : Values(f, r) # Values(g, r)}

\* _affected_keys
Affected(before, after) ==
  Differ(EffectiveFloors(before), EffectiveFloors(after))
    \cup Differ(OverdueBacklog(before), OverdueBacklog(after))

Change(items, urgent, human) == [items |-> items, urgent |-> urgent, human |-> human]
ItemOf(r) == {KeyOf[r].item}

DemandChanges(before, after, affected) ==
  {Change(ItemOf(f), KeyOf[f] \in affected, FALSE) :
     f \in Differ(before.forecasts, after.forecasts)}
  \cup
  {Change(ItemOf(o),
          \/ KeyOf[o] \in affected
          \/ \E side \in Values(before.orders, o) \cup Values(after.orders, o) :
               side.due <= WindowEnd,
          FALSE) :
     o \in Differ(before.orders, after.orders)}
  \cup
  {Change(ItemOf(m), FALSE, TRUE) : m \in Differ(before.manual, after.manual)}

\* A person's value may outlive its demand: then it touches every item.
OwnedBy(before, after, r) ==
  IF r \in Present(before) \cup Present(after) THEN ItemOf(r) ELSE Items

\* MUTANT of PersonChanges: limits of hard pegs are not compared.
FloorChangesOnly(before, after) ==
  {Change(OwnedBy(before, after, r), FALSE, TRUE) :
     r \in Differ(before.floorOverrides, after.floorOverrides)}

\* floor_overrides, peg_limits
PersonChanges(before, after) ==
  {Change(OwnedBy(before, after, r), FALSE, TRUE) :
     r \in Differ(before.floorOverrides, after.floorOverrides)
           \cup Differ(before.pegLimits, after.pegLimits)}

\* _SUPPLY_SIDE_FIELDS: nobody knows which items they concern.
SupplyChanges(before, after) ==
  {Change(Items, field \in {"commitments", "guarantees"}, FALSE) :
     field \in {g \in {"commitments", "guarantees", "wip", "units", "margins",
                       "inventory", "capacity", "pegs"} : before[g] # after[g]}}

DiffInputs(before, after) ==
  DemandChanges(before, after, Affected(before, after)) \cup PersonChanges(before, after)
  \cup SupplyChanges(before, after)

Immediate(changes) == \E c \in changes : c.urgent \/ c.human

\* touched_items; no change at all touches everything.
TouchedItems(changes) ==
  IF changes = {} THEN Items ELSE UNION {c.items : c \in changes}

\* MUTANT of Frozen: the entries of the touched items are kept.
FrozenTouched(entries, touched) ==
  {e \in entries : e.peg = "soft" /\ KeyOf[e.ref].item \in touched}

Frozen(entries, touched) ==
  {e \in entries : e.peg = "soft" /\ KeyOf[e.ref].item \notin touched}

QuantityOf(frozen) ==
  [r \in {e.ref : e \in frozen} |-> (CHOOSE e \in frozen : e.ref = r).quantity]

\* continuation_judgment
Continue(in, entries, changes, mode) ==
  AllocateLine(in, mode, QuantityOf(Frozen(entries, TouchedItems(changes))))
==============================================================================
