---------------------------- MODULE LineAllocation ----------------------------
(* The conclusions of one line, one after the other: the regular coordination *)
(* divides everything, a continuing one keeps what the changes since the last *)
(* conclusion do not touch, changes that come in during the computation are   *)
(* laid on top, and people answer when the line cannot be divided.            *)
(*                                                                            *)
(* Who runs when is LineCoordination; here a coordination is one step and the *)
(* quantities are in the foreground.                                          *)
EXTENDS AllocationRules

CONSTANTS
  Start,       \* the inputs of the line when the cycle begins
  Quantities,  \* what an outsider may set a quantity to
  Answers,     \* what a person may set a floor or a peg to
  Contracts,   \* [commitments, guarantees] there may be
  Capacities,  \* what the remaining capacity may become
  Dues,        \* due dates
  MaxChanges   \* bound: changes of the inputs

Modes == {"intervention", "notice"}

ASSUME LineAllocationAssumption ==
  /\ IsLineInputs(Start)
  /\ \A c \in Contracts :
       IsLineInputs([Start EXCEPT !.commitments = c.commitments, !.guarantees = c.guarantees])
  /\ Quantities \cup Answers \subseteq Nat /\ Capacities \subseteq Nat /\ Dues \subseteq Nat
  /\ MaxChanges \in Nat

VARIABLES
  mode,       \* exceed_mode(interaction_protocol)
  inputs,     \* what build_line_inputs returns now
  concluded,  \* the regular coordination of this cycle is done
  decided,    \* inputs of the last conclusion, in its log entry
  entries,    \* allocations[line].entries
  hold,       \* the open escalation of the line, "none" if there is none
  changes     \* bound: changes that are left

vars == <<mode, inputs, concluded, decided, entries, hold, changes>>

Init ==
  /\ mode \in Modes
  /\ inputs = Start /\ decided = Start
  /\ concluded = FALSE /\ entries = {} /\ hold = "none"
  /\ changes = MaxChanges

------------------------------------------------------------------------------
(* The outside world, as far as build_line_inputs sees it *)

Set(field, value) == inputs' = [inputs EXCEPT ![field] = value]

Put(field, r, value) == Set(field, Over([s \in {r} |-> value], inputs[field]))

OrderChanges ==
  \E o \in Orders, q \in Quantities, due \in Dues :
    Put("orders", o, [backlog |-> q, due |-> due])

\* A forecast is forwarded; or it goes back and is no demand for now.
ForecastChanges ==
  \E f \in Forecasts :
    \/ \E q \in Quantities : Put("forecasts", f, q)
    \/ Set("forecasts", Restrict(inputs.forecasts, DOMAIN inputs.forecasts \ {f}))

ManualChanges == \E m \in Manuals, q \in Quantities : Put("manual", m, q)

ContractChanges ==
  \E c \in Contracts :
    inputs' = [inputs EXCEPT !.commitments = c.commitments, !.guarantees = c.guarantees]

SupplyChange ==
  \/ \E c \in Capacities : Set("capacity", c)
  \/ \E o \in Orders, q \in Quantities : Set("wip", [s \in {o} |-> q])
  \/ \E f \in Forecasts : Set("pegs", {f})

Changes ==
  /\ changes > 0 /\ changes' = changes - 1
  /\ \/ OrderChanges \/ ForecastChanges \/ ManualChanges
     \/ ContractChanges \/ SupplyChange

OutsideChange == Changes /\ UNCHANGED <<mode, concluded, decided, entries, hold>>

\* resolve_escalation, resolution_inputs: the values stay inputs of the cycle.
HumanResolve ==
  /\ hold # "none"
  /\ \E r \in Present(inputs), q \in Answers :
       \/ /\ hold = "commitments_exceed_capacity"
          /\ \A s \in DOMAIN inputs.floorOverrides : KeyOf[s] = KeyOf[r] => s = r
          /\ Put("floorOverrides", r, q)
       \/ /\ hold = "pegged_exceed_capacity"
          /\ Put("pegLimits", r, q)
  /\ hold' = "none"
  /\ UNCHANGED <<mode, concluded, decided, entries, changes>>

------------------------------------------------------------------------------
(* coordinate_line, run_line_coordination *)

\* The second reading of the inputs: what changed meanwhile is laid on top.
LaidOnTop(first) ==
  IF first.outcome = "allocated" /\ inputs' # inputs
  THEN Continue(inputs', EntriesOf(first), DiffInputs(inputs, inputs'), mode)
  ELSE first

\* A conclusion is written, or the line is held and the last one stands.
Conclude(result) ==
  IF result.outcome = "allocated"
  THEN /\ concluded' = TRUE
       /\ decided' = inputs'
       /\ entries' = EntriesOf(result)
       /\ UNCHANGED hold
  ELSE hold' = result.outcome /\ UNCHANGED <<concluded, decided, entries>>

Coordinate(first) ==
  /\ hold = "none"
  /\ Changes \/ UNCHANGED <<inputs, changes>>
  /\ Conclude(LaidOnTop(first))
  /\ UNCHANGED mode

Regular == ~concluded /\ Coordinate(AllocateLine(inputs, mode, << >>))

\* With no difference it is the rerun of a conclusion that failed.
Continuing ==
  concluded /\ Coordinate(Continue(inputs, entries, DiffInputs(decided, inputs), mode))

Next == OutsideChange \/ HumanResolve \/ Regular \/ Continuing

Spec == Init /\ [][Next]_vars

------------------------------------------------------------------------------
Demand == [ref : Refs, due : Nat, peg : {"hard", "soft"}, requested : Nat \ {0}]
Entry == [ref : Refs, peg : {"hard", "soft"}, quantity : Nat \ {0}]

TypeOK ==
  /\ mode \in Modes /\ concluded \in BOOLEAN /\ changes \in 0..MaxChanges
  /\ \A in \in {inputs, decided} : IsLineInputs(in) /\ Demands(in) \subseteq Demand
  /\ entries \subseteq Entry
  /\ hold \in {"none", "pegged_exceed_capacity", "commitments_exceed_capacity"}

Total(es) == SumFunction([e \in es |-> e.quantity])

Given(d) == Total({e \in entries : e.ref = d.ref /\ e.peg = d.peg})

\* A conclusion never gives away more than there is, not to a demand either,
\* gives whole contract units, and gives the hard pegs in full; after any
\* number of continuing coordinations that kept parts of older conclusions.
ConclusionFits ==
  concluded =>
    /\ Total(entries) <= Supply(decided)
    /\ \A d \in Demands(decided) :
         /\ Given(d) <= d.requested
         /\ Given(d) % decided.units[KeyOf[d.ref]] = 0
         /\ d.peg = "hard" => Given(d) = d.requested
    /\ \A e \in entries : \E d \in Demands(decided) : d.ref = e.ref /\ d.peg = e.peg

SoftOf(in, key) == {d \in Soft(Demands(in)) : KeyOf[d.ref] = key}

\* A line that is not held honours every commitment: what is overdue is given
\* in full, and each company gets its floor, also where the floor was met by an
\* older conclusion (unless the protocol says to go on, mode notice).
CommitmentsKept ==
  concluded /\ mode = "intervention" =>
    \A key \in Keys :
      LET cycle == {d \in SoftOf(decided, key) : ~Overdue(d)} IN
      /\ \A d \in SoftOf(decided, key) : Overdue(d) => Given(d) = d.requested
      /\ SumFunction([d \in cycle |-> Given(d)]) >= EffectiveFloors(decided)[key]

\* A demand that misses something leaves nothing to those that come later.
InOrder(got) ==
  LET Open(overdue) == {d \in Soft(DOMAIN got) : Overdue(d) = overdue}
      Margin(d) == inputs.margins[KeyOf[d.ref].item]
      GotOf(key) == SumFunctionOnSet(got, OfKey(Open(FALSE), key))
  IN /\ \A d, e \in Open(TRUE) : got[d] < d.requested /\ d.due < e.due => got[e] = 0
     /\ \A d, e \in Open(FALSE) :
          got[d] < d.requested /\ Margin(d) > Margin(e) =>
            GotOf(KeyOf[e.ref]) <= EffectiveFloors(inputs)[KeyOf[e.ref]]

\* When everything is divided anew, an older overdue order comes before a newer
\* one, and a demand that misses something leaves nothing to demands of a lower
\* margin but their floors.
PrioritiesKept == InOrder(AllocateLine(inputs, mode, << >>).got)

\* A demand that was forecast and then ordered is counted once: of a company
\* and item no more is divided than the larger of its forecast and its orders.
NotTwice ==
  \A key \in Keys :
    LET demands == {d \in Demands(inputs) :
                      KeyOf[d.ref] = key /\ ~Overdue(d) /\ d.ref \notin Manuals}
        forecast == SumFunctionOnSet(inputs.forecasts,
                                     {f \in DOMAIN inputs.forecasts : KeyOf[f] = key})
    IN Requested(demands) <= Max({CycleBacklog(inputs, key), forecast})

\* The demands and floors of the items that are not touched are as they were.
Covers(touched) ==
  \A key \in {k \in Keys : k.item \notin touched} :
    /\ OfKey(Demands(decided), key) = OfKey(Demands(inputs), key)
    /\ EffectiveFloors(decided)[key] = EffectiveFloors(inputs)[key]

\* What diff_inputs says a change touches covers what it changes: the demands
\* and floors of all other items are as they were, so their entries may stay.
TouchedCovers == Covers(TouchedItems(DiffInputs(decided, inputs)))

\* The entries a continuing coordination keeps: those of the items that no
\* change touches, if there is supply for them.
IfSupplied(entriesKept) ==
  IF Total(entriesKept) + Requested(Hard(Demands(inputs))) <= Supply(inputs)
  THEN entriesKept ELSE {}

StayBut(touched) ==
  IfSupplied({e \in entries : e.peg = "soft" /\ KeyOf[e.ref].item \notin touched})

Stay == StayBut(TouchedItems(DiffInputs(decided, inputs)))

\* A continuing coordination moves nothing of an item that no change touches,
\* as long as what stays fits the supply.
OthersKeep ==
  [][concluded /\ decided' # decided /\ inputs' = inputs => Stay \subseteq entries']_vars

\* A change that alters what is overdue or a floor that applies is urgent.
FloorChangeIsUrgent ==
  concluded /\ Affected(decided, inputs) # {} => Immediate(DiffInputs(decided, inputs))

\* What is still owed when the entries that stay are given: the other overdue
\* demands, and what the floors ask for beyond those entries.
StillOwed(stay) ==
  LET open == {d \in Soft(Demands(inputs)) : d.ref \notin {e.ref : e \in stay}}
      Met(key) == Total({e \in stay : KeyOf[e.ref] = key})
      owed == [key \in Keys |-> Max({0, EffectiveFloors(inputs)[key] - Met(key)})]
  IN Requested({d \in open : Overdue(d)}) + SumFunction(owed)

OwesTooMuch(stay) ==
  StillOwed(stay) > Supply(inputs) - Requested(Hard(Demands(inputs))) - Total(stay)

\* Entries that stay are "quantities already kept in the previous conclusion":
\* their floors are not asked for again, so a line is held for its commitments
\* only when what is still owed exceeds what is left.
FloorsAskedOnce ==
  [][/\ hold = "none" /\ hold' = "commitments_exceed_capacity"
     /\ concluded /\ inputs' = inputs
     => OwesTooMuch(Stay)]_vars
==============================================================================
