----------------------------- MODULE Escalations -----------------------------
(* escalation_records.py: the reason table, and what an instance's (a         *)
(* forecast instance's or a line's) escalation records say of it.  A list of  *)
(* records is a sequence of                                                   *)
(*   [inst, creator, reason, status, kind]                                    *)
(* inst is agent_id or line_id; creator is the author part of trigger_edge;   *)
(* kind is resolution.kind, "none" while there is no resolution.  The records *)
(* modelled are the interventions: a notice is never open and holds nothing.  *)
EXTENDS Sequences

\* ESCALATION_REASONS, by target_role and by on_expiry.
BusinessReasons ==
  {"no_computable_assumption", "selection_unresolved", "options_exhausted",
   "commitments_exceed_capacity", "pegged_exceed_capacity"}
SystemReasons ==
  {"forecast_run_error", "no_next_agent", "multiple_next_agents",
   "validation_error", "allocation_invalid"}
ProceedWithValue == {"selection_unresolved", "options_exhausted"}
ProceedWithoutDemand == {"no_computable_assumption"}

Reasons == BusinessReasons \cup SystemReasons

\* new_escalation gives a deadline to the reasons that have an expiry action.
HasDeadline(reason) == reason \in ProceedWithValue \cup ProceedWithoutDemand

TargetRole(reason) ==
  IF reason \in BusinessReasons THEN "human_manager" ELSE "system_operator"

Escalation(Insts, Creators) ==
  [inst : Insts, creator : Creators, reason : Reasons,
   status : {"open", "resolved", "expired"},
   kind : {"none", "value", "rerun", "dismiss"}]

NewEscalation(creator, reason, i) ==
  [inst |-> i, creator |-> creator, reason |-> reason,
   status |-> "open", kind |-> "none"]

\* The target roles that have an open record of instance i
\* (has_open_escalation_of, has_open_intervention).
OpenTargets(records, i) ==
  {TargetRole(records[k].reason) :
     k \in {j \in DOMAIN records : records[j].inst = i /\ records[j].status = "open"}}

IsDismissed(records, i) ==
  \E k \in DOMAIN records :
    /\ records[k].inst = i
    /\ records[k].status = "resolved"
    /\ records[k].kind = "dismiss"

ExpiredWithoutDemand(records, i) ==
  \E k \in DOMAIN records :
    /\ records[k].inst = i
    /\ records[k].status = "expired"
    /\ records[k].reason \in ProceedWithoutDemand
==============================================================================
