----------------------------- MODULE RecordState -----------------------------
(* record_state.py: the state of a record is computed from the record, from   *)
(* the open escalations of its instance and from the settings, and every      *)
(* state but two belongs to one agent.  A record is                           *)
(*   [value, basis, verdict, forwardTo, sendBack]                             *)
(* value: a forecast record has a scenario, an allocation has a cycle;        *)
(* basis: selection_basis; verdict: validation.status; forwardTo, sendBack:   *)
(* "none" while the field is None (always, in an allocation).                 *)

RecordStates ==
  {"none", "awaiting_validation", "judged", "completed", "forwarded",
   "sent_back", "awaiting_system", "awaiting_business"}
HoldStates == {"awaiting_business", "awaiting_system"}

\* MUTANT of IsExemptPassed: a person's value goes to the validator.
IsExemptByExpiry(r) == r.basis = "expiry"

IsExemptPassed(r) == r.basis \in {"human", "expiry"}
Passed(r) == IsExemptPassed(r) \/ r.verdict = "passed"

\* open: target roles with an open escalation on the record's instance;
\* producesNothing: of the author's card; validated: the author has a validator.
ComputeRecordState(r, open, producesNothing, validated) ==
  IF "human_manager" \in open                     THEN "awaiting_business"
  ELSE IF "system_operator" \in open              THEN "awaiting_system"
  ELSE IF r.sendBack # "none"                     THEN "sent_back"
  ELSE IF Passed(r) /\ r.forwardTo # "none"       THEN "forwarded"
  ELSE IF Passed(r) /\ producesNothing            THEN "completed"
  ELSE IF r.verdict # "none" \/ IsExemptPassed(r) THEN "judged"
  ELSE IF r.value /\ validated                    THEN "awaiting_validation"
  ELSE "none"

\* The role whose channel is told that the record entered state; "none" for the
\* states nobody is told of.
OwnerChannel(state, r, author, validator) ==
  CASE state = "awaiting_business"       -> "human_manager"
    [] state = "awaiting_system"         -> "system_operator"
    [] state = "forwarded"               -> r.forwardTo
    [] state = "awaiting_validation"     -> validator
    [] state \in {"judged", "sent_back"} -> author
    [] OTHER                             -> "none"
==============================================================================
