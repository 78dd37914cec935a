-------------------------- MODULE MCDecisionReplay --------------------------
(***************************************************************************)
(* Rows of DecisionReplay for TLC: two versions of a policy with a gap and *)
(* an overlap, a role and a competence, and a decision at time 2.          *)
(***************************************************************************)
EXTENDS DecisionReplay

Version(state, from, to) ==
  [policy_id |-> "approval", lifecycle_state |-> state, effective_from |-> from,
   effective_to |-> to]

Holds(name, from, to) ==
  [subject_ref |-> "prof", ref |-> name, lifecycle_state |-> "ACTIVE",
   validation_state |-> "VALIDATED", effective_from |-> from, effective_to |-> to]

Decided(at) ==
  [decision_id |-> "d1", subject_ref |-> "prof", authority_ref |-> "a1",
   policy_ref |-> "approval", effective_time |-> at]

Turned(state, at) == [object_ref |-> "d1", to_state |-> state, effective_time |-> at]

MCPolicies ==
  {Version("SUPERSEDED", 1, 3), Version("ACTIVE", 3, NoEnd), Version("ACTIVE", 2, NoEnd),
   Version("DRAFT", 1, NoEnd)}
MCRoles       == {Holds("owner", 1, 3)}
MCCompetences == {Holds("governance", 3, NoEnd)}
MCDecisions   == {Decided(2), Decided(3)}
MCTransitions == {Turned("SUPERSEDED", 3), Turned("REVOKED", 2)}
None          == {}
=============================================================================
