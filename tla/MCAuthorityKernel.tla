-------------------------- MODULE MCAuthorityKernel --------------------------
(***************************************************************************)
(* Rows and requests of AuthorityKernel for TLC: a professor who approves  *)
(* programmes and delegates that to a quality agent.                       *)
(***************************************************************************)
EXTENDS AuthorityKernel

In(resource) == [resource |-> resource, context |-> "none"]

Asserted(from, to) ==
  [subject_ref |-> "prof", competence_ref |-> "governance",
   validation_state |-> "VALIDATED", lifecycle_state |-> "ACTIVE",
   effective_from |-> from, effective_to |-> to]

Granted(id, scope, requires, from, to) ==
  [authority_id |-> id, subject_ref |-> "prof", authority_type |-> "approve",
   scope |-> scope, competence_requirements |-> requires,
   delegation_allowed |-> TRUE, lifecycle_state |-> "ACTIVE",
   effective_from |-> from, effective_to |-> to]

Delegated(id, grant, scope, from, until) ==
  [delegation_id |-> id, delegator_ref |-> "prof", delegatee_ref |-> "agent",
   authority_ref |-> grant, delegated_scope |-> scope, lifecycle_state |-> "ACTIVE",
   valid_from |-> from, valid_until |-> until]

Revocation(id, time) == [delegation_id |-> id, effective_time |-> time]

Version(resource, effects, from, to) ==
  [scope |-> [resource |-> resource, action |-> "approve", context |-> "none"],
   effects |-> effects, lifecycle_state |-> "ACTIVE",
   effective_from |-> from, effective_to |-> to]

Says(effect, require) == [effect |-> effect, require |-> require]

Asks(subject, type, resource, at, claimed) ==
  [subject_ref |-> subject, subject_type |-> type, action |-> "approve",
   resource |-> resource, context |-> "none", at |-> at, competence_refs |-> claimed]

-----------------------------------------------------------------------------
\* Two grants of the professor, one of which needs a competence, and a second row for the
\* key of the first; delegations within and beyond them; every kind of policy effect.

CompetenceTable == {Asserted(1, NoEnd)}

GrantTable ==
  {Granted("a1", In("*"), {"governance"}, 1, 3), Granted("a2", In("r1"), {}, 2, NoEnd),
   [Granted("a1", In("r1"), {}, 1, NoEnd) EXCEPT !.delegation_allowed = FALSE]}

DelegationTable ==
  {Delegated("d1", "a1", In("r1"), 1, 3), Delegated("d1", "a1", In("r1"), 2, 4),
   Delegated("d2", "a2", In("r1"), 2, 4)}

RevocationTable == {Revocation("d1", 2), Revocation("d2", 3)}

PolicyTable ==
  {Version("r1", <<Says("ALLOW", "none")>>, 1, NoEnd),
   Version("*", <<Says("OTHER", "review"), Says("DENY", "none")>>, 2, 3),
   Version("r1", <<Says("OTHER", "review")>>, 1, NoEnd),
   Version("none", <<Says("OTHER", "signature")>>, 3, NoEnd),
   [Version("*", <<Says("DENY", "none")>>, 1, NoEnd) EXCEPT !.lifecycle_state = "DRAFT"]}

RequestTable ==
  {Asks("agent", "AGENT", "r1", 2, {}), Asks("agent", "AGENT", "r1", 3, {"governance"}),
   Asks("prof", "HUMAN", "none", 1, {})}
=============================================================================
