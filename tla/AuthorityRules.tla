--------------------------- MODULE AuthorityRules ---------------------------
(***************************************************************************)
(* How the kernel answers whether a subject has the authority for an        *)
(* action at a time: from its own grants, or from delegations of another's *)
(* grant.  Every operator is a pure function of the rows it is given, so   *)
(* that a reader of the tables may apply it to rows read at different      *)
(* moments.                                                                *)
(***************************************************************************)
EXTENDS Naturals

\* Times are numbers.  A period ends before its effective_to; NoEnd is a missing one.
NoEnd == 0

Period(from, to) == to = NoEnd \/ from < to

\* _active_period
ActivePeriod(row, at) ==
  row.effective_from <= at /\ (row.effective_to = NoEnd \/ at < row.effective_to)

InForce(row, at) == row.lifecycle_state = "ACTIVE" /\ ActivePeriod(row, at)

\* _scope_contains: keys are compared only where both sides name a value.
ScopeContains(parent, child) ==
  \A key \in DOMAIN child :
    child[key] = "none" \/ parent[key] \in {"none", "*"} \/ parent[key] = child[key]

\* A scope admits a resource it names, any when it names none, and a request without one.
Admits(scope, resource) ==
  resource = "none" \/ scope.resource \in {"none", "*", resource}

\* The competences a request claims and those the registry confirms.
ActiveCompetences(competences, req) ==
  req.competence_refs \cup
  {c.competence_ref : c \in {row \in competences :
     /\ row.subject_ref = req.subject_ref
     /\ row.validation_state = "VALIDATED"
     /\ InForce(row, req.at)}}

\* The authority the request asks for is that of grant g, and the subject is competent.
Confers(g, req, competent) ==
  g.authority_type = req.action /\ g.competence_requirements \subseteq competent

-----------------------------------------------------------------------------
\* Mutant: only the subject's newest grants count.
NewestGrants(grants, req, competent) ==
  {g \in grants :
     /\ req.subject_type # "AGENT"
     /\ g.subject_ref = req.subject_ref
     /\ \A h \in grants :
          h.subject_ref = g.subject_ref => h.effective_from <= g.effective_from
     /\ InForce(g, req.at)
     /\ Admits(g.scope, req.resource)
     /\ Confers(g, req, competent)}

\* The subject's own grants; an agent has none.
StandingGrants(grants, req, competent) ==
  {g \in grants :
     /\ req.subject_type # "AGENT"
     /\ g.subject_ref = req.subject_ref
     /\ InForce(g, req.at)
     /\ Admits(g.scope, req.resource)
     /\ Confers(g, req, competent)}

-----------------------------------------------------------------------------
\* Mutant: a delegation may outlive the grant it is taken from.
ValidUntilWhenever(grants, d) ==
  \E parent \in grants :
    /\ parent.authority_id = d.authority_ref
    /\ parent.subject_ref = d.delegator_ref
    /\ parent.delegation_allowed
    /\ ScopeContains(parent.scope, d.delegated_scope)
    /\ parent.effective_from <= d.valid_from

\* validate_delegation: no reason arises against delegation d.
ValidDelegation(grants, d) ==
  \E parent \in grants :
    /\ parent.authority_id = d.authority_ref
    /\ parent.subject_ref = d.delegator_ref
    /\ parent.delegation_allowed
    /\ ScopeContains(parent.scope, d.delegated_scope)
    /\ parent.effective_from <= d.valid_from
    /\ parent.effective_to # NoEnd => d.valid_until <= parent.effective_to

\* The subject's delegations at the time of the request, revoked ones included.
CurrentDelegations(delegations, req) ==
  {d \in delegations :
     /\ d.delegatee_ref = req.subject_ref
     /\ d.lifecycle_state = "ACTIVE"
     /\ d.valid_from <= req.at /\ req.at < d.valid_until}

Revoked(revocations, d, at) ==
  \E r \in revocations : r.delegation_id = d.delegation_id /\ r.effective_time <= at

\* An active delegation d gives the requested authority.
Delegates(grants, d, req, competent) ==
  /\ ValidDelegation(grants, d)
  /\ Admits(d.delegated_scope, req.resource)
  /\ \E parent \in grants :
       parent.authority_id = d.authority_ref /\ Confers(parent, req, competent)

MatchedDelegations(grants, delegations, revocations, req, competent) ==
  {d \in CurrentDelegations(delegations, req) :
     ~Revoked(revocations, d, req.at) /\ Delegates(grants, d, req, competent)}
=============================================================================
