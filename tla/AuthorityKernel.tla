--------------------------- MODULE AuthorityKernel ---------------------------
(***************************************************************************)
(* The tables of the authority kernel and the enforcement gate that reads  *)
(* them.  Rows are added and never changed or deleted: a delegation ends   *)
(* by its period or by a revocation row.  Every add is one commit.         *)
(*                                                                         *)
(* enforce_governed_action commits nothing.  It sends one query after      *)
(* another, each of which sees the rows committed by then, so its verdict  *)
(* is put together from several moments: the subject's competences, its    *)
(* grants, its delegations, the revocations of each delegation, and last   *)
(* the policies.  One action is one commit or one such query.              *)
(***************************************************************************)
EXTENDS PolicyDecision, FiniteSets

CONSTANTS
  Subjects, Authorities, DelegationIds, Actions, Resources, Contexts, Competences,
  Threads,             \* the threads that serve enforcement requests
  \* The rows clients may post and the requests they may send:
  CompetenceRows, GrantRows, DelegationRows, RevocationRows, PolicyRows, Requests,
  MaxPolicies          \* bound: how many policy versions are added

Lifecycle == {"ACTIVE", "DRAFT", "SUPERSEDED", "ARCHIVED", "OTHER"}

\* AuthorityScope by the key that evaluation reads and one of those it does not.
Scope == [resource: Resources \cup {"none", "*"}, context: Contexts \cup {"none", "*"}]

PolicyScope ==
  [resource: Resources \cup {"none", "*"}, action: Actions \cup {"none", "*"},
   context: Contexts \cup {"none", "*"}]

CompetenceAssertion ==
  [subject_ref: Subjects, competence_ref: Competences,
   validation_state: {"VALIDATED", "OTHER"}, lifecycle_state: Lifecycle,
   effective_from: Nat, effective_to: Nat]

\* subject_type is not read again; a row posted with AGENT is rejected.
AuthorityGrant ==
  [authority_id: Authorities, subject_ref: Subjects, authority_type: Actions,
   scope: Scope, competence_requirements: SUBSET Competences,
   delegation_allowed: BOOLEAN, lifecycle_state: Lifecycle,
   effective_from: Nat, effective_to: Nat]

DelegationGrant ==
  [delegation_id: DelegationIds, delegator_ref: Subjects, delegatee_ref: Subjects,
   authority_ref: Authorities, delegated_scope: Scope, lifecycle_state: Lifecycle,
   valid_from: Nat, valid_until: Nat]

DelegationRevocation == [delegation_id: DelegationIds, effective_time: Nat]

PolicyVersion ==
  [scope: PolicyScope, effects: Seq(EffectItem), lifecycle_state: Lifecycle,
   effective_from: Nat, effective_to: Nat]

\* A governed action request with the identity its bearer was authenticated as.
GovernedActionRequest ==
  [subject_ref: Subjects, subject_type: {"HUMAN", "AGENT"}, action: Actions,
   resource: Resources \cup {"none"}, context: Contexts \cup {"none"}, at: Nat,
   competence_refs: SUBSET Competences]

ASSUME RowsAssumption ==
  /\ CompetenceRows \subseteq CompetenceAssertion
  /\ GrantRows \subseteq AuthorityGrant
  /\ DelegationRows \subseteq DelegationGrant
  /\ RevocationRows \subseteq DelegationRevocation
  /\ PolicyRows \subseteq PolicyVersion
  /\ Requests \subseteq GovernedActionRequest

\* EffectivePeriod.validate_period and DelegationGrantContract.validate_period.
ASSUME PeriodsAssumption ==
  /\ \A row \in CompetenceRows \cup GrantRows \cup PolicyRows :
       Period(row.effective_from, row.effective_to)
  /\ \A row \in DelegationRows : row.valid_from < row.valid_until

ASSUME PoliciesBound == MaxPolicies \in Nat

VARIABLES
  competences, grants, delegations, revocations,  \* the tables, as sets of rows
  policies,                                       \* policy_version by recorded_at
  gate                                            \* the request each thread serves

tables == <<competences, grants, delegations, revocations, policies>>
vars   == <<competences, grants, delegations, revocations, policies, gate>>

Idle == [step |-> "idle"]

\* competent, standing, live: what the queries so far answered.  pending: the active
\* delegations whose revocations are still to be read.  revoked, versions: what the
\* tables held when the request began (history, read by properties only).
Serving ==
  [step: {"read_grants", "read_delegations", "read_revocations", "answered"},
   request: Requests, competent: SUBSET Competences, standing: SUBSET GrantRows,
   pending: SUBSET DelegationRows, live: SUBSET DelegationRows,
   matched: SUBSET DelegationRows, effect: Effect,
   revoked: SUBSET RevocationRows, versions: Nat]

\* Type correctness: rows are those posted, with unique keys.
TypeOK ==
  /\ competences \subseteq CompetenceRows
  /\ grants \subseteq GrantRows
  /\ \A g, h \in grants : g.authority_id = h.authority_id => g = h
  /\ delegations \subseteq DelegationRows
  /\ \A d, e \in delegations : d.delegation_id = e.delegation_id => d = e
  /\ revocations \subseteq RevocationRows
  /\ policies \in Seq(PolicyRows)
  /\ gate \in [Threads -> {Idle} \cup Serving]

Init ==
  /\ competences = {} /\ grants = {} /\ delegations = {} /\ revocations = {}
  /\ policies = <<>>
  /\ gate = [t \in Threads |-> Idle]

-----------------------------------------------------------------------------
\* Commits.  A row whose key exists is a conflict: it is rolled back, nothing changes.

AddCompetence(row) ==
  /\ competences' = competences \cup {row}
  /\ UNCHANGED <<grants, delegations, revocations, policies, gate>>

\* Mutant: an existing key is not a conflict.
AddAuthorityAgain(row) ==
  /\ grants' = grants \cup {row}
  /\ UNCHANGED <<competences, delegations, revocations, policies, gate>>

AddAuthority(row) ==
  /\ \A g \in grants : g.authority_id # row.authority_id
  /\ grants' = grants \cup {row}
  /\ UNCHANGED <<competences, delegations, revocations, policies, gate>>

\* The row is flushed, validated and committed in one transaction.
AddDelegation(row) ==
  /\ \A d \in delegations : d.delegation_id # row.delegation_id
  /\ ValidDelegation(grants, row)
  /\ delegations' = delegations \cup {row}
  /\ UNCHANGED <<competences, grants, revocations, policies, gate>>

RevokeDelegation(row) ==
  /\ \E d \in delegations : d.delegation_id = row.delegation_id
  /\ revocations' = revocations \cup {row}
  /\ UNCHANGED <<competences, grants, delegations, policies, gate>>

\* policy_version has no unique key: the same version may be added twice.
AddPolicy(row) ==
  /\ Len(policies) < MaxPolicies
  /\ policies' = Append(policies, row)
  /\ UNCHANGED <<competences, grants, delegations, revocations, gate>>

-----------------------------------------------------------------------------
\* The enforcement gate, query by query

At(t, step) == gate[t].step = step

\* active_competences
BeginGate(t, req) ==
  /\ At(t, "idle")
  /\ gate' = [gate EXCEPT ![t] =
       [step |-> "read_grants", request |-> req,
        competent |-> ActiveCompetences(competences, req), standing |-> {},
        pending |-> {}, live |-> {}, matched |-> {}, effect |-> "DENY",
        revoked |-> revocations, versions |-> Len(policies)]]
  /\ UNCHANGED tables

\* authority_grants
ReadGrants(t) ==
  /\ At(t, "read_grants")
  /\ gate' = [gate EXCEPT
       ![t].step = "read_delegations",
       ![t].standing = StandingGrants(grants, gate[t].request, gate[t].competent)]
  /\ UNCHANGED tables

\* active_delegations, its first query
ReadDelegations(t) ==
  /\ At(t, "read_delegations")
  /\ gate' = [gate EXCEPT
       ![t].step = "read_revocations",
       ![t].pending = CurrentDelegations(delegations, gate[t].request)]
  /\ UNCHANGED tables

\* Mutant: a delegation is live although it is revoked.
KeepRevoked(t, d) ==
  /\ At(t, "read_revocations") /\ d \in gate[t].pending
  /\ gate' = [gate EXCEPT ![t].pending = @ \ {d}, ![t].live = @ \cup {d}]
  /\ UNCHANGED tables

\* active_delegations, the query for one delegation
ReadRevocations(t, d) ==
  /\ At(t, "read_revocations") /\ d \in gate[t].pending
  /\ gate' = [gate EXCEPT
       ![t].pending = @ \ {d},
       ![t].live = IF Revoked(revocations, d, gate[t].request.at) THEN @ ELSE @ \cup {d}]
  /\ UNCHANGED tables

\* The delegations are validated against grants that cannot change any more, then
\* evaluate_policy reads the policies.
ReadPolicies(t) ==
  LET g == gate[t]
  IN  /\ At(t, "read_revocations") /\ g.pending = {}
      /\ gate' = [gate EXCEPT
           ![t].step = "answered",
           ![t].matched = {d \in g.live : Delegates(grants, d, g.request, g.competent)},
           ![t].effect = PolicyEffect(policies, g.request)]
      /\ UNCHANGED tables

\* The response is sent and the thread is free.
Release(t) ==
  /\ At(t, "answered")
  /\ gate' = [gate EXCEPT ![t] = Idle]
  /\ UNCHANGED tables

\* EnforcementDecisionContract.authorized and allowed_to_proceed.
Authorized(g) == g.standing # {} \/ g.matched # {}
Proceeds(g)   == g.step = "answered" /\ Authorized(g) /\ g.effect = "ALLOW"

-----------------------------------------------------------------------------
Add ==
  \/ \E row \in CompetenceRows : AddCompetence(row)
  \/ \E row \in GrantRows : AddAuthority(row)
  \/ \E row \in DelegationRows : AddDelegation(row)
  \/ \E row \in RevocationRows : RevokeDelegation(row)
  \/ \E row \in PolicyRows : AddPolicy(row)

Serve(t) ==
  \/ \E req \in Requests : BeginGate(t, req)
  \/ ReadGrants(t) \/ ReadDelegations(t) \/ ReadPolicies(t) \/ Release(t)
  \/ \E d \in DelegationRows : ReadRevocations(t, d)

Next == Add \/ \E t \in Threads : Serve(t)

Spec == Init /\ [][Next]_vars

-----------------------------------------------------------------------------
\* What evaluate_authority answers when nothing else runs

MatchedBy(req) ==
  MatchedDelegations(grants, delegations, revocations, req,
                     ActiveCompetences(competences, req))

StandingFor(req) == StandingGrants(grants, req, ActiveCompetences(competences, req))

Allowed(req) == StandingFor(req) # {} \/ MatchedBy(req) # {}

\* A verdict on a delegation is within the grant it is taken from: at the time of the
\* request the grant's period has begun and not ended, the delegator holds it, and
\* the delegatee is competent for it (validate_delegation, evaluate_authority).
DelegationWithinGrant ==
  \A req \in Requests : \A d \in MatchedBy(req) :
    \E g \in grants :
      /\ g.authority_id = d.authority_ref /\ g.subject_ref = d.delegator_ref
      /\ g.delegation_allowed /\ ActivePeriod(g, req.at)
      /\ Confers(g, req, ActiveCompetences(competences, req))

\* Request req was allowed by now and is not any more.
Withdrawn(req) == Allowed(req) /\ ~Allowed(req)'

\* Only a revocation takes authority away: a verdict on a request, whatever its time,
\* turns from allowed to not allowed by no other commit than the revocation, with
\* effect by that time, of a delegation it rested on.
RevocationsWithdraw ==
  \A req \in Requests : Withdrawn(req) =>
    \E r \in revocations' \ revocations, d \in MatchedBy(req) :
      r.delegation_id = d.delegation_id /\ r.effective_time <= req.at

\* The same as a property of every step (evaluate_authority reads what rows it finds).
OnlyRevocationWithdraws == [][RevocationsWithdraw]_vars

\* A gate's answer, put together from several moments, never rests on a delegation
\* whose revocation was committed before the request began.
RevokedBeforeRequestIsUnused ==
  \A t \in Threads : gate[t] # Idle =>
    \A d \in gate[t].matched : ~Revoked(gate[t].revoked, d, gate[t].request.at)

\* An answer on standing grants is still right when it is given, whatever was committed
\* while the gate was reading.
StandingVerdictStands ==
  \A t \in Threads : gate[t] # Idle =>
    gate[t].standing \subseteq StandingFor(gate[t].request)

\* A gate never lets an action pass that a policy version committed before the request
\* began denies: deny overrides every version added since.
DeniedBeforeRequestIsRefused ==
  \A t \in Threads : gate[t] # Idle /\ Proceeds(gate[t]) =>
    \A i \in 1 .. gate[t].versions :
      Applicable(policies[i], gate[t].request) =>
        \A item \in ToSet(policies[i].effects) : item.effect # "DENY"

\* evaluate_policy's reading order and early end compute what the versions mean together.
PolicyEffectIsMeaning ==
  \A req \in Requests : PolicyEffect(policies, req) = PolicyMeaning(policies, req)
=============================================================================
