---------------------------- MODULE MCTrustKernel ----------------------------
(***************************************************************************)
(* Rows of TrustKernel for TLC: a dean who signs, and an agent that        *)
(* attests under a delegation of the dean's grant.                         *)
(***************************************************************************)
EXTENDS TrustKernel

Credential(id, subject, status, from, until, revoked) ==
  [credential_id |-> id, subject_ref |-> subject, key |-> subject, status |-> status,
   valid_from |-> from, valid_until |-> until, revoked_at |-> revoked]

DeanRole(from, to) ==
  [subject_ref |-> "dean", role_ref |-> "owner", lifecycle_state |-> "ACTIVE",
   effective_from |-> from, effective_to |-> to]

Governance(from, to) ==
  [subject_ref |-> "dean", competence_ref |-> "governance", lifecycle_state |-> "ACTIVE",
   validation_state |-> "VALIDATED", effective_from |-> from, effective_to |-> to]

Granted(id, action, requires, delegable, to) ==
  [authority_id |-> id, subject_ref |-> "dean", authority_type |-> action,
   scope |-> [resource |-> "r1"], competence_requirements |-> requires,
   delegation_allowed |-> delegable, lifecycle_state |-> "ACTIVE",
   effective_from |-> 1, effective_to |-> to]

Delegated(id, delegatee, from, until) ==
  [delegation_id |-> id, delegator_ref |-> "dean", delegatee_ref |-> delegatee,
   authority_ref |-> "a1", delegated_scope |-> [resource |-> "r1"],
   lifecycle_state |-> "ACTIVE", valid_from |-> from, valid_until |-> until]

Revoked1(id, at) == [delegation_id |-> id, effective_time |-> at]

Signed(id, at, by, tampered) ==
  [signature_id |-> id, signer_identity_ref |-> "dean", signer_role_ref |-> "owner",
   authority_ref |-> "a1", credential_ref |-> "k1", signed_at |-> at,
   signed_with |-> by, tampered |-> tampered]

Attested(id, at, action, delegation) ==
  [attestation_id |-> id, agent_ref |-> "agent", action |-> action,
   delegation_ref |-> delegation, credential_ref |-> "k2", timestamp |-> at,
   signed_with |-> "agent", tampered |-> FALSE, consequential |-> delegation # "none"]

-----------------------------------------------------------------------------
\* A human signature: its role ends at 2, its competence and grant at 3; then the signer
\* is registered, as a human or as an agent with a delegation of its own grant.
\* Attestations by an agent, and delegations in and beyond the period of their grant.

Identities  == {[subject_id |-> "dean", subject_type |-> k] : k \in {"HUMAN", "AGENT"}}
DeanRoles   == {DeanRole(1, 2)}
DeanCompetences == {Governance(1, 3)}
Credentials == {Credential("k1", "dean", "ACTIVE", 1, NoEnd, 2),
                Credential("k2", "agent", "ACTIVE", 1, 4, NoEnd)}
Grants      == {Granted("a1", "approve", {"governance"}, TRUE, 3),
                Granted("a1", "approve", {}, FALSE, 4)}
Delegations == {Delegated("d1", "agent", 1, 3), Delegated("d1", "agent", 2, 4),
                Delegated("d2", "dean", 1, 3)}
Revocations == {Revoked1("d1", 2), Revoked1("d2", 1)}
Signatures  == {Signed("s1", 1, "dean", FALSE), Signed("s1", 2, "dean", FALSE),
                Signed("s1", 1, "dean", TRUE)}
Attestations == {Attested("s1", 1, "approve", "d1"), Attested("s1", 3, "approve", "d1"),
                 Attested("s1", 2, "approve", "none")}
=============================================================================
