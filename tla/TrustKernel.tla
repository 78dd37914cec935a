----------------------------- MODULE TrustKernel -----------------------------
(***************************************************************************)
(* Credentials, human signatures and agent attestations.  A record is kept *)
(* without being verified; verification is done when somebody asks, today  *)
(* or in a year, and looks up what was in force when the record was made.  *)
(* It commits nothing, so it is an operator on the tables.  All rows are   *)
(* added and never changed.                                                *)
(*                                                                         *)
(* Keys are abstracted to who holds them: a record is genuine for the key  *)
(* of the subject that signed it.                                          *)
(***************************************************************************)
EXTENDS AuthorityRules, FiniteSets

CONSTANTS
  Subjects, Authorities, DelegationIds, CredentialIds, RecordIds, Actions, Resources,
  Roles, Competences,
  \* The rows clients may post:
  IdentityRows, RoleRows, CompetenceRows, CredentialRows, GrantRows, DelegationRows,
  RevocationRows, SignatureRows, AttestationRows,
  MaxNow               \* bound: the last time of the clock

Lifecycle == {"ACTIVE", "OTHER"}

Scope == [resource: Resources \cup {"none", "*"}]

IdentityRecord == [subject_id: Subjects, subject_type: {"HUMAN", "AGENT"}]

RoleAssignment ==
  [subject_ref: Subjects, role_ref: Roles, lifecycle_state: Lifecycle,
   effective_from: Nat, effective_to: Nat]

CompetenceAssertion ==
  [subject_ref: Subjects, competence_ref: Competences, lifecycle_state: Lifecycle,
   validation_state: {"VALIDATED", "OTHER"}, effective_from: Nat, effective_to: Nat]

\* revoked_at is NoEnd when it is missing; a REVOKED credential has one.
TrustCredential ==
  [credential_id: CredentialIds, subject_ref: Subjects, key: Subjects,
   status: {"ACTIVE", "SUSPENDED", "REVOKED", "EXPIRED"},
   valid_from: Nat, valid_until: Nat, revoked_at: Nat]

AuthorityGrant ==
  [authority_id: Authorities, subject_ref: Subjects, authority_type: Actions,
   scope: Scope, competence_requirements: SUBSET Competences,
   delegation_allowed: BOOLEAN, lifecycle_state: Lifecycle,
   effective_from: Nat, effective_to: Nat]

DelegationGrant ==
  [delegation_id: DelegationIds, delegator_ref: Subjects, delegatee_ref: Subjects,
   authority_ref: Authorities, delegated_scope: Scope, lifecycle_state: Lifecycle,
   valid_from: Nat, valid_until: Nat]

DelegationRevocation == [delegation_id: DelegationIds, effective_time: Nat]

\* signed_with: whose key made the signature; tampered: the record differs from the
\* bytes that were signed.
SignatureRecord ==
  [signature_id: RecordIds, signer_identity_ref: Subjects, signer_role_ref: Roles,
   authority_ref: Authorities, credential_ref: CredentialIds, signed_at: Nat,
   signed_with: Subjects, tampered: BOOLEAN]

\* delegation_ref is "none" only on an attestation that is not consequential.
AgentAttestation ==
  [attestation_id: RecordIds, agent_ref: Subjects, action: Actions,
   delegation_ref: DelegationIds \cup {"none"}, credential_ref: CredentialIds,
   timestamp: Nat, signed_with: Subjects, tampered: BOOLEAN, consequential: BOOLEAN]

ASSUME RowsAssumption ==
  /\ IdentityRows \subseteq IdentityRecord
  /\ RoleRows \subseteq RoleAssignment
  /\ CompetenceRows \subseteq CompetenceAssertion
  /\ CredentialRows \subseteq TrustCredential
  /\ GrantRows \subseteq AuthorityGrant
  /\ DelegationRows \subseteq DelegationGrant
  /\ RevocationRows \subseteq DelegationRevocation
  /\ SignatureRows \subseteq SignatureRecord
  /\ AttestationRows \subseteq AgentAttestation

\* The model validators of the contracts.
ASSUME ContractsAssumption ==
  /\ \A c \in CredentialRows :
       /\ Period(c.valid_from, c.valid_until)
       /\ c.status = "REVOKED" => c.revoked_at # NoEnd
  /\ \A a \in AttestationRows : a.consequential => a.delegation_ref # "none"
  /\ \A d \in DelegationRows : d.valid_from < d.valid_until
  /\ MaxNow \in Nat

VARIABLES
  identities, roles, competences, credentials, grants, delegations, revocations,
  signatures, attestations,   \* the tables, as sets of rows
  now                         \* the clock, which verification does not look at

authority == <<identities, roles, competences, grants, delegations, revocations>>
records   == <<credentials, signatures, attestations>>
vars == <<identities, roles, competences, credentials, grants, delegations,
          revocations, signatures, attestations, now>>

Keyed(rows, id(_)) == \A r, s \in rows : id(r) = id(s) => r = s

CredentialId(c) == c.credential_id
AuthorityId(g)  == g.authority_id
DelegationId(d) == d.delegation_id

\* Type correctness: rows are those posted, with unique keys, and a record's credential
\* exists.
TypeOK ==
  /\ identities \subseteq IdentityRows /\ roles \subseteq RoleRows
  /\ competences \subseteq CompetenceRows
  /\ credentials \subseteq CredentialRows /\ Keyed(credentials, CredentialId)
  /\ grants \subseteq GrantRows /\ Keyed(grants, AuthorityId)
  /\ delegations \subseteq DelegationRows /\ Keyed(delegations, DelegationId)
  /\ revocations \subseteq RevocationRows
  /\ signatures \subseteq SignatureRows /\ attestations \subseteq AttestationRows
  /\ \A r \in signatures \cup attestations :
       \E c \in credentials : c.credential_id = r.credential_ref
  /\ now \in Nat

Init ==
  /\ identities = {} /\ roles = {} /\ competences = {} /\ grants = {}
  /\ delegations = {} /\ revocations = {}
  /\ credentials = {} /\ signatures = {} /\ attestations = {}
  /\ now = 0

-----------------------------------------------------------------------------
\* Commits.  A row whose key exists is a conflict and changes nothing.

AddIdentity(row) ==
  /\ identities' = identities \cup {row}
  /\ UNCHANGED <<roles, competences, grants, delegations, revocations, records, now>>

AddRole(row) ==
  /\ roles' = roles \cup {row}
  /\ UNCHANGED <<identities, competences, grants, delegations, revocations, records, now>>

AddCompetence(row) ==
  /\ competences' = competences \cup {row}
  /\ UNCHANGED <<identities, roles, grants, delegations, revocations, records, now>>

AddAuthority(row) ==
  /\ \A g \in grants : g.authority_id # row.authority_id
  /\ grants' = grants \cup {row}
  /\ UNCHANGED <<identities, roles, competences, delegations, revocations, records, now>>

\* Mutant: a delegation is kept without being validated.
AddUnvalidatedDelegation(row) ==
  /\ \A d \in delegations : d.delegation_id # row.delegation_id
  /\ delegations' = delegations \cup {row}
  /\ UNCHANGED <<identities, roles, competences, grants, revocations, records, now>>

AddDelegation(row) ==
  /\ \A d \in delegations : d.delegation_id # row.delegation_id
  /\ ValidDelegation(grants, row)
  /\ delegations' = delegations \cup {row}
  /\ UNCHANGED <<identities, roles, competences, grants, revocations, records, now>>

RevokeDelegation(row) ==
  /\ \E d \in delegations : d.delegation_id = row.delegation_id
  /\ revocations' = revocations \cup {row}
  /\ UNCHANGED <<identities, roles, competences, grants, delegations, records, now>>

\* The fingerprint of the key is checked when the credential is added.
AddTrustCredential(row) ==
  /\ \A c \in credentials : c.credential_id # row.credential_id
  /\ credentials' = credentials \cup {row}
  /\ UNCHANGED <<authority, signatures, attestations, now>>

AddSignatureRecord(row) ==
  /\ \E c \in credentials : c.credential_id = row.credential_ref
  /\ \A s \in signatures : s.signature_id # row.signature_id
  /\ signatures' = signatures \cup {row}
  /\ UNCHANGED <<authority, credentials, attestations, now>>

AddAgentAttestation(row) ==
  /\ \E c \in credentials : c.credential_id = row.credential_ref
  /\ \A a \in attestations : a.attestation_id # row.attestation_id
  /\ attestations' = attestations \cup {row}
  /\ UNCHANGED <<authority, credentials, signatures, now>>

Tick ==
  /\ now < MaxNow /\ now' = now + 1
  /\ UNCHANGED <<authority, records>>

Next ==
  \/ \E row \in IdentityRows : AddIdentity(row)
  \/ \E row \in RoleRows : AddRole(row)
  \/ \E row \in CompetenceRows : AddCompetence(row)
  \/ \E row \in GrantRows : AddAuthority(row)
  \/ \E row \in DelegationRows : AddDelegation(row)
  \/ \E row \in RevocationRows : RevokeDelegation(row)
  \/ \E row \in CredentialRows : AddTrustCredential(row)
  \/ \E row \in SignatureRows : AddSignatureRecord(row)
  \/ \E row \in AttestationRows : AddAgentAttestation(row)
  \/ Tick

Spec == Init /\ [][Next]_vars

-----------------------------------------------------------------------------
\* Verification

\* _active_credential and the checks that the credential is the subject's.
CredentialValid(c, subject, at) ==
  /\ c.status = "ACTIVE"
  /\ c.valid_from <= at
  /\ c.valid_until = NoEnd \/ at < c.valid_until
  /\ c.revoked_at = NoEnd \/ at < c.revoked_at
  /\ c.subject_ref = subject

Genuine(c, record) == record.signed_with = c.key /\ ~record.tampered

\* Mutant: the role has to be active when the signature is verified.
RoleHeldNow(s) ==
  \E r \in roles : /\ r.subject_ref = s.signer_identity_ref
                   /\ r.role_ref = s.signer_role_ref /\ InForce(r, now)

RoleValid(s) ==
  \E r \in roles : /\ r.subject_ref = s.signer_identity_ref
                   /\ r.role_ref = s.signer_role_ref /\ InForce(r, s.signed_at)

\* The types the signer may be taken for: of any identity with its subject, which need
\* not be unique, or HUMAN when it has none.
SignerTypes(s) ==
  LET own == {i \in identities : i.subject_id = s.signer_identity_ref}
  IN  IF own = {} THEN {"HUMAN"} ELSE {i.subject_type : i \in own}

\* The signed authority is asked for at the signing time, with the grant's own resource.
AuthorityValid(s, type) ==
  \E g \in grants :
    LET req == [subject_ref |-> s.signer_identity_ref, subject_type |-> type,
                action |-> g.authority_type, resource |-> g.scope.resource,
                at |-> s.signed_at, competence_refs |-> {}]
        competent == ActiveCompetences(competences, req)
    IN  /\ g.authority_id = s.authority_ref /\ g.subject_ref = s.signer_identity_ref
        /\ \/ g \in StandingGrants(grants, req, competent)
           \/ \E d \in MatchedDelegations(grants, delegations, revocations, req,
                                          competent) : d.authority_ref = g.authority_id

\* verify_signature_record: institutional_valid, for the type found for the signer.
SignatureValid(s, type) ==
  /\ \E c \in credentials :
       /\ c.credential_id = s.credential_ref
       /\ CredentialValid(c, s.signer_identity_ref, s.signed_at) /\ Genuine(c, s)
  /\ RoleValid(s)
  /\ AuthorityValid(s, type)

\* Mutant: the delegation has to be active when the attestation is verified.
DelegatedNow(a) ==
  \E d \in CurrentDelegations(delegations, [subject_ref |-> a.agent_ref, at |-> now]) :
    d.delegation_id = a.delegation_ref /\ ~Revoked(revocations, d, now)

\* The delegation an attestation names is active at its time; nothing else is asked of it.
DelegationActive(a) ==
  \E d \in CurrentDelegations(delegations,
                              [subject_ref |-> a.agent_ref, at |-> a.timestamp]) :
    d.delegation_id = a.delegation_ref /\ ~Revoked(revocations, d, a.timestamp)

\* verify_agent_attestation: attestation_valid.
AttestationValid(a) ==
  /\ \E c \in credentials :
       /\ c.credential_id = a.credential_ref
       /\ CredentialValid(c, a.agent_ref, a.timestamp) /\ Genuine(c, a)
  /\ a.consequential => DelegationActive(a)

-----------------------------------------------------------------------------
\* Signature s verifies whatever type its signer is taken for.
SignatureVerifies(s) == \A type \in SignerTypes(s) : SignatureValid(s, type)

\* A signature that verified goes on verifying: neither time nor any commit withdraws it,
\* but an identity that is registered for the signer or the revocation, with effect by
\* the signing time, of the signer's own delegation of the signed authority.
SignatureKept ==
  \A s \in signatures : SignatureVerifies(s) /\ ~SignatureVerifies(s)' =>
    \/ \E i \in identities' \ identities : i.subject_id = s.signer_identity_ref
    \/ \E r \in revocations' \ revocations, d \in delegations :
         /\ d.delegatee_ref = s.signer_identity_ref /\ d.authority_ref = s.authority_ref
         /\ r.delegation_id = d.delegation_id /\ r.effective_time <= s.signed_at

\* The same as a property of every step (verify_signature_record).
SignatureStands == [][SignatureKept]_vars

\* An attestation that verified is withdrawn by nothing but a revocation of its
\* delegation with effect by its time (verify_agent_attestation).
AttestationKept ==
  \A a \in attestations : AttestationValid(a) /\ ~AttestationValid(a)' =>
    \E r \in revocations' \ revocations :
      r.delegation_id = a.delegation_ref /\ r.effective_time <= a.timestamp

\* The same as a property of every step (verify_agent_attestation).
OnlyRevocationWithdrawsAttestation == [][AttestationKept]_vars

\* A consequential attestation that verifies was made under a grant that may be delegated
\* and whose period covers its time.  Verification does not look at the grant: that the
\* delegation was validated when it was added has to be enough.
AttestedUnderGrant ==
  \A a \in attestations : a.consequential /\ AttestationValid(a) =>
    \E d \in delegations, g \in grants :
      /\ d.delegation_id = a.delegation_ref /\ d.delegatee_ref = a.agent_ref
      /\ g.authority_id = d.authority_ref /\ g.subject_ref = d.delegator_ref
      /\ g.delegation_allowed /\ ActivePeriod(g, a.timestamp)
=============================================================================
