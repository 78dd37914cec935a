-------------------------- MODULE TrustKernelProofs --------------------------
(***************************************************************************)
(* Theorems about TrustKernel for every set of subjects, rows and records. *)
(***************************************************************************)
EXTENDS TrustKernel, TLAPS

-----------------------------------------------------------------------------
\* The tables only grow

LEMMA TablesGrow ==
  ASSUME [Next]_vars
  PROVE  /\ identities \subseteq identities' /\ roles \subseteq roles'
         /\ competences \subseteq competences' /\ grants \subseteq grants'
         /\ delegations \subseteq delegations' /\ revocations \subseteq revocations'
         /\ credentials \subseteq credentials'
BY DEF Next, AddIdentity, AddRole, AddCompetence, AddAuthority, AddDelegation,
       RevokeDelegation, AddTrustCredential, AddSignatureRecord, AddAgentAttestation,
       Tick, vars, authority, records

-----------------------------------------------------------------------------
\* Type correctness, and that every delegation was validated

\* The inductive invariant: beside the types, no grant that is added later makes a kept
\* delegation invalid.
DelegationsValid == TypeOK /\ \A d \in delegations : ValidDelegation(grants, d)

LEMMA ValidStays ==
  ASSUME NEW G, NEW H, G \subseteq H, NEW d, ValidDelegation(G, d)
  PROVE  ValidDelegation(H, d)
BY DEF ValidDelegation

LEMMA ValidInit == Init => DelegationsValid
BY DEF Init, DelegationsValid, TypeOK, Keyed

LEMMA ValidStep == DelegationsValid /\ [Next]_vars => DelegationsValid'
<1> SUFFICES ASSUME DelegationsValid, [Next]_vars PROVE DelegationsValid'
  OBVIOUS
<1> USE DEF authority, records
<1>1. TypeOK'
  <2>1. ASSUME NEW row \in IdentityRows, AddIdentity(row) PROVE TypeOK'
    BY <2>1 DEF DelegationsValid, TypeOK, AddIdentity
  <2>2. ASSUME NEW row \in RoleRows, AddRole(row) PROVE TypeOK'
    BY <2>2 DEF DelegationsValid, TypeOK, AddRole
  <2>3. ASSUME NEW row \in CompetenceRows, AddCompetence(row) PROVE TypeOK'
    BY <2>3 DEF DelegationsValid, TypeOK, AddCompetence
  <2>4. ASSUME NEW row \in GrantRows, AddAuthority(row) PROVE TypeOK'
    BY <2>4 DEF DelegationsValid, TypeOK, AddAuthority, Keyed, AuthorityId
  <2>5. ASSUME NEW row \in DelegationRows, AddDelegation(row) PROVE TypeOK'
    BY <2>5 DEF DelegationsValid, TypeOK, AddDelegation, Keyed, DelegationId
  <2>6. ASSUME NEW row \in RevocationRows, RevokeDelegation(row) PROVE TypeOK'
    BY <2>6 DEF DelegationsValid, TypeOK, RevokeDelegation
  <2>7. ASSUME NEW row \in CredentialRows, AddTrustCredential(row) PROVE TypeOK'
    BY <2>7 DEF DelegationsValid, TypeOK, AddTrustCredential, Keyed, CredentialId
  <2>8. ASSUME NEW row \in SignatureRows, AddSignatureRecord(row) PROVE TypeOK'
    BY <2>8 DEF DelegationsValid, TypeOK, AddSignatureRecord
  <2>9. ASSUME NEW row \in AttestationRows, AddAgentAttestation(row) PROVE TypeOK'
    BY <2>9 DEF DelegationsValid, TypeOK, AddAgentAttestation
  <2>10. CASE Tick
    BY <2>10 DEF DelegationsValid, TypeOK, Tick
  <2>11. CASE UNCHANGED vars
    BY <2>11 DEF DelegationsValid, TypeOK, vars, Keyed
  <2>12. QED
    BY <2>1, <2>2, <2>3, <2>4, <2>5, <2>6, <2>7, <2>8, <2>9, <2>10, <2>11 DEF Next
<1>2. ASSUME NEW d \in delegations' PROVE ValidDelegation(grants, d)
  BY DEF DelegationsValid, Next, AddIdentity, AddRole, AddCompetence, AddAuthority,
         AddDelegation, RevokeDelegation, AddTrustCredential, AddSignatureRecord,
         AddAgentAttestation, Tick, vars
<1>3. \A d \in delegations' : ValidDelegation(grants', d)
  BY <1>2, TablesGrow, ValidStays
<1>4. QED
  BY <1>1, <1>3 DEF DelegationsValid, ValidDelegation

(***************************************************************************)
(* Type correctness for every set of rows: the tables hold posted rows     *)
(* under unique keys, and a record's credential is registered.             *)
(***************************************************************************)
THEOREM TypeCorrect == Spec => []TypeOK
<1>1. DelegationsValid => TypeOK
  BY DEF DelegationsValid
<1>2. QED
  BY <1>1, ValidInit, ValidStep, PTL DEF Spec

(***************************************************************************)
(* For every set of rows: a consequential attestation that verifies was    *)
(* made under a grant of the delegator that may be delegated and whose     *)
(* period covers the attestation, although verify_agent_attestation never  *)
(* looks at a grant: add_delegation did.                                   *)
(***************************************************************************)
THEOREM AttestationsAreGranted == Spec => []AttestedUnderGrant
<1>1. ASSUME DelegationsValid, NEW a \in attestations, a.consequential,
             AttestationValid(a)
      PROVE  \E d \in delegations, g \in grants :
               /\ d.delegation_id = a.delegation_ref /\ d.delegatee_ref = a.agent_ref
               /\ g.authority_id = d.authority_ref /\ g.subject_ref = d.delegator_ref
               /\ g.delegation_allowed /\ ActivePeriod(g, a.timestamp)
  <2>1. PICK d \in delegations :
          /\ d.delegation_id = a.delegation_ref
          /\ d.delegatee_ref = a.agent_ref
          /\ d.valid_from <= a.timestamp /\ a.timestamp < d.valid_until
    BY <1>1 DEF AttestationValid, DelegationActive, CurrentDelegations
  <2>2. PICK g \in grants :
          /\ g.authority_id = d.authority_ref
          /\ g.subject_ref = d.delegator_ref
          /\ g.delegation_allowed
          /\ g.effective_from <= d.valid_from
          /\ g.effective_to # NoEnd => d.valid_until <= g.effective_to
    BY <1>1, <2>1 DEF DelegationsValid, ValidDelegation
  <2>3. /\ g.effective_from \in Nat /\ g.effective_to \in Nat
        /\ d.valid_from \in Nat /\ d.valid_until \in Nat /\ a.timestamp \in Nat
    BY <1>1, RowsAssumption
    DEF DelegationsValid, TypeOK, AuthorityGrant, DelegationGrant, AgentAttestation
  <2>4. ActivePeriod(g, a.timestamp)
    BY <2>1, <2>2, <2>3 DEF ActivePeriod
  <2>5. QED
    BY <2>1, <2>2, <2>4
<1>2. DelegationsValid => AttestedUnderGrant
  BY <1>1 DEF AttestedUnderGrant
<1>3. QED
  BY <1>2, ValidInit, ValidStep, PTL DEF Spec

-----------------------------------------------------------------------------
\* What withdraws a verdict

(***************************************************************************)
(* For every set of rows: an attestation that verified is withdrawn by no  *)
(* time and no commit but a revocation of its delegation with effect by    *)
(* its time (verify_agent_attestation looks at the time of the record).    *)
(***************************************************************************)
THEOREM AttestationsStand == Spec => OnlyRevocationWithdrawsAttestation
<1>1. ASSUME [Next]_vars, NEW a \in attestations, AttestationValid(a),
             ~AttestationValid(a)'
      PROVE  \E r \in revocations' \ revocations :
               r.delegation_id = a.delegation_ref /\ r.effective_time <= a.timestamp
  <2>1. a.consequential /\ DelegationActive(a) /\ ~DelegationActive(a)'
    BY <1>1, TablesGrow DEF AttestationValid, CredentialValid, Genuine
  <2>2. PICK d \in CurrentDelegations(delegations,
                     [subject_ref |-> a.agent_ref, at |-> a.timestamp]) :
          d.delegation_id = a.delegation_ref /\ ~Revoked(revocations, d, a.timestamp)
    BY <2>1 DEF DelegationActive
  <2>3. d \in CurrentDelegations(delegations',
                [subject_ref |-> a.agent_ref, at |-> a.timestamp])
    BY <1>1, TablesGrow DEF CurrentDelegations
  <2>4. Revoked(revocations', d, a.timestamp)
    BY <2>1, <2>2, <2>3 DEF DelegationActive
  <2>5. QED
    BY <2>2, <2>4 DEF Revoked
<1>2. [Next]_vars => AttestationKept
  BY <1>1 DEF AttestationKept
<1>3. QED
  BY <1>2, PTL DEF Spec, OnlyRevocationWithdrawsAttestation

\* What gives a signer the authority goes on giving it, but for a revocation.
LEMMA AuthorityStays ==
  ASSUME [Next]_vars, NEW s, NEW type, AuthorityValid(s, type), ~AuthorityValid(s, type)'
  PROVE  \E r \in revocations' \ revocations, d \in delegations :
           /\ d.delegatee_ref = s.signer_identity_ref /\ d.authority_ref = s.authority_ref
           /\ r.delegation_id = d.delegation_id /\ r.effective_time <= s.signed_at
<1> DEFINE Asked(g) ==
             [subject_ref |-> s.signer_identity_ref, subject_type |-> type,
              action |-> g.authority_type, resource |-> g.scope.resource,
              at |-> s.signed_at, competence_refs |-> {}]
           Competent(g) == ActiveCompetences(competences, Asked(g))
           Later(g) == ActiveCompetences(competences', Asked(g))
<1>1. PICK g \in grants :
        /\ g.authority_id = s.authority_ref /\ g.subject_ref = s.signer_identity_ref
        /\ \/ g \in StandingGrants(grants, Asked(g), Competent(g))
           \/ \E d \in MatchedDelegations(grants, delegations, revocations, Asked(g),
                                          Competent(g)) : d.authority_ref = g.authority_id
  BY DEF AuthorityValid
<1>2. g \in grants' /\ Competent(g) \subseteq Later(g)
  BY TablesGrow DEF ActiveCompetences
<1>3. /\ g \notin StandingGrants(grants', Asked(g), Later(g))
      /\ \A d \in MatchedDelegations(grants', delegations', revocations', Asked(g),
                                     Later(g)) : d.authority_ref # g.authority_id
  BY <1>1, <1>2 DEF AuthorityValid
<1> HIDE DEF Competent, Later
<1>4. StandingGrants(grants, Asked(g), Competent(g))
        \subseteq StandingGrants(grants', Asked(g), Later(g))
  BY <1>2, TablesGrow DEF StandingGrants, Confers
<1>5. PICK d \in MatchedDelegations(grants, delegations, revocations, Asked(g),
                                    Competent(g)) :
        /\ d.authority_ref = g.authority_id
        /\ d \notin MatchedDelegations(grants', delegations', revocations', Asked(g),
                                       Later(g))
  BY <1>1, <1>3, <1>4
<1>6. /\ d \in CurrentDelegations(delegations', Asked(g))
      /\ ~Revoked(revocations, d, s.signed_at)
      /\ Delegates(grants', d, Asked(g), Later(g))
  BY <1>2, <1>5, TablesGrow
  DEF MatchedDelegations, CurrentDelegations, Delegates, ValidDelegation, Confers
<1>7. Revoked(revocations', d, s.signed_at)
  BY <1>5, <1>6 DEF MatchedDelegations
<1>8. PICK r \in revocations' \ revocations :
        r.delegation_id = d.delegation_id /\ r.effective_time <= s.signed_at
  BY <1>6, <1>7 DEF Revoked
<1>9. d \in delegations /\ d.delegatee_ref = s.signer_identity_ref
  BY <1>5 DEF MatchedDelegations, CurrentDelegations
<1>10. QED
  BY <1>1, <1>5, <1>8, <1>9

(***************************************************************************)
(* For every set of rows: a signature that verified is withdrawn by no     *)
(* time and no commit but a new identity of its signer or the revocation,  *)
(* with effect by the signing time, of the signer's delegation of the      *)
(* authority: verify_signature_record asks what was in force then.         *)
(***************************************************************************)
THEOREM SignaturesStand == Spec => SignatureStands
<1>1. ASSUME [Next]_vars, NEW s \in signatures, SignatureVerifies(s),
             ~SignatureVerifies(s)',
             \A i \in identities' \ identities : i.subject_id # s.signer_identity_ref
      PROVE  \E r \in revocations' \ revocations, d \in delegations :
               /\ d.delegatee_ref = s.signer_identity_ref
               /\ d.authority_ref = s.authority_ref
               /\ r.delegation_id = d.delegation_id /\ r.effective_time <= s.signed_at
  <2>1. SignerTypes(s)' = SignerTypes(s)
    <3>1. {i \in identities' : i.subject_id = s.signer_identity_ref}
            = {i \in identities : i.subject_id = s.signer_identity_ref}
      BY <1>1, TablesGrow
    <3>2. QED
      BY <3>1 DEF SignerTypes
  <2>2. PICK type \in SignerTypes(s) : SignatureValid(s, type) /\ ~SignatureValid(s, type)'
    BY <1>1, <2>1 DEF SignatureVerifies
  <2>3. RoleValid(s) => RoleValid(s)'
    BY <1>1, TablesGrow DEF RoleValid
  <2>4. AuthorityValid(s, type) /\ ~AuthorityValid(s, type)'
    BY <1>1, <2>2, <2>3, TablesGrow DEF SignatureValid, CredentialValid, Genuine
  <2>5. QED
    BY <1>1, <2>4, AuthorityStays
<1>2. [Next]_vars => SignatureKept
  BY <1>1 DEF SignatureKept
<1>3. QED
  BY <1>2, PTL DEF Spec, SignatureStands
=============================================================================
