\* Signatures, attestations and everything their verification reads, in any order.
SPECIFICATION Spec
CONSTANTS
  Subjects = {"dean", "agent"}
  Authorities = {"a1"}
  DelegationIds = {"d1", "d2"}
  CredentialIds = {"k1", "k2"}
  RecordIds = {"s1", "s2"}
  Actions = {"approve", "publish"}
  Resources = {"r1"}
  Roles = {"owner"}
  Competences = {"governance"}
  IdentityRows <- Identities
  RoleRows <- DeanRoles
  CompetenceRows <- DeanCompetences
  CredentialRows <- Credentials
  GrantRows <- Grants
  DelegationRows <- Delegations
  RevocationRows <- Revocations
  SignatureRows <- Signatures
  AttestationRows <- Attestations
  MaxNow = 3
INVARIANT
  AttestedUnderGrant
PROPERTIES
  SignatureStands
  OnlyRevocationWithdrawsAttestation
