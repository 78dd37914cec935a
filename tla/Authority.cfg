\* Every order of commits to the tables, and a gate that answers meanwhile.
SPECIFICATION Spec
CONSTANTS
  Subjects = {"prof", "agent"}
  Authorities = {"a1", "a2"}
  DelegationIds = {"d1", "d2"}
  Actions = {"approve"}
  Resources = {"r1", "r2"}
  Contexts = {"c1"}
  Competences = {"governance"}
  Threads = {t1}
  CompetenceRows <- CompetenceTable
  GrantRows <- GrantTable
  DelegationRows <- DelegationTable
  RevocationRows <- RevocationTable
  PolicyRows <- PolicyTable
  Requests <- RequestTable
  MaxPolicies = 2
INVARIANTS
  TypeOK
  DelegationWithinGrant
  RevokedBeforeRequestIsUnused
  DeniedBeforeRequestIsRefused
  PolicyEffectIsMeaning
PROPERTY
  OnlyRevocationWithdraws
