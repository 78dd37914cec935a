\* Every order of up to five commits; the bound ends them.
SPECIFICATION Spec
CONSTANTS
  Subjects = {"prof"}
  Authorities = {"a1"}
  PolicyIds = {"approval"}
  DecisionIds = {"d1"}
  Names = {"owner", "governance"}
  PolicyRows <- MCPolicies
  RoleRows <- MCRoles
  CompetenceRows <- MCCompetences
  DecisionRows <- MCDecisions
  TransitionRows <- MCTransitions
  MaxCommits = 5
CHECK_DEADLOCK FALSE
PROPERTIES
  OnlyLateRowsChangeReplay
  CompleteReplayStays
