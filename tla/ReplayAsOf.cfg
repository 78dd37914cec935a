\* A decision, replayed as of a time, and rows recorded or effective later.
SPECIFICATION Spec
CONSTANTS
  Subjects = {"prof"}
  Authorities = {"a1"}
  PolicyIds = {"approval"}
  DecisionIds = {"d1"}
  Names = {"owner", "governance"}
  PolicyRows <- MCPolicies
  RoleRows <- None
  CompetenceRows <- None
  DecisionRows <- MCDecisions
  TransitionRows <- MCTransitions
  MaxCommits = 3
CHECK_DEADLOCK FALSE
INVARIANT
  ReplayShowsItsTime
