\* A work is defined, planned and approved while the authority kernel's rows are posted.
SPECIFICATION GovernedSpec
CONSTANTS
  Works = {w1}
  Threads = {t1}
  Nodes = {"gate", "find"}
  Agents = {"agent"}
  Actions = {"approve"}
  Capabilities = {"lookup"}
  ContractOf <- MCContractOf
  Node <- MCNode
  TransitionRequests <- TheTransitions
  TaskRequests <- TheTasks
  Verdicts <- TheVerdicts
  MaxTrace = 4
  MaxCrashes = 1
  Subjects = {"prof", "agent"}
  Authorities = {"a1"}
  DelegationIds = {"d1"}
  Resources = {"r1"}
  Contexts = {"review"}
  Competences = {}
  CompetenceRows = {}
  GrantRows <- GrantTable
  DelegationRows <- DelegationTable
  RevocationRows <- RevocationTable
  PolicyRows <- PolicyTable
  MaxPolicies = 1
  WorkTypes = {"review"}
  GraphRefs = {"g1", "g2", "g3"}
  PlanIds = {"p1"}
  RiskClasses = {"high", "low"}
  Planners = {q1}
  ContractRows <- ContractTable
  GraphRows <- GraphTable
  PlanRequests <- PlanTable
  SubjectType <- MCSubjectType
  ApprovalOf <- MCApprovalOf
  GateOf <- MCGateOf
  ContextOf <- MCContextOf
  MaxTime = 2
CONSTRAINT Phased
INVARIANTS
  GovernedTypeOK
  ApprovalsAreLicensed
  ActionsAreLicensed
  PlansRestOnDefinitions
CHECK_DEADLOCK FALSE
