\* Two handlers move one E3 work up to its authorised action, run tasks and hand over;
\* one of them may die midway.
SPECIFICATION Spec
CONSTANTS
  Works = {w1}
  Threads = {t1, t2}
  Nodes = {"draft"}
  Agents = {"agent"}
  Actions = {"act"}
  Capabilities = {"lookup"}
  ContractOf <- MCContractOf
  Node <- MCNode
  TransitionRequests <- ApprovalPath
  TaskRequests <- MixedTasks
  Verdicts <- Allowing
  MaxTrace = 4
  MaxCrashes = 1
SYMMETRY ThreadSymmetry
INVARIANTS
  TypeOK
  ApprovalBeforeAction
  StateHasRecord
  RefusedTasksHandedOver
  AuditAccountsForTrace
