\* One fair handler at a time and no crash, every transition and every task.
SPECIFICATION FairSpec
CONSTANTS
  Works = {w1}
  Threads = {t1}
  Nodes = {"draft", "find"}
  Agents = {"agent"}
  Actions = {"act"}
  Capabilities = {"lookup"}
  ContractOf <- MCContractOf
  Node <- MCNode
  TransitionRequests <- EveryTransition
  TaskRequests <- EveryTask
  Verdicts <- AnyVerdict
  MaxTrace = 6
  MaxCrashes = 0
INVARIANTS
  ApprovalStands
  ReplayExplainsState
PROPERTIES
  ImplementsGovernedWork
  RefusalLeadsToHandover
