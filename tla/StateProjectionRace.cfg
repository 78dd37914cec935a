\* Two handlers race on one work: its state against its trace.
SPECIFICATION Spec
CONSTANTS
  Works = {w1}
  Threads = {t1, t2}
  Nodes = {"draft"}
  Agents = {"agent"}
  Actions = {"act"}
  Capabilities = {"lookup"}
  ContractOf <- MCContractOf
  Node <- MCNode
  TransitionRequests <- ApprovalPath
  TaskRequests <- NoTasks
  Verdicts <- Allowing
  MaxTrace = 3
  MaxCrashes = 0
INVARIANTS
  StateIsProjection
