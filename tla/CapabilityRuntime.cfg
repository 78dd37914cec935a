\* Planning, wires, an assembly and promotions beside each other and the registries.
SPECIFICATION Spec
CONSTANTS
  Threads = {t1, t2}
  CapabilityRefs = {"programmes", "summaries", "publications"}
  Domains = {"education"}
  OperationIds = {"retrieve", "summarize", "publish"}
  BoxRefs = {1, 2, 3, 4}
  RuntimeTypes = {"python", "java"}
  Semantics = {"programme", "brief"}
  Constraints <- TheConstraints
  ContractRefs = {"record", "text"}
  Needs = {"read"}
  Fields = {"title", "brief", "page"}
  TransformRefs = {"to_text"}
  AdapterRefs = {"to_java"}
  AssemblyRefs = {"digest"}
  CandidateIds = {"one", "two"}
  CapabilityRows <- TheCapabilities
  BoxRows <- TheBoxes
  TransformRows <- TheTransforms
  AdapterRows <- TheAdapters
  PlanRequests <- TheRequests
  Chains = {2}
  Proposals <- TheProposals
  Inputs = {{"title"}}
  Contexts = {{}, {"read"}}
  MaxEvidence = 2
  MaxPlans = 2
  MaxRuns = 2
INVARIANTS
  PlansAreProven
  WiresAreGated
  RunsAreWhole
  PromotionsStand
SYMMETRY ThreadSymmetry
CHECK_DEADLOCK FALSE
