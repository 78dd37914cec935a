--------------------------- MODULE WorkDefinitions ---------------------------
(***************************************************************************)
(* What a work runs on: the work contracts, the graphs of their nodes and  *)
(* the execution plans.  Contracts and graphs are versions that are added  *)
(* and never changed.  A contract needs the capabilities it names, a graph *)
(* needs its contract; no foreign key holds these together, only a look    *)
(* before the commit.                                                      *)
(*                                                                         *)
(* plan_execution reads the contract, then the newest active graph, checks *)
(* the request and commits the plan: contracts and graphs may be added     *)
(* between any two of these.                                               *)
(***************************************************************************)
EXTENDS WorkRules

CONSTANTS
  WorkTypes,     \* work type refs, with their versions
  GraphRefs,     \* graph refs, with their versions
  PlanIds,       \* the ids that plans may get; bounds how many there are
  Nodes, Agents, Actions, Capabilities, RiskClasses,
  Planners,      \* the threads that serve planning requests
  \* The rows and requests that clients may post:
  ContractRows, GraphRows, PlanRequests

DefinitionState == {"ACTIVE", "OTHER"}

\* A contract version; contract holds the fields that the runtime reads.
WorkContractVersion ==
  [work_type_ref: WorkTypes, contract: WorkContract(Agents, Actions, Capabilities),
   risk_class: RiskClasses, lifecycle_state: DefinitionState]

\* validate_graph: the entry node exists and every node leads to nodes of the graph.
ValidGraph(g) ==
  /\ g.entry_node \in g.nodes
  /\ \A n \in g.nodes : g.next_nodes[n] \subseteq g.nodes

\* A graph version; next_nodes includes the failure node.
GovernedWorkGraph ==
  [graph_ref: GraphRefs, work_type_ref: WorkTypes, entry_node: Nodes,
   nodes: SUBSET Nodes, next_nodes: [Nodes -> SUBSET Nodes],
   lifecycle_state: DefinitionState]

ExecutionPlanRequest ==
  [work_type_ref: WorkTypes, risk_class: RiskClasses,
   requested_capability_refs: SUBSET Capabilities]

\* What the API lets clients post: the modules that use this one assume it.
RowsAreWellFormed ==
  /\ ContractRows \subseteq WorkContractVersion
  /\ GraphRows \subseteq GovernedWorkGraph
  /\ \A g \in GraphRows : ValidGraph(g)
  /\ PlanRequests \subseteq ExecutionPlanRequest

VARIABLES
  capabilities,  \* the registered capability refs
  contracts,     \* work_contract_version, as a set of rows
  graphs,        \* work_graph_version by recorded_at
  plans,         \* work_execution_plan, as a set of rows
  planner        \* the request each planner is in the middle of

definitions == <<capabilities, contracts, graphs, plans, planner>>

NotPlanning == [step |-> "idle"]

\* since: how many graphs there were when the request began (history, read by the
\* property only), here and in the plans.
Planning ==
  [step: {"read_graph", "add_plan"}, request: PlanRequests,
   work_graph_ref: GraphRefs \cup {"none"}, since: Nat]

ExecutionPlan ==
  [plan_id: PlanIds, work_type_ref: WorkTypes, work_graph_ref: GraphRefs,
   required_capability_refs: SUBSET Capabilities, since: Nat]

-----------------------------------------------------------------------------
\* The rows of contracts with reference ref: one or none.
ContractAt(ref) == {c \in contracts : c.work_type_ref = ref}

ActiveGraphsOf(ref) ==
  {i \in DOMAIN graphs :
     graphs[i].work_type_ref = ref /\ graphs[i].lifecycle_state = "ACTIVE"}

\* Mutant: the first active version is kept although a newer one was added.
OldestActiveGraph(ref) ==
  CHOOSE i \in ActiveGraphsOf(ref) : \A j \in ActiveGraphsOf(ref) : i <= j

\* active_graph_for_work_type, when there is one
NewestActiveGraph(ref) ==
  CHOOSE i \in ActiveGraphsOf(ref) : \A j \in ActiveGraphsOf(ref) : j <= i

\* plan_execution: contract row c admits the request.
Plannable(c, req) ==
  /\ req.risk_class = c.risk_class
  /\ req.requested_capability_refs \subseteq c.contract.capability_refs

\* A plan that requests no capability gets all that the contract allows.
RequiredCapabilities(c, req) ==
  IF req.requested_capability_refs = {}
    THEN c.contract.capability_refs
    ELSE req.requested_capability_refs

-----------------------------------------------------------------------------
Init ==
  /\ capabilities = {} /\ contracts = {} /\ graphs = <<>> /\ plans = {}
  /\ planner = [p \in Planners |-> NotPlanning]

\* The capability registry adds a version.
RegisterCapability(ref) ==
  /\ ref \notin capabilities
  /\ capabilities' = capabilities \cup {ref}
  /\ UNCHANGED <<contracts, graphs, plans, planner>>

\* register_work_contract: an unknown capability or an existing key is refused.
AddWorkContract(row) ==
  /\ row.contract.capability_refs \subseteq capabilities
  /\ ContractAt(row.work_type_ref) = {}
  /\ contracts' = contracts \cup {row}
  /\ UNCHANGED <<capabilities, graphs, plans, planner>>

\* register_work_graph: likewise, for a contract in any state.
AddWorkGraph(row) ==
  /\ ContractAt(row.work_type_ref) # {}
  /\ \A i \in DOMAIN graphs : graphs[i].graph_ref # row.graph_ref
  /\ graphs' = Append(graphs, row)
  /\ UNCHANGED <<capabilities, contracts, plans, planner>>

\* plan_execution: the active contract ...
BeginPlan(p, req) ==
  /\ planner[p] = NotPlanning
  /\ \E c \in ContractAt(req.work_type_ref) : c.lifecycle_state = "ACTIVE"
  /\ planner' = [planner EXCEPT
       ![p] = [step |-> "read_graph", request |-> req, work_graph_ref |-> "none",
               since |-> Len(graphs)]]
  /\ UNCHANGED <<capabilities, contracts, graphs, plans>>

\* ... the newest active graph and the checks, any of which ends the request ...
ReadGraph(p) ==
  LET req == planner[p].request
  IN  /\ planner[p].step = "read_graph"
      /\ planner' = [planner EXCEPT ![p] =
           IF /\ ActiveGraphsOf(req.work_type_ref) # {}
              /\ \A c \in ContractAt(req.work_type_ref) : Plannable(c, req)
           THEN [@ EXCEPT
                  !.step = "add_plan",
                  !.work_graph_ref = graphs[NewestActiveGraph(req.work_type_ref)].graph_ref]
           ELSE NotPlanning]
      /\ UNCHANGED <<capabilities, contracts, graphs, plans>>

\* ... and the plan, with an id of its own.
AddExecutionPlan(p, id) ==
  LET req == planner[p].request
  IN  /\ planner[p].step = "add_plan"
      /\ \A plan \in plans : plan.plan_id # id
      /\ \E c \in ContractAt(req.work_type_ref) :
           plans' = plans \cup
             {[plan_id |-> id, work_type_ref |-> req.work_type_ref,
               work_graph_ref |-> planner[p].work_graph_ref,
               required_capability_refs |-> RequiredCapabilities(c, req),
               since |-> planner[p].since]}
      /\ planner' = [planner EXCEPT ![p] = NotPlanning]
      /\ UNCHANGED <<capabilities, contracts, graphs>>

Next ==
  \/ \E ref \in Capabilities : RegisterCapability(ref)
  \/ \E row \in ContractRows : AddWorkContract(row)
  \/ \E row \in GraphRows : AddWorkGraph(row)
  \/ \E p \in Planners :
       \/ \E req \in PlanRequests : BeginPlan(p, req)
       \/ ReadGraph(p)
       \/ \E id \in PlanIds : AddExecutionPlan(p, id)

-----------------------------------------------------------------------------
TypeOK ==
  /\ capabilities \subseteq Capabilities
  /\ contracts \subseteq ContractRows
  /\ graphs \in Seq(GraphRows)
  /\ plans \subseteq ExecutionPlan
  /\ planner \in [Planners -> {NotPlanning} \cup Planning]

(***************************************************************************)
(* A plan rests on definitions that belong together: its contract is       *)
(* active and all the contract's capabilities are registered, the plan     *)
(* asks for no other; its graph is an active graph of that contract, and   *)
(* none that was there when the planning began is newer.  It must hold     *)
(* although a plan is put together from several reads, while contracts and *)
(* graphs are being added, and no key of the database relates them.        *)
(***************************************************************************)
PlansRestOnDefinitions ==
  \A plan \in plans :
    /\ \E c \in ContractAt(plan.work_type_ref) :
         /\ c.lifecycle_state = "ACTIVE"
         /\ plan.required_capability_refs \subseteq c.contract.capability_refs
         /\ c.contract.capability_refs \subseteq capabilities
    /\ \E i \in ActiveGraphsOf(plan.work_type_ref) :
         /\ graphs[i].graph_ref = plan.work_graph_ref
         /\ \A j \in ActiveGraphsOf(plan.work_type_ref) : j <= plan.since => j <= i
=============================================================================
