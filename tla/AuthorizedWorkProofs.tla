------------------------ MODULE AuthorizedWorkProofs ------------------------
(***************************************************************************)
(* Theorems about AuthorizedWork for every set of rows, works and threads. *)
(***************************************************************************)
EXTENDS AuthorizedWork, WorkRuntimeProofs, WellFoundedInduction

-----------------------------------------------------------------------------
\* Every step is a step of the runtime or none

LEMMA GovernedStepIsStep == GovernedNext => [Next]_vars
<1> SUFFICES ASSUME GovernedNext PROVE [Next]_vars
  OBVIOUS
<1>1. CASE Tick \/ Post \/ Define
  BY <1>1 DEF Tick, Post, Define, vars
<1>2. ASSUME NEW t \in Threads, NEW w \in Works, Receive(t, w)
      PROVE  Request(t)
  BY <1>2 DEF Receive, Request
<1>3. ASSUME NEW t \in Threads, NEW w \in Works, NEW plan \in plans, StartPlanned(t, w, plan)
      PROVE  Request(t)
  BY <1>3 DEF StartPlanned, Request
<1>4. ASSUME NEW t \in Threads, Answer(t) \/ FailAssembly(t)
      PROVE  Decide(t)
  BY <1>4 DEF Answer, Answers, FailAssembly, Decide
<1>5. ASSUME NEW t \in Threads, CommitNext(t) \/ Die(t)
      PROVE  Commit(t) \/ Crash(t)
  BY <1>5 DEF CommitNext, Die
<1>6. ASSUME NEW t \in Threads,
             Evaluate(t) \/ \E subject \in Subjects : Inquire(t, subject)
      PROVE  UNCHANGED vars
  BY <1>6 DEF Evaluate, Inquire
<1>7. QED
  BY <1>1, <1>2, <1>3, <1>4, <1>5, <1>6 DEF GovernedNext, Next

LEMMA GovernedIsRuntime == GovernedSpec => Spec
<1>1. GovernedInit => Init
  BY DEF GovernedInit
<1>2. [GovernedNext]_governedVars => [Next]_vars
  BY GovernedStepIsStep DEF governedVars
<1>3. QED
  BY <1>1, <1>2, PTL DEF GovernedSpec, Spec

(***************************************************************************)
(* Whatever is proved of the runtime for every verdict holds for those the *)
(* kernel gives: no work acts without a complete human approval here       *)
(* either (transition_work).                                               *)
(***************************************************************************)
THEOREM GovernedActionIsApproved == GovernedSpec => []ApprovalBeforeAction
BY GovernedIsRuntime, ActionIsApproved

-----------------------------------------------------------------------------
\* Plans rest on definitions that belong together

\* Graph ref of a graph that is active for a contract, with none newer among the first n.
NewestOf(work_type_ref, ref, n) ==
  \E i \in Definitions!ActiveGraphsOf(work_type_ref) :
    /\ graphs[i].graph_ref = ref
    /\ \A j \in Definitions!ActiveGraphsOf(work_type_ref) : j <= n => j <= i

ActiveContract(work_type_ref) ==
  \E c \in Definitions!ContractAt(work_type_ref) : c.lifecycle_state = "ACTIVE"

\* What a planning request p has found by now.
PlanningFits(p) ==
  /\ ActiveContract(p.request.work_type_ref)
  /\ p.since <= Len(graphs)
  /\ p.step = "add_plan" =>
       /\ \A c \in Definitions!ContractAt(p.request.work_type_ref) :
            Definitions!Plannable(c, p.request)
       /\ NewestOf(p.request.work_type_ref, p.work_graph_ref, p.since)

PlanFits(plan) ==
  /\ plan.since <= Len(graphs)
  /\ \E c \in Definitions!ContractAt(plan.work_type_ref) :
       /\ c.lifecycle_state = "ACTIVE"
       /\ plan.required_capability_refs \subseteq c.contract.capability_refs
  /\ NewestOf(plan.work_type_ref, plan.work_graph_ref, plan.since)

\* The inductive invariant.
DefinitionsFit ==
  /\ Definitions!TypeOK
  /\ \A c, d \in contracts : c.work_type_ref = d.work_type_ref => c = d
  /\ \A c \in contracts : c.contract.capability_refs \subseteq capabilities
  /\ \A p \in Planners : planner[p] # Definitions!NotPlanning => PlanningFits(planner[p])
  /\ \A plan \in plans : PlanFits(plan)

\* A graph that is added is newer than those there were when a request began.
LEMMA NewestStays ==
  ASSUME DefinitionsFit, NEW ref, NEW g, NEW n \in Nat, n <= Len(graphs),
         NewestOf(ref, g, n),
         \/ graphs' = graphs
         \/ \E row \in GraphRows : graphs' = Append(graphs, row)
  PROVE  NewestOf(ref, g, n)' /\ Len(graphs) <= Len(graphs')
<1>1. graphs \in Seq(GraphRows)
  BY DEF DefinitionsFit, Definitions!TypeOK
<1>2. \A i \in DOMAIN graphs : i \in DOMAIN graphs' /\ graphs'[i] = graphs[i]
  BY <1>1
<1>3. \A j \in DOMAIN graphs' : j <= n => j \in DOMAIN graphs
  BY <1>1
<1>4. Len(graphs) <= Len(graphs')
  BY <1>1
<1>5. PICK i \in Definitions!ActiveGraphsOf(ref) :
        /\ graphs[i].graph_ref = g
        /\ \A j \in Definitions!ActiveGraphsOf(ref) : j <= n => j <= i
  BY DEF NewestOf
<1>6. i \in Definitions!ActiveGraphsOf(ref)' /\ graphs'[i].graph_ref = g
  BY <1>2, <1>5 DEF Definitions!ActiveGraphsOf
<1>7. ASSUME NEW j \in Definitions!ActiveGraphsOf(ref)', j <= n
      PROVE  j <= i
  <2>1. j \in DOMAIN graphs' /\ j \in DOMAIN graphs
    BY <1>3, <1>7 DEF Definitions!ActiveGraphsOf
  <2>2. j \in Definitions!ActiveGraphsOf(ref)
    BY <1>2, <1>7, <2>1 DEF Definitions!ActiveGraphsOf
  <2>3. QED
    BY <1>5, <1>7, <2>2
<1>8. QED
  BY <1>4, <1>6, <1>7 DEF NewestOf

LEMMA DefinitionsInit == GovernedInit => DefinitionsFit
BY DEF GovernedInit, Definitions!Init, DefinitionsFit, Definitions!TypeOK

\* One of the tables of definitions gets a row and the others stay.
LEMMA FitStays ==
  ASSUME DefinitionsFit, Definitions!TypeOK', planner' = planner, plans' = plans,
         \/ /\ graphs' = graphs /\ contracts' = contracts
            /\ capabilities \subseteq capabilities'
         \/ /\ graphs' = graphs /\ capabilities' = capabilities
            /\ \E row \in ContractRows : Definitions!AddWorkContract(row)
         \/ /\ contracts' = contracts /\ capabilities' = capabilities
            /\ \E row \in GraphRows : graphs' = Append(graphs, row)
  PROVE  DefinitionsFit'
<1>1. \A ref : \/ Definitions!ContractAt(ref)' = Definitions!ContractAt(ref)
               \/ Definitions!ContractAt(ref) = {}
  BY DEF Definitions!ContractAt, Definitions!AddWorkContract
<1>2. /\ \A c, d \in contracts' : c.work_type_ref = d.work_type_ref => c = d
      /\ \A c \in contracts' : c.contract.capability_refs \subseteq capabilities'
  BY DEF DefinitionsFit, Definitions!AddWorkContract, Definitions!ContractAt
<1>3. ASSUME NEW ref, NEW g, NEW n \in Nat, n <= Len(graphs), NewestOf(ref, g, n)
      PROVE  NewestOf(ref, g, n)'
  BY <1>3, NewestStays
<1>4. \A n \in Nat : n <= Len(graphs) => n <= Len(graphs')
  BY DEF DefinitionsFit, Definitions!TypeOK
<1>5. ASSUME NEW p \in Planners, planner[p] # Definitions!NotPlanning
      PROVE  PlanningFits(planner[p])'
  <2>1. PlanningFits(planner[p]) /\ planner[p] \in Definitions!Planning
    BY <1>5 DEF DefinitionsFit, Definitions!TypeOK
  <2>2. planner[p].since \in Nat
    BY <2>1 DEF Definitions!Planning
  <2>3. Definitions!ContractAt(planner[p].request.work_type_ref)'
          = Definitions!ContractAt(planner[p].request.work_type_ref)
    BY <1>1, <2>1 DEF PlanningFits, ActiveContract, Definitions!ContractAt
  <2>4. QED
    BY <1>3, <1>4, <2>1, <2>2, <2>3
    DEF PlanningFits, ActiveContract, Definitions!ContractAt, Definitions!Plannable
<1>6. ASSUME NEW plan \in plans
      PROVE  PlanFits(plan)'
  <2>1. PlanFits(plan) /\ plan.since \in Nat
    BY DEF DefinitionsFit, Definitions!TypeOK, Definitions!ExecutionPlan
  <2>2. Definitions!ContractAt(plan.work_type_ref)' = Definitions!ContractAt(plan.work_type_ref)
    BY <1>1, <2>1 DEF PlanFits
  <2>3. QED
    BY <1>3, <1>4, <2>1, <2>2 DEF PlanFits
<1>7. QED
  BY <1>2, <1>5, <1>6 DEF DefinitionsFit

\* The newest active graph is one that the index exists for: there are finitely many.
LEMMA NewestExists ==
  ASSUME graphs \in Seq(GraphRows), NEW ref, Definitions!ActiveGraphsOf(ref) # {}
  PROVE  LET i == Definitions!NewestActiveGraph(ref)
         IN  /\ i \in Definitions!ActiveGraphsOf(ref)
             /\ \A j \in Definitions!ActiveGraphsOf(ref) : j <= i
<1> DEFINE active == Definitions!ActiveGraphsOf(ref)
<1>1. active \subseteq 1 .. Len(graphs)
  BY DEF Definitions!ActiveGraphsOf
<1>2. \E i \in active : \A j \in active : j <= i
  <2> DEFINE down == {Len(graphs) - i : i \in active}
  <2>1. down \subseteq Nat /\ down # {}
    BY <1>1
  <2>2. PICK m \in down : \A n \in down : m <= n
    <3> DEFINE R == OpToRel(<, Nat)
    <3>1. IsWellFoundedOn(R, Nat)
      BY NatLessThanWellFounded
    <3>2. \A x, y \in Nat : x < y => <<x, y>> \in R
      BY DEF OpToRel
    <3> HIDE DEF down, R
    <3>3. PICK m \in down : \A n \in down : ~(<<n, m>> \in R)
      BY <2>1, <3>1, WFMin
    <3>4. \A n \in down : ~(n < m)
      BY <2>1, <3>2, <3>3
    <3>5. QED
      BY <2>1, <3>3, <3>4
  <2>3. PICK i \in active : m = Len(graphs) - i
    BY <2>2
  <2>4. \A j \in active : m <= Len(graphs) - j
    BY <2>2
  <2>5. \A j \in active : j <= i
    BY <1>1, <2>3, <2>4
  <2>6. QED
    BY <2>5
<1>3. QED
  BY <1>2 DEF Definitions!NewestActiveGraph

LEMMA FitPlanning ==
  ASSUME DefinitionsFit, NEW p \in Planners,
         \/ \E req \in PlanRequests : Definitions!BeginPlan(p, req)
         \/ Definitions!ReadGraph(p)
         \/ \E id \in PlanIds : Definitions!AddExecutionPlan(p, id)
  PROVE  DefinitionsFit'
<1>0. Definitions!TypeOK /\ graphs \in Seq(GraphRows) /\ Len(graphs) \in Nat
  BY DEF DefinitionsFit, Definitions!TypeOK
<1>1. ASSUME NEW q, q \in {Definitions!NotPlanning} \cup Definitions!Planning,
             planner' = [planner EXCEPT ![p] = q], q # Definitions!NotPlanning => PlanningFits(q),
             UNCHANGED <<capabilities, contracts, graphs, plans>>
      PROVE  DefinitionsFit'
  <2>1. Definitions!TypeOK'
    BY <1>0, <1>1 DEF Definitions!TypeOK
  <2>2. \A ref : Definitions!ContractAt(ref)' = Definitions!ContractAt(ref)
                 /\ Definitions!ActiveGraphsOf(ref)' = Definitions!ActiveGraphsOf(ref)
    BY <1>1 DEF Definitions!ContractAt, Definitions!ActiveGraphsOf
  <2>3. \A v : PlanningFits(v) => PlanningFits(v)'
    BY <1>1, <2>2 DEF PlanningFits, ActiveContract, NewestOf, Definitions!Plannable
  <2>4. \A plan : PlanFits(plan) => PlanFits(plan)'
    BY <1>1, <2>2 DEF PlanFits, NewestOf
  <2>5. \A u \in Planners : planner'[u] = IF u = p THEN q ELSE planner[u]
    BY <1>0, <1>1 DEF Definitions!TypeOK
  <2>6. QED
    BY <1>1, <2>1, <2>3, <2>4, <2>5 DEF DefinitionsFit
<1>2. ASSUME NEW req \in PlanRequests, Definitions!BeginPlan(p, req)
      PROVE  DefinitionsFit'
  <2> DEFINE q == [step |-> "read_graph", request |-> req, work_graph_ref |-> "none",
                   since |-> Len(graphs)]
  <2>1. q \in Definitions!Planning
    BY <1>0 DEF Definitions!Planning
  <2>2. PlanningFits(q)
    BY <1>0, <1>2 DEF PlanningFits, ActiveContract, Definitions!BeginPlan
  <2>3. QED
    BY <1>1, <1>2, <2>1, <2>2 DEF Definitions!BeginPlan
<1>3. ASSUME planner[p].step \in {"read_graph", "add_plan"}
      PROVE  /\ planner[p] \in Definitions!Planning
             /\ planner[p] # Definitions!NotPlanning
             /\ PlanningFits(planner[p])
  BY <1>0, <1>3 DEF DefinitionsFit, Definitions!TypeOK, Definitions!NotPlanning,
     Definitions!Planning
<1>4. CASE Definitions!ReadGraph(p)
  <2> DEFINE req == planner[p].request
             i   == Definitions!NewestActiveGraph(req.work_type_ref)
             q   == [planner[p] EXCEPT !.step = "add_plan",
                                       !.work_graph_ref = graphs[i].graph_ref]
  <2>1. /\ planner[p] \in Definitions!Planning
        /\ PlanningFits(planner[p])
        /\ UNCHANGED <<capabilities, contracts, graphs, plans>>
    BY <1>3, <1>4 DEF Definitions!ReadGraph
  <2>2. CASE planner' = [planner EXCEPT ![p] = Definitions!NotPlanning]
    BY <1>1, <2>1, <2>2
  <2>3. CASE /\ planner' = [planner EXCEPT ![p] = q]
             /\ Definitions!ActiveGraphsOf(req.work_type_ref) # {}
             /\ \A c \in Definitions!ContractAt(req.work_type_ref) :
                  Definitions!Plannable(c, req)
    <3>1. /\ i \in Definitions!ActiveGraphsOf(req.work_type_ref)
          /\ \A j \in Definitions!ActiveGraphsOf(req.work_type_ref) : j <= i
      BY <1>0, <2>3, NewestExists
    <3>2. graphs[i].graph_ref \in GraphRefs
      BY <1>0, <3>1, DefinitionsAssumption
      DEF Definitions!ActiveGraphsOf, Definitions!RowsAreWellFormed,
          Definitions!GovernedWorkGraph
    <3>3. /\ q \in Definitions!Planning
          /\ q.request = req /\ q.since = planner[p].since
          /\ q.work_graph_ref = graphs[i].graph_ref
      <4> HIDE DEF i
      <4>1. QED
        BY <2>1, <3>2 DEF Definitions!Planning
    <3>4. NewestOf(req.work_type_ref, graphs[i].graph_ref, planner[p].since)
      BY <3>1 DEF NewestOf
    <3>5. PlanningFits(q)
      <4> HIDE DEF i, q
      <4>1. QED
        BY <2>1, <2>3, <3>3, <3>4 DEF PlanningFits
    <3>6. QED
      <4> HIDE DEF i, q
      <4>1. QED
        BY <1>1, <2>1, <2>3, <3>3, <3>5
  <2>4. QED
    BY <1>4, <2>2, <2>3 DEF Definitions!ReadGraph
<1>5. ASSUME NEW id \in PlanIds, Definitions!AddExecutionPlan(p, id)
      PROVE  DefinitionsFit'
  <2> DEFINE req == planner[p].request
  <2>1. /\ planner[p] \in Definitions!Planning
        /\ planner[p].step = "add_plan"
        /\ PlanningFits(planner[p])
        /\ UNCHANGED <<capabilities, contracts, graphs>>
    BY <1>3, <1>5 DEF Definitions!AddExecutionPlan
  <2>2. PICK c \in Definitions!ContractAt(req.work_type_ref) :
          plans' = plans \cup
             {[plan_id |-> id, work_type_ref |-> req.work_type_ref,
               work_graph_ref |-> planner[p].work_graph_ref,
               required_capability_refs |-> Definitions!RequiredCapabilities(c, req),
               since |-> planner[p].since]}
    BY <1>5 DEF Definitions!AddExecutionPlan
  <2> DEFINE plan == [plan_id |-> id, work_type_ref |-> req.work_type_ref,
               work_graph_ref |-> planner[p].work_graph_ref,
               required_capability_refs |-> Definitions!RequiredCapabilities(c, req),
               since |-> planner[p].since]
  <2>3. /\ c \in contracts /\ c.work_type_ref = req.work_type_ref
        /\ c.lifecycle_state = "ACTIVE" /\ Definitions!Plannable(c, req)
    BY <2>1, <2>2 DEF PlanningFits, ActiveContract, DefinitionsFit, Definitions!ContractAt
  <2>4. /\ Definitions!RequiredCapabilities(c, req) \subseteq c.contract.capability_refs
        /\ c.contract.capability_refs \subseteq Capabilities
    BY <1>0, <2>3
    DEF DefinitionsFit, Definitions!TypeOK, Definitions!RequiredCapabilities, Definitions!Plannable
  <2>5. PlanFits(plan)
    BY <2>1, <2>2, <2>3, <2>4 DEF PlanningFits, PlanFits
  <2>6. planner[p].work_graph_ref \in GraphRefs
    <3>1. PICK i \in DOMAIN graphs : graphs[i].graph_ref = planner[p].work_graph_ref
      BY <2>1 DEF PlanningFits, NewestOf, Definitions!ActiveGraphsOf
    <3>2. QED
      BY <1>0, <3>1, DefinitionsAssumption
      DEF Definitions!RowsAreWellFormed, Definitions!GovernedWorkGraph
  <2>7. req.work_type_ref \in WorkTypes /\ planner[p].since \in Nat
    BY <2>1, DefinitionsAssumption
    DEF Definitions!Planning, Definitions!RowsAreWellFormed, Definitions!ExecutionPlanRequest
  <2>8. plan \in Definitions!ExecutionPlan
    BY <2>4, <2>6, <2>7 DEF Definitions!ExecutionPlan
  <2>9. planner' = [planner EXCEPT ![p] = Definitions!NotPlanning]
    BY <1>5 DEF Definitions!AddExecutionPlan
  <2>10. Definitions!TypeOK'
    <3> HIDE DEF plan
    <3>1. QED
      BY <1>0, <2>1, <2>2, <2>8, <2>9 DEF Definitions!TypeOK, plan
  <2>11. \A ref : Definitions!ContractAt(ref)' = Definitions!ContractAt(ref)
                 /\ Definitions!ActiveGraphsOf(ref)' = Definitions!ActiveGraphsOf(ref)
    BY <2>1 DEF Definitions!ContractAt, Definitions!ActiveGraphsOf
  <2>12. \A v : PlanningFits(v) => PlanningFits(v)'
    BY <2>1, <2>11 DEF PlanningFits, ActiveContract, NewestOf, Definitions!Plannable
  <2>13. \A v : PlanFits(v) => PlanFits(v)'
    BY <2>1, <2>11 DEF PlanFits, NewestOf
  <2>14. \A v \in plans' : PlanFits(v)
    <3> HIDE DEF plan
    <3>1. plans' = plans \cup {plan}
      BY <2>2 DEF plan
    <3>2. QED
      BY <2>5, <3>1 DEF DefinitionsFit
  <2>15. \A u \in Planners : planner'[u] = IF u = p THEN Definitions!NotPlanning ELSE planner[u]
    BY <1>0, <2>9 DEF Definitions!TypeOK
  <2>16. QED
    BY <2>1, <2>10, <2>12, <2>13, <2>14, <2>15 DEF DefinitionsFit
<1>6. QED
  BY <1>2, <1>4, <1>5

LEMMA DefinitionsStep == DefinitionsFit /\ [GovernedNext]_governedVars => DefinitionsFit'
<1> SUFFICES ASSUME DefinitionsFit, [GovernedNext]_governedVars PROVE DefinitionsFit'
  OBVIOUS
<1>0. Definitions!TypeOK
  BY DEF DefinitionsFit
<1>1. ASSUME NEW row \in ContractRows, Definitions!AddWorkContract(row)
      PROVE  DefinitionsFit'
  <2>1. Definitions!TypeOK'
    BY <1>0, <1>1 DEF Definitions!AddWorkContract, Definitions!TypeOK
  <2>2. QED
    BY <1>1, <2>1, FitStays DEF Definitions!AddWorkContract
<1>2. ASSUME NEW row \in GraphRows, Definitions!AddWorkGraph(row)
      PROVE  DefinitionsFit'
  <2>1. Definitions!TypeOK'
    BY <1>0, <1>2 DEF Definitions!AddWorkGraph, Definitions!TypeOK
  <2>2. QED
    BY <1>2, <2>1, FitStays DEF Definitions!AddWorkGraph
<1>3. ASSUME NEW ref \in Capabilities, Definitions!RegisterCapability(ref)
      PROVE  DefinitionsFit'
  <2>1. Definitions!TypeOK'
    BY <1>0, <1>3 DEF Definitions!RegisterCapability, Definitions!TypeOK
  <2>2. QED
    BY <1>3, <2>1, FitStays DEF Definitions!RegisterCapability
<1>4. CASE Define
  BY <1>1, <1>2, <1>3, <1>4, FitPlanning DEF Define, Definitions!Next
<1>5. CASE UNCHANGED definitions
  <2>1. Definitions!TypeOK'
    BY <1>0, <1>5 DEF Definitions!TypeOK, definitions
  <2>2. QED
    BY <1>5, <2>1, FitStays DEF definitions
<1>6. GovernedNext => Define \/ UNCHANGED definitions
  BY DEF GovernedNext, Tick, Post, Receive, StartPlanned, Inquire, Evaluate, Answer,
     FailAssembly, CommitNext, Die
<1>7. UNCHANGED governedVars => UNCHANGED definitions
  BY DEF governedVars
<1>8. QED
  BY <1>4, <1>5, <1>6, <1>7

(***************************************************************************)
(* For every set of contracts, graphs and planning requests: a plan rests  *)
(* on an active contract and a graph that belong together, although it is  *)
(* put together from several reads (plan_execution).  It holds because no  *)
(* definition changes once it is added and a contract's key is its own.    *)
(***************************************************************************)
THEOREM PlansAreSound == GovernedSpec => []PlansRestOnDefinitions
<1>1. DefinitionsFit => PlansRestOnDefinitions
  <2> SUFFICES ASSUME DefinitionsFit, NEW plan \in plans
               PROVE  /\ \E c \in Definitions!ContractAt(plan.work_type_ref) :
                           /\ c.lifecycle_state = "ACTIVE"
                           /\ plan.required_capability_refs
                                \subseteq c.contract.capability_refs
                           /\ c.contract.capability_refs \subseteq capabilities
                      /\ NewestOf(plan.work_type_ref, plan.work_graph_ref, plan.since)
    BY DEF PlansRestOnDefinitions, Definitions!PlansRestOnDefinitions, NewestOf
  <2>1. QED
    BY DEF DefinitionsFit, PlanFits, Definitions!ContractAt
<1>2. QED
  BY <1>1, DefinitionsInit, DefinitionsStep, PTL DEF GovernedSpec

-----------------------------------------------------------------------------
\* Type correctness

\* Whatever effects were seen, one of the four is decided.
LEMMA EvaluatedEffect ==
  ASSUME NEW P, NEW req
  PROVE  Kernel!PolicyEffect(P, req) \in Effect
<1>1. \A seen : Kernel!EffectSeen(seen) \in Effect
  BY DEF Kernel!EffectSeen, Effect
<1>2. QED
  BY <1>1 DEF Kernel!PolicyEffect

\* What a handler asks is an inquiry.
LEMMA InquiryType ==
  ASSUME TypeOK, now \in Nat, NEW t \in Threads, NEW subject \in Subjects, Inquires(t)
  PROVE  InquiryOf(t, subject) \in Inquiry
<1>1. /\ handler[t].work \in Works
      /\ At(t, "decide_task") => handler[t].request \in TaskRequest(Nodes, Agents, Actions)
  BY AtIsDeciding DEF Inquires
<1>2. /\ ApprovalOf[handler[t].work] \in Inquired
      /\ SubjectType[subject] \in {"HUMAN", "AGENT"}
      /\ ContextOf[handler[t].work] \in Contexts
  BY <1>1, InquiriesAssumption
<1>3. CASE At(t, "decide_transition")
  BY <1>2, <1>3 DEF InquiryOf, Asked, Inquiry, Inquired
<1>4. CASE At(t, "decide_task") /\ ~At(t, "decide_transition")
  <2>1. /\ handler[t].request.node \in Nodes
        /\ handler[t].request.action \in Actions
    BY <1>1, <1>4 DEF TaskRequest
  <2>2. GateOf[handler[t].request.node] \in Inquired
    BY <2>1, InquiriesAssumption
  <2>3. Asked(t) \in Inquired
    BY <1>4, <2>1, <2>2 DEF Asked, Inquired
  <2>4. QED
    BY <1>2, <2>3 DEF InquiryOf, Inquiry, Inquired
<1>5. QED
  BY <1>3, <1>4 DEF Inquires

\* A request that is evaluated keeps the evaluations well formed.
LEMMA EvaluationType ==
  ASSUME TypeOK, now \in Nat, Kernel!TypeOK, NEW t \in Threads,
         \/ Evaluate(t)
         \/ \E subject \in Subjects : Inquire(t, subject)
  PROVE  Kernel!TypeOK'
<1> DEFINE e == evaluation[t]
<1>1. ASSUME NEW g \in {Kernel!Idle} \cup Kernel!Serving,
             evaluation' = [evaluation EXCEPT ![t] = g], UNCHANGED kernelTables
      PROVE  Kernel!TypeOK'
  BY <1>1 DEF Kernel!TypeOK, kernelTables
<1>2. ASSUME NEW s, s # "idle", Kernel!At(t, s)
      PROVE  evaluation[t] \in Kernel!Serving
  BY <1>2 DEF Kernel!TypeOK, Kernel!Idle, Kernel!At
<1>3. ASSUME NEW subject \in Subjects, Inquire(t, subject)
      PROVE  Kernel!TypeOK'
  <2> DEFINE req == InquiryOf(t, subject)
             g == [step |-> "read_grants", request |-> req,
                   competent |-> Kernel!ActiveCompetences(competences, req),
                   standing |-> {}, pending |-> {}, live |-> {}, matched |-> {},
                   effect |-> "DENY", revoked |-> revocations, versions |-> Len(policies)]
  <2>1. req \in Inquiry
    BY <1>3, InquiryType DEF Inquire
  <2>2. Kernel!ActiveCompetences(competences, req) \subseteq Competences
    BY <2>1, KernelRowsAssumption
    DEF Kernel!TypeOK, Kernel!ActiveCompetences, Kernel!CompetenceAssertion, Inquiry
  <2>3. g \in Kernel!Serving
    <3> HIDE DEF req
    <3>1. QED
      BY <2>1, <2>2 DEF Kernel!TypeOK, Kernel!Serving, Kernel!Effect
  <2>4. evaluation' = [evaluation EXCEPT ![t] = g] /\ UNCHANGED kernelTables
    BY <1>3 DEF Inquire, Kernel!BeginGate, Kernel!tables, kernelTables
  <2>5. QED
    BY <1>1, <2>3, <2>4
<1>4. CASE Kernel!ReadGrants(t)
  <2> DEFINE standing == Kernel!StandingGrants(grants, e.request, e.competent)
             g == [e EXCEPT !.step = "read_delegations", !.standing = standing]
  <2>1. e \in Kernel!Serving
    BY <1>2, <1>4 DEF Kernel!ReadGrants
  <2>2. standing \subseteq GrantRows
    BY DEF Kernel!TypeOK, Kernel!StandingGrants
  <2>3. g \in Kernel!Serving
    <3> HIDE DEF standing
    <3>1. QED
      BY <2>1, <2>2 DEF Kernel!Serving
  <2>4. evaluation' = [evaluation EXCEPT ![t] = g] /\ UNCHANGED kernelTables
    BY <1>4 DEF Kernel!ReadGrants, Kernel!tables, kernelTables
  <2>5. QED
    BY <1>1, <2>3, <2>4
<1>5. CASE Kernel!ReadDelegations(t)
  <2> DEFINE pending == Kernel!CurrentDelegations(delegations, e.request)
             g == [e EXCEPT !.step = "read_revocations", !.pending = pending]
  <2>1. e \in Kernel!Serving
    BY <1>2, <1>5 DEF Kernel!ReadDelegations
  <2>2. pending \subseteq DelegationRows
    BY DEF Kernel!TypeOK, Kernel!CurrentDelegations
  <2>3. g \in Kernel!Serving
    <3> HIDE DEF pending
    <3>1. QED
      BY <2>1, <2>2 DEF Kernel!Serving
  <2>4. evaluation' = [evaluation EXCEPT ![t] = g] /\ UNCHANGED kernelTables
    BY <1>5 DEF Kernel!ReadDelegations, Kernel!tables, kernelTables
  <2>5. QED
    BY <1>1, <2>3, <2>4
<1>6. ASSUME NEW d \in DelegationRows, Kernel!ReadRevocations(t, d)
      PROVE  Kernel!TypeOK'
  <2> DEFINE live == IF Kernel!Revoked(revocations, d, e.request.at)
                     THEN e.live ELSE e.live \cup {d}
             g == [e EXCEPT !.pending = e.pending \ {d}, !.live = live]
  <2>1. e \in Kernel!Serving
    BY <1>2, <1>6 DEF Kernel!ReadRevocations
  <2>2. live \subseteq DelegationRows
    BY <2>1 DEF Kernel!Serving
  <2>3. g \in Kernel!Serving
    <3> HIDE DEF live
    <3>1. QED
      BY <2>1, <2>2 DEF Kernel!Serving
  <2>4. evaluation' = [evaluation EXCEPT ![t] = g] /\ UNCHANGED kernelTables
    BY <1>6 DEF Kernel!ReadRevocations, Kernel!tables, kernelTables
  <2>5. QED
    BY <1>1, <2>3, <2>4
<1>7. CASE ReadPolicies(t)
  <2> DEFINE matched == {d \in e.live : Kernel!Delegates(grants, d, e.request, e.competent)}
             effect == Kernel!PolicyEffect(policies, [e.request EXCEPT !.at = now])
             g == [e EXCEPT !.step = "answered", !.matched = matched, !.effect = effect]
  <2>1. e \in Kernel!Serving
    BY <1>2, <1>7 DEF ReadPolicies
  <2>2. matched \subseteq DelegationRows
    BY <2>1 DEF Kernel!Serving
  <2>3. effect \in Kernel!Effect
    BY EvaluatedEffect DEF Effect, Kernel!Effect
  <2>4. g \in Kernel!Serving
    <3> HIDE DEF matched, effect
    <3>1. QED
      BY <2>1, <2>2, <2>3 DEF Kernel!Serving
  <2>5. evaluation' = [evaluation EXCEPT ![t] = g] /\ UNCHANGED kernelTables
    BY <1>7 DEF ReadPolicies
  <2>6. QED
    BY <1>1, <2>4, <2>5
<1>8. QED
  BY <1>3, <1>4, <1>5, <1>6, <1>7 DEF Evaluate

\* The tables of the kernel only grow, and stay well formed.
LEMMA PostGrows ==
  ASSUME Kernel!TypeOK, Post
  PROVE  /\ Kernel!TypeOK' /\ evaluation' = evaluation
         /\ grants \subseteq grants' /\ delegations \subseteq delegations'
         /\ revocations \subseteq revocations'
<1>1. Kernel!Add
  BY DEF Post
<1>2. ASSUME NEW row \in CompetenceRows, Kernel!AddCompetence(row)
      PROVE  Kernel!TypeOK'
  BY <1>2 DEF Kernel!TypeOK, Kernel!AddCompetence
<1>3. ASSUME NEW row \in GrantRows, Kernel!AddAuthority(row)
      PROVE  Kernel!TypeOK'
  BY <1>3 DEF Kernel!TypeOK, Kernel!AddAuthority
<1>4. ASSUME NEW row \in DelegationRows, Kernel!AddDelegation(row)
      PROVE  Kernel!TypeOK'
  BY <1>4 DEF Kernel!TypeOK, Kernel!AddDelegation
<1>5. ASSUME NEW row \in RevocationRows, Kernel!RevokeDelegation(row)
      PROVE  Kernel!TypeOK'
  BY <1>5 DEF Kernel!TypeOK, Kernel!RevokeDelegation
<1>6. ASSUME NEW row \in PolicyRows, Kernel!AddPolicy(row)
      PROVE  Kernel!TypeOK'
  BY <1>6 DEF Kernel!TypeOK, Kernel!AddPolicy
<1>7. Kernel!TypeOK'
  BY <1>1, <1>2, <1>3, <1>4, <1>5, <1>6 DEF Kernel!Add
<1>8. QED
  BY <1>1, <1>7 DEF Kernel!Add, Kernel!AddCompetence, Kernel!AddAuthority,
     Kernel!AddDelegation, Kernel!RevokeDelegation, Kernel!AddPolicy

\* A handler that is about to record a task or a handover carries one.
RecordTells ==
  \A t \in Threads :
    /\ handler[t].step = "record_task" => handler[t].record.event = "TASK"
    /\ handler[t].step = "record_handover" => handler[t].record.event = "HANDOVER"

LEMMA TellsStart ==
  ASSUME TypeOK, RecordTells, NEW t \in Threads, NEW s, NEW w, NEW from, NEW r,
         Start(t, s, w, from, r),
         s = "record_task" => r.event = "TASK",
         s = "record_handover" => r.event = "HANDOVER"
  PROVE  RecordTells'
BY DEF TypeOK, RecordTells, Start

LEMMA TellsStep == Typed /\ RecordTells /\ [Next]_vars => RecordTells'
<1> SUFFICES ASSUME Typed, RecordTells, [Next]_vars PROVE RecordTells'
  OBVIOUS
<1>0. TypeOK
  BY DEF Typed
<1>1. ASSUME NEW t \in Threads, Finish(t)
      PROVE  RecordTells'
  BY <1>0, <1>1 DEF TypeOK, RecordTells, Finish, Idle
<1>2. ASSUME NEW t \in Threads, handler[t] \in Busy,
             NEW s \in Step \ {"record_task", "record_handover"}, Goto(t, s)
      PROVE  RecordTells'
  BY <1>0, <1>2, GotoKeepsType DEF RecordTells
<1>3. ASSUME NEW t \in Threads, Commit(t)
      PROVE  RecordTells'
  <2>1. ASSUME NEW s \in Step, At(t, s)
        PROVE  handler[t] \in Busy
    BY <1>0, <2>1, AtIsBusy
  <2>2. CASE AuditCreated(t) \/ AuditTransition(t) \/ AuditTask(t) \/ AuditHandover(t)
    BY <1>1, <2>2 DEF AuditCreated, AuditTransition, AuditTask, AuditHandover
  <2>3. CASE RecordTransition(t) \/ WriteState(t)
    BY <1>2, <2>1, <2>3 DEF RecordTransition, WriteState, Step
  <2>4. CASE RecordBlock(t) \/ WriteBlocked(t) \/ RecordBlockHandover(t)
    BY <1>2, <2>1, <2>4 DEF RecordBlock, WriteBlocked, RecordBlockHandover, Step
  <2>5. CASE AuditBlock(t)
    <3>1. CASE Finish(t)
      BY <1>1, <3>1
    <3>2. CASE handler[t].record.event = "TASK" /\ Goto(t, "record_task")
      <4>1. handler[t] \in Busy
        BY <2>1, <2>5 DEF AuditBlock, Step
      <4>2. handler'[t].record = handler[t].record
        BY <1>0, <3>2, <4>1 DEF Goto, TypeOK, Busy
      <4>3. handler'[t].step = "record_task"
            /\ \A u \in Threads \ {t} : handler'[u] = handler[u]
        BY <1>0, <3>2, <4>1, GotoKeepsType DEF Step
      <4>4. QED
        BY <3>2, <4>2, <4>3 DEF RecordTells
    <3>3. QED
      BY <2>5, <3>1, <3>2 DEF AuditBlock
  <2>6. CASE RecordTask(t)
    BY <1>2, <2>1, <2>6 DEF RecordTask, Step
  <2>7. CASE RecordHandover(t) \/ WriteHandedOver(t)
    BY <1>2, <2>1, <2>7 DEF RecordHandover, WriteHandedOver, Step
  <2>8. QED
    BY <1>3, <2>2, <2>3, <2>4, <2>5, <2>6, <2>7 DEF Commit
<1>4. ASSUME NEW t \in Threads, NEW w \in Works, StartWork(t, w)
      PROVE  RecordTells'
  BY <1>0, <1>4 DEF StartWork, TypeOK, RecordTells
<1>5. ASSUME NEW t \in Threads, NEW w \in Works, NEW s, NEW req, Ask(t, s, w, req),
             s \notin {"record_task", "record_handover"}
      PROVE  RecordTells'
  BY <1>0, <1>5 DEF Ask, TypeOK, RecordTells
<1>6. ASSUME NEW t \in Threads, NEW w \in Works, RequestHandover(t, w)
      PROVE  RecordTells'
  BY <1>0, <1>6, TellsStart DEF RequestHandover, Handover
<1>7. ASSUME NEW t \in Threads, Request(t)
      PROVE  RecordTells'
  BY <1>4, <1>5, <1>6, <1>7 DEF Request, ReceiveTransition, ReceiveTask
<1>8. ASSUME NEW t \in Threads, NEW verdict, DecideTransition(t, verdict)
      PROVE  RecordTells'
  BY <1>0, <1>8, TellsStart DEF DecideTransition
<1>9. ASSUME NEW t \in Threads, NEW verdict, DecideTask(t, verdict)
      PROVE  RecordTells'
  BY <1>0, <1>9, TellsStart DEF DecideTask, TaskOutcome
<1>10. ASSUME NEW t \in Threads, Decide(t)
       PROVE  RecordTells'
  BY <1>1, <1>8, <1>9, <1>10 DEF Decide, AssemblyRaises
<1>11. ASSUME NEW t \in Threads, Crash(t)
       PROVE  RecordTells'
  BY <1>1, <1>11 DEF Crash
<1>12. CASE UNCHANGED vars
  BY <1>12 DEF vars, RecordTells
<1>13. QED
  BY <1>3, <1>7, <1>10, <1>11, <1>12 DEF Next, Rest

\* A commit appends one record to the trace of the handler's work, or none to any.
LEMMA CommitAppends ==
  ASSUME Typed, RecordTells, NEW t \in Threads, Commit(t)
  PROVE  \/ trace' = trace
         \/ \E r \in TraceRecord :
              /\ Append1(handler[t].work, r)
              /\ handler[t].work \in Works
              /\ r.event = "TRANSITION" /\ r.to_state = "APPROVED" =>
                   At(t, "record_transition") /\ r = handler[t].record
<1>0. ASSUME NEW s \in Step, At(t, s)
      PROVE  /\ handler[t].work \in Works
             /\ handler[t].record \in TraceRecord
             /\ handler[t].read \in WorkState
  BY <1>0, AtIsBusy DEF Typed, Busy
<1>1. CASE RecordTransition(t)
  BY <1>0, <1>1 DEF RecordTransition, Step
<1>2. CASE RecordBlock(t)
  <2>1. handler[t].work \in Works /\ handler[t].read \in WorkState
    BY <1>0, <1>2 DEF RecordBlock, Step
  <2>2. BlockTransition(handler[t].read).to_state = "BLOCKED"
    BY DEF BlockTransition
  <2>3. QED
    BY <1>2, <2>1, <2>2, RecordTypes DEF RecordBlock
<1>3. CASE RecordBlockHandover(t)
  <2>1. handler[t].work \in Works /\ handler[t].read \in WorkState
    BY <1>0, <1>3 DEF RecordBlockHandover, Step
  <2>2. Handover(handler[t].read).event = "HANDOVER"
    BY DEF Handover
  <2>3. QED
    BY <1>3, <2>1, <2>2, RecordTypes DEF RecordBlockHandover
<1>4. CASE RecordTask(t)
  BY <1>0, <1>4 DEF RecordTask, Step, At, RecordTells
<1>5. CASE RecordHandover(t)
  BY <1>0, <1>5 DEF RecordHandover, Step, At, RecordTells
<1>6. QED
  BY <1>1, <1>2, <1>3, <1>4, <1>5 DEF Commit, AuditCreated, WriteState, AuditTransition,
     WriteBlocked, AuditBlock, AuditTask, WriteHandedOver, AuditHandover

-----------------------------------------------------------------------------
\* Approvals rest on evaluations of their own requests

HeldBy(g, subject, req) ==
  /\ g \in grants /\ g.subject_ref = subject
  /\ g.authority_type = req.action
  /\ Kernel!ActivePeriod(g, req.at)

\* What evaluation e, of a request received as r, has read by now can be relied upon,
\* although it may be out of date.
Reliable(e, r) ==
  LET req == e.request
  IN  /\ r.at <= req.at
      /\ \A g \in e.standing : HeldBy(g, req.subject_ref, req)
      /\ \A d \in e.pending \cup e.live :
           /\ d \in delegations /\ d.delegatee_ref = req.subject_ref
           /\ d.valid_from <= req.at /\ req.at < d.valid_until
      /\ \A d \in e.live : ~Kernel!Revoked(r.revocations, d, req.at)
      /\ e.matched \subseteq e.live
      /\ \A d \in e.matched : \E g \in grants :
           g.authority_id = d.authority_ref /\ HeldBy(g, d.delegator_ref, req)

\* Evaluation e is of the approval of work w.
AsksFor(e, w) ==
  /\ e.request.action = ApprovalOf[w].action
  /\ e.request.resource = ApprovalOf[w].resource
  /\ e.request.context = ContextOf[w]

\* Record r of work w is an approval for which the contract asks an authority.
NeedsAuthority(w, r) ==
  /\ r.event = "TRANSITION"
  /\ NeedsApproval(ContractOf[w], r.to_state)
  /\ FirstHumanPoint(ContractOf[w]).required_authority_action

\* What thread t knows.
ThreadFits(t) ==
  LET e == evaluation[t]
  IN  /\ received[t].at <= now
      /\ received[t].revocations \subseteq revocations
      /\ handler[t] = Idle => e = Kernel!Idle
      /\ e # Kernel!Idle =>
           /\ Reliable(e, received[t])
           /\ At(t, "decide_transition") \/ At(t, "decide_task") => Inquires(t)
           /\ At(t, "decide_transition") => AsksFor(e, handler[t].work)
      /\ At(t, "record_transition") /\ NeedsAuthority(handler[t].work, handler[t].record) =>
           /\ e # Kernel!Idle /\ e.step = "answered"
           /\ AsksFor(e, handler[t].work)
           /\ e.effect # "DENY" /\ Kernel!Authorized(e)

\* What record i of w's trace rests on.
RecordLicensed(w, i) ==
  NeedsAuthority(w, trace[w][i]) =>
    LET l == licences[w][i]
    IN  /\ l.evaluation # Kernel!Idle
        /\ AsksFor(l.evaluation, w)
        /\ l.evaluation.effect # "DENY"
        /\ Kernel!Authorized(l.evaluation)
        /\ Reliable(l.evaluation, l.received)

\* The inductive invariant.
Licensing ==
  /\ Typed /\ RecordTells
  /\ now \in Nat /\ Kernel!TypeOK
  /\ received \in [Threads -> Received]
  /\ licences \in [Works -> Seq(Licence)]
  /\ \A w \in Works : Len(licences[w]) = Len(trace[w])
  /\ \A t \in Threads : ThreadFits(t)
  /\ \A w \in Works : \A i \in DOMAIN trace[w] : RecordLicensed(w, i)

\* Rows that are added take nothing away from what was read.
LEMMA ReliableStays ==
  ASSUME NEW e, NEW r, Reliable(e, r),
         grants \subseteq grants', delegations \subseteq delegations'
  PROVE  Reliable(e, r)'
BY DEF Reliable, HeldBy

\* The queries of an evaluation keep it reliable.
LEMMA EvaluationReliable ==
  ASSUME Licensing, NEW t \in Threads, Evaluate(t)
  PROVE  /\ UNCHANGED kernelTables
         /\ evaluation[t] # Kernel!Idle /\ evaluation[t].step # "answered"
         /\ evaluation'[t].request = evaluation[t].request
         /\ evaluation'[t] # Kernel!Idle
         /\ Reliable(evaluation'[t], received[t])
         /\ \A u \in Threads \ {t} : evaluation'[u] = evaluation[u]
<1> DEFINE e == evaluation[t]
           req == e.request
<1>1. ASSUME NEW s \in {"read_grants", "read_delegations", "read_revocations"},
             Kernel!At(t, s)
      PROVE  /\ e \in Kernel!Serving /\ e # Kernel!Idle /\ e.step # "answered"
             /\ Reliable(e, received[t]) /\ received[t].revocations \subseteq revocations
  BY <1>1 DEF Licensing, ThreadFits, Kernel!TypeOK, Kernel!At, Kernel!Idle
<1>2. CASE Kernel!ReadGrants(t)
  <2> DEFINE standing == Kernel!StandingGrants(grants, req, e.competent)
  <2>1. e \in Kernel!Serving /\ Reliable(e, received[t])
    BY <1>1, <1>2 DEF Kernel!ReadGrants
  <2>2. \A g \in standing : HeldBy(g, req.subject_ref, req)
    BY DEF Kernel!StandingGrants, HeldBy, Kernel!InForce, Kernel!Confers
  <2>3. evaluation' = [evaluation EXCEPT
          ![t] = [e EXCEPT !.step = "read_delegations", !.standing = standing]]
        /\ UNCHANGED kernelTables
    BY <1>2 DEF Kernel!ReadGrants, Kernel!tables, kernelTables
  <2>4. /\ evaluation'[t] = [e EXCEPT !.step = "read_delegations", !.standing = standing]
        /\ \A u \in Threads \ {t} : evaluation'[u] = evaluation[u]
    <3> HIDE DEF standing
    <3>1. QED
      BY <2>3 DEF Licensing, Kernel!TypeOK
  <2>5. QED
    <3> HIDE DEF standing
    <3>1. QED
      BY <1>1, <1>2, <2>1, <2>2, <2>3, <2>4
      DEF Kernel!ReadGrants, Kernel!Serving, Kernel!Idle, Reliable
<1>3. CASE Kernel!ReadDelegations(t)
  <2> DEFINE pending == Kernel!CurrentDelegations(delegations, req)
  <2>1. e \in Kernel!Serving /\ Reliable(e, received[t])
    BY <1>1, <1>3 DEF Kernel!ReadDelegations
  <2>2. \A d \in pending : /\ d \in delegations /\ d.delegatee_ref = req.subject_ref
                           /\ d.valid_from <= req.at /\ req.at < d.valid_until
    BY DEF Kernel!CurrentDelegations
  <2>3. evaluation' = [evaluation EXCEPT
          ![t] = [e EXCEPT !.step = "read_revocations", !.pending = pending]]
        /\ UNCHANGED kernelTables
    BY <1>3 DEF Kernel!ReadDelegations, Kernel!tables, kernelTables
  <2>4. /\ evaluation'[t] = [e EXCEPT !.step = "read_revocations", !.pending = pending]
        /\ \A u \in Threads \ {t} : evaluation'[u] = evaluation[u]
    <3> HIDE DEF pending
    <3>1. QED
      BY <2>3 DEF Licensing, Kernel!TypeOK
  <2>5. QED
    <3> HIDE DEF pending
    <3>1. QED
      BY <1>1, <1>3, <2>1, <2>2, <2>3, <2>4
      DEF Kernel!ReadDelegations, Kernel!Serving, Kernel!Idle, Reliable
<1>4. ASSUME NEW d \in DelegationRows, Kernel!ReadRevocations(t, d)
      PROVE  /\ UNCHANGED kernelTables
             /\ e # Kernel!Idle /\ e.step # "answered"
             /\ evaluation'[t].request = req
             /\ evaluation'[t] # Kernel!Idle
             /\ Reliable(evaluation'[t], received[t])
             /\ \A u \in Threads \ {t} : evaluation'[u] = evaluation[u]
  <2> DEFINE live == IF Kernel!Revoked(revocations, d, req.at) THEN e.live ELSE e.live \cup {d}
  <2>1. /\ e \in Kernel!Serving /\ e # Kernel!Idle /\ e.step # "answered"
        /\ Reliable(e, received[t]) /\ received[t].revocations \subseteq revocations
    BY <1>1, <1>4 DEF Kernel!ReadRevocations
  <2>2. d \in e.pending
    BY <1>4 DEF Kernel!ReadRevocations
  <2>3. \A c \in live : ~Kernel!Revoked(received[t].revocations, c, req.at)
    BY <2>1 DEF Reliable, Kernel!Revoked
  <2>4. e.live \subseteq live /\ live \subseteq e.live \cup {d}
    OBVIOUS
  <2>5. evaluation' = [evaluation EXCEPT
          ![t] = [e EXCEPT !.pending = e.pending \ {d}, !.live = live]]
        /\ UNCHANGED kernelTables
    BY <1>4 DEF Kernel!ReadRevocations, Kernel!tables, kernelTables
  <2> HIDE DEF live
  <2>6. /\ evaluation'[t] = [e EXCEPT !.pending = e.pending \ {d}, !.live = live]
        /\ \A u \in Threads \ {t} : evaluation'[u] = evaluation[u]
    BY <2>5 DEF Licensing, Kernel!TypeOK
  <2>7. /\ evaluation'[t].request = req /\ evaluation'[t].standing = e.standing
        /\ evaluation'[t].matched = e.matched /\ evaluation'[t].step = e.step
        /\ evaluation'[t].pending = e.pending \ {d} /\ evaluation'[t].live = live
    BY <2>1, <2>6 DEF Kernel!Serving
  <2>8. Reliable(evaluation'[t], received[t])
    BY <2>1, <2>2, <2>3, <2>4, <2>7 DEF Reliable
  <2>9. evaluation'[t] # Kernel!Idle
    BY <2>1, <2>7 DEF Kernel!Idle, Kernel!Serving
  <2>10. QED
    BY <2>1, <2>5, <2>6, <2>7, <2>8, <2>9
<1>5. CASE ReadPolicies(t)
  <2> DEFINE matched == {d \in e.live : Kernel!Delegates(grants, d, req, e.competent)}
             effect  == Kernel!PolicyEffect(policies, [req EXCEPT !.at = now])
  <2>1. /\ e \in Kernel!Serving /\ e # Kernel!Idle /\ e.step # "answered"
        /\ Reliable(e, received[t])
    BY <1>1, <1>5 DEF ReadPolicies
  <2>2. ASSUME NEW d \in matched
        PROVE  \E g \in grants :
                 g.authority_id = d.authority_ref /\ HeldBy(g, d.delegator_ref, req)
    <3>1. PICK g \in grants :
            /\ g.authority_id = d.authority_ref
            /\ g.subject_ref = d.delegator_ref
            /\ g.effective_from <= d.valid_from
            /\ g.effective_to # Kernel!NoEnd => d.valid_until <= g.effective_to
      BY DEF Kernel!Delegates, Kernel!ValidDelegation
    <3>2. g.authority_type = req.action
      BY <3>1 DEF Kernel!Delegates, Kernel!Confers, Licensing, Kernel!TypeOK
    <3>3. d \in delegations /\ d.valid_from <= req.at /\ req.at < d.valid_until
      BY <2>1 DEF Reliable
    <3>4. /\ g.effective_from \in Nat /\ g.effective_to \in Nat
          /\ d.valid_from \in Nat /\ d.valid_until \in Nat /\ req.at \in Nat
      BY <2>1, <3>3, KernelRowsAssumption
      DEF Licensing, Kernel!TypeOK, Kernel!AuthorityGrant, Kernel!DelegationGrant,
          Kernel!Serving, Inquiry
    <3>5. Kernel!ActivePeriod(g, req.at)
      BY <3>1, <3>3, <3>4 DEF Kernel!ActivePeriod
    <3>6. QED
      BY <3>1, <3>2, <3>5 DEF HeldBy
  <2>3. matched \subseteq e.live
    OBVIOUS
  <2>4. evaluation' = [evaluation EXCEPT
          ![t] = [e EXCEPT !.step = "answered", !.matched = matched, !.effect = effect]]
        /\ UNCHANGED kernelTables
    BY <1>5 DEF ReadPolicies
  <2> HIDE DEF matched, effect
  <2>5. /\ evaluation'[t] = [e EXCEPT !.step = "answered", !.matched = matched,
                                      !.effect = effect]
        /\ \A u \in Threads \ {t} : evaluation'[u] = evaluation[u]
    BY <2>4 DEF Licensing, Kernel!TypeOK
  <2>6. /\ evaluation'[t].request = req /\ evaluation'[t].standing = e.standing
        /\ evaluation'[t].matched = matched /\ evaluation'[t].step = "answered"
        /\ evaluation'[t].pending = e.pending /\ evaluation'[t].live = e.live
    BY <2>1, <2>5 DEF Kernel!Serving
  <2>7. Reliable(evaluation'[t], received[t])
    BY <2>1, <2>2, <2>3, <2>6 DEF Reliable
  <2>8. evaluation'[t] # Kernel!Idle
    BY <2>6 DEF Kernel!Idle
  <2>9. QED
    BY <2>1, <2>4, <2>5, <2>6, <2>7, <2>8
<1>6. QED
  BY <1>2, <1>3, <1>4, <1>5 DEF Evaluate

\* Nothing is decided or committed, and what threads know stays so.
LEMMA LicensingQuiet ==
  ASSUME Licensing, Typed', RecordTells', Kernel!TypeOK', now' \in Nat,
         grants \subseteq grants', delegations \subseteq delegations',
         received' \in [Threads -> Received],
         UNCHANGED <<trace, licences>>,
         \A t \in Threads : ThreadFits(t)'
  PROVE  Licensing'
<1>1. ASSUME NEW w \in Works, NEW i \in DOMAIN trace[w]
      PROVE  RecordLicensed(w, i)'
  BY ReliableStays DEF Licensing, RecordLicensed, NeedsAuthority, AsksFor
<1>2. QED
  BY <1>1 DEF Licensing

\* A thread that does nothing knows what it knew.
LEMMA ThreadStays ==
  ASSUME Licensing, NEW t \in Threads, handler'[t] = handler[t],
         evaluation'[t] = evaluation[t], received'[t] = received[t],
         now' \in Nat, now <= now', grants \subseteq grants',
         delegations \subseteq delegations', revocations \subseteq revocations'
  PROVE  ThreadFits(t)'
<1>1. /\ ThreadFits(t) /\ now \in Nat /\ received[t].at \in Nat
  BY DEF Licensing, Received
<1>2. Inquires(t)' = Inquires(t)
  BY DEF Inquires, At, TaskNode
<1>3. QED
  BY <1>1, <1>2, ReliableStays DEF ThreadFits, At, AsksFor

\* A commit moves its own handler, to another commit or to its end.
LEMMA CommitMoves ==
  ASSUME TypeOK, NEW t \in Threads, Commit(t)
  PROVE  /\ handler[t] \in Busy
         /\ handler'[t] = Idle \/ handler'[t] \in Busy
         /\ ~At(t, "record_transition")'
         /\ \A u \in Threads \ {t} : handler'[u] = handler[u]
<1>1. handler[t] \in Busy
  BY AtIsBusy DEF Commit, AuditCreated, RecordTransition, WriteState, AuditTransition,
     RecordBlock, WriteBlocked, RecordBlockHandover, AuditBlock, RecordTask, AuditTask,
     RecordHandover, WriteHandedOver, AuditHandover, Step
<1>2. CASE Finish(t)
  BY <1>1, <1>2, FinishKeepsType DEF At, Idle
<1>3. ASSUME NEW s \in Step \ {"record_transition"}, Goto(t, s)
      PROVE  /\ handler'[t] \in Busy /\ ~At(t, "record_transition")'
             /\ \A u \in Threads \ {t} : handler'[u] = handler[u]
  <2>1. handler'[t].step = s /\ \A u \in Threads \ {t} : handler'[u] = handler[u]
    BY <1>1, <1>3, GotoKeepsType
  <2>2. handler'[t] = [handler[t] EXCEPT !.step = s]
    BY <1>3 DEF Goto, TypeOK
  <2>3. QED
    BY <1>1, <2>1, <2>2 DEF Busy, At
<1>4. Finish(t) \/ \E s \in Step \ {"record_transition"} : Goto(t, s)
  BY DEF Commit, AuditCreated, RecordTransition, WriteState, AuditTransition,
     RecordBlock, WriteBlocked, RecordBlockHandover, AuditBlock, RecordTask, AuditTask,
     RecordHandover, WriteHandedOver, AuditHandover, Step
<1>5. QED
  BY <1>1, <1>2, <1>3, <1>4

LEMMA LicensingStep == Licensing /\ [GovernedNext]_governedVars => Licensing'
<1> SUFFICES ASSUME Licensing, [GovernedNext]_governedVars PROVE Licensing'
  OBVIOUS
<1>0. /\ Typed' /\ RecordTells' /\ TypeOK
      /\ handler \in [Threads -> {Idle} \cup Deciding \cup Busy]
      /\ now \in Nat /\ Kernel!TypeOK
      /\ received \in [Threads -> Received]
      /\ evaluation \in [Threads -> {Kernel!Idle} \cup Kernel!Serving]
  <2>1. [Next]_vars
    BY GovernedStepIsStep DEF governedVars
  <2>2. QED
    BY <2>1, TypedStep, TellsStep DEF Licensing, Typed, TypeOK, Kernel!TypeOK
<1>1. CASE Tick
  <2>1. now' \in Nat /\ now <= now' /\ Kernel!TypeOK'
    BY <1>0, <1>1 DEF Tick, Kernel!TypeOK, kernelTables
  <2>2. \A t \in Threads : ThreadFits(t)'
    BY <1>0, <1>1, <2>1, ThreadStays DEF Tick, vars, kernelTables
  <2>3. QED
    BY <1>0, <1>1, <2>1, <2>2, LicensingQuiet DEF Tick, vars, kernelTables
<1>2. CASE Post
  <2>1. \A t \in Threads : ThreadFits(t)'
    BY <1>0, <1>2, PostGrows, ThreadStays DEF Post, vars
  <2>2. QED
    BY <1>0, <1>2, <2>1, PostGrows, LicensingQuiet DEF Post, vars
<1>3. CASE Define \/ UNCHANGED governedVars
  <2>1. UNCHANGED <<vars, now, kernelTables, evaluation, received, licences>>
    BY <1>3 DEF Define, governedVars
  <2>2. Kernel!TypeOK'
    BY <1>0, <2>1 DEF Kernel!TypeOK, kernelTables
  <2>3. \A t \in Threads : ThreadFits(t)'
    BY <1>0, <2>1, ThreadStays DEF vars, kernelTables
  <2>4. QED
    BY <1>0, <2>1, <2>2, <2>3, LicensingQuiet DEF vars, kernelTables
\* A thread moves and does not touch the tables or the traces.
<1>4. ASSUME NEW t \in Threads,
             UNCHANGED <<trace, now, kernelTables, licences>>,
             Kernel!TypeOK', received' \in [Threads -> Received],
             \A u \in Threads \ {t} : /\ handler'[u] = handler[u]
                                      /\ evaluation'[u] = evaluation[u]
                                      /\ received'[u] = received[u],
             ThreadFits(t)'
      PROVE  Licensing'
  <2>1. \A u \in Threads \ {t} : ThreadFits(u)'
    BY <1>0, <1>4, ThreadStays DEF kernelTables
  <2>2. QED
    BY <1>0, <1>4, <2>1, LicensingQuiet DEF kernelTables
<1>5. ASSUME NEW t \in Threads, NEW w \in Works, Receive(t, w)
      PROVE  Licensing'
  <2>1. /\ UNCHANGED <<trace, now, kernelTables, evaluation, licences>>
        /\ handler[t] = Idle
        /\ received' = [received EXCEPT ![t] = [at |-> now, revocations |-> revocations]]
        /\ \A u \in Threads \ {t} : handler'[u] = handler[u]
        /\ handler'[t] # Idle /\ handler'[t].step # "record_transition"
    BY <1>0, <1>5 DEF Receive, ReceiveTransition, ReceiveTask, RequestHandover, CanServe,
       Ask, Start, Idle
  <2>2. evaluation[t] = Kernel!Idle
    BY <2>1 DEF Licensing, ThreadFits
  <2>3. Kernel!TypeOK'
    BY <1>0, <2>1 DEF Kernel!TypeOK, kernelTables
  <2>4. /\ received' \in [Threads -> Received]
        /\ received'[t] = [at |-> now, revocations |-> revocations]
        /\ \A u \in Threads \ {t} : received'[u] = received[u]
    <3>1. [at |-> now, revocations |-> revocations] \in Received
      BY <1>0 DEF Received, Kernel!TypeOK
    <3>2. QED
      BY <1>0, <2>1, <3>1
  <2>5. ThreadFits(t)'
    BY <1>0, <2>1, <2>2, <2>4 DEF ThreadFits, At, kernelTables
  <2>6. QED
    BY <1>4, <2>1, <2>3, <2>4, <2>5
<1>6. ASSUME NEW t \in Threads, NEW w \in Works, NEW plan \in plans, StartPlanned(t, w, plan)
      PROVE  Licensing'
  <2>1. /\ UNCHANGED <<trace, now, kernelTables, evaluation, licences, received>>
        /\ handler[t] = Idle
        /\ \A u \in Threads \ {t} : handler'[u] = handler[u]
        /\ handler'[t].step = "audit_created"
    BY <1>0, <1>6 DEF StartPlanned, StartWork
  <2>2. evaluation[t] = Kernel!Idle /\ ThreadFits(t)
    BY <2>1 DEF Licensing, ThreadFits
  <2>3. Kernel!TypeOK'
    BY <1>0, <2>1 DEF Kernel!TypeOK, kernelTables
  <2>4. ThreadFits(t)'
    BY <2>1, <2>2 DEF ThreadFits, At, kernelTables
  <2>5. QED
    BY <1>0, <1>4, <2>1, <2>3, <2>4
<1>7. ASSUME NEW t \in Threads, NEW subject \in Subjects, Inquire(t, subject)
      PROVE  Licensing'
  <2> DEFINE req == InquiryOf(t, subject)
  <2>1. /\ UNCHANGED <<trace, handler, now, kernelTables, licences, received>>
        /\ Inquires(t)
    BY <1>7 DEF Inquire, Kernel!BeginGate, Kernel!tables, kernelTables, vars
  <2>2. Kernel!TypeOK'
    BY <1>0, <1>7, EvaluationType
  <2>3. /\ \A u \in Threads \ {t} : evaluation'[u] = evaluation[u]
        /\ evaluation'[t].request = req
        /\ evaluation'[t].standing = {} /\ evaluation'[t].pending = {}
        /\ evaluation'[t].live = {} /\ evaluation'[t].matched = {}
    BY <1>0, <1>7 DEF Inquire, Kernel!BeginGate
  <2>4. req.at = now
    BY DEF InquiryOf
  <2>5. ThreadFits(t) /\ handler[t] # Idle
    BY <2>1 DEF Licensing, Inquires, At, Idle
  <2>6. Reliable(evaluation[t], received[t])'
    BY <2>1, <2>3, <2>4, <2>5 DEF Reliable, ThreadFits
  <2>7. At(t, "decide_transition") => AsksFor(evaluation'[t], handler[t].work)
    BY <2>3 DEF InquiryOf, Asked, AsksFor
  <2>8. Inquires(t)'
    BY <2>1 DEF Inquires, At, TaskNode
  <2>9. ~At(t, "record_transition")
    BY <2>1 DEF Inquires, At
  <2>10. ThreadFits(t)'
    <3> HIDE DEF req
    <3>1. QED
      BY <2>1, <2>5, <2>6, <2>7, <2>8, <2>9 DEF ThreadFits, At, AsksFor, kernelTables
  <2>11. QED
    BY <1>0, <1>4, <2>1, <2>2, <2>3, <2>10
<1>8. ASSUME NEW t \in Threads, Evaluate(t)
      PROVE  Licensing'
  <2>1. UNCHANGED <<trace, handler, now, licences, received>>
    BY <1>8 DEF Evaluate, vars
  <2>2. /\ UNCHANGED kernelTables
        /\ evaluation[t] # Kernel!Idle /\ evaluation[t].step # "answered"
        /\ evaluation'[t].request = evaluation[t].request
        /\ evaluation'[t] # Kernel!Idle
        /\ Reliable(evaluation'[t], received[t])
        /\ \A u \in Threads \ {t} : evaluation'[u] = evaluation[u]
    BY <1>8, EvaluationReliable
  <2>3. Kernel!TypeOK'
    BY <1>0, <1>8, EvaluationType
  <2>4. ThreadFits(t)
    BY DEF Licensing
  <2>5. Reliable(evaluation[t], received[t])'
    BY <2>1, <2>2 DEF Reliable, HeldBy, kernelTables
  <2>6. Inquires(t)' = Inquires(t)
    BY <2>1 DEF Inquires, At, TaskNode
  <2>7. ThreadFits(t)'
    BY <2>1, <2>2, <2>4, <2>5, <2>6 DEF ThreadFits, At, AsksFor, kernelTables
  <2>8. QED
    BY <1>0, <1>4, <2>1, <2>2, <2>3, <2>7
<1>9. ASSUME NEW t \in Threads, Answer(t) \/ FailAssembly(t)
      PROVE  Licensing'
  <2>1. UNCHANGED <<trace, now, kernelTables, evaluation, licences, received>>
    BY <1>9 DEF Answer, DecideTransition, DecideTask, FailAssembly, AssemblyRaises
  <2>2. Kernel!TypeOK'
    BY <1>0, <2>1 DEF Kernel!TypeOK, kernelTables
  <2>3. ThreadFits(t)
    BY DEF Licensing
  <2>4. CASE FailAssembly(t)
    <3>1. /\ At(t, "decide_task")
          /\ TaskNode(t).node_type = "CAPABILITY_TASK"
          /\ Finish(t)
      BY <2>4 DEF FailAssembly, AssemblyRaises, TaskNode
    <3>2. ~Inquires(t)
      BY <3>1 DEF Inquires, At
    <3>3. evaluation[t] = Kernel!Idle
      BY <2>3, <3>1, <3>2 DEF ThreadFits
    <3>4. handler'[t] = Idle /\ \A u \in Threads \ {t} : handler'[u] = handler[u]
      BY <1>0, <3>1, FinishKeepsType
    <3>5. ThreadFits(t)'
      BY <2>1, <2>3, <3>3, <3>4 DEF ThreadFits, At, Idle, kernelTables
    <3>6. QED
      BY <1>0, <1>4, <2>1, <2>2, <3>4, <3>5
  <2>5. ASSUME NEW verdict \in Answers(t), DecideTask(t, verdict)
        PROVE  Licensing'
    <3>1. /\ handler'[t] # Idle
          /\ handler'[t].step \in {"record_task", "record_block"}
          /\ \A u \in Threads \ {t} : handler'[u] = handler[u]
      BY <1>0, <2>5 DEF DecideTask, Start, Idle
    <3>2. evaluation[t] # Kernel!Idle => Reliable(evaluation[t], received[t])'
      BY <2>1, <2>3 DEF ThreadFits, Reliable, HeldBy, kernelTables
    <3>3. ThreadFits(t)'
      BY <2>1, <2>3, <3>1, <3>2 DEF ThreadFits, At, kernelTables
    <3>4. QED
      BY <1>0, <1>4, <2>1, <2>2, <3>1, <3>3
  <2>6. ASSUME NEW verdict \in Answers(t), DecideTransition(t, verdict), Answer(t)
        PROVE  Licensing'
    <3> DEFINE w   == handler[t].work
               req == handler[t].request
    <3>1. /\ At(t, "decide_transition")
          /\ \/ /\ TransitionAccepted(ContractOf[w], handler[t].read, req, verdict)
                /\ Start(t, "record_transition", w, handler[t].read,
                         AppliedTransition(handler[t].read, req, verdict))
             \/ Start(t, "record_block", w, handler[t].read, BlockTransition(handler[t].read))
      BY <2>6 DEF DecideTransition
    <3>2. /\ \A u \in Threads \ {t} : handler'[u] = handler[u]
          /\ handler'[t] # Idle
          /\ handler'[t].step \in {"record_transition", "record_block"}
          /\ handler'[t].work = w
          /\ handler'[t].step = "record_transition" =>
               /\ TransitionAccepted(ContractOf[w], handler[t].read, req, verdict)
               /\ handler'[t].record = AppliedTransition(handler[t].read, req, verdict)
      BY <1>0, <3>1 DEF Start, Idle
    <3>3. evaluation[t] # Kernel!Idle => Reliable(evaluation[t], received[t])'
      BY <2>1, <2>3 DEF ThreadFits, Reliable, HeldBy, kernelTables
    <3>4. ASSUME handler'[t].step = "record_transition",
                 NeedsAuthority(w, handler'[t].record)
          PROVE  /\ evaluation[t] # Kernel!Idle /\ evaluation[t].step = "answered"
                 /\ AsksFor(evaluation[t], w)
                 /\ evaluation[t].effect # "DENY" /\ Kernel!Authorized(evaluation[t])
      <4>1. /\ NeedsApproval(ContractOf[w], req.to_state)
            /\ FirstHumanPoint(ContractOf[w]).required_authority_action
        BY <3>2, <3>4 DEF NeedsAuthority, AppliedTransition
      <4>2. Inquires(t)
        BY <3>1, <4>1 DEF Inquires
      <4>3. verdict.allowed /\ verdict.effect # "DENY"
        BY <3>2, <3>4, <4>1 DEF TransitionAccepted, ApprovalGranted
      <4>4. /\ verdict.allowed = Kernel!Authorized(evaluation[t])
            /\ verdict.effect = evaluation[t].effect
        BY <4>2 DEF Answers
      <4>5. evaluation[t].step = "answered"
        BY <2>6, <4>2 DEF Answer
      <4>6. evaluation[t] # Kernel!Idle
        BY <4>5 DEF Kernel!Idle
      <4>7. QED
        BY <2>3, <3>1, <4>3, <4>4, <4>5, <4>6 DEF ThreadFits
    <3>5. ThreadFits(t)'
      BY <2>1, <2>3, <3>2, <3>3, <3>4 DEF ThreadFits, At, AsksFor, NeedsAuthority, kernelTables
    <3>6. QED
      BY <1>0, <1>4, <2>1, <2>2, <3>2, <3>5
  <2>7. QED
    BY <1>9, <2>4, <2>5, <2>6 DEF Answer
\* A handler ends, or goes on to a commit that is not of a transition, and releases its
\* evaluation in the first case.
<1>10. ASSUME NEW t \in Threads, ReleaseEvaluation(t),
              handler'[t] = Idle \/ handler'[t] \in Busy,
              handler[t].step # "decide_transition" \/ handler'[t] = Idle,
              ~At(t, "record_transition")',
              \A u \in Threads \ {t} : handler'[u] = handler[u],
              UNCHANGED <<now, kernelTables, received>>
       PROVE  /\ Kernel!TypeOK'
              /\ \A u \in Threads : ThreadFits(u)'
  <2>1. /\ evaluation'[t] = IF handler'[t] = Idle THEN Kernel!Idle ELSE evaluation[t]
        /\ \A u \in Threads \ {t} : evaluation'[u] = evaluation[u]
        /\ evaluation' \in [Threads -> {Kernel!Idle} \cup Kernel!Serving]
    BY <1>0, <1>10 DEF ReleaseEvaluation
  <2>2. Kernel!TypeOK'
    BY <1>0, <1>10, <2>1 DEF Kernel!TypeOK, kernelTables
  <2>3. ThreadFits(t)
    BY DEF Licensing
  <2>4. handler'[t] \in Busy =>
          handler'[t] # Idle /\ ~At(t, "decide_transition")' /\ ~At(t, "decide_task")'
    BY DEF Busy, Step, Idle, At
  <2>5. evaluation'[t] # Kernel!Idle => Reliable(evaluation[t], received[t])'
    BY <1>10, <2>1, <2>3 DEF ThreadFits, Reliable, HeldBy, kernelTables
  <2>6. ThreadFits(t)'
    BY <1>10, <2>1, <2>3, <2>4, <2>5 DEF ThreadFits, At, kernelTables
  <2>7. \A u \in Threads \ {t} : ThreadFits(u)'
    BY <1>0, <1>10, <2>1, ThreadStays DEF kernelTables
  <2>8. QED
    BY <2>2, <2>6, <2>7
<1>11. ASSUME NEW t \in Threads, Die(t)
       PROVE  Licensing'
  <2>1. /\ Finish(t) /\ ReleaseEvaluation(t)
        /\ UNCHANGED <<trace, now, kernelTables, received, licences>>
    BY <1>11 DEF Die, Crash
  <2>2. /\ handler'[t] = Idle /\ \A u \in Threads \ {t} : handler'[u] = handler[u]
        /\ ~At(t, "record_transition")'
    BY <1>0, <2>1, FinishKeepsType DEF At, Idle
  <2>3. /\ Kernel!TypeOK' /\ \A u \in Threads : ThreadFits(u)'
    BY <1>10, <2>1, <2>2
  <2>4. QED
    BY <1>0, <2>1, <2>3, LicensingQuiet DEF kernelTables
<1>12. ASSUME NEW t \in Threads, CommitNext(t)
       PROVE  Licensing'
  <2> DEFINE l == [evaluation |-> evaluation[t], received |-> received[t]]
  <2>1. /\ Commit(t) /\ ReleaseEvaluation(t)
        /\ UNCHANGED <<now, kernelTables, received>>
        /\ licences' = [v \in Works |-> IF trace'[v] = trace[v] THEN licences[v]
                                        ELSE Append(licences[v], l)]
    BY <1>12 DEF CommitNext
  <2>2. /\ handler[t] \in Busy
        /\ handler'[t] = Idle \/ handler'[t] \in Busy
        /\ ~At(t, "record_transition")'
        /\ \A u \in Threads \ {t} : handler'[u] = handler[u]
    BY <1>0, <2>1, CommitMoves
  <2>3. /\ Kernel!TypeOK' /\ \A u \in Threads : ThreadFits(u)'
    BY <1>10, <2>1, <2>2 DEF Busy, Step
  <2>4. l \in Licence
    BY <1>0 DEF Licence
  <2>5. /\ licences \in [Works -> Seq(Licence)] /\ trace \in [Works -> Seq(TraceRecord)]
        /\ \A v \in Works : Len(licences[v]) = Len(trace[v])
    BY <1>0 DEF Licensing, TypeOK
  <2>6. licences' \in [Works -> Seq(Licence)]
    BY <2>1, <2>4, <2>5
  <2>7. CASE trace' = trace
    <3>1. licences' = licences
      BY <2>1, <2>5, <2>7
    <3>2. QED
      BY <1>0, <2>1, <2>3, <2>7, <3>1, LicensingQuiet DEF kernelTables
  <2>8. ASSUME NEW w \in Works, w = handler[t].work, NEW r \in TraceRecord, Append1(w, r),
               r.event = "TRANSITION" /\ r.to_state = "APPROVED" =>
                 At(t, "record_transition") /\ r = handler[t].record
        PROVE  Licensing'
    <3>1. /\ trace'[w] = Append(trace[w], r)
          /\ \A v \in Works \ {w} : trace'[v] = trace[v]
      BY <1>0, <2>8, AppendKeepsType
    <3>2. trace'[w] # trace[w]
      <4>1. Len(trace'[w]) = Len(trace[w]) + 1 /\ Len(trace[w]) \in Nat
        BY <2>5, <2>8, <3>1
      <4>2. QED
        BY <4>1
    <3>3. /\ licences'[w] = Append(licences[w], l)
          /\ \A v \in Works \ {w} : licences'[v] = licences[v]
      BY <2>1, <2>8, <3>1, <3>2
    <3>4. \A v \in Works : Len(licences'[v]) = Len(trace'[v])
      <4>1. Len(licences'[w]) = Len(trace'[w])
        BY <2>4, <2>5, <2>8, <3>1, <3>3
      <4>2. QED
        BY <2>5, <3>1, <3>3, <4>1
    <3>5. ASSUME NEW v \in Works, NEW i \in DOMAIN trace'[v]
          PROVE  RecordLicensed(v, i)'
      <4>1. CASE i \in DOMAIN trace[v]
        <5>1. trace'[v][i] = trace[v][i] /\ licences'[v][i] = licences[v][i]
          <6>1. CASE v = w
            <7>1. i \in DOMAIN trace[w] /\ r \in TraceRecord
              BY <2>8, <4>1, <6>1
            <7>2. /\ trace[w] \in Seq(TraceRecord) /\ licences[w] \in Seq(Licence)
                  /\ Len(licences[w]) = Len(trace[w])
              BY <2>5
            <7>3. trace'[w][i] = trace[w][i]
              BY <3>1, <7>1, <7>2
            <7>4. licences'[w][i] = licences[w][i]
              BY <2>4, <3>3, <7>1, <7>2
            <7>5. QED
              BY <6>1, <7>3, <7>4
          <6>2. CASE v # w
            BY <3>1, <3>3, <6>2
          <6>3. QED
            BY <6>1, <6>2
        <5>2. RecordLicensed(v, i)
          BY <4>1 DEF Licensing
        <5>3. PICK rec, lic : /\ rec = trace[v][i] /\ rec = trace'[v][i]
                              /\ lic = licences[v][i] /\ lic = licences'[v][i]
          BY <5>1
        <5>4. Reliable(lic.evaluation, lic.received) => Reliable(lic.evaluation, lic.received)'
          BY <2>1 DEF Reliable, HeldBy, kernelTables
        <5>5. NeedsAuthority(v, rec) =>
                /\ lic.evaluation # Kernel!Idle
                /\ AsksFor(lic.evaluation, v)
                /\ lic.evaluation.effect # "DENY"
                /\ Kernel!Authorized(lic.evaluation)
                /\ Reliable(lic.evaluation, lic.received)'
          BY <5>2, <5>3, <5>4 DEF RecordLicensed
        <5>6. QED
          BY <5>3, <5>5 DEF RecordLicensed, NeedsAuthority, AsksFor
      <4>2. CASE i \notin DOMAIN trace[v]
        <5>1. v = w /\ i = Len(trace[w]) + 1
          BY <2>5, <3>1, <4>2
        <5>2. trace'[w][i] = r /\ licences'[w][i] = l
          BY <2>5, <2>8, <3>1, <3>3, <5>1
        <5>3. ThreadFits(t)
          BY DEF Licensing
        <5>4. NeedsAuthority(w, r) =>
                /\ evaluation[t] # Kernel!Idle
                /\ AsksFor(evaluation[t], w)
                /\ evaluation[t].effect # "DENY" /\ Kernel!Authorized(evaluation[t])
                /\ Reliable(evaluation[t], received[t])
          BY <2>8, <5>3 DEF ThreadFits, NeedsAuthority, NeedsApproval
        <5>5. PICK e, q : e = evaluation[t] /\ q = received[t]
          OBVIOUS
        <5>6. licences'[w][i].evaluation = e /\ licences'[w][i].received = q
          BY <5>2, <5>5
        <5>7. NeedsAuthority(w, r) => Reliable(e, q)'
          BY <2>1, <5>4, <5>5 DEF Reliable, HeldBy, kernelTables
        <5>8. NeedsAuthority(w, r) => Reliable(licences[w][i].evaluation, licences[w][i].received)'
          BY <5>6, <5>7 DEF Reliable, HeldBy
        <5>9. NeedsAuthority(w, trace[w][i])' => NeedsAuthority(w, r)
          BY <5>2 DEF NeedsAuthority
        <5>10. QED
          BY <5>1, <5>4, <5>5, <5>6, <5>8, <5>9 DEF RecordLicensed, AsksFor
      <4>3. QED
        BY <4>1, <4>2
    <3>6. QED
      BY <1>0, <2>1, <2>3, <2>6, <3>4, <3>5 DEF Licensing, kernelTables
  <2>9. QED
    BY <1>0, <2>1, <2>7, <2>8, CommitAppends DEF Licensing
<1>13. QED
  BY <1>1, <1>2, <1>3, <1>5, <1>6, <1>7, <1>8, <1>9, <1>11, <1>12 DEF GovernedNext

LEMMA LicensingInit == GovernedInit => Licensing
<1> SUFFICES ASSUME GovernedInit PROVE Licensing
  OBVIOUS
<1>1. Typed
  BY TypedInit DEF GovernedInit
<1>2. Kernel!TypeOK
  BY DEF GovernedInit, Kernel!Init, Kernel!TypeOK
<1>3. received \in [Threads -> Received] /\ licences \in [Works -> Seq(Licence)]
  BY DEF GovernedInit, Received, NotReceived
<1>4. QED
  BY <1>1, <1>2, <1>3
  DEF GovernedInit, Init, Kernel!Init, Licensing, RecordTells, ThreadFits, RecordLicensed,
      NotReceived, At, Idle

\* Such a record rests on its licence.
LEMMA LicensedRests ==
  ASSUME Licensing, NEW w \in Works, NEW i \in DOMAIN trace[w],
         NeedsAuthority(w, trace[w][i])
  PROVE  RestsOnLicence(w, i)
<1>1. RecordLicensed(w, i)
  BY DEF Licensing
<1>2. QED
  BY <1>1 DEF RecordLicensed, AsksFor, Reliable, HeldBy, RestsOnLicence, Grounded

(***************************************************************************)
(* For every set of rows, works and threads: an approval on record rests   *)
(* on an evaluation of its own request, not denied, and grounded in grants *)
(* and delegations that the kernel holds, none of them revoked when the    *)
(* request was received (transition_work, evaluate_authority).  It holds   *)
(* because no row is taken back and every revocation is read after the     *)
(* request came in; a revocation that is committed later may come too late *)
(* for the approval.                                                       *)
(***************************************************************************)
THEOREM ApprovalsLicensed == GovernedSpec => []ApprovalsAreLicensed
<1>1. Licensing => ApprovalsAreLicensed
  <2> SUFFICES ASSUME Licensing, NEW w \in Works, AsksAuthority(w), NEW i \in DOMAIN trace[w],
                      IsApplied(trace[w][i]), trace[w][i].to_state = "APPROVED"
               PROVE  RestsOnLicence(w, i)
    BY DEF ApprovalsAreLicensed
  <2>1. NeedsAuthority(w, trace[w][i])
    BY DEF AsksAuthority, NeedsAuthority, NeedsApproval, IsApplied
  <2>2. QED
    BY <2>1, LicensedRests
<1>2. QED
  BY <1>1, LicensingInit, LicensingStep, PTL DEF GovernedSpec

(***************************************************************************)
(* The same for the action, with any number of handlers and crashes: where *)
(* the contract asks an authority, a work is decided, authorised or        *)
(* executing only if its trace holds a complete human approval that rests  *)
(* on an evaluation of its own request (transition_work).                  *)
(***************************************************************************)
THEOREM ActionsLicensed == GovernedSpec => []ActionsAreLicensed
<1>1. Licensing /\ ApprovalBeforeAction => ActionsAreLicensed
  <2> SUFFICES ASSUME Licensing, ApprovalBeforeAction, NEW w \in Works, AsksAuthority(w),
                      state[w] \in ActionState
               PROVE  \E i \in DOMAIN trace[w] :
                        WellApproved(ContractOf[w], trace[w][i]) /\ RestsOnLicence(w, i)
    BY DEF ActionsAreLicensed
  <2>1. PICK i \in DOMAIN trace[w] : WellApproved(ContractOf[w], trace[w][i])
    BY DEF ApprovalBeforeAction, Approved
  <2>2. NeedsAuthority(w, trace[w][i])
    BY <2>1 DEF WellApproved, AsksAuthority, NeedsAuthority, NeedsApproval
  <2>3. QED
    BY <2>1, <2>2, LicensedRests
<1>2. QED
  BY <1>1, LicensingInit, LicensingStep, GovernedActionIsApproved, PTL DEF GovernedSpec

-----------------------------------------------------------------------------
\* Type correctness of the composition

\* A handler works on a work that exists, and a work that exists has a plan.
Planned ==
  /\ now \in 1 .. MaxTime + 1
  /\ plan_ref \in [Works -> PlanIds \cup {"none"}]
  /\ \A w \in Works : state[w] # "NONE" => \E plan \in plans : plan.plan_id = plan_ref[w]
  /\ \A t \in Threads : handler[t] # Idle => state[handler[t].work] # "NONE"

\* A commit leaves every work that exists in existence, and brings none into it.
LEMMA CommitKeepsWorks ==
  ASSUME Typed, NEW t \in Threads, Commit(t), NEW w \in Works
  PROVE  \/ state'[w] = state[w]
         \/ w = handler[t].work /\ state'[w] # "NONE"
<1>1. handler[t] \in Busy /\ TypeOK
  BY CommitMoves DEF Typed
<1>2. ASSUME NEW s \in WorkState, UpdateWorkState(handler[t].work, s)
      PROVE  \/ state'[w] = state[w]
             \/ w = handler[t].work /\ state'[w] # "NONE"
  <2>1. s # "NONE"
    BY DEF WorkState
  <2>2. QED
    BY <1>1, <1>2, <2>1, UpdateKeepsType DEF Busy
<1>3. CASE WriteState(t)
  <2>1. handler[t].record \in TransitionRecord
    BY <1>3 DEF WriteState, At, Typed, RecordFits
  <2>2. QED
    BY <1>2, <1>3, <2>1 DEF WriteState, TransitionRecord
<1>4. CASE WriteBlocked(t) \/ WriteHandedOver(t)
  BY <1>2, <1>4 DEF WriteBlocked, WriteHandedOver, WorkState
<1>5. QED
  BY <1>3, <1>4 DEF Commit, AuditCreated, RecordTransition, AuditTransition, RecordBlock,
     RecordBlockHandover, AuditBlock, RecordTask, AuditTask, RecordHandover, AuditHandover

\* Every step keeps the work of a handler that goes on.
LEMMA GoesOn ==
  ASSUME Typed, NEW t \in Threads, Commit(t), handler'[t] # Idle
  PROVE  handler'[t].work = handler[t].work
<1>1. handler[t] \in Busy /\ TypeOK
  BY CommitMoves DEF Typed
<1>2. ~Finish(t)
  BY <1>1, FinishKeepsType
<1>3. \E s \in Step : Goto(t, s)
  BY <1>2 DEF Commit, AuditCreated, RecordTransition, WriteState, AuditTransition,
     RecordBlock, WriteBlocked, RecordBlockHandover, AuditBlock, RecordTask, AuditTask,
     RecordHandover, WriteHandedOver, AuditHandover, Step
<1>4. QED
  BY <1>1, <1>3, GotoKeepsType

LEMMA PlannedStep ==
  Licensing /\ DefinitionsFit /\ Planned /\ [GovernedNext]_governedVars => Planned'
<1> SUFFICES ASSUME Licensing, DefinitionsFit, Planned, [GovernedNext]_governedVars
             PROVE  Planned'
  OBVIOUS
<1>0. /\ Typed /\ TypeOK
      /\ handler \in [Threads -> {Idle} \cup Deciding \cup Busy]
      /\ state \in [Works -> WorkState \cup {"NONE"}]
      /\ plans \subseteq Definitions!ExecutionPlan
  BY DEF Licensing, Typed, TypeOK, DefinitionsFit, Definitions!TypeOK
<1>1. ASSUME UNCHANGED vars, UNCHANGED plan_ref, plans \subseteq plans',
             now' \in 1 .. MaxTime + 1
      PROVE  Planned'
  BY <1>1 DEF Planned, vars
<1>2. CASE Tick
  BY <1>1, <1>2, TimeAssumption DEF Tick, definitions, Planned
<1>3. CASE Post \/ UNCHANGED governedVars
  BY <1>1, <1>3 DEF Post, governedVars, definitions, Planned
<1>4. CASE Define
  <2>1. plans \subseteq plans'
    BY <1>4 DEF Define, Definitions!Next, Definitions!RegisterCapability,
       Definitions!AddWorkContract, Definitions!AddWorkGraph, Definitions!BeginPlan,
       Definitions!ReadGraph, Definitions!AddExecutionPlan
  <2>2. QED
    BY <1>1, <1>4, <2>1 DEF Define, Planned
\* A thread moves; works come into existence with their plans, and none ceases to be.
<1>5. ASSUME NEW t \in Threads, UNCHANGED <<now, definitions, plan_ref>>,
             \A w \in Works : \/ state'[w] = state[w]
                              \/ state[w] # "NONE" /\ state'[w] # "NONE",
             \A u \in Threads \ {t} : handler'[u] = handler[u],
             handler'[t] # Idle => handler'[t].work \in Works
                                   /\ state[handler'[t].work] # "NONE"
      PROVE  Planned'
  <2>1. \A w \in Works : state'[w] # "NONE" => \E plan \in plans' : plan.plan_id = plan_ref'[w]
    BY <1>5 DEF Planned, definitions
  <2>2. ASSUME NEW u \in Threads, handler'[u] # Idle
        PROVE  state'[handler'[u].work] # "NONE"
    <3>1. handler'[u].work \in Works /\ state[handler'[u].work] # "NONE"
      <4>1. CASE u = t
        BY <1>5, <2>2, <4>1
      <4>2. CASE u # t
        BY <1>0, <1>5, <2>2, <4>2 DEF Planned, Deciding, Busy
      <4>3. QED
        BY <4>1, <4>2
    <3>2. QED
      BY <1>5, <3>1
  <2>3. QED
    BY <1>5, <2>1, <2>2 DEF Planned
<1>6. ASSUME NEW t \in Threads, NEW w \in Works, Receive(t, w)
      PROVE  Planned'
  <2>1. /\ UNCHANGED <<state, now, definitions, plan_ref>>
        /\ state[w] # "NONE"
        /\ \A u \in Threads \ {t} : handler'[u] = handler[u]
        /\ handler'[t].work = w
    BY <1>0, <1>6 DEF Receive, ReceiveTransition, ReceiveTask, RequestHandover, CanServe,
       Ask, Start
  <2>2. QED
    BY <1>5, <2>1
<1>7. ASSUME NEW t \in Threads, NEW w \in Works, NEW plan \in plans, StartPlanned(t, w, plan)
      PROVE  Planned'
  <2>1. /\ UNCHANGED <<now, definitions>> /\ plans' = plans
        /\ plan_ref' = [plan_ref EXCEPT ![w] = plan.plan_id]
        /\ state' = [state EXCEPT ![w] = "CREATED"]
        /\ handler'[t].work = w
        /\ \A u \in Threads \ {t} : handler'[u] = handler[u]
    BY <1>0, <1>7 DEF StartPlanned, StartWork, UpdateWorkState, definitions
  <2>2. plan.plan_id \in PlanIds
    BY <1>0 DEF Definitions!ExecutionPlan
  <2>3. plan_ref' \in [Works -> PlanIds \cup {"none"}]
    BY <2>1, <2>2 DEF Planned
  <2>4. \A v \in Works : state'[v] # "NONE" => \E p \in plans' : p.plan_id = plan_ref'[v]
    BY <1>0, <2>1 DEF Planned
  <2>5. ASSUME NEW u \in Threads, handler'[u] # Idle
        PROVE  state'[handler'[u].work] # "NONE"
    <3>1. CASE u = t
      BY <1>0, <2>1, <3>1
    <3>2. CASE u # t
      <4>1. handler[u].work \in Works /\ state[handler[u].work] # "NONE"
        BY <1>0, <2>1, <2>5, <3>2 DEF Planned, Deciding, Busy
      <4>2. QED
        BY <1>0, <2>1, <3>2, <4>1
    <3>3. QED
      BY <3>1, <3>2
  <2>6. QED
    BY <2>1, <2>3, <2>4, <2>5 DEF Planned
<1>8. ASSUME NEW t \in Threads,
             Evaluate(t) \/ \E subject \in Subjects : Inquire(t, subject)
      PROVE  Planned'
  BY <1>1, <1>8 DEF Evaluate, Inquire, Planned, definitions
<1>9. ASSUME NEW t \in Threads, Answer(t) \/ FailAssembly(t)
      PROVE  Planned'
  <2>1. UNCHANGED <<state, now, definitions, plan_ref>> /\ Decide(t)
    BY <1>9 DEF Answer, Answers, FailAssembly, Decide, DecideTransition, DecideTask,
       AssemblyRaises
  <2>2. /\ handler[t] # Idle /\ handler[t].work \in Works
    BY <1>0, <2>1, AtIsDeciding
    DEF Decide, DecideTransition, DecideTask, AssemblyRaises, At, Idle
  <2>3. /\ \A u \in Threads \ {t} : handler'[u] = handler[u]
        /\ handler'[t] # Idle => handler'[t].work = handler[t].work
    <3>1. CASE Finish(t)
      BY <1>0, <3>1, FinishKeepsType
    <3>2. ASSUME NEW s, NEW from, NEW r, Start(t, s, handler[t].work, from, r)
          PROVE  /\ \A u \in Threads \ {t} : handler'[u] = handler[u]
                 /\ handler'[t].work = handler[t].work
      BY <1>0, <3>2 DEF Start
    <3>3. QED
      BY <2>1, <3>1, <3>2 DEF Decide, DecideTransition, DecideTask, AssemblyRaises
  <2>4. QED
    BY <1>5, <2>1, <2>2, <2>3 DEF Planned
<1>10. ASSUME NEW t \in Threads, CommitNext(t)
       PROVE  Planned'
  <2>1. Commit(t) /\ UNCHANGED <<now, definitions, plan_ref>>
    BY <1>10 DEF CommitNext
  <2>2. /\ handler[t] \in Busy /\ handler[t] # Idle
        /\ \A u \in Threads \ {t} : handler'[u] = handler[u]
    BY <1>0, <2>1, CommitMoves DEF Busy, Step, Idle
  <2>3. handler[t].work \in Works /\ state[handler[t].work] # "NONE"
    BY <2>2 DEF Busy, Planned
  <2>4. QED
    BY <1>0, <1>5, <2>1, <2>2, <2>3, CommitKeepsWorks, GoesOn
<1>11. ASSUME NEW t \in Threads, Die(t)
       PROVE  Planned'
  BY <1>0, <1>5, <1>11, FinishKeepsType DEF Die, Crash
<1>12. QED
  BY <1>2, <1>3, <1>4, <1>6, <1>7, <1>8, <1>9, <1>10, <1>11 DEF GovernedNext

(***************************************************************************)
(* Type correctness of the composition for every set of rows, works and    *)
(* threads: beside the types, a work that exists has the plan it was       *)
(* started from, and every record of its trace has what it rests on        *)
(* (start_work).                                                           *)
(***************************************************************************)
THEOREM GovernedTypeCorrect == GovernedSpec => []GovernedTypeOK
<1>1. GovernedInit => Planned
  BY TimeAssumption DEF GovernedInit, Init, Planned
<1>2. Licensing /\ DefinitionsFit /\ Planned => GovernedTypeOK
  BY DEF Licensing, DefinitionsFit, Planned, GovernedTypeOK
<1>3. QED
  BY <1>1, <1>2, LicensingInit, LicensingStep, DefinitionsInit, DefinitionsStep,
     PlannedStep, PTL DEF GovernedSpec
=============================================================================
