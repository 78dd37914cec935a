-------------------------- MODULE CapabilityRuntime --------------------------
(***************************************************************************)
(* Capabilities say what can be done, Smart Boxes do it.  A connection     *)
(* plan joins an operation of one capability to an operation of another,   *)
(* on the evidence of a compatibility check; a wire runs a plan and an     *)
(* assembly a chain of plans.  The Write Box brings in what discovery does *)
(* not find: a candidate is audited and then promoted to a capability and  *)
(* a box.                                                                  *)
(*                                                                         *)
(* Rows are only added.  Planning, promotion and the run of an assembly    *)
(* are several commits; between two of them other requests commit, or the  *)
(* handler dies.                                                           *)
(***************************************************************************)
EXTENDS ConnectionRules, FiniteSets

CONSTANTS
  Threads,
  CapabilityRefs, Domains, OperationIds, BoxRefs, RuntimeTypes, Semantics,
  Constraints, ContractRefs, Needs, Fields, TransformRefs, AdapterRefs, AssemblyRefs,
  CandidateIds,
  \* What clients may post:
  CapabilityRows, BoxRows, TransformRows, AdapterRows, PlanRequests, Chains, Proposals,
  Inputs, Contexts,
  \* Bounds: no check begins with so much evidence, no plan with so many plans, and no
  \* wire or assembly with so many executions recorded.
  MaxEvidence, MaxPlans, MaxRuns

LifecycleState == {"ACTIVE", "OTHER"}

CapabilityOperation ==
  [operation_id: OperationIds,
   input_semantics: SUBSET Semantics, output_semantics: SUBSET Semantics,
   input_contract_refs: SUBSET ContractRefs, output_contract_refs: SUBSET ContractRefs,
   constraints: SUBSET Constraints, needs: SUBSET Needs]

CapabilityContract ==
  [capability_ref: CapabilityRefs, domain: Domains, operations: Seq(CapabilityOperation),
   lifecycle_state: LifecycleState]

\* "none" where a box does not bind the operation.
OperationBinding ==
  [handler_ref: {"none", "identity", "map-fields", "merge-constants", "unsupported"},
   takes: SUBSET Fields, gives: SUBSET Fields]

SmartBoxManifest ==
  [box_ref: BoxRefs, capability_ref: CapabilityRefs, runtime_type: RuntimeTypes,
   operation_bindings: [OperationIds -> OperationBinding],
   lifecycle_state: LifecycleState]

TransformDefinition ==
  [transform_ref: TransformRefs, from_contract_ref: ContractRefs,
   to_contract_ref: ContractRefs, takes: SUBSET Fields, gives: SUBSET Fields,
   lifecycle_state: LifecycleState]

AdapterDefinition ==
  [adapter_ref: AdapterRefs, source_runtime_type: RuntimeTypes,
   target_runtime_type: RuntimeTypes, capability_scope: SUBSET CapabilityRefs,
   lifecycle_state: LifecycleState]

ConnectionPlanRequest ==
  [from_capability: CapabilityRefs, from_operation: OperationIds,
   to_capability: CapabilityRefs, to_operation: OperationIds,
   from_box_ref: BoxRefs \cup {AnyBox}, to_box_ref: BoxRefs \cup {AnyBox},
   context: SUBSET Needs]

CompatibilityResult ==
  [compatible: BOOLEAN, transformation_refs: SUBSET TransformRefs,
   adapter_refs: SUBSET AdapterRefs]

\* Evidence and plans carry the request they answer; a reference to one stands for it.
CompatibilityEvidence == [request: PlanRequests, result: CompatibilityResult]

ConnectionPlan ==
  [evidence: CompatibilityEvidence,
   from_capability: CapabilityRefs, from_operation: OperationIds,
   to_capability: CapabilityRefs, to_operation: OperationIds,
   from_box_ref: BoxRefs, to_box_ref: BoxRefs,
   transformation_refs: SUBSET TransformRefs, adapter_refs: SUBSET AdapterRefs,
   needs: SUBSET Needs]

\* complete: specification, knowledge, rules, examples, owner and provenance are given.
WriteBoxProposal ==
  [candidate_id: CandidateIds, capability: CapabilityContract,
   smart_box: SmartBoxManifest, complete: BOOLEAN]

ASSUME RowsAssumption ==
  /\ CapabilityRows \subseteq CapabilityContract
  /\ BoxRows \subseteq SmartBoxManifest
  /\ TransformRows \subseteq TransformDefinition /\ AdapterRows \subseteq AdapterDefinition
  /\ PlanRequests \subseteq ConnectionPlanRequest
  /\ Proposals \subseteq WriteBoxProposal
  /\ \A c \in CapabilityRows \cup {p.capability : p \in Proposals} : c.operations # <<>>
  /\ Inputs \subseteq SUBSET Fields /\ Contexts \subseteq SUBSET Needs
  /\ Chains \subseteq Nat \ {0}
  /\ AnyBox \notin BoxRefs /\ BoxRefs \subseteq Nat /\ {MaxEvidence, MaxPlans, MaxRuns} \subseteq Nat

VARIABLES
  capabilities, boxes,         \* the capability registry
  transforms, adapters,        \* transform_version, adapter_version
  evidence, plans,             \* compatibility_evidence, connection_plan_version
  assemblies,                  \* assembly_version
  wires, runs,                 \* wire_execution_record, assembly_execution_record
  stage,                       \* [Proposals -> stage of its write_box_candidate]
  handler                      \* [Threads -> the request under way]

registry  == <<capabilities, boxes>>
bridges   == <<transforms, adapters>>
planned   == <<evidence, plans, assemblies>>
executed  == <<wires, runs>>
vars == <<registry, bridges, planned, executed, stage, handler>>

Idle == [pc |-> "idle"]

\* The evidence is committed, the plan is not.
Planning(e) == [pc |-> "plan", evidence |-> e]

\* The wires that have run, and what the last one gave.
Running(assembly, input, context, payload, results) ==
  [pc |-> "run", assembly |-> assembly, input |-> input, context |-> context,
   payload |-> payload, results |-> results]

\* The next commit of a promotion.
Promoting(pc, p) == [pc |-> pc, candidate |-> p]

AssemblyDefinition == [assembly_ref: AssemblyRefs, connection_plan_refs: Seq(plans)]

WireExecution ==
  [plan: plans, context: Contexts, input_payload: SUBSET Fields,
   output_payload: SUBSET Fields]

AssemblyExecution ==
  [assembly: assemblies, context: Contexts, input_payload: Inputs,
   final_payload: SUBSET Fields, connection_results: Seq(wires)]

Request ==
  {Idle} \cup {Planning(e) : e \in evidence}
  \cup {Promoting(pc, p) : pc \in {"box", "stage"}, p \in Proposals}
  \cup [pc: {"run"}, assembly: assemblies, input: Inputs, context: Contexts,
        payload: SUBSET Fields, results: Seq(wires)]

\* Type correctness: every reference is unique and every row a posted or computed one,
\* about rows that exist.
TypeOK ==
  /\ capabilities \subseteq CapabilityRows \cup {p.capability : p \in Proposals}
  /\ boxes \subseteq BoxRows \cup {p.smart_box : p \in Proposals}
  /\ \A c, d \in capabilities : c.capability_ref = d.capability_ref => c = d
  /\ \A b, c \in boxes : b.box_ref = c.box_ref => b = c
  /\ transforms \subseteq TransformRows /\ adapters \subseteq AdapterRows
  /\ \A t, u \in transforms : t.transform_ref = u.transform_ref => t = u
  /\ \A a, b \in adapters : a.adapter_ref = b.adapter_ref => a = b
  /\ evidence \subseteq CompatibilityEvidence
  /\ plans \subseteq ConnectionPlan
  /\ assemblies \subseteq AssemblyDefinition
  /\ \A a, b \in assemblies : a.assembly_ref = b.assembly_ref => a = b
  /\ wires \subseteq WireExecution /\ runs \subseteq AssemblyExecution
  /\ stage \in [Proposals -> {"NONE", "DRAFT", "VERIFIED", "PROMOTED"}]
  /\ DOMAIN handler = Threads /\ \A t \in Threads : handler[t] \in Request

Init ==
  /\ capabilities = {} /\ boxes = {} /\ transforms = {} /\ adapters = {}
  /\ evidence = {} /\ plans = {} /\ assemblies = {} /\ wires = {} /\ runs = {}
  /\ stage = [p \in Proposals |-> "NONE"]
  /\ handler = [t \in Threads |-> Idle]

Become(t, request) == handler' = [handler EXCEPT ![t] = request]

-----------------------------------------------------------------------------
\* The registries

NewCapability(c) == \A d \in capabilities : d.capability_ref # c.capability_ref

\* A box binds only what its capability declares.
BoxFits(b) ==
  \E c \in capabilities :
    /\ c.capability_ref = b.capability_ref /\ c.lifecycle_state = "ACTIVE"
    /\ Bound(b) \subseteq {o.operation_id : o \in Operations(c)}

NewBox(b) == \A c \in boxes : c.box_ref # b.box_ref

AddCapability(c) ==
  /\ NewCapability(c)
  /\ capabilities' = capabilities \cup {c}
  /\ UNCHANGED <<boxes, bridges, planned, executed, stage, handler>>

AddSmartBox(b) ==
  /\ BoxFits(b) /\ NewBox(b)
  /\ boxes' = boxes \cup {b}
  /\ UNCHANGED <<capabilities, bridges, planned, executed, stage, handler>>

AddTransform(t) ==
  /\ \A u \in transforms : u.transform_ref # t.transform_ref
  /\ transforms' = transforms \cup {t}
  /\ UNCHANGED <<registry, adapters, planned, executed, stage, handler>>

AddAdapter(a) ==
  /\ \A b \in adapters : b.adapter_ref # a.adapter_ref
  /\ adapters' = adapters \cup {a}
  /\ UNCHANGED <<registry, transforms, planned, executed, stage, handler>>

-----------------------------------------------------------------------------
\* plan_connection, and the check by itself

Found(req) ==
  {[request |-> req, result |-> found] :
     found \in Evaluations(capabilities, boxes, transforms, adapters, req)}

MayCheck == Cardinality(evidence) < MaxEvidence

MayPlan == MayCheck /\ Cardinality(plans) < MaxPlans

CheckCompatibility(req) ==
  /\ MayCheck
  /\ evidence' \in {evidence \cup {e} : e \in Found(req)}
  /\ UNCHANGED <<registry, bridges, plans, assemblies, executed, stage, handler>>

\* Mutant: the plan does not wait for a check that passes.
BeginUnproven(t, req) ==
  /\ handler[t] = Idle /\ MayPlan
  /\ \E e \in Found(req) : evidence' = evidence \cup {e} /\ Become(t, Planning(e))
  /\ UNCHANGED <<registry, bridges, plans, assemblies, executed, stage>>

\* The check commits its evidence and goes on to the plan if it passes; the evidence of
\* one that fails is that of CheckCompatibility.
BeginPlan(t, req) ==
  /\ handler[t] = Idle /\ MayPlan
  /\ \E e \in Found(req) :
       /\ e.result.compatible
       /\ evidence' = evidence \cup {e} /\ Become(t, Planning(e))
  /\ UNCHANGED <<registry, bridges, plans, assemblies, executed, stage>>

\* The plan for the operations and boxes there are when it is made.
PlanFor(e, ends, needs) ==
  [evidence |-> e,
   from_capability |-> e.request.from_capability, from_operation |-> e.request.from_operation,
   to_capability |-> e.request.to_capability, to_operation |-> e.request.to_operation,
   from_box_ref |-> ends.from.box_ref, to_box_ref |-> ends.to.box_ref,
   transformation_refs |-> e.result.transformation_refs,
   adapter_refs |-> e.result.adapter_refs, needs |-> needs]

\* Mutant: the gates of the plan are those of its source.
CommitSourcePlan(t, e) ==
  /\ handler[t] = Planning(e)
  /\ \E ends \in Ends(capabilities, boxes, e.request) :
       plans' = plans \cup {PlanFor(e, ends, ends.source.needs)}
  /\ Become(t, Idle)
  /\ UNCHANGED <<registry, bridges, evidence, assemblies, executed, stage>>

CommitPlan(t, e) ==
  /\ handler[t] = Planning(e)
  /\ \E ends \in Ends(capabilities, boxes, e.request) :
       plans' = plans \cup {PlanFor(e, ends, ends.target.needs)}
  /\ Become(t, Idle)
  /\ UNCHANGED <<registry, bridges, evidence, assemblies, executed, stage>>

AddAssembly(a) ==
  /\ \A b \in assemblies : b.assembly_ref # a.assembly_ref
  /\ assemblies' = assemblies \cup {a}
  /\ UNCHANGED <<registry, bridges, evidence, plans, executed, stage, handler>>

-----------------------------------------------------------------------------
\* execute_wire and execute_assembly

Outputs(plan, payload, context) ==
  WireOutput(boxes, transforms, adapters, plan, payload, context)

Execution(plan, context, input, output) ==
  [plan |-> plan, context |-> context, input_payload |-> input, output_payload |-> output]

ExecuteWire(plan, input, context) ==
  /\ Cardinality(wires) < MaxRuns
  /\ \E output \in Outputs(plan, input, context) :
       wires' = wires \cup {Execution(plan, context, input, output)}
  /\ UNCHANGED <<registry, bridges, planned, runs, stage, handler>>

\* The first box gives the payload of the first wire; nothing is committed yet.
BeginAssembly(t, a, input, context) ==
  /\ handler[t] = Idle /\ Cardinality(wires) < MaxRuns
  /\ LET first == a.connection_plan_refs[1]
     IN  \E payload \in BoxOutput(boxes, first.from_box_ref, first.from_operation, input) :
           Become(t, Running(a, input, context, payload, <<>>))
  /\ UNCHANGED <<registry, bridges, planned, executed, stage>>

\* The plan whose wire is next has to begin where the last one ended.
NextPlan(h) == h.assembly.connection_plan_refs[Len(h.results) + 1]

Composes(h) ==
  h.results # <<>> =>
    NextPlan(h).from_capability = h.results[Len(h.results)].plan.to_capability

WiresLeft(h) == Len(h.results) < Len(h.assembly.connection_plan_refs)

RunWire(t) ==
  LET h == handler[t]
  IN  /\ h.pc = "run" /\ WiresLeft(h) /\ Composes(h)
      /\ \E output \in Outputs(NextPlan(h), h.payload, h.context) :
           LET wire == Execution(NextPlan(h), h.context, h.payload, output)
           IN  /\ wires' = wires \cup {wire}
               /\ Become(t, Running(h.assembly, h.input, h.context, output,
                                    Append(h.results, wire)))
      /\ UNCHANGED <<registry, bridges, planned, runs, stage>>

\* The wires that have run keep their records.
FailWire(t) ==
  LET h == handler[t]
  IN  /\ h.pc = "run" /\ WiresLeft(h)
      /\ ~Composes(h) \/ Outputs(NextPlan(h), h.payload, h.context) = {}
      /\ Become(t, Idle)
      /\ UNCHANGED <<registry, bridges, planned, executed, stage>>

RunOf(h) ==
  [assembly |-> h.assembly, context |-> h.context, input_payload |-> h.input,
   final_payload |-> h.payload, connection_results |-> h.results]

\* Mutant: a run is recorded without its last wires.
RecordPartialRun(t) ==
  /\ handler[t].pc = "run" /\ handler[t].results # <<>>
  /\ runs' = runs \cup {RunOf(handler[t])}
  /\ Become(t, Idle)
  /\ UNCHANGED <<registry, bridges, planned, wires, stage>>

RecordRun(t) ==
  /\ handler[t].pc = "run" /\ ~WiresLeft(handler[t])
  /\ runs' = runs \cup {RunOf(handler[t])}
  /\ Become(t, Idle)
  /\ UNCHANGED <<registry, bridges, planned, wires, stage>>

-----------------------------------------------------------------------------
\* propose_write_box and promote_write_box_candidate

\* What discovery finds for the first operation of a proposed capability.
Discovered(c) ==
  LET wanted == c.operations[1]
  IN  {d \in capabilities :
         /\ d.lifecycle_state = "ACTIVE" /\ d.domain = c.domain
         /\ \E o \in Operations(d) :
              /\ o.operation_id = wanted.operation_id
              /\ wanted.input_semantics \subseteq o.input_semantics
              /\ wanted.output_semantics \subseteq o.output_semantics}

\* architecture_audit_proposal
AuditPassed(p) ==
  /\ p.complete
  /\ p.smart_box.capability_ref = p.capability.capability_ref
  /\ Bound(p.smart_box) \subseteq {o.operation_id : o \in Operations(p.capability)}

Propose(p) ==
  /\ stage[p] = "NONE"
  /\ stage' = [stage EXCEPT ![p] =
       IF Discovered(p.capability) = {} /\ AuditPassed(p) THEN "VERIFIED" ELSE "DRAFT"]
  /\ UNCHANGED <<registry, bridges, planned, executed, handler>>

\* Mutant: a capability that exists is taken to be the candidate's.
PromoteExisting(t, p) ==
  /\ handler[t] = Idle /\ stage[p] = "VERIFIED"
  /\ capabilities' =
       IF NewCapability(p.capability) THEN capabilities \cup {p.capability} ELSE capabilities
  /\ Become(t, Promoting("box", p))
  /\ UNCHANGED <<boxes, bridges, planned, executed, stage>>

\* A promotion that finds its capability registered ends with a conflict.
PromoteCapability(t, p) ==
  /\ handler[t] = Idle /\ stage[p] = "VERIFIED"
  /\ NewCapability(p.capability)
  /\ capabilities' = capabilities \cup {p.capability}
  /\ Become(t, Promoting("box", p))
  /\ UNCHANGED <<boxes, bridges, planned, executed, stage>>

PromoteBox(t, p) ==
  /\ handler[t] = Promoting("box", p)
  /\ BoxFits(p.smart_box) /\ NewBox(p.smart_box)
  /\ boxes' = boxes \cup {p.smart_box}
  /\ Become(t, Promoting("stage", p))
  /\ UNCHANGED <<capabilities, bridges, planned, executed, stage>>

\* The capability stays.
FailPromotion(t, p) ==
  /\ handler[t] = Promoting("box", p)
  /\ ~(BoxFits(p.smart_box) /\ NewBox(p.smart_box))
  /\ Become(t, Idle)
  /\ UNCHANGED <<registry, bridges, planned, executed, stage>>

\* The stage is not looked at again.
CommitStage(t, p) ==
  /\ handler[t] = Promoting("stage", p)
  /\ stage' = [stage EXCEPT ![p] = "PROMOTED"]
  /\ Become(t, Idle)
  /\ UNCHANGED <<registry, bridges, planned, executed>>

Crash(t) ==
  /\ handler[t] # Idle /\ Become(t, Idle)
  /\ UNCHANGED <<registry, bridges, planned, executed, stage>>

Promote(t, p) ==
  \/ PromoteCapability(t, p) \/ PromoteBox(t, p) \/ FailPromotion(t, p) \/ CommitStage(t, p)

Next ==
  \/ \E c \in CapabilityRows : AddCapability(c)
  \/ \E b \in BoxRows : AddSmartBox(b)
  \/ \E t \in TransformRows : AddTransform(t)
  \/ \E a \in AdapterRows : AddAdapter(a)
  \/ \E req \in PlanRequests : CheckCompatibility(req)
  \/ \E t \in Threads, req \in PlanRequests : BeginPlan(t, req)
  \/ \E t \in Threads, e \in evidence : CommitPlan(t, e)
  \/ \E ref \in AssemblyRefs, n \in Chains : \E chain \in [1..n -> plans] :
       AddAssembly([assembly_ref |-> ref, connection_plan_refs |-> chain])
  \/ \E plan \in plans, input \in Inputs, context \in Contexts :
       ExecuteWire(plan, input, context)
  \/ \E t \in Threads, a \in assemblies, input \in Inputs, context \in Contexts :
       BeginAssembly(t, a, input, context)
  \/ \E t \in Threads : RunWire(t) \/ FailWire(t) \/ RecordRun(t) \/ Crash(t)
  \/ \E p \in Proposals : Propose(p)
  \/ \E t \in Threads, p \in Proposals : Promote(t, p)

Spec == Init /\ [][Next]_vars

-----------------------------------------------------------------------------
\* The operations a plan joins, and the boxes it names.
JoinedBy(plan) ==
  Ends(capabilities, boxes,
    [from_capability |-> plan.from_capability, from_operation |-> plan.from_operation,
     to_capability |-> plan.to_capability, to_operation |-> plan.to_operation,
     from_box_ref |-> plan.from_box_ref, to_box_ref |-> plan.to_box_ref])

\* The request left no box to the planner.
NamesBoxes(req) == req.from_box_ref # AnyBox /\ req.to_box_ref # AnyBox

\* A connection is persisted only on evidence of a check that passed, and the check holds
\* of the operations it joins for as long as it exists: their semantics and their constraints
\* agree, and their contracts do or are bridged by its transforms; so are the runtimes of its boxes, if the
\* request named them (plan_connection reads the registry before its evidence commits and
\* again after).
PlansAreProven ==
  \A plan \in plans :
    /\ plan.evidence \in evidence /\ plan.evidence.result.compatible
    /\ \E e \in JoinedBy(plan) :
         /\ SemanticsAgree(e.source, e.target) /\ ConstraintsAgree(e.source, e.target)
         /\ \/ ContractsAgree(e.source, e.target)
            \/ \E t \in transforms :
                 t.transform_ref \in plan.transformation_refs /\ Transforms(t, e.source, e.target)
         /\ NamesBoxes(plan.evidence.request) =>
              \/ e.from.runtime_type = e.to.runtime_type
              \/ \E a \in adapters :
                   a.adapter_ref \in plan.adapter_refs /\ Adapts(a, e.from, e.to)

\* No wire ran in a context that does not give what the target operation needs, though the
\* wire reads it from the plan only (execute_wire).
WiresAreGated ==
  \A w \in wires :
    \A o \in OperationAt(capabilities, w.plan.to_capability, w.plan.to_operation) :
      o.needs \subseteq w.context

\* Wires replay: whatever is registered later, a plan that ran gives the same output for the
\* same payload and context (execute_wire does not choose a box).
WiresReplay ==
  \A w \in wires : Outputs(w.plan, w.input_payload, w.context) = {w.output_payload}

\* A run is recorded only with a wire record for each of its plans, in their order, each
\* fed with the output of the one before, although every wire commits by itself and other
\* runs come between (execute_assembly).
RunsAreWhole ==
  \A x \in runs :
    LET n == Len(x.connection_results)
        result(i) == x.connection_results[i]
    IN  /\ n = Len(x.assembly.connection_plan_refs)
        /\ result(n).output_payload = x.final_payload
        /\ \A i \in 1..n :
             /\ result(i) \in wires
             /\ result(i).plan = x.assembly.connection_plan_refs[i]
        /\ \A i \in 1..(n - 1) :
             /\ result(i + 1).input_payload = result(i).output_payload
             /\ result(i + 1).plan.from_capability = result(i).plan.to_capability

\* A promoted candidate has brought in its own capability and its own box, and no other
\* promoted candidate claims either, whatever is registered between its commits
\* (promote_write_box_candidate).
PromotionsStand ==
  \A p \in Proposals : stage[p] = "PROMOTED" =>
    /\ p.capability \in capabilities /\ p.smart_box \in boxes
    /\ \A q \in Proposals \ {p} : stage[q] = "PROMOTED" =>
         /\ q.capability.capability_ref # p.capability.capability_ref
         /\ q.smart_box.box_ref # p.smart_box.box_ref
=============================================================================
