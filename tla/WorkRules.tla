------------------------------ MODULE WorkRules ------------------------------
(***************************************************************************)
(* The decision rules of the governed work runtime: which state changes    *)
(* the transition table allows, what a human approval must carry, and      *)
(* which tasks may run.  Every operator is a pure function of the approved *)
(* work contract, the graph node, the request, and the verdict that the    *)
(* authority, policy and trust services return while the request runs.     *)
(*                                                                         *)
(* The code collects reason codes and refuses the request when there is    *)
(* one.  Here a rule is the conjunction of the conditions under which no   *)
(* reason code is produced; the codes themselves are not modelled.         *)
(***************************************************************************)
EXTENDS Naturals, Sequences

WorkState ==
  {"CREATED", "CONTEXT_READY", "IN_PROGRESS", "PROPOSAL_READY",
   "REVIEW_REQUIRED", "APPROVED", "REJECTED", "REVISION_REQUIRED",
   "ACTION_AUTHORIZED", "EXECUTING", "EXECUTED", "EVIDENCE_CAPTURED",
   "OUTCOME_OBSERVED", "CLOSED", "BLOCKED", "ESCALATED", "CANCELLED",
   "FAILED", "RECOVERING"}

\* The table _ALLOWED_TRANSITIONS: the states a request may name from each state.
AllowedTransitions ==
  [CREATED           |-> {"CONTEXT_READY", "BLOCKED", "CANCELLED"},
   CONTEXT_READY     |-> {"IN_PROGRESS", "BLOCKED", "CANCELLED"},
   IN_PROGRESS       |-> {"PROPOSAL_READY", "REVIEW_REQUIRED", "EXECUTED",
                          "EVIDENCE_CAPTURED", "BLOCKED", "FAILED"},
   PROPOSAL_READY    |-> {"REVIEW_REQUIRED", "REVISION_REQUIRED", "BLOCKED",
                          "CANCELLED"},
   REVIEW_REQUIRED   |-> {"APPROVED", "REJECTED", "REVISION_REQUIRED",
                          "BLOCKED", "CANCELLED"},
   APPROVED          |-> {"ACTION_AUTHORIZED", "EVIDENCE_CAPTURED", "CLOSED",
                          "BLOCKED"},
   REJECTED          |-> {"CLOSED", "REVISION_REQUIRED"},
   REVISION_REQUIRED |-> {"IN_PROGRESS", "CANCELLED"},
   ACTION_AUTHORIZED |-> {"EXECUTING", "BLOCKED", "CANCELLED"},
   EXECUTING         |-> {"EXECUTED", "BLOCKED", "FAILED"},
   EXECUTED          |-> {"EVIDENCE_CAPTURED", "BLOCKED"},
   EVIDENCE_CAPTURED |-> {"OUTCOME_OBSERVED", "CLOSED", "BLOCKED"},
   OUTCOME_OBSERVED  |-> {"CLOSED"},
   BLOCKED           |-> {"RECOVERING", "ESCALATED", "CANCELLED"},
   ESCALATED         |-> {"RECOVERING", "CANCELLED"},
   FAILED            |-> {"RECOVERING", "ESCALATED", "CANCELLED"},
   RECOVERING        |-> {"CONTEXT_READY", "IN_PROGRESS", "REVIEW_REQUIRED",
                          "CANCELLED"},
   CANCELLED         |-> {},
   CLOSED            |-> {}]

-----------------------------------------------------------------------------
\* Work contracts and graph nodes

ExecutionClass == {"E0", "E1", "E2", "E3"}

\* AutonomyLevel A0..A5 and the order _AUTONOMY_ORDER between them.
AutonomyLevel == 0 .. 5

\* A node's allowed_autonomy when the graph leaves it None.
Unset == 6

\* required_authority_action is abstracted to whether the point names one.
ApprovalPoint ==
  [human_required: BOOLEAN, required_authority_action: BOOLEAN,
   signature_required: BOOLEAN]

AgentAssignment(Actions) ==
  [autonomy_ceiling: AutonomyLevel, allowed_actions: SUBSET Actions,
   forbidden_actions: SUBSET Actions]

\* enforce_phase4_guardrails: what a contract must satisfy to be registered.
Guardrails(c) ==
  /\ c.execution_class = "E1" => c.allowed_autonomy \in {0, 1}
  /\ c.execution_class = "E3" =>
       /\ c.human_decision_point
       /\ \E i \in DOMAIN c.approval_points : c.approval_points[i].human_required

\* A registered contract, by the fields the runtime reads.
WorkContract(Agents, Actions, Capabilities) ==
  {c \in [execution_class: ExecutionClass, allowed_autonomy: AutonomyLevel,
          human_decision_point: BOOLEAN, approval_points: Seq(ApprovalPoint),
          evidence_requirements: Nat, capability_refs: SUBSET Capabilities,
          agent_assignments:
            UNION {[A -> AgentAssignment(Actions)] : A \in SUBSET Agents}] :
     Guardrails(c)}

NodeType ==
  {"HUMAN_TASK", "AGENT_TASK", "CAPABILITY_TASK", "POLICY_GATE", "DECISION",
   "APPROVAL_SIGNATURE", "TIMER", "EVENT_WAIT", "HANDOVER", "ESCALATION",
   "RECOVERY"}

\* capability_ref is "none" when the node names none.
WorkNode(Capabilities) ==
  [node_type: NodeType, allowed_autonomy: AutonomyLevel \cup {Unset},
   required_authority_action: BOOLEAN, capability_ref: Capabilities \cup {"none"}]

-----------------------------------------------------------------------------
\* What a request carries and what the trust services answer

ActorKind     == {"HUMAN", "AGENT", "SYSTEM"}
TaskActorKind == {"HUMAN", "AGENT", "CAPABILITY"}
Effect        == {"ALLOW", "DENY", "REQUIRE_REVIEW", "REQUIRE_SIGNATURE"}

\* A reference in a request.
Ref == {"none", "cited"}

\* What the services answer: evaluate_authority (allowed) and evaluate_policy (effect),
\* whether the references cited are among those they name, and what verification finds
\* out about the signature and the attestation.
Verdict ==
  [allowed: BOOLEAN, effect: Effect, authority_ref: BOOLEAN, policy_ref: BOOLEAN,
   signature_ref: {"unknown", "invalid", "other_work", "other_artifact", "valid"},
   attestation_ref: {"unknown", "invalid", "valid"}]

TransitionRequest ==
  [to_state: WorkState, actor_kind: ActorKind, evidence_refs: Nat,
   authority_ref: Ref, policy_ref: Ref, signature_ref: Ref]

\* signal: the timer_elapsed or event_received flag of the input payload.
TaskRequest(Nodes, Agents, Actions) ==
  [node: Nodes, actor: Agents, actor_kind: TaskActorKind, action: Actions,
   delegation_ref: Ref, attestation_ref: Ref, signal: BOOLEAN]

-----------------------------------------------------------------------------
\* Approval

HumanPoints(c) ==
  {i \in DOMAIN c.approval_points : c.approval_points[i].human_required}

\* _approval_point: only an approval has one, and only the first human point counts.
NeedsApproval(c, to) == to = "APPROVED" /\ HumanPoints(c) # {}

FirstHumanPoint(c) ==
  c.approval_points[CHOOSE i \in HumanPoints(c) : \A j \in HumanPoints(c) : i <= j]

SignatureRequired(p, verdict) ==
  \/ p.signature_required
  \/ p.required_authority_action /\ verdict.effect = "REQUIRE_SIGNATURE"

\* The signature is cited and found valid for this work and artifact.
Signed(req, verdict) == req.signature_ref = "cited" /\ verdict.signature_ref = "valid"

\* Mutant: an authorised human approves without citing authority and policy.
UncitedApprovalGranted(p, req, verdict) ==
  /\ req.actor_kind = "HUMAN"
  /\ p.required_authority_action => verdict.allowed /\ verdict.effect # "DENY"
  /\ SignatureRequired(p, verdict) => Signed(req, verdict)

ApprovalGranted(p, req, verdict) ==
  /\ req.actor_kind = "HUMAN"
  /\ p.required_authority_action =>
       /\ verdict.allowed
       /\ req.authority_ref = "cited" /\ verdict.authority_ref
       /\ verdict.effect # "DENY"
       /\ req.policy_ref = "cited" /\ verdict.policy_ref
  /\ SignatureRequired(p, verdict) => Signed(req, verdict)

\* The states whose request must bring the contract's mandatory evidence.
EvidenceGated == {"REVIEW_REQUIRED", "APPROVED", "ACTION_AUTHORIZED"}

\* Mutant: the transition table is not consulted.
UntabledTransitionAccepted(c, from, req, verdict) ==
  /\ req.to_state \in EvidenceGated =>
       req.evidence_refs >= c.evidence_requirements
  /\ NeedsApproval(c, req.to_state) =>
       ApprovalGranted(FirstHumanPoint(c), req, verdict)

\* transition_work: no reason code arises for request req on a work read in state from.
TransitionAccepted(c, from, req, verdict) ==
  /\ req.to_state \in AllowedTransitions[from]
  /\ req.to_state \in EvidenceGated =>
       req.evidence_refs >= c.evidence_requirements
  /\ NeedsApproval(c, req.to_state) =>
       ApprovalGranted(FirstHumanPoint(c), req, verdict)
  /\ c.execution_class = "E3" /\ req.to_state = "APPROVED" =>
       req.actor_kind = "HUMAN"

-----------------------------------------------------------------------------
\* Tasks

RequiredAutonomy(c, node) ==
  IF node.allowed_autonomy = Unset THEN c.allowed_autonomy ELSE node.allowed_autonomy

\* The states in which an E3 agent may run above A2.
PostDecision == {"APPROVED", "ACTION_AUTHORIZED", "EXECUTING", "EXECUTED"}

WithinAssignment(c, node, state, req) ==
  LET assignment == c.agent_assignments[req.actor]
      required   == RequiredAutonomy(c, node)
  IN  /\ req.actor \in DOMAIN c.agent_assignments
      /\ req.action \notin assignment.forbidden_actions
      /\ assignment.allowed_actions # {} => req.action \in assignment.allowed_actions
      /\ required <= assignment.autonomy_ceiling
      /\ required <= c.allowed_autonomy
      /\ c.execution_class = "E3" /\ state \notin PostDecision => required <= 2

AgentTaskAccepted(c, node, state, req, verdict) ==
  /\ req.actor_kind = "AGENT"
  /\ WithinAssignment(c, node, state, req)
  /\ node.required_authority_action =>
       /\ req.delegation_ref = "cited" /\ req.attestation_ref = "cited"
       /\ verdict.attestation_ref = "valid"

\* execute_task: no reason code arises for req on node, for a work read in state state.
TaskAccepted(c, node, state, req, verdict) ==
  CASE node.node_type = "AGENT_TASK"      -> AgentTaskAccepted(c, node, state, req, verdict)
    [] node.node_type = "HUMAN_TASK"      -> req.actor_kind = "HUMAN"
    [] node.node_type = "CAPABILITY_TASK" -> node.capability_ref \in c.capability_refs
    [] node.node_type \in {"TIMER", "EVENT_WAIT"} -> req.signal
    [] node.node_type = "POLICY_GATE"     -> verdict.allowed /\ verdict.effect # "DENY"
    [] OTHER                              -> TRUE
=============================================================================
