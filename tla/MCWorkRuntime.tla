---------------------------- MODULE MCWorkRuntime ----------------------------
(***************************************************************************)
(* Constants of WorkRuntime for TLC: a contract, a small graph and the      *)
(* requests the clients send.                                              *)
(***************************************************************************)
EXTENDS WorkReplay, TLC

\* An E3 contract as the ARU-01 pilot registers it, with ceiling A3.
E3Contract ==
  [execution_class |-> "E3", allowed_autonomy |-> 3, human_decision_point |-> TRUE,
   approval_points |->
     <<[human_required |-> FALSE, required_authority_action |-> FALSE,
        signature_required |-> FALSE],
       [human_required |-> TRUE, required_authority_action |-> TRUE,
        signature_required |-> TRUE]>>,
   evidence_requirements |-> 1, capability_refs |-> {"lookup"},
   agent_assignments |->
     ("agent" :> [autonomy_ceiling |-> 3, allowed_actions |-> {},
                  forbidden_actions |-> {}])]

MCContractOf == [w \in Works |-> E3Contract]

MCNode ==
  [n \in Nodes |->
    IF n = "draft"
    THEN [node_type |-> "AGENT_TASK", allowed_autonomy |-> Unset,
          required_authority_action |-> FALSE, capability_ref |-> "none"]
    ELSE [node_type |-> "CAPABILITY_TASK", allowed_autonomy |-> Unset,
          required_authority_action |-> FALSE, capability_ref |-> "lookup"]]

To(s, kind, ref, signature) ==
  [to_state |-> s, actor_kind |-> kind, evidence_refs |-> 1,
   authority_ref |-> ref, policy_ref |-> ref, signature_ref |-> signature]

Agent(s)      == To(s, "AGENT", "none", "none")
Approval(ref) == To("APPROVED", "HUMAN", ref, "cited")

\* The way to the authorised action, with one approval that is complete, one that
\* is signed but cites no authority and policy, and one by an agent.
ApprovalPath ==
  {Agent(s) : s \in {"CONTEXT_READY", "IN_PROGRESS", "REVIEW_REQUIRED", "APPROVED",
                     "ACTION_AUTHORIZED"}}
  \cup {Approval("cited"), Approval("none")}

EveryTransition ==
  {Agent(s) : s \in WorkState} \cup ApprovalPath
  \cup {[Agent("REVIEW_REQUIRED") EXCEPT !.evidence_refs = 0],
        [Approval("cited") EXCEPT !.signature_ref = "none"]}

\* An agent's task, one at the same node claimed by a human, which is refused, and a task
\* of a capability.
TaskBy(node, kind) ==
  [node |-> node, actor |-> "agent", actor_kind |-> kind, action |-> "act",
   delegation_ref |-> "none", attestation_ref |-> "none", signal |-> FALSE]

MixedTasks == {TaskBy("draft", "AGENT"), TaskBy("draft", "HUMAN")}
EveryTask  == {TaskBy(n, "CAPABILITY") : n \in Nodes} \cup MixedTasks
NoTasks    == {}

Confirmed(allowed, effect) ==
  [allowed |-> allowed, effect |-> effect, authority_ref |-> TRUE, policy_ref |-> TRUE,
   signature_ref |-> "valid", attestation_ref |-> "valid"]

Allowing == {Confirmed(TRUE, "ALLOW")}

\* Every answer to the question, and each reference that is not confirmed.
AnyVerdict ==
  {Confirmed(allowed, effect) : allowed \in BOOLEAN, effect \in Effect}
  \cup {[Confirmed(TRUE, "ALLOW") EXCEPT !.authority_ref = FALSE],
        [Confirmed(TRUE, "ALLOW") EXCEPT !.policy_ref = FALSE],
        [Confirmed(TRUE, "ALLOW") EXCEPT !.signature_ref = "other_work"]}

ThreadSymmetry == Permutations(Threads)
=============================================================================
