--------------------------- MODULE MCAuthorizedWork ---------------------------
(***************************************************************************)
(* Constants of AuthorizedWork for TLC: a work whose approval a professor, *)
(* or an agent on the professor's delegation, may give.                    *)
(***************************************************************************)
EXTENDS AuthorizedWork, TLC

In(resource) == [resource |-> resource, context |-> "none"]

GrantTable ==
  {[authority_id |-> "a1", subject_ref |-> "prof", authority_type |-> "approve",
    scope |-> In("r1"), competence_requirements |-> {}, delegation_allowed |-> TRUE,
    lifecycle_state |-> "ACTIVE", effective_from |-> 1, effective_to |-> 3]}

DelegationTable ==
  {[delegation_id |-> "d1", delegator_ref |-> "prof", delegatee_ref |-> "agent",
    authority_ref |-> "a1", delegated_scope |-> In("r1"), lifecycle_state |-> "ACTIVE",
    valid_from |-> 1, valid_until |-> 3]}

RevocationTable == {[delegation_id |-> "d1", effective_time |-> 2]}

Version(effect, from) ==
  [scope |-> [resource |-> "r1", action |-> "approve", context |-> "none"],
   effects |-> <<[effect |-> effect, require |-> "none"]>>,
   lifecycle_state |-> "ACTIVE", effective_from |-> from, effective_to |-> 0]

PolicyTable == {Version("ALLOW", 1), Version("DENY", 2)}

-----------------------------------------------------------------------------
\* One contract that needs a capability, with two active graphs and a retired one.

TheContract ==
  [execution_class |-> "E2", allowed_autonomy |-> 2, human_decision_point |-> TRUE,
   approval_points |->
     <<[human_required |-> TRUE, required_authority_action |-> TRUE,
        signature_required |-> FALSE]>>,
   evidence_requirements |-> 0, capability_refs |-> {"lookup"},
   agent_assignments |-> << >>]

MCContractOf == [w \in Works |-> TheContract]

ContractTable ==
  {[work_type_ref |-> "review", contract |-> TheContract, risk_class |-> "high",
    lifecycle_state |-> state_] : state_ \in {"ACTIVE", "OTHER"}}

Graph(ref, nodes, lifecycle) ==
  [graph_ref |-> ref, work_type_ref |-> "review", entry_node |-> "gate", nodes |-> nodes,
   next_nodes |-> [n \in Nodes |-> nodes], lifecycle_state |-> lifecycle]

GraphTable ==
  {Graph("g1", {"gate"}, "ACTIVE"), Graph("g2", {"gate", "find"}, "ACTIVE"),
   Graph("g3", {"gate"}, "OTHER")}

Planned(requested) ==
  [work_type_ref |-> "review", risk_class |-> "high",
   requested_capability_refs |-> requested]

PlanTable ==
  {Planned({}), Planned({"lookup"}), [Planned({}) EXCEPT !.risk_class = "low"]}

-----------------------------------------------------------------------------
MCNode ==
  [n \in Nodes |->
    IF n = "gate"
    THEN [node_type |-> "POLICY_GATE", allowed_autonomy |-> Unset,
          required_authority_action |-> TRUE, capability_ref |-> "none"]
    ELSE [node_type |-> "CAPABILITY_TASK", allowed_autonomy |-> Unset,
          required_authority_action |-> FALSE, capability_ref |-> "lookup"]]

To(s, kind, ref) ==
  [to_state |-> s, actor_kind |-> kind, evidence_refs |-> 0,
   authority_ref |-> ref, policy_ref |-> ref, signature_ref |-> "none"]

TheTransitions ==
  {To(s, "SYSTEM", "none") : s \in {"CONTEXT_READY", "IN_PROGRESS", "REVIEW_REQUIRED"}}
  \cup {To("APPROVED", "HUMAN", "cited")}

TheTasks ==
  {[node |-> n, actor |-> "agent", actor_kind |-> "AGENT", action |-> "approve",
    delegation_ref |-> "none", attestation_ref |-> "none", signal |-> FALSE] :
     n \in Nodes}

TheVerdicts ==
  {[allowed |-> a, effect |-> e, authority_ref |-> a, policy_ref |-> TRUE,
    signature_ref |-> "valid", attestation_ref |-> "valid"] :
      a \in BOOLEAN, e \in Effect}

MCSubjectType == [s \in Subjects |-> IF s = "agent" THEN "AGENT" ELSE "HUMAN"]
MCApprovalOf  == [w \in Works |-> [action |-> "approve", resource |-> "r1"]]
MCGateOf      == [n \in Nodes |-> [action |-> "approve", resource |-> "none"]]
MCContextOf   == [w \in Works |-> "review"]

\* The definitions are posted and planned first, in every order.  The work then runs on
\* one outcome of that and is brought to its review.  From there on everything may happen
\* at any time: rows are posted, time passes, tasks run, the approval is asked for.
Phased ==
  /\ (\E w \in Works : state[w] # "NONE") =>
       /\ [i \in DOMAIN graphs |-> graphs[i].graph_ref] = <<"g1", "g2">>
       /\ planner = [p \in Planners |-> Definitions!NotPlanning]
       /\ {<<plan.work_graph_ref, plan.since>> : plan \in plans} = {<<"g2", 2>>}
  /\ (\E w \in Works : Len(trace[w]) < 3) =>
       /\ now = 1 /\ kernelTables = <<{}, {}, {}, {}, <<>>>>
       /\ crashes = 0
       /\ \A w \in Works : \A i \in DOMAIN trace[w] : IsApplied(trace[w][i])
=============================================================================
