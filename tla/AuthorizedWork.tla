---------------------------- MODULE AuthorizedWork ----------------------------
(***************************************************************************)
(* The work runtime together with what it asks and what it runs on: the    *)
(* tables of the authority kernel, the policies, and the definitions that  *)
(* a work is planned from.  They share one database, in which clients post *)
(* rows while requests are served.                                         *)
(*                                                                         *)
(* In WorkRuntime the services answer anything.  Here their answer is      *)
(* evaluate_authority's and evaluate_policy's, read query by query, each   *)
(* at the server's time when it begins, from tables that change meanwhile; *)
(* the request commits what it decided later still.                        *)
(***************************************************************************)
EXTENDS WorkRuntime

CONSTANTS
  Subjects, Authorities, DelegationIds, Resources, Contexts, Competences,
  CompetenceRows, GrantRows, DelegationRows, RevocationRows, PolicyRows, MaxPolicies,
  WorkTypes, GraphRefs, PlanIds, RiskClasses, Planners,
  ContractRows, GraphRows, PlanRequests,
  SubjectType,   \* _identity_type of each subject: its identity's type, or HUMAN
  ApprovalOf,    \* the action and resource that each work's human approval asks for
  GateOf,        \* the action and resource of each node that names a required action
  ContextOf,     \* each work's work_type_ref as a context
  MaxTime        \* bound: how far the server's clock goes

Inquired == [action: Actions, resource: Resources \cup {"none"}]

ASSUME InquiriesAssumption ==
  /\ SubjectType \in [Subjects -> {"HUMAN", "AGENT"}]
  /\ ApprovalOf \in [Works -> Inquired]
  /\ GateOf \in [Nodes -> Inquired]
  /\ ContextOf \in [Works -> Contexts]

ASSUME TimeAssumption == MaxTime \in Nat

VARIABLES
  now,         \* the server's clock
  competences, grants, delegations, revocations, policies,  \* the kernel's tables
  evaluation,  \* what each handler's evaluation has read
  capabilities, contracts, graphs, plans, planner,          \* the definitions
  plan_ref,    \* the plan of each work
  \* History, read by properties only: when each handler's request was received, with the
  \* revocations there were, and for each record of a trace what it rests on.
  received, licences

kernelTables == <<competences, grants, delegations, revocations, policies>>
definitions  == <<capabilities, contracts, graphs, plans, planner>>
governedVars ==
  <<vars, now, kernelTables, evaluation, definitions, plan_ref, received, licences>>

NotReceived == [at |-> 0, revocations |-> {}]

\* What a handler may ask of the authority kernel.
Inquiry ==
  [subject_ref: Subjects, subject_type: {"HUMAN", "AGENT"}, action: Actions,
   resource: Resources \cup {"none"}, context: Contexts \cup {"none"}, at: Nat,
   competence_refs: SUBSET Competences]

Kernel == INSTANCE AuthorityKernel WITH gate <- evaluation, Requests <- Inquiry

Definitions == INSTANCE WorkDefinitions

ASSUME KernelRowsAssumption ==
  /\ CompetenceRows \subseteq Kernel!CompetenceAssertion
  /\ GrantRows \subseteq Kernel!AuthorityGrant
  /\ DelegationRows \subseteq Kernel!DelegationGrant
  /\ RevocationRows \subseteq Kernel!DelegationRevocation
  /\ PolicyRows \subseteq Kernel!PolicyVersion

ASSUME DefinitionsAssumption == Definitions!RowsAreWellFormed

-----------------------------------------------------------------------------
\* What a handler asks

\* The node of the task that thread t decides.
TaskNode(t) == Node[handler[t].request.node]

\* transition_work asks about an approval whose point names an action, whatever else is
\* wrong with the request; execute_task asks at a policy gate.
Inquires(t) ==
  \/ /\ At(t, "decide_transition")
     /\ NeedsApproval(ContractOf[handler[t].work], handler[t].request.to_state)
     /\ FirstHumanPoint(ContractOf[handler[t].work]).required_authority_action
  \/ At(t, "decide_task") /\ TaskNode(t).node_type = "POLICY_GATE"

\* The action of a gate is its node's, or the request's when the node names none.
Asked(t) ==
  IF At(t, "decide_transition") THEN ApprovalOf[handler[t].work]
  ELSE IF TaskNode(t).required_authority_action THEN GateOf[handler[t].request.node]
  ELSE [GateOf[handler[t].request.node] EXCEPT !.action = handler[t].request.action]

InquiryOf(t, subject) ==
  [subject_ref |-> subject, subject_type |-> SubjectType[subject],
   action |-> Asked(t).action, resource |-> Asked(t).resource,
   context |-> ContextOf[handler[t].work], at |-> now, competence_refs |-> {}]

\* Mutant: of the evaluation only the policies' effect is looked at.
AnswersOfPolicies(t) ==
  {verdict \in Verdicts : Inquires(t) => verdict.effect = evaluation[t].effect}

\* What the services may answer thread t: whatever they like about the references and
\* the signature, and what the evaluation found, when there was one.  A cited authority
\* is among the evaluation's only if it found one.
Answers(t) ==
  {verdict \in Verdicts : Inquires(t) =>
     /\ verdict.allowed = Kernel!Authorized(evaluation[t])
     /\ verdict.effect = evaluation[t].effect
     /\ verdict.authority_ref => Kernel!Authorized(evaluation[t])}

-----------------------------------------------------------------------------
GovernedInit ==
  /\ Init
  /\ now = 1
  /\ Kernel!Init
  /\ Definitions!Init
  /\ plan_ref = [w \in Works |-> "none"]
  /\ received = [t \in Threads |-> NotReceived]
  /\ licences = [w \in Works |-> <<>>]

Tick ==
  /\ now < MaxTime
  /\ now' = now + 1
  /\ UNCHANGED <<vars, kernelTables, evaluation, definitions, plan_ref, received, licences>>

\* A client posts a row of the authority kernel.
Post ==
  /\ Kernel!Add
  /\ UNCHANGED <<vars, now, definitions, plan_ref, received, licences>>

\* A definition is added, or a planning request goes on.
Define ==
  /\ Definitions!Next
  /\ UNCHANGED <<vars, now, kernelTables, evaluation, plan_ref, received, licences>>

\* Mutant: the work does not keep which plan it was started from.
StartUnlinked(t, w, plan) ==
  /\ plan \in plans
  /\ StartWork(t, w)
  /\ UNCHANGED <<now, kernelTables, evaluation, definitions, plan_ref, received, licences>>

\* start_work: from a plan that exists, under that plan's contract.
StartPlanned(t, w, plan) ==
  /\ plan \in plans
  /\ \E c \in contracts :
       c.work_type_ref = plan.work_type_ref /\ c.contract = ContractOf[w]
  /\ StartWork(t, w)
  /\ plan_ref' = [plan_ref EXCEPT ![w] = plan.plan_id]
  /\ UNCHANGED <<now, kernelTables, evaluation, definitions, received, licences>>

\* The nodes of the graph that work w was planned on.
NodesOf(w) ==
  UNION {graphs[i].nodes : i \in {j \in DOMAIN graphs :
    \E plan \in plans :
      plan.plan_id = plan_ref[w] /\ plan.work_graph_ref = graphs[j].graph_ref}}

\* A request for a work reaches thread t; a task at a node its graph lacks is an error.
Receive(t, w) ==
  /\ \/ \E req \in TransitionRequests : ReceiveTransition(t, w, req)
     \/ \E req \in TaskRequests : req.node \in NodesOf(w) /\ ReceiveTask(t, w, req)
     \/ RequestHandover(t, w)
  /\ received' = [received EXCEPT ![t] = [at |-> now, revocations |-> revocations]]
  /\ UNCHANGED <<now, kernelTables, evaluation, definitions, plan_ref, licences>>

\* evaluate_authority is called, for the actor that the request names.
Inquire(t, subject) ==
  /\ Inquires(t)
  /\ Kernel!BeginGate(t, InquiryOf(t, subject))
  /\ UNCHANGED <<vars, now, definitions, plan_ref, received, licences>>

\* Its last steps: the delegations that are live are validated, and evaluate_policy
\* reads the policies, at the time by then.
ReadPolicies(t) ==
  LET e == evaluation[t]
  IN  /\ Kernel!At(t, "read_revocations") /\ e.pending = {}
      /\ evaluation' = [evaluation EXCEPT
           ![t].step = "answered",
           ![t].matched =
             {d \in e.live : Kernel!Delegates(grants, d, e.request, e.competent)},
           ![t].effect = Kernel!PolicyEffect(policies, [e.request EXCEPT !.at = now])]
      /\ UNCHANGED kernelTables

\* The next query of an evaluation.
Evaluate(t) ==
  /\ \/ Kernel!ReadGrants(t)
     \/ Kernel!ReadDelegations(t)
     \/ \E d \in DelegationRows : Kernel!ReadRevocations(t, d)
     \/ ReadPolicies(t)
  /\ UNCHANGED <<vars, now, definitions, plan_ref, received, licences>>

\* The handler decides, by the evaluation when the request needs one.
Answer(t) ==
  /\ Inquires(t) => evaluation[t].step = "answered"
  /\ \E verdict \in Answers(t) : DecideTransition(t, verdict) \/ DecideTask(t, verdict)
  /\ UNCHANGED <<now, kernelTables, evaluation, definitions, plan_ref, received, licences>>

FailAssembly(t) ==
  /\ AssemblyRaises(t)
  /\ UNCHANGED <<now, kernelTables, evaluation, definitions, plan_ref, received, licences>>

\* Mutant: a later request of the thread is answered by the evaluation of an earlier one.
KeepEvaluation(t) == UNCHANGED evaluation

\* The evaluation ends with the handler.
ReleaseEvaluation(t) ==
  evaluation' =
    IF handler'[t] = Idle THEN [evaluation EXCEPT ![t] = Kernel!Idle] ELSE evaluation

\* The handler's next commit; a record it appends rests on its evaluation.
CommitNext(t) ==
  /\ Commit(t)
  /\ ReleaseEvaluation(t)
  /\ licences' = [w \in Works |->
       IF trace'[w] = trace[w] THEN licences[w]
       ELSE Append(licences[w], [evaluation |-> evaluation[t], received |-> received[t]])]
  /\ UNCHANGED <<now, kernelTables, definitions, plan_ref, received>>

Die(t) ==
  /\ Crash(t)
  /\ ReleaseEvaluation(t)
  /\ UNCHANGED <<now, kernelTables, definitions, plan_ref, received, licences>>

GovernedNext ==
  \/ Tick \/ Post \/ Define
  \/ \E t \in Threads :
       \/ \E w \in Works :
            Receive(t, w) \/ \E plan \in plans : StartPlanned(t, w, plan)
       \/ \E subject \in Subjects : Inquire(t, subject)
       \/ Evaluate(t) \/ Answer(t) \/ FailAssembly(t) \/ CommitNext(t) \/ Die(t)

GovernedSpec == GovernedInit /\ [][GovernedNext]_governedVars

-----------------------------------------------------------------------------
Received == [at: Nat, revocations: SUBSET RevocationRows]

Licence == [evaluation: {Kernel!Idle} \cup Kernel!Serving, received: Received]

GovernedTypeOK ==
  /\ now \in 1 .. MaxTime + 1
  /\ Kernel!TypeOK
  /\ Definitions!TypeOK
  /\ plan_ref \in [Works -> PlanIds \cup {"none"}]
  /\ \A w \in Works : state[w] # "NONE" => \E plan \in plans : plan.plan_id = plan_ref[w]
  /\ received \in [Threads -> Received]
  /\ licences \in [Works -> Seq(Licence)]
  /\ \A w \in Works : Len(licences[w]) = Len(trace[w])

\* Evaluation e of a request received as r rests on authority as the kernel's tables hold
\* it, for the action asked and in force at a time since the request: the subject's own
\* grant, or a delegation not revoked by then, from a grant that its delegator holds.
Grounded(e, r) ==
  LET Holds(g, subject) ==
        /\ g \in grants /\ g.subject_ref = subject
        /\ g.authority_type = e.request.action
        /\ Kernel!ActivePeriod(g, e.request.at)
  IN  /\ r.at <= e.request.at
      /\ Kernel!Authorized(e)
      /\ \A g \in e.standing : Holds(g, e.request.subject_ref)
      /\ \A d \in e.matched :
           /\ d \in delegations /\ d.delegatee_ref = e.request.subject_ref
           /\ ~Kernel!Revoked(r.revocations, d, e.request.at)
           /\ \E g \in grants : g.authority_id = d.authority_ref /\ Holds(g, d.delegator_ref)

\* The contract of work w asks an authority for an approval.
AsksAuthority(w) ==
  HumanPoints(ContractOf[w]) # {} /\ FirstHumanPoint(ContractOf[w]).required_authority_action

\* Record i of w's trace rests on an evaluation of its own request: for the work's action,
\* resource and context, not denied, and grounded.
RestsOnLicence(w, i) ==
  LET e == licences[w][i].evaluation
  IN  /\ e # Kernel!Idle
      /\ e.request.action = ApprovalOf[w].action
      /\ e.request.resource = ApprovalOf[w].resource
      /\ e.request.context = ContextOf[w]
      /\ e.effect # "DENY"
      /\ Grounded(e, licences[w][i].received)

(***************************************************************************)
(* Every approval on record rests on an evaluation of its own request: for *)
(* the work's action and resource, not denied, and grounded in grants and  *)
(* delegations of the kernel, none of them revoked when the request was    *)
(* received.  It must hold although the evaluation reads its tables one    *)
(* after the other while rows are posted and delegations revoked, and the  *)
(* approval is committed later.                                            *)
(***************************************************************************)
ApprovalsAreLicensed ==
  \A w \in Works : AsksAuthority(w) =>
    \A i \in DOMAIN trace[w] :
      IsApplied(trace[w][i]) /\ trace[w][i].to_state = "APPROVED" => RestsOnLicence(w, i)

(***************************************************************************)
(* From the tables of the kernel to the work: where the contract asks an   *)
(* authority, a work is decided, authorised or executing only if its trace *)
(* holds a complete approval by a human that rests on such an evaluation.  *)
(* No request that is answered by another's evaluation, no state that was  *)
(* written before a handler died, and no stale read leads around it        *)
(* (transition_work, evaluate_authority).                                  *)
(***************************************************************************)
ActionsAreLicensed ==
  \A w \in Works : AsksAuthority(w) /\ state[w] \in ActionState =>
    \E i \in DOMAIN trace[w] :
      WellApproved(ContractOf[w], trace[w][i]) /\ RestsOnLicence(w, i)

PlansRestOnDefinitions == Definitions!PlansRestOnDefinitions
=============================================================================
