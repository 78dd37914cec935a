----------------------------- MODULE WorkRuntime -----------------------------
(***************************************************************************)
(* The governed work runtime as the API server runs it.  Request handlers  *)
(* run in a thread pool, each in a database session of its own, and every  *)
(* repository call commits by itself.  So a handler is a sequence of       *)
(* commits: it reads the work, decides once, and then writes the trace     *)
(* record, the work's state and the audit event in separate transactions,  *)
(* between which other handlers may run and the process may die.           *)
(*                                                                         *)
(* One action is one commit.  Before its first commit a handler reads the  *)
(* work, asks the authority, policy and trust services and decides; what   *)
(* it read stays in handler[t] and may be stale when it is used.           *)
(***************************************************************************)
EXTENDS WorkRules, FiniteSets

CONSTANTS
  Works,              \* the work instances that may be created
  Threads,            \* the threads that run request handlers
  Nodes,              \* node ids of the work graph
  Agents,             \* the actors that tasks name
  Actions,            \* the actions that tasks name
  Capabilities,       \* capability refs
  ContractOf,         \* the contract of each work, fixed by its plan
  Node,               \* the graph node behind each node id
  TransitionRequests, \* the transition requests the clients send
  TaskRequests,       \* the task requests the clients send
  Verdicts,           \* what the authority and policy services may answer
  MaxTrace,           \* bound: a work with this many records gets no new request
  MaxCrashes          \* bound: how many handlers die midway

ASSUME ContractsAssumption ==
  /\ ContractOf \in [Works -> WorkContract(Agents, Actions, Capabilities)]
  /\ Node \in [Nodes -> WorkNode(Capabilities)]
  /\ "none" \notin Capabilities

ASSUME RequestsAssumption ==
  /\ TransitionRequests \subseteq TransitionRequest
  /\ TaskRequests \subseteq TaskRequest(Nodes, Agents, Actions)
  /\ Verdicts \subseteq Verdict

ASSUME BoundsAssumption == MaxTrace \in Nat /\ MaxCrashes \in Nat

VARIABLES
  state,    \* work_instances.state of each work, "NONE" before it is created
  trace,    \* the records of the three trace tables, in the order of their commits
  audits,   \* how many audit events of each type each work has
  handler,  \* the request each thread is in the middle of
  crashes   \* how many handlers have died midway

vars == <<state, trace, audits, handler, crashes>>

-----------------------------------------------------------------------------
\* Records and handlers

\* A recorded reference, with what the service found about it.
RecordedRef == {"none", "cited", "valid"}

\* refused: reason_codes is not empty, that is, the record was written by a refusal.
TransitionRecord ==
  [event: {"TRANSITION"}, actor_kind: ActorKind, from_state: WorkState,
   to_state: WorkState, authority_ref: RecordedRef, policy_ref: RecordedRef,
   signature_ref: RecordedRef, refused: BOOLEAN]

TaskRecord ==
  [event: {"TASK"}, node: Nodes, actor_kind: TaskActorKind,
   status: {"SUCCEEDED", "HANDOVER_REQUIRED"}]

HandoverRecord == [event: {"HANDOVER"}, from_state: WorkState]

TraceRecord == TransitionRecord \cup TaskRecord \cup HandoverRecord

AuditType ==
  {"WORK_CREATED", "WORK_TRANSITION", "WORK_HANDOVER_REQUIRED", "WORK_TASK",
   "WORK_HANDOVER"}

\* The commit a handler performs next.
Step ==
  {"audit_created",
   "record_transition", "write_state", "audit_transition",
   "record_block", "write_blocked", "record_block_handover", "audit_block",
   "record_task", "audit_task",
   "record_handover", "write_handed_over", "audit_handover"}

Idle == [step |-> "idle"]

\* A handler that has read the work in a state and waits for the services' answers.
Deciding ==
  [step: {"decide_transition"}, work: Works, read: WorkState, request: TransitionRequests]
  \cup [step: {"decide_task"}, work: Works, read: WorkState, request: TaskRequests]

\* read: the state the handler read first.  record: what it will append to the trace.
Busy == [step: Step, work: Works, read: WorkState, record: TraceRecord]

Found(ref, confirmed) ==
  IF ref = "none" THEN "none" ELSE IF confirmed THEN "valid" ELSE "cited"

AppliedTransition(from, req, verdict) ==
  [event |-> "TRANSITION", actor_kind |-> req.actor_kind, from_state |-> from,
   to_state |-> req.to_state,
   authority_ref |-> Found(req.authority_ref, verdict.authority_ref),
   policy_ref |-> Found(req.policy_ref, verdict.policy_ref),
   signature_ref |-> Found(req.signature_ref, verdict.signature_ref = "valid"),
   refused |-> FALSE]

\* Mutant: the status of the answer is recorded in place of the state.
StatusTransition(from) ==
  [event |-> "TRANSITION", actor_kind |-> "SYSTEM", from_state |-> from,
   to_state |-> "HANDOVER_REQUIRED", authority_ref |-> "none", policy_ref |-> "none",
   signature_ref |-> "none", refused |-> TRUE]

\* The transition record of _block_and_handover.
BlockTransition(from) ==
  [event |-> "TRANSITION", actor_kind |-> "SYSTEM", from_state |-> from,
   to_state |-> "BLOCKED", authority_ref |-> "none", policy_ref |-> "none",
   signature_ref |-> "none", refused |-> TRUE]

Handover(from) == [event |-> "HANDOVER", from_state |-> from]

TaskOutcome(req, status) ==
  [event |-> "TASK", node |-> req.node, actor_kind |-> req.actor_kind,
   status |-> status]

-----------------------------------------------------------------------------
\* What every commit does to the tables

Append1(w, record) == trace' = [trace EXCEPT ![w] = Append(@, record)]

Audit(w, type) == audits' = [audits EXCEPT ![w][type] = @ + 1]

\* update_work_state: an UPDATE by primary key, whatever the row holds by now.
UpdateWorkState(w, s) == state' = [state EXCEPT ![w] = s]

Goto(t, step) == handler' = [handler EXCEPT ![t].step = step]

Finish(t) == handler' = [handler EXCEPT ![t] = Idle]

\* The handler of t is at a commit for w, which it read in state read.
Start(t, step, w, read, record) ==
  handler' = [handler EXCEPT
                ![t] = [step |-> step, work |-> w, read |-> read, record |-> record]]

\* It has read w and asks the services about the request.
Ask(t, step, w, req) ==
  handler' = [handler EXCEPT
                ![t] = [step |-> step, work |-> w, read |-> state[w], request |-> req]]

\* Thread t is free and work w exists and is below the bound.
CanServe(t, w) ==
  /\ handler[t] = Idle
  /\ state[w] # "NONE"
  /\ Len(trace[w]) < MaxTrace

At(t, step) == handler[t].step = step

-----------------------------------------------------------------------------
Init ==
  /\ state   = [w \in Works |-> "NONE"]
  /\ trace   = [w \in Works |-> <<>>]
  /\ audits  = [w \in Works |-> [type \in AuditType |-> 0]]
  /\ handler = [t \in Threads |-> Idle]
  /\ crashes = 0

\* start_work: the instance and its audit event are two commits.
StartWork(t, w) ==
  /\ handler[t] = Idle
  /\ state[w] = "NONE"
  /\ UpdateWorkState(w, "CREATED")
  /\ handler' = [handler EXCEPT
                   ![t] = [step |-> "audit_created", work |-> w,
                           read |-> "CREATED", record |-> Handover("CREATED")]]
  /\ UNCHANGED <<trace, audits, crashes>>

AuditCreated(t) ==
  /\ At(t, "audit_created")
  /\ Audit(handler[t].work, "WORK_CREATED")
  /\ Finish(t)
  /\ UNCHANGED <<state, trace, crashes>>

\* transition_work: read the work ...
ReceiveTransition(t, w, req) ==
  /\ CanServe(t, w)
  /\ Ask(t, "decide_transition", w, req)
  /\ UNCHANGED <<state, trace, audits, crashes>>

\* ... and decide, when the services have answered, by the state that was read.
DecideTransition(t, verdict) ==
  LET w    == handler[t].work
      from == handler[t].read
      req  == handler[t].request
  IN  /\ At(t, "decide_transition")
      /\ IF TransitionAccepted(ContractOf[w], from, req, verdict)
           THEN Start(t, "record_transition", w, from, AppliedTransition(from, req, verdict))
           ELSE Start(t, "record_block", w, from, BlockTransition(from))
      /\ UNCHANGED <<state, trace, audits, crashes>>

\* Mutant: the state is written before the record of the transition.
StateBeforeRecord(t) ==
  /\ At(t, "record_transition")
  /\ UpdateWorkState(handler[t].work, handler[t].record.to_state)
  /\ Goto(t, "write_state")
  /\ UNCHANGED <<trace, audits, crashes>>

RecordTransition(t) ==
  /\ At(t, "record_transition")
  /\ Append1(handler[t].work, handler[t].record)
  /\ Goto(t, "write_state")
  /\ UNCHANGED <<state, audits, crashes>>

WriteState(t) ==
  /\ At(t, "write_state")
  /\ UpdateWorkState(handler[t].work, handler[t].record.to_state)
  /\ Goto(t, "audit_transition")
  /\ UNCHANGED <<trace, audits, crashes>>

AuditTransition(t) ==
  /\ At(t, "audit_transition")
  /\ Audit(handler[t].work, "WORK_TRANSITION")
  /\ Finish(t)
  /\ UNCHANGED <<state, trace, crashes>>

\* _block_and_handover: four commits, from the state the handler read first.
RecordBlock(t) ==
  /\ At(t, "record_block")
  /\ Append1(handler[t].work, BlockTransition(handler[t].read))
  /\ Goto(t, "write_blocked")
  /\ UNCHANGED <<state, audits, crashes>>

\* Mutant: the handover record is forgotten.
WriteBlockedOnly(t) ==
  /\ At(t, "write_blocked")
  /\ UpdateWorkState(handler[t].work, "BLOCKED")
  /\ Goto(t, "audit_block")
  /\ UNCHANGED <<trace, audits, crashes>>

\* Mutant: the refusal leaves the state as it was.
KeepStateAtBlock(t) ==
  /\ At(t, "write_blocked")
  /\ Goto(t, "record_block_handover")
  /\ UNCHANGED <<state, trace, audits, crashes>>

WriteBlocked(t) ==
  /\ At(t, "write_blocked")
  /\ UpdateWorkState(handler[t].work, "BLOCKED")
  /\ Goto(t, "record_block_handover")
  /\ UNCHANGED <<trace, audits, crashes>>

RecordBlockHandover(t) ==
  /\ At(t, "record_block_handover")
  /\ Append1(handler[t].work, Handover(handler[t].read))
  /\ Goto(t, "audit_block")
  /\ UNCHANGED <<state, audits, crashes>>

\* Mutant: a refusal is audited as a requested handover.
AuditBlockAsHandover(t) ==
  /\ At(t, "audit_block")
  /\ Audit(handler[t].work, "WORK_HANDOVER")
  /\ IF handler[t].record.event = "TASK" THEN Goto(t, "record_task") ELSE Finish(t)
  /\ UNCHANGED <<state, trace, crashes>>

\* A refused transition ends here; a refused task still records its outcome.
AuditBlock(t) ==
  /\ At(t, "audit_block")
  /\ Audit(handler[t].work, "WORK_HANDOVER_REQUIRED")
  /\ IF handler[t].record.event = "TASK" THEN Goto(t, "record_task") ELSE Finish(t)
  /\ UNCHANGED <<state, trace, crashes>>

\* execute_task, likewise.
ReceiveTask(t, w, req) ==
  /\ CanServe(t, w)
  /\ Ask(t, "decide_task", w, req)
  /\ UNCHANGED <<state, trace, audits, crashes>>

DecideTask(t, verdict) ==
  LET w   == handler[t].work
      req == handler[t].request
  IN  /\ At(t, "decide_task")
      /\ IF TaskAccepted(ContractOf[w], Node[req.node], handler[t].read, req, verdict)
           THEN Start(t, "record_task", w, handler[t].read, TaskOutcome(req, "SUCCEEDED"))
           ELSE Start(t, "record_block", w, handler[t].read,
                      TaskOutcome(req, "HANDOVER_REQUIRED"))
      /\ UNCHANGED <<state, trace, audits, crashes>>

\* The assembly of a capability task raises: an error is answered, nothing is written.
AssemblyRaises(t) ==
  /\ At(t, "decide_task")
  /\ Node[handler[t].request.node].node_type = "CAPABILITY_TASK"
  /\ Node[handler[t].request.node].capability_ref \in
       ContractOf[handler[t].work].capability_refs
  /\ Finish(t)
  /\ UNCHANGED <<state, trace, audits, crashes>>

RecordTask(t) ==
  /\ At(t, "record_task")
  /\ Append1(handler[t].work, handler[t].record)
  /\ Goto(t, "audit_task")
  /\ UNCHANGED <<state, audits, crashes>>

AuditTask(t) ==
  /\ At(t, "audit_task")
  /\ Audit(handler[t].work, "WORK_TASK")
  /\ Finish(t)
  /\ UNCHANGED <<state, trace, crashes>>

\* request_handover: the record first, with the state read when the request began ...
RequestHandover(t, w) ==
  /\ CanServe(t, w)
  /\ Start(t, "record_handover", w, state[w], Handover(state[w]))
  /\ UNCHANGED <<state, trace, audits, crashes>>

RecordHandover(t) ==
  /\ At(t, "record_handover")
  /\ Append1(handler[t].work, handler[t].record)
  /\ Goto(t, "write_handed_over")
  /\ UNCHANGED <<state, audits, crashes>>

\* ... then the state, which that commit expired and the handler reads again.
WriteHandedOver(t) ==
  /\ At(t, "write_handed_over")
  /\ IF state[handler[t].work] # "BLOCKED"
       THEN UpdateWorkState(handler[t].work, "BLOCKED")
       ELSE UNCHANGED state
  /\ Goto(t, "audit_handover")
  /\ UNCHANGED <<trace, audits, crashes>>

AuditHandover(t) ==
  /\ At(t, "audit_handover")
  /\ Audit(handler[t].work, "WORK_HANDOVER")
  /\ Finish(t)
  /\ UNCHANGED <<state, trace, crashes>>

\* The process dies, or a commit raises, between two commits of a handler.
Crash(t) ==
  /\ handler[t] # Idle
  /\ crashes < MaxCrashes
  /\ crashes' = crashes + 1
  /\ Finish(t)
  /\ UNCHANGED <<state, trace, audits>>

\* Every work is at the bound and no request is in flight: nothing is left to do.
Rest ==
  /\ \A t \in Threads : handler[t] = Idle
  /\ \A w \in Works : state[w] # "NONE" /\ Len(trace[w]) >= MaxTrace
  /\ UNCHANGED vars

\* The handler of thread t performs its next commit.
Commit(t) ==
  \/ AuditCreated(t)
  \/ RecordTransition(t) \/ WriteState(t) \/ AuditTransition(t)
  \/ RecordBlock(t) \/ WriteBlocked(t) \/ RecordBlockHandover(t) \/ AuditBlock(t)
  \/ RecordTask(t) \/ AuditTask(t)
  \/ RecordHandover(t) \/ WriteHandedOver(t) \/ AuditHandover(t)

\* A client's request reaches thread t.
Request(t) ==
  \E w \in Works :
    \/ StartWork(t, w)
    \/ \E req \in TransitionRequests : ReceiveTransition(t, w, req)
    \/ \E req \in TaskRequests : ReceiveTask(t, w, req)
    \/ RequestHandover(t, w)

\* The services answer the handler of thread t.
Decide(t) ==
  \/ \E verdict \in Verdicts : DecideTransition(t, verdict) \/ DecideTask(t, verdict)
  \/ AssemblyRaises(t)

Next ==
  \/ \E t \in Threads : Request(t) \/ Decide(t) \/ Commit(t) \/ Crash(t)
  \/ Rest

Spec == Init /\ [][Next]_vars

\* A thread that is scheduled finishes its handler; clients and crashes owe nothing.
FairSpec == Spec /\ \A t \in Threads : WF_vars(Commit(t))

-----------------------------------------------------------------------------
\* Invariants

TypeOK ==
  /\ state \in [Works -> WorkState \cup {"NONE"}]
  /\ trace \in [Works -> Seq(TraceRecord)]
  /\ audits \in [Works -> [AuditType -> Nat]]
  /\ handler \in [Threads -> {Idle} \cup Deciding \cup Busy]
  /\ crashes \in Nat

\* The states in which the consequential action is decided, authorised or running.
ActionState == {"APPROVED", "ACTION_AUTHORIZED", "EXECUTING"}

\* Record r is an approval that carries all that contract c asks of one.
WellApproved(c, r) ==
  /\ r.event = "TRANSITION"
  /\ r.to_state = "APPROVED"
  /\ c.execution_class = "E3" => r.actor_kind = "HUMAN"
  /\ HumanPoints(c) # {} =>
       /\ r.actor_kind = "HUMAN"
       /\ FirstHumanPoint(c).required_authority_action =>
            r.authority_ref = "valid" /\ r.policy_ref = "valid"
       /\ FirstHumanPoint(c).signature_required => r.signature_ref = "valid"

Approved(w) == \E i \in DOMAIN trace[w] : WellApproved(ContractOf[w], trace[w][i])

(***************************************************************************)
(* A work is never in APPROVED, ACTION_AUTHORIZED or EXECUTING unless its  *)
(* trace holds an approval by a human with the authority, policy and       *)
(* signature references its contract asks for.  It must hold although      *)
(* transition_work writes the state some commits after it checked it,      *)
(* from a state that other handlers may have replaced since, and although  *)
(* handlers die between their commits.                                     *)
(***************************************************************************)
ApprovalBeforeAction == \A w \in Works : state[w] \in ActionState => Approved(w)

\* Record r puts the work it belongs to in state s.
LandsIn(r, s) ==
  \/ r.event = "TRANSITION" /\ r.to_state = s
  \/ r.event = "HANDOVER" /\ s = "BLOCKED"

\* A committed record of w's trace puts it in state s.
Recorded(w, s) == \E i \in DOMAIN trace[w] : LandsIn(trace[w][i], s)

(***************************************************************************)
(* Whatever state a started work is in, a committed record of its trace    *)
(* says how it got there: add_transition_record and add_handover_record    *)
(* come before update_work_state on every path, crash or no crash.         *)
(***************************************************************************)
StateHasRecord ==
  \A w \in Works : state[w] \notin {"NONE", "CREATED"} => Recorded(w, state[w])

\* How many records up to position n of w's trace satisfy Test.
CountTo(w, n, Test(_)) == Cardinality({i \in 1 .. n : Test(trace[w][i])})

IsRefusedTask(r) == r.event = "TASK" /\ r.status = "HANDOVER_REQUIRED"
IsHandover(r)    == r.event = "HANDOVER"
IsRefusal(r)     == r.event = "TRANSITION" /\ r.refused
IsApplied(r)     == r.event = "TRANSITION" /\ ~r.refused
IsTask(r)        == r.event = "TASK"

(***************************************************************************)
(* A task reported as HANDOVER_REQUIRED has been handed over: up to every  *)
(* point of the trace there are at least as many refusals, and handovers,  *)
(* as refused tasks, whatever is interleaved and wherever handlers die     *)
(* (_block_and_handover before the task record in execute_task).           *)
(***************************************************************************)
RefusedTasksHandedOver ==
  \A w \in Works : \A n \in DOMAIN trace[w] :
    /\ CountTo(w, n, IsRefusedTask) <= CountTo(w, n, IsRefusal)
    /\ CountTo(w, n, IsRefusedTask) <= CountTo(w, n, IsHandover)

\* Handlers of w whose record is committed and whose audit event is not.
Unaudited(w, steps) ==
  Cardinality({t \in Threads : handler[t].step \in steps /\ handler[t].work = w})

Count(w, Test(_)) == CountTo(w, Len(trace[w]), Test)

(***************************************************************************)
(* The audit log accounts for the trace: an audit event never exists       *)
(* before its record, and a record without one belongs to a handler that   *)
(* is still running or to one of the handlers that died.                   *)
(***************************************************************************)
AuditAccountsForTrace ==
  \A w \in Works :
    LET Accounts(type, records, steps) ==
          LET missing == records - audits[w][type] - Unaudited(w, steps)
          IN  0 <= missing /\ missing <= crashes
    IN  /\ Accounts("WORK_TRANSITION", Count(w, IsApplied),
                    {"write_state", "audit_transition"})
        /\ Accounts("WORK_HANDOVER_REQUIRED", Count(w, IsRefusal),
                    {"write_blocked", "record_block_handover", "audit_block"})
        /\ Accounts("WORK_TASK", Count(w, IsTask), {"audit_task"})

-----------------------------------------------------------------------------
\* Properties of the runtime with one thread and no crash

Quiescent == \A t \in Threads : handler[t] = Idle

\* The records of w's trace that say which state it is in.
StateRecords(w) == {i \in DOMAIN trace[w] : trace[w][i].event # "TASK"}

LastStateRecord(w) ==
  trace[w][CHOOSE i \in StateRecords(w) : \A j \in StateRecords(w) : j <= i]

(***************************************************************************)
(* ADR-0002: "Current state is a projection."  When no request is in       *)
(* flight, the state of a work is the one its newest record put it in.     *)
(***************************************************************************)
StateIsProjection ==
  Quiescent => \A w \in Works :
    StateRecords(w) # {} => LandsIn(LastStateRecord(w), state[w])

(***************************************************************************)
(* An approval that was followed by a refusal, a handover or a return to   *)
(* earlier work does not count again: a work that is about to act has an   *)
(* approval with nothing after it but tasks and the steps of the action.   *)
(***************************************************************************)
ApprovalStands ==
  Quiescent => \A w \in Works : state[w] \in ActionState =>
    \E i \in DOMAIN trace[w] :
      /\ WellApproved(ContractOf[w], trace[w][i])
      /\ \A j \in i + 1 .. Len(trace[w]) :
           \/ IsTask(trace[w][j])
           \/ IsApplied(trace[w][j]) /\ trace[w][j].to_state \in ActionState

(***************************************************************************)
(* ADR-0008: "Failure stops execution and preserves a replayable           *)
(* state/handover record."  Every refusal is eventually followed by its    *)
(* handover: the n-th refusal of a work leads to an n-th handover, when no *)
(* handler dies (_block_and_handover).                                     *)
(***************************************************************************)
RefusalLeadsToHandover ==
  \A w \in Works, n \in 1 .. MaxTrace :
    (Count(w, IsRefusal) >= n) ~> (Count(w, IsHandover) >= n)
=============================================================================
