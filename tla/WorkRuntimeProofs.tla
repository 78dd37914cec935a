-------------------------- MODULE WorkRuntimeProofs --------------------------
(***************************************************************************)
(* Theorems about WorkRuntime for every set of works, threads, requests    *)
(* and verdicts, every guarded contract and every bound; and about one     *)
(* thread and no crash, that it implements GovernedWork and what follows   *)
(* for its traces.                                                         *)
(***************************************************************************)
EXTENDS WorkReplay, FiniteSetTheorems, WellFoundedInduction, TLAPS

-----------------------------------------------------------------------------
\* What the building blocks of the actions preserve

\* A thread that is at some commit is in the middle of a request.
LEMMA AtIsBusy ==
  ASSUME TypeOK, NEW t \in Threads, NEW s \in Step, At(t, s)
  PROVE  handler[t] \in Busy
<1>1. s \notin {"idle", "decide_transition", "decide_task"}
  BY DEF Step
<1>2. QED
  BY <1>1 DEF TypeOK, At, Idle, Deciding

\* One that waits for the services' answers has read a work for a request.
LEMMA AtIsDeciding ==
  ASSUME TypeOK, NEW t \in Threads, At(t, "decide_transition") \/ At(t, "decide_task")
  PROVE  /\ handler[t] \in Deciding
         /\ handler[t].work \in Works
         /\ handler[t].read \in WorkState
         /\ At(t, "decide_transition") => handler[t].request \in TransitionRequest
         /\ At(t, "decide_task") =>
              handler[t].request \in TaskRequest(Nodes, Agents, Actions)
<1>1. handler[t] \in Deciding
  BY DEF TypeOK, At, Idle, Busy, Step
<1>2. QED
  BY <1>1, RequestsAssumption DEF At, Deciding

\* Moving a busy thread to another commit keeps the handlers well formed.
LEMMA GotoKeepsType ==
  ASSUME TypeOK, NEW t \in Threads, handler[t] \in Busy, NEW s \in Step, Goto(t, s)
  PROVE  /\ handler' \in [Threads -> {Idle} \cup Deciding \cup Busy]
         /\ handler'[t].step = s
         /\ handler'[t].work = handler[t].work
         /\ handler'[t].read = handler[t].read
         /\ handler'[t].record = handler[t].record
         /\ \A u \in Threads \ {t} : handler'[u] = handler[u]
<1> DEFINE next == [handler[t] EXCEPT !.step = s]
<1>1. /\ next \in Busy
      /\ next.step = s
      /\ next.work = handler[t].work
      /\ next.read = handler[t].read
      /\ next.record = handler[t].record
  BY DEF Busy
<1>2. handler' = [handler EXCEPT ![t] = next]
  BY DEF Goto
<1> HIDE DEF next
<1>3. handler'[t] = next /\ \A u \in Threads \ {t} : handler'[u] = handler[u]
  BY <1>2 DEF TypeOK
<1>4. handler' \in [Threads -> {Idle} \cup Deciding \cup Busy]
  BY <1>1, <1>2 DEF TypeOK
<1>5. QED
  BY <1>1, <1>3, <1>4

\* So does ending the request.
LEMMA FinishKeepsType ==
  ASSUME TypeOK, NEW t \in Threads, Finish(t)
  PROVE  /\ handler' \in [Threads -> {Idle} \cup Deciding \cup Busy]
         /\ handler'[t] = Idle
         /\ \A u \in Threads \ {t} : handler'[u] = handler[u]
BY DEF TypeOK, Finish

\* So does standing before a commit for a work that was read.
LEMMA StartKeepsType ==
  ASSUME TypeOK, NEW t \in Threads, NEW w \in Works, NEW from \in WorkState,
         NEW s \in Step, NEW r \in TraceRecord, Start(t, s, w, from, r)
  PROVE  /\ handler' \in [Threads -> {Idle} \cup Deciding \cup Busy]
         /\ handler'[t].step = s
         /\ handler'[t].work = w
         /\ handler'[t].read = from
         /\ handler'[t].record = r
         /\ \A u \in Threads \ {t} : handler'[u] = handler[u]
<1> DEFINE first == [step |-> s, work |-> w, read |-> from, record |-> r]
<1>1. /\ first \in Busy
      /\ first.step = s
      /\ first.work = w
      /\ first.read = from
      /\ first.record = r
  BY DEF Busy
<1>2. handler' = [handler EXCEPT ![t] = first]
  BY DEF Start
<1> HIDE DEF first
<1>3. handler'[t] = first /\ \A u \in Threads \ {t} : handler'[u] = handler[u]
  BY <1>2 DEF TypeOK
<1>4. handler' \in [Threads -> {Idle} \cup Deciding \cup Busy]
  BY <1>1, <1>2 DEF TypeOK
<1>5. QED
  BY <1>1, <1>3, <1>4

\* So does asking the services about a request.
LEMMA AskKeepsType ==
  ASSUME TypeOK, NEW t \in Threads, NEW w \in Works, CanServe(t, w), NEW s, NEW req,
         \/ s = "decide_transition" /\ req \in TransitionRequests
         \/ s = "decide_task" /\ req \in TaskRequests,
         Ask(t, s, w, req)
  PROVE  /\ handler' \in [Threads -> {Idle} \cup Deciding \cup Busy]
         /\ handler'[t].step = s
         /\ handler'[t].work = w
         /\ handler'[t].read = state[w]
         /\ \A u \in Threads \ {t} : handler'[u] = handler[u]
<1> DEFINE first == [step |-> s, work |-> w, read |-> state[w], request |-> req]
<1>1. state[w] \in WorkState
  BY DEF TypeOK, CanServe
<1>2. /\ first \in Deciding
      /\ first.step = s
      /\ first.work = w
      /\ first.read = state[w]
  BY <1>1 DEF Deciding
<1>3. handler' = [handler EXCEPT ![t] = first]
  BY DEF Ask
<1> HIDE DEF first
<1>4. handler'[t] = first /\ \A u \in Threads \ {t} : handler'[u] = handler[u]
  BY <1>3 DEF TypeOK
<1>5. handler' \in [Threads -> {Idle} \cup Deciding \cup Busy]
  BY <1>2, <1>3 DEF TypeOK
<1>6. QED
  BY <1>2, <1>4, <1>5

\* A committed record extends the trace of its work and of no other.
LEMMA AppendKeepsType ==
  ASSUME TypeOK, NEW w \in Works, NEW r \in TraceRecord, Append1(w, r)
  PROVE  /\ trace' \in [Works -> Seq(TraceRecord)]
         /\ trace'[w] = Append(trace[w], r)
         /\ \A v \in Works \ {w} : trace'[v] = trace[v]
BY DEF TypeOK, Append1

\* An audit event changes a counter.
LEMMA AuditKeepsType ==
  ASSUME TypeOK, NEW w \in Works, NEW type \in AuditType, Audit(w, type)
  PROVE  audits' \in [Works -> [AuditType -> Nat]]
<1>1. audits[w] \in [AuditType -> Nat] /\ audits[w][type] \in Nat
  BY DEF TypeOK
<1>2. [audits[w] EXCEPT ![type] = audits[w][type] + 1] \in [AuditType -> Nat]
  BY <1>1
<1>3. audits' = [audits EXCEPT ![w] = [audits[w] EXCEPT ![type] = audits[w][type] + 1]]
  BY DEF Audit
<1>4. QED
  BY <1>2, <1>3 DEF TypeOK

\* The state of one work is overwritten.
LEMMA UpdateKeepsType ==
  ASSUME TypeOK, NEW w \in Works, NEW s \in WorkState, UpdateWorkState(w, s)
  PROVE  /\ state' \in [Works -> WorkState \cup {"NONE"}]
         /\ state'[w] = s
         /\ \A v \in Works \ {w} : state'[v] = state[v]
BY DEF TypeOK, UpdateWorkState

\* The records that the handlers build are records of the trace tables.
LEMMA RecordTypes ==
  ASSUME NEW from \in WorkState
  PROVE  /\ BlockTransition(from) \in TraceRecord
         /\ Handover(from) \in TraceRecord
         /\ \A verdict : \A req \in TransitionRequest :
              AppliedTransition(from, req, verdict) \in TransitionRecord \cap TraceRecord
         /\ \A req \in TaskRequest(Nodes, Agents, Actions),
               status \in {"SUCCEEDED", "HANDOVER_REQUIRED"} :
              TaskOutcome(req, status) \in TraceRecord
<1>1. BlockTransition(from) \in TransitionRecord
  BY DEF BlockTransition, TransitionRecord, ActorKind, WorkState, RecordedRef
<1>2. Handover(from) \in HandoverRecord
  BY DEF Handover, HandoverRecord
<1>3. \A verdict : \A req \in TransitionRequest :
        AppliedTransition(from, req, verdict) \in TransitionRecord
  BY DEF AppliedTransition, TransitionRecord, TransitionRequest, Found, RecordedRef
<1>4. \A req \in TaskRequest(Nodes, Agents, Actions),
         status \in {"SUCCEEDED", "HANDOVER_REQUIRED"} :
        TaskOutcome(req, status) \in TaskRecord
  BY DEF TaskOutcome, TaskRecord, TaskRequest
<1>5. QED
  BY <1>1, <1>2, <1>3, <1>4 DEF TraceRecord

-----------------------------------------------------------------------------
\* Type correctness

(***************************************************************************)
(* TypeOK is not inductive: update_work_state writes the to_state of the   *)
(* record that the handler carries, which has to be a transition record.   *)
(***************************************************************************)
RecordFits ==
  \A t \in Threads :
    handler[t].step \in {"record_transition", "write_state", "audit_transition"} =>
      handler[t].record \in TransitionRecord

Typed == TypeOK /\ RecordFits

LEMMA TypedInit == Init => Typed
<1> SUFFICES ASSUME Init PROVE Typed
  OBVIOUS
<1>1. trace \in [Works -> Seq(TraceRecord)]
  BY DEF Init
<1>2. audits \in [Works -> [AuditType -> Nat]]
  BY DEF Init
<1>3. QED
  BY <1>1, <1>2 DEF Init, Typed, TypeOK, RecordFits, Idle

\* A thread that moves on among its commits, or ends, keeps RecordFits.
LEMMA GotoKeepsFit ==
  ASSUME Typed, NEW t \in Threads, handler[t] \in Busy, NEW s \in Step, Goto(t, s),
         s \in {"write_state", "audit_transition"} =>
           handler[t].step \in {"record_transition", "write_state"},
         s # "record_transition"
  PROVE  RecordFits'
<1>1. handler'[t].step = s /\ handler'[t].record = handler[t].record
  BY GotoKeepsType DEF Typed
<1>2. QED
  BY <1>1, GotoKeepsType DEF Typed, RecordFits

LEMMA FinishKeepsFit ==
  ASSUME Typed, NEW t \in Threads, Finish(t)
  PROVE  RecordFits'
BY FinishKeepsType DEF Typed, RecordFits, Idle

\* The handler of thread t goes on with its next commit.
LEMMA CommitTyped ==
  ASSUME Typed, NEW t \in Threads, Commit(t)
  PROVE  Typed'
<1> DEFINE w == handler[t].work
           r == handler[t].record
<1>0. TypeOK
  BY DEF Typed
<1>b. ASSUME NEW s \in Step, At(t, s)
      PROVE  handler[t] \in Busy /\ w \in Works /\ r \in TraceRecord
                /\ handler[t].read \in WorkState
  BY <1>0, <1>b, AtIsBusy DEF Busy
<1>1. CASE AuditCreated(t)
  <2>1. w \in Works
    BY <1>1, <1>b DEF AuditCreated, Step
  <2>2. TypeOK'
    BY <1>0, <1>1, <2>1, FinishKeepsType, AuditKeepsType DEF AuditCreated, TypeOK, AuditType
  <2>3. QED
    BY <1>1, <2>2, FinishKeepsFit DEF AuditCreated, Typed
<1>2. CASE RecordTransition(t)
  <2>1. handler[t] \in Busy /\ w \in Works /\ r \in TraceRecord /\ handler[t].read \in WorkState
    BY <1>2, <1>b DEF RecordTransition, Step
  <2>2. TypeOK'
    BY <1>0, <1>2, <2>1, GotoKeepsType, AppendKeepsType, RecordTypes
    DEF RecordTransition, TypeOK, Step
  <2>3. QED
    BY <1>2, <2>1, <2>2, GotoKeepsFit DEF RecordTransition, Typed, Step, At
<1>3. CASE WriteState(t)
  <2>1. handler[t] \in Busy /\ w \in Works
    BY <1>3, <1>b DEF WriteState, Step
  <2>2. r.to_state \in WorkState
    BY <1>3 DEF WriteState, At, Typed, RecordFits, TransitionRecord
  <2>3. TypeOK'
    BY <1>0, <1>3, <2>1, <2>2, GotoKeepsType, UpdateKeepsType
    DEF WriteState, TypeOK, Step
  <2>4. QED
    BY <1>3, <2>1, <2>3, GotoKeepsFit DEF WriteState, Typed, Step, At
<1>4. CASE AuditTransition(t)
  <2>1. w \in Works
    BY <1>4, <1>b DEF AuditTransition, Step
  <2>2. TypeOK'
    BY <1>0, <1>4, <2>1, FinishKeepsType, AuditKeepsType DEF AuditTransition, TypeOK, AuditType
  <2>3. QED
    BY <1>4, <2>2, FinishKeepsFit DEF AuditTransition, Typed
<1>5. CASE RecordBlock(t)
  <2>1. handler[t] \in Busy /\ w \in Works /\ r \in TraceRecord /\ handler[t].read \in WorkState
    BY <1>5, <1>b DEF RecordBlock, Step
  <2>2. TypeOK'
    BY <1>0, <1>5, <2>1, GotoKeepsType, AppendKeepsType, RecordTypes
    DEF RecordBlock, TypeOK, Step
  <2>3. QED
    BY <1>5, <2>1, <2>2, GotoKeepsFit DEF RecordBlock, Typed, Step, At
<1>6. CASE WriteBlocked(t)
  <2>1. handler[t] \in Busy /\ w \in Works
    BY <1>6, <1>b DEF WriteBlocked, Step
  <2>2. "BLOCKED" \in WorkState
    BY DEF WorkState
  <2>3. TypeOK'
    BY <1>0, <1>6, <2>1, <2>2, GotoKeepsType, UpdateKeepsType
    DEF WriteBlocked, TypeOK, Step
  <2>4. QED
    BY <1>6, <2>1, <2>3, GotoKeepsFit DEF WriteBlocked, Typed, Step, At
<1>7. CASE RecordBlockHandover(t)
  <2>1. handler[t] \in Busy /\ w \in Works /\ r \in TraceRecord /\ handler[t].read \in WorkState
    BY <1>7, <1>b DEF RecordBlockHandover, Step
  <2>2. TypeOK'
    BY <1>0, <1>7, <2>1, GotoKeepsType, AppendKeepsType, RecordTypes
    DEF RecordBlockHandover, TypeOK, Step
  <2>3. QED
    BY <1>7, <2>1, <2>2, GotoKeepsFit DEF RecordBlockHandover, Typed, Step, At
<1>8. CASE AuditBlock(t)
  <2>1. handler[t] \in Busy /\ w \in Works
    BY <1>8, <1>b DEF AuditBlock, Step
  <2>2. audits' \in [Works -> [AuditType -> Nat]]
    BY <1>0, <1>8, <2>1, AuditKeepsType DEF AuditBlock, AuditType
  <2>3. CASE Goto(t, "record_task")
    <3>1. TypeOK'
      BY <1>0, <1>8, <2>1, <2>2, <2>3, GotoKeepsType DEF AuditBlock, TypeOK, Step
    <3>2. QED
      BY <2>1, <2>3, <3>1, GotoKeepsFit DEF Typed, Step
  <2>4. CASE Finish(t)
    <3>1. TypeOK'
      BY <1>0, <1>8, <2>2, <2>4, FinishKeepsType DEF AuditBlock, TypeOK
    <3>2. QED
      BY <2>4, <3>1, FinishKeepsFit DEF Typed
  <2>5. QED
    BY <1>8, <2>3, <2>4 DEF AuditBlock
<1>9. CASE RecordTask(t)
  <2>1. handler[t] \in Busy /\ w \in Works /\ r \in TraceRecord /\ handler[t].read \in WorkState
    BY <1>9, <1>b DEF RecordTask, Step
  <2>2. TypeOK'
    BY <1>0, <1>9, <2>1, GotoKeepsType, AppendKeepsType, RecordTypes
    DEF RecordTask, TypeOK, Step
  <2>3. QED
    BY <1>9, <2>1, <2>2, GotoKeepsFit DEF RecordTask, Typed, Step, At
<1>10. CASE AuditTask(t)
  <2>1. w \in Works
    BY <1>10, <1>b DEF AuditTask, Step
  <2>2. TypeOK'
    BY <1>0, <1>10, <2>1, FinishKeepsType, AuditKeepsType DEF AuditTask, TypeOK, AuditType
  <2>3. QED
    BY <1>10, <2>2, FinishKeepsFit DEF AuditTask, Typed
<1>11. CASE RecordHandover(t)
  <2>1. handler[t] \in Busy /\ w \in Works /\ r \in TraceRecord /\ handler[t].read \in WorkState
    BY <1>11, <1>b DEF RecordHandover, Step
  <2>2. TypeOK'
    BY <1>0, <1>11, <2>1, GotoKeepsType, AppendKeepsType, RecordTypes
    DEF RecordHandover, TypeOK, Step
  <2>3. QED
    BY <1>11, <2>1, <2>2, GotoKeepsFit DEF RecordHandover, Typed, Step, At
<1>12. CASE WriteHandedOver(t)
  <2>1. handler[t] \in Busy /\ w \in Works
    BY <1>12, <1>b DEF WriteHandedOver, Step
  <2>2. "BLOCKED" \in WorkState
    BY DEF WorkState
  <2>3. TypeOK'
    BY <1>0, <1>12, <2>1, <2>2, GotoKeepsType, UpdateKeepsType
    DEF WriteHandedOver, TypeOK, Step
  <2>4. QED
    BY <1>12, <2>1, <2>3, GotoKeepsFit DEF WriteHandedOver, Typed, Step, At
<1>13. CASE AuditHandover(t)
  <2>1. w \in Works
    BY <1>13, <1>b DEF AuditHandover, Step
  <2>2. TypeOK'
    BY <1>0, <1>13, <2>1, FinishKeepsType, AuditKeepsType DEF AuditHandover, TypeOK, AuditType
  <2>3. QED
    BY <1>13, <2>2, FinishKeepsFit DEF AuditHandover, Typed
<1>14. QED
  BY <1>1, <1>2, <1>3, <1>4, <1>5, <1>6, <1>7, <1>8, <1>9, <1>10, <1>11, <1>12, <1>13 DEF Commit

\* A request reaches thread t.
LEMMA RequestTyped ==
  ASSUME Typed, NEW t \in Threads, Request(t)
  PROVE  Typed'
<1>0. TypeOK
  BY DEF Typed
<1>1. PICK w \in Works :
        \/ StartWork(t, w)
        \/ \E req \in TransitionRequests : ReceiveTransition(t, w, req)
        \/ \E req \in TaskRequests : ReceiveTask(t, w, req)
        \/ RequestHandover(t, w)
  BY DEF Request
<1>2. CASE StartWork(t, w)
  <2>1. "CREATED" \in WorkState
    BY DEF WorkState
  <2>2. [step |-> "audit_created", work |-> w, read |-> "CREATED",
         record |-> Handover("CREATED")] \in Busy
    BY <2>1, RecordTypes DEF Busy, Step
  <2>3. TypeOK'
    BY <1>0, <1>2, <2>1, <2>2, UpdateKeepsType DEF StartWork, TypeOK
  <2>4. RecordFits'
    BY <1>0, <1>2 DEF StartWork, Typed, RecordFits, TypeOK
  <2>5. QED
    BY <2>3, <2>4 DEF Typed
<1>3. CASE \/ \E req \in TransitionRequests : ReceiveTransition(t, w, req)
           \/ \E req \in TaskRequests : ReceiveTask(t, w, req)
  <2>1. PICK s, req :
          /\ \/ s = "decide_transition" /\ req \in TransitionRequests
             \/ s = "decide_task" /\ req \in TaskRequests
          /\ CanServe(t, w)
          /\ Ask(t, s, w, req)
          /\ UNCHANGED <<state, trace, audits, crashes>>
    BY <1>3 DEF ReceiveTransition, ReceiveTask
  <2>2. /\ handler' \in [Threads -> {Idle} \cup Deciding \cup Busy]
        /\ handler'[t].step \in {"decide_transition", "decide_task"}
        /\ \A u \in Threads \ {t} : handler'[u] = handler[u]
    BY <1>0, <2>1, AskKeepsType
  <2>3. TypeOK' /\ RecordFits'
    BY <1>0, <2>1, <2>2 DEF TypeOK, Typed, RecordFits
  <2>4. QED
    BY <2>3 DEF Typed
<1>4. CASE RequestHandover(t, w)
  <2>1. CanServe(t, w) /\ state[w] \in WorkState
    BY <1>0, <1>4 DEF RequestHandover, CanServe, TypeOK
  <2>2. /\ handler' \in [Threads -> {Idle} \cup Deciding \cup Busy]
        /\ handler'[t].step = "record_handover"
        /\ \A u \in Threads \ {t} : handler'[u] = handler[u]
    BY <1>0, <1>4, <2>1, StartKeepsType, RecordTypes DEF RequestHandover, Step
  <2>3. TypeOK' /\ RecordFits'
    BY <1>0, <1>4, <2>2 DEF RequestHandover, TypeOK, Typed, RecordFits
  <2>4. QED
    BY <2>3 DEF Typed
<1>5. QED
  BY <1>1, <1>2, <1>3, <1>4

\* The services answer the handler of thread t: what it is about to do.
LEMMA DecideStarts ==
  ASSUME TypeOK, NEW t \in Threads, Decide(t)
  PROVE  /\ UNCHANGED <<state, trace, audits, crashes>>
         /\ \/ Finish(t)
            \/ \E verdict \in Verdicts :
                 LET w    == handler[t].work
                     from == handler[t].read
                     req  == handler[t].request
                 IN  /\ At(t, "decide_transition")
                     /\ TransitionAccepted(ContractOf[w], from, req, verdict)
                     /\ Start(t, "record_transition", w, from,
                              AppliedTransition(from, req, verdict))
            \/ \E s \in {"record_block", "record_task"}, r \in TraceRecord :
                 /\ At(t, "decide_transition") \/ At(t, "decide_task")
                 /\ Start(t, s, handler[t].work, handler[t].read, r)
                 /\ s = "record_task" => IsTask(r) /\ ~IsRefusedTask(r)
<1>1. ASSUME NEW verdict \in Verdicts, DecideTransition(t, verdict)
      PROVE  \/ LET w    == handler[t].work
                    from == handler[t].read
                    req  == handler[t].request
                IN  /\ TransitionAccepted(ContractOf[w], from, req, verdict)
                    /\ Start(t, "record_transition", w, from,
                             AppliedTransition(from, req, verdict))
             \/ \E r \in TraceRecord :
                  Start(t, "record_block", handler[t].work, handler[t].read, r)
  <2>1. BlockTransition(handler[t].read) \in TraceRecord
    BY <1>1, AtIsDeciding, RecordTypes DEF DecideTransition
  <2>2. QED
    BY <1>1, <2>1 DEF DecideTransition
<1>2. ASSUME NEW verdict \in Verdicts, DecideTask(t, verdict)
      PROVE  \E s \in {"record_block", "record_task"}, r \in TraceRecord :
               /\ Start(t, s, handler[t].work, handler[t].read, r)
               /\ s = "record_task" => IsTask(r) /\ ~IsRefusedTask(r)
  <2>1. \A status \in {"SUCCEEDED", "HANDOVER_REQUIRED"} :
          TaskOutcome(handler[t].request, status) \in TraceRecord
    BY <1>2, AtIsDeciding, RecordTypes DEF DecideTask
  <2>2. LET r == TaskOutcome(handler[t].request, "SUCCEEDED")
        IN  IsTask(r) /\ ~IsRefusedTask(r)
    BY DEF TaskOutcome, IsTask, IsRefusedTask
  <2>3. QED
    BY <1>2, <2>1, <2>2 DEF DecideTask
<1>3. QED
  BY <1>1, <1>2 DEF Decide, DecideTransition, DecideTask, AssemblyRaises

LEMMA DecideTyped ==
  ASSUME Typed, NEW t \in Threads, Decide(t)
  PROVE  Typed'
<1>0. TypeOK
  BY DEF Typed
<1>1. UNCHANGED <<state, trace, audits, crashes>>
  BY <1>0, DecideStarts
<1>2. CASE Finish(t)
  BY <1>0, <1>1, <1>2, FinishKeepsType, FinishKeepsFit DEF Typed, TypeOK
<1>3. ASSUME At(t, "decide_transition") \/ At(t, "decide_task"),
             NEW s \in Step \ {"write_state", "audit_transition"}, NEW r \in TraceRecord,
             Start(t, s, handler[t].work, handler[t].read, r),
             s = "record_transition" => r \in TransitionRecord
      PROVE  Typed'
  <2>1. handler[t].work \in Works /\ handler[t].read \in WorkState
    BY <1>0, <1>3, AtIsDeciding
  <2>2. /\ handler' \in [Threads -> {Idle} \cup Deciding \cup Busy]
        /\ handler'[t].step = s
        /\ handler'[t].record = r
        /\ \A u \in Threads \ {t} : handler'[u] = handler[u]
    BY <1>0, <1>3, <2>1, StartKeepsType
  <2>3. TypeOK'
    BY <1>0, <1>1, <2>2 DEF TypeOK
  <2>4. RecordFits'
    BY <1>3, <2>2 DEF Typed, RecordFits
  <2>5. QED
    BY <2>3, <2>4 DEF Typed
<1>4. ASSUME NEW verdict, At(t, "decide_transition"),
             Start(t, "record_transition", handler[t].work, handler[t].read,
                   AppliedTransition(handler[t].read, handler[t].request, verdict))
      PROVE  Typed'
  <2>1. AppliedTransition(handler[t].read, handler[t].request, verdict)
          \in TransitionRecord \cap TraceRecord
    BY <1>0, <1>4, AtIsDeciding, RecordTypes
  <2>2. QED
    BY <1>3, <1>4, <2>1 DEF Step
<1>5. QED
  BY <1>0, <1>2, <1>3, <1>4, DecideStarts DEF Step

LEMMA TypedStep == Typed /\ [Next]_vars => Typed'
<1> SUFFICES ASSUME Typed, [Next]_vars PROVE Typed'
  OBVIOUS
<1>1. ASSUME NEW t \in Threads, Crash(t)
      PROVE  Typed'
  <2>1. TypeOK'
    BY <1>1, FinishKeepsType DEF Crash, Typed, TypeOK
  <2>2. QED
    BY <1>1, <2>1, FinishKeepsFit DEF Crash, Typed
<1>2. CASE UNCHANGED vars
  BY <1>2 DEF vars, Typed, TypeOK, RecordFits
<1>3. QED
  BY <1>1, <1>2, CommitTyped, RequestTyped, DecideTyped DEF Next, Rest

(***************************************************************************)
(* The tables and the handlers keep their types in every execution: what   *)
(* a handler writes as a state is always a state of the table, although    *)
(* the handler carries it across several commits.                          *)
(***************************************************************************)
THEOREM TypeCorrect == Spec => []TypeOK
<1>1. Typed => TypeOK
  BY DEF Typed
<1>2. QED
  BY <1>1, TypedInit, TypedStep, PTL DEF Spec

-----------------------------------------------------------------------------
\* What every step leaves in place

\* No step removes or changes a committed record.
LEMMA TraceGrows ==
  ASSUME Typed, [Next]_vars, NEW w \in Works, NEW i \in DOMAIN trace[w]
  PROVE  i \in DOMAIN trace'[w] /\ trace'[w][i] = trace[w][i]
<1>1. CASE trace' = trace
  BY <1>1
<1>2. ASSUME NEW v \in Works, NEW r \in TraceRecord, Append1(v, r)
      PROVE  i \in DOMAIN trace'[w] /\ trace'[w][i] = trace[w][i]
  <2>1. CASE w = v
    <3>1. trace'[w] = Append(trace[w], r) /\ trace[w] \in Seq(TraceRecord)
      BY <1>2, <2>1, AppendKeepsType DEF Typed, TypeOK
    <3>2. QED
      BY <3>1
  <2>2. CASE w # v
    BY <1>2, <2>2, AppendKeepsType DEF Typed
  <2>3. QED
    BY <2>1, <2>2
<1>3. ASSUME NEW t \in Threads, Commit(t), trace' # trace
      PROVE  \E v \in Works, r \in TraceRecord : Append1(v, r)
  <2>1. \E s \in {"record_transition", "record_block", "record_block_handover",
                 "record_task", "record_handover"} :
          /\ At(t, s)
          /\ \/ Append1(handler[t].work, handler[t].record)
             \/ Append1(handler[t].work, BlockTransition(handler[t].read))
             \/ Append1(handler[t].work, Handover(handler[t].read))
    BY <1>3 DEF Commit, AuditCreated, RecordTransition, WriteState, AuditTransition,
                RecordBlock, WriteBlocked, RecordBlockHandover, AuditBlock, RecordTask,
                AuditTask, RecordHandover, WriteHandedOver, AuditHandover
  <2>2. handler[t] \in Busy
    BY <2>1, AtIsBusy DEF Typed, Step
  <2>3. /\ handler[t].work \in Works
        /\ handler[t].record \in TraceRecord
        /\ handler[t].read \in WorkState
    BY <2>2 DEF Busy
  <2>4. QED
    BY <2>1, <2>3, RecordTypes
<1>4. ASSUME NEW t \in Threads, Request(t) \/ Decide(t) \/ Crash(t)
      PROVE  trace' = trace
  BY <1>4 DEF Request, StartWork, ReceiveTransition, ReceiveTask, RequestHandover, Crash,
              Decide, DecideTransition, DecideTask, AssemblyRaises
<1>5. QED
  BY <1>1, <1>2, <1>3, <1>4 DEF Next, Rest, vars

\* So what a trace has shown once it shows for ever.
LEMMA ApprovedStays ==
  ASSUME Typed, [Next]_vars, NEW w \in Works, Approved(w)
  PROVE  Approved(w)'
<1>1. PICK i \in DOMAIN trace[w] : WellApproved(ContractOf[w], trace[w][i])
  BY DEF Approved
<1>2. i \in DOMAIN trace'[w] /\ WellApproved(ContractOf[w], trace'[w][i])
  BY <1>1, TraceGrows
<1>3. QED
  BY <1>2 DEF Approved, WellApproved

LEMMA RecordedStays ==
  ASSUME Typed, [Next]_vars, NEW w \in Works, NEW s, Recorded(w, s)
  PROVE  Recorded(w, s)'
<1>1. PICK i \in DOMAIN trace[w] : LandsIn(trace[w][i], s)
  BY DEF Recorded
<1>2. i \in DOMAIN trace'[w] /\ LandsIn(trace'[w][i], s)
  BY <1>1, TraceGrows
<1>3. QED
  BY <1>2 DEF Recorded, LandsIn

\* Thread t does not stand before one of the commits S after the step.
LEMMA FinishLeaves ==
  ASSUME TypeOK, NEW t \in Threads, Finish(t), NEW u \in Threads,
         handler'[u].step # "idle"
  PROVE  handler'[u] = handler[u]
BY FinishKeepsType DEF Idle

LEMMA GotoLeaves ==
  ASSUME TypeOK, NEW t \in Threads, handler[t] \in Busy, NEW s \in Step, Goto(t, s),
         NEW u \in Threads, handler'[u].step # s
  PROVE  handler'[u] = handler[u]
BY GotoKeepsType

-----------------------------------------------------------------------------
\* Approval before action

\* From the table: the authorised action is entered from a decided state only.
LEMMA ActionNeedsDecision ==
  ASSUME NEW from \in WorkState,
         NEW s \in AllowedTransitions[from], s \in {"ACTION_AUTHORIZED", "EXECUTING"}
  PROVE  from \in ActionState
BY DEF WorkState, AllowedTransitions, ActionState

\* From the approval rules: an accepted approval is recorded with all it needs.
LEMMA AcceptedIsWellApproved ==
  ASSUME NEW c, NEW from, NEW req, NEW verdict,
         TransitionAccepted(c, from, req, verdict), req.to_state = "APPROVED"
  PROVE  WellApproved(c, AppliedTransition(from, req, verdict))
BY DEF TransitionAccepted, NeedsApproval, ApprovalGranted, SignatureRequired, Signed,
       Found, WellApproved, AppliedTransition

(***************************************************************************)
(* The strengthening: a handler that has read an action state, or is about *)
(* to write one, has its licence in the trace already, or is about to      *)
(* commit it.  The state it read may have been replaced meanwhile; the     *)
(* licence cannot.                                                         *)
(***************************************************************************)
Licensed(t) ==
  /\ handler[t].step = "decide_transition"
     /\ handler[t].read \in ActionState => Approved(handler[t].work)
  /\ handler[t].step = "record_transition"
     /\ handler[t].record.to_state \in ActionState =>
       \/ WellApproved(ContractOf[handler[t].work], handler[t].record)
       \/ Approved(handler[t].work)
  /\ handler[t].step = "write_state"
     /\ handler[t].record.to_state \in ActionState => Approved(handler[t].work)

\* The steps at which a handler needs a licence.
Deciders == {"decide_transition", "record_transition", "write_state"}

WriteIsLicensed == \A t \in Threads : Licensed(t)

Decided == Typed /\ ApprovalBeforeAction /\ WriteIsLicensed

LEMMA DecidedInit == Init => Decided
BY TypedInit DEF Init, Decided, ApprovalBeforeAction, WriteIsLicensed, Licensed,
                 ActionState, Idle

\* A thread keeps its licence while it neither reads nor writes.
LEMMA LicensedStays ==
  ASSUME Decided, [Next]_vars, NEW u \in Threads,
         handler'[u].step \in Deciders =>
           handler'[u] = handler[u]
  PROVE  Licensed(u)'
<1> SUFFICES ASSUME handler'[u].step \in Deciders
             PROVE  /\ handler'[u] = handler[u]
                    /\ handler[u].work \in Works
                    /\ Licensed(u)
  BY ApprovedStays DEF Decided, Licensed, WellApproved, Deciders
<1>1. handler'[u] = handler[u] /\ TypeOK
  BY DEF Decided, Typed
<1>2. CASE At(u, "record_transition") \/ At(u, "write_state")
  BY <1>1, <1>2, AtIsBusy DEF Step, Busy, Decided, WriteIsLicensed
<1>3. CASE At(u, "decide_transition")
  BY <1>1, <1>3, AtIsDeciding DEF Decided, WriteIsLicensed
<1>4. QED
  BY <1>1, <1>2, <1>3 DEF At, Deciders

\* A step that enters no action state and starts no new write keeps the invariant.
LEMMA DecidedQuietStep ==
  ASSUME Decided, [Next]_vars,
         \A w \in Works : state'[w] \in ActionState => state'[w] = state[w],
         \A u \in Threads : handler'[u].step \in Deciders =>
                              handler'[u] = handler[u]
  PROVE  Decided'
<1>1. Typed'
  BY TypedStep DEF Decided
<1>2. ApprovalBeforeAction'
  BY ApprovedStays DEF Decided, ApprovalBeforeAction
<1>3. WriteIsLicensed'
  BY LicensedStays DEF WriteIsLicensed
<1>4. QED
  BY <1>1, <1>2, <1>3 DEF Decided

\* transition_work reads the work: an action state that it read is licensed.
LEMMA DecidedReceive ==
  ASSUME Decided, NEW t \in Threads, NEW w \in Works,
         NEW req \in TransitionRequests, ReceiveTransition(t, w, req), [Next]_vars
  PROVE  Decided'
<1>1. /\ TypeOK
      /\ state' = state
  BY DEF ReceiveTransition, Decided, Typed
<1>2. /\ handler'[t].step = "decide_transition"
      /\ handler'[t].work = w
      /\ handler'[t].read = state[w]
      /\ \A u \in Threads \ {t} : handler'[u] = handler[u]
  BY <1>1, AskKeepsType DEF ReceiveTransition
<1>3. state[w] \in ActionState => Approved(w)'
  BY ApprovedStays DEF Decided, ApprovalBeforeAction
<1>4. Licensed(t)'
  BY <1>2, <1>3 DEF Licensed
<1>5. ApprovalBeforeAction'
  BY <1>1, ApprovedStays DEF Decided, ApprovalBeforeAction
<1>6. WriteIsLicensed'
  BY <1>2, <1>4, LicensedStays DEF WriteIsLicensed
<1>7. QED
  BY <1>5, <1>6, TypedStep DEF Decided

\* It decides: the record it carries from then on is licensed.
LEMMA DecidedAccept ==
  ASSUME Decided, NEW t \in Threads, At(t, "decide_transition"), NEW w \in Works,
         NEW from \in WorkState, w = handler[t].work, from = handler[t].read,
         NEW req \in TransitionRequest, req = handler[t].request, NEW verdict,
         TransitionAccepted(ContractOf[w], from, req, verdict),
         Start(t, "record_transition", w, from, AppliedTransition(from, req, verdict)),
         state' = state, [Next]_vars
  PROVE  Decided'
<1> DEFINE r == AppliedTransition(from, req, verdict)
<1>1. TypeOK
  BY DEF Decided, Typed
<1>2. r \in TraceRecord /\ r.to_state = req.to_state
  BY RecordTypes DEF AppliedTransition
<1>3. /\ handler'[t].step = "record_transition"
      /\ handler'[t].work = w
      /\ handler'[t].record = r
      /\ \A u \in Threads \ {t} : handler'[u] = handler[u]
  BY <1>1, <1>2, StartKeepsType DEF Step
<1>4. r.to_state \in ActionState => WellApproved(ContractOf[w], r) \/ Approved(w)
  <2>1. CASE r.to_state = "APPROVED"
    BY <1>2, <2>1, AcceptedIsWellApproved
  <2>2. CASE r.to_state \in {"ACTION_AUTHORIZED", "EXECUTING"}
    <3>1. from \in ActionState
      BY <1>2, <2>2, ActionNeedsDecision DEF TransitionAccepted
    <3>2. QED
      BY <3>1 DEF Decided, WriteIsLicensed, Licensed, At
  <2>3. QED
    BY <2>1, <2>2 DEF ActionState
<1>5. Approved(w) => Approved(w)'
  BY ApprovedStays DEF Decided
<1>6. ApprovalBeforeAction'
  BY ApprovedStays DEF Decided, ApprovalBeforeAction
<1>7. Licensed(t)'
  BY <1>3, <1>4, <1>5 DEF Licensed, WellApproved
<1>8. WriteIsLicensed'
  BY <1>3, <1>7, LicensedStays DEF WriteIsLicensed
<1>9. QED
  BY <1>6, <1>8, TypedStep DEF Decided

LEMMA DecidedDecide ==
  ASSUME Decided, NEW t \in Threads, Decide(t), [Next]_vars
  PROVE  Decided'
<1>1. TypeOK
  BY DEF Decided, Typed
<1>2. state' = state
  BY <1>1, DecideStarts
<1>3. CASE Finish(t)
  <2>1. \A u \in Threads : handler'[u].step \in Deciders => handler'[u] = handler[u]
    BY <1>1, <1>3, FinishLeaves DEF Deciders
  <2>2. QED
    BY <1>2, <2>1, DecidedQuietStep
<1>4. ASSUME NEW s \in {"record_block", "record_task"}, NEW r \in TraceRecord,
             At(t, "decide_transition") \/ At(t, "decide_task"),
             Start(t, s, handler[t].work, handler[t].read, r)
      PROVE  Decided'
  <2>1. handler[t].work \in Works /\ handler[t].read \in WorkState
    BY <1>1, <1>4, AtIsDeciding
  <2>2. handler'[t].step = s /\ \A u \in Threads \ {t} : handler'[u] = handler[u]
    BY <1>1, <1>4, <2>1, StartKeepsType DEF Step
  <2>3. \A u \in Threads : handler'[u].step \in Deciders => handler'[u] = handler[u]
    BY <2>2 DEF Deciders
  <2>4. QED
    BY <1>2, <2>3, DecidedQuietStep
<1>5. ASSUME NEW verdict \in Verdicts, At(t, "decide_transition"),
             TransitionAccepted(ContractOf[handler[t].work], handler[t].read,
                                handler[t].request, verdict),
             Start(t, "record_transition", handler[t].work, handler[t].read,
                   AppliedTransition(handler[t].read, handler[t].request, verdict))
      PROVE  Decided'
  BY <1>1, <1>2, <1>5, AtIsDeciding, DecidedAccept
<1>6. QED
  BY <1>1, <1>3, <1>4, <1>5, DecideStarts

\* The record is committed: the licence is in the trace from here on.
LEMMA DecidedRecord ==
  ASSUME Decided, NEW t \in Threads, RecordTransition(t), [Next]_vars
  PROVE  Decided'
<1>1. handler[t] \in Busy /\ TypeOK /\ state' = state
  BY AtIsBusy DEF RecordTransition, Decided, Typed, Step
<1>2. PICK w \in Works, r \in TraceRecord : handler[t].work = w /\ handler[t].record = r
  BY <1>1 DEF Busy
<1>3. /\ handler'[t].step = "write_state"
      /\ handler'[t].work = w
      /\ handler'[t].record = r
      /\ \A u \in Threads \ {t} : handler'[u] = handler[u]
  BY <1>1, <1>2, GotoKeepsType DEF RecordTransition, Step
<1>4. trace'[w] = Append(trace[w], r) /\ trace[w] \in Seq(TraceRecord)
  BY <1>1, <1>2, AppendKeepsType DEF RecordTransition, TypeOK
<1>5. ASSUME r.to_state \in ActionState PROVE Approved(w)'
  <2>1. CASE WellApproved(ContractOf[w], r)
    <3>1. /\ Len(trace[w]) + 1 \in DOMAIN trace'[w]
          /\ trace'[w][Len(trace[w]) + 1] = r
      BY <1>4
    <3>2. QED
      BY <2>1, <3>1 DEF Approved, WellApproved
  <2>2. CASE Approved(w)
    BY <2>2, ApprovedStays DEF Decided
  <2>3. QED
    BY <1>2, <1>5, <2>1, <2>2
       DEF Decided, WriteIsLicensed, Licensed, RecordTransition, At
<1>6. ApprovalBeforeAction'
  BY <1>1, ApprovedStays DEF Decided, ApprovalBeforeAction
<1>7. Licensed(t)'
  BY <1>3, <1>5 DEF Licensed
<1>8. WriteIsLicensed'
  BY <1>3, <1>7, LicensedStays DEF WriteIsLicensed
<1>9. QED
  BY <1>6, <1>8, TypedStep DEF Decided

\* The state is written, whatever it is by now: its licence is in the trace.
LEMMA DecidedWrite ==
  ASSUME Decided, NEW t \in Threads, WriteState(t), [Next]_vars
  PROVE  Decided'
<1> DEFINE w == handler[t].work
           s == handler[t].record.to_state
<1>1. /\ handler[t] \in Busy
      /\ w \in Works
      /\ s \in WorkState
      /\ TypeOK
  BY AtIsBusy DEF WriteState, Decided, Typed, Step, Busy, RecordFits, At, TransitionRecord
<1>2. s \in ActionState => Approved(w)
  BY DEF WriteState, At, Decided, WriteIsLicensed, Licensed
<1>3. state'[w] = s /\ \A v \in Works \ {w} : state'[v] = state[v]
  BY <1>1, UpdateKeepsType DEF WriteState
<1>4. ApprovalBeforeAction'
  BY <1>1, <1>2, <1>3, ApprovedStays DEF Decided, ApprovalBeforeAction
<1>5. ASSUME NEW u \in Threads, handler'[u].step \in Deciders
      PROVE  handler'[u] = handler[u]
  BY <1>1, <1>5, GotoLeaves DEF WriteState, Step, Deciders
<1>6. WriteIsLicensed'
  BY <1>5, LicensedStays DEF WriteIsLicensed
<1>7. QED
  BY <1>4, <1>6, TypedStep DEF Decided

\* Every other commit is quiet: it writes no state or BLOCKED, and ends or goes on
\* to a commit that writes no requested state.
LEMMA DecidedCommit ==
  ASSUME Decided, NEW t \in Threads, Commit(t), [Next]_vars
  PROVE  Decided'
<1>1. CASE RecordTransition(t)
  BY <1>1, DecidedRecord
<1>2. CASE WriteState(t)
  BY <1>2, DecidedWrite
<1>3. ASSUME NEW s \in Step, At(t, s),
             NEW n \in Step \ Deciders,
             Finish(t) \/ Goto(t, n),
             state' = state \/ UpdateWorkState(handler[t].work, "BLOCKED")
      PROVE  Decided'
  <2>1. TypeOK /\ handler[t] \in Busy /\ handler[t].work \in Works
    BY <1>3, AtIsBusy DEF Decided, Typed, Busy
  <2>2. \A u \in Threads : handler'[u].step \in Deciders =>
                           handler'[u] = handler[u]
    BY <1>3, <2>1, FinishLeaves, GotoLeaves DEF Deciders
  <2>3. \A w \in Works : state'[w] \in ActionState => state'[w] = state[w]
    BY <1>3, <2>1, UpdateKeepsType DEF ActionState, WorkState
  <2>4. QED
    BY <2>2, <2>3, DecidedQuietStep
<1>4. CASE AuditCreated(t) \/ AuditTransition(t) \/ AuditTask(t) \/ AuditHandover(t)
  BY <1>3, <1>4 DEF AuditCreated, AuditTransition, AuditTask, AuditHandover, Step,
                 Deciders
<1>5. CASE RecordBlock(t) \/ RecordBlockHandover(t) \/ RecordTask(t) \/ RecordHandover(t)
  BY <1>3, <1>5 DEF RecordBlock, RecordBlockHandover, RecordTask, RecordHandover, Step,
                 Deciders
<1>6. CASE WriteBlocked(t) \/ WriteHandedOver(t) \/ AuditBlock(t)
  BY <1>3, <1>6 DEF WriteBlocked, WriteHandedOver, AuditBlock, Step, Deciders
<1>7. QED
  BY <1>1, <1>2, <1>4, <1>5, <1>6 DEF Commit

LEMMA DecidedRequest ==
  ASSUME Decided, NEW t \in Threads, Request(t), [Next]_vars
  PROVE  Decided'
<1>0. TypeOK
  BY DEF Decided, Typed
<1>1. CASE \E w \in Works : \E req \in TransitionRequests : ReceiveTransition(t, w, req)
  BY <1>1, DecidedReceive
<1>2. ASSUME NEW w \in Works, StartWork(t, w)
      PROVE  Decided'
  <2>1. \A v \in Works : state'[v] \in ActionState => state'[v] = state[v]
    BY <1>0, <1>2, UpdateKeepsType DEF StartWork, ActionState, WorkState
  <2>2. \A u \in Threads : handler'[u].step \in Deciders =>
                           handler'[u] = handler[u]
    BY <1>0, <1>2 DEF StartWork, TypeOK, Deciders
  <2>3. QED
    BY <2>1, <2>2, DecidedQuietStep
<1>3. ASSUME NEW w \in Works,
             \/ \E req \in TaskRequests : ReceiveTask(t, w, req)
             \/ RequestHandover(t, w)
      PROVE  Decided'
  <2>1. /\ handler'[t].step \in {"decide_task", "record_handover"}
        /\ \A u \in Threads \ {t} : handler'[u] = handler[u]
        /\ state' = state
    BY <1>0, <1>3 DEF ReceiveTask, RequestHandover, Ask, Start, TypeOK
  <2>2. \A u \in Threads : handler'[u].step \in Deciders => handler'[u] = handler[u]
    BY <2>1 DEF Deciders
  <2>3. QED
    BY <2>1, <2>2, DecidedQuietStep
<1>4. QED
  BY <1>1, <1>2, <1>3 DEF Request

LEMMA DecidedStep == Decided /\ [Next]_vars => Decided'
<1> SUFFICES ASSUME Decided, [Next]_vars PROVE Decided'
  OBVIOUS
<1>1. ASSUME NEW t \in Threads, Crash(t)
      PROVE  Decided'
  <2>1. TypeOK /\ state' = state
    BY <1>1 DEF Crash, Decided, Typed
  <2>2. \A u \in Threads : handler'[u].step \in Deciders =>
                           handler'[u] = handler[u]
    BY <1>1, <2>1, FinishLeaves DEF Crash, Deciders
  <2>3. QED
    BY <2>1, <2>2, DecidedQuietStep
<1>2. CASE UNCHANGED vars
  BY <1>2, DecidedQuietStep DEF vars
<1>3. QED
  BY <1>1, <1>2, DecidedCommit, DecidedRequest, DecidedDecide DEF Next, Rest

(***************************************************************************)
(* For every set of works, threads and requests, with any interleaving of  *)
(* the handlers' commits and any crashes: a work is APPROVED, authorised   *)
(* to act or executing only if its trace holds an approval by a human with *)
(* the references its contract asks for (transition_work).                 *)
(***************************************************************************)
THEOREM ActionIsApproved == Spec => []ApprovalBeforeAction
<1>1. Decided => ApprovalBeforeAction
  BY DEF Decided
<1>2. QED
  BY <1>1, DecidedInit, DecidedStep, PTL DEF Spec

-----------------------------------------------------------------------------
\* The state a handler writes is on record before it writes it

RecordsFirst(t) ==
  /\ handler[t].step = "record_handover" => handler[t].record.event = "HANDOVER"
  /\ handler[t].step = "write_state" =>
       Recorded(handler[t].work, handler[t].record.to_state)
  /\ handler[t].step \in {"write_blocked", "write_handed_over"} =>
       Recorded(handler[t].work, "BLOCKED")

Traced == Typed /\ StateHasRecord /\ \A t \in Threads : RecordsFirst(t)

Tracing == {"record_handover", "write_state", "write_blocked", "write_handed_over"}

LEMMA TracedInit == Init => Traced
BY TypedInit DEF Init, Traced, StateHasRecord, RecordsFirst, Idle

\* A thread keeps what it has on record while it does not move to a write.
LEMMA RecordsFirstStays ==
  ASSUME Traced, [Next]_vars, NEW u \in Threads,
         handler'[u].step \in Tracing => handler'[u] = handler[u]
  PROVE  RecordsFirst(u)'
<1> SUFFICES ASSUME handler'[u].step \in Tracing PROVE RecordsFirst(u)'
  BY DEF RecordsFirst, Tracing
<1>1. handler'[u] = handler[u] /\ handler[u].step \in Step
  BY DEF Tracing, Step
<1>2. handler[u] \in Busy
  BY <1>1, AtIsBusy DEF Traced, Typed, At
<1>3. PICK w \in Works, r \in TraceRecord : handler[u].work = w /\ handler[u].record = r
  BY <1>2 DEF Busy
<1>4. RecordsFirst(u)
  BY DEF Traced
<1>5. /\ Recorded(w, "BLOCKED") => Recorded(w, "BLOCKED")'
      /\ Recorded(w, r.to_state) => Recorded(w, r.to_state)'
  BY RecordedStays DEF Traced
<1>6. QED
  BY <1>1, <1>3, <1>4, <1>5 DEF RecordsFirst

\* The works whose state a step leaves alone stay recorded.
LEMMA RecordedStateStays ==
  ASSUME Traced, [Next]_vars, NEW w \in Works, state'[w] = state[w]
  PROVE  (state[w] \notin {"NONE", "CREATED"} => Recorded(w, state[w]))'
<1>1. PICK s : s = state[w]
  OBVIOUS
<1>2. s \notin {"NONE", "CREATED"} => Recorded(w, s)'
  BY <1>1, RecordedStays DEF Traced, StateHasRecord
<1>3. QED
  BY <1>1, <1>2

\* A step that writes no state but CREATED and moves no thread to a write.
LEMMA TracedQuietStep ==
  ASSUME Traced, [Next]_vars,
         \A w \in Works : state'[w] = state[w] \/ state'[w] = "CREATED",
         \A u \in Threads : handler'[u].step \in Tracing => handler'[u] = handler[u]
  PROVE  Traced'
<1>1. StateHasRecord'
  BY RecordedStateStays DEF StateHasRecord
<1>2. (\A u \in Threads : RecordsFirst(u))'
  BY RecordsFirstStays
<1>3. QED
  BY <1>1, <1>2, TypedStep DEF Traced

\* A commit that appends a record and goes on to write the state it lands in.
LEMMA TracedRecord ==
  ASSUME Traced, [Next]_vars, NEW t \in Threads, handler[t] \in Busy,
         NEW r \in TraceRecord, Append1(handler[t].work, r), state' = state,
         NEW n \in Step, Goto(t, n),
         n = "write_state" => r = handler[t].record /\ LandsIn(r, r.to_state),
         n \in {"write_blocked", "write_handed_over"} => LandsIn(r, "BLOCKED"),
         n # "record_handover"
  PROVE  Traced'
<1>1. PICK w \in Works, q \in TraceRecord : handler[t].work = w /\ handler[t].record = q
  BY DEF Busy
<1>2. TypeOK
  BY DEF Traced, Typed
<1>3. /\ handler'[t].step = n
      /\ handler'[t].work = w
      /\ handler'[t].record = q
      /\ \A u \in Threads \ {t} : handler'[u] = handler[u]
  BY <1>1, <1>2, GotoKeepsType
<1>4. /\ Len(trace[w]) + 1 \in DOMAIN trace'[w]
      /\ trace'[w][Len(trace[w]) + 1] = r
  <2>1. trace'[w] = Append(trace[w], r) /\ trace[w] \in Seq(TraceRecord)
    BY <1>1, <1>2, AppendKeepsType DEF TypeOK
  <2>2. QED
    BY <2>1
<1>5. ASSUME NEW s, LandsIn(r, s) PROVE Recorded(w, s)'
  BY <1>4, <1>5 DEF Recorded, LandsIn
<1>6. RecordsFirst(t)'
  <2>1. n = "write_state" => Recorded(w, q.to_state)'
    BY <1>1, <1>5
  <2>2. n \in {"write_blocked", "write_handed_over"} => Recorded(w, "BLOCKED")'
    BY <1>5
  <2>3. QED
    BY <1>3, <2>1, <2>2 DEF RecordsFirst
<1>7. (\A u \in Threads : RecordsFirst(u))'
  BY <1>3, <1>6, RecordsFirstStays
<1>8. StateHasRecord'
  BY RecordedStateStays DEF StateHasRecord
<1>9. QED
  BY <1>7, <1>8, TypedStep DEF Traced

\* A commit that writes a recorded state.
LEMMA TracedWrite ==
  ASSUME Traced, [Next]_vars, NEW t \in Threads, handler[t] \in Busy,
         NEW s \in WorkState, Recorded(handler[t].work, s),
         UpdateWorkState(handler[t].work, s), NEW n \in Step \ Tracing, Goto(t, n)
  PROVE  Traced'
<1>1. TypeOK /\ handler[t].work \in Works
  BY DEF Traced, Typed, Busy
<1>2. PICK w \in Works : w = handler[t].work
  BY <1>1
<1>3. state'[w] = s /\ \A v \in Works \ {w} : state'[v] = state[v]
  BY <1>1, <1>2, UpdateKeepsType
<1>4. Recorded(w, s)'
  BY <1>2, RecordedStays DEF Traced
<1>5. (state[w] \notin {"NONE", "CREATED"} => Recorded(w, state[w]))'
  BY <1>3, <1>4
<1>6. StateHasRecord'
  BY <1>3, <1>5, RecordedStateStays DEF StateHasRecord
<1>7. ASSUME NEW u \in Threads, handler'[u].step \in Tracing
      PROVE  handler'[u] = handler[u]
  BY <1>1, <1>7, GotoLeaves
<1>8. (\A u \in Threads : RecordsFirst(u))'
  BY <1>7, RecordsFirstStays
<1>9. QED
  BY <1>6, <1>8, TypedStep DEF Traced

LEMMA TracedCommit ==
  ASSUME Traced, NEW t \in Threads, Commit(t), [Next]_vars
  PROVE  Traced'
<1>0. TypeOK
  BY DEF Traced, Typed
<1>1. ASSUME NEW s \in Step, At(t, s)
      PROVE  /\ handler[t] \in Busy
             /\ handler[t].work \in Works
             /\ handler[t].read \in WorkState
             /\ handler[t].record \in TraceRecord
  BY <1>0, <1>1, AtIsBusy DEF Busy
<1>2. ASSUME NEW s \in Step, At(t, s), state' = state,
             Finish(t) \/ \E n \in Step \ Tracing : Goto(t, n)
      PROVE  Traced'
  <2>1. ASSUME NEW u \in Threads, handler'[u].step \in Tracing
        PROVE  handler'[u] = handler[u]
    <3>1. CASE Finish(t)
      BY <1>0, <2>1, <3>1, FinishLeaves DEF Tracing
    <3>2. CASE \E n \in Step \ Tracing : Goto(t, n)
      BY <1>0, <1>1, <1>2, <2>1, <3>2, GotoLeaves
    <3>3. QED
      BY <1>2, <3>1, <3>2
  <2>2. QED
    BY <1>2, <2>1, TracedQuietStep
<1>3. CASE AuditCreated(t) \/ AuditTransition(t) \/ AuditTask(t) \/ AuditHandover(t)
  BY <1>2, <1>3 DEF AuditCreated, AuditTransition, AuditTask, AuditHandover, Step
<1>4. CASE AuditBlock(t) \/ RecordBlockHandover(t) \/ RecordTask(t)
  BY <1>2, <1>4 DEF AuditBlock, RecordBlockHandover, RecordTask, Step, Tracing
<1>5. CASE RecordTransition(t)
  <2>1. handler[t] \in Busy /\ handler[t].record \in TraceRecord
    BY <1>1, <1>5 DEF RecordTransition, Step
  <2>2. LandsIn(handler[t].record, handler[t].record.to_state)
    BY <1>5 DEF RecordTransition, At, Traced, Typed, RecordFits, TransitionRecord, LandsIn
  <2>3. QED
    BY <1>5, <2>1, <2>2, TracedRecord DEF RecordTransition, Step
<1>6. CASE RecordBlock(t)
  <2>1. handler[t] \in Busy /\ BlockTransition(handler[t].read) \in TraceRecord
    BY <1>1, <1>6, RecordTypes DEF RecordBlock, Step
  <2>2. LandsIn(BlockTransition(handler[t].read), "BLOCKED")
    BY DEF BlockTransition, LandsIn
  <2>3. QED
    BY <1>6, <2>1, <2>2, TracedRecord DEF RecordBlock, Step
<1>7. CASE RecordHandover(t)
  <2>1. handler[t] \in Busy /\ handler[t].record \in TraceRecord
    BY <1>1, <1>7 DEF RecordHandover, Step
  <2>2. LandsIn(handler[t].record, "BLOCKED")
    BY <1>7 DEF RecordHandover, At, Traced, RecordsFirst, LandsIn
  <2>3. QED
    BY <1>7, <2>1, <2>2, TracedRecord DEF RecordHandover, Step
<1>8. CASE WriteState(t)
  <2>1. handler[t] \in Busy /\ Recorded(handler[t].work, handler[t].record.to_state)
    BY <1>1, <1>8 DEF WriteState, At, Step, Traced, RecordsFirst
  <2>2. handler[t].record.to_state \in WorkState
    BY <1>8 DEF WriteState, At, Traced, Typed, RecordFits, TransitionRecord
  <2>3. QED
    BY <1>8, <2>1, <2>2, TracedWrite DEF WriteState, Step, Tracing
<1>9. CASE WriteBlocked(t)
  <2>1. handler[t] \in Busy /\ Recorded(handler[t].work, "BLOCKED")
    BY <1>1, <1>9 DEF WriteBlocked, At, Step, Traced, RecordsFirst
  <2>2. QED
    BY <1>9, <2>1, TracedWrite DEF WriteBlocked, Step, Tracing, WorkState
<1>10. CASE WriteHandedOver(t)
  <2>1. handler[t] \in Busy /\ Recorded(handler[t].work, "BLOCKED")
    BY <1>1, <1>10 DEF WriteHandedOver, At, Step, Traced, RecordsFirst
  <2>2. CASE UpdateWorkState(handler[t].work, "BLOCKED")
    BY <1>10, <2>1, <2>2, TracedWrite DEF WriteHandedOver, Step, Tracing, WorkState
  <2>3. CASE UNCHANGED state
    BY <1>2, <1>10, <2>3 DEF WriteHandedOver, Step, Tracing
  <2>4. QED
    BY <1>10, <2>2, <2>3 DEF WriteHandedOver
<1>11. QED
  BY <1>3, <1>4, <1>5, <1>6, <1>7, <1>8, <1>9, <1>10 DEF Commit

LEMMA TracedRequest ==
  ASSUME Traced, NEW t \in Threads, Request(t), [Next]_vars
  PROVE  Traced'
<1>0. TypeOK
  BY DEF Traced, Typed
<1>1. ASSUME NEW w \in Works, StartWork(t, w)
      PROVE  Traced'
  <2>1. \A v \in Works : state'[v] = state[v] \/ state'[v] = "CREATED"
    BY <1>0, <1>1, UpdateKeepsType DEF StartWork, WorkState
  <2>2. \A u \in Threads : handler'[u].step \in Tracing => handler'[u] = handler[u]
    BY <1>0, <1>1 DEF StartWork, TypeOK, Tracing
  <2>3. QED
    BY <2>1, <2>2, TracedQuietStep
<1>2. ASSUME NEW w \in Works,
             \/ \E req \in TransitionRequests : ReceiveTransition(t, w, req)
             \/ \E req \in TaskRequests : ReceiveTask(t, w, req)
      PROVE  Traced'
  <2>1. /\ handler'[t].step \in {"decide_transition", "decide_task"}
        /\ \A u \in Threads \ {t} : handler'[u] = handler[u]
        /\ state' = state
    BY <1>0, <1>2 DEF ReceiveTransition, ReceiveTask, Ask, TypeOK
  <2>2. \A u \in Threads : handler'[u].step \in Tracing => handler'[u] = handler[u]
    BY <2>1 DEF Tracing
  <2>3. QED
    BY <2>1, <2>2, TracedQuietStep
<1>3. ASSUME NEW w \in Works, RequestHandover(t, w)
      PROVE  Traced'
  <2>1. /\ CanServe(t, w)
        /\ Handover(state[w]) \in TraceRecord
        /\ state[w] \in WorkState
        /\ Start(t, "record_handover", w, state[w], Handover(state[w]))
        /\ state' = state
    BY <1>0, <1>3, RecordTypes DEF RequestHandover, CanServe, TypeOK
  <2>2. /\ handler'[t].step = "record_handover"
        /\ handler'[t].record = Handover(state[w])
        /\ \A u \in Threads \ {t} : handler'[u] = handler[u]
    BY <1>0, <2>1, StartKeepsType DEF Step
  <2>3. RecordsFirst(t)'
    BY <2>2 DEF RecordsFirst, Handover
  <2>4. (\A u \in Threads : RecordsFirst(u))'
    BY <2>2, <2>3, RecordsFirstStays
  <2>5. StateHasRecord'
    BY <2>1, RecordedStateStays DEF StateHasRecord
  <2>6. QED
    BY <2>4, <2>5, TypedStep DEF Traced
<1>4. QED
  BY <1>1, <1>2, <1>3 DEF Request

LEMMA TracedDecide ==
  ASSUME Traced, NEW t \in Threads, Decide(t), [Next]_vars
  PROVE  Traced'
<1>1. TypeOK
  BY DEF Traced, Typed
<1>2. state' = state
  BY <1>1, DecideStarts
<1>3. \/ Finish(t)
      \/ \E s \in {"record_transition", "record_block", "record_task"} :
           /\ handler'[t].step = s
           /\ \A u \in Threads \ {t} : handler'[u] = handler[u]
  BY <1>1, DecideStarts DEF Start, TypeOK
<1>4. \A u \in Threads : handler'[u].step \in Tracing => handler'[u] = handler[u]
  BY <1>1, <1>3, FinishLeaves DEF Tracing
<1>5. QED
  BY <1>2, <1>4, TracedQuietStep

LEMMA TracedStep == Traced /\ [Next]_vars => Traced'
<1> SUFFICES ASSUME Traced, [Next]_vars PROVE Traced'
  OBVIOUS
<1>1. ASSUME NEW t \in Threads, Crash(t)
      PROVE  Traced'
  <2>1. TypeOK /\ state' = state
    BY <1>1 DEF Crash, Traced, Typed
  <2>2. \A u \in Threads : handler'[u].step \in Tracing => handler'[u] = handler[u]
    BY <1>1, <2>1, FinishLeaves DEF Crash, Tracing
  <2>3. QED
    BY <2>1, <2>2, TracedQuietStep
<1>2. CASE UNCHANGED vars
  BY <1>2, TracedQuietStep DEF vars
<1>3. QED
  BY <1>1, <1>2, TracedCommit, TracedRequest, TracedDecide DEF Next, Rest

(***************************************************************************)
(* For every set of works, threads and requests, with any interleaving and *)
(* any crashes: whatever state a started work is in, a committed record of *)
(* its trace puts it there, so the trace alone explains the state          *)
(* (transition_work, _block_and_handover and request_handover record       *)
(* before they write).                                                     *)
(***************************************************************************)
THEOREM StateIsRecorded == Spec => []StateHasRecord
<1>1. Traced => StateHasRecord
  BY DEF Traced
<1>2. QED
  BY <1>1, TracedInit, TracedStep, PTL DEF Spec

-----------------------------------------------------------------------------
\* Counting records and handlers

\* How many of the first n records of sequence s are in P.
Hits(s, n, P) == {i \in 1 .. n : s[i] \in P}

Weight(b) == IF b THEN 1 ELSE 0

\* A sequence has finitely many records of a kind; one more counts for itself.
LEMMA HitsCounted ==
  ASSUME NEW R, NEW s \in Seq(R), NEW P, NEW n \in 0 .. Len(s)
  PROVE  IsFiniteSet(Hits(s, n, P)) /\ Cardinality(Hits(s, n, P)) \in Nat
<1>1. IsFiniteSet(1 .. n)
  BY FS_Interval
<1>2. Hits(s, n, P) \in SUBSET (1 .. n)
  BY DEF Hits
<1>3. QED
  BY <1>1, <1>2, FS_Subset, FS_CardinalityType

LEMMA HitsAppend ==
  ASSUME NEW R, NEW s \in Seq(R), NEW r \in R, NEW P
  PROVE  /\ Len(Append(s, r)) = Len(s) + 1
         /\ Cardinality(Hits(Append(s, r), Len(s) + 1, P)) =
              Cardinality(Hits(s, Len(s), P)) + Weight(r \in P)
         /\ \A n \in 1 .. Len(s) : Hits(Append(s, r), n, P) = Hits(s, n, P)
<1> DEFINE m == Len(s) + 1
           old == Hits(s, Len(s), P)
           new == Hits(Append(s, r), m, P)
<1>1. /\ Len(s) \in Nat
      /\ Len(Append(s, r)) = m
      /\ \A i \in 1 .. Len(s) : Append(s, r)[i] = s[i]
      /\ Append(s, r)[m] = r
  OBVIOUS
<1>2. \A n \in 1 .. Len(s) : Hits(Append(s, r), n, P) = Hits(s, n, P)
  BY <1>1 DEF Hits
<1>3. IsFiniteSet(old) /\ Cardinality(old) \in Nat
  BY <1>1, HitsCounted
<1>4. m \notin old
  BY <1>1 DEF Hits
<1>5. CASE r \in P
  <2>1. new = old \cup {m}
    BY <1>1, <1>5 DEF Hits
  <2>2. Cardinality(new) = Cardinality(old) + 1
    BY <1>3, <1>4, <2>1, FS_AddElement
  <2>3. QED
    BY <1>1, <1>2, <1>5, <2>2 DEF Weight
<1>6. CASE r \notin P
  <2>1. new = old
    BY <1>1, <1>6 DEF Hits
  <2>2. QED
    BY <1>1, <1>2, <1>3, <1>6, <2>1 DEF Weight
<1>7. QED
  BY <1>5, <1>6

\* A handler with a record of P for work w is at one of the steps.
Carries(h, w, steps, P) == h.step \in steps /\ h.work = w /\ h.record \in P

Carriers(w, steps, P) == {t \in Threads : Carries(handler[t], w, steps, P)}

\* When one handler moves, the carriers change by that handler.
LEMMA CarriersMove ==
  ASSUME NEW t \in Threads, \A u \in Threads \ {t} : handler'[u] = handler[u],
         NEW w, NEW steps, NEW P, IsFiniteSet(Carriers(w, steps, P))
  PROVE  /\ IsFiniteSet(Carriers(w, steps, P)')
         /\ Cardinality(Carriers(w, steps, P)) \in Nat
         /\ Cardinality(Carriers(w, steps, P)') \in Nat
         /\ Cardinality(Carriers(w, steps, P)') + Weight(Carries(handler[t], w, steps, P))
              = Cardinality(Carriers(w, steps, P))
                + Weight(Carries(handler'[t], w, steps, P))
<1> DEFINE old == Carriers(w, steps, P)
           new == Carriers(w, steps, P)'
           others == old \ {t}
<1>1. /\ t \in old <=> Carries(handler[t], w, steps, P)
      /\ t \in new <=> Carries(handler'[t], w, steps, P)
      /\ \A u \in Threads \ {t} : u \in old <=> u \in new
      /\ old \subseteq Threads /\ new \subseteq Threads
  BY DEF Carriers, Carries
<1> HIDE DEF old, new
<1>2. /\ IsFiniteSet(others)
      /\ Cardinality(old) \in Nat /\ Cardinality(others) \in Nat
      /\ Cardinality(others) + Weight(t \in old) = Cardinality(old)
  <2>1. /\ IsFiniteSet(others)
        /\ Cardinality(others) = IF t \in old THEN Cardinality(old) - 1 ELSE Cardinality(old)
    BY FS_RemoveElement DEF old
  <2>2. Cardinality(old) \in Nat /\ Cardinality(others) \in Nat
    BY <2>1, FS_CardinalityType DEF old
  <2>3. QED
    BY <2>1, <2>2 DEF Weight
<1>3. new = IF t \in new THEN others \cup {t} ELSE others
  BY <1>1
<1>4. /\ IsFiniteSet(new)
      /\ Cardinality(new) = Cardinality(others) + Weight(t \in new)
  <2>1. CASE t \in new
    <3>1. new = others \cup {t} /\ t \notin others
      BY <1>3, <2>1
    <3> HIDE DEF others
    <3>2. Cardinality(new) = Cardinality(others) + 1 /\ IsFiniteSet(new)
      BY <1>2, <3>1, FS_AddElement
    <3>3. QED
      BY <2>1, <3>2 DEF Weight
  <2>2. CASE t \notin new
    BY <1>2, <1>3, <2>2 DEF Weight
  <2>3. QED
    BY <2>1, <2>2
<1>5. Cardinality(new) \in Nat
  BY <1>4, FS_CardinalityType
<1>6. Weight(t \in old) = Weight(Carries(handler[t], w, steps, P))
      /\ Weight(t \in new) = Weight(Carries(handler'[t], w, steps, P))
  BY <1>1 DEF Weight
<1>7. Weight(t \in old) \in Nat /\ Weight(t \in new) \in Nat
  BY DEF Weight
<1>8. Cardinality(new) + Weight(t \in old) = Cardinality(old) + Weight(t \in new)
  BY <1>2, <1>4, <1>7
<1>9. QED
  BY <1>2, <1>4, <1>5, <1>6, <1>8 DEF old, new

-----------------------------------------------------------------------------
\* The ledger of a work: what its records and its handlers owe each other

RefusedTasks == {r \in TraceRecord : IsRefusedTask(r)}
Refusals     == {r \in TraceRecord : IsRefusal(r)}
Handovers    == {r \in TraceRecord : IsHandover(r)}
Applied      == {r \in TraceRecord : IsApplied(r)}
Tasks        == {r \in TraceRecord : IsTask(r)}

Counted(w, P) == Cardinality(Hits(trace[w], Len(trace[w]), P))

\* Where a handler of a refused task is after its refusal, or its handover, is recorded.
AfterRefusal  == {"write_blocked", "record_block_handover", "audit_block", "record_task"}
AfterHandover == {"audit_block", "record_task"}

\* The refused tasks on record, and those that will be, have a record of Q each.
Backing(w, steps, Q) ==
  /\ IsFiniteSet(Carriers(w, steps, RefusedTasks))
  /\ Counted(w, RefusedTasks) + Cardinality(Carriers(w, steps, RefusedTasks))
       <= Counted(w, Q)

\* The records of P are audited, or to be audited by a handler, or a handler died.
Accounting(w, type, P, steps) ==
  LET known == audits[w][type] + Cardinality(Carriers(w, steps, TraceRecord))
  IN  /\ IsFiniteSet(Carriers(w, steps, TraceRecord))
      /\ known <= Counted(w, P)
      /\ Counted(w, P) <= known + crashes

\* What a handler will append is of the kind that its step says.
RecordMatches(t) ==
  /\ At(t, "record_transition") => IsApplied(handler[t].record)
  /\ At(t, "record_task") => IsTask(handler[t].record)
  /\ At(t, "record_handover") => IsHandover(handler[t].record)

\* Up to every point of the trace a refused task has a record of Q of its own.
Covered(w, Q) ==
  \A n \in 1 .. Len(trace[w]) :
    Cardinality(Hits(trace[w], n, RefusedTasks)) <= Cardinality(Hits(trace[w], n, Q))

AfterTransition == {"write_state", "audit_transition"}
AfterBlock      == {"write_blocked", "record_block_handover", "audit_block"}
AfterTask       == {"audit_task"}

LedgerOf(w) ==
  /\ Covered(w, Refusals) /\ Covered(w, Handovers)
  /\ Backing(w, AfterRefusal, Refusals)
  /\ Backing(w, AfterHandover, Handovers)
  /\ Accounting(w, "WORK_TRANSITION", Applied, AfterTransition)
  /\ Accounting(w, "WORK_HANDOVER_REQUIRED", Refusals, AfterBlock)
  /\ Accounting(w, "WORK_TASK", Tasks, AfterTask)

(***************************************************************************)
(* The strengthening: every entry of the ledger balances, counting the     *)
(* handlers that have made one of its two entries.                         *)
(***************************************************************************)
Ledger ==
  /\ Typed
  /\ \A t \in Threads : RecordMatches(t)
  /\ \A w \in Works : LedgerOf(w)

LEMMA CountedType ==
  ASSUME TypeOK, NEW w \in Works, NEW P
  PROVE  Counted(w, P) \in Nat
<1>1. trace[w] \in Seq(TraceRecord) /\ Len(trace[w]) \in 0 .. Len(trace[w])
  BY DEF TypeOK
<1>2. QED
  BY <1>1, HitsCounted DEF Counted

LEMMA LedgerInit == Init => Ledger
<1> SUFFICES ASSUME Init PROVE Ledger
  OBVIOUS
<1>1. \A P : \A w \in Works : Counted(w, P) = 0
  <2> SUFFICES ASSUME NEW P, NEW w \in Works PROVE Counted(w, P) = 0
    OBVIOUS
  <2>1. Hits(trace[w], Len(trace[w]), P) = {}
    BY DEF Init, Hits
  <2>2. QED
    BY <2>1, FS_EmptySet DEF Counted
<1>2. \A w, P, steps :
        "idle" \notin steps =>
          IsFiniteSet(Carriers(w, steps, P)) /\ Cardinality(Carriers(w, steps, P)) = 0
  <2> SUFFICES ASSUME NEW w, NEW P, NEW steps, "idle" \notin steps
               PROVE  /\ IsFiniteSet(Carriers(w, steps, P))
                      /\ Cardinality(Carriers(w, steps, P)) = 0
    OBVIOUS
  <2>1. Carriers(w, steps, P) = {}
    BY DEF Init, Carriers, Carries, Idle
  <2>2. QED
    BY <2>1, FS_EmptySet
<1>3. \A w \in Works, type \in AuditType : audits[w][type] = 0
  BY DEF Init
<1>4. \A t \in Threads : RecordMatches(t)
  BY DEF Init, RecordMatches, At, Idle
<1>5. ASSUME NEW w \in Works PROVE LedgerOf(w)
  <2>1. Covered(w, Refusals) /\ Covered(w, Handovers)
    BY DEF Init, Covered
  <2>2. Backing(w, AfterRefusal, Refusals) /\ Backing(w, AfterHandover, Handovers)
    BY <1>1, <1>2 DEF Backing, AfterRefusal, AfterHandover
  <2>3. crashes = 0
    BY DEF Init
  <2>4. /\ Accounting(w, "WORK_TRANSITION", Applied, AfterTransition)
        /\ Accounting(w, "WORK_HANDOVER_REQUIRED", Refusals, AfterBlock)
        /\ Accounting(w, "WORK_TASK", Tasks, AfterTask)
    BY <1>1, <1>2, <1>3, <2>3
    DEF Accounting, AuditType, AfterTransition, AfterBlock, AfterTask
  <2>5. QED
    BY <2>1, <2>2, <2>4 DEF LedgerOf
<1>6. QED
  BY <1>4, <1>5, TypedInit DEF Ledger

\* One handler moves, and the records of each kind grow by its gain.
LEMMA BackingStep ==
  ASSUME TypeOK, TypeOK', NEW t \in Threads,
         \A u \in Threads \ {t} : handler'[u] = handler[u],
         NEW w \in Works, NEW steps, NEW Q, Backing(w, steps, Q),
         NEW gain \in Nat, Counted(w, RefusedTasks)' = Counted(w, RefusedTasks) + gain,
         NEW back \in Nat, Counted(w, Q)' = Counted(w, Q) + back,
         gain + Weight(Carries(handler'[t], w, steps, RefusedTasks))
           <= Weight(Carries(handler[t], w, steps, RefusedTasks)) + back
  PROVE  Backing(w, steps, Q)'
<1> DEFINE c  == Cardinality(Carriers(w, steps, RefusedTasks))
           cc == Cardinality(Carriers(w, steps, RefusedTasks)')
           x  == Weight(Carries(handler[t], w, steps, RefusedTasks))
           xx == Weight(Carries(handler'[t], w, steps, RefusedTasks))
           n  == Counted(w, RefusedTasks)
           m  == Counted(w, Q)
<1>1. /\ IsFiniteSet(Carriers(w, steps, RefusedTasks)')
      /\ c \in Nat /\ cc \in Nat /\ cc + x = c + xx
  BY CarriersMove DEF Backing
<1>2. x \in Nat /\ xx \in Nat
  BY DEF Weight
<1>3. n \in Nat /\ m \in Nat /\ n + c <= m
  BY CountedType DEF Backing
<1>4. gain + xx <= x + back
  OBVIOUS
<1> HIDE DEF c, cc, x, xx, n, m
<1>5. (n + gain) + cc <= m + back
  BY <1>1, <1>2, <1>3, <1>4
<1>6. QED
  BY <1>1, <1>5 DEF Backing, n, m, cc

LEMMA AccountingStep ==
  ASSUME TypeOK, TypeOK', NEW t \in Threads,
         \A u \in Threads \ {t} : handler'[u] = handler[u],
         NEW w \in Works, NEW type \in AuditType, NEW P, NEW steps,
         Accounting(w, type, P, steps),
         NEW gain \in Nat, Counted(w, P)' = Counted(w, P) + gain,
         audits'[w][type] + Weight(Carries(handler'[t], w, steps, TraceRecord))
           <= audits[w][type] + Weight(Carries(handler[t], w, steps, TraceRecord)) + gain,
         audits[w][type] + Weight(Carries(handler[t], w, steps, TraceRecord)) + gain + crashes
           <= audits'[w][type] + Weight(Carries(handler'[t], w, steps, TraceRecord)) + crashes'
  PROVE  Accounting(w, type, P, steps)'
<1> DEFINE c  == Cardinality(Carriers(w, steps, TraceRecord))
           cc == Cardinality(Carriers(w, steps, TraceRecord)')
           x  == Weight(Carries(handler[t], w, steps, TraceRecord))
           xx == Weight(Carries(handler'[t], w, steps, TraceRecord))
           n  == Counted(w, P)
           a  == audits[w][type]
           aa == audits'[w][type]
<1>1. /\ IsFiniteSet(Carriers(w, steps, TraceRecord)')
      /\ c \in Nat /\ cc \in Nat /\ cc + x = c + xx
  BY CarriersMove DEF Accounting
<1>2. x \in Nat /\ xx \in Nat
  BY DEF Weight
<1>3. n \in Nat /\ a + c <= n /\ n <= a + c + crashes
  BY CountedType DEF Accounting
<1>4. a \in Nat /\ aa \in Nat /\ crashes \in Nat /\ crashes' \in Nat
  BY DEF TypeOK
<1>5. aa + xx <= a + x + gain /\ a + x + gain + crashes <= aa + xx + crashes'
  OBVIOUS
<1> HIDE DEF c, cc, x, xx, n, a, aa
<1>6. aa + cc <= n + gain /\ n + gain <= aa + cc + crashes'
  BY <1>1, <1>2, <1>3, <1>4, <1>5
<1>7. QED
  BY <1>1, <1>6 DEF Accounting, n, aa, cc

-----------------------------------------------------------------------------
\* What one commit of one handler enters in the ledger

\* The trace of w grows by the records in new, of which there is at most one.
Grows(w, new) ==
  \/ new = {} /\ trace'[w] = trace[w]
  \/ \E r \in TraceRecord : new = {r} /\ trace'[w] = Append(trace[w], r)

Gain(new, P) == Weight(new \cap P # {})

\* A handler goes from h to hh: each entry keeps its balance.
BackingMoves(h, hh, w, new, steps, Q) ==
  Gain(new, RefusedTasks) + Weight(Carries(hh, w, steps, RefusedTasks))
    <= Weight(Carries(h, w, steps, RefusedTasks)) + Gain(new, Q)

AccountingMoves(h, hh, w, new, type, P, steps) ==
  LET before == audits[w][type] + Weight(Carries(h, w, steps, TraceRecord)) + Gain(new, P)
      after  == audits'[w][type] + Weight(Carries(hh, w, steps, TraceRecord))
  IN  after <= before /\ before + crashes <= after + crashes'

Moves(h, hh, w, new) ==
  /\ BackingMoves(h, hh, w, new, AfterRefusal, Refusals)
  /\ BackingMoves(h, hh, w, new, AfterHandover, Handovers)
  /\ AccountingMoves(h, hh, w, new, "WORK_TRANSITION", Applied, AfterTransition)
  /\ AccountingMoves(h, hh, w, new, "WORK_HANDOVER_REQUIRED", Refusals, AfterBlock)
  /\ AccountingMoves(h, hh, w, new, "WORK_TASK", Tasks, AfterTask)

\* What a new record adds to the counts, and what it leaves of the shorter traces.
LEMMA CountedGrows ==
  ASSUME TypeOK, NEW w \in Works, NEW new, Grows(w, new), NEW P
  PROVE  /\ Counted(w, P)' = Counted(w, P) + Gain(new, P)
         /\ Gain(new, P) \in Nat
         /\ \A n \in 1 .. Len(trace'[w]) :
              \/ n \in 1 .. Len(trace[w]) /\ Hits(trace'[w], n, P) = Hits(trace[w], n, P)
              \/ n = Len(trace'[w])
<1>0. /\ trace[w] \in Seq(TraceRecord) /\ Counted(w, P) \in Nat
      /\ Gain(new, P) \in Nat
  BY CountedType DEF TypeOK, Gain, Weight
<1>1. CASE new = {} /\ trace'[w] = trace[w]
  <2>1. Gain(new, P) = 0
    BY <1>1 DEF Gain, Weight
  <2>2. Counted(w, P)' = Counted(w, P)
    BY <1>1 DEF Counted
  <2>3. QED
    BY <1>0, <1>1, <2>1, <2>2
<1>2. ASSUME NEW r \in TraceRecord, new = {r}, trace'[w] = Append(trace[w], r)
      PROVE  /\ Counted(w, P)' = Counted(w, P) + Gain(new, P)
             /\ \A n \in 1 .. Len(trace'[w]) :
                  \/ n \in 1 .. Len(trace[w])
                       /\ Hits(trace'[w], n, P) = Hits(trace[w], n, P)
                  \/ n = Len(trace'[w])
  <2>1. Gain(new, P) = Weight(r \in P)
    BY <1>2 DEF Gain, Weight
  <2>2. /\ Len(trace'[w]) = Len(trace[w]) + 1
        /\ Counted(w, P)' = Counted(w, P) + Gain(new, P)
        /\ \A n \in 1 .. Len(trace[w]) : Hits(trace'[w], n, P) = Hits(trace[w], n, P)
    BY <1>0, <1>2, <2>1, HitsAppend DEF Counted
  <2>3. Len(trace[w]) \in Nat
    BY <1>0
  <2>4. \A n \in 1 .. Len(trace'[w]) : n \in 1 .. Len(trace[w]) \/ n = Len(trace'[w])
    BY <2>2, <2>3
  <2>5. QED
    BY <2>2, <2>4
<1>3. QED
  BY <1>0, <1>1, <1>2 DEF Grows

\* A trace that was covered, and whose whole is backed after it grew, is covered.
LEMMA CoveredStep ==
  ASSUME TypeOK, TypeOK', NEW w \in Works, NEW new, Grows(w, new), NEW steps, NEW Q,
         Covered(w, Q), Backing(w, steps, Q)'
  PROVE  Covered(w, Q)'
<1> SUFFICES ASSUME NEW n \in 1 .. Len(trace'[w])
             PROVE  Cardinality(Hits(trace'[w], n, RefusedTasks))
                      <= Cardinality(Hits(trace'[w], n, Q))
  BY DEF Covered
<1>1. CASE /\ n \in 1 .. Len(trace[w])
           /\ Hits(trace'[w], n, RefusedTasks) = Hits(trace[w], n, RefusedTasks)
           /\ Hits(trace'[w], n, Q) = Hits(trace[w], n, Q)
  BY <1>1 DEF Covered
<1>2. CASE n = Len(trace'[w])
  <2>1. /\ Counted(w, RefusedTasks)' \in Nat /\ Counted(w, Q)' \in Nat
    <3>1. trace'[w] \in Seq(TraceRecord) /\ Len(trace'[w]) \in 0 .. Len(trace'[w])
      BY DEF TypeOK
    <3>2. QED
      BY <3>1, HitsCounted DEF Counted
  <2>2. Cardinality(Carriers(w, steps, RefusedTasks)') \in Nat
    BY FS_CardinalityType DEF Backing
  <2>3. Counted(w, RefusedTasks)' <= Counted(w, Q)'
    BY <2>1, <2>2 DEF Backing
  <2>4. QED
    BY <1>2, <2>3 DEF Counted
<1>3. QED
  BY <1>1, <1>2, CountedGrows

LEMMA LedgerOfStep ==
  ASSUME TypeOK, TypeOK', NEW t \in Threads,
         \A u \in Threads \ {t} : handler'[u] = handler[u],
         NEW w \in Works, LedgerOf(w), NEW new, Grows(w, new),
         Moves(handler[t], handler'[t], w, new)
  PROVE  LedgerOf(w)'
<1>1. \A P : /\ Counted(w, P)' = Counted(w, P) + Gain(new, P)
             /\ Gain(new, P) \in Nat
  BY CountedGrows
<1>2. Backing(w, AfterRefusal, Refusals)'
  BY <1>1, BackingStep DEF LedgerOf, Moves, BackingMoves
<1>3. Backing(w, AfterHandover, Handovers)'
  BY <1>1, BackingStep DEF LedgerOf, Moves, BackingMoves
<1>4. ASSUME NEW type \in AuditType, NEW P, NEW steps, Accounting(w, type, P, steps),
             AccountingMoves(handler[t], handler'[t], w, new, type, P, steps)
      PROVE  Accounting(w, type, P, steps)'
  BY <1>1, <1>4, AccountingStep DEF AccountingMoves
<1>5. /\ Accounting(w, "WORK_TRANSITION", Applied, AfterTransition)'
      /\ Accounting(w, "WORK_HANDOVER_REQUIRED", Refusals, AfterBlock)'
      /\ Accounting(w, "WORK_TASK", Tasks, AfterTask)'
  BY <1>4 DEF LedgerOf, Moves, AuditType
<1>6. Covered(w, Refusals)' /\ Covered(w, Handovers)'
  BY <1>2, <1>3, CoveredStep DEF LedgerOf
<1>7. QED
  BY <1>2, <1>3, <1>5, <1>6 DEF LedgerOf

\* A commit that no entry is about leaves every balance as it is.
Entries == {AfterRefusal, AfterHandover, AfterTransition, AfterBlock, AfterTask}

AuditedTypes == {"WORK_TRANSITION", "WORK_HANDOVER_REQUIRED", "WORK_TASK"}

LEMMA QuietMoves ==
  ASSUME TypeOK, TypeOK', NEW w \in Works, NEW h, NEW hh,
         \A P : \A steps \in Entries : Carries(h, w, steps, P) <=> Carries(hh, w, steps, P),
         \A type \in AuditedTypes : audits'[w][type] = audits[w][type],
         crashes <= crashes'
  PROVE  Moves(h, hh, w, {})
<1>1. \A P : \A steps \in Entries :
        /\ Weight(Carries(h, w, steps, P)) = Weight(Carries(hh, w, steps, P))
        /\ Weight(Carries(h, w, steps, P)) \in Nat
  BY DEF Weight
<1>2. \A P : Gain({}, P) = 0
  BY DEF Gain, Weight
<1>3. \A type \in AuditedTypes : audits[w][type] \in Nat
  BY DEF TypeOK, AuditedTypes, AuditType
<1>4. crashes \in Nat /\ crashes' \in Nat
  BY DEF TypeOK
<1>5. \A P : \A type \in AuditedTypes, steps \in Entries :
        AccountingMoves(h, hh, w, {}, type, P, steps)
  BY <1>1, <1>2, <1>3, <1>4 DEF AccountingMoves
<1>6. \A Q : \A steps \in Entries : BackingMoves(h, hh, w, {}, steps, Q)
  BY <1>1, <1>2 DEF BackingMoves
<1>7. /\ AfterRefusal \in Entries /\ AfterHandover \in Entries /\ AfterTransition \in Entries
      /\ AfterBlock \in Entries /\ AfterTask \in Entries
      /\ "WORK_TRANSITION" \in AuditedTypes /\ "WORK_HANDOVER_REQUIRED" \in AuditedTypes
      /\ "WORK_TASK" \in AuditedTypes
  BY DEF Entries, AuditedTypes
<1>8. /\ BackingMoves(h, hh, w, {}, AfterRefusal, Refusals)
      /\ BackingMoves(h, hh, w, {}, AfterHandover, Handovers)
  BY <1>6, <1>7
<1>9. /\ AccountingMoves(h, hh, w, {}, "WORK_TRANSITION", Applied, AfterTransition)
      /\ AccountingMoves(h, hh, w, {}, "WORK_HANDOVER_REQUIRED", Refusals, AfterBlock)
      /\ AccountingMoves(h, hh, w, {}, "WORK_TASK", Tasks, AfterTask)
  BY <1>5, <1>7
<1>10. QED
  BY <1>8, <1>9 DEF Moves

\* A handler that is at no commit, or serves another work, has nothing for w.
Elsewhere(h, w) == h.step \notin Step \/ h.work # w

LEMMA ElsewhereCarries ==
  ASSUME NEW w, NEW h, Elsewhere(h, w)
  PROVE  \A P : \A steps \in Entries : ~Carries(h, w, steps, P)
BY DEF Elsewhere, Carries, Entries, AfterRefusal, AfterHandover, AfterTransition,
       AfterBlock, AfterTask, Step

\* One commit, for one work, that keeps the balances keeps the ledger.
LEMMA LedgerMove ==
  ASSUME Ledger, Typed', NEW t \in Threads,
         \A u \in Threads \ {t} : handler'[u] = handler[u], RecordMatches(t)',
         crashes <= crashes', NEW w \in Works,
         \A v \in Works \ {w} :
           /\ trace'[v] = trace[v] /\ audits'[v] = audits[v]
           /\ Elsewhere(handler[t], v) /\ Elsewhere(handler'[t], v),
         NEW new, Grows(w, new), Moves(handler[t], handler'[t], w, new)
  PROVE  Ledger'
<1>1. TypeOK /\ TypeOK' /\ \A v \in Works : LedgerOf(v)
  BY DEF Ledger, Typed
<1>2. LedgerOf(w)'
  BY <1>1, LedgerOfStep
<1>3. ASSUME NEW v \in Works \ {w} PROVE LedgerOf(v)'
  <2>1. Grows(v, {})
    BY DEF Grows
  <2>2. Moves(handler[t], handler'[t], v, {})
    <3>1. \A P : \A steps \in Entries :
            Carries(handler[t], v, steps, P) <=> Carries(handler'[t], v, steps, P)
      BY ElsewhereCarries
    <3>2. QED
      BY <1>1, <3>1, QuietMoves
  <2>3. QED
    BY <1>1, <2>1, <2>2, LedgerOfStep
<1>4. ASSUME NEW u \in Threads PROVE RecordMatches(u)'
  BY DEF Ledger, RecordMatches, At
<1>5. QED
  BY <1>2, <1>3, <1>4 DEF Ledger

\* So does a commit of a busy handler for the work it serves.
LEMMA LedgerCommitMove ==
  ASSUME Ledger, Typed', NEW t \in Threads, handler[t] \in Busy,
         (\E s \in Step : Goto(t, s)) \/ Finish(t), RecordMatches(t)', crashes <= crashes',
         \A v \in Works \ {handler[t].work} : trace'[v] = trace[v] /\ audits'[v] = audits[v],
         NEW new, Grows(handler[t].work, new),
         Moves(handler[t], handler'[t], handler[t].work, new)
  PROVE  Ledger'
<1>1. TypeOK
  BY DEF Ledger, Typed
<1>2. \A u \in Threads \ {t} : handler'[u] = handler[u]
  BY <1>1, GotoKeepsType, FinishKeepsType
<1>3. handler[t].work \in Works
  BY DEF Busy
<1>4. \A v \in Works \ {handler[t].work} :
        Elsewhere(handler[t], v) /\ Elsewhere(handler'[t], v)
  BY <1>1, GotoKeepsType, FinishKeepsType DEF Elsewhere, Idle, Step
<1>5. QED
  BY <1>2, <1>3, <1>4, LedgerMove

\* The gains of each kind of record.
LEMMA Gains ==
  ASSUME NEW r \in TraceRecord
  PROVE  /\ IsApplied(r) => /\ Gain({r}, RefusedTasks) = 0 /\ Gain({r}, Refusals) = 0
                            /\ Gain({r}, Handovers) = 0 /\ Gain({r}, Applied) = 1
                            /\ Gain({r}, Tasks) = 0
         /\ IsRefusal(r) => /\ Gain({r}, RefusedTasks) = 0 /\ Gain({r}, Refusals) = 1
                            /\ Gain({r}, Handovers) = 0 /\ Gain({r}, Applied) = 0
                            /\ Gain({r}, Tasks) = 0
         /\ IsHandover(r) => /\ Gain({r}, RefusedTasks) = 0 /\ Gain({r}, Refusals) = 0
                             /\ Gain({r}, Handovers) = 1 /\ Gain({r}, Applied) = 0
                             /\ Gain({r}, Tasks) = 0
         /\ IsTask(r) => /\ Gain({r}, RefusedTasks) = Weight(r \in RefusedTasks)
                         /\ Gain({r}, Refusals) = 0
                         /\ Gain({r}, Handovers) = 0 /\ Gain({r}, Applied) = 0
                         /\ Gain({r}, Tasks) = 1
<1>1. \A P : {r} \cap P # {} <=> r \in P
  OBVIOUS
<1>2. /\ r \in RefusedTasks <=> IsRefusedTask(r)
      /\ r \in Refusals <=> IsRefusal(r)
      /\ r \in Handovers <=> IsHandover(r)
      /\ r \in Applied <=> IsApplied(r)
      /\ r \in Tasks <=> IsTask(r)
  BY DEF RefusedTasks, Refusals, Handovers, Applied, Tasks
<1>3. QED
  BY <1>1, <1>2 DEF Gain, Weight, IsRefusedTask, IsRefusal, IsHandover, IsApplied, IsTask

\* The weight of handler h of w in each of the five entries.
Carried(h, w, refusal, handover, transition, block, task) ==
  /\ Weight(Carries(h, w, AfterRefusal, RefusedTasks)) = refusal
  /\ Weight(Carries(h, w, AfterHandover, RefusedTasks)) = handover
  /\ Weight(Carries(h, w, AfterTransition, TraceRecord)) = transition
  /\ Weight(Carries(h, w, AfterBlock, TraceRecord)) = block
  /\ Weight(Carries(h, w, AfterTask, TraceRecord)) = task

LEMMA CarriedNothing ==
  ASSUME NEW h, NEW w, \A steps \in Entries : h.step \notin steps
  PROVE  Carried(h, w, 0, 0, 0, 0, 0)
<1>1. \A P : \A steps \in Entries : Weight(Carries(h, w, steps, P)) = 0
  BY DEF Carries, Weight
<1>2. QED
  BY <1>1 DEF Carried, Entries

LEMMA CarriedAt ==
  ASSUME NEW h, NEW w, h.work = w, h.record \in TraceRecord
  PROVE  LET q == Weight(h.record \in RefusedTasks)
         IN  /\ h.step \in AfterTransition => Carried(h, w, 0, 0, 1, 0, 0)
             /\ h.step \in {"write_blocked", "record_block_handover"} =>
                  Carried(h, w, q, 0, 0, 1, 0)
             /\ h.step = "audit_block" => Carried(h, w, q, q, 0, 1, 0)
             /\ h.step = "record_task" => Carried(h, w, q, q, 0, 0, 0)
             /\ h.step = "audit_task" => Carried(h, w, 0, 0, 0, 0, 1)
<1> DEFINE q == Weight(h.record \in RefusedTasks)
<1>1. \A steps, P :
        Weight(Carries(h, w, steps, P)) =
          IF h.step \in steps THEN Weight(h.record \in P) ELSE 0
  BY DEF Weight, Carries
<1>2. Weight(h.record \in TraceRecord) = 1
  BY DEF Weight
<1>3. Carried(h, w,
              IF h.step \in AfterRefusal THEN q ELSE 0,
              IF h.step \in AfterHandover THEN q ELSE 0,
              IF h.step \in AfterTransition THEN 1 ELSE 0,
              IF h.step \in AfterBlock THEN 1 ELSE 0,
              IF h.step \in AfterTask THEN 1 ELSE 0)
  BY <1>1, <1>2 DEF Carried
<1> HIDE DEF q
<1>4. QED
  BY <1>3
  DEF q, Carried, AfterRefusal, AfterHandover, AfterTransition, AfterBlock, AfterTask

LEMMA AuditsAreNumbers ==
  ASSUME TypeOK, NEW w \in Works
  PROVE  \A type \in AuditedTypes : audits[w][type] \in Nat
BY DEF TypeOK, AuditType, AuditedTypes

\* A busy handler appends r and goes on to step s.
LEMMA LedgerAppend ==
  ASSUME Ledger, Typed', NEW t \in Threads, handler[t] \in Busy, NEW r \in TraceRecord,
         Append1(handler[t].work, r), NEW s \in Step, Goto(t, s),
         UNCHANGED <<audits, crashes>>,
         s \notin {"record_transition", "record_task", "record_handover"},
         Moves(handler[t], handler'[t], handler[t].work, {r})
  PROVE  Ledger'
<1>1. TypeOK /\ handler[t].work \in Works
  BY DEF Ledger, Typed, Busy
<1>2. handler'[t].step = s
  BY <1>1, GotoKeepsType
<1>3. RecordMatches(t)'
  BY <1>2 DEF RecordMatches, At
<1>4. /\ Grows(handler[t].work, {r})
      /\ \A v \in Works \ {handler[t].work} : trace'[v] = trace[v]
  BY <1>1, AppendKeepsType DEF Grows
<1>5. crashes <= crashes' /\ \A v \in Works : audits'[v] = audits[v]
  BY <1>1 DEF TypeOK
<1>6. QED
  BY <1>3, <1>4, <1>5, LedgerCommitMove

\* The five commits that append a record.
LEMMA LedgerRecord ==
  ASSUME Ledger, Typed', NEW t \in Threads,
         \/ RecordTransition(t) \/ RecordBlock(t) \/ RecordBlockHandover(t)
         \/ RecordTask(t) \/ RecordHandover(t)
  PROVE  Ledger'
<1> DEFINE w == handler[t].work
           r == handler[t].record
           q == Weight(r \in RefusedTasks)
<1>1. /\ TypeOK /\ RecordMatches(t) /\ handler[t] \in Busy /\ w \in Works
      /\ r \in TraceRecord /\ handler[t].read \in WorkState
  <2>1. TypeOK /\ RecordMatches(t)
    BY DEF Ledger, Typed
  <2>2. handler[t] \in Busy
    BY <2>1, AtIsBusy
    DEF RecordTransition, RecordBlock, RecordBlockHandover, RecordTask, RecordHandover, Step
  <2>3. QED
    BY <2>1, <2>2 DEF Busy
<1>2. q \in {0, 1}
  BY DEF Weight
<1>3. /\ audits' = audits /\ crashes' = crashes /\ crashes \in Nat
      /\ audits[w]["WORK_TRANSITION"] \in Nat
      /\ audits[w]["WORK_HANDOVER_REQUIRED"] \in Nat /\ audits[w]["WORK_TASK"] \in Nat
  BY <1>1
  DEF RecordTransition, RecordBlock, RecordBlockHandover, RecordTask, RecordHandover, TypeOK,
      AuditType
<1>4. ASSUME NEW s \in Step, Goto(t, s)
      PROVE  handler'[t].step = s /\ handler'[t].work = w /\ handler'[t].record = r
  BY <1>1, <1>4, GotoKeepsType
<1>5. CASE RecordTransition(t)
  <2>1. IsApplied(r) /\ handler[t].step = "record_transition"
    BY <1>1, <1>5 DEF RecordTransition, RecordMatches, At
  <2>2. Carried(handler[t], w, 0, 0, 0, 0, 0)
    BY <2>1, CarriedNothing
    DEF Entries, AfterRefusal, AfterHandover, AfterTransition, AfterBlock, AfterTask
  <2>3. Carried(handler'[t], w, 0, 0, 1, 0, 0)
    BY <1>1, <1>4, <1>5, CarriedAt DEF RecordTransition, AfterTransition, Step
  <2>4. /\ Gain({r}, RefusedTasks) = 0 /\ Gain({r}, Refusals) = 0 /\ Gain({r}, Handovers) = 0
        /\ Gain({r}, Applied) = 1 /\ Gain({r}, Tasks) = 0
    BY <1>1, <2>1, Gains
  <2>5. Moves(handler[t], handler'[t], w, {r})
    BY <1>3, <2>2, <2>3, <2>4 DEF Moves, BackingMoves, AccountingMoves, Carried
  <2>6. QED
    BY <1>1, <1>5, <2>5, LedgerAppend DEF RecordTransition, Step
<1>6. CASE RecordBlock(t)
  <2> DEFINE b == BlockTransition(handler[t].read)
  <2>1. /\ b \in TraceRecord /\ IsRefusal(b)
        /\ handler[t].step = "record_block"
    BY <1>1, <1>6, RecordTypes DEF RecordBlock, At, BlockTransition, IsRefusal
  <2>2. Carried(handler[t], w, 0, 0, 0, 0, 0)
    BY <2>1, CarriedNothing
    DEF Entries, AfterRefusal, AfterHandover, AfterTransition, AfterBlock, AfterTask
  <2>3. Carried(handler'[t], w, q, 0, 0, 1, 0)
    BY <1>1, <1>4, <1>6, CarriedAt DEF RecordBlock, Step
  <2> HIDE DEF b, q
  <2>4. /\ Gain({b}, RefusedTasks) = 0 /\ Gain({b}, Refusals) = 1 /\ Gain({b}, Handovers) = 0
        /\ Gain({b}, Applied) = 0 /\ Gain({b}, Tasks) = 0
    BY <2>1, Gains
  <2>5. Moves(handler[t], handler'[t], w, {b})
    BY <1>2, <1>3, <2>2, <2>3, <2>4 DEF Moves, BackingMoves, AccountingMoves, Carried
  <2>6. QED
    BY <1>1, <1>6, <2>1, <2>5, LedgerAppend DEF RecordBlock, Step, b
<1>7. CASE RecordBlockHandover(t)
  <2> DEFINE b == Handover(handler[t].read)
  <2>1. /\ b \in TraceRecord /\ IsHandover(b)
        /\ handler[t].step = "record_block_handover"
    BY <1>1, <1>7, RecordTypes DEF RecordBlockHandover, At, Handover, IsHandover
  <2>2. Carried(handler[t], w, q, 0, 0, 1, 0)
    BY <1>1, <2>1, CarriedAt
  <2>3. Carried(handler'[t], w, q, q, 0, 1, 0)
    BY <1>1, <1>4, <1>7, CarriedAt DEF RecordBlockHandover, Step
  <2> HIDE DEF b, q
  <2>4. /\ Gain({b}, RefusedTasks) = 0 /\ Gain({b}, Refusals) = 0 /\ Gain({b}, Handovers) = 1
        /\ Gain({b}, Applied) = 0 /\ Gain({b}, Tasks) = 0
    BY <2>1, Gains
  <2>5. Moves(handler[t], handler'[t], w, {b})
    BY <1>2, <1>3, <2>2, <2>3, <2>4 DEF Moves, BackingMoves, AccountingMoves, Carried
  <2>6. QED
    BY <1>1, <1>7, <2>1, <2>5, LedgerAppend DEF RecordBlockHandover, Step, b
<1>8. CASE RecordTask(t)
  <2>1. IsTask(r) /\ handler[t].step = "record_task"
    BY <1>1, <1>8 DEF RecordTask, RecordMatches, At
  <2>2. Carried(handler[t], w, q, q, 0, 0, 0)
    BY <1>1, <2>1, CarriedAt
  <2>3. Carried(handler'[t], w, 0, 0, 0, 0, 1)
    BY <1>1, <1>4, <1>8, CarriedAt DEF RecordTask, Step
  <2>4. /\ Gain({r}, RefusedTasks) = q /\ Gain({r}, Refusals) = 0 /\ Gain({r}, Handovers) = 0
        /\ Gain({r}, Applied) = 0 /\ Gain({r}, Tasks) = 1
    BY <1>1, <2>1, Gains
  <2> HIDE DEF q
  <2>5. Moves(handler[t], handler'[t], w, {r})
    BY <1>2, <1>3, <2>2, <2>3, <2>4
    DEF Moves, BackingMoves, AccountingMoves, Carried
  <2>6. QED
    BY <1>1, <1>8, <2>5, LedgerAppend DEF RecordTask, Step
<1>9. CASE RecordHandover(t)
  <2>1. IsHandover(r) /\ handler[t].step = "record_handover"
    BY <1>1, <1>9 DEF RecordHandover, RecordMatches, At
  <2>2. handler'[t].step = "write_handed_over"
    BY <1>4, <1>9 DEF RecordHandover, Step
  <2>3. Carried(handler[t], w, 0, 0, 0, 0, 0) /\ Carried(handler'[t], w, 0, 0, 0, 0, 0)
    BY <2>1, <2>2, CarriedNothing
    DEF Entries, AfterRefusal, AfterHandover, AfterTransition, AfterBlock, AfterTask
  <2>4. /\ Gain({r}, RefusedTasks) = 0 /\ Gain({r}, Refusals) = 0 /\ Gain({r}, Handovers) = 1
        /\ Gain({r}, Applied) = 0 /\ Gain({r}, Tasks) = 0
    BY <1>1, <2>1, Gains
  <2>5. Moves(handler[t], handler'[t], w, {r})
    BY <1>3, <2>3, <2>4 DEF Moves, BackingMoves, AccountingMoves, Carried
  <2>6. QED
    BY <1>1, <1>9, <2>5, LedgerAppend DEF RecordHandover, Step
<1>10. QED
  BY <1>5, <1>6, <1>7, <1>8, <1>9

\* A busy handler appends nothing and audits an event, or does neither.
LEMMA LedgerNoAppend ==
  ASSUME Ledger, Typed', NEW t \in Threads, handler[t] \in Busy,
         (\E s \in Step : Goto(t, s)) \/ Finish(t), RecordMatches(t)',
         UNCHANGED <<trace, crashes>>,
         \A v \in Works \ {handler[t].work} : audits'[v] = audits[v],
         Moves(handler[t], handler'[t], handler[t].work, {})
  PROVE  Ledger'
<1>1. TypeOK
  BY DEF Ledger, Typed
<1>2. crashes <= crashes' /\ Grows(handler[t].work, {})
  BY <1>1 DEF TypeOK, Grows
<1>3. QED
  BY <1>2, LedgerCommitMove

\* An audit event is counted, and nothing else.
LEMMA AuditCounts ==
  ASSUME TypeOK, NEW w \in Works, NEW type \in AuditType, Audit(w, type)
  PROVE  /\ audits'[w][type] = audits[w][type] + 1
         /\ \A other \in AuditType \ {type} : audits'[w][other] = audits[w][other]
         /\ \A v \in Works \ {w} : audits'[v] = audits[v]
BY DEF TypeOK, Audit

\* The three commits that audit what the ledger accounts for.
LEMMA LedgerAudit ==
  ASSUME Ledger, Typed', NEW t \in Threads,
         AuditTransition(t) \/ AuditBlock(t) \/ AuditTask(t)
  PROVE  Ledger'
<1> DEFINE w == handler[t].work
           r == handler[t].record
           q == Weight(r \in RefusedTasks)
<1>1. /\ TypeOK /\ handler[t] \in Busy /\ w \in Works /\ r \in TraceRecord
      /\ crashes' = crashes /\ trace' = trace /\ crashes \in Nat
  <2>1. TypeOK
    BY DEF Ledger, Typed
  <2>2. handler[t] \in Busy
    BY <2>1, AtIsBusy DEF AuditTransition, AuditBlock, AuditTask, Step
  <2>3. QED
    BY <2>1, <2>2 DEF Busy, TypeOK, AuditTransition, AuditBlock, AuditTask
<1>2. q \in {0, 1}
  BY DEF Weight
<1>3. /\ audits[w]["WORK_TRANSITION"] \in Nat
      /\ audits[w]["WORK_HANDOVER_REQUIRED"] \in Nat /\ audits[w]["WORK_TASK"] \in Nat
  BY <1>1 DEF TypeOK, AuditType
<1>4. ASSUME Finish(t)
      PROVE  Carried(handler'[t], w, 0, 0, 0, 0, 0) /\ RecordMatches(t)'
  <2>1. handler'[t].step = "idle"
    BY <1>1, <1>4, FinishKeepsType DEF Idle
  <2>2. RecordMatches(t)'
    BY <2>1 DEF RecordMatches, At
  <2>3. Carried(handler'[t], w, 0, 0, 0, 0, 0)
    BY <2>1, CarriedNothing
    DEF Entries, AfterRefusal, AfterHandover, AfterTransition, AfterBlock, AfterTask
  <2>4. QED
    BY <2>2, <2>3
<1>5. \A P : Gain({}, P) = 0
  BY DEF Gain, Weight
<1>6. CASE AuditTransition(t)
  <2>1. Carried(handler[t], w, 0, 0, 1, 0, 0)
    BY <1>1, <1>6, CarriedAt DEF AuditTransition, At, AfterTransition
  <2>2. /\ audits'[w]["WORK_TRANSITION"] = audits[w]["WORK_TRANSITION"] + 1
        /\ audits'[w]["WORK_HANDOVER_REQUIRED"] = audits[w]["WORK_HANDOVER_REQUIRED"]
        /\ audits'[w]["WORK_TASK"] = audits[w]["WORK_TASK"]
        /\ \A v \in Works \ {w} : audits'[v] = audits[v]
    BY <1>1, <1>6, AuditCounts DEF AuditTransition, AuditType
  <2>3. Moves(handler[t], handler'[t], w, {})
    BY <1>1, <1>3, <1>4, <1>5, <1>6, <2>1, <2>2
    DEF AuditTransition, Moves, BackingMoves, AccountingMoves, Carried
  <2>4. QED
    BY <1>1, <1>4, <1>6, <2>2, <2>3, LedgerNoAppend DEF AuditTransition
<1>7. CASE AuditBlock(t)
  <2>1. Carried(handler[t], w, q, q, 0, 1, 0)
    BY <1>1, <1>7, CarriedAt DEF AuditBlock, At
  <2>2. /\ audits'[w]["WORK_TRANSITION"] = audits[w]["WORK_TRANSITION"]
        /\ audits'[w]["WORK_HANDOVER_REQUIRED"] = audits[w]["WORK_HANDOVER_REQUIRED"] + 1
        /\ audits'[w]["WORK_TASK"] = audits[w]["WORK_TASK"]
        /\ \A v \in Works \ {w} : audits'[v] = audits[v]
    BY <1>1, <1>7, AuditCounts DEF AuditBlock, AuditType
  <2>3. CASE Finish(t)
    <3> HIDE DEF q
    <3>1. Moves(handler[t], handler'[t], w, {})
      BY <1>1, <1>2, <1>3, <1>4, <1>5, <2>1, <2>2, <2>3
      DEF Moves, BackingMoves, AccountingMoves, Carried
    <3>2. QED
      BY <1>1, <1>4, <1>7, <2>2, <2>3, <3>1, LedgerNoAppend DEF AuditBlock
  <2>4. CASE Goto(t, "record_task") /\ r.event = "TASK"
    <3>1. /\ handler'[t].step = "record_task" /\ handler'[t].work = w
          /\ handler'[t].record = r
      BY <1>1, <2>4, GotoKeepsType DEF Step
    <3>2. Carried(handler'[t], w, q, q, 0, 0, 0)
      BY <1>1, <3>1, CarriedAt
    <3>3. RecordMatches(t)'
      BY <2>4, <3>1 DEF RecordMatches, At, IsTask
    <3> HIDE DEF q
    <3>4. Moves(handler[t], handler'[t], w, {})
      BY <1>1, <1>2, <1>3, <1>5, <2>1, <2>2, <3>2
      DEF Moves, BackingMoves, AccountingMoves, Carried
    <3>5. QED
      BY <1>1, <1>7, <2>2, <2>4, <3>3, <3>4, LedgerNoAppend DEF AuditBlock, Step
  <2>5. QED
    BY <1>7, <2>3, <2>4 DEF AuditBlock
<1>8. CASE AuditTask(t)
  <2>1. Carried(handler[t], w, 0, 0, 0, 0, 1)
    BY <1>1, <1>8, CarriedAt DEF AuditTask, At
  <2>2. /\ audits'[w]["WORK_TRANSITION"] = audits[w]["WORK_TRANSITION"]
        /\ audits'[w]["WORK_HANDOVER_REQUIRED"] = audits[w]["WORK_HANDOVER_REQUIRED"]
        /\ audits'[w]["WORK_TASK"] = audits[w]["WORK_TASK"] + 1
        /\ \A v \in Works \ {w} : audits'[v] = audits[v]
    BY <1>1, <1>8, AuditCounts DEF AuditTask, AuditType
  <2>3. Moves(handler[t], handler'[t], w, {})
    BY <1>1, <1>3, <1>4, <1>5, <1>8, <2>1, <2>2
    DEF AuditTask, Moves, BackingMoves, AccountingMoves, Carried
  <2>4. QED
    BY <1>1, <1>4, <1>8, <2>2, <2>3, LedgerNoAppend DEF AuditTask
<1>9. QED
  BY <1>6, <1>7, <1>8

\* The handler weighs the same before and after.
SameWeights(h, hh, w) ==
  \E a, b, c \in {0, 1} : Carried(h, w, a, 0, b, c, 0) /\ Carried(hh, w, a, 0, b, c, 0)

\* A handler whose weights stay as they are, and that records and audits nothing of the ledger.
LEMMA LedgerQuiet ==
  ASSUME Ledger, Typed', NEW t \in Threads,
         \A u \in Threads \ {t} : handler'[u] = handler[u], RecordMatches(t)',
         UNCHANGED <<trace, crashes>>, NEW w \in Works,
         \A type \in AuditedTypes : audits'[w][type] = audits[w][type],
         \A v \in Works \ {w} :
           /\ audits'[v] = audits[v]
           /\ Elsewhere(handler[t], v) /\ Elsewhere(handler'[t], v),
         SameWeights(handler[t], handler'[t], w)
  PROVE  Ledger'
<1>1. TypeOK /\ crashes \in Nat /\ crashes <= crashes'
  BY DEF Ledger, Typed, TypeOK
<1>2. Grows(w, {}) /\ \A v \in Works : trace'[v] = trace[v]
  BY DEF Grows
<1>3. \A P : Gain({}, P) = 0
  BY DEF Gain, Weight
<1>4. /\ audits[w]["WORK_TRANSITION"] \in Nat
      /\ audits[w]["WORK_HANDOVER_REQUIRED"] \in Nat /\ audits[w]["WORK_TASK"] \in Nat
  BY <1>1 DEF TypeOK, AuditType
<1>5. /\ audits'[w]["WORK_TRANSITION"] = audits[w]["WORK_TRANSITION"]
      /\ audits'[w]["WORK_HANDOVER_REQUIRED"] = audits[w]["WORK_HANDOVER_REQUIRED"]
      /\ audits'[w]["WORK_TASK"] = audits[w]["WORK_TASK"]
  BY DEF AuditedTypes
<1>6. Moves(handler[t], handler'[t], w, {})
  <2>1. PICK a, b, c \in {0, 1} :
          Carried(handler[t], w, a, 0, b, c, 0) /\ Carried(handler'[t], w, a, 0, b, c, 0)
    BY DEF SameWeights
  <2>2. QED
    BY <1>1, <1>3, <1>4, <1>5, <2>1 DEF Moves, BackingMoves, AccountingMoves, Carried
<1>7. QED
  BY <1>1, <1>2, <1>6, LedgerMove

\* The commits that write a state or audit what the ledger leaves out.
LEMMA LedgerWrite ==
  ASSUME Ledger, Typed', NEW t \in Threads,
         \/ WriteState(t) \/ WriteBlocked(t) \/ WriteHandedOver(t)
         \/ AuditCreated(t) \/ AuditHandover(t)
  PROVE  Ledger'
<1> DEFINE w == handler[t].work
           r == handler[t].record
           q == Weight(r \in RefusedTasks)
<1>1. /\ TypeOK /\ handler[t] \in Busy /\ w \in Works /\ r \in TraceRecord
      /\ UNCHANGED <<trace, crashes>>
  <2>1. TypeOK
    BY DEF Ledger, Typed
  <2>2. handler[t] \in Busy
    BY <2>1, AtIsBusy
    DEF WriteState, WriteBlocked, WriteHandedOver, AuditCreated, AuditHandover, Step
  <2>3. QED
    BY <2>1, <2>2
    DEF Busy, WriteState, WriteBlocked, WriteHandedOver, AuditCreated, AuditHandover
<1>2. q \in {0, 1}
  BY DEF Weight
<1>3. /\ \A type \in AuditedTypes : audits'[w][type] = audits[w][type]
      /\ \A v \in Works \ {w} : audits'[v] = audits[v]
  <2>1. CASE Audit(w, "WORK_CREATED") \/ Audit(w, "WORK_HANDOVER")
    BY <1>1, <2>1, AuditCounts DEF AuditType, AuditedTypes
  <2>2. CASE audits' = audits
    BY <2>2
  <2>3. QED
    BY <2>1, <2>2
    DEF WriteState, WriteBlocked, WriteHandedOver, AuditCreated, AuditHandover
<1>4. ASSUME handler'[t].step \notin {"record_transition", "record_task", "record_handover"},
             \A u \in Threads \ {t} : handler'[u] = handler[u],
             handler'[t].step \notin Step \/ handler'[t].work = w,
             SameWeights(handler[t], handler'[t], w)
      PROVE  Ledger'
  <2>1. RecordMatches(t)'
    BY <1>4 DEF RecordMatches, At
  <2>2. \A v \in Works \ {w} : Elsewhere(handler[t], v) /\ Elsewhere(handler'[t], v)
    BY <1>4 DEF Elsewhere
  <2>3. QED
    BY <1>1, <1>3, <1>4, <2>1, <2>2, LedgerQuiet
<1>5. CASE WriteState(t)
  <2>1. /\ handler[t].step = "write_state" /\ handler'[t].step = "audit_transition"
        /\ handler'[t].work = w /\ handler'[t].record = r
        /\ \A u \in Threads \ {t} : handler'[u] = handler[u]
    BY <1>1, <1>5, GotoKeepsType DEF WriteState, At, Step
  <2>2. Carried(handler[t], w, 0, 0, 1, 0, 0) /\ Carried(handler'[t], w, 0, 0, 1, 0, 0)
    BY <1>1, <2>1, CarriedAt DEF AfterTransition
  <2>3. QED
    BY <1>2, <1>4, <2>1, <2>2 DEF SameWeights
<1>6. CASE WriteBlocked(t)
  <2>1. /\ handler[t].step = "write_blocked" /\ handler'[t].step = "record_block_handover"
        /\ handler'[t].work = w /\ handler'[t].record = r
        /\ \A u \in Threads \ {t} : handler'[u] = handler[u]
    BY <1>1, <1>6, GotoKeepsType DEF WriteBlocked, At, Step
  <2>2. Carried(handler[t], w, q, 0, 0, 1, 0) /\ Carried(handler'[t], w, q, 0, 0, 1, 0)
    BY <1>1, <2>1, CarriedAt
  <2> HIDE DEF q
  <2>3. QED
    BY <1>2, <1>4, <2>1, <2>2 DEF SameWeights
<1>7. CASE WriteHandedOver(t)
  <2>1. /\ handler[t].step = "write_handed_over" /\ handler'[t].step = "audit_handover"
        /\ handler'[t].work = w
        /\ \A u \in Threads \ {t} : handler'[u] = handler[u]
    BY <1>1, <1>7, GotoKeepsType DEF WriteHandedOver, At, Step
  <2>2. Carried(handler[t], w, 0, 0, 0, 0, 0) /\ Carried(handler'[t], w, 0, 0, 0, 0, 0)
    BY <2>1, CarriedNothing
    DEF Entries, AfterRefusal, AfterHandover, AfterTransition, AfterBlock, AfterTask
  <2>3. QED
    BY <1>2, <1>4, <2>1, <2>2 DEF SameWeights
<1>8. CASE AuditCreated(t) \/ AuditHandover(t)
  <2>1. /\ handler[t].step \in {"audit_created", "audit_handover"}
        /\ handler'[t].step = "idle"
        /\ \A u \in Threads \ {t} : handler'[u] = handler[u]
    BY <1>1, <1>8, FinishKeepsType DEF AuditCreated, AuditHandover, At, Idle
  <2>2. Carried(handler[t], w, 0, 0, 0, 0, 0) /\ Carried(handler'[t], w, 0, 0, 0, 0, 0)
    BY <2>1, CarriedNothing
    DEF Entries, AfterRefusal, AfterHandover, AfterTransition, AfterBlock, AfterTask
  <2>3. handler'[t].step \notin Step
    BY <2>1 DEF Step
  <2>4. QED
    BY <1>2, <1>4, <2>1, <2>2, <2>3 DEF SameWeights
<1>9. QED
  BY <1>5, <1>6, <1>7, <1>8

\* A thread that goes from no commit to one that has recorded nothing yet.
LEMMA LedgerEnter ==
  ASSUME Ledger, Typed', NEW t \in Threads, handler[t].step \notin Step,
         \A u \in Threads \ {t} : handler'[u] = handler[u],
         UNCHANGED <<trace, audits, crashes>>, RecordMatches(t)', NEW w \in Works,
         handler'[t].step \notin Step \/ handler'[t].work = w,
         \/ \A steps \in Entries : handler'[t].step \notin steps
         \/ Carried(handler'[t], w, 0, 0, 0, 0, 0)
  PROVE  Ledger'
<1>1. \A v \in Works \ {w} : Elsewhere(handler[t], v) /\ Elsewhere(handler'[t], v)
  BY DEF Elsewhere
<1>2. \A steps \in Entries : handler[t].step \notin steps
  BY DEF Entries, AfterRefusal, AfterHandover, AfterTransition, AfterBlock, AfterTask, Step
<1>3. Carried(handler[t], w, 0, 0, 0, 0, 0) /\ Carried(handler'[t], w, 0, 0, 0, 0, 0)
  BY <1>2, CarriedNothing
<1>4. SameWeights(handler[t], handler'[t], w)
  BY <1>3 DEF SameWeights
<1>5. QED
  BY <1>1, <1>4, LedgerQuiet

LEMMA LedgerRequest ==
  ASSUME Ledger, Typed', NEW t \in Threads, Request(t)
  PROVE  Ledger'
<1>1. TypeOK
  BY DEF Ledger, Typed
<1>2. PICK w \in Works :
        \/ StartWork(t, w)
        \/ \E req \in TransitionRequests : ReceiveTransition(t, w, req)
        \/ \E req \in TaskRequests : ReceiveTask(t, w, req)
        \/ RequestHandover(t, w)
  BY DEF Request
<1>3. handler[t].step \notin Step
  BY <1>2
  DEF StartWork, ReceiveTransition, ReceiveTask, RequestHandover, CanServe, Idle, Step
<1>4. UNCHANGED <<trace, audits, crashes>>
  BY <1>2 DEF StartWork, ReceiveTransition, ReceiveTask, RequestHandover
<1>5. /\ \A u \in Threads \ {t} : handler'[u] = handler[u]
      /\ handler'[t].work = w
      /\ handler'[t].step \in
           {"audit_created", "decide_transition", "decide_task", "record_handover"}
      /\ handler'[t].step = "record_handover" => IsHandover(handler'[t].record)
  <2>1. CASE StartWork(t, w)
    BY <1>1, <2>1 DEF StartWork, TypeOK
  <2>2. CASE \/ \E req \in TransitionRequests : ReceiveTransition(t, w, req)
             \/ \E req \in TaskRequests : ReceiveTask(t, w, req)
    BY <1>1, <2>2, AskKeepsType DEF ReceiveTransition, ReceiveTask
  <2>3. CASE RequestHandover(t, w)
    <3>1. state[w] \in WorkState /\ Handover(state[w]) \in TraceRecord
      BY <1>1, <2>3, RecordTypes DEF RequestHandover, CanServe, TypeOK
    <3>2. QED
      BY <1>1, <2>3, <3>1, StartKeepsType DEF RequestHandover, Step, Handover, IsHandover
  <2>4. QED
    BY <1>2, <2>1, <2>2, <2>3
<1>6. RecordMatches(t)'
  BY <1>5 DEF RecordMatches, At
<1>7. \A steps \in Entries : handler'[t].step \notin steps
  BY <1>5 DEF Entries, AfterRefusal, AfterHandover, AfterTransition, AfterBlock, AfterTask
<1>8. QED
  BY <1>3, <1>4, <1>5, <1>6, <1>7, LedgerEnter

LEMMA LedgerDecide ==
  ASSUME Ledger, Typed', NEW t \in Threads, Decide(t)
  PROVE  Ledger'
<1>1. TypeOK
  BY DEF Ledger, Typed
<1>2. At(t, "decide_transition") \/ At(t, "decide_task")
  BY DEF Decide, DecideTransition, DecideTask, AssemblyRaises
<1>3. /\ handler[t].step \notin Step /\ handler[t].work \in Works
      /\ handler[t].read \in WorkState
      /\ At(t, "decide_transition") => handler[t].request \in TransitionRequest
  BY <1>1, <1>2, AtIsDeciding DEF At, Step
<1>4. UNCHANGED <<trace, audits, crashes>>
  BY <1>1, DecideStarts
<1>5. CASE Finish(t)
  <2>1. handler'[t].step = "idle" /\ \A u \in Threads \ {t} : handler'[u] = handler[u]
    BY <1>1, <1>5, FinishKeepsType DEF Idle
  <2>2. RecordMatches(t)'
    BY <2>1 DEF RecordMatches, At
  <2>3. /\ handler'[t].step \notin Step
        /\ \A steps \in Entries : handler'[t].step \notin steps
    BY <2>1
    DEF Step, Entries, AfterRefusal, AfterHandover, AfterTransition, AfterBlock, AfterTask
  <2>4. QED
    BY <1>3, <1>4, <2>1, <2>2, <2>3, LedgerEnter
<1>6. ASSUME NEW s \in {"record_transition", "record_block", "record_task"},
             NEW r \in TraceRecord, Start(t, s, handler[t].work, handler[t].read, r),
             s = "record_transition" => IsApplied(r),
             s = "record_task" => IsTask(r) /\ ~IsRefusedTask(r)
      PROVE  Ledger'
  <2>1. /\ handler'[t].step = s /\ handler'[t].work = handler[t].work
        /\ handler'[t].record = r
        /\ \A u \in Threads \ {t} : handler'[u] = handler[u]
    BY <1>1, <1>3, <1>6, StartKeepsType DEF Step
  <2>2. RecordMatches(t)'
    BY <1>6, <2>1 DEF RecordMatches, At
  <2>3. CASE s = "record_task"
    <3>1. Weight(r \in RefusedTasks) = 0
      BY <1>6, <2>3 DEF Weight, RefusedTasks
    <3>2. Carried(handler'[t], handler[t].work, 0, 0, 0, 0, 0)
      BY <2>1, <2>3, <3>1, CarriedAt
    <3>3. QED
      BY <1>3, <1>4, <2>1, <2>2, <3>2, LedgerEnter
  <2>4. CASE s # "record_task"
    <3>1. \A steps \in Entries : handler'[t].step \notin steps
      BY <1>6, <2>1, <2>4
      DEF Entries, AfterRefusal, AfterHandover, AfterTransition, AfterBlock, AfterTask
    <3>2. QED
      BY <1>3, <1>4, <2>1, <2>2, <3>1, LedgerEnter
  <2>5. QED
    BY <2>3, <2>4
<1>7. \A verdict \in Verdicts : At(t, "decide_transition") =>
        LET r == AppliedTransition(handler[t].read, handler[t].request, verdict)
        IN  r \in TraceRecord /\ IsApplied(r)
  BY <1>3, RecordTypes DEF AppliedTransition, IsApplied
<1>8. QED
  BY <1>1, <1>5, <1>6, <1>7, DecideStarts

\* A handler that dies leaves at most one record without its audit event.
LEMMA LedgerCrash ==
  ASSUME Ledger, Typed', NEW t \in Threads, Crash(t)
  PROVE  Ledger'
<1> DEFINE w == handler[t].work
<1>1. /\ TypeOK /\ crashes \in Nat /\ crashes' = crashes + 1
      /\ UNCHANGED <<trace, audits>>
  BY DEF Ledger, Typed, TypeOK, Crash
<1>2. w \in Works
  BY <1>1 DEF Crash, TypeOK, Deciding, Busy
<1>3. handler'[t].step = "idle" /\ \A u \in Threads \ {t} : handler'[u] = handler[u]
  BY <1>1, FinishKeepsType DEF Crash, Idle
<1>4. RecordMatches(t)'
  BY <1>3 DEF RecordMatches, At
<1>5. \A v \in Works \ {w} : Elsewhere(handler[t], v) /\ Elsewhere(handler'[t], v)
  BY <1>3 DEF Elsewhere, Step
<1>6. Carried(handler'[t], w, 0, 0, 0, 0, 0)
  BY <1>3, CarriedNothing
  DEF Entries, AfterRefusal, AfterHandover, AfterTransition, AfterBlock, AfterTask
<1>7. \A steps, P : Weight(Carries(handler[t], w, steps, P)) \in {0, 1}
  BY DEF Weight
<1>8. /\ audits[w]["WORK_TRANSITION"] \in Nat
      /\ audits[w]["WORK_HANDOVER_REQUIRED"] \in Nat /\ audits[w]["WORK_TASK"] \in Nat
  BY <1>1, <1>2 DEF TypeOK, AuditType
<1>9. \A P : Gain({}, P) = 0
  BY DEF Gain, Weight
<1>10. Moves(handler[t], handler'[t], w, {})
  BY <1>1, <1>6, <1>7, <1>8, <1>9 DEF Moves, BackingMoves, AccountingMoves, Carried
<1>11. crashes <= crashes' /\ Grows(w, {})
  BY <1>1 DEF Grows
<1>12. QED
  BY <1>1, <1>2, <1>3, <1>4, <1>5, <1>10, <1>11, LedgerMove

LEMMA LedgerStep == Ledger /\ [Next]_vars => Ledger'
<1> SUFFICES ASSUME Ledger, [Next]_vars PROVE Ledger'
  OBVIOUS
<1>1. Typed'
  BY TypedStep DEF Ledger
<1>2. CASE UNCHANGED vars
  BY <1>2
  DEF vars, Ledger, Typed, TypeOK, RecordFits, RecordMatches, At, LedgerOf, Covered, Backing,
      Accounting, Counted, Carriers
<1>3. ASSUME NEW t \in Threads, Commit(t) PROVE Ledger'
  BY <1>1, <1>3, LedgerRecord, LedgerAudit, LedgerWrite DEF Commit
<1>4. QED
  BY <1>1, <1>2, <1>3, LedgerRequest, LedgerDecide, LedgerCrash DEF Next, Rest

(***************************************************************************)
(* For every set of works, threads and requests, with any interleaving and *)
(* any crashes: a task that execute_task reports as HANDOVER_REQUIRED has  *)
(* been refused and handed over before, with a refusal and a handover of   *)
(* its own (_block_and_handover comes before the task record).             *)
(***************************************************************************)
THEOREM RefusedAreHandedOver == Spec => []RefusedTasksHandedOver
<1>1. Ledger => RefusedTasksHandedOver
  <2> SUFFICES ASSUME Ledger, NEW w \in Works, NEW n \in DOMAIN trace[w]
               PROVE  /\ CountTo(w, n, IsRefusedTask) <= CountTo(w, n, IsRefusal)
                      /\ CountTo(w, n, IsRefusedTask) <= CountTo(w, n, IsHandover)
    BY DEF RefusedTasksHandedOver
  <2>1. trace[w] \in Seq(TraceRecord) /\ Covered(w, Refusals) /\ Covered(w, Handovers)
    BY DEF Ledger, Typed, TypeOK, LedgerOf
  <2>2. n \in 1 .. Len(trace[w]) /\ \A i \in 1 .. n : trace[w][i] \in TraceRecord
    BY <2>1
  <2>3. /\ {i \in 1 .. n : IsRefusedTask(trace[w][i])} = Hits(trace[w], n, RefusedTasks)
        /\ {i \in 1 .. n : IsRefusal(trace[w][i])} = Hits(trace[w], n, Refusals)
        /\ {i \in 1 .. n : IsHandover(trace[w][i])} = Hits(trace[w], n, Handovers)
    BY <2>2 DEF Hits, RefusedTasks, Refusals, Handovers
  <2>4. QED
    BY <2>1, <2>2, <2>3 DEF CountTo, Covered
<1>2. QED
  BY <1>1, LedgerInit, LedgerStep, PTL DEF Spec

(***************************************************************************)
(* For every set of works, threads and requests, with any interleaving: an *)
(* audit event never exists before its record, and at every moment there   *)
(* are no more unaudited records than handlers about to audit them and     *)
(* handlers that died (every handler of WorkflowService audits last).      *)
(***************************************************************************)
THEOREM AuditAccounts == Spec => []AuditAccountsForTrace
<1>1. Ledger => AuditAccountsForTrace
  <2> SUFFICES ASSUME Ledger PROVE AuditAccountsForTrace
    OBVIOUS
  <2>1. TypeOK /\ crashes \in Nat
    BY DEF Ledger, Typed, TypeOK
  <2>2. ASSUME NEW w \in Works, NEW type \in AuditType, NEW P, NEW steps,
               Accounting(w, type, P, steps)
        PROVE  LET missing == Counted(w, P) - audits[w][type]
                                - Cardinality(Carriers(w, steps, TraceRecord))
               IN  0 <= missing /\ missing <= crashes
    <3>1. /\ Counted(w, P) \in Nat /\ audits[w][type] \in Nat
          /\ Cardinality(Carriers(w, steps, TraceRecord)) \in Nat
      BY <2>1, <2>2, CountedType, FS_CardinalityType DEF TypeOK, Accounting
    <3>2. QED
      BY <2>1, <2>2, <3>1 DEF Accounting
  <2>3. ASSUME NEW w \in Works
        PROVE  /\ Count(w, IsApplied) = Counted(w, Applied)
               /\ Count(w, IsRefusal) = Counted(w, Refusals)
               /\ Count(w, IsTask) = Counted(w, Tasks)
    <3>1. \A i \in 1 .. Len(trace[w]) : trace[w][i] \in TraceRecord
      BY <2>1 DEF TypeOK
    <3>2. LET n == Len(trace[w])
          IN  /\ {i \in 1 .. n : IsApplied(trace[w][i])} = Hits(trace[w], n, Applied)
              /\ {i \in 1 .. n : IsRefusal(trace[w][i])} = Hits(trace[w], n, Refusals)
              /\ {i \in 1 .. n : IsTask(trace[w][i])} = Hits(trace[w], n, Tasks)
      BY <3>1 DEF Hits, Applied, Refusals, Tasks
    <3>3. QED
      BY <3>2 DEF Count, CountTo, Counted
  <2>4. ASSUME NEW w \in Works, NEW steps \in Entries
        PROVE  Unaudited(w, steps) = Cardinality(Carriers(w, steps, TraceRecord))
    <3>1. \A t \in Threads : handler[t].step \in steps => handler[t].record \in TraceRecord
      <4> SUFFICES ASSUME NEW t \in Threads, handler[t].step \in steps
                   PROVE  handler[t].record \in TraceRecord
        OBVIOUS
      <4>1. handler[t].step \in Step
        BY <2>4
        DEF Entries, AfterRefusal, AfterHandover, AfterTransition, AfterBlock, AfterTask, Step
      <4>2. handler[t] \in Busy
        BY <2>1, <4>1, AtIsBusy DEF At
      <4>3. QED
        BY <4>2 DEF Busy
    <3>2. {t \in Threads : handler[t].step \in steps /\ handler[t].work = w}
            = Carriers(w, steps, TraceRecord)
      BY <3>1 DEF Carriers, Carries
    <3>3. QED
      BY <3>2 DEF Unaudited
  <2>5. ASSUME NEW w \in Works
        PROVE  /\ Accounting(w, "WORK_TRANSITION", Applied, AfterTransition)
               /\ Accounting(w, "WORK_HANDOVER_REQUIRED", Refusals, AfterBlock)
               /\ Accounting(w, "WORK_TASK", Tasks, AfterTask)
    BY DEF Ledger, LedgerOf
  <2>6. AfterTransition \in Entries /\ AfterBlock \in Entries /\ AfterTask \in Entries
    BY DEF Entries
  <2> SUFFICES ASSUME NEW w \in Works
               PROVE  LET Accounts(type, records, steps) ==
                            LET missing == records - audits[w][type] - Unaudited(w, steps)
                            IN  0 <= missing /\ missing <= crashes
                      IN  /\ Accounts("WORK_TRANSITION", Count(w, IsApplied), AfterTransition)
                          /\ Accounts("WORK_HANDOVER_REQUIRED", Count(w, IsRefusal), AfterBlock)
                          /\ Accounts("WORK_TASK", Count(w, IsTask), AfterTask)
    BY DEF AuditAccountsForTrace, AfterTransition, AfterBlock, AfterTask
  <2>7. QED
    BY <2>2, <2>3, <2>4, <2>5, <2>6 DEF AuditType
<1>2. QED
  BY <1>1, LedgerInit, LedgerStep, PTL DEF Spec
-----------------------------------------------------------------------------
\* Induction on the length of a trace

\* A set of numbers that has zero and every successor has them all.
LEMMA SetInduction ==
  ASSUME NEW S, 0 \in S, \A n \in Nat : n \in S => n + 1 \in S
  PROVE  \A n \in Nat : n \in S
<1> DEFINE missing == {n \in Nat : n \notin S}
           R == OpToRel(<, Nat)
<1> SUFFICES ASSUME missing # {} PROVE FALSE
  OBVIOUS
<1>1. \A x, y \in Nat : x < y => <<x, y>> \in R
  BY DEF OpToRel
<1>7. IsWellFoundedOn(R, Nat)
  BY NatLessThanWellFounded
<1>2. missing \subseteq Nat /\ missing # {}
  OBVIOUS
<1> HIDE DEF R
<1>8. \E m \in missing : \A n \in missing : ~(<<n, m>> \in R)
  <2> HIDE DEF missing
  <2> QED
    BY <1>7, <1>2, WFMin
<1>5. PICK m \in missing : \A n \in missing : ~(<<n, m>> \in R)
  BY <1>8
<1>3. m \in Nat /\ m # 0 /\ m - 1 \in Nat /\ m - 1 < m /\ (m - 1) + 1 = m
  BY <1>5
<1>4. m - 1 \in S
  BY <1>1, <1>5, <1>3
<1>6. QED
  BY <1>5, <1>3, <1>4

LinkStep(records, chain, i) ==
  IF IsLink(records, i) THEN Append(chain, LinkOf(records[i])) ELSE chain

\* f computes the links of the first n records.
Links(records, f, n) ==
  f = [i \in 0 .. n |-> IF i = 0 THEN <<>> ELSE LinkStep(records, f[i - 1], i)]

LEMMA LinksExist ==
  ASSUME NEW records
  PROVE  \A n \in Nat : \E f : Links(records, f, n)
<1> DEFINE S == {n \in Nat : \E f : Links(records, f, n)}
<1>1. 0 \in S
  <2>1. Links(records, [i \in 0 .. 0 |-> <<>>], 0)
    BY DEF Links
  <2>2. \E f : Links(records, f, 0)
    BY <2>1
  <2>3. QED
    BY <2>2
<1>2. ASSUME NEW n \in Nat, n \in S PROVE n + 1 \in S
  <2>1. PICK f : Links(records, f, n)
    BY <1>2
  <2> DEFINE g == [i \in 0 .. n + 1 |-> IF i = 0 THEN <<>> ELSE LinkStep(records, f[i - 1], i)]
  <2>2. \A i \in 0 .. n : g[i] = f[i]
    BY <2>1 DEF Links
  <2>3. \A i \in 0 .. n + 1 : i # 0 => LinkStep(records, f[i - 1], i) = LinkStep(records, g[i - 1], i)
    <3> HIDE DEF g
    <3>1. \A i \in 0 .. n + 1 : i # 0 => g[i - 1] = f[i - 1]
      BY <2>2
    <3>2. QED
      BY <3>1
  <2>4. Links(records, g, n + 1)
    BY <2>3 DEF Links
  <2>5. QED
    BY <2>4
<1> HIDE DEF S
<1>3. \A n \in Nat : n \in S
  BY <1>1, <1>2, SetInduction
<1>4. QED
  BY <1>3 DEF S

\* They are the same however many records follow.
LEMMA LinksAgree ==
  ASSUME NEW r1, NEW r2, NEW n \in Nat, NEW m \in Nat, NEW f, NEW g,
         Links(r1, f, n), Links(r2, g, m),
         NEW k \in 0 .. n, k \in 0 .. m, \A i \in 1 .. k : r1[i] = r2[i]
  PROVE  f[k] = g[k]
<1> DEFINE S == {i \in Nat : i <= k => f[i] = g[i]}
<1>1. 0 \in S
  BY DEF Links
<1>2. ASSUME NEW i \in Nat, i \in S PROVE i + 1 \in S
  <2>1. CASE i + 1 <= k
    <3>1. f[i] = g[i] /\ i + 1 \in 1 .. k
      BY <1>2, <2>1
    <3>2. f[i + 1] = LinkStep(r1, f[i], i + 1) /\ g[i + 1] = LinkStep(r2, g[i], i + 1)
      BY <2>1 DEF Links
    <3>3. r1[i + 1] = r2[i + 1] /\ (i + 1 > 1 => r1[i] = r2[i])
      BY <3>1
    <3>4. LinkStep(r1, f[i], i + 1) = LinkStep(r2, g[i], i + 1)
      BY <3>1, <3>3 DEF LinkStep, IsLink, PaysRefusal
    <3>5. QED
      BY <3>2, <3>4
  <2>2. QED
    BY <2>1
<1> HIDE DEF S
<1>3. \A i \in Nat : i \in S
  BY <1>1, <1>2, SetInduction
<1>4. QED
  BY <1>3 DEF S

LEMMA LinksToIsLinks ==
  ASSUME NEW records, NEW n \in Nat
  PROVE  \E f : Links(records, f, n) /\ LinksTo(records, n) = f[n]
<1> DEFINE f == CHOOSE f : Links(records, f, n)
<1>1. Links(records, f, n)
  BY LinksExist
<1>2. LinksTo(records, n) = f[n]
  BY DEF LinksTo, Links, LinkStep
<1>3. QED
  BY <1>1, <1>2

\* What LinksTo computes.
LEMMA LinksUnfold ==
  ASSUME NEW records, NEW n \in Nat
  PROVE  /\ LinksTo(records, 0) = <<>>
         /\ LinksTo(records, n + 1) = LinkStep(records, LinksTo(records, n), n + 1)
<1>1. PICK f : Links(records, f, n) /\ LinksTo(records, n) = f[n]
  BY LinksToIsLinks
<1>2. PICK g : Links(records, g, n + 1) /\ LinksTo(records, n + 1) = g[n + 1]
  BY LinksToIsLinks
<1>3. g[n + 1] = LinkStep(records, g[n], n + 1)
  BY <1>2 DEF Links
<1>4. f[n] = g[n]
  <2>1. ASSUME NEW m \in Nat, Links(records, g, m), n \in 0 .. m, NEW other, other = records,
               Links(other, f, n)
        PROVE  f[n] = g[n]
    <3>1. n \in 0 .. n /\ \A i \in 1 .. n : other[i] = records[i]
      BY <2>1
    <3>2. QED
      BY <2>1, <3>1, LinksAgree
  <2>2. QED
    BY <1>1, <1>2, <2>1
<1>5. LinksTo(records, 0) = <<>>
  <2>1. PICK h : Links(records, h, 0) /\ LinksTo(records, 0) = h[0]
    BY LinksToIsLinks
  <2>2. QED
    BY <2>1 DEF Links
<1>6. QED
  BY <1>1, <1>2, <1>3, <1>4, <1>5

LEMMA LinksOfPrefix ==
  ASSUME NEW r1, NEW r2, NEW n \in Nat, \A i \in 1 .. n : r1[i] = r2[i]
  PROVE  LinksTo(r1, n) = LinksTo(r2, n)
<1>1. PICK f : Links(r1, f, n) /\ LinksTo(r1, n) = f[n]
  BY LinksToIsLinks
<1>2. PICK g : Links(r2, g, n) /\ LinksTo(r2, n) = g[n]
  BY LinksToIsLinks
<1>3. f[n] = g[n]
  <2>1. n \in 0 .. n
    OBVIOUS
  <2>2. QED
    BY <1>1, <1>2, <2>1, LinksAgree
<1>4. QED
  BY <1>1, <1>2, <1>3

-----------------------------------------------------------------------------
\* One handler at a time

\* One thread, and no handler that dies.
Sequential == (\E t : Threads = {t}) /\ MaxCrashes = 0

\* The newest record of w.
EndsIn(w, r) == trace[w] # <<>> /\ trace[w][Len(trace[w])] = r

EndsRefused(w) == trace[w] # <<>> /\ IsRefusal(trace[w][Len(trace[w])])

\* The steps before which the state of the work is still the one the handler read.
BeforeState ==
  {"decide_transition", "decide_task", "record_transition", "write_state",
   "record_block", "write_blocked", "record_handover", "write_handed_over"}

\* What the handler read still holds: nobody else writes.
FreshRead(t) ==
  /\ handler[t].step \in BeforeState => state[handler[t].work] = handler[t].read
  /\ handler[t].step = "record_block_handover" => state[handler[t].work] = "BLOCKED"
  /\ handler[t].step \in {"audit_block", "record_task"} => state[handler[t].work] # "NONE"

\* A transition that was accepted is the table's, and an approval is a complete one.
LawfulMove(w, from, r) ==
  /\ IsApplied(r)
  /\ r.from_state = from
  /\ r.to_state \in AllowedTransitions[from]
  /\ r.to_state = "APPROVED" => WellApproved(ContractOf[w], r)

CarriesMove(t) ==
  /\ handler[t].step \in {"record_transition", "write_state"} =>
       LawfulMove(handler[t].work, handler[t].read, handler[t].record)
  /\ handler[t].step = "record_handover" => handler[t].record = Handover(handler[t].read)
  /\ handler[t].step \in {"record_task", "audit_task"} => IsTask(handler[t].record)

\* The record that was committed last is the one of the running request.
RecordIsLast(t) ==
  LET w == handler[t].work
  IN  /\ handler[t].step = "write_state" => EndsIn(w, handler[t].record)
      /\ handler[t].step \in {"write_blocked", "record_block_handover"} =>
           EndsIn(w, BlockTransition(handler[t].read))
      /\ handler[t].step = "write_handed_over" =>
           EndsIn(w, Handover(handler[t].read)) /\ ~PaysRefusal(trace[w], Len(trace[w]))

\* A refusal that is the last record of a work is the running request's.
RefusalsInHand(t) ==
  \A w \in Works : EndsRefused(w) =>
    handler[t].step \in {"write_blocked", "record_block_handover"} /\ handler[t].work = w

\* A work that was not created has no history.
NothingBeforeCreation == \A w \in Works : state[w] = "NONE" => trace[w] = <<>>

Orderly ==
  /\ Typed
  /\ NothingBeforeCreation
  /\ \A t \in Threads : FreshRead(t) /\ CarriesMove(t) /\ RecordIsLast(t) /\ RefusalsInHand(t)

LEMMA OrderlyInit == Init => Orderly
<1> SUFFICES ASSUME Init PROVE Orderly
  OBVIOUS
<1>1. \A w \in Works : trace[w] = <<>>
  BY DEF Init
<1>2. \A t \in Threads : handler[t].step = "idle"
  BY DEF Init, Idle
<1>3. QED
  BY <1>1, <1>2, TypedInit
  DEF Orderly, NothingBeforeCreation, FreshRead, CarriesMove, RecordIsLast, RefusalsInHand,
      BeforeState, EndsRefused

\* A committed record is the newest of its work and no other work's.
LEMMA AppendIsLast ==
  ASSUME TypeOK, NEW w \in Works, NEW r \in TraceRecord, Append1(w, r)
  PROVE  /\ trace'[w] = Append(trace[w], r)
         /\ trace[w] \in Seq(TraceRecord)
         /\ EndsIn(w, r)'
         /\ EndsRefused(w)' <=> IsRefusal(r)
         /\ \A v \in Works \ {w} : trace'[v] = trace[v]
<1>1. /\ trace'[w] = Append(trace[w], r)
      /\ trace[w] \in Seq(TraceRecord)
      /\ \A v \in Works \ {w} : trace'[v] = trace[v]
  BY AppendKeepsType DEF TypeOK
<1>2. Len(trace'[w]) = Len(trace[w]) + 1 /\ trace'[w][Len(trace[w]) + 1] = r /\ trace'[w] # <<>>
  BY <1>1
<1>3. QED
  BY <1>1, <1>2 DEF EndsIn, EndsRefused, IsRefusal

\* A step that commits no record and leaves no refusal behind.
LEMMA OrderlyCalm ==
  ASSUME Orderly, NEW t, Threads = {t}, Typed', trace' = trace,
         \A w \in Works : state[w] # "NONE" => state'[w] # "NONE",
         handler[t].step \notin {"write_blocked", "record_block_handover"},
         FreshRead(t)', CarriesMove(t)',
         handler'[t].step \notin {"write_state", "write_blocked", "record_block_handover",
                                 "write_handed_over"}
  PROVE  Orderly'
<1>1. \A w \in Works : ~EndsRefused(w)'
  BY DEF Orderly, RefusalsInHand, EndsRefused, IsRefusal
<1>2. RecordIsLast(t)' /\ RefusalsInHand(t)'
  BY <1>1 DEF RecordIsLast, RefusalsInHand
<1>3. NothingBeforeCreation'
  BY DEF Orderly, NothingBeforeCreation
<1>4. QED
  BY <1>2, <1>3 DEF Orderly

\* One that commits a record.
LEMMA OrderlyRecord ==
  ASSUME Orderly, NEW t, Threads = {t}, Typed', state' = state,
         NEW w \in Works, NEW r \in TraceRecord, Append1(w, r),
         state[w] # "NONE",
         \A v \in Works \ {w} : ~EndsRefused(v),
         FreshRead(t)', CarriesMove(t)', RecordIsLast(t)',
         IsRefusal(r) => handler'[t].step = "write_blocked" /\ handler'[t].work = w
  PROVE  Orderly'
<1>1. /\ EndsRefused(w)' <=> IsRefusal(r)
      /\ \A v \in Works \ {w} : trace'[v] = trace[v]
  BY AppendIsLast DEF Orderly, Typed
<1>2. RefusalsInHand(t)'
  BY <1>1 DEF RefusalsInHand, EndsRefused, IsRefusal
<1>3. NothingBeforeCreation'
  BY <1>1 DEF Orderly, NothingBeforeCreation
<1>4. QED
  BY <1>2, <1>3 DEF Orderly

\* A request is received by the free thread.
LEMMA OrderlyRequest ==
  ASSUME Orderly, NEW t, Threads = {t}, Typed', Request(t)
  PROVE  Orderly'
<1>0. TypeOK /\ t \in Threads
  BY DEF Orderly, Typed
<1>1. PICK w \in Works :
        \/ StartWork(t, w)
        \/ \E req \in TransitionRequests : ReceiveTransition(t, w, req)
        \/ \E req \in TaskRequests : ReceiveTask(t, w, req)
        \/ RequestHandover(t, w)
  BY DEF Request
<1>2. handler[t].step = "idle" /\ trace' = trace
  BY <1>1 DEF StartWork, ReceiveTransition, ReceiveTask, RequestHandover, CanServe, Idle
<1>3. CASE StartWork(t, w)
  <2>1. handler'[t].step = "audit_created"
    BY <1>0, <1>3 DEF StartWork, TypeOK
  <2>2. \A v \in Works : state[v] # "NONE" => state'[v] # "NONE"
    BY <1>0, <1>3, UpdateKeepsType DEF StartWork, WorkState
  <2>3. FreshRead(t)' /\ CarriesMove(t)'
    BY <2>1 DEF FreshRead, CarriesMove, BeforeState
  <2>4. QED
    BY <1>2, <2>1, <2>2, <2>3, OrderlyCalm
<1>4. ASSUME NEW s, NEW req, CanServe(t, w), Ask(t, s, w, req),
             \/ s = "decide_transition" /\ req \in TransitionRequests
             \/ s = "decide_task" /\ req \in TaskRequests,
             state' = state
      PROVE  Orderly'
  <2>1. handler'[t].step = s /\ handler'[t].work = w /\ handler'[t].read = state[w]
    BY <1>0, <1>4, AskKeepsType
  <2>2. FreshRead(t)' /\ CarriesMove(t)'
    BY <1>4, <2>1 DEF FreshRead, CarriesMove
  <2>3. QED
    BY <1>2, <1>4, <2>1, <2>2, OrderlyCalm
<1>5. CASE RequestHandover(t, w)
  <2>1. state[w] \in WorkState
    BY <1>0, <1>5 DEF RequestHandover, CanServe, TypeOK
  <2>2. /\ handler'[t].step = "record_handover"
        /\ handler'[t].work = w
        /\ handler'[t].read = state[w]
        /\ handler'[t].record = Handover(state[w])
    BY <1>0, <1>5, <2>1, StartKeepsType, RecordTypes DEF RequestHandover, Step
  <2>3. FreshRead(t)' /\ CarriesMove(t)'
    BY <1>5, <2>2 DEF FreshRead, CarriesMove, RequestHandover
  <2>4. QED
    BY <1>2, <1>5, <2>2, <2>3, OrderlyCalm DEF RequestHandover
<1>6. QED
  BY <1>1, <1>3, <1>4, <1>5 DEF ReceiveTransition, ReceiveTask

\* An accepted request makes a lawful move.
LEMMA AcceptedIsLawful ==
  ASSUME NEW w, NEW from, NEW req, NEW verdict,
         TransitionAccepted(ContractOf[w], from, req, verdict)
  PROVE  LawfulMove(w, from, AppliedTransition(from, req, verdict))
<1>1. AppliedTransition(from, req, verdict).to_state = "APPROVED" =>
        WellApproved(ContractOf[w], AppliedTransition(from, req, verdict))
  BY AcceptedIsWellApproved DEF AppliedTransition
<1>2. QED
  BY <1>1 DEF LawfulMove, AppliedTransition, IsApplied, TransitionAccepted

\* The services answer: what the handler decides on is still what holds.
LEMMA OrderlyDecide ==
  ASSUME Orderly, NEW t, Threads = {t}, Typed', Decide(t)
  PROVE  Orderly'
<1>0. TypeOK /\ t \in Threads
  BY DEF Orderly, Typed
<1>1. handler[t].step \in {"decide_transition", "decide_task"}
  BY DEF Decide, DecideTransition, DecideTask, AssemblyRaises, At
<1>2. handler[t].work \in Works /\ handler[t].read \in WorkState
  BY <1>0, <1>1, AtIsDeciding DEF At
<1>3. UNCHANGED <<state, trace>>
  BY <1>0, DecideStarts
<1>4. state[handler[t].work] = handler[t].read
  BY <1>1 DEF Orderly, FreshRead, BeforeState
<1>5. CASE Finish(t)
  <2>1. handler'[t].step = "idle"
    BY <1>0, <1>5, FinishKeepsType DEF Idle
  <2>2. FreshRead(t)' /\ CarriesMove(t)'
    BY <2>1 DEF FreshRead, CarriesMove, BeforeState
  <2>3. QED
    BY <1>1, <1>3, <2>1, <2>2, OrderlyCalm
<1>6. ASSUME NEW s \in {"record_block", "record_task", "record_transition"}, NEW r \in TraceRecord,
             Start(t, s, handler[t].work, handler[t].read, r),
             s = "record_task" => IsTask(r),
             s = "record_transition" => LawfulMove(handler[t].work, handler[t].read, r)
      PROVE  Orderly'
  <2>1. /\ handler'[t].step = s
        /\ handler'[t].work = handler[t].work
        /\ handler'[t].read = handler[t].read
        /\ handler'[t].record = r
    BY <1>0, <1>2, <1>6, StartKeepsType DEF Step
  <2>2. FreshRead(t)' /\ CarriesMove(t)'
    <3>1. handler[t].read # "NONE"
      BY <1>2 DEF WorkState
    <3>2. FreshRead(t)'
      BY <1>3, <1>4, <1>6, <2>1, <3>1 DEF FreshRead
    <3>3. CarriesMove(t)'
      BY <1>6, <2>1 DEF CarriesMove, LawfulMove, WellApproved, IsApplied, IsTask
    <3>4. QED
      BY <3>2, <3>3
  <2>3. QED
    BY <1>1, <1>3, <2>1, <2>2, OrderlyCalm
<1>7. ASSUME NEW verdict, At(t, "decide_transition"),
             TransitionAccepted(ContractOf[handler[t].work], handler[t].read,
                                handler[t].request, verdict),
             Start(t, "record_transition", handler[t].work, handler[t].read,
                   AppliedTransition(handler[t].read, handler[t].request, verdict))
      PROVE  Orderly'
  BY <1>0, <1>2, <1>6, <1>7, AcceptedIsLawful, AtIsDeciding, RecordTypes
<1>8. QED
  BY <1>0, <1>5, <1>6, <1>7, DecideStarts

\* The handler records what it is about to do.
LEMMA OrderlyAppend ==
  ASSUME Orderly, NEW t, Threads = {t}, Typed',
         \/ RecordTransition(t) \/ RecordBlock(t) \/ RecordBlockHandover(t)
         \/ RecordTask(t) \/ RecordHandover(t)
  PROVE  Orderly'
<1>0. TypeOK /\ t \in Threads /\ state' = state
  BY DEF Orderly, Typed, RecordTransition, RecordBlock, RecordBlockHandover, RecordTask,
         RecordHandover
<1>1. handler[t] \in Busy
  BY <1>0, AtIsBusy DEF RecordTransition, RecordBlock, RecordBlockHandover, RecordTask,
                        RecordHandover, Step
<1>p. PICK w \in Works, from \in WorkState, record \in TraceRecord :
        handler[t].work = w /\ handler[t].read = from /\ handler[t].record = record
  BY <1>1 DEF Busy
<1>2. BlockTransition(from) \in TraceRecord /\ Handover(from) \in TraceRecord
  BY RecordTypes
<1>3. \A v \in Works \ {w} : ~EndsRefused(v)
  BY <1>0, <1>p DEF Orderly, RefusalsInHand
<1>4. FreshRead(t) /\ CarriesMove(t) /\ RecordIsLast(t)
  BY <1>0 DEF Orderly
<1>5. ASSUME NEW s \in Step, Goto(t, s)
      PROVE  /\ handler'[t].step = s /\ handler'[t].work = w
             /\ handler'[t].read = from /\ handler'[t].record = record
  BY <1>0, <1>1, <1>p, <1>5, GotoKeepsType
<1>6. ASSUME state[w] \in WorkState PROVE state[w] # "NONE"
  BY <1>6 DEF WorkState
<1>7. CASE RecordTransition(t)
  <2>1. LawfulMove(w, from, record) /\ state[w] = from
    BY <1>p, <1>4, <1>7 DEF RecordTransition, At, CarriesMove, FreshRead, BeforeState
  <2>2. /\ handler'[t].step = "write_state" /\ handler'[t].work = w
        /\ handler'[t].read = from /\ handler'[t].record = record
    BY <1>5, <1>7 DEF RecordTransition, Step
  <2>3. EndsIn(w, record)' /\ Append1(w, record)
    BY <1>p, <1>0, <1>2, <1>7, AppendIsLast DEF RecordTransition
  <2>4. FreshRead(t)' /\ CarriesMove(t)'
    BY <1>0, <2>1, <2>2 DEF FreshRead, CarriesMove, LawfulMove, WellApproved, IsApplied
  <2>5. RecordIsLast(t)'
    BY <2>2, <2>3 DEF RecordIsLast, EndsIn
  <2>6. ~IsRefusal(record)
    BY <2>1 DEF LawfulMove, IsApplied, IsRefusal
  <2>7. QED
    BY <1>0, <1>2, <1>3, <1>6, <2>1, <2>3, <2>4, <2>5, <2>6, OrderlyRecord
<1>8. CASE RecordBlock(t)
  <2>1. state[w] = from
    BY <1>p, <1>4, <1>8 DEF RecordBlock, At, FreshRead, BeforeState
  <2>2. /\ handler'[t].step = "write_blocked" /\ handler'[t].work = w
        /\ handler'[t].read = from
    BY <1>5, <1>8 DEF RecordBlock, Step
  <2>3. EndsIn(w, BlockTransition(from))' /\ Append1(w, BlockTransition(from))
    BY <1>p, <1>0, <1>2, <1>8, AppendIsLast DEF RecordBlock
  <2>4. FreshRead(t)' /\ CarriesMove(t)'
    BY <1>0, <2>1, <2>2 DEF FreshRead, CarriesMove
  <2>5. RecordIsLast(t)'
    BY <2>2, <2>3 DEF RecordIsLast, EndsIn
  <2>6. QED
    BY <1>0, <1>2, <1>3, <1>6, <2>1, <2>2, <2>3, <2>4, <2>5, OrderlyRecord
<1>9. CASE RecordBlockHandover(t)
  <2>1. state[w] = "BLOCKED"
    BY <1>p, <1>4, <1>9 DEF RecordBlockHandover, At, FreshRead
  <2>2. handler'[t].step = "audit_block" /\ handler'[t].work = w
    BY <1>5, <1>9 DEF RecordBlockHandover, Step
  <2>3. Append1(w, Handover(from))
    BY <1>p, <1>9 DEF RecordBlockHandover
  <2>4. FreshRead(t)' /\ CarriesMove(t)' /\ RecordIsLast(t)'
    BY <1>0, <2>1, <2>2 DEF FreshRead, CarriesMove, RecordIsLast, BeforeState
  <2>5. ~IsRefusal(Handover(from))
    BY DEF Handover, IsRefusal
  <2>6. QED
    BY <1>0, <1>2, <1>3, <2>1, <2>3, <2>4, <2>5, OrderlyRecord
<1>10. CASE RecordTask(t)
  <2>1. IsTask(record) /\ state[w] # "NONE"
    BY <1>p, <1>4, <1>10 DEF RecordTask, At, CarriesMove, FreshRead
  <2>2. handler'[t].step = "audit_task" /\ handler'[t].record = record
    BY <1>5, <1>10 DEF RecordTask, Step
  <2>3. Append1(w, record)
    BY <1>p, <1>10 DEF RecordTask
  <2>4. FreshRead(t)' /\ CarriesMove(t)' /\ RecordIsLast(t)'
    BY <2>1, <2>2 DEF FreshRead, CarriesMove, RecordIsLast, BeforeState, IsTask
  <2>5. ~IsRefusal(record)
    BY <2>1 DEF IsTask, IsRefusal
  <2>6. QED
    BY <1>0, <1>2, <1>3, <2>1, <2>3, <2>4, <2>5, OrderlyRecord
<1>11. CASE RecordHandover(t)
  <2>1. record = Handover(from) /\ state[w] = from
    BY <1>p, <1>4, <1>11 DEF RecordHandover, At, CarriesMove, FreshRead, BeforeState
  <2>2. /\ handler'[t].step = "write_handed_over" /\ handler'[t].work = w
        /\ handler'[t].read = from
    BY <1>5, <1>11 DEF RecordHandover, Step
  <2>3. EndsIn(w, Handover(from))' /\ Append1(w, Handover(from))
    BY <1>p, <1>0, <1>2, <1>11, <2>1, AppendIsLast DEF RecordHandover
  <2>4. FreshRead(t)' /\ CarriesMove(t)'
    BY <1>0, <2>1, <2>2 DEF FreshRead, CarriesMove
  <2>5. ~EndsRefused(w)
    BY <1>0, <1>2, <1>11 DEF Orderly, RefusalsInHand, RecordHandover, At
  <2>6. ~PaysRefusal(trace'[w], Len(trace'[w]))
    <3>1. trace'[w] = Append(trace[w], Handover(from)) /\ trace[w] \in Seq(TraceRecord)
      BY <1>0, <1>2, <2>3, AppendIsLast
    <3>2. Len(trace'[w]) = Len(trace[w]) + 1
      BY <3>1
    <3>3. CASE Len(trace[w]) = 0
      BY <3>2, <3>3 DEF PaysRefusal
    <3>4. CASE Len(trace[w]) > 0
      <4>1. trace'[w][Len(trace[w])] = trace[w][Len(trace[w])] /\ trace[w] # <<>>
        BY <3>1, <3>4
      <4>2. QED
        BY <2>5, <3>1, <3>2, <4>1 DEF PaysRefusal, EndsRefused
    <3>5. QED
      BY <3>1, <3>3, <3>4
  <2>7. RecordIsLast(t)'
    BY <2>2, <2>3, <2>6 DEF RecordIsLast, EndsIn
  <2>8. ~IsRefusal(Handover(from))
    BY DEF Handover, IsRefusal
  <2>9. QED
    BY <1>0, <1>2, <1>3, <1>6, <2>1, <2>3, <2>4, <2>7, <2>8, OrderlyRecord
<1>12. QED
  BY <1>7, <1>8, <1>9, <1>10, <1>11

\* It writes the state that the record says.
LEMMA OrderlyCommit ==
  ASSUME Orderly, NEW t, Threads = {t}, Typed', Commit(t)
  PROVE  Orderly'
<1> DEFINE w == handler[t].work
           from == handler[t].read
           record == handler[t].record
<1>0. TypeOK /\ t \in Threads /\ FreshRead(t) /\ CarriesMove(t) /\ RecordIsLast(t)
  BY DEF Orderly, Typed
<1>b. ASSUME NEW s \in Step, At(t, s)
      PROVE  handler[t] \in Busy /\ w \in Works /\ from \in WorkState
  BY <1>0, <1>b, AtIsBusy DEF Busy
<1>1. ASSUME AuditCreated(t) \/ AuditTransition(t) \/ AuditTask(t) \/ AuditHandover(t)
      PROVE  Orderly'
  <2>1. handler'[t].step = "idle" /\ UNCHANGED <<state, trace>>
    BY <1>0, <1>1, FinishKeepsType DEF AuditCreated, AuditTransition, AuditTask, AuditHandover, Idle
  <2>2. handler[t].step \in {"audit_created", "audit_transition", "audit_task", "audit_handover"}
    BY <1>1 DEF AuditCreated, AuditTransition, AuditTask, AuditHandover, At
  <2>3. FreshRead(t)' /\ CarriesMove(t)'
    BY <2>1 DEF FreshRead, CarriesMove, BeforeState
  <2>4. QED
    BY <2>1, <2>2, <2>3, OrderlyCalm
<1>2. CASE AuditBlock(t)
  <2>1. UNCHANGED <<state, trace>> /\ handler[t].step = "audit_block"
    BY <1>2 DEF AuditBlock, At
  <2>2. \/ handler'[t].step = "idle"
        \/ /\ handler'[t].step = "record_task" /\ IsTask(handler'[t].record)
           /\ handler'[t].work = handler[t].work
    <3>1. CASE handler[t].record.event = "TASK"
      <4>1. Goto(t, "record_task") /\ handler[t] \in Busy
        BY <1>2, <1>b, <3>1 DEF AuditBlock, Step
      <4>2. QED
        BY <1>0, <3>1, <4>1, GotoKeepsType DEF Step, IsTask
    <3>2. CASE handler[t].record.event # "TASK"
      BY <1>0, <1>2, <3>2, FinishKeepsType DEF AuditBlock, Idle
    <3>3. QED
      BY <3>1, <3>2
  <2>3. FreshRead(t)' /\ CarriesMove(t)'
    BY <1>0, <2>1, <2>2 DEF FreshRead, CarriesMove, BeforeState, IsTask
  <2>4. QED
    BY <2>1, <2>2, <2>3, OrderlyCalm
<1>3. CASE WriteState(t)
  <2>1. handler[t] \in Busy /\ w \in Works
    BY <1>3, <1>b DEF WriteState, Step
  <2>2. record.to_state \in WorkState
    BY <1>0, <1>3 DEF WriteState, At, Orderly, Typed, RecordFits, TransitionRecord
  <2>3. handler'[t].step = "audit_transition" /\ trace' = trace
    BY <1>0, <1>3, <2>1, GotoKeepsType DEF WriteState, Step
  <2>4. \A v \in Works : state[v] # "NONE" => state'[v] # "NONE"
    <3>1. state'[w] \in WorkState /\ \A v \in Works \ {w} : state'[v] = state[v]
      BY <1>0, <1>3, <2>1, <2>2, UpdateKeepsType DEF WriteState
    <3>2. QED
      BY <3>1 DEF WorkState
  <2>5. FreshRead(t)' /\ CarriesMove(t)'
    BY <2>3 DEF FreshRead, CarriesMove, BeforeState
  <2>6. QED
    BY <1>3, <2>3, <2>4, <2>5, OrderlyCalm DEF WriteState, At
<1>4. CASE WriteHandedOver(t)
  <2>1. handler[t] \in Busy /\ w \in Works
    BY <1>4, <1>b DEF WriteHandedOver, Step
  <2>2. handler'[t].step = "audit_handover" /\ trace' = trace
    BY <1>0, <1>4, <2>1, GotoKeepsType DEF WriteHandedOver, Step
  <2>3. \A v \in Works : state[v] # "NONE" => state'[v] # "NONE"
    BY <1>0, <1>4, <2>1, UpdateKeepsType DEF WriteHandedOver, WorkState
  <2>4. FreshRead(t)' /\ CarriesMove(t)'
    BY <2>2 DEF FreshRead, CarriesMove, BeforeState
  <2>5. QED
    BY <1>4, <2>2, <2>3, <2>4, OrderlyCalm DEF WriteHandedOver, At
<1>5. CASE WriteBlocked(t)
  <2>1. handler[t] \in Busy /\ w \in Works /\ "BLOCKED" \in WorkState
    BY <1>5, <1>b DEF WriteBlocked, Step, WorkState
  <2>2. /\ handler'[t].step = "record_block_handover" /\ handler'[t].work = w
        /\ handler'[t].read = from /\ trace' = trace
    BY <1>0, <1>5, <2>1, GotoKeepsType DEF WriteBlocked, Step
  <2>3. state'[w] = "BLOCKED" /\ \A v \in Works \ {w} : state'[v] = state[v]
    BY <1>0, <1>5, <2>1, UpdateKeepsType DEF WriteBlocked
  <2>4. EndsIn(w, BlockTransition(from)) /\ handler[t].step = "write_blocked"
    BY <1>0, <1>5 DEF WriteBlocked, At, RecordIsLast
  <2> HIDE DEF w, from
  <2>5. FreshRead(t)' /\ CarriesMove(t)'
    BY <2>2, <2>3 DEF FreshRead, CarriesMove, BeforeState
  <2>6. RecordIsLast(t)'
    BY <2>2, <2>4 DEF RecordIsLast, EndsIn
  <2>7. RefusalsInHand(t)'
    BY <1>0, <2>2 DEF Orderly, RefusalsInHand, EndsRefused, IsRefusal, w
  <2>8. NothingBeforeCreation'
    BY <2>2, <2>3 DEF Orderly, NothingBeforeCreation
  <2>9. QED
    BY <2>5, <2>6, <2>7, <2>8 DEF Orderly
<1>6. QED
  BY <1>1, <1>2, <1>3, <1>4, <1>5, OrderlyAppend DEF Commit

LEMMA OrderlyStep ==
  ASSUME Sequential, Orderly, [Next]_vars
  PROVE  Orderly'
<1>1. PICK t : Threads = {t}
  BY DEF Sequential
<1>2. Typed'
  BY TypedStep DEF Orderly
<1>3. ~Crash(t)
  BY DEF Crash, Sequential, Orderly, Typed, TypeOK
<1>4. CASE UNCHANGED vars
  BY <1>2, <1>4 DEF vars, Orderly, NothingBeforeCreation, FreshRead, CarriesMove, RecordIsLast,
     RefusalsInHand, EndsIn, EndsRefused, LawfulMove, WellApproved, IsApplied, IsRefusal, IsTask
<1>5. QED
  BY <1>1, <1>2, <1>3, <1>4, OrderlyRequest, OrderlyDecide, OrderlyCommit DEF Next, Rest

-----------------------------------------------------------------------------
\* The chain that a trace shows

\* How many records of w have taken effect.
Published(w) == IF Unpublished(w) THEN Len(trace[w]) - 1 ELSE Len(trace[w])

\* With one thread, a work is between its record and its state only while it is served.
LEMMA ServedWork ==
  ASSUME NEW t, Threads = {t}, NEW w
  PROVE  /\ Unpublished(w) <=>
              /\ handler[t].step \in {"write_state", "write_blocked", "write_handed_over"}
              /\ handler[t].work = w
         /\ OwedOf(w) <=> handler[t].step = "record_block_handover" /\ handler[t].work = w
BY DEF Unpublished, OwedOf

LEMMA ChainStays ==
  ASSUME NEW w, trace'[w] = trace[w], Unpublished(w)' <=> Unpublished(w)
  PROVE  ChainOf(w)' = ChainOf(w)
<1>1. PICK before, n :
        /\ before = trace[w] /\ before = trace'[w]
        /\ n = IF Unpublished(w) THEN Len(trace[w]) - 1 ELSE Len(trace[w])
  OBVIOUS
<1>2. ChainOf(w) = LinksTo(before, n)
  BY <1>1 DEF ChainOf
<1>3. ChainOf(w)' = LinksTo(before, n)
  BY <1>1 DEF ChainOf
<1>4. QED
  BY <1>2, <1>3

\* A record that is committed before its state is not part of the chain yet.
LEMMA ChainOfRecorded ==
  ASSUME NEW w, trace[w] \in Seq(TraceRecord), NEW r \in TraceRecord,
         trace'[w] = Append(trace[w], r), ~Unpublished(w), Unpublished(w)'
  PROVE  ChainOf(w)' = ChainOf(w)
<1>1. PICK n, before, after :
        /\ n \in Nat /\ n = Len(trace[w]) /\ before = trace[w] /\ after = trace'[w]
        /\ Len(trace'[w]) = n + 1 /\ \A i \in 1 .. n : after[i] = before[i]
  <2>1. /\ Len(trace[w]) \in Nat /\ Len(trace'[w]) = Len(trace[w]) + 1
        /\ \A i \in 1 .. Len(trace[w]) : trace'[w][i] = trace[w][i]
    OBVIOUS
  <2>2. QED
    BY <2>1
<1>2. LinksTo(after, n) = LinksTo(before, n)
  BY <1>1, LinksOfPrefix
<1>3. ChainOf(w)' = LinksTo(after, n)
  BY <1>1 DEF ChainOf
<1>4. ChainOf(w) = LinksTo(before, n)
  BY <1>1 DEF ChainOf
<1>5. QED
  BY <1>2, <1>3, <1>4

\* When the state is written the record becomes its newest link.
LEMMA ChainOfPublished ==
  ASSUME NEW w, trace[w] \in Seq(TraceRecord), trace[w] # <<>>, trace'[w] = trace[w],
         Unpublished(w), ~Unpublished(w)', IsLink(trace[w], Len(trace[w]))
  PROVE  ChainOf(w)' = Append(ChainOf(w), LinkOf(trace[w][Len(trace[w])]))
<1>1. PICK n, before :
        n \in Nat /\ n + 1 = Len(trace[w]) /\ before = trace[w] /\ before = trace'[w] /\ Len(trace[w]) - 1 = n
  <2>1. Len(trace[w]) - 1 \in Nat /\ (Len(trace[w]) - 1) + 1 = Len(trace[w])
    OBVIOUS
  <2>2. QED
    BY <2>1
<1>2. LinksTo(before, n + 1) = Append(LinksTo(before, n), LinkOf(before[n + 1]))
  BY <1>1, LinksUnfold DEF LinkStep
<1>3. ChainOf(w)' = LinksTo(before, n + 1)
  BY <1>1 DEF ChainOf
<1>4. ChainOf(w) = LinksTo(before, n)
  BY <1>1 DEF ChainOf
<1>5. QED
  BY <1>1, <1>2, <1>3, <1>4

\* A task, or the handover of a refusal, is no link.
LEMMA ChainOfSkipped ==
  ASSUME NEW w, trace[w] \in Seq(TraceRecord), NEW r \in TraceRecord,
         trace'[w] = Append(trace[w], r), ~Unpublished(w), ~Unpublished(w)',
         ~IsLink(trace'[w], Len(trace'[w]))
  PROVE  ChainOf(w)' = ChainOf(w)
<1>1. PICK n, before, after :
        /\ n \in Nat /\ n = Len(trace[w]) /\ before = trace[w] /\ after = trace'[w]
        /\ Len(trace'[w]) = n + 1 /\ \A i \in 1 .. n : after[i] = before[i]
  <2>1. /\ Len(trace[w]) \in Nat /\ Len(trace'[w]) = Len(trace[w]) + 1
        /\ \A i \in 1 .. Len(trace[w]) : trace'[w][i] = trace[w][i]
    OBVIOUS
  <2>2. QED
    BY <2>1
<1>2. LinksTo(after, n) = LinksTo(before, n)
  BY <1>1, LinksOfPrefix
<1>3. LinksTo(after, n + 1) = LinksTo(after, n)
  BY <1>1, LinksUnfold DEF LinkStep
<1>4. ChainOf(w)' = LinksTo(after, n + 1)
  BY <1>1 DEF ChainOf
<1>5. ChainOf(w) = LinksTo(before, n)
  BY <1>1 DEF ChainOf
<1>6. QED
  BY <1>2, <1>3, <1>4, <1>5

\* A step that changes no state, no chain and no debt.
LEMMA PromiseStutter ==
  ASSUME state' = state,
         \A w \in Works : ChainOf(w)' = ChainOf(w) /\ (OwedOf(w)' <=> OwedOf(w))
  PROVE  UNCHANGED Promise!promised
<1>1. [w \in Works |-> ChainOf(w)]' = [w \in Works |-> ChainOf(w)]
  OBVIOUS
<1>2. [w \in Works |-> OwedOf(w)]' = [w \in Works |-> OwedOf(w)]
  BY DEF OwedOf
<1>3. QED
  BY <1>1, <1>2 DEF Promise!promised

\* The debt of one work changes.
LEMMA OwedChange ==
  ASSUME NEW w \in Works, \A v \in Works \ {w} : OwedOf(v)' <=> OwedOf(v)
  PROVE  [v \in Works |-> OwedOf(v)]' =
           [[v \in Works |-> OwedOf(v)] EXCEPT ![w] = OwedOf(w)']
BY DEF OwedOf

-----------------------------------------------------------------------------
\* The runtime implements GovernedWork

\* The state of one work changes and its chain grows by a link.
LEMMA PromiseAdvance ==
  ASSUME TypeOK, NEW w \in Works, NEW s \in WorkState, NEW kind,
         state' = [state EXCEPT ![w] = s], state[w] # "NONE", ~OwedOf(w),
         ChainOf(w)' = Append(ChainOf(w), [from |-> state[w], to |-> s, by |-> kind]),
         \A v \in Works \ {w} : ChainOf(v)' = ChainOf(v)
  PROVE  Promise!Advance(w, s, kind)
<1> DEFINE chain == [v \in Works |-> ChainOf(v)]
<1>1. chain' = [chain EXCEPT ![w] =
         Append(chain[w], [from |-> state[w], to |-> s, by |-> kind])]
  OBVIOUS
<1>2. [v \in Works |-> OwedOf(v)][w] = FALSE
  BY DEF OwedOf
<1>3. QED
  BY <1>1, <1>2 DEF Promise!Advance, Promise!Link

\* The steps at which a work and its trace, or a refusal and its handover, differ.
InFlight == {"write_state", "write_blocked", "write_handed_over", "record_block_handover"}

\* Nothing is promised while no work changes and none is in flight.
LEMMA QuietStutters ==
  ASSUME NEW t, Threads = {t}, state' = state, trace' = trace,
         handler[t].step \notin InFlight, handler'[t].step \notin InFlight
  PROVE  UNCHANGED Promise!promised
<1>1. ASSUME NEW w \in Works
      PROVE  ~Unpublished(w) /\ ~OwedOf(w) /\ ~Unpublished(w)' /\ ~OwedOf(w)'
  BY DEF InFlight, Unpublished, OwedOf
<1>2. \A w \in Works : ChainOf(w)' = ChainOf(w) /\ (OwedOf(w)' <=> OwedOf(w))
  BY <1>1, ChainStays
<1>3. QED
  BY <1>2, PromiseStutter

\* Nor is anything by the record of a move that is to come, or by one that is no move.
LEMMA RecordStutters ==
  ASSUME TypeOK, NEW t, Threads = {t}, NEW w \in Works, NEW r \in TraceRecord,
         Append1(w, r), state' = state, handler[t].step \notin InFlight,
         \/ /\ handler'[t].step \in InFlight \ {"record_block_handover"}
            /\ handler'[t].work = w
         \/ handler'[t].step \notin InFlight /\ IsTask(r)
  PROVE  UNCHANGED Promise!promised
<1>1. \A v \in Works : ~Unpublished(v) /\ ~OwedOf(v) /\ ~OwedOf(v)'
  BY DEF InFlight, Unpublished, OwedOf
<1>2. /\ trace'[w] = Append(trace[w], r) /\ trace[w] \in Seq(TraceRecord)
      /\ \A v \in Works \ {w} : trace'[v] = trace[v]
  BY AppendIsLast
<1>3. ChainOf(w)' = ChainOf(w)
  <2>1. CASE Unpublished(w)'
    BY <1>1, <1>2, <2>1, ChainOfRecorded
  <2>2. CASE ~Unpublished(w)'
    <3>1. IsTask(r)
      BY <2>2 DEF Unpublished, InFlight
    <3>2. ~IsLink(trace'[w], Len(trace'[w]))
      BY <1>2, <3>1 DEF IsLink
    <3>3. QED
      BY <1>1, <1>2, <2>2, <3>2, ChainOfSkipped
  <2>3. QED
    BY <2>1, <2>2
<1>4. ASSUME NEW v \in Works \ {w} PROVE ChainOf(v)' = ChainOf(v)
  <2>1. ~Unpublished(v)' /\ ~Unpublished(v)
    BY DEF InFlight, Unpublished
  <2>2. QED
    BY <1>2, <2>1, ChainStays
<1>5. QED
  BY <1>1, <1>3, <1>4, PromiseStutter

\* The other works keep their chains while one is published.
LEMMA OthersKeepChains ==
  ASSUME NEW t, Threads = {t}, NEW w \in Works, trace' = trace,
         handler[t].work = w, handler'[t].work = w
  PROVE  \A v \in Works \ {w} :
           ChainOf(v)' = ChainOf(v) /\ ~OwedOf(v) /\ ~OwedOf(v)'
<1>1. ASSUME NEW v \in Works \ {w}
      PROVE  ~Unpublished(v) /\ ~OwedOf(v) /\ ~Unpublished(v)' /\ ~OwedOf(v)'
  BY DEF Unpublished, OwedOf
<1>2. QED
  BY <1>1, ChainStays

\* An accepted transition is a move.
LEMMA WriteStateMoves ==
  ASSUME Orderly, NEW t, Threads = {t}, WriteState(t)
  PROVE  \E w \in Works, s \in WorkState, kind \in ActorKind :
           state[w] # "NONE" /\ Promise!Move(w, s, kind)
<1>0. TypeOK /\ t \in Threads /\ FreshRead(t) /\ CarriesMove(t) /\ RecordIsLast(t) /\ trace' = trace
  BY DEF Orderly, Typed, WriteState
<1>1. handler[t] \in Busy /\ handler[t].step = "write_state"
  BY <1>0, AtIsBusy DEF WriteState, Step, At
<1>2. PICK w \in Works, from \in WorkState, r \in TransitionRecord :
        handler[t].work = w /\ handler[t].read = from /\ handler[t].record = r
  BY <1>0, <1>1 DEF Busy, Orderly, Typed, RecordFits
<1>3. LawfulMove(w, from, r) /\ state[w] = from /\ EndsIn(w, r)
  BY <1>0, <1>1, <1>2 DEF FreshRead, CarriesMove, RecordIsLast, BeforeState
<1>4. handler'[t].step = "audit_transition" /\ handler'[t].work = w
  BY <1>0, <1>1, <1>2, GotoKeepsType DEF WriteState, Step
<1>5. Unpublished(w) /\ ~Unpublished(w)' /\ ~OwedOf(w) /\ ~OwedOf(w)'
  BY <1>1, <1>2, <1>4 DEF Unpublished, OwedOf
<1>6. trace[w] \in Seq(TraceRecord) /\ r.to_state \in WorkState /\ r.actor_kind \in ActorKind
  BY <1>0 DEF TypeOK, TransitionRecord
<1>7. IsLink(trace[w], Len(trace[w])) /\ LinkOf(r) = [from |-> from, to |-> r.to_state, by |-> r.actor_kind]
  BY <1>3 DEF LawfulMove, EndsIn, IsApplied, IsLink, IsTask, PaysRefusal, IsHandover, LinkOf
<1>8. ChainOf(w)' = Append(ChainOf(w), LinkOf(r))
  BY <1>0, <1>3, <1>5, <1>6, <1>7, ChainOfPublished DEF EndsIn
<1>9. Promise!Advance(w, r.to_state, r.actor_kind)
  <2>1. state' = [state EXCEPT ![w] = r.to_state]
    BY <1>2 DEF WriteState, UpdateWorkState
  <2>2. state[w] # "NONE"
    BY <1>3 DEF WorkState
  <2>3. \A v \in Works \ {w} : ChainOf(v)' = ChainOf(v)
    BY <1>0, <1>2, <1>4, OthersKeepChains
  <2>4. QED
    BY <1>0, <1>3, <1>5, <1>6, <1>7, <1>8, <2>1, <2>2, <2>3, PromiseAdvance
<1>10. UNCHANGED [v \in Works |-> OwedOf(v)]
  <2>1. \A v \in Works : ~OwedOf(v) /\ ~OwedOf(v)'
    BY <1>0, <1>2, <1>4, <1>5, OthersKeepChains
  <2>2. QED
    BY <2>1 DEF OwedOf
<1>11. /\ r.to_state \in AllowedTransitions[state[w]]
       /\ r.to_state = "APPROVED" /\ HumanPoints(ContractOf[w]) # {} => r.actor_kind = "HUMAN"
  BY <1>3 DEF LawfulMove, WellApproved
<1>12. Promise!Move(w, r.to_state, r.actor_kind)
  <2>1. Promise!AllowedTransitions = AllowedTransitions
    BY DEF Promise!AllowedTransitions, AllowedTransitions
  <2>2. QED
    BY <1>9, <1>10, <1>11, <2>1 DEF Promise!Move
<1>13. QED
  BY <1>3, <1>6, <1>12 DEF WorkState

\* A refusal stops the work.
LEMMA WriteBlockedRefuses ==
  ASSUME Orderly, NEW t, Threads = {t}, WriteBlocked(t)
  PROVE  \E w \in Works : Promise!Refuse(w)
<1>0. TypeOK /\ t \in Threads /\ FreshRead(t) /\ RecordIsLast(t) /\ trace' = trace
  BY DEF Orderly, Typed, WriteBlocked
<1>1. handler[t] \in Busy /\ handler[t].step = "write_blocked"
  BY <1>0, AtIsBusy DEF WriteBlocked, Step, At
<1>2. PICK w \in Works, from \in WorkState : handler[t].work = w /\ handler[t].read = from
  BY <1>1 DEF Busy
<1>3. state[w] = from /\ EndsIn(w, BlockTransition(from))
  BY <1>0, <1>1, <1>2 DEF FreshRead, RecordIsLast, BeforeState
<1>4. handler'[t].step = "record_block_handover" /\ handler'[t].work = w
  BY <1>0, <1>1, <1>2, GotoKeepsType DEF WriteBlocked, Step
<1>5. Unpublished(w) /\ ~Unpublished(w)' /\ ~OwedOf(w) /\ OwedOf(w)'
  BY <1>1, <1>2, <1>4 DEF Unpublished, OwedOf
<1>6. trace[w] \in Seq(TraceRecord) /\ "BLOCKED" \in WorkState
  BY <1>0 DEF TypeOK, WorkState
<1>7. /\ IsLink(trace[w], Len(trace[w]))
      /\ LinkOf(BlockTransition(from)) = [from |-> from, to |-> "BLOCKED", by |-> "SYSTEM"]
  BY <1>3 DEF EndsIn, IsLink, IsTask, PaysRefusal, IsHandover, LinkOf, BlockTransition
<1>8. ChainOf(w)' = Append(ChainOf(w), [from |-> from, to |-> "BLOCKED", by |-> "SYSTEM"])
  BY <1>0, <1>3, <1>5, <1>6, <1>7, ChainOfPublished DEF EndsIn
<1>9. \A v \in Works \ {w} : ChainOf(v)' = ChainOf(v) /\ (OwedOf(v)' <=> OwedOf(v))
  BY <1>0, <1>2, <1>4, OthersKeepChains
<1>10. Promise!Advance(w, "BLOCKED", "SYSTEM")
  <2>1. state' = [state EXCEPT ![w] = "BLOCKED"]
    BY <1>2 DEF WriteBlocked, UpdateWorkState
  <2>2. state[w] # "NONE"
    BY <1>3 DEF WorkState
  <2>3. QED
    BY <1>0, <1>3, <1>5, <1>6, <1>8, <1>9, <2>1, <2>2, PromiseAdvance
<1>11. [v \in Works |-> OwedOf(v)]' = [[v \in Works |-> OwedOf(v)] EXCEPT ![w] = TRUE]
  <2>1. OwedOf(w)' = TRUE
    BY <1>5 DEF OwedOf
  <2>2. QED
    BY <1>9, <2>1, OwedChange
<1>12. QED
  BY <1>10, <1>11 DEF Promise!Refuse

\* Its handover pays what the refusal owes.
LEMMA BlockHandoverPays ==
  ASSUME Orderly, NEW t, Threads = {t}, RecordBlockHandover(t)
  PROVE  \E w \in Works : Promise!HandOver(w)
<1>0. TypeOK /\ t \in Threads /\ RecordIsLast(t)
  BY DEF Orderly, Typed
<1>1. handler[t] \in Busy /\ handler[t].step = "record_block_handover"
  BY <1>0, AtIsBusy DEF RecordBlockHandover, Step, At
<1>2. PICK w \in Works, from \in WorkState : handler[t].work = w /\ handler[t].read = from
  BY <1>1 DEF Busy
<1>3. EndsIn(w, BlockTransition(from))
  BY <1>0, <1>1, <1>2 DEF RecordIsLast
<1>4. handler'[t].step = "audit_block"
  BY <1>0, <1>1, <1>2, GotoKeepsType DEF RecordBlockHandover, Step
<1>5. OwedOf(w) /\ \A v \in Works \ {w} : ~OwedOf(v)
  BY <1>1, <1>2 DEF OwedOf
<1>6. \A v \in Works : ~OwedOf(v)' /\ ~Unpublished(v) /\ ~Unpublished(v)'
  BY <1>1, <1>4 DEF OwedOf, Unpublished
<1>7. /\ trace'[w] = Append(trace[w], Handover(from)) /\ trace[w] \in Seq(TraceRecord)
      /\ Handover(from) \in TraceRecord
      /\ \A v \in Works \ {w} : trace'[v] = trace[v]
  BY <1>0, <1>2, RecordTypes, AppendIsLast DEF RecordBlockHandover
<1>8. ~IsLink(trace'[w], Len(trace'[w]))
  <2>1. /\ Len(trace'[w]) = Len(trace[w]) + 1 /\ Len(trace[w]) > 0
        /\ trace'[w][Len(trace[w]) + 1] = Handover(from)
        /\ trace'[w][Len(trace[w])] = BlockTransition(from)
    BY <1>3, <1>7 DEF EndsIn
  <2>2. IsRefusal(BlockTransition(from)) /\ IsHandover(Handover(from))
    BY DEF IsRefusal, IsHandover, BlockTransition, Handover
  <2>3. QED
    BY <2>1, <2>2 DEF IsLink, PaysRefusal
<1>9. \A v \in Works : ChainOf(v)' = ChainOf(v)
  BY <1>6, <1>7, <1>8, ChainOfSkipped, ChainStays
<1>10. [v \in Works |-> ChainOf(v)]' = [v \in Works |-> ChainOf(v)]
  BY <1>9
<1>11. [v \in Works |-> OwedOf(v)]' = [[v \in Works |-> OwedOf(v)] EXCEPT ![w] = FALSE]
  <2>1. OwedOf(w)' = FALSE /\ \A v \in Works \ {w} : OwedOf(v)' <=> OwedOf(v)
    BY <1>5, <1>6 DEF OwedOf
  <2>2. QED
    BY <2>1, OwedChange
<1>12. QED
  BY <1>5, <1>10, <1>11 DEF Promise!HandOver, RecordBlockHandover

\* A handover that an actor asked for stops the work.
LEMMA WriteHandedOverStops ==
  ASSUME Orderly, NEW t, Threads = {t}, WriteHandedOver(t)
  PROVE  \E w \in Works : Promise!Stop(w)
<1>0. TypeOK /\ t \in Threads /\ FreshRead(t) /\ RecordIsLast(t) /\ trace' = trace
  BY DEF Orderly, Typed, WriteHandedOver
<1>1. handler[t] \in Busy /\ handler[t].step = "write_handed_over"
  BY <1>0, AtIsBusy DEF WriteHandedOver, Step, At
<1>2. PICK w \in Works, from \in WorkState : handler[t].work = w /\ handler[t].read = from
  BY <1>1 DEF Busy
<1>3. /\ state[w] = from /\ EndsIn(w, Handover(from))
      /\ ~PaysRefusal(trace[w], Len(trace[w]))
  BY <1>0, <1>1, <1>2 DEF FreshRead, RecordIsLast, BeforeState
<1>4. handler'[t].step = "audit_handover" /\ handler'[t].work = w
  BY <1>0, <1>1, <1>2, GotoKeepsType DEF WriteHandedOver, Step
<1>5. Unpublished(w) /\ ~Unpublished(w)' /\ ~OwedOf(w) /\ ~OwedOf(w)'
  BY <1>1, <1>2, <1>4 DEF Unpublished, OwedOf
<1>6. trace[w] \in Seq(TraceRecord) /\ "BLOCKED" \in WorkState
  BY <1>0 DEF TypeOK, WorkState
<1>7. /\ IsLink(trace[w], Len(trace[w]))
      /\ LinkOf(Handover(from)) = [from |-> from, to |-> "BLOCKED", by |-> "SYSTEM"]
  BY <1>3 DEF EndsIn, IsLink, IsTask, IsHandover, LinkOf, Handover
<1>8. ChainOf(w)' = Append(ChainOf(w), [from |-> from, to |-> "BLOCKED", by |-> "SYSTEM"])
  BY <1>0, <1>3, <1>5, <1>6, <1>7, ChainOfPublished DEF EndsIn
<1>9. \A v \in Works \ {w} : ChainOf(v)' = ChainOf(v) /\ ~OwedOf(v) /\ ~OwedOf(v)'
  BY <1>0, <1>2, <1>4, OthersKeepChains
<1>10. Promise!Advance(w, "BLOCKED", "SYSTEM")
  <2>1. state' = [state EXCEPT ![w] = "BLOCKED"]
    BY <1>0, <1>2 DEF WriteHandedOver, UpdateWorkState, TypeOK
  <2>2. state[w] # "NONE"
    BY <1>3 DEF WorkState
  <2>3. QED
    BY <1>0, <1>3, <1>5, <1>6, <1>8, <1>9, <2>1, <2>2, PromiseAdvance
<1>11. UNCHANGED [v \in Works |-> OwedOf(v)]
  BY <1>5, <1>9 DEF OwedOf
<1>12. QED
  BY <1>10, <1>11 DEF Promise!Stop

\* A commit is a move, a refusal, its handover, a stop, or nothing that is promised.
LEMMA CommitKeepsPromise ==
  ASSUME Orderly, NEW t, Threads = {t}, Commit(t)
  PROVE  [Promise!ANext]_(Promise!promised)
<1> DEFINE w == handler[t].work
           record == handler[t].record
<1>0. TypeOK /\ t \in Threads /\ CarriesMove(t)
  BY DEF Orderly, Typed
<1>b. ASSUME NEW s \in Step, At(t, s)
      PROVE  handler[t] \in Busy /\ w \in Works /\ record \in TraceRecord
             /\ BlockTransition(handler[t].read) \in TraceRecord
  BY <1>0, <1>b, AtIsBusy, RecordTypes DEF Busy
<1>1. CASE WriteState(t)
  <2>1. Promise!WorkState = WorkState /\ Promise!ActorKind = ActorKind
    BY DEF Promise!WorkState, WorkState, Promise!ActorKind, ActorKind
  <2>2. QED
    BY <1>1, <2>1, WriteStateMoves DEF Promise!ANext
<1>2. CASE WriteBlocked(t)
  BY <1>2, WriteBlockedRefuses DEF Promise!ANext
<1>3. CASE RecordBlockHandover(t)
  BY <1>3, BlockHandoverPays DEF Promise!ANext
<1>4. CASE WriteHandedOver(t)
  BY <1>4, WriteHandedOverStops DEF Promise!ANext
<1>5. CASE AuditCreated(t) \/ AuditTransition(t) \/ AuditTask(t) \/ AuditHandover(t) \/ AuditBlock(t)
  <2>1. UNCHANGED <<state, trace>> /\ handler[t].step \notin InFlight
    BY <1>5 DEF AuditCreated, AuditTransition, AuditTask, AuditHandover, AuditBlock, At, InFlight
  <2>2. handler'[t].step \in {"idle", "record_task"}
    <3>1. CASE Finish(t)
      BY <1>0, <3>1, FinishKeepsType DEF Idle
    <3>2. CASE AuditBlock(t) /\ Goto(t, "record_task")
      <4>1. handler[t] \in Busy
        BY <1>b, <3>2 DEF AuditBlock, Step
      <4>2. QED
        BY <1>0, <3>2, <4>1, GotoKeepsType DEF Step
    <3>3. QED
      BY <1>5, <3>1, <3>2 DEF AuditCreated, AuditTransition, AuditTask, AuditHandover, AuditBlock
  <2>3. QED
    BY <2>1, <2>2, QuietStutters DEF InFlight
<1>6. CASE RecordTransition(t)
  <2>1. handler[t] \in Busy /\ w \in Works /\ record \in TraceRecord
    BY <1>6, <1>b DEF RecordTransition, Step
  <2>2. handler'[t].step = "write_state" /\ handler'[t].work = w
    BY <1>0, <1>6, <2>1, GotoKeepsType DEF RecordTransition, Step
  <2>3. QED
    BY <1>0, <1>6, <2>1, <2>2, RecordStutters DEF RecordTransition, At, InFlight
<1>7. CASE RecordBlock(t)
  <2>1. handler[t] \in Busy /\ w \in Works /\ BlockTransition(handler[t].read) \in TraceRecord
    BY <1>7, <1>b DEF RecordBlock, Step
  <2>2. handler'[t].step = "write_blocked" /\ handler'[t].work = w
    BY <1>0, <1>7, <2>1, GotoKeepsType DEF RecordBlock, Step
  <2>3. QED
    BY <1>0, <1>7, <2>1, <2>2, RecordStutters DEF RecordBlock, At, InFlight
<1>8. CASE RecordTask(t)
  <2>1. handler[t] \in Busy /\ w \in Works /\ record \in TraceRecord
    BY <1>8, <1>b DEF RecordTask, Step
  <2>2. handler'[t].step = "audit_task" /\ IsTask(record)
    BY <1>0, <1>8, <2>1, GotoKeepsType DEF RecordTask, Step, At, CarriesMove
  <2>3. QED
    BY <1>0, <1>8, <2>1, <2>2, RecordStutters DEF RecordTask, At, InFlight
<1>9. CASE RecordHandover(t)
  <2>1. handler[t] \in Busy /\ w \in Works /\ record \in TraceRecord
    BY <1>9, <1>b DEF RecordHandover, Step
  <2>2. handler'[t].step = "write_handed_over" /\ handler'[t].work = w
    BY <1>0, <1>9, <2>1, GotoKeepsType DEF RecordHandover, Step
  <2>3. QED
    BY <1>0, <1>9, <2>1, <2>2, RecordStutters DEF RecordHandover, At, InFlight
<1>10. QED
  BY <1>1, <1>2, <1>3, <1>4, <1>5, <1>6, <1>7, <1>8, <1>9 DEF Commit

\* A request creates a work or changes nothing yet.
LEMMA RequestKeepsPromise ==
  ASSUME Orderly, NEW t, Threads = {t}, Request(t)
  PROVE  [Promise!ANext]_(Promise!promised)
<1>0. TypeOK /\ t \in Threads
  BY DEF Orderly, Typed
<1>1. PICK w \in Works :
        \/ StartWork(t, w)
        \/ \E req \in TransitionRequests : ReceiveTransition(t, w, req)
        \/ \E req \in TaskRequests : ReceiveTask(t, w, req)
        \/ RequestHandover(t, w)
  BY DEF Request
<1>2. handler[t].step = "idle" /\ trace' = trace
  BY <1>1 DEF StartWork, ReceiveTransition, ReceiveTask, RequestHandover, CanServe, Idle
<1>3. CASE StartWork(t, w)
  <2>1. handler'[t].step = "audit_created"
    BY <1>0, <1>3 DEF StartWork, TypeOK
  <2>2. ASSUME NEW v \in Works
        PROVE  ~Unpublished(v) /\ ~OwedOf(v) /\ ~Unpublished(v)' /\ ~OwedOf(v)'
    BY <1>2, <2>1 DEF Unpublished, OwedOf
  <2>3. \A v \in Works : ChainOf(v)' = ChainOf(v)
    BY <1>2, <2>2, ChainStays
  <2>4. /\ [v \in Works |-> ChainOf(v)]' = [v \in Works |-> ChainOf(v)]
        /\ [v \in Works |-> OwedOf(v)]' = [v \in Works |-> OwedOf(v)]
    BY <2>2, <2>3 DEF OwedOf
  <2>5. Promise!Create(w)
    BY <1>3, <2>4 DEF Promise!Create, StartWork, UpdateWorkState
  <2>6. QED
    BY <2>5 DEF Promise!ANext
<1>4. ASSUME state' = state, handler'[t].step \notin InFlight
      PROVE  UNCHANGED Promise!promised
  BY <1>2, <1>4, QuietStutters DEF InFlight
<1>5. CASE \/ \E req \in TransitionRequests : ReceiveTransition(t, w, req)
           \/ \E req \in TaskRequests : ReceiveTask(t, w, req)
           \/ RequestHandover(t, w)
  <2>1. state' = state /\ handler'[t].step \in {"decide_transition", "decide_task", "record_handover"}
    BY <1>0, <1>5 DEF ReceiveTransition, ReceiveTask, RequestHandover, Ask, Start, TypeOK
  <2>2. QED
    BY <1>4, <2>1 DEF InFlight
<1>6. QED
  BY <1>1, <1>3, <1>5

\* A decision changes nothing yet.
LEMMA DecideKeepsPromise ==
  ASSUME Orderly, NEW t, Threads = {t}, Decide(t)
  PROVE  UNCHANGED Promise!promised
<1>0. TypeOK /\ t \in Threads
  BY DEF Orderly, Typed
<1>1. UNCHANGED <<state, trace>>
  BY <1>0, DecideStarts
<1>2. handler[t].step \notin InFlight
  BY DEF Decide, DecideTransition, DecideTask, AssemblyRaises, At, InFlight
<1>3. handler'[t].step \in {"idle", "record_transition", "record_block", "record_task"}
  BY <1>0, DecideStarts DEF Finish, Start, Idle, TypeOK
<1>4. QED
  BY <1>1, <1>2, <1>3, QuietStutters DEF InFlight

LEMMA PromiseInit == Init => Promise!AInit
<1> SUFFICES ASSUME Init PROVE Promise!AInit
  OBVIOUS
<1>1. ASSUME NEW w \in Works PROVE ~Unpublished(w) /\ ~OwedOf(w) /\ ChainOf(w) = <<>>
  <2>1. ~Unpublished(w) /\ ~OwedOf(w) /\ trace[w] = <<>>
    BY DEF Init, Unpublished, OwedOf, Idle
  <2>2. LinksTo(trace[w], 0) = <<>>
    BY LinksUnfold
  <2>3. QED
    BY <2>1, <2>2 DEF ChainOf
<1>2. [w \in Works |-> OwedOf(w)] = [w \in Works |-> FALSE]
  BY <1>1 DEF OwedOf
<1>3. QED
  BY <1>1, <1>2 DEF Promise!AInit, Init

LEMMA PromiseStep ==
  ASSUME Sequential, Orderly, [Next]_vars
  PROVE  [Promise!ANext]_(Promise!promised)
<1>1. PICK t : Threads = {t}
  BY DEF Sequential
<1>2. ~Crash(t)
  BY DEF Crash, Sequential, Orderly, Typed, TypeOK
<1>3. CASE UNCHANGED vars
  <2>1. \A w \in Works : ChainOf(w)' = ChainOf(w) /\ (OwedOf(w)' <=> OwedOf(w))
    <3>1. \A w \in Works : Unpublished(w)' <=> Unpublished(w)
      BY <1>3 DEF vars, Unpublished
    <3>2. QED
      BY <1>3, <3>1, ChainStays DEF vars, OwedOf
  <2>2. QED
    BY <1>3, <2>1, PromiseStutter DEF vars
<1>4. QED
  BY <1>1, <1>2, <1>3, CommitKeepsPromise, RequestKeepsPromise, DecideKeepsPromise DEF Next, Rest

(***************************************************************************)
(* For every set of works, contracts, requests and verdicts: requests that *)
(* come one after the other and do not die are answered as GovernedWork    *)
(* promises.  The four commits of a refusal, the three of a transition or  *)
(* a handover and the two of a task look like one step each, the chain is  *)
(* the sequence of the moves, and nothing happens to a work between its    *)
(* refusal and its handover (transition_work, execute_task,                *)
(* request_handover, _block_and_handover).                                 *)
(***************************************************************************)
THEOREM SequentialRuntimeKeepsPromise ==
  ASSUME Sequential
  PROVE  Spec => ImplementsGovernedWork
<1>1. Orderly /\ [Next]_vars => Orderly' /\ [Promise!ANext]_(Promise!promised)
  BY OrderlyStep, PromiseStep
<1>2. QED
  BY <1>1, OrderlyInit, PromiseInit, PTL DEF Spec, ImplementsGovernedWork, Promise!ASpec

-----------------------------------------------------------------------------
\* What one step does to one work

Untouched(w) ==
  state'[w] = state[w] /\ trace'[w] = trace[w] /\ (Unpublished(w)' <=> Unpublished(w))

Created(w) ==
  /\ state[w] = "NONE" /\ state'[w] = "CREATED"
  /\ trace[w] = <<>> /\ trace'[w] = <<>>
  /\ ~Unpublished(w) /\ ~Unpublished(w)'

\* Record r tells a move from the current state that will be written next.
Announced(w, r) ==
  /\ state[w] # "NONE" /\ state'[w] = state[w]
  /\ trace'[w] = Append(trace[w], r)
  /\ ~Unpublished(w) /\ Unpublished(w)'
  /\ ~IsTask(r) /\ ~EndsRefused(w)
  /\ r.from_state = state[w]
  /\ IsRefusal(r) => r.to_state = "BLOCKED"
  /\ IsApplied(r) => LawfulMove(w, state[w], r)

\* The state that the newest record tells is written.
Written(w) ==
  LET r == trace[w][Len(trace[w])]
  IN  /\ trace[w] # <<>> /\ trace'[w] = trace[w]
      /\ Unpublished(w) /\ ~Unpublished(w)'
      /\ ~IsTask(r) /\ LandsIn(r, state'[w])
      /\ \/ state'[w] = "BLOCKED"
         \/ LawfulMove(w, state[w], r) /\ state'[w] = r.to_state
      /\ state[w] \in WorkState

\* Record r moves nothing: a task, or the handover of a refusal.
Noted(w, r) ==
  /\ state[w] # "NONE" /\ state'[w] = state[w]
  /\ trace'[w] = Append(trace[w], r)
  /\ ~Unpublished(w) /\ ~Unpublished(w)'
  /\ \/ IsTask(r)
     \/ /\ state[w] = "BLOCKED" /\ EndsRefused(w)
        /\ r = Handover(trace[w][Len(trace[w])].from_state)

StepOf(w) ==
  \/ Untouched(w) \/ Created(w) \/ Written(w)
  \/ \E r \in TraceRecord : Announced(w, r) \/ Noted(w, r)

\* The works that the handler does not serve.
LEMMA OthersUntouched ==
  ASSUME NEW t, Threads = {t}, NEW w,
         handler[t].step \in InFlight => handler[t].work # w,
         handler'[t].step \in InFlight => handler'[t].work # w,
         state'[w] = state[w], trace'[w] = trace[w]
  PROVE  Untouched(w)
BY DEF Untouched, Unpublished, InFlight

LEMMA RequestOfWork ==
  ASSUME Orderly, NEW t, Threads = {t}, Request(t), NEW w \in Works
  PROVE  StepOf(w)
<1>0. TypeOK /\ t \in Threads
  BY DEF Orderly, Typed
<1>1. PICK v \in Works :
        \/ StartWork(t, v)
        \/ \E req \in TransitionRequests : ReceiveTransition(t, v, req)
        \/ \E req \in TaskRequests : ReceiveTask(t, v, req)
        \/ RequestHandover(t, v)
  BY DEF Request
<1>2. handler[t].step = "idle" /\ trace' = trace
  BY <1>1 DEF StartWork, ReceiveTransition, ReceiveTask, RequestHandover, CanServe, Idle
<1>3. CASE StartWork(t, v)
  <2>1. handler'[t].step = "audit_created"
    BY <1>0, <1>3 DEF StartWork, TypeOK
  <2>2. state'[v] = "CREATED" /\ \A u \in Works \ {v} : state'[u] = state[u]
    BY <1>0, <1>3, UpdateKeepsType DEF StartWork, WorkState
  <2>3. trace[v] = <<>>
    BY <1>3 DEF Orderly, NothingBeforeCreation, StartWork
  <2>4. Created(v)
    BY <1>2, <1>3, <2>1, <2>2, <2>3 DEF Created, StartWork, Unpublished
  <2>5. w # v => Untouched(w)
    BY <1>2, <2>1, <2>2, OthersUntouched DEF InFlight
  <2>6. QED
    BY <2>4, <2>5 DEF StepOf
<1>4. CASE \/ \E req \in TransitionRequests : ReceiveTransition(t, v, req)
           \/ \E req \in TaskRequests : ReceiveTask(t, v, req)
           \/ RequestHandover(t, v)
  <2>1. state' = state /\ handler'[t].step \in {"decide_transition", "decide_task", "record_handover"}
    BY <1>0, <1>4 DEF ReceiveTransition, ReceiveTask, RequestHandover, Ask, Start, TypeOK
  <2>2. Untouched(w)
    BY <1>2, <2>1, OthersUntouched DEF InFlight
  <2>3. QED
    BY <2>2 DEF StepOf
<1>5. QED
  BY <1>1, <1>3, <1>4

LEMMA DecideOfWork ==
  ASSUME Orderly, NEW t, Threads = {t}, Decide(t), NEW w \in Works
  PROVE  StepOf(w)
<1>0. TypeOK /\ t \in Threads
  BY DEF Orderly, Typed
<1>1. UNCHANGED <<state, trace>>
  BY <1>0, DecideStarts
<1>2. handler[t].step \notin InFlight
  BY DEF Decide, DecideTransition, DecideTask, AssemblyRaises, At, InFlight
<1>3. handler'[t].step \in {"idle", "record_transition", "record_block", "record_task"}
  BY <1>0, DecideStarts DEF Finish, Start, Idle, TypeOK
<1>4. Untouched(w)
  BY <1>1, <1>2, <1>3, OthersUntouched DEF InFlight
<1>5. QED
  BY <1>4 DEF StepOf

\* The handler commits a record.
LEMMA AppendOfWork ==
  ASSUME Orderly, NEW t, Threads = {t}, NEW w \in Works,
         \/ RecordTransition(t) \/ RecordBlock(t) \/ RecordBlockHandover(t)
         \/ RecordTask(t) \/ RecordHandover(t)
  PROVE  StepOf(w)
<1>0. TypeOK /\ t \in Threads /\ state' = state /\ FreshRead(t) /\ CarriesMove(t) /\ RecordIsLast(t)
  BY DEF Orderly, Typed, RecordTransition, RecordBlock, RecordBlockHandover, RecordTask,
         RecordHandover
<1>1. /\ handler[t] \in Busy
      /\ handler[t].step \in {"record_transition", "record_block", "record_block_handover",
                              "record_task", "record_handover"}
  BY <1>0, AtIsBusy DEF RecordTransition, RecordBlock, RecordBlockHandover, RecordTask,
                        RecordHandover, Step, At
<1>2. PICK v \in Works, from \in WorkState, record \in TraceRecord :
        handler[t].work = v /\ handler[t].read = from /\ handler[t].record = record
  BY <1>1 DEF Busy
<1>3. BlockTransition(from) \in TraceRecord /\ Handover(from) \in TraceRecord /\ from # "NONE"
  BY RecordTypes DEF WorkState
<1>4. ASSUME NEW s \in Step, Goto(t, s)
      PROVE  handler'[t].step = s /\ handler'[t].work = v
  BY <1>0, <1>1, <1>2, <1>4, GotoKeepsType
<1>5. handler'[t].work = v
  BY <1>4 DEF RecordTransition, RecordBlock, RecordBlockHandover, RecordTask, RecordHandover, Step
<1>6. CASE w # v
  <2>1. trace'[w] = trace[w]
    BY <1>0, <1>2, <1>3, <1>6, AppendIsLast DEF RecordTransition, RecordBlock,
       RecordBlockHandover, RecordTask, RecordHandover
  <2>2. QED
    BY <1>0, <1>2, <1>5, <1>6, <2>1, OthersUntouched DEF StepOf
<1>7. CASE w = v
  <2>1. ASSUME NEW r \in TraceRecord, Append1(w, r)
        PROVE  trace'[w] = Append(trace[w], r) /\ state'[w] = state[w]
    BY <1>0, <2>1, AppendIsLast
  <2>2. ~Unpublished(w)
    BY <1>1 DEF Unpublished
  <2>3. handler[t].step # "record_block_handover" => ~EndsRefused(w)
    BY <1>0, <1>1 DEF Orderly, RefusalsInHand
  <2>4. CASE RecordTransition(t)
    <3>1. LawfulMove(w, from, record) /\ state[w] = from /\ ~EndsRefused(w)
      BY <1>0, <1>2, <1>7, <2>3, <2>4 DEF RecordTransition, At, CarriesMove, FreshRead, BeforeState
    <3>2. trace'[w] = Append(trace[w], record) /\ state'[w] = state[w]
      BY <1>2, <1>7, <2>1, <2>4 DEF RecordTransition
    <3>3. Unpublished(w)'
      BY <1>4, <1>7, <2>4 DEF RecordTransition, Step, Unpublished
    <3>4. Announced(w, record)
      BY <1>3, <2>2, <3>1, <3>2, <3>3 DEF Announced, LawfulMove, IsApplied, IsTask, IsRefusal
    <3>5. QED
      BY <3>4 DEF StepOf
  <2>5. CASE RecordBlock(t)
    <3>1. state[w] = from /\ ~EndsRefused(w)
      BY <1>0, <1>2, <1>7, <2>3, <2>5 DEF RecordBlock, At, FreshRead, BeforeState
    <3>2. trace'[w] = Append(trace[w], BlockTransition(from)) /\ state'[w] = state[w]
      BY <1>2, <1>3, <1>7, <2>1, <2>5 DEF RecordBlock
    <3>3. Unpublished(w)'
      BY <1>4, <1>7, <2>5 DEF RecordBlock, Step, Unpublished
    <3>4. Announced(w, BlockTransition(from))
      BY <1>3, <2>2, <3>1, <3>2, <3>3 DEF Announced, IsApplied, IsTask, BlockTransition
    <3>5. QED
      BY <1>3, <3>4 DEF StepOf
  <2>6. CASE RecordHandover(t)
    <3>1. record = Handover(from) /\ state[w] = from /\ ~EndsRefused(w)
      BY <1>0, <1>2, <1>7, <2>3, <2>6 DEF RecordHandover, At, CarriesMove, FreshRead, BeforeState
    <3>2. trace'[w] = Append(trace[w], record) /\ state'[w] = state[w]
      BY <1>2, <1>7, <2>1, <2>6 DEF RecordHandover
    <3>3. Unpublished(w)'
      BY <1>4, <1>7, <2>6 DEF RecordHandover, Step, Unpublished
    <3>4. Announced(w, record)
      BY <1>3, <2>2, <3>1, <3>2, <3>3 DEF Announced, IsApplied, IsTask, IsRefusal, Handover
    <3>5. QED
      BY <3>4 DEF StepOf
  <2>7. CASE RecordTask(t)
    <3>1. IsTask(record) /\ state[w] # "NONE"
      BY <1>0, <1>2, <1>7, <2>7 DEF RecordTask, At, CarriesMove, FreshRead
    <3>2. trace'[w] = Append(trace[w], record) /\ state'[w] = state[w]
      BY <1>2, <1>7, <2>1, <2>7 DEF RecordTask
    <3>3. ~Unpublished(w)'
      BY <1>4, <2>7 DEF RecordTask, Step, Unpublished
    <3>4. Noted(w, record)
      BY <2>2, <3>1, <3>2, <3>3 DEF Noted
    <3>5. QED
      BY <3>4 DEF StepOf
  <2>8. CASE RecordBlockHandover(t)
    <3>1. state[w] = "BLOCKED" /\ EndsIn(w, BlockTransition(from))
      BY <1>0, <1>2, <1>7, <2>8 DEF RecordBlockHandover, At, FreshRead, RecordIsLast
    <3>2. trace'[w] = Append(trace[w], Handover(from)) /\ state'[w] = state[w]
      BY <1>2, <1>3, <1>7, <2>1, <2>8 DEF RecordBlockHandover
    <3>3. ~Unpublished(w)'
      BY <1>4, <2>8 DEF RecordBlockHandover, Step, Unpublished
    <3>4. EndsRefused(w) /\ trace[w][Len(trace[w])].from_state = from
      BY <3>1 DEF EndsIn, EndsRefused, IsRefusal, BlockTransition
    <3>5. Noted(w, Handover(from))
      BY <2>2, <3>1, <3>2, <3>3, <3>4 DEF Noted
    <3>6. QED
      BY <1>3, <3>5 DEF StepOf
  <2>9. QED
    BY <2>4, <2>5, <2>6, <2>7, <2>8
<1>8. QED
  BY <1>6, <1>7

\* The handler writes the state that its record tells, or an audit event.
LEMMA CommitOfWork ==
  ASSUME Orderly, NEW t, Threads = {t}, Commit(t), NEW w \in Works
  PROVE  StepOf(w)
<1>0. TypeOK /\ t \in Threads /\ FreshRead(t) /\ CarriesMove(t) /\ RecordIsLast(t)
  BY DEF Orderly, Typed
<1>1. ASSUME UNCHANGED <<state, trace>>, handler[t].step \notin InFlight,
             handler'[t].step \notin InFlight
      PROVE  StepOf(w)
  BY <1>1, OthersUntouched DEF StepOf
<1>2. CASE AuditCreated(t) \/ AuditTransition(t) \/ AuditTask(t) \/ AuditHandover(t) \/ AuditBlock(t)
  <2>1. UNCHANGED <<state, trace>> /\ handler[t].step \notin InFlight
    BY <1>2 DEF AuditCreated, AuditTransition, AuditTask, AuditHandover, AuditBlock, At, InFlight
  <2>2. handler'[t].step \in {"idle", "record_task"}
    <3>1. CASE Finish(t)
      BY <1>0, <3>1, FinishKeepsType DEF Idle
    <3>2. CASE AuditBlock(t) /\ Goto(t, "record_task")
      <4>1. handler[t] \in Busy
        BY <1>0, <3>2, AtIsBusy DEF AuditBlock, Step
      <4>2. QED
        BY <1>0, <3>2, <4>1, GotoKeepsType DEF Step
    <3>3. QED
      BY <1>2, <3>1, <3>2 DEF AuditCreated, AuditTransition, AuditTask, AuditHandover, AuditBlock
  <2>3. QED
    BY <1>1, <2>1, <2>2 DEF InFlight
<1>3. CASE WriteState(t) \/ WriteBlocked(t) \/ WriteHandedOver(t)
  <2>1. /\ handler[t] \in Busy /\ trace' = trace
        /\ handler[t].step \in {"write_state", "write_blocked", "write_handed_over"}
    BY <1>0, <1>3, AtIsBusy DEF WriteState, WriteBlocked, WriteHandedOver, Step, At
  <2>2. PICK v \in Works, from \in WorkState, record \in TraceRecord :
          handler[t].work = v /\ handler[t].read = from /\ handler[t].record = record
    BY <2>1 DEF Busy
  <2>3. /\ handler'[t].work = v
        /\ handler'[t].step \in {"audit_transition", "record_block_handover", "audit_handover"}
    BY <1>0, <1>3, <2>1, <2>2, GotoKeepsType DEF WriteState, WriteBlocked, WriteHandedOver, Step
  <2>4. state[v] = from
    BY <1>0, <2>1, <2>2 DEF FreshRead, BeforeState
  <2>5. PICK s \in WorkState :
          /\ state' = [state EXCEPT ![v] = s]
          /\ s = "BLOCKED" \/ (WriteState(t) /\ s = record.to_state)
    <3>1. CASE WriteState(t)
      <4>1. record.to_state \in WorkState
        BY <1>0, <2>1, <2>2, <3>1 DEF Orderly, Typed, RecordFits, TransitionRecord, WriteState, At
      <4>2. QED
        BY <2>2, <3>1, <4>1 DEF WriteState, UpdateWorkState
    <3>2. CASE WriteBlocked(t)
      BY <2>2, <3>2 DEF WriteBlocked, UpdateWorkState, WorkState
    <3>3. CASE WriteHandedOver(t)
      BY <1>0, <2>2, <3>3 DEF WriteHandedOver, UpdateWorkState, WorkState, TypeOK
    <3>4. QED
      BY <1>3, <3>1, <3>2, <3>3
  <2>6. state'[v] = s /\ \A u \in Works \ {v} : state'[u] = state[u]
    BY <1>0, <2>5 DEF TypeOK
  <2>7. CASE w # v
    <3>1. Untouched(w)
      BY <2>1, <2>2, <2>3, <2>6, <2>7, OthersUntouched
    <3>2. QED
      BY <3>1 DEF StepOf
  <2>8. CASE w = v
    <3>1. Unpublished(w) /\ ~Unpublished(w)'
      BY <2>1, <2>2, <2>3, <2>8 DEF Unpublished
    <3>2. PICK r : EndsIn(w, r) /\ ~IsTask(r) /\ LandsIn(r, s)
                   /\ (s = "BLOCKED" \/ (LawfulMove(w, from, r) /\ s = r.to_state))
      <4>1. CASE WriteState(t)
        <5>2. EndsIn(w, record) /\ LawfulMove(w, from, record) /\ s = record.to_state
          BY <1>0, <2>2, <2>5, <2>6, <2>8, <4>1 DEF WriteState, At, RecordIsLast, CarriesMove,
             UpdateWorkState, TypeOK
        <5>3. ~IsTask(record) /\ LandsIn(record, s)
          BY <5>2 DEF LawfulMove, IsApplied, IsTask, LandsIn
        <5>4. QED
          BY <5>2, <5>3
      <4>2. CASE WriteBlocked(t)
        <5>1. EndsIn(w, BlockTransition(from)) /\ s = "BLOCKED"
          BY <1>0, <2>2, <2>5, <2>8, <4>2 DEF WriteBlocked, WriteState, At, RecordIsLast
        <5>2. ~IsTask(BlockTransition(from)) /\ LandsIn(BlockTransition(from), s)
          BY <5>1 DEF BlockTransition, IsTask, LandsIn
        <5>3. QED
          BY <5>1, <5>2
      <4>3. CASE WriteHandedOver(t)
        <5>1. EndsIn(w, Handover(from)) /\ s = "BLOCKED"
          BY <1>0, <2>2, <2>5, <2>8, <4>3 DEF WriteHandedOver, WriteState, At, RecordIsLast
        <5>2. ~IsTask(Handover(from)) /\ LandsIn(Handover(from), s)
          BY <5>1 DEF Handover, IsTask, LandsIn
        <5>3. QED
          BY <5>1, <5>2
      <4>4. QED
        BY <1>3, <4>1, <4>2, <4>3
    <3>3. Written(w)
      BY <2>1, <2>4, <2>6, <2>8, <3>1, <3>2 DEF Written, EndsIn
    <3>4. QED
      BY <3>3 DEF StepOf
  <2>9. QED
    BY <2>7, <2>8
<1>4. QED
  BY <1>2, <1>3, AppendOfWork DEF Commit

\* So every step of the sequential runtime is one of the five for every work.
LEMMA StepOfWork ==
  ASSUME Sequential, Orderly, [Next]_vars, NEW w \in Works
  PROVE  StepOf(w)
<1>1. PICK t : Threads = {t}
  BY DEF Sequential
<1>2. ~Crash(t)
  BY DEF Crash, Sequential, Orderly, Typed, TypeOK
<1>3. CASE UNCHANGED vars
  BY <1>3 DEF vars, StepOf, Untouched, Unpublished
<1>4. QED
  BY <1>1, <1>2, <1>3, CommitOfWork, RequestOfWork, DecideOfWork DEF Next, Rest

-----------------------------------------------------------------------------
\* What the traces tell, for any sequence of records

\* Read from CREATED, the first n records put the work in state s.
StandsIn(records, n, s) ==
  \/ s = "CREATED" /\ \A i \in 1 .. n : IsTask(records[i])
  \/ \E p \in 1 .. n :
       /\ LandsIn(records[p], s)
       /\ \A i \in p + 1 .. n : IsTask(records[i])

\* Tasks and the steps of the action leave an approval standing.
Harmless(r) == IsTask(r) \/ (IsApplied(r) /\ r.to_state \in ActionState)

\* Among the first n records is an approval that nothing after it took back.
ApprovedBy(c, records, n) ==
  \E i \in 1 .. n :
    WellApproved(c, records[i]) /\ \A j \in i + 1 .. n : Harmless(records[j])

\* The i-th record starts where the ones before it ended, or where the refusal did that it
\* hands over; refusals lead to BLOCKED and approvals are complete.
Follows(c, records, i) ==
  /\ IsLink(records, i) => StandsIn(records, i - 1, records[i].from_state)
  /\ PaysRefusal(records, i) => records[i].from_state = records[i - 1].from_state
  /\ IsRefusal(records[i]) => records[i].to_state = "BLOCKED"
  /\ IsApplied(records[i]) /\ records[i].to_state = "APPROVED" => WellApproved(c, records[i])

\* All of this looks at the first n records only.
LEMMA PrefixTells ==
  ASSUME NEW a, NEW b, NEW n \in Nat, \A i \in 1 .. n : a[i] = b[i], NEW c
  PROVE  /\ \A s : StandsIn(a, n, s) => StandsIn(b, n, s)
         /\ ApprovedBy(c, a, n) => ApprovedBy(c, b, n)
<1>1. ASSUME NEW s, StandsIn(a, n, s) PROVE StandsIn(b, n, s)
  BY <1>1 DEF StandsIn, IsTask
<1>2. ASSUME ApprovedBy(c, a, n) PROVE ApprovedBy(c, b, n)
  <2>1. PICK i \in 1 .. n : WellApproved(c, a[i]) /\ \A j \in i + 1 .. n : Harmless(a[j])
    BY <1>2 DEF ApprovedBy
  <2>2. WellApproved(c, b[i]) /\ \A j \in i + 1 .. n : Harmless(b[j])
    BY <2>1
  <2>3. QED
    BY <2>2 DEF ApprovedBy
<1>3. QED
  BY <1>1, <1>2

LEMMA PrefixFollows ==
  ASSUME NEW a, NEW b, NEW n \in Nat, \A i \in 1 .. n : a[i] = b[i], NEW c,
         NEW k \in 1 .. n, Follows(c, a, k)
  PROVE  Follows(c, b, k)
<1>1. /\ k - 1 \in Nat /\ a[k] = b[k] /\ \A i \in 1 .. k - 1 : a[i] = b[i]
      /\ k > 1 => a[k - 1] = b[k - 1]
  OBVIOUS
<1>2. \A s : StandsIn(a, k - 1, s) => StandsIn(b, k - 1, s)
  BY <1>1, PrefixTells
<1>3. (PaysRefusal(a, k) <=> PaysRefusal(b, k)) /\ (IsLink(a, k) <=> IsLink(b, k))
  BY <1>1 DEF PaysRefusal, IsLink
<1>4. PaysRefusal(b, k) => k > 1
  BY DEF PaysRefusal
<1>5. QED
  BY <1>1, <1>2, <1>3, <1>4 DEF Follows

\* One more record.
LEMMA StandsNext ==
  ASSUME NEW records, NEW n \in Nat, NEW s,
         \/ IsTask(records[n + 1]) /\ StandsIn(records, n, s)
         \/ LandsIn(records[n + 1], s)
  PROVE  StandsIn(records, n + 1, s)
<1>1. CASE IsTask(records[n + 1]) /\ StandsIn(records, n, s)
  <2>1. \A i \in 1 .. n + 1 : i \in 1 .. n \/ i = n + 1
    OBVIOUS
  <2>2. CASE s = "CREATED" /\ \A i \in 1 .. n : IsTask(records[i])
    BY <1>1, <2>1, <2>2 DEF StandsIn
  <2>3. ASSUME NEW p \in 1 .. n, LandsIn(records[p], s), \A i \in p + 1 .. n : IsTask(records[i])
        PROVE  StandsIn(records, n + 1, s)
    <3>1. p \in 1 .. n + 1 /\ \A i \in p + 1 .. n + 1 : i \in p + 1 .. n \/ i = n + 1
      OBVIOUS
    <3>2. QED
      BY <1>1, <2>3, <3>1 DEF StandsIn
  <2>4. QED
    BY <1>1, <2>2, <2>3 DEF StandsIn
<1>2. CASE LandsIn(records[n + 1], s)
  <2>1. n + 1 \in 1 .. n + 1 /\ (n + 1) + 1 .. n + 1 = {}
    OBVIOUS
  <2>2. QED
    BY <1>2, <2>1 DEF StandsIn
<1>3. QED
  BY <1>1, <1>2

LEMMA ApprovedNext ==
  ASSUME NEW records, NEW n \in Nat, NEW c,
         \/ Harmless(records[n + 1]) /\ ApprovedBy(c, records, n)
         \/ WellApproved(c, records[n + 1])
  PROVE  ApprovedBy(c, records, n + 1)
<1>1. CASE Harmless(records[n + 1]) /\ ApprovedBy(c, records, n)
  <2>1. PICK i \in 1 .. n : WellApproved(c, records[i]) /\ \A j \in i + 1 .. n : Harmless(records[j])
    BY <1>1 DEF ApprovedBy
  <2>2. i \in 1 .. n + 1 /\ \A j \in i + 1 .. n + 1 : j \in i + 1 .. n \/ j = n + 1
    OBVIOUS
  <2>3. QED
    BY <1>1, <2>1, <2>2 DEF ApprovedBy
<1>2. CASE WellApproved(c, records[n + 1])
  <2>1. n + 1 \in 1 .. n + 1 /\ (n + 1) + 1 .. n + 1 = {}
    OBVIOUS
  <2>2. QED
    BY <1>2, <2>1 DEF ApprovedBy
<1>3. QED
  BY <1>1, <1>2

-----------------------------------------------------------------------------
\* The trace of every work explains its state

\* Explained up to the record whose state is still to be written.
ExplainedWork(w) ==
  /\ state[w] # "NONE" => StandsIn(trace[w], Published(w), state[w])
  /\ state[w] \in ActionState => ApprovedBy(ContractOf[w], trace[w], Published(w))
  /\ \A i \in DOMAIN trace[w] : Follows(ContractOf[w], trace[w], i)

Explained == Orderly /\ \A w \in Works : ExplainedWork(w)

LEMMA ExplainedInit == Init => Explained
<1> SUFFICES ASSUME Init PROVE Explained
  OBVIOUS
<1>1. \A w \in Works : state[w] = "NONE" /\ trace[w] = <<>>
  BY DEF Init
<1>2. QED
  BY <1>1, OrderlyInit DEF Explained, ExplainedWork, ActionState

\* A record is appended, whether or not its state is written later.
LEMMA AppendFollows ==
  ASSUME NEW c, NEW a \in Seq(TraceRecord), NEW r \in TraceRecord, NEW b, b = Append(a, r),
         \A i \in DOMAIN a : Follows(c, a, i), Follows(c, b, Len(a) + 1)
  PROVE  \A i \in DOMAIN b : Follows(c, b, i)
<1>1. /\ Len(a) \in Nat /\ \A i \in 1 .. Len(a) : a[i] = b[i] /\ i \in DOMAIN a
      /\ \A i \in DOMAIN b : i \in 1 .. Len(a) \/ i = Len(a) + 1
  OBVIOUS
<1>2. QED
  BY <1>1, PrefixFollows

LEMMA ExplainedAnnounced ==
  ASSUME Explained, NEW w \in Works, NEW r \in TraceRecord, Announced(w, r)
  PROVE  ExplainedWork(w)'
<1> DEFINE c == ContractOf[w]
<1>1. PICK a, b, n :
        /\ a = trace[w] /\ a \in Seq(TraceRecord) /\ b = trace'[w] /\ b = Append(a, r)
        /\ n \in Nat /\ n = Len(a)
  <2>1. trace[w] \in Seq(TraceRecord) /\ trace'[w] = Append(trace[w], r)
    BY DEF Announced, Explained, Orderly, Typed, TypeOK
  <2>2. Len(trace[w]) \in Nat
    BY <2>1
  <2>3. QED
    BY <2>1, <2>2
<1>2. Len(b) = n + 1 /\ b[n + 1] = r /\ \A i \in 1 .. n : a[i] = b[i]
  BY <1>1
<1>3. Published(w) = n /\ Published(w)' = n
  BY <1>1, <1>2 DEF Announced, Published
<1>4. /\ state'[w] = state[w] /\ StandsIn(a, n, state[w])
      /\ state[w] \in ActionState => ApprovedBy(c, a, n)
      /\ \A i \in DOMAIN a : Follows(c, a, i)
  BY <1>1, <1>3 DEF Explained, ExplainedWork, Announced
<1>5. StandsIn(b, n, state[w]) /\ (state[w] \in ActionState => ApprovedBy(c, b, n))
  BY <1>2, <1>1, <1>4, PrefixTells
<1>6. Follows(c, b, n + 1)
  <2>1. ~PaysRefusal(b, n + 1)
    <3>1. CASE n = 0
      BY <3>1 DEF PaysRefusal
    <3>2. CASE n > 0
      <4>1. b[(n + 1) - 1] = a[n] /\ a # <<>>
        BY <1>1, <1>2, <3>2
      <4>2. QED
        BY <1>1, <4>1 DEF Announced, EndsRefused, PaysRefusal
    <3>3. QED
      BY <1>1, <3>1, <3>2
  <2>2. StandsIn(b, (n + 1) - 1, r.from_state)
    BY <1>1, <1>5 DEF Announced
  <2>3. QED
    BY <1>2, <2>1, <2>2 DEF Follows, Announced, LawfulMove
<1>7. \A i \in DOMAIN b : Follows(c, b, i)
  BY <1>1, <1>4, <1>6, AppendFollows
<1>8. QED
  BY <1>1, <1>3, <1>4, <1>5, <1>7 DEF ExplainedWork

LEMMA ExplainedWritten ==
  ASSUME Explained, NEW w \in Works, Written(w)
  PROVE  ExplainedWork(w)'
<1>0. PICK c : c = ContractOf[w]
  OBVIOUS
<1>1. PICK a, n :
        /\ a = trace[w] /\ a \in Seq(TraceRecord) /\ a = trace'[w]
        /\ n \in Nat /\ n + 1 = Len(a) /\ n = Len(a) - 1
  <2>1. trace[w] \in Seq(TraceRecord) /\ trace[w] # <<>> /\ trace'[w] = trace[w]
    BY DEF Written, Explained, Orderly, Typed, TypeOK
  <2>2. Len(trace[w]) - 1 \in Nat /\ (Len(trace[w]) - 1) + 1 = Len(trace[w])
    BY <2>1
  <2>3. QED
    BY <2>1, <2>2
<1>2. Published(w) = n /\ Published(w)' = n + 1
  BY <1>1 DEF Written, Published
<1>3. /\ state[w] \in ActionState => ApprovedBy(c, a, n)
      /\ \A i \in DOMAIN a : Follows(c, a, i)
  BY <1>0, <1>1, <1>2 DEF Explained, ExplainedWork
<1>4. StandsIn(a, n + 1, state'[w])
  BY <1>1, StandsNext DEF Written
<1>5. ASSUME state'[w] \in ActionState PROVE ApprovedBy(c, a, n + 1)
  <2>1. LawfulMove(w, state[w], a[n + 1]) /\ state'[w] = a[n + 1].to_state /\ state[w] \in WorkState
    BY <1>1, <1>5 DEF Written, ActionState
  <2>2. CASE state'[w] = "APPROVED"
    <3>1. WellApproved(c, a[n + 1])
      BY <1>0, <2>1, <2>2 DEF LawfulMove
    <3>2. QED
      BY <1>1, <3>1, ApprovedNext
  <2>3. CASE state'[w] \in {"ACTION_AUTHORIZED", "EXECUTING"}
    <3>1. state[w] \in ActionState
      BY <2>1, <2>3, ActionNeedsDecision DEF LawfulMove
    <3>2. Harmless(a[n + 1])
      BY <1>5, <2>1 DEF Harmless, LawfulMove
    <3>3. ApprovedBy(c, a, n)
      BY <1>3, <3>1
    <3>4. QED
      BY <1>1, <3>2, <3>3, ApprovedNext
  <2>4. QED
    BY <1>5, <2>2, <2>3 DEF ActionState
<1>6. QED
  BY <1>0, <1>1, <1>2, <1>3, <1>4, <1>5 DEF ExplainedWork

LEMMA ExplainedNoted ==
  ASSUME Explained, NEW w \in Works, NEW r \in TraceRecord, Noted(w, r)
  PROVE  ExplainedWork(w)'
<1> DEFINE c == ContractOf[w]
<1>1. PICK a, b, n :
        /\ a = trace[w] /\ a \in Seq(TraceRecord) /\ b = trace'[w] /\ b = Append(a, r)
        /\ n \in Nat /\ n = Len(a)
  <2>1. trace[w] \in Seq(TraceRecord) /\ trace'[w] = Append(trace[w], r)
    BY DEF Noted, Explained, Orderly, Typed, TypeOK
  <2>2. Len(trace[w]) \in Nat
    BY <2>1
  <2>3. QED
    BY <2>1, <2>2
<1>2. Len(b) = n + 1 /\ b[n + 1] = r /\ \A i \in 1 .. n : a[i] = b[i]
  BY <1>1
<1>3. Published(w) = n /\ Published(w)' = n + 1
  BY <1>1, <1>2 DEF Noted, Published
<1>4. /\ state'[w] = state[w] /\ StandsIn(a, n, state[w])
      /\ state[w] \in ActionState => ApprovedBy(c, a, n)
      /\ \A i \in DOMAIN a : Follows(c, a, i)
  BY <1>1, <1>3 DEF Explained, ExplainedWork, Noted
<1>5. StandsIn(b, n, state[w]) /\ (state[w] \in ActionState => ApprovedBy(c, b, n))
  BY <1>2, <1>1, <1>4, PrefixTells
<1>6. /\ StandsIn(b, n + 1, state[w]) /\ (state[w] \in ActionState => ApprovedBy(c, b, n + 1))
      /\ Follows(c, b, n + 1)
  <2>1. CASE IsTask(r)
    <3>1. Harmless(b[n + 1]) /\ IsTask(b[n + 1])
      BY <1>2, <2>1 DEF Harmless
    <3>2. Follows(c, b, n + 1)
      BY <1>2, <2>1 DEF Follows, IsLink, PaysRefusal, IsTask, IsHandover, IsRefusal, IsApplied
    <3>3. QED
      BY <1>1, <1>5, <3>1, <3>2, StandsNext, ApprovedNext
  <2>2. CASE state[w] = "BLOCKED" /\ EndsRefused(w) /\ r = Handover(a[n].from_state)
    <3>1. n > 0 /\ n + 1 > 1 /\ (n + 1) - 1 = n /\ b[n] = a[n] /\ IsRefusal(a[n])
      BY <1>1, <1>2, <2>2 DEF EndsRefused
    <3>2. r.event = "HANDOVER" /\ r.from_state = a[n].from_state
      BY <2>2 DEF Handover
    <3>3. LandsIn(b[n + 1], "BLOCKED") /\ PaysRefusal(b, n + 1)
      BY <1>2, <3>1, <3>2 DEF LandsIn, PaysRefusal, IsHandover
    <3>4. Follows(c, b, n + 1)
      BY <1>2, <3>1, <3>2, <3>3 DEF Follows, IsLink, IsRefusal, IsApplied
    <3>5. QED
      BY <1>1, <2>2, <3>3, <3>4, StandsNext DEF ActionState
  <2>3. QED
    BY <1>1, <2>1, <2>2 DEF Noted
<1>7. \A i \in DOMAIN b : Follows(c, b, i)
  BY <1>1, <1>4, <1>6, AppendFollows
<1>8. QED
  BY <1>1, <1>3, <1>4, <1>6, <1>7 DEF ExplainedWork

LEMMA ExplainedStep ==
  ASSUME Sequential, Explained, [Next]_vars
  PROVE  Explained'
<1>1. ASSUME NEW w \in Works PROVE ExplainedWork(w)'
  <2>1. CASE Untouched(w)
    <3>1. Published(w)' = Published(w)
      BY <2>1 DEF Untouched, Published
    <3>2. QED
      BY <2>1, <3>1 DEF Untouched, Explained, ExplainedWork
  <2>2. CASE Created(w)
    <3>1. Published(w)' = 0
      BY <2>2 DEF Created, Published
    <3>2. StandsIn(trace'[w], 0, "CREATED")
      BY DEF StandsIn
    <3>3. QED
      BY <2>2, <3>1, <3>2 DEF Created, ExplainedWork, ActionState
  <2>3. QED
    BY <2>1, <2>2, StepOfWork, ExplainedAnnounced, ExplainedWritten, ExplainedNoted
    DEF StepOf, Explained
<1>2. QED
  BY <1>1, OrderlyStep DEF Explained

(***************************************************************************)
(* For every set of works, contracts, requests and verdicts, when requests *)
(* come one after the other: a work that is about to act has a complete    *)
(* approval with nothing after it but tasks and the steps of the action,   *)
(* so an approval before a refusal, a handover or a return to earlier work *)
(* never counts again (transition_work, the transition table).             *)
(***************************************************************************)
THEOREM SequentialApprovalStands ==
  ASSUME Sequential
  PROVE  Spec => []ApprovalStands
<1>1. Explained => ApprovalStands
  <2>1. ASSUME Explained, Quiescent, NEW w \in Works, state[w] \in ActionState
        PROVE  \E i \in DOMAIN trace[w] :
                 /\ WellApproved(ContractOf[w], trace[w][i])
                 /\ \A j \in i + 1 .. Len(trace[w]) :
                      \/ IsTask(trace[w][j])
                      \/ IsApplied(trace[w][j]) /\ trace[w][j].to_state \in ActionState
    <3>1. Published(w) = Len(trace[w]) /\ DOMAIN trace[w] = 1 .. Len(trace[w])
      BY <2>1 DEF Published, Unpublished, Quiescent, Idle, Explained, Orderly, Typed, TypeOK
    <3>2. ApprovedBy(ContractOf[w], trace[w], Len(trace[w]))
      BY <2>1, <3>1 DEF Explained, ExplainedWork
    <3>3. QED
      BY <3>1, <3>2 DEF ApprovedBy, Harmless
  <2>2. QED
    BY <2>1 DEF ApprovalStands
<1>2. Explained /\ [Next]_vars => Explained'
  BY ExplainedStep
<1>3. QED
  BY <1>1, <1>2, ExplainedInit, PTL DEF Spec

-----------------------------------------------------------------------------
\* The replay reads the trace with every refusal after its handover

\* Where the k-th item of the replay stands in the trace of n records.
Place(records, n, k) ==
  IF k < n /\ PaysRefusal(records, k + 1) THEN k + 1
  ELSE IF PaysRefusal(records, k) THEN k - 1
  ELSE k

\* A refusal is not itself a handover, so the pairs do not overlap.
LEMMA PlaceTwice ==
  ASSUME NEW records, NEW n \in Nat, NEW k \in 1 .. n
  PROVE  /\ Place(records, n, k) \in 1 .. n
         /\ Place(records, n, Place(records, n, k)) = k
<1>0. /\ k \in Nat /\ k >= 1 /\ k <= n
      /\ \A i : PaysRefusal(records, i) => i > 1 /\ IsHandover(records[i]) /\ IsRefusal(records[i - 1])
      /\ \A r : ~(IsHandover(r) /\ IsRefusal(r))
  BY DEF PaysRefusal, IsHandover, IsRefusal
<1>1. CASE k < n /\ PaysRefusal(records, k + 1)
  <2>1. (k + 1) - 1 = k /\ k + 1 \in 1 .. n /\ Place(records, n, k) = k + 1
    BY <1>0, <1>1 DEF Place
  <2>2. ~PaysRefusal(records, k + 2)
    <3>1. (k + 2) - 1 = k + 1
      BY <1>0
    <3>2. QED
      BY <1>0, <1>1, <3>1
  <2>3. (k + 1) + 1 = k + 2
    BY <1>0
  <2>4. Place(records, n, k + 1) = k
    BY <1>1, <2>1, <2>2, <2>3 DEF Place
  <2>5. QED
    BY <2>1, <2>4
<1>2. CASE ~(k < n /\ PaysRefusal(records, k + 1)) /\ PaysRefusal(records, k)
  <2>1. k > 1 /\ (k - 1) + 1 = k /\ k - 1 \in 1 .. n /\ k - 1 < n /\ Place(records, n, k) = k - 1
    BY <1>0, <1>2 DEF Place
  <2>2. Place(records, n, k - 1) = k
    BY <1>2, <2>1 DEF Place
  <2>3. QED
    BY <2>1, <2>2
<1>3. CASE ~(k < n /\ PaysRefusal(records, k + 1)) /\ ~PaysRefusal(records, k)
  BY <1>3 DEF Place
<1>4. QED
  BY <1>1, <1>2, <1>3

\* As many rows come before a row as its place says.
LEMMA CountBefore ==
  ASSUME TypeOK, NEW w \in Works, NEW n \in Nat, n = Len(trace[w]), NEW i \in 1 .. n
  PROVE  Cardinality(RowsBefore(w, i)) = Place(trace[w], n, i) - 1
<1>1. PICK a : a = trace[w] /\ a \in Seq(TraceRecord) /\ DOMAIN a = 1 .. n
  BY DEF TypeOK
<1>2. RowsBefore(w, i) = {j \in 1 .. n : ReplayedBefore(w, j, i)}
  BY <1>1 DEF RowsBefore
<1>3. \A j \in 1 .. n : Stamp(w, j) = IF PaysRefusal(a, j) THEN j - 1 ELSE j
  BY <1>1 DEF Stamp
<1>4. \A j \in 1 .. n : PaysRefusal(a, j) =>
        j > 1 /\ a[j].event = "HANDOVER" /\ a[j - 1].event = "TRANSITION"
  BY DEF PaysRefusal, IsHandover, IsRefusal
<1>5. \A j \in 1 .. n : PaysRefusal(a, j) => ~PaysRefusal(a, j - 1)
  BY <1>4
<1>6. \A j \in 1 .. n : ReplayedBefore(w, j, i) <=>
        \/ Stamp(w, j) < Stamp(w, i)
        \/ Stamp(w, j) = Stamp(w, i) /\ TypeOrder[a[j].event] < TypeOrder[a[i].event]
  BY <1>1 DEF ReplayedBefore
<1>7. TypeOrder["HANDOVER"] = 1 /\ TypeOrder["TRANSITION"] = 3
  BY DEF TypeOrder
<1>8. CASE PaysRefusal(a, i)
  <2>1. /\ i > 1 /\ Stamp(w, i) = i - 1 /\ Stamp(w, i - 1) = i - 1 /\ Place(a, n, i) = i - 1
        /\ i - 1 \in 1 .. n /\ a[i].event = "HANDOVER" /\ a[i - 1].event = "TRANSITION"
    <3>1. i > 1 /\ i - 1 \in 1 .. n /\ a[i].event = "HANDOVER" /\ a[i - 1].event = "TRANSITION"
      BY <1>4, <1>8
    <3>2. ~PaysRefusal(a, i - 1)
      BY <1>5, <1>8
    <3>3. ~(i < n /\ PaysRefusal(a, i + 1))
      <4>1. ASSUME i < n, PaysRefusal(a, i + 1) PROVE FALSE
        <5>1. i + 1 \in 1 .. n /\ (i + 1) - 1 = i
          BY <4>1
        <5>2. a[(i + 1) - 1].event = "TRANSITION"
          BY <1>4, <4>1, <5>1
        <5>3. QED
          BY <3>1, <5>1, <5>2
      <4>2. QED
        BY <4>1
    <3>4. QED
      BY <1>3, <1>8, <3>1, <3>2, <3>3 DEF Place
  <2>2. \A j \in 1 .. n : ReplayedBefore(w, j, i) <=> j \in 1 .. i - 2
    <3>1. TAKE j \in 1 .. n
    <3>2. Stamp(w, j) \in {j, j - 1}
      BY <1>3
    <3>3. CASE j = i \/ j = i - 1
      BY <1>6, <1>7, <2>1, <3>3
    <3>4. CASE j < i - 1
      BY <1>6, <2>1, <3>2, <3>4
    <3>5. CASE j > i
      BY <1>6, <2>1, <3>2, <3>5
    <3>6. QED
      BY <3>3, <3>4, <3>5
  <2>3. RowsBefore(w, i) = 1 .. i - 2
    BY <1>2, <2>1, <2>2
  <2>4. Cardinality(1 .. i - 2) = i - 2
    BY <2>1, FS_Interval
  <2>5. QED
    BY <1>1, <2>1, <2>3, <2>4
<1>9. CASE ~PaysRefusal(a, i) /\ i < n /\ PaysRefusal(a, i + 1)
  <2>1. /\ Stamp(w, i) = i /\ Stamp(w, i + 1) = i /\ Place(a, n, i) = i + 1
        /\ i + 1 \in 1 .. n /\ a[i + 1].event = "HANDOVER" /\ a[i].event = "TRANSITION"
    <3>1. i + 1 \in 1 .. n /\ (i + 1) - 1 = i
      BY <1>9
    <3>2. QED
      BY <1>3, <1>4, <1>9, <3>1 DEF Place
  <2>2. \A j \in 1 .. n : ReplayedBefore(w, j, i) <=> j \in (1 .. i - 1) \cup {i + 1}
    <3>1. TAKE j \in 1 .. n
    <3>2. Stamp(w, j) \in {j, j - 1}
      BY <1>3
    <3>3. CASE j = i \/ j = i + 1
      BY <1>6, <1>7, <2>1, <3>3
    <3>4. CASE j < i
      BY <1>6, <2>1, <3>2, <3>4
    <3>5. CASE j > i + 1
      BY <1>6, <2>1, <3>2, <3>5
    <3>6. QED
      BY <3>3, <3>4, <3>5
  <2>3. RowsBefore(w, i) = (1 .. i - 1) \cup {i + 1}
    BY <1>2, <2>1, <2>2
  <2>4. Cardinality(1 .. i - 1) = i - 1 /\ IsFiniteSet(1 .. i - 1) /\ i + 1 \notin 1 .. i - 1
    <3>1. PICK m : m = i - 1 /\ m \in Int /\ 1 \in Int /\ m >= 0
      OBVIOUS
    <3>2. IsFiniteSet(1 .. m)
      BY <3>1, FS_Interval, Zenon
    <3>3. Cardinality(1 .. m) = m
      BY <3>1, FS_Interval
    <3>4. QED
      BY <3>1, <3>2, <3>3
  <2>5. Cardinality((1 .. i - 1) \cup {i + 1}) = (i - 1) + 1
    BY <2>4, FS_AddElement
  <2>6. QED
    BY <1>1, <2>1, <2>3, <2>5
<1>10. CASE ~PaysRefusal(a, i) /\ ~(i < n /\ PaysRefusal(a, i + 1))
  <2>1. Stamp(w, i) = i /\ Place(a, n, i) = i
    BY <1>3, <1>10 DEF Place
  <2>2. \A j \in 1 .. n : ReplayedBefore(w, j, i) <=> j \in 1 .. i - 1
    <3>1. TAKE j \in 1 .. n
    <3>2. Stamp(w, j) \in {j, j - 1} /\ (j = i + 1 => Stamp(w, j) = j)
      BY <1>3, <1>10
    <3>3. CASE j = i
      <4>1. ~(TypeOrder[a[i].event] < TypeOrder[a[i].event])
        <5>1. a[i].event \in {"TRANSITION", "HANDOVER", "TASK"}
          BY <1>1 DEF TraceRecord, TransitionRecord, HandoverRecord, TaskRecord
        <5>2. TypeOrder[a[i].event] \in 1 .. 3
          BY <5>1 DEF TypeOrder
        <5>3. QED
          BY <5>2
      <4>2. QED
        BY <1>6, <2>1, <3>3, <4>1
    <3>4. CASE j < i
      BY <1>6, <2>1, <3>2, <3>4
    <3>5. CASE j > i
      BY <1>6, <2>1, <3>2, <3>5
    <3>6. QED
      BY <3>3, <3>4, <3>5
  <2>3. RowsBefore(w, i) = 1 .. i - 1
    BY <1>2, <2>2
  <2>4. Cardinality(1 .. i - 1) = i - 1
    BY FS_Interval
  <2>5. QED
    BY <1>1, <2>1, <2>3, <2>4
<1>11. QED
  BY <1>8, <1>9, <1>10

\* So the replay is the trace with the refusals and their handovers exchanged.
LEMMA ReplayPlaces ==
  ASSUME TypeOK, NEW w \in Works, NEW n \in Nat, n = Len(trace[w])
  PROVE  ReplayOf(w) = [k \in 1 .. n |-> Item(trace[w][Place(trace[w], n, k)])]
<1>1. DOMAIN trace[w] = 1 .. n
  BY DEF TypeOK
<1>2. ASSUME NEW k \in 1 .. n
      PROVE  (CHOOSE i \in 1 .. n : Cardinality(RowsBefore(w, i)) = k - 1)
               = Place(trace[w], n, k)
  <2>1. PICK p : p = Place(trace[w], n, k) /\ p \in 1 .. n /\ Place(trace[w], n, p) = k
    BY PlaceTwice
  <2>2. Cardinality(RowsBefore(w, p)) = k - 1
    BY <2>1, CountBefore
  <2>3. ASSUME NEW i \in 1 .. n, Cardinality(RowsBefore(w, i)) = k - 1 PROVE i = p
    <3>1. PICK q : q = Place(trace[w], n, i) /\ q \in 1 .. n /\ Place(trace[w], n, q) = i
      BY PlaceTwice
    <3>2. q - 1 = k - 1
      BY <2>3, <3>1, CountBefore
    <3>3. q = k
      BY <3>1, <3>2
    <3>4. QED
      BY <2>1, <3>1, <3>3
  <2>4. QED
    BY <2>1, <2>2, <2>3
<1>3. ReplayOf(w) =
        [k \in 1 .. n |->
           Item(trace[w][CHOOSE i \in 1 .. n : Cardinality(RowsBefore(w, i)) = k - 1])]
  BY <1>1 DEF ReplayOf
<1>4. QED
  BY <1>2, <1>3

\* The n records of a, answered in that order.
Answered(a, n, items) == items = [k \in 1 .. n |-> Item(a[Place(a, n, k)])]

FollowsThrough(c, a, n) == \A k \in 1 .. n : Follows(c, a, k)

\* Of the item at k, when the rows around it follow one another.
LEMMA ItemAt ==
  ASSUME NEW a, NEW n \in Nat, NEW items, NEW c,
         Answered(a, n, items), FollowsThrough(c, a, n),
         NEW k \in 1 .. n
  PROVE  /\ items[k].event = "TASK" <=> IsTask(a[k])
         /\ ~PaysRefusal(a, k) /\ ~(k < n /\ PaysRefusal(a, k + 1)) => items[k] = Item(a[k])
         /\ IsLink(a, k) => items[k].from = a[k].from_state
         /\ PaysRefusal(a, k) =>
              /\ items[k].event = "TRANSITION" /\ items[k].to = "BLOCKED"
              /\ items[k - 1].event = "HANDOVER" /\ k - 1 \in 1 .. n
              /\ items[k].from = items[k - 1].from
<1>1. \A r : /\ Item(r).event = r.event
             /\ ~IsTask(r) => Item(r).from = r.from_state
             /\ r.event = "TRANSITION" => Item(r).to = r.to_state
             /\ r.event = "HANDOVER" => Item(r).to = "BLOCKED"
  BY DEF Item, IsTask, LinkOf, IsHandover
<1>2. ASSUME NEW i \in 1 .. n, PaysRefusal(a, i)
      PROVE  /\ i > 1 /\ i - 1 \in 1 .. n /\ (i - 1) + 1 = i /\ i - 1 < n
             /\ a[i].event = "HANDOVER" /\ a[i - 1].event = "TRANSITION"
             /\ a[i - 1].to_state = "BLOCKED" /\ a[i].from_state = a[i - 1].from_state
             /\ ~PaysRefusal(a, i - 1) /\ ~PaysRefusal(a, i + 1)
  <2>1. i > 1 /\ IsHandover(a[i]) /\ IsRefusal(a[i - 1])
    BY <1>2 DEF PaysRefusal
  <2>2. i - 1 \in 1 .. n /\ (i - 1) + 1 = i /\ i - 1 < n /\ (i + 1) - 1 = i
    BY <2>1
  <2>3. a[i - 1].to_state = "BLOCKED" /\ a[i].from_state = a[i - 1].from_state
    BY <1>2, <2>1, <2>2 DEF Follows, FollowsThrough
  <2>4. ~IsHandover(a[i - 1]) /\ ~IsRefusal(a[i])
    BY <2>1 DEF IsHandover, IsRefusal
  <2>5. QED
    BY <2>1, <2>2, <2>3, <2>4 DEF IsHandover, IsRefusal, PaysRefusal
<1>3. CASE k < n /\ PaysRefusal(a, k + 1)
  <2>1. k + 1 \in 1 .. n /\ (k + 1) - 1 = k /\ Place(a, n, k) = k + 1
    BY <1>3 DEF Place
  <2>2. /\ a[k + 1].event = "HANDOVER" /\ a[k].event = "TRANSITION"
        /\ a[k + 1].from_state = a[k].from_state /\ ~PaysRefusal(a, k)
    BY <1>2, <1>3, <2>1
  <2>3. items[k] = Item(a[k + 1])
    BY <2>1 DEF Answered
  <2>4. QED
    BY <1>1, <1>3, <2>2, <2>3 DEF IsTask
<1>4. CASE ~(k < n /\ PaysRefusal(a, k + 1)) /\ PaysRefusal(a, k)
  <2>1. /\ k - 1 \in 1 .. n /\ (k - 1) + 1 = k /\ k - 1 < n
        /\ a[k].event = "HANDOVER" /\ a[k - 1].event = "TRANSITION"
        /\ a[k - 1].to_state = "BLOCKED" /\ a[k].from_state = a[k - 1].from_state
    BY <1>2, <1>4
  <2>2. Place(a, n, k) = k - 1 /\ Place(a, n, k - 1) = k
    BY <1>4, <2>1 DEF Place
  <2>3. items[k] = Item(a[k - 1]) /\ items[k - 1] = Item(a[k])
    BY <2>1, <2>2 DEF Answered
  <2>4. QED
    BY <1>1, <1>4, <2>1, <2>3 DEF IsTask, IsLink
<1>5. CASE ~(k < n /\ PaysRefusal(a, k + 1)) /\ ~PaysRefusal(a, k)
  <2>1. Place(a, n, k) = k
    BY <1>5 DEF Place
  <2>2. items[k] = Item(a[k])
    BY <2>1 DEF Answered
  <2>3. QED
    BY <1>1, <1>5, <2>2 DEF IsTask, IsLink
<1>6. QED
  BY <1>3, <1>4, <1>5

\* Where no refusal is waiting for its handover, the replay tells the same state as the trace.
LEMMA ReplayTells ==
  ASSUME NEW a, NEW n \in Nat, NEW items, NEW c,
         Answered(a, n, items), FollowsThrough(c, a, n),
         NEW m \in 0 .. n, ~(m < n /\ PaysRefusal(a, m + 1)),
         NEW s, StandsIn(a, m, s)
  PROVE  StateAfter(items, m) = s
<1>1. PICK moves : moves = {j \in 1 .. m : items[j].event # "TASK"}
  OBVIOUS
<1>2. moves = {j \in 1 .. m : ~IsTask(a[j])}
  <2>1. \A j \in 1 .. m : j \in 1 .. n
    OBVIOUS
  <2>2. \A j \in 1 .. m : items[j].event = "TASK" <=> IsTask(a[j])
    BY <2>1, ItemAt
  <2>3. QED
    BY <1>1, <2>2
<1>3. StateAfter(items, m) = IF moves = {} THEN "CREATED" ELSE items[Max(moves)].to
  BY <1>1 DEF StateAfter
<1>4. CASE s = "CREATED" /\ \A j \in 1 .. m : IsTask(a[j])
  BY <1>2, <1>3, <1>4
<1>5. ASSUME NEW p \in 1 .. m, LandsIn(a[p], s), \A j \in p + 1 .. m : IsTask(a[j])
      PROVE  StateAfter(items, m) = s
  <2>1. p \in 1 .. n /\ p \in Nat /\ p <= m /\ m <= n /\ ~IsTask(a[p])
    BY <1>5 DEF LandsIn, IsTask
  <2>2. p \in moves /\ \A j \in moves : j \in Nat /\ j <= p
    <3>1. ASSUME NEW j \in moves PROVE j \in Nat /\ j <= p
      <4>1. j \in 1 .. m /\ ~IsTask(a[j])
        BY <1>2, <3>1
      <4>2. ~(j > p)
        BY <1>5, <2>1, <4>1
      <4>3. QED
        BY <2>1, <4>1, <4>2
    <3>2. QED
      BY <1>2, <1>5, <2>1, <3>1
  <2>3. Max(moves) = p
    <3>1. \A x \in moves : (\A y \in moves : x >= y) => x = p
      BY <2>1, <2>2
    <3>2. \A y \in moves : p >= y
      BY <2>1, <2>2
    <3>3. QED
      BY <2>2, <3>1, <3>2 DEF Max
  <2>4. ~(p < n /\ PaysRefusal(a, p + 1))
    <3>1. ASSUME p < n, PaysRefusal(a, p + 1) PROVE FALSE
      <4>1. p < m
        BY <2>1, <3>1
      <4>2. p + 1 \in p + 1 .. m
        BY <2>1, <4>1
      <4>3. IsTask(a[p + 1])
        BY <1>5, <4>2
      <4>4. QED
        BY <3>1, <4>3 DEF PaysRefusal, IsHandover, IsTask
    <3>2. QED
      BY <3>1
  <2>5. items[p].to = s
    <3>1. CASE PaysRefusal(a, p)
      <4>1. items[p].to = "BLOCKED"
        BY <2>1, <3>1, ItemAt
      <4>2. s = "BLOCKED"
        BY <1>5, <3>1 DEF PaysRefusal, IsHandover, LandsIn
      <4>3. QED
        BY <4>1, <4>2
    <3>2. CASE ~PaysRefusal(a, p)
      <4>1. items[p] = Item(a[p])
        BY <2>1, <2>4, <3>2, ItemAt
      <4>2. QED
        BY <1>5, <4>1 DEF LandsIn, Item, IsTask, LinkOf, IsHandover
    <3>3. QED
      BY <3>1, <3>2
  <2>6. QED
    BY <1>3, <2>2, <2>3, <2>5
<1>6. QED
  BY <1>4, <1>5 DEF StandsIn

(***************************************************************************)
(* For every set of works, contracts, requests and verdicts, when requests *)
(* come one after the other: the replay of replay_work reads as a history  *)
(* of the work that ends in its current state, although the handover of a  *)
(* refusal is answered before the refusal, and it is complete whenever the *)
(* contract asks for what completeness looks at.                           *)
(***************************************************************************)
THEOREM SequentialReplayExplains ==
  ASSUME Sequential
  PROVE  Spec => []ReplayExplainsState
<1>1. Explained => ReplayExplainsState
  <2>1. SUFFICES ASSUME Explained, Quiescent, NEW w \in Works
                 PROVE  LET items == ReplayOf(w)
                        IN  /\ \A k \in DOMAIN items :
                                 \/ items[k].event = "TASK"
                                 \/ items[k].from = StateAfter(items, k - 1)
                                 \/ /\ k > 1
                                    /\ items[k].event = "TRANSITION"
                                    /\ items[k].to = "BLOCKED"
                                    /\ items[k - 1].event = "HANDOVER"
                                    /\ items[k].from = items[k - 1].from
                            /\ state[w] # "NONE" => state[w] = StateAfter(items, Len(trace[w]))
                            /\ FullyApproved(ContractOf[w]) => ReplayComplete(w)
    BY DEF ReplayExplainsState
  <2>2. PICK a, n, c : /\ a = trace[w] /\ a \in Seq(TraceRecord) /\ n = Len(a) /\ n \in Nat
                       /\ DOMAIN a = 1 .. n /\ c = ContractOf[w]
    <3>1. trace[w] \in Seq(TraceRecord)
      BY <2>1 DEF Explained, Orderly, Typed, TypeOK
    <3>2. Len(trace[w]) \in Nat /\ DOMAIN trace[w] = 1 .. Len(trace[w])
      BY <3>1
    <3>3. QED
      BY <3>1, <3>2
  <2>3. TypeOK /\ Published(w) = n
    BY <2>1, <2>2 DEF Published, Unpublished, Quiescent, Idle, Explained, Orderly, Typed
  <2>4. /\ state[w] # "NONE" => StandsIn(a, n, state[w])
        /\ FollowsThrough(c, a, n)
    BY <2>1, <2>2, <2>3 DEF Explained, ExplainedWork, FollowsThrough
  <2>5. PICK items : items = ReplayOf(w) /\ Answered(a, n, items)
    BY <2>2, <2>3, ReplayPlaces DEF Answered
  <2>6. ASSUME NEW k \in 1 .. n
        PROVE  \/ items[k].event = "TASK"
               \/ items[k].from = StateAfter(items, k - 1)
               \/ /\ k > 1
                  /\ items[k].event = "TRANSITION" /\ items[k].to = "BLOCKED"
                  /\ items[k - 1].event = "HANDOVER"
                  /\ items[k].from = items[k - 1].from
    <3>1. n \in Nat /\ Answered(a, n, items) /\ FollowsThrough(c, a, n)
      BY <2>2, <2>4, <2>5
    <3>2. /\ items[k].event = "TASK" <=> IsTask(a[k])
          /\ IsLink(a, k) => items[k].from = a[k].from_state
          /\ PaysRefusal(a, k) =>
               /\ items[k].event = "TRANSITION" /\ items[k].to = "BLOCKED"
               /\ items[k - 1].event = "HANDOVER"
               /\ items[k].from = items[k - 1].from
      BY <3>1, ItemAt
    <3>3. CASE IsTask(a[k])
      BY <3>2, <3>3
    <3>4. CASE PaysRefusal(a, k)
      <4>1. k > 1
        BY <3>4 DEF PaysRefusal
      <4>2. QED
        BY <3>2, <3>4, <4>1
    <3>5. CASE IsLink(a, k)
      <4>1. items[k].from = a[k].from_state
        BY <3>2, <3>5
      <4>2. StandsIn(a, k - 1, a[k].from_state) /\ ~PaysRefusal(a, k)
        BY <2>4, <3>5 DEF Follows, FollowsThrough, IsLink
      <4>3. PICK m : m = k - 1 /\ m \in 0 .. n /\ m + 1 = k
        <5>1. k - 1 \in 0 .. n /\ (k - 1) + 1 = k
          BY <2>2
        <5>2. QED
          BY <5>1
      <4>4. StandsIn(a, m, a[k].from_state) /\ ~(m < n /\ PaysRefusal(a, m + 1))
        BY <4>2, <4>3
      <4>5. StateAfter(items, m) = a[k].from_state
        BY <2>2, <2>4, <2>5, <4>3, <4>4, ReplayTells
      <4>6. QED
        BY <4>1, <4>3, <4>5
    <3>6. QED
      BY <3>3, <3>4, <3>5 DEF IsLink
  <2>7. ASSUME state[w] # "NONE" PROVE state[w] = StateAfter(items, n)
    <3>1. StandsIn(a, n, state[w]) /\ n \in 0 .. n /\ ~(n < n)
      BY <2>2, <2>4, <2>7
    <3>2. QED
      BY <2>2, <2>4, <2>5, <3>1, ReplayTells
  <2>8. ASSUME FullyApproved(c) PROVE ReplayComplete(w)
    <3>1. ASSUME NEW i \in 1 .. n, IsApplied(a[i]), a[i].to_state = "APPROVED"
          PROVE  a[i].authority_ref # "none" /\ a[i].signature_ref # "none"
      <4>1. WellApproved(c, a[i])
        BY <2>4, <3>1 DEF Follows, FollowsThrough
      <4>2. QED
        BY <2>8, <4>1 DEF WellApproved, FullyApproved
    <3>2. QED
      BY <2>2, <3>1 DEF ReplayComplete
  <2>9. DOMAIN items = 1 .. n
    BY <2>5 DEF Answered
  <2>10. QED
    BY <2>2, <2>5, <2>6, <2>7, <2>8, <2>9
<1>2. Explained /\ [Next]_vars => Explained'
  BY ExplainedStep
<1>3. QED
  BY <1>1, <1>2, ExplainedInit, PTL DEF Spec

=============================================================================
