----------------------- MODULE CapabilityRuntimeProofs -----------------------
(***************************************************************************)
(* Promotions, runs and gates of CapabilityRuntime, for all registries,    *)
(* requests and any number of handlers.                                    *)
(***************************************************************************)
EXTENDS CapabilityRuntime, TLAPS

-----------------------------------------------------------------------------
\* Promotions

\* Some thread is between the commits of p's promotion, past its capability.
UnderWay(p, pcs) ==
  \E t \in Threads : handler[t].pc \in pcs /\ handler[t] = Promoting(handler[t].pc, p)

HoldsCapability(p) == stage[p] = "PROMOTED" \/ UnderWay(p, {"box", "stage"})
HoldsBox(p)        == stage[p] = "PROMOTED" \/ UnderWay(p, {"stage"})

\* A candidate holds its capability from its first commit and its box from the second:
\* both are registered, and no two candidates hold the same reference.
PromotionInv ==
  /\ stage = [p \in Proposals |-> stage[p]]
  /\ handler = [t \in Threads |-> handler[t]]
  /\ \A p \in Proposals :
       /\ HoldsCapability(p) => p.capability \in capabilities
       /\ HoldsBox(p) => p.smart_box \in boxes
  /\ \A p, q \in Proposals : p # q =>
       /\ HoldsCapability(p) /\ HoldsCapability(q) =>
            p.capability.capability_ref # q.capability.capability_ref
       /\ HoldsBox(p) /\ HoldsBox(q) => p.smart_box.box_ref # q.smart_box.box_ref

\* A handler that leaves a promotion, or is none, holds nothing; the others hold on.
LEMMA HoldersOfStep ==
  ASSUME handler = [t \in Threads |-> handler[t]], NEW t \in Threads, NEW r,
         Become(t, r), NEW p, NEW pcs, UnderWay(p, pcs)'
  PROVE  UnderWay(p, pcs) \/ (r.pc \in pcs /\ r = Promoting(r.pc, p))
BY DEF Become, UnderWay, Promoting

\* What a step that promotes nothing does to promotions: registries grow, stages of
\* promoted candidates are those there were and so are the handlers of promotions.
Steady ==
  /\ capabilities \subseteq capabilities' /\ boxes \subseteq boxes'
  /\ \A p \in Proposals : stage'[p] = "PROMOTED" => stage[p] = "PROMOTED"
  /\ \A p \in Proposals : /\ UnderWay(p, {"box", "stage"})' => UnderWay(p, {"box", "stage"})
                          /\ UnderWay(p, {"stage"})' => UnderWay(p, {"stage"})
  /\ stage' = [p \in Proposals |-> stage'[p]]
  /\ handler' = [t \in Threads |-> handler'[t]]

LEMMA SteadyKeeps == PromotionInv /\ Steady => PromotionInv'
BY DEF PromotionInv, Steady, HoldsCapability, HoldsBox

LEMMA IdleIsSteady ==
  ASSUME PromotionInv, NEW t \in Threads, NEW r, r.pc \notin {"box", "stage"}, Become(t, r),
         UNCHANGED <<capabilities, boxes, stage>>
  PROVE  Steady
<1>1. handler' = [u \in Threads |-> handler'[u]]
  BY DEF PromotionInv, Become
<1>2. \A p \in Proposals : UnderWay(p, {"box", "stage"})' => UnderWay(p, {"box", "stage"})
  BY HoldersOfStep DEF PromotionInv
<1>3. \A p \in Proposals : UnderWay(p, {"stage"})' => UnderWay(p, {"stage"})
  BY HoldersOfStep DEF PromotionInv
<1> QED
  BY <1>1, <1>2, <1>3 DEF PromotionInv, Steady

LEMMA PromotionInit == Init => PromotionInv
BY DEF Init, PromotionInv, HoldsCapability, HoldsBox, UnderWay, Idle, Promoting

LEMMA PromotionStep ==
  ASSUME PromotionInv, NEW t \in Threads, NEW p \in Proposals, Promote(t, p)
  PROVE  PromotionInv'
<1> DEFINE Shape == stage' = [q \in Proposals |-> stage'[q]]
                    /\ handler' = [u \in Threads |-> handler'[u]]
<1>1. CASE PromoteCapability(t, p)
  <2>1. Shape /\ boxes' = boxes /\ capabilities' = capabilities \cup {p.capability}
    BY <1>1 DEF PromoteCapability, PromotionInv, Become
  <2>2. \A q \in Proposals : HoldsCapability(q)' => HoldsCapability(q) \/ q = p
    BY <1>1 DEF PromoteCapability, PromotionInv, Become, HoldsCapability, UnderWay, Promoting
  <2>3. \A q \in Proposals : HoldsBox(q)' => HoldsBox(q)
    BY <1>1 DEF PromoteCapability, PromotionInv, Become, HoldsBox, UnderWay, Promoting
  <2>4. \A q \in Proposals : HoldsCapability(q) =>
          q.capability.capability_ref # p.capability.capability_ref
    BY <1>1 DEF PromoteCapability, PromotionInv, NewCapability
  <2> QED
    BY <2>1, <2>2, <2>3, <2>4 DEF PromotionInv
<1>2. CASE PromoteBox(t, p)
  <2>1. Shape /\ capabilities' = capabilities /\ boxes' = boxes \cup {p.smart_box}
    BY <1>2 DEF PromoteBox, PromotionInv, Become
  <2>2. \A q \in Proposals : HoldsCapability(q)' => HoldsCapability(q)
    <3>1. UnderWay(p, {"box", "stage"})
      BY <1>2 DEF PromoteBox, UnderWay, Promoting
    <3>2. \A q \in Proposals : UnderWay(q, {"box", "stage"})' =>
            UnderWay(q, {"box", "stage"}) \/ q = p
      BY <1>2, HoldersOfStep DEF PromoteBox, PromotionInv, Promoting
    <3> QED
      BY <1>2, <3>1, <3>2 DEF PromoteBox, HoldsCapability
  <2>3. \A q \in Proposals : HoldsBox(q)' => HoldsBox(q) \/ q = p
    BY <1>2 DEF PromoteBox, PromotionInv, Become, HoldsBox, UnderWay, Promoting
  <2>4. \A q \in Proposals : HoldsBox(q) => q.smart_box.box_ref # p.smart_box.box_ref
    BY <1>2 DEF PromoteBox, PromotionInv, NewBox
  <2> QED
    BY <2>1, <2>2, <2>3, <2>4 DEF PromotionInv
<1>3. CASE FailPromotion(t, p)
  <2>1. Steady
    BY <1>3 DEF FailPromotion, registry, PromotionInv, Become, Steady, UnderWay, Promoting, Idle
  <2> QED
    BY <2>1, SteadyKeeps
<1>4. CASE CommitStage(t, p)
  <2>1. Shape /\ capabilities' = capabilities /\ boxes' = boxes
    BY <1>4 DEF CommitStage, PromotionInv, Become, registry
  <2>2. UnderWay(p, {"stage"}) /\ UnderWay(p, {"box", "stage"})
    BY <1>4 DEF CommitStage, UnderWay, Promoting
  <2>3. \A q \in Proposals : HoldsCapability(q)' => HoldsCapability(q)
    BY <1>4, <2>2 DEF CommitStage, PromotionInv, Become, HoldsCapability, UnderWay, Promoting, Idle
  <2>4. \A q \in Proposals : HoldsBox(q)' => HoldsBox(q)
    BY <1>4, <2>2 DEF CommitStage, PromotionInv, Become, HoldsBox, UnderWay, Promoting, Idle
  <2> QED
    BY <2>1, <2>3, <2>4 DEF PromotionInv
<1> QED
  BY <1>1, <1>2, <1>3, <1>4 DEF Promote

\* Every other step is steady.
LEMMA OthersAreSteady ==
  ASSUME PromotionInv, [Next]_vars,
         ~ \E t \in Threads, p \in Proposals : Promote(t, p)
  PROVE  Steady
<1> USE DEF registry, bridges, planned, executed
<1>1. ASSUME NEW c, AddCapability(c) PROVE Steady
  BY <1>1 DEF AddCapability, UnderWay, PromotionInv, Steady
<1>2. ASSUME NEW b, AddSmartBox(b) PROVE Steady
  BY <1>2 DEF AddSmartBox, UnderWay, PromotionInv, Steady
<1>3. ASSUME NEW m, AddTransform(m) PROVE Steady
  BY <1>3 DEF AddTransform, UnderWay, PromotionInv, Steady
<1>4. ASSUME NEW a, AddAdapter(a) PROVE Steady
  BY <1>4 DEF AddAdapter, UnderWay, PromotionInv, Steady
<1>5. ASSUME NEW req, CheckCompatibility(req) PROVE Steady
  BY <1>5 DEF CheckCompatibility, UnderWay, PromotionInv, Steady
<1>6. ASSUME NEW t \in Threads, NEW req, BeginPlan(t, req) PROVE Steady
  BY <1>6, IdleIsSteady DEF BeginPlan, Planning
<1>7. ASSUME NEW t \in Threads, NEW e, CommitPlan(t, e) PROVE Steady
  BY <1>7, IdleIsSteady DEF CommitPlan, Idle
<1>8. ASSUME NEW a, AddAssembly(a) PROVE Steady
  BY <1>8 DEF AddAssembly, UnderWay, PromotionInv, Steady
<1>9. ASSUME NEW plan, NEW input, NEW context, ExecuteWire(plan, input, context) PROVE Steady
  BY <1>9 DEF ExecuteWire, UnderWay, PromotionInv, Steady
<1>10. ASSUME NEW t \in Threads, NEW a, NEW input, NEW context,
              BeginAssembly(t, a, input, context)
       PROVE  Steady
  BY <1>10, IdleIsSteady DEF BeginAssembly, Running
<1>11. ASSUME NEW t \in Threads, RunWire(t) PROVE Steady
  BY <1>11, IdleIsSteady DEF RunWire, Running
<1>12. ASSUME NEW t \in Threads, FailWire(t) \/ RecordRun(t) \/ Crash(t) PROVE Steady
  BY <1>12, IdleIsSteady DEF FailWire, RecordRun, Crash, Idle
<1>13. ASSUME NEW p \in Proposals, Propose(p) PROVE Steady
  BY <1>13 DEF Propose, UnderWay, PromotionInv, Steady
<1>14. CASE UNCHANGED vars
  BY <1>14 DEF vars, UnderWay, PromotionInv, Steady
<1> QED
  BY <1>1, <1>2, <1>3, <1>4, <1>5, <1>6, <1>7, <1>8, <1>9, <1>10, <1>11, <1>12, <1>13, <1>14
     DEF Next

\* PromotionsStand, for all proposals, registries and handlers.
THEOREM PromotedStand == Spec => []PromotionsStand
<1>1. PromotionInv /\ [Next]_vars => PromotionInv'
  BY PromotionStep, OthersAreSteady, SteadyKeeps
<1>2. PromotionInv => PromotionsStand
  BY DEF PromotionInv, PromotionsStand, HoldsCapability, HoldsBox
<1> QED
  BY PromotionInit, <1>1, <1>2, PTL DEF Spec

-----------------------------------------------------------------------------
\* Runs

\* The results so far: a record for each plan that was run, each fed by the one before,
\* and the last of them gave the payload.
SoFar(assembly, payload, results) ==
  LET chain == assembly.connection_plan_refs
  IN  /\ results \in Seq(wires) /\ Len(results) <= Len(chain)
      /\ \A i \in 1..Len(results) : results[i].plan = chain[i]
      /\ \A i \in 1..(Len(results) - 1) :
           /\ results[i + 1].input_payload = results[i].output_payload
           /\ results[i + 1].plan.from_capability = results[i].plan.to_capability
      /\ results # <<>> => results[Len(results)].output_payload = payload

\* A run under way has run its first wires, and a recorded one all of them.
RunInv ==
  /\ handler = [t \in Threads |-> handler[t]]
  /\ \A a \in assemblies : Len(a.connection_plan_refs) \in Nat \ {0}
  /\ \A t \in Threads : handler[t].pc = "run" =>
       /\ handler[t].assembly \in assemblies
       /\ SoFar(handler[t].assembly, handler[t].payload, handler[t].results)
  /\ \A x \in runs :
       /\ x.assembly \in assemblies
       /\ SoFar(x.assembly, x.final_payload, x.connection_results)
       /\ Len(x.connection_results) = Len(x.assembly.connection_plan_refs)

LEMMA SoFarStays ==
  ASSUME NEW a, NEW payload, NEW results, SoFar(a, payload, results), wires \subseteq wires'
  PROVE  SoFar(a, payload, results)'
<1>1. results \in Seq(wires')
  BY DEF SoFar
<1> QED
  BY <1>1 DEF SoFar

\* A step that only begins requests of other kinds, or none.
LEMMA RunsStay ==
  ASSUME RunInv, runs' = runs, wires \subseteq wires', assemblies \subseteq assemblies',
         \A a \in assemblies' \ assemblies : Len(a.connection_plan_refs) \in Nat \ {0},
         handler' = [t \in Threads |-> handler'[t]],
         \A t \in Threads : handler'[t] = handler[t] \/ handler'[t].pc # "run"
  PROVE  RunInv'
BY SoFarStays DEF RunInv

LEMMA RunInit == Init => RunInv
BY DEF Init, RunInv, Idle

\* A wire whose plan is the next of the chain, begins where the last one ended and was
\* fed with what that gave.
LEMMA OneMore ==
  ASSUME NEW a, NEW payload, NEW results, NEW wire, SoFar(a, payload, results),
         wires' = wires \cup {wire}, Len(a.connection_plan_refs) \in Nat,
         Len(results) < Len(a.connection_plan_refs),
         wire.plan = a.connection_plan_refs[Len(results) + 1],
         wire.input_payload = payload,
         results # <<>> =>
           wire.plan.from_capability = results[Len(results)].plan.to_capability
  PROVE  SoFar(a, wire.output_payload, Append(results, wire))'
<1> DEFINE n  == Len(results)
           rs == Append(results, wire)
<1>1. /\ results \in Seq(wires') /\ n \in Nat
      /\ \A i \in 1..n : results[i].plan = a.connection_plan_refs[i]
      /\ \A i \in 1..(n - 1) :
           /\ results[i + 1].input_payload = results[i].output_payload
           /\ results[i + 1].plan.from_capability = results[i].plan.to_capability
      /\ results # <<>> => results[n].output_payload = payload
  BY DEF SoFar
<1>2. /\ rs \in Seq(wires') /\ Len(rs) = n + 1 /\ rs[n + 1] = wire
      /\ \A i \in 1..n : rs[i] = results[i]
  BY <1>1
<1>3. \A i \in 1..(n + 1) : rs[i].plan = a.connection_plan_refs[i]
  BY <1>1, <1>2
<1>4. ASSUME NEW i \in 1..n
      PROVE  /\ rs[i + 1].input_payload = rs[i].output_payload
             /\ rs[i + 1].plan.from_capability = rs[i].plan.to_capability
  <2>1. CASE i < n
    <3>1. i \in 1..(n - 1) /\ i + 1 \in 1..n
      BY <2>1, <1>1
    <3> QED
      BY <3>1, <1>1, <1>2
  <2>2. CASE i = n
    <3>1. results # <<>>
      BY <2>2, <1>1
    <3> QED
      BY <2>2, <3>1, <1>1, <1>2
  <2> QED
    BY <2>1, <2>2, <1>1
<1> HIDE DEF rs
<1>5. Len(rs) <= Len(a.connection_plan_refs)
  BY <1>1, <1>2
<1> QED
  BY <1>1, <1>2, <1>3, <1>4, <1>5 DEF SoFar, rs

LEMMA NextWireFollows ==
  ASSUME RunInv, NEW t \in Threads, RunWire(t)
  PROVE  RunInv'
<1>1. PICK a, payload, results : /\ a = handler[t].assembly /\ payload = handler[t].payload
                                 /\ results = handler[t].results
  OBVIOUS
<1>2. PICK wire, input, context :
        /\ wires' = wires \cup {wire}
        /\ Become(t, Running(a, input, context, wire.output_payload, Append(results, wire)))
        /\ wire.plan = a.connection_plan_refs[Len(results) + 1]
        /\ wire.input_payload = payload
  BY <1>1 DEF RunWire, Execution, NextPlan
<1>3. /\ handler[t].pc = "run" /\ Len(results) < Len(a.connection_plan_refs)
      /\ results # <<>> =>
           wire.plan.from_capability = results[Len(results)].plan.to_capability
      /\ runs' = runs /\ assemblies' = assemblies
  BY <1>1, <1>2 DEF RunWire, WiresLeft, Composes, NextPlan, planned
<1>4. /\ a \in assemblies /\ SoFar(a, payload, results)
      /\ Len(a.connection_plan_refs) \in Nat
  BY <1>1, <1>3 DEF RunInv
<1>5. SoFar(a, wire.output_payload, Append(results, wire))'
  BY <1>2, <1>3, <1>4, OneMore
<1> QED
  BY <1>2, <1>3, <1>4, <1>5, SoFarStays DEF RunInv, Running, Become

LEMMA RunStep == RunInv /\ [Next]_vars => RunInv'
<1> SUFFICES ASSUME RunInv, [Next]_vars PROVE RunInv'
  OBVIOUS
<1> USE DEF registry, bridges, planned, executed
<1>1. ASSUME NEW c, AddCapability(c) PROVE RunInv'
  BY <1>1, RunsStay DEF AddCapability, RunInv
<1>2. ASSUME NEW b, AddSmartBox(b) PROVE RunInv'
  BY <1>2, RunsStay DEF AddSmartBox, RunInv
<1>3. ASSUME NEW m, AddTransform(m) PROVE RunInv'
  BY <1>3, RunsStay DEF AddTransform, RunInv
<1>4. ASSUME NEW a, AddAdapter(a) PROVE RunInv'
  BY <1>4, RunsStay DEF AddAdapter, RunInv
<1>5. ASSUME NEW req, CheckCompatibility(req) PROVE RunInv'
  BY <1>5, RunsStay DEF CheckCompatibility, RunInv
<1>6. ASSUME NEW t \in Threads, NEW req, BeginPlan(t, req) PROVE RunInv'
  BY <1>6, RunsStay DEF BeginPlan, RunInv, Become, Planning
<1>7. ASSUME NEW t \in Threads, NEW e, CommitPlan(t, e) PROVE RunInv'
  BY <1>7, RunsStay DEF CommitPlan, RunInv, Become, Idle
<1>8. ASSUME NEW ref, NEW n \in Chains, NEW chain \in [1..n -> plans],
             AddAssembly([assembly_ref |-> ref, connection_plan_refs |-> chain])
      PROVE  RunInv'
  <2>1. Len(chain) = n /\ n \in Nat \ {0}
    BY RowsAssumption
  <2> QED
    BY <1>8, <2>1, RunsStay DEF AddAssembly, RunInv
<1>9. ASSUME NEW plan, NEW input, NEW context, ExecuteWire(plan, input, context)
      PROVE  RunInv'
  BY <1>9, RunsStay DEF ExecuteWire, RunInv
<1>10. ASSUME NEW t \in Threads, NEW a \in assemblies, NEW input, NEW context,
              BeginAssembly(t, a, input, context)
       PROVE  RunInv'
  <2>1. PICK payload : Become(t, Running(a, input, context, payload, <<>>))
    BY <1>10 DEF BeginAssembly
  <2>2. SoFar(a, payload, <<>>)
    BY DEF SoFar, RunInv
  <2> QED
    BY <1>10, <2>1, <2>2, SoFarStays DEF BeginAssembly, RunInv, Become, Running
<1>11. ASSUME NEW t \in Threads, RunWire(t) PROVE RunInv'
  BY <1>11, NextWireFollows
<1>12. ASSUME NEW t \in Threads, FailWire(t) \/ Crash(t) PROVE RunInv'
  BY <1>12, RunsStay DEF FailWire, Crash, RunInv, Become, Idle
<1>13. ASSUME NEW t \in Threads, RecordRun(t) PROVE RunInv'
  <2>1. /\ handler[t].assembly \in assemblies
        /\ SoFar(handler[t].assembly, handler[t].payload, handler[t].results)
        /\ Len(handler[t].results) = Len(handler[t].assembly.connection_plan_refs)
    BY <1>13 DEF RecordRun, WiresLeft, RunInv, SoFar
  <2> QED
    BY <1>13, <2>1, SoFarStays DEF RecordRun, RunOf, RunInv, Become, Idle
<1>14. ASSUME NEW p \in Proposals, Propose(p) PROVE RunInv'
  BY <1>14, RunsStay DEF Propose, RunInv
<1>15. ASSUME NEW t \in Threads, NEW p \in Proposals, Promote(t, p) PROVE RunInv'
  BY <1>15, RunsStay DEF Promote, PromoteCapability, PromoteBox, FailPromotion, CommitStage,
     RunInv, Become, Promoting, Idle
<1>16. CASE UNCHANGED vars
  BY <1>16, RunsStay DEF vars, RunInv
<1> QED
  BY <1>1, <1>2, <1>3, <1>4, <1>5, <1>6, <1>7, <1>8, <1>9, <1>10, <1>11, <1>12, <1>13, <1>14,
     <1>15, <1>16 DEF Next

LEMMA RecordedIsWhole == RunInv => RunsAreWhole
<1> SUFFICES ASSUME RunInv, NEW x \in runs
             PROVE  LET n == Len(x.connection_results)
                        result(i) == x.connection_results[i]
                    IN  /\ n = Len(x.assembly.connection_plan_refs)
                        /\ result(n).output_payload = x.final_payload
                        /\ \A i \in 1..n :
                             /\ result(i) \in wires
                             /\ result(i).plan = x.assembly.connection_plan_refs[i]
                        /\ \A i \in 1..(n - 1) :
                             /\ result(i + 1).input_payload = result(i).output_payload
                             /\ result(i + 1).plan.from_capability =
                                  result(i).plan.to_capability
  BY DEF RunsAreWhole
<1>1. x.connection_results \in Seq(wires) /\ x.connection_results # <<>>
  BY DEF RunInv, SoFar
<1>2. \A i \in 1..Len(x.connection_results) : x.connection_results[i] \in wires
  BY <1>1
<1> QED
  BY <1>1, <1>2 DEF RunInv, SoFar

\* RunsAreWhole, for all chains of plans and any number of handlers.
THEOREM RecordedRunsAreWhole == Spec => []RunsAreWhole
BY RunInit, RunStep, RecordedIsWhole, PTL DEF Spec

-----------------------------------------------------------------------------
\* What a connection joins

\* op is the operation of that name in capability c.
IsOperation(c, operation, op) ==
  \E i \in DOMAIN c.operations :
    /\ op = c.operations[i] /\ op.operation_id = operation
    /\ \A k \in 1..(i - 1) : c.operations[k].operation_id # operation

LEMMA OperationAtIs ==
  ASSUME NEW C, NEW ref, NEW operation, NEW op
  PROVE  op \in OperationAt(C, ref, operation) <=>
           \E c \in C : /\ c.capability_ref = ref /\ c.lifecycle_state = "ACTIVE"
                        /\ IsOperation(c, operation, op)
BY DEF OperationAt, IsOperation

LEMMA EndsAre ==
  ASSUME NEW C, NEW B, NEW req, NEW ends
  PROVE  ends \in Ends(C, B, req) <=>
           \E s \in OperationAt(C, req.from_capability, req.from_operation),
              d \in OperationAt(C, req.to_capability, req.to_operation),
              f \in PickBox(B, req.from_capability, req.from_box_ref),
              g \in PickBox(B, req.to_capability, req.to_box_ref) :
             ends = [source |-> s, target |-> d, from |-> f, to |-> g]
BY DEF Ends

\* References are unique in the registry, and no box has that of a request for any.
Registered(C, B) ==
  /\ \A c \in C : c.operations \in Seq(CapabilityOperation)
  /\ \A c, d \in C : c.capability_ref = d.capability_ref => c = d
  /\ \A b \in B : b.box_ref # AnyBox
  /\ \A b, c \in B : b.box_ref = c.box_ref => b = c

\* A reference and a name are one operation.
LEMMA OperationIsOne ==
  ASSUME NEW C, NEW B, Registered(C, B), NEW ref, NEW operation,
         NEW p \in OperationAt(C, ref, operation), NEW q \in OperationAt(C, ref, operation)
  PROVE  p = q
<1>1. PICK c \in C : c.capability_ref = ref /\ IsOperation(c, operation, p)
  BY OperationAtIs
<1>2. PICK d \in C : d.capability_ref = ref /\ IsOperation(d, operation, q)
  BY OperationAtIs
<1>3. c = d /\ c.operations \in Seq(CapabilityOperation)
  BY <1>1, <1>2 DEF Registered
<1>4. PICK i \in DOMAIN c.operations :
        /\ p = c.operations[i] /\ p.operation_id = operation
        /\ \A k \in 1..(i - 1) : c.operations[k].operation_id # operation
  BY <1>1 DEF IsOperation
<1>5. PICK j \in DOMAIN c.operations :
        /\ q = c.operations[j] /\ q.operation_id = operation
        /\ \A k \in 1..(j - 1) : c.operations[k].operation_id # operation
  BY <1>2, <1>3 DEF IsOperation
<1>6. i \in Nat \ {0} /\ j \in Nat \ {0}
  BY <1>3
<1>7. ~ (i < j) /\ ~ (j < i)
  BY <1>4, <1>5, <1>6
<1> QED
  BY <1>4, <1>5, <1>6, <1>7

\* What is registered stays what a request is about.
LEMMA OperationStays ==
  ASSUME NEW C, NEW D, C \subseteq D, NEW ref, NEW operation,
         NEW op \in OperationAt(C, ref, operation)
  PROVE  op \in OperationAt(D, ref, operation)
BY OperationAtIs

LEMMA NamedBoxStays ==
  ASSUME NEW B, NEW D, B \subseteq D, NEW ref, NEW requested, requested # AnyBox,
         NEW b \in PickBox(B, ref, requested)
  PROVE  b \in PickBox(D, ref, requested) /\ b.box_ref = requested
BY DEF PickBox, Serving

\* A box that was picked can be named.
LEMMA PickedCanBeNamed ==
  ASSUME NEW C, NEW B, Registered(C, B), NEW ref, NEW requested,
         NEW b \in PickBox(B, ref, requested)
  PROVE  /\ b \in B /\ b.box_ref # AnyBox /\ b \in PickBox(B, ref, b.box_ref)
         /\ requested # AnyBox => b.box_ref = requested
BY DEF PickBox, Serving, Registered

-----------------------------------------------------------------------------
\* Evidence, plans and gates

Agree(refs, s, d) ==
  /\ SemanticsAgree(s, d) /\ ConstraintsAgree(s, d)
  /\ \/ ContractsAgree(s, d)
     \/ \E t \in transforms : t.transform_ref \in refs /\ Transforms(t, s, d)

Routed(refs, f, g) ==
  \/ f.runtime_type = g.runtime_type
  \/ \E a \in adapters : a.adapter_ref \in refs /\ Adapts(a, f, g)

\* What a check that passed has found, and what later registrations leave of it.
Proven(e) ==
  /\ e \in evidence /\ e.result.compatible
  /\ \E s \in OperationAt(capabilities, e.request.from_capability, e.request.from_operation),
        d \in OperationAt(capabilities, e.request.to_capability, e.request.to_operation) :
       Agree(e.result.transformation_refs, s, d)
  /\ NamesBoxes(e.request) =>
       \E f \in PickBox(boxes, e.request.from_capability, e.request.from_box_ref),
          g \in PickBox(boxes, e.request.to_capability, e.request.to_box_ref) :
         Routed(e.result.adapter_refs, f, g)

\* The same of a plan, which names its boxes and has the needs of its target.
ProvenPlan(plan) ==
  /\ plan.evidence \in evidence /\ plan.evidence.result.compatible
  /\ plan.from_box_ref # AnyBox /\ plan.to_box_ref # AnyBox
  /\ \E s \in OperationAt(capabilities, plan.from_capability, plan.from_operation),
        d \in OperationAt(capabilities, plan.to_capability, plan.to_operation) :
       Agree(plan.transformation_refs, s, d) /\ plan.needs = d.needs
  /\ \E f \in PickBox(boxes, plan.from_capability, plan.from_box_ref),
        g \in PickBox(boxes, plan.to_capability, plan.to_box_ref) :
       NamesBoxes(plan.evidence.request) => Routed(plan.adapter_refs, f, g)

PlanInv ==
  /\ handler = [t \in Threads |-> handler[t]]
  /\ Registered(capabilities, boxes)
  /\ \A t \in Threads : handler[t].pc = "plan" => Proven(handler[t].evidence)
  /\ \A plan \in plans : ProvenPlan(plan)
  /\ \A a \in assemblies : a.connection_plan_refs \in Seq(plans)
  /\ \A w \in wires : w.plan \in plans /\ w.plan.needs \subseteq w.context

Grows ==
  /\ capabilities \subseteq capabilities' /\ boxes \subseteq boxes'
  /\ transforms \subseteq transforms' /\ adapters \subseteq adapters'
  /\ evidence \subseteq evidence'

LEMMA RegistryGrows == [Next]_vars => Grows
BY DEF Grows, Next, AddCapability, AddSmartBox, AddTransform, AddAdapter, CheckCompatibility,
       BeginPlan, CommitPlan, AddAssembly, ExecuteWire, BeginAssembly, RunWire, FailWire,
       RecordRun, Crash, Propose, Promote, PromoteCapability, PromoteBox, FailPromotion,
       CommitStage, vars, registry, bridges, planned, executed

LEMMA AgreeStays ==
  ASSUME Grows, NEW refs, NEW s, NEW d, Agree(refs, s, d)
  PROVE  Agree(refs, s, d)'
BY DEF Grows, Agree

LEMMA RoutedStays ==
  ASSUME Grows, NEW refs, NEW f, NEW g, Routed(refs, f, g)
  PROVE  Routed(refs, f, g)'
BY DEF Grows, Routed

LEMMA ProvenStays ==
  ASSUME Grows, NEW e, Proven(e)
  PROVE  Proven(e)'
<1>1. \E s \in OperationAt(capabilities, e.request.from_capability, e.request.from_operation)',
         d \in OperationAt(capabilities, e.request.to_capability, e.request.to_operation)' :
        Agree(e.result.transformation_refs, s, d)'
  BY OperationStays, AgreeStays DEF Grows, Proven
<1>2. ASSUME NamesBoxes(e.request)
      PROVE  \E f \in PickBox(boxes, e.request.from_capability, e.request.from_box_ref)',
                g \in PickBox(boxes, e.request.to_capability, e.request.to_box_ref)' :
               Routed(e.result.adapter_refs, f, g)'
  BY <1>2, NamedBoxStays, RoutedStays DEF Grows, Proven, NamesBoxes
<1> QED
  BY <1>1, <1>2 DEF Grows, Proven

LEMMA ProvenPlanStays ==
  ASSUME Grows, NEW plan, ProvenPlan(plan)
  PROVE  ProvenPlan(plan)'
<1>1. \E s \in OperationAt(capabilities, plan.from_capability, plan.from_operation)',
         d \in OperationAt(capabilities, plan.to_capability, plan.to_operation)' :
        Agree(plan.transformation_refs, s, d)' /\ plan.needs = d.needs
  BY OperationStays, AgreeStays DEF Grows, ProvenPlan
<1>2. \E f \in PickBox(boxes, plan.from_capability, plan.from_box_ref)',
         g \in PickBox(boxes, plan.to_capability, plan.to_box_ref)' :
        NamesBoxes(plan.evidence.request) => Routed(plan.adapter_refs, f, g)'
  BY NamedBoxStays, RoutedStays DEF Grows, ProvenPlan
<1> QED
  BY <1>1, <1>2 DEF Grows, ProvenPlan

\* What a check finds at the ends of a connection.
Mappings(ends) ==
  {t.transform_ref : t \in {row \in transforms : Transforms(row, ends.source, ends.target)}}
Routes(ends) ==
  {a.adapter_ref : a \in {row \in adapters : Adapts(row, ends.from, ends.to)}}
Outcomes(ends, context) ==
  LET schema  == ContractsAgree(ends.source, ends.target)
      runtime == ends.from.runtime_type = ends.to.runtime_type
  IN  {[compatible |-> /\ SemanticsAgree(ends.source, ends.target)
                       /\ ConstraintsAgree(ends.source, ends.target)
                       /\ ends.target.needs \subseteq context
                       /\ schema \/ Mappings(ends) # {}
                       /\ runtime \/ Routes(ends) # {},
        transformation_refs |-> ts, adapter_refs |-> as] :
         ts \in Required(schema, Mappings(ends)), as \in Required(runtime, Routes(ends))}

LEMMA FoundAtEnds ==
  ASSUME NEW req, NEW e \in Found(req)
  PROVE  /\ e.request = req
         /\ \E ends \in Ends(capabilities, boxes, req) : e.result \in Outcomes(ends, req.context)
<1>1. e.request = req /\ e.result \in Evaluations(capabilities, boxes, transforms, adapters, req)
  BY DEF Found
<1>2. Evaluations(capabilities, boxes, transforms, adapters, req)
        = UNION {Outcomes(ends, req.context) : ends \in Ends(capabilities, boxes, req)}
  BY DEF Evaluations, Outcomes, Mappings, Routes
<1> QED
  BY <1>1, <1>2

LEMMA OutcomeIs ==
  ASSUME NEW ends, NEW context, NEW result \in Outcomes(ends, context)
  PROVE  /\ result.transformation_refs \in
              Required(ContractsAgree(ends.source, ends.target), Mappings(ends))
         /\ result.adapter_refs \in
              Required(ends.from.runtime_type = ends.to.runtime_type, Routes(ends))
         /\ result.compatible =>
              /\ SemanticsAgree(ends.source, ends.target)
              /\ ConstraintsAgree(ends.source, ends.target)
              /\ ContractsAgree(ends.source, ends.target) \/ Mappings(ends) # {}
              /\ ends.from.runtime_type = ends.to.runtime_type \/ Routes(ends) # {}
BY DEF Outcomes

\* A check that passes.
LEMMA CompatibleIsChecked ==
  ASSUME NEW req, NEW e \in Found(req), e.result.compatible
  PROVE  /\ e.request = req
         /\ \E ends \in Ends(capabilities, boxes, req) :
              /\ Agree(e.result.transformation_refs, ends.source, ends.target)
              /\ Routed(e.result.adapter_refs, ends.from, ends.to)
<1>1. PICK ends \in Ends(capabilities, boxes, req) : e.result \in Outcomes(ends, req.context)
  BY FoundAtEnds
<1>2. /\ e.result.transformation_refs \in
             Required(ContractsAgree(ends.source, ends.target), Mappings(ends))
      /\ e.result.adapter_refs \in
             Required(ends.from.runtime_type = ends.to.runtime_type, Routes(ends))
      /\ SemanticsAgree(ends.source, ends.target)
      /\ ConstraintsAgree(ends.source, ends.target)
      /\ ContractsAgree(ends.source, ends.target) \/ Mappings(ends) # {}
      /\ ends.from.runtime_type = ends.to.runtime_type \/ Routes(ends) # {}
  BY <1>1, OutcomeIs
<1>3. Agree(e.result.transformation_refs, ends.source, ends.target)
  <2>1. CASE ContractsAgree(ends.source, ends.target)
    BY <1>2, <2>1 DEF Agree
  <2>2. CASE ~ContractsAgree(ends.source, ends.target)
    <3>1. PICK b \in Mappings(ends) : e.result.transformation_refs = {b}
      BY <1>2, <2>2 DEF Required
    <3> QED
      BY <1>2, <3>1 DEF Agree, Mappings
  <2> QED
    BY <2>1, <2>2
<1>4. Routed(e.result.adapter_refs, ends.from, ends.to)
  <2>1. CASE ends.from.runtime_type = ends.to.runtime_type
    BY <2>1 DEF Routed
  <2>2. CASE ends.from.runtime_type # ends.to.runtime_type
    <3>1. PICK b \in Routes(ends) : e.result.adapter_refs = {b}
      BY <1>2, <2>2 DEF Required
    <3> QED
      BY <3>1 DEF Routed, Routes
  <2> QED
    BY <2>1, <2>2
<1> QED
  BY <1>3, <1>4, FoundAtEnds

LEMMA CheckIsProven ==
  ASSUME PlanInv, NEW req, NEW e \in Found(req), e.result.compatible, e \in evidence', Grows
  PROVE  Proven(e)'
<1>1. e.request = req
  BY CompatibleIsChecked
<1>2. PICK ends \in Ends(capabilities, boxes, req) :
        /\ Agree(e.result.transformation_refs, ends.source, ends.target)
        /\ Routed(e.result.adapter_refs, ends.from, ends.to)
  BY CompatibleIsChecked
<1>3. PICK s \in OperationAt(capabilities, req.from_capability, req.from_operation),
           d \in OperationAt(capabilities, req.to_capability, req.to_operation),
           f \in PickBox(boxes, req.from_capability, req.from_box_ref),
           g \in PickBox(boxes, req.to_capability, req.to_box_ref) :
        ends = [source |-> s, target |-> d, from |-> f, to |-> g]
  BY EndsAre
<1>4. Agree(e.result.transformation_refs, s, d)' /\ Routed(e.result.adapter_refs, f, g)'
  BY <1>2, <1>3, AgreeStays, RoutedStays
<1>5. /\ s \in OperationAt(capabilities', req.from_capability, req.from_operation)
      /\ d \in OperationAt(capabilities', req.to_capability, req.to_operation)
  BY OperationStays DEF Grows
<1>6. NamesBoxes(req) => /\ f \in PickBox(boxes', req.from_capability, req.from_box_ref)
                         /\ g \in PickBox(boxes', req.to_capability, req.to_box_ref)
  BY NamedBoxStays DEF Grows, NamesBoxes
<1> QED
  BY <1>1, <1>4, <1>5, <1>6 DEF Proven

\* A plan joins the operations its evidence is about, whatever was registered since.
LEMMA NewPlanIsProven ==
  ASSUME PlanInv, NEW e, Proven(e), NEW ends \in Ends(capabilities, boxes, e.request)
  PROVE  ProvenPlan(PlanFor(e, ends, ends.target.needs))
<1> DEFINE plan == PlanFor(e, ends, ends.target.needs)
           req  == e.request
<1>1. PICK s \in OperationAt(capabilities, req.from_capability, req.from_operation),
           d \in OperationAt(capabilities, req.to_capability, req.to_operation),
           f \in PickBox(boxes, req.from_capability, req.from_box_ref),
           g \in PickBox(boxes, req.to_capability, req.to_box_ref) :
        ends = [source |-> s, target |-> d, from |-> f, to |-> g]
  BY EndsAre
<1>2. /\ plan.evidence = e /\ plan.needs = d.needs
      /\ plan.from_capability = req.from_capability /\ plan.to_capability = req.to_capability
      /\ plan.from_operation = req.from_operation /\ plan.to_operation = req.to_operation
      /\ plan.from_box_ref = f.box_ref /\ plan.to_box_ref = g.box_ref
      /\ plan.transformation_refs = e.result.transformation_refs
      /\ plan.adapter_refs = e.result.adapter_refs
  BY <1>1 DEF PlanFor
<1>3. Registered(capabilities, boxes)
  BY DEF PlanInv
<1>4. Agree(e.result.transformation_refs, s, d)
  BY <1>3, OperationIsOne DEF Proven
<1>5. /\ f \in PickBox(boxes, req.from_capability, f.box_ref) /\ f.box_ref # AnyBox
      /\ g \in PickBox(boxes, req.to_capability, g.box_ref) /\ g.box_ref # AnyBox
  BY <1>3, PickedCanBeNamed
<1>6. NamesBoxes(req) => Routed(e.result.adapter_refs, f, g)
  <2> SUFFICES ASSUME NamesBoxes(req) PROVE Routed(e.result.adapter_refs, f, g)
    OBVIOUS
  <2>1. PICK f0 \in PickBox(boxes, req.from_capability, req.from_box_ref),
             g0 \in PickBox(boxes, req.to_capability, req.to_box_ref) :
          Routed(e.result.adapter_refs, f0, g0)
    BY DEF Proven
  <2>2. f \in boxes /\ f0 \in boxes /\ f.box_ref = f0.box_ref
    BY <1>3, PickedCanBeNamed DEF NamesBoxes
  <2>3. g \in boxes /\ g0 \in boxes /\ g.box_ref = g0.box_ref
    BY <1>3, PickedCanBeNamed DEF NamesBoxes
  <2>4. f0 = f /\ g0 = g
    BY <1>3, <2>2, <2>3 DEF Registered
  <2> QED
    BY <2>1, <2>4
<1>7. e \in evidence /\ e.result.compatible
  BY DEF Proven
<1> HIDE DEF plan
<1>8. ProvenPlan(plan)
  BY <1>2, <1>4, <1>5, <1>6, <1>7 DEF ProvenPlan
<1> QED
  BY <1>8 DEF plan

LEMMA RegisteredInit == Init => Registered(capabilities, boxes)
BY DEF Init, Registered

LEMMA RowsAreTyped ==
  /\ \A c \in CapabilityRows \cup {p.capability : p \in Proposals} :
       c.operations \in Seq(CapabilityOperation)
  /\ \A b \in BoxRows \cup {p.smart_box : p \in Proposals} : b.box_ref # AnyBox
<1>1. /\ CapabilityRows \subseteq CapabilityContract
      /\ \A p \in Proposals : p.capability \in CapabilityContract
  BY RowsAssumption DEF WriteBoxProposal
<1>2. /\ BoxRows \subseteq SmartBoxManifest
      /\ \A p \in Proposals : p.smart_box \in SmartBoxManifest
  BY RowsAssumption DEF WriteBoxProposal
<1>3. \A c \in CapabilityContract : c.operations \in Seq(CapabilityOperation)
  BY DEF CapabilityContract
<1>4. \A b \in SmartBoxManifest : b.box_ref # AnyBox
  BY RowsAssumption DEF SmartBoxManifest
<1> QED
  BY <1>1, <1>2, <1>3, <1>4

LEMMA RegisteredStep ==
  ASSUME Registered(capabilities, boxes), [Next]_vars
  PROVE  Registered(capabilities', boxes')
<1> USE RowsAreTyped DEF registry, bridges, planned, executed
<1>1. ASSUME NEW c \in CapabilityRows, AddCapability(c)
      PROVE  Registered(capabilities', boxes')
  BY <1>1 DEF AddCapability, NewCapability, Registered
<1>2. ASSUME NEW b \in BoxRows, AddSmartBox(b) PROVE Registered(capabilities', boxes')
  BY <1>2 DEF AddSmartBox, NewBox, Registered
<1>3. ASSUME NEW t \in Threads, NEW p \in Proposals, Promote(t, p)
      PROVE  Registered(capabilities', boxes')
  BY <1>3 DEF Promote, PromoteCapability, PromoteBox, FailPromotion, CommitStage,
     NewCapability, NewBox, Registered
<1>4. ASSUME UNCHANGED <<capabilities, boxes>> PROVE Registered(capabilities', boxes')
  BY <1>4
<1> QED
  BY <1>1, <1>2, <1>3, <1>4 DEF Next, AddTransform, AddAdapter, CheckCompatibility,
     BeginPlan, CommitPlan, AddAssembly, ExecuteWire, BeginAssembly, RunWire, FailWire,
     RecordRun, Crash, Propose, vars

LEMMA PlansStay ==
  ASSUME PlanInv, Grows, Registered(capabilities', boxes'),
         handler' = [t \in Threads |-> handler'[t]],
         \A t \in Threads : handler'[t] = handler[t] \/ handler'[t].pc # "plan",
         plans' = plans, \A a \in assemblies' : a.connection_plan_refs \in Seq(plans),
         \A w \in wires' \ wires : w.plan \in plans /\ w.plan.needs \subseteq w.context
  PROVE  PlanInv'
BY ProvenStays, ProvenPlanStays DEF PlanInv

LEMMA PlanInit == Init => PlanInv
BY RegisteredInit DEF Init, PlanInv, Idle

\* A wire that gives an output has passed the gate of its plan.
LEMMA OutputIsGated ==
  ASSUME NEW plan, NEW input, NEW context, NEW output \in Outputs(plan, input, context)
  PROVE  plan.needs \subseteq context
BY DEF Outputs, WireOutput

LEMMA PlanStep == PlanInv /\ RunInv /\ [Next]_vars => PlanInv'
<1> SUFFICES ASSUME PlanInv, RunInv, [Next]_vars PROVE PlanInv'
  OBVIOUS
<1> USE DEF registry, bridges, planned, executed
<1>0. Grows /\ Registered(capabilities', boxes')
  BY RegistryGrows, RegisteredStep DEF PlanInv
<1>1. ASSUME NEW c, AddCapability(c) PROVE PlanInv'
  BY <1>0, <1>1, PlansStay DEF AddCapability, PlanInv
<1>2. ASSUME NEW b, AddSmartBox(b) PROVE PlanInv'
  BY <1>0, <1>2, PlansStay DEF AddSmartBox, PlanInv
<1>3. ASSUME NEW m, AddTransform(m) PROVE PlanInv'
  BY <1>0, <1>3, PlansStay DEF AddTransform, PlanInv
<1>4. ASSUME NEW a, AddAdapter(a) PROVE PlanInv'
  BY <1>0, <1>4, PlansStay DEF AddAdapter, PlanInv
<1>5. ASSUME NEW req, CheckCompatibility(req) PROVE PlanInv'
  BY <1>0, <1>5, PlansStay DEF CheckCompatibility, PlanInv
<1>6. ASSUME NEW t \in Threads, NEW req, BeginPlan(t, req) PROVE PlanInv'
  <2>1. PICK e \in Found(req) :
          e.result.compatible /\ evidence' = evidence \cup {e} /\ Become(t, Planning(e))
    BY <1>6 DEF BeginPlan
  <2>2. Proven(e)'
    BY <1>0, <2>1, CheckIsProven
  <2>3. plans' = plans /\ assemblies' = assemblies /\ wires' = wires
    BY <1>6 DEF BeginPlan
  <2> QED
    BY <1>0, <2>1, <2>2, <2>3, ProvenStays, ProvenPlanStays DEF PlanInv, Become, Planning
<1>7. ASSUME NEW t \in Threads, NEW e \in evidence, CommitPlan(t, e) PROVE PlanInv'
  <2>1. PICK ends \in Ends(capabilities, boxes, e.request) :
          plans' = plans \cup {PlanFor(e, ends, ends.target.needs)}
    BY <1>7 DEF CommitPlan
  <2>2. Proven(e)
    BY <1>7 DEF CommitPlan, Planning, PlanInv
  <2>3. ProvenPlan(PlanFor(e, ends, ends.target.needs))
    BY <2>2, NewPlanIsProven
  <2>4. \A plan \in plans' : ProvenPlan(plan)'
    BY <1>0, <2>1, <2>3, ProvenPlanStays DEF PlanInv
  <2>5. \A a \in assemblies : a.connection_plan_refs \in Seq(plans')
    BY <2>1 DEF PlanInv
  <2>6. Become(t, Idle) /\ wires' = wires /\ assemblies' = assemblies
    BY <1>7 DEF CommitPlan
  <2> QED
    BY <1>0, <2>1, <2>4, <2>5, <2>6, ProvenStays DEF PlanInv, Become, Idle
<1>8. ASSUME NEW ref, NEW n \in Chains, NEW chain \in [1..n -> plans],
             AddAssembly([assembly_ref |-> ref, connection_plan_refs |-> chain])
      PROVE  PlanInv'
  <2>1. chain \in Seq(plans)
    BY RowsAssumption
  <2> QED
    BY <1>0, <1>8, <2>1, PlansStay DEF AddAssembly, PlanInv
<1>9. ASSUME NEW plan \in plans, NEW input, NEW context, ExecuteWire(plan, input, context)
      PROVE  PlanInv'
  BY <1>0, <1>9, PlansStay, OutputIsGated DEF ExecuteWire, Execution, PlanInv
<1>10. ASSUME NEW t \in Threads, NEW a, NEW input, NEW context,
              BeginAssembly(t, a, input, context)
       PROVE  PlanInv'
  BY <1>0, <1>10, PlansStay DEF BeginAssembly, Running, Become, PlanInv
<1>11. ASSUME NEW t \in Threads, RunWire(t) PROVE PlanInv'
  <2>1. PICK output \in Outputs(NextPlan(handler[t]), handler[t].payload, handler[t].context) :
          /\ wires' = wires \cup {Execution(NextPlan(handler[t]), handler[t].context,
                                            handler[t].payload, output)}
          /\ \E r : r.pc = "run" /\ Become(t, r)
    BY <1>11 DEF RunWire, Running
  <2>2. NextPlan(handler[t]) \in plans
    BY <1>11 DEF RunWire, WiresLeft, NextPlan, RunInv, SoFar, PlanInv
  <2> QED
    BY <1>0, <1>11, <2>1, <2>2, PlansStay, OutputIsGated DEF RunWire, Execution, Become, PlanInv
<1>12. ASSUME NEW t \in Threads, FailWire(t) \/ RecordRun(t) \/ Crash(t) PROVE PlanInv'
  BY <1>0, <1>12, PlansStay DEF FailWire, RecordRun, Crash, Become, Idle, PlanInv
<1>13. ASSUME NEW p \in Proposals, Propose(p) PROVE PlanInv'
  BY <1>0, <1>13, PlansStay DEF Propose, PlanInv
<1>14. ASSUME NEW t \in Threads, NEW p \in Proposals, Promote(t, p) PROVE PlanInv'
  BY <1>0, <1>14, PlansStay DEF Promote, PromoteCapability, PromoteBox, FailPromotion,
     CommitStage, PlanInv, Become, Promoting, Idle
<1>15. CASE UNCHANGED vars
  BY <1>0, <1>15, PlansStay DEF vars, PlanInv
<1> QED
  BY <1>1, <1>2, <1>3, <1>4, <1>5, <1>6, <1>7, <1>8, <1>9, <1>10, <1>11, <1>12, <1>13, <1>14,
     <1>15 DEF Next

LEMMA ProvenPlans == PlanInv => PlansAreProven
<1> SUFFICES ASSUME PlanInv, NEW plan \in plans
             PROVE  /\ plan.evidence \in evidence /\ plan.evidence.result.compatible
                    /\ \E e \in JoinedBy(plan) :
                         /\ Agree(plan.transformation_refs, e.source, e.target)
                         /\ NamesBoxes(plan.evidence.request) =>
                              Routed(plan.adapter_refs, e.from, e.to)
  BY DEF PlansAreProven, Agree, Routed
<1>1. ProvenPlan(plan)
  BY DEF PlanInv
<1>2. PICK s \in OperationAt(capabilities, plan.from_capability, plan.from_operation),
           d \in OperationAt(capabilities, plan.to_capability, plan.to_operation) :
        Agree(plan.transformation_refs, s, d)
  BY <1>1 DEF ProvenPlan
<1>3. PICK f \in PickBox(boxes, plan.from_capability, plan.from_box_ref),
           g \in PickBox(boxes, plan.to_capability, plan.to_box_ref) :
        NamesBoxes(plan.evidence.request) => Routed(plan.adapter_refs, f, g)
  BY <1>1 DEF ProvenPlan
<1>4. [source |-> s, target |-> d, from |-> f, to |-> g] \in JoinedBy(plan)
  BY EndsAre DEF JoinedBy
<1> QED
  BY <1>1, <1>2, <1>3, <1>4 DEF ProvenPlan

LEMMA GatedWires == PlanInv => WiresAreGated
<1> SUFFICES ASSUME PlanInv, NEW w \in wires,
                    NEW o \in OperationAt(capabilities, w.plan.to_capability,
                                          w.plan.to_operation)
             PROVE  o.needs \subseteq w.context
  BY DEF WiresAreGated
<1>1. ProvenPlan(w.plan) /\ w.plan.needs \subseteq w.context
  BY DEF PlanInv
<1>2. w.plan.needs = o.needs
  BY <1>1, OperationIsOne DEF PlanInv, ProvenPlan
<1> QED
  BY <1>1, <1>2

LEMMA PlansAndRuns == Spec => [](PlanInv /\ RunInv)
<1>1. Init => PlanInv /\ RunInv
  BY PlanInit, RunInit
<1>2. PlanInv /\ RunInv /\ [Next]_vars => (PlanInv /\ RunInv)'
  BY PlanStep, RunStep
<1> QED
  BY <1>1, <1>2, PTL DEF Spec

\* PlansAreProven, for all registries, requests and handlers.
THEOREM EveryPlanIsProven == Spec => []PlansAreProven
BY PlansAndRuns, ProvenPlans, PTL

\* WiresAreGated, for all plans and contexts.
THEOREM EveryWireIsGated == Spec => []WiresAreGated
BY PlansAndRuns, GatedWires, PTL

-----------------------------------------------------------------------------
\* Replay

\* References of bridges are unique, and a check asks for at most one transform.
BridgeInv ==
  /\ \A t, u \in transforms : t.transform_ref = u.transform_ref => t = u
  /\ \A e \in evidence : \A x, y \in e.result.transformation_refs : x = y
  /\ \A t \in Threads : handler[t].pc = "plan" => handler[t].evidence \in evidence
  /\ \A plan \in plans : \A x, y \in plan.transformation_refs : x = y
  /\ handler = [t \in Threads |-> handler[t]]
  /\ \A w \in wires : w.output_payload \in Outputs(w.plan, w.input_payload, w.context)

LEMMA OneTransformFound ==
  ASSUME NEW req, NEW e \in Found(req)
  PROVE  \A x, y \in e.result.transformation_refs : x = y
<1>1. PICK ends \in Ends(capabilities, boxes, req) : e.result \in Outcomes(ends, req.context)
  BY FoundAtEnds
<1>2. e.result.transformation_refs \in
        Required(ContractsAgree(ends.source, ends.target), Mappings(ends))
  BY <1>1, OutcomeIs
<1> QED
  BY <1>2 DEF Required

\* An output is one that its plan, payload and context give for good.
LEMMA OutputStays ==
  ASSUME Grows, NEW plan, NEW input, NEW context, NEW output \in Outputs(plan, input, context)
  PROVE  output \in Outputs(plan, input, context)'
<1>1. \A q \in Transformed(transforms, plan.transformation_refs, input) :
        q \in Transformed(transforms', plan.transformation_refs, input)
  BY DEF Grows, Transformed
<1>2. \A q : \A o \in BoxOutput(boxes, plan.to_box_ref, plan.to_operation, q) :
        o \in BoxOutput(boxes', plan.to_box_ref, plan.to_operation, q)
  BY DEF Grows, BoxOutput
<1>3. PICK q \in Transformed(transforms, plan.transformation_refs, input) :
        output \in BoxOutput(boxes, plan.to_box_ref, plan.to_operation, q)
  BY DEF Outputs, WireOutput
<1>4. plan.needs \subseteq context /\ AdaptersAvailable(adapters', plan.adapter_refs)
  BY DEF Outputs, WireOutput, AdaptersAvailable, Grows
<1> QED
  BY <1>1, <1>2, <1>3, <1>4 DEF Outputs, WireOutput

LEMMA HandledIsOne ==
  ASSUME NEW h, NEW payload, NEW x \in Handled(h, payload), NEW y \in Handled(h, payload)
  PROVE  x = y
<1>1. CASE h.handler_ref = "identity"
  BY <1>1 DEF Handled
<1>2. CASE h.handler_ref = "map-fields"
  BY <1>2 DEF Handled
<1>3. CASE h.handler_ref = "merge-constants"
  BY <1>3 DEF Handled
<1> QED
  BY <1>1, <1>2, <1>3 DEF Handled

LEMMA OutputIsOne ==
  ASSUME PlanInv, BridgeInv, NEW plan \in plans, NEW input, NEW context,
         NEW x \in Outputs(plan, input, context), NEW y \in Outputs(plan, input, context)
  PROVE  x = y
<1>1. PICK p \in Transformed(transforms, plan.transformation_refs, input) :
        x \in BoxOutput(boxes, plan.to_box_ref, plan.to_operation, p)
  BY DEF Outputs, WireOutput
<1>2. PICK q \in Transformed(transforms, plan.transformation_refs, input) :
        y \in BoxOutput(boxes, plan.to_box_ref, plan.to_operation, q)
  BY DEF Outputs, WireOutput
<1>3. p = q
  BY <1>1, <1>2 DEF BridgeInv, Transformed
<1>4. PICK b \in boxes : /\ b.box_ref = plan.to_box_ref
                         /\ x \in Handled(b.operation_bindings[plan.to_operation], p)
  BY <1>1 DEF BoxOutput
<1>5. PICK c \in boxes : /\ c.box_ref = plan.to_box_ref
                         /\ y \in Handled(c.operation_bindings[plan.to_operation], q)
  BY <1>2 DEF BoxOutput
<1>6. b = c
  BY <1>4, <1>5 DEF PlanInv, Registered
<1> QED
  BY <1>3, <1>4, <1>5, <1>6, HandledIsOne

LEMMA BridgeInit == Init => BridgeInv
BY DEF Init, BridgeInv, Idle

LEMMA BridgesStay ==
  ASSUME BridgeInv, Grows, \A t, u \in transforms' : t.transform_ref = u.transform_ref => t = u,
         \A e \in evidence' \ evidence : \A x, y \in e.result.transformation_refs : x = y,
         \A plan \in plans' \ plans : \A x, y \in plan.transformation_refs : x = y,
         handler' = [t \in Threads |-> handler'[t]],
         \A t \in Threads : \/ handler'[t] = handler[t] \/ handler'[t].pc # "plan"
                           \/ handler'[t].evidence \in evidence',
         \A w \in wires' \ wires :
           w.output_payload \in Outputs(w.plan, w.input_payload, w.context)
  PROVE  BridgeInv'
<1>1. \A w \in wires' : w.output_payload \in Outputs(w.plan, w.input_payload, w.context)
  BY DEF BridgeInv
<1>2. \A w \in wires' : w.output_payload \in Outputs(w.plan, w.input_payload, w.context)'
  BY <1>1, OutputStays
<1> QED
  BY <1>2 DEF BridgeInv, Grows

LEMMA BridgeStep == BridgeInv /\ [Next]_vars => BridgeInv'
<1> SUFFICES ASSUME BridgeInv, [Next]_vars PROVE BridgeInv'
  OBVIOUS
<1> USE DEF registry, bridges, planned, executed
<1>0. Grows
  BY RegistryGrows
<1>1. ASSUME NEW c, AddCapability(c) PROVE BridgeInv'
  BY <1>0, <1>1, BridgesStay DEF AddCapability, BridgeInv
<1>2. ASSUME NEW b, AddSmartBox(b) PROVE BridgeInv'
  BY <1>0, <1>2, BridgesStay DEF AddSmartBox, BridgeInv
<1>3. ASSUME NEW m, AddTransform(m) PROVE BridgeInv'
  BY <1>0, <1>3, BridgesStay DEF AddTransform, BridgeInv
<1>4. ASSUME NEW a, AddAdapter(a) PROVE BridgeInv'
  BY <1>0, <1>4, BridgesStay DEF AddAdapter, BridgeInv
<1>5. ASSUME NEW req, CheckCompatibility(req) PROVE BridgeInv'
  BY <1>0, <1>5, BridgesStay, OneTransformFound DEF CheckCompatibility, BridgeInv
<1>6. ASSUME NEW t \in Threads, NEW req, BeginPlan(t, req) PROVE BridgeInv'
  <2>1. PICK e \in Found(req) : evidence' = evidence \cup {e} /\ Become(t, Planning(e))
    BY <1>6 DEF BeginPlan
  <2>2. \A x, y \in e.result.transformation_refs : x = y
    BY OneTransformFound
  <2> QED
    BY <1>0, <1>6, <2>1, <2>2, BridgesStay DEF BeginPlan, Become, Planning, BridgeInv
<1>7. ASSUME NEW t \in Threads, NEW e \in evidence, CommitPlan(t, e) PROVE BridgeInv'
  <2>1. PICK ends : plans' = plans \cup {PlanFor(e, ends, ends.target.needs)}
    BY <1>7 DEF CommitPlan
  <2>2. \A plan \in plans' \ plans : \A x, y \in plan.transformation_refs : x = y
    BY <2>1 DEF PlanFor, BridgeInv
  <2> QED
    BY <1>0, <1>7, <2>2, BridgesStay DEF CommitPlan, Become, Idle, BridgeInv
<1>8. ASSUME NEW a, AddAssembly(a) PROVE BridgeInv'
  BY <1>0, <1>8, BridgesStay DEF AddAssembly, BridgeInv
<1>9. ASSUME NEW plan, NEW input, NEW context, ExecuteWire(plan, input, context)
      PROVE  BridgeInv'
  BY <1>0, <1>9, BridgesStay DEF ExecuteWire, Execution, BridgeInv
<1>10. ASSUME NEW t \in Threads, NEW a, NEW input, NEW context,
              BeginAssembly(t, a, input, context)
       PROVE  BridgeInv'
  BY <1>0, <1>10, BridgesStay DEF BeginAssembly, Running, Become, BridgeInv
<1>11. ASSUME NEW t \in Threads, RunWire(t) PROVE BridgeInv'
  <2>1. PICK output \in Outputs(NextPlan(handler[t]), handler[t].payload, handler[t].context) :
          /\ wires' = wires \cup {Execution(NextPlan(handler[t]), handler[t].context,
                                            handler[t].payload, output)}
          /\ \E r : r.pc = "run" /\ Become(t, r)
    BY <1>11 DEF RunWire, Running
  <2>2. \A w \in wires' \ wires : w.output_payload \in Outputs(w.plan, w.input_payload, w.context)
    BY <2>1 DEF Execution
  <2> QED
    BY <1>0, <1>11, <2>1, <2>2, BridgesStay DEF RunWire, Become, BridgeInv
<1>12. ASSUME NEW t \in Threads, FailWire(t) \/ RecordRun(t) \/ Crash(t) PROVE BridgeInv'
  BY <1>0, <1>12, BridgesStay DEF FailWire, RecordRun, Crash, Become, Idle, BridgeInv
<1>13. ASSUME NEW p \in Proposals, Propose(p) PROVE BridgeInv'
  BY <1>0, <1>13, BridgesStay DEF Propose, BridgeInv
<1>14. ASSUME NEW t \in Threads, NEW p \in Proposals, Promote(t, p) PROVE BridgeInv'
  BY <1>0, <1>14, BridgesStay DEF Promote, PromoteCapability, PromoteBox, FailPromotion,
     CommitStage, BridgeInv, Become, Promoting, Idle
<1>15. CASE UNCHANGED vars
  BY <1>0, <1>15, BridgesStay DEF vars, BridgeInv
<1> QED
  BY <1>1, <1>2, <1>3, <1>4, <1>5, <1>6, <1>7, <1>8, <1>9, <1>10, <1>11, <1>12, <1>13, <1>14,
     <1>15 DEF Next

LEMMA ReplayingWires == PlanInv /\ BridgeInv => WiresReplay
<1> SUFFICES ASSUME PlanInv, BridgeInv, NEW w \in wires
             PROVE  Outputs(w.plan, w.input_payload, w.context) = {w.output_payload}
  BY DEF WiresReplay
<1>1. w.plan \in plans /\ w.output_payload \in Outputs(w.plan, w.input_payload, w.context)
  BY DEF PlanInv, BridgeInv
<1> QED
  BY <1>1, OutputIsOne

\* WiresReplay, for all boxes, transforms and payloads.
THEOREM EveryWireReplays == Spec => []WiresReplay
<1>1. Spec => []BridgeInv
  BY BridgeInit, BridgeStep, PTL DEF Spec
<1> QED
  BY <1>1, PlansAndRuns, ReplayingWires, PTL

-----------------------------------------------------------------------------
\* Type correctness

TypeInv == TypeOK /\ handler = [t \in Threads |-> handler[t]]

LEMMA TypedOperation ==
  ASSUME TypeOK, NEW ref, NEW operation, NEW op \in OperationAt(capabilities, ref, operation)
  PROVE  op \in CapabilityOperation
<1>1. PICK c \in capabilities : IsOperation(c, operation, op)
  BY OperationAtIs
<1>2. c.operations \in Seq(CapabilityOperation)
  BY RowsAreTyped DEF TypeOK
<1> QED
  BY <1>1, <1>2 DEF IsOperation

LEMMA TypedBox ==
  ASSUME TypeOK, NEW b \in boxes
  PROVE  b \in SmartBoxManifest
<1>1. \A p \in Proposals : p.smart_box \in SmartBoxManifest
  BY RowsAssumption DEF WriteBoxProposal
<1> QED
  BY <1>1, RowsAssumption DEF TypeOK

LEMMA ResultsAreTyped ==
  ASSUME NEW Truth, NEW good \in Truth, NEW T, NEW A, A \subseteq T, NEW U, NEW B, B \subseteq U
  PROVE  {[compatible |-> good, transformation_refs |-> ts, adapter_refs |-> as] :
            ts \in A, as \in B}
           \subseteq [compatible: Truth, transformation_refs: T, adapter_refs: U]
OBVIOUS

LEMMA TypedFound ==
  ASSUME TypeOK, NEW req \in PlanRequests, NEW e \in Found(req)
  PROVE  e \in CompatibilityEvidence
<1>1. PICK ends \in Ends(capabilities, boxes, req) : e.result \in Outcomes(ends, req.context)
  BY FoundAtEnds
<1>2. Mappings(ends) \subseteq TransformRefs /\ Routes(ends) \subseteq AdapterRefs
  BY RowsAssumption DEF TypeOK, Mappings, Routes, TransformDefinition, AdapterDefinition
<1>3. e.result \in CompatibilityResult
  <2> DEFINE good == /\ SemanticsAgree(ends.source, ends.target)
                     /\ ConstraintsAgree(ends.source, ends.target)
                     /\ ends.target.needs \subseteq req.context
                     /\ ContractsAgree(ends.source, ends.target) \/ Mappings(ends) # {}
                     /\ ends.from.runtime_type = ends.to.runtime_type \/ Routes(ends) # {}
         A == Required(ContractsAgree(ends.source, ends.target), Mappings(ends))
         B == Required(ends.from.runtime_type = ends.to.runtime_type, Routes(ends))
  <2>1. Outcomes(ends, req.context) =
          {[compatible |-> good, transformation_refs |-> ts, adapter_refs |-> as] :
             ts \in A, as \in B}
    BY DEF Outcomes
  <2>2. good \in BOOLEAN
    OBVIOUS
  <2>3. A \subseteq SUBSET TransformRefs /\ B \subseteq SUBSET AdapterRefs
    BY <1>2 DEF Required
  <2> HIDE DEF good, A, B
  <2> QED
    BY <1>1, <2>1, <2>2, <2>3, ResultsAreTyped DEF CompatibilityResult
<1>4. e = [request |-> req, result |-> e.result]
  BY DEF Found
<1> QED
  BY <1>3, <1>4 DEF CompatibilityEvidence

LEMMA TypedPlan ==
  ASSUME TypeOK, NEW e \in evidence, NEW ends \in Ends(capabilities, boxes, e.request)
  PROVE  PlanFor(e, ends, ends.target.needs) \in ConnectionPlan
<1>1. PICK s \in OperationAt(capabilities, e.request.from_capability, e.request.from_operation),
           d \in OperationAt(capabilities, e.request.to_capability, e.request.to_operation),
           f \in PickBox(boxes, e.request.from_capability, e.request.from_box_ref),
           g \in PickBox(boxes, e.request.to_capability, e.request.to_box_ref) :
        ends = [source |-> s, target |-> d, from |-> f, to |-> g]
  BY EndsAre
<1>2. d.needs \in SUBSET Needs
  BY TypedOperation DEF CapabilityOperation
<1>3. f \in boxes /\ g \in boxes
  BY DEF PickBox, Serving
<1>4. f.box_ref \in BoxRefs /\ g.box_ref \in BoxRefs
  BY <1>3, TypedBox DEF SmartBoxManifest
<1>5. e \in CompatibilityEvidence /\ e.request \in ConnectionPlanRequest
  BY RowsAssumption DEF TypeOK, CompatibilityEvidence
<1> QED
  BY <1>1, <1>2, <1>4, <1>5
     DEF PlanFor, ConnectionPlan, CompatibilityEvidence, CompatibilityResult,
         ConnectionPlanRequest

LEMMA TypedBoxOutput ==
  ASSUME TypeOK, NEW ref, NEW operation \in OperationIds, NEW payload \in SUBSET Fields,
         NEW output \in BoxOutput(boxes, ref, operation, payload)
  PROVE  output \in SUBSET Fields
<1>1. PICK b \in boxes : output \in Handled(b.operation_bindings[operation], payload)
  BY DEF BoxOutput
<1>2. b.operation_bindings[operation] \in OperationBinding
  BY TypedBox DEF SmartBoxManifest
<1>3. PICK h \in OperationBinding : output \in Handled(h, payload)
  BY <1>1, <1>2
<1>4. h.gives \in SUBSET Fields
  BY DEF OperationBinding
<1>5. CASE h.handler_ref = "identity"
  BY <1>3, <1>5 DEF Handled
<1>6. CASE h.handler_ref = "map-fields"
  BY <1>3, <1>4, <1>6 DEF Handled
<1>7. CASE h.handler_ref = "merge-constants"
  BY <1>3, <1>4, <1>7 DEF Handled
<1> QED
  BY <1>3, <1>5, <1>6, <1>7 DEF Handled

LEMMA TypedOutput ==
  ASSUME TypeOK, NEW plan \in plans, NEW input \in SUBSET Fields, NEW context,
         NEW output \in Outputs(plan, input, context)
  PROVE  output \in SUBSET Fields
<1>1. PICK q \in Transformed(transforms, plan.transformation_refs, input) :
        output \in BoxOutput(boxes, plan.to_box_ref, plan.to_operation, q)
  BY DEF Outputs, WireOutput
<1>2. \A t \in transforms : t.gives \in SUBSET Fields
  BY RowsAssumption DEF TypeOK, TransformDefinition
<1>3. q \in SUBSET Fields
  BY <1>1, <1>2 DEF Transformed
<1>4. plan.to_operation \in OperationIds
  BY DEF TypeOK, ConnectionPlan
<1> QED
  BY <1>1, <1>3, <1>4, TypedBoxOutput

\* What is recorded stays well typed while tables grow.
LEMMA RequestsStay ==
  ASSUME evidence \subseteq evidence', assemblies \subseteq assemblies', wires \subseteq wires',
         NEW r \in Request
  PROVE  r \in Request'
<1>1. Seq(wires) \subseteq Seq(wires')
  OBVIOUS
<1> QED
  BY <1>1 DEF Request

LEMMA ExecutionsStay ==
  ASSUME plans \subseteq plans', assemblies \subseteq assemblies', wires \subseteq wires'
  PROVE  /\ AssemblyDefinition \subseteq AssemblyDefinition'
         /\ WireExecution \subseteq WireExecution'
         /\ AssemblyExecution \subseteq AssemblyExecution'
<1>1. Seq(wires) \subseteq Seq(wires') /\ Seq(plans) \subseteq Seq(plans')
  OBVIOUS
<1> QED
  BY <1>1 DEF AssemblyDefinition, WireExecution, AssemblyExecution

LEMMA TypeInit == Init => TypeInv
BY DEF Init, TypeInv, TypeOK, Request

\* The handlers of a step that begins no request.
LEMMA HandlersStay ==
  ASSUME TypeInv, handler' = handler, evidence \subseteq evidence',
         assemblies \subseteq assemblies', wires \subseteq wires'
  PROVE  /\ DOMAIN handler' = Threads /\ handler' = [t \in Threads |-> handler'[t]]
         /\ \A t \in Threads : handler'[t] \in Request'
BY RequestsStay DEF TypeInv, TypeOK

\* Those of one that does, or ends one.
LEMMA HandlersBecome ==
  ASSUME TypeInv, NEW t \in Threads, NEW r, Become(t, r), r \in Request',
         evidence \subseteq evidence', assemblies \subseteq assemblies', wires \subseteq wires'
  PROVE  /\ DOMAIN handler' = Threads /\ handler' = [u \in Threads |-> handler'[u]]
         /\ \A u \in Threads : handler'[u] \in Request'
<1>1. handler' = [handler EXCEPT ![t] = r]
  BY DEF Become
<1>2. \A u \in Threads : handler'[u] = r \/ handler'[u] = handler[u]
  BY <1>1 DEF TypeInv
<1> QED
  BY <1>1, <1>2, RequestsStay DEF TypeInv, TypeOK

LEMMA TypeStep == TypeInv /\ RunInv /\ [Next]_vars => TypeInv'
<1> SUFFICES ASSUME TypeInv, RunInv, [Next]_vars PROVE TypeInv'
  OBVIOUS
<1> USE DEF registry, bridges, planned, executed
<1>0. TypeOK
  BY DEF TypeInv
<1>1. ASSUME NEW c \in CapabilityRows, AddCapability(c) PROVE TypeInv'
  BY <1>1, HandlersStay, ExecutionsStay DEF AddCapability, NewCapability, TypeInv, TypeOK
<1>2. ASSUME NEW b \in BoxRows, AddSmartBox(b) PROVE TypeInv'
  BY <1>2, HandlersStay, ExecutionsStay DEF AddSmartBox, NewBox, TypeInv, TypeOK
<1>3. ASSUME NEW m \in TransformRows, AddTransform(m) PROVE TypeInv'
  BY <1>3, HandlersStay, ExecutionsStay DEF AddTransform, TypeInv, TypeOK
<1>4. ASSUME NEW a \in AdapterRows, AddAdapter(a) PROVE TypeInv'
  BY <1>4, HandlersStay, ExecutionsStay DEF AddAdapter, TypeInv, TypeOK
<1>5. ASSUME NEW req \in PlanRequests, CheckCompatibility(req) PROVE TypeInv'
  <2>1. evidence \subseteq evidence' /\ evidence' \subseteq CompatibilityEvidence
    BY <1>0, <1>5, TypedFound DEF CheckCompatibility, TypeOK
  <2> QED
    BY <1>5, <2>1, HandlersStay, ExecutionsStay DEF CheckCompatibility, TypeInv, TypeOK
<1>6. ASSUME NEW t \in Threads, NEW req \in PlanRequests, BeginPlan(t, req) PROVE TypeInv'
  <2>1. PICK e \in Found(req) : evidence' = evidence \cup {e} /\ Become(t, Planning(e))
    BY <1>6 DEF BeginPlan
  <2>2. e \in CompatibilityEvidence /\ Planning(e) \in Request'
    BY <1>0, <2>1, TypedFound DEF Request
  <2>3. /\ plans' = plans /\ assemblies' = assemblies /\ wires' = wires
        /\ UNCHANGED <<capabilities, boxes, transforms, adapters, runs, stage>>
    BY <1>6 DEF BeginPlan
  <2>4. /\ DOMAIN handler' = Threads /\ handler' = [u \in Threads |-> handler'[u]]
        /\ \A u \in Threads : handler'[u] \in Request'
    BY <2>1, <2>2, <2>3, HandlersBecome
  <2> QED
    BY <2>1, <2>2, <2>3, <2>4, ExecutionsStay DEF TypeInv, TypeOK
<1>7. ASSUME NEW t \in Threads, NEW e \in evidence, CommitPlan(t, e) PROVE TypeInv'
  <2>1. PICK ends \in Ends(capabilities, boxes, e.request) :
          plans' = plans \cup {PlanFor(e, ends, ends.target.needs)}
    BY <1>7 DEF CommitPlan
  <2>2. PlanFor(e, ends, ends.target.needs) \in ConnectionPlan
    BY <1>0, TypedPlan
  <2>3. /\ Become(t, Idle) /\ Idle \in Request'
        /\ UNCHANGED <<capabilities, boxes, transforms, adapters, evidence, assemblies, wires,
                       runs, stage>>
    BY <1>7 DEF CommitPlan, Request
  <2>4. /\ DOMAIN handler' = Threads /\ handler' = [u \in Threads |-> handler'[u]]
        /\ \A u \in Threads : handler'[u] \in Request'
    BY <2>3, HandlersBecome
  <2> QED
    BY <2>1, <2>2, <2>3, <2>4, ExecutionsStay DEF TypeInv, TypeOK
<1>8. ASSUME NEW ref \in AssemblyRefs, NEW n \in Chains, NEW chain \in [1..n -> plans],
             AddAssembly([assembly_ref |-> ref, connection_plan_refs |-> chain])
      PROVE  TypeInv'
  <2> DEFINE a == [assembly_ref |-> ref, connection_plan_refs |-> chain]
  <2>1. a \in AssemblyDefinition
    BY RowsAssumption DEF AssemblyDefinition
  <2>2. /\ assemblies' = assemblies \cup {a}
        /\ \A b \in assemblies : b.assembly_ref # a.assembly_ref
        /\ UNCHANGED <<capabilities, boxes, transforms, adapters, evidence, plans, wires, runs,
                       stage, handler>>
    BY <1>8 DEF AddAssembly
  <2> HIDE DEF a
  <2> QED
    BY <2>1, <2>2, HandlersStay, ExecutionsStay DEF TypeInv, TypeOK
<1>9. ASSUME NEW plan \in plans, NEW input \in Inputs, NEW context \in Contexts,
             ExecuteWire(plan, input, context)
      PROVE  TypeInv'
  <2>1. PICK output \in Outputs(plan, input, context) :
          wires' = wires \cup {Execution(plan, context, input, output)}
    BY <1>9 DEF ExecuteWire
  <2>2. input \in SUBSET Fields
    BY RowsAssumption
  <2>3. output \in SUBSET Fields
    BY <1>0, <2>2, TypedOutput
  <2>4. Execution(plan, context, input, output) \in WireExecution
    BY <2>2, <2>3 DEF Execution, WireExecution
  <2>5. UNCHANGED <<capabilities, boxes, transforms, adapters, evidence, plans, assemblies, runs,
                    stage, handler>>
    BY <1>9 DEF ExecuteWire
  <2> QED
    BY <2>1, <2>4, <2>5, HandlersStay, ExecutionsStay DEF TypeInv, TypeOK
<1>10. ASSUME NEW t \in Threads, NEW a \in assemblies, NEW input \in Inputs,
              NEW context \in Contexts, BeginAssembly(t, a, input, context)
       PROVE  TypeInv'
  <2>1. PICK payload \in BoxOutput(boxes, a.connection_plan_refs[1].from_box_ref,
                                  a.connection_plan_refs[1].from_operation, input) :
          Become(t, Running(a, input, context, payload, <<>>))
    BY <1>10 DEF BeginAssembly
  <2>2. a.connection_plan_refs[1] \in plans
    BY DEF TypeInv, TypeOK, AssemblyDefinition, RunInv
  <2>3. a.connection_plan_refs[1].from_operation \in OperationIds
    BY <1>0, <2>2 DEF TypeOK, ConnectionPlan
  <2>4. input \in SUBSET Fields
    BY RowsAssumption
  <2>5. payload \in SUBSET Fields
    BY <1>0, <2>1, <2>3, <2>4, TypedBoxOutput
  <2>6. UNCHANGED <<capabilities, boxes, transforms, adapters, evidence, plans, assemblies, wires,
                    runs, stage>>
    BY <1>10 DEF BeginAssembly
  <2>7. Running(a, input, context, payload, <<>>) \in Request'
    BY <2>5, <2>6 DEF Running, Request
  <2>8. /\ DOMAIN handler' = Threads /\ handler' = [u \in Threads |-> handler'[u]]
        /\ \A u \in Threads : handler'[u] \in Request'
    BY <2>1, <2>6, <2>7, HandlersBecome
  <2> QED
    BY <2>6, <2>8, ExecutionsStay DEF TypeInv, TypeOK
<1>11. ASSUME NEW t \in Threads, RunWire(t) PROVE TypeInv'
  <2>1. PICK h : h = handler[t]
    OBVIOUS
  <2>2. PICK output \in Outputs(NextPlan(h), h.payload, h.context) :
          /\ wires' = wires \cup {Execution(NextPlan(h), h.context, h.payload, output)}
          /\ Become(t, Running(h.assembly, h.input, h.context, output,
                  Append(h.results, Execution(NextPlan(h), h.context, h.payload, output))))
    BY <1>11, <2>1 DEF RunWire
  <2>3. /\ h.pc = "run" /\ h.assembly \in assemblies /\ h.input \in Inputs
        /\ h.context \in Contexts /\ h.payload \in SUBSET Fields /\ h.results \in Seq(wires)
    BY <1>11, <2>1 DEF RunWire, TypeInv, TypeOK, Request, Idle, Planning, Promoting
  <2>4. NextPlan(h) \in plans
    BY <1>11, <2>1, <2>3 DEF RunWire, WiresLeft, NextPlan, TypeInv, TypeOK, AssemblyDefinition
  <2>5. output \in SUBSET Fields
    BY <1>0, <2>3, <2>4, TypedOutput
  <2> DEFINE wire == Execution(NextPlan(h), h.context, h.payload, output)
  <2>6. wire \in WireExecution
    BY <2>3, <2>4, <2>5 DEF Execution, WireExecution
  <2>7. UNCHANGED <<capabilities, boxes, transforms, adapters, evidence, plans, assemblies, runs,
                    stage>>
    BY <1>11 DEF RunWire
  <2> HIDE DEF wire
  <2>8. Append(h.results, wire) \in Seq(wires')
    BY <2>2, <2>3 DEF wire
  <2>9. Running(h.assembly, h.input, h.context, output, Append(h.results, wire)) \in Request'
    BY <2>3, <2>5, <2>7, <2>8 DEF Running, Request
  <2>10. /\ DOMAIN handler' = Threads /\ handler' = [u \in Threads |-> handler'[u]]
         /\ \A u \in Threads : handler'[u] \in Request'
    BY <2>2, <2>7, <2>9, HandlersBecome DEF wire
  <2> QED
    BY <2>2, <2>6, <2>7, <2>10, ExecutionsStay DEF TypeInv, TypeOK, wire
<1>12. ASSUME NEW t \in Threads, FailWire(t) \/ Crash(t) PROVE TypeInv'
  <2>1. /\ Become(t, Idle) /\ Idle \in Request'
        /\ UNCHANGED <<capabilities, boxes, transforms, adapters, evidence, plans, assemblies,
                       wires, runs, stage>>
    BY <1>12 DEF FailWire, Crash, Request
  <2>2. /\ DOMAIN handler' = Threads /\ handler' = [u \in Threads |-> handler'[u]]
        /\ \A u \in Threads : handler'[u] \in Request'
    BY <2>1, HandlersBecome
  <2> QED
    BY <2>1, <2>2, ExecutionsStay DEF TypeInv, TypeOK
<1>13. ASSUME NEW t \in Threads, RecordRun(t) PROVE TypeInv'
  <2>1. RunOf(handler[t]) \in AssemblyExecution
    BY <1>13 DEF RecordRun, RunOf, AssemblyExecution, TypeInv, TypeOK, Request, Idle, Planning,
       Promoting
  <2>2. /\ Become(t, Idle) /\ Idle \in Request' /\ runs' = runs \cup {RunOf(handler[t])}
        /\ UNCHANGED <<capabilities, boxes, transforms, adapters, evidence, plans, assemblies,
                       wires, stage>>
    BY <1>13 DEF RecordRun, Request
  <2>3. /\ DOMAIN handler' = Threads /\ handler' = [u \in Threads |-> handler'[u]]
        /\ \A u \in Threads : handler'[u] \in Request'
    BY <2>2, HandlersBecome
  <2> QED
    BY <2>1, <2>2, <2>3, ExecutionsStay DEF TypeInv, TypeOK
<1>14. ASSUME NEW p \in Proposals, Propose(p) PROVE TypeInv'
  BY <1>14, HandlersStay, ExecutionsStay DEF Propose, TypeInv, TypeOK
<1>15. ASSUME NEW t \in Threads, NEW p \in Proposals, Promote(t, p) PROVE TypeInv'
  <2>1. PICK r \in {Idle, Promoting("box", p), Promoting("stage", p)} : Become(t, r)
    BY <1>15 DEF Promote, PromoteCapability, PromoteBox, FailPromotion, CommitStage
  <2>2. UNCHANGED <<transforms, adapters, evidence, plans, assemblies, wires, runs>>
    BY <1>15 DEF Promote, PromoteCapability, PromoteBox, FailPromotion, CommitStage
  <2>3. r \in Request'
    BY <2>1 DEF Request
  <2>4. /\ DOMAIN handler' = Threads /\ handler' = [u \in Threads |-> handler'[u]]
        /\ \A u \in Threads : handler'[u] \in Request'
    BY <2>1, <2>2, <2>3, HandlersBecome
  <2>5. /\ capabilities' \subseteq CapabilityRows \cup {q.capability : q \in Proposals}
        /\ boxes' \subseteq BoxRows \cup {q.smart_box : q \in Proposals}
        /\ \A c, d \in capabilities' : c.capability_ref = d.capability_ref => c = d
        /\ \A b, c \in boxes' : b.box_ref = c.box_ref => b = c
        /\ stage' \in [Proposals -> {"NONE", "DRAFT", "VERIFIED", "PROMOTED"}]
    BY <1>0, <1>15 DEF Promote, PromoteCapability, PromoteBox, FailPromotion, CommitStage,
       NewCapability, NewBox, TypeOK
  <2> QED
    BY <2>2, <2>4, <2>5, ExecutionsStay DEF TypeInv, TypeOK
<1>16. CASE UNCHANGED vars
  BY <1>16, HandlersStay, ExecutionsStay DEF vars, TypeInv, TypeOK
<1> QED
  BY <1>1, <1>2, <1>3, <1>4, <1>5, <1>6, <1>7, <1>8, <1>9, <1>10, <1>11, <1>12, <1>13, <1>14,
     <1>15, <1>16 DEF Next

\* TypeOK, for all rows, requests and handlers.
THEOREM TypeCorrect == Spec => []TypeOK
<1>1. TypeInv => TypeOK
  BY DEF TypeInv
<1> QED
  BY <1>1, TypeInit, TypeStep, RunInit, RunStep, PTL DEF Spec
=============================================================================
