------------------------- MODULE MCCapabilityRuntime -------------------------
(***************************************************************************)
(* Capabilities, boxes and requests of CapabilityRuntime for TLC: the       *)
(* retrieval of a programme, its summary and the publication of that.      *)
(***************************************************************************)
EXTENDS CapabilityRuntime, TLC

Op(id, input, output, accepts, emits, constraints, needs) ==
  [operation_id |-> id, input_semantics |-> input, output_semantics |-> output,
   input_contract_refs |-> accepts, output_contract_refs |-> emits,
   constraints |-> constraints, needs |-> needs]

Capability(ref, op) ==
  [capability_ref |-> ref, domain |-> "education", operations |-> <<op>>,
   lifecycle_state |-> "ACTIVE"]

Box(ref, capability, runtime, op, kind, takes, gives) ==
  [box_ref |-> ref, capability_ref |-> capability, runtime_type |-> runtime,
   operation_bindings |->
     [o \in OperationIds |->
        IF o = op THEN [handler_ref |-> kind, takes |-> takes, gives |-> gives]
        ELSE [handler_ref |-> "none", takes |-> {}, gives |-> {}]],
   lifecycle_state |-> "ACTIVE"]

Language == <<"language", "vi">>
Short    == <<"length", "short">>
Long     == <<"length", "long">>

TheConstraints == {Language, Short, Long}

Retrieve  == Capability("programmes", Op("retrieve", {}, {"programme"}, {}, {"record"}, {Language}, {}))
Publish   == Capability("publications", Op("publish", {"brief"}, {}, {"text"}, {}, {Short}, {}))
Summarize == Capability("summaries",
                        Op("summarize", {"programme"}, {"brief"}, {"text"}, {"text"},
                           {Language, Short}, {"read"}))

TheCapabilities == {Retrieve, Publish}

\* One provider of the summary comes first and is in another runtime.
RetrieveBox    == Box(1, "programmes", "python", "retrieve", "identity", {}, {})
JavaSummary    == Box(2, "summaries", "java", "summarize", "map-fields", {"title"}, {"title"})
PythonSummary  == Box(3, "summaries", "python", "summarize", "merge-constants", {}, {"brief"})
PublishBox     == Box(4, "publications", "python", "publish", "map-fields", {"brief"}, {"page"})

TheBoxes == {RetrieveBox, JavaSummary, PublishBox}

\* The summary comes from either of two candidates.  The second needs nothing, and is too
\* long to be published.
Candidate(id, capability, box) ==
  [candidate_id |-> id, capability |-> capability, smart_box |-> box, complete |-> TRUE]

TheProposals ==
  {Candidate("one", Summarize, PythonSummary),
   Candidate("two", [Summarize EXCEPT !.operations[1].needs = {},
                                      !.operations[1].constraints = {Language, Long}],
             JavaSummary)}

ToText ==
  [transform_ref |-> "to_text", from_contract_ref |-> "record", to_contract_ref |-> "text",
   takes |-> {"title"}, gives |-> {"title"}, lifecycle_state |-> "ACTIVE"]

ToJava ==
  [adapter_ref |-> "to_java", source_runtime_type |-> "python",
   target_runtime_type |-> "java", capability_scope |-> {}, lifecycle_state |-> "ACTIVE"]

TheTransforms == {ToText}
TheAdapters   == {ToJava}

Connect(from, op, to, target, from_box, to_box) ==
  [from_capability |-> from, from_operation |-> op, to_capability |-> to,
   to_operation |-> target, from_box_ref |-> from_box, to_box_ref |-> to_box,
   context |-> {"read"}]

TheRequests ==
  {Connect("programmes", "retrieve", "summaries", "summarize", AnyBox, AnyBox),
   Connect("programmes", "retrieve", "summaries", "summarize", 1, 2),
   Connect("summaries", "summarize", "publications", "publish", AnyBox, AnyBox)}

ThreadSymmetry == Permutations(Threads)
=============================================================================
