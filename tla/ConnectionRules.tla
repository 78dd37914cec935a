--------------------------- MODULE ConnectionRules ---------------------------
(***************************************************************************)
(* How the runtime answers whether the output of one capability can be     *)
(* connected to another, and what a box or a wire makes of a payload.      *)
(* Every operator is a pure function of the rows it is given.  Rows have   *)
(* the columns that are read; a question with at most one answer is a set. *)
(***************************************************************************)
EXTENDS Naturals, Sequences

\* A connection request that leaves the choice of a box to the runtime; the others name
\* one.  Boxes are numbered in the order of (box_id, box_version).
AnyBox == 0

Serving(boxes, capability_ref) ==
  {b \in boxes : b.capability_ref = capability_ref /\ b.lifecycle_state = "ACTIVE"}

\* _pick_box
PickBox(boxes, capability_ref, requested) ==
  LET serving == Serving(boxes, capability_ref)
  IN  IF requested = AnyBox
      THEN {b \in serving : \A c \in serving : b.box_ref <= c.box_ref}
      ELSE {b \in serving : b.box_ref = requested}

Operations(c) == {c.operations[i] : i \in DOMAIN c.operations}

\* _capability, _operation: the first of its name.
OperationAt(capabilities, capability_ref, operation) ==
  UNION {{c.operations[i] : i \in {j \in DOMAIN c.operations :
            /\ c.operations[j].operation_id = operation
            /\ \A k \in 1..(j - 1) : c.operations[k].operation_id # operation}} :
         c \in {row \in capabilities :
            row.capability_ref = capability_ref /\ row.lifecycle_state = "ACTIVE"}}

\* The operations and the boxes that a request is about.
Ends(capabilities, boxes, req) ==
  {[source |-> s, target |-> d, from |-> f, to |-> g] :
     s \in OperationAt(capabilities, req.from_capability, req.from_operation),
     d \in OperationAt(capabilities, req.to_capability, req.to_operation),
     f \in PickBox(boxes, req.from_capability, req.from_box_ref),
     g \in PickBox(boxes, req.to_capability, req.to_box_ref)}

-----------------------------------------------------------------------------
\* evaluate_compatibility.  What an operation needs are its permissions, its security tags
\* and its policies; constraints are pairs of a key and a value.

SemanticsAgree(s, d) == d.input_semantics \subseteq s.output_semantics

ContractsAgree(s, d) ==
  d.input_contract_refs = {} \/ s.output_contract_refs \cap d.input_contract_refs # {}

ConstraintsAgree(s, d) ==
  \A c \in s.constraints, e \in d.constraints : c[1] = e[1] => c[2] = e[2]

\* find_transform
Transforms(t, s, d) ==
  /\ t.lifecycle_state = "ACTIVE"
  /\ t.from_contract_ref \in s.output_contract_refs
  /\ t.to_contract_ref \in d.input_contract_refs

\* find_adapter
Adapts(a, from, to) ==
  /\ a.lifecycle_state = "ACTIVE"
  /\ a.source_runtime_type = from.runtime_type
  /\ a.target_runtime_type = to.runtime_type
  /\ \/ a.capability_scope = {}
     \/ a.capability_scope \cap {from.capability_ref, to.capability_ref} # {}

\* Nothing is required of what agrees; of what does not, any registered bridge will do.
Required(agree, bridges) ==
  IF agree \/ bridges = {} THEN {{}} ELSE {{b} : b \in bridges}

\* What the evaluation may find: the query for a bridge has no order.
Evaluations(capabilities, boxes, transforms, adapters, req) ==
  UNION {
    LET schema   == ContractsAgree(e.source, e.target)
        runtime  == e.from.runtime_type = e.to.runtime_type
        mappings == {t.transform_ref : t \in {row \in transforms :
                       Transforms(row, e.source, e.target)}}
        routes   == {a.adapter_ref : a \in {row \in adapters : Adapts(row, e.from, e.to)}}
    IN  {[compatible |-> /\ SemanticsAgree(e.source, e.target)
                         /\ ConstraintsAgree(e.source, e.target)
                         /\ e.target.needs \subseteq req.context
                         /\ schema \/ mappings # {}
                         /\ runtime \/ routes # {},
          transformation_refs |-> ts, adapter_refs |-> as] :
           ts \in Required(schema, mappings), as \in Required(runtime, routes)}
    : e \in Ends(capabilities, boxes, req)}

-----------------------------------------------------------------------------
\* Payloads are the sets of their fields.  A handler or a transform that is given less
\* than it takes fails.

\* _execute_box, for the binding of an operation
Handled(h, payload) ==
  CASE h.handler_ref = "identity"        -> {payload}
    [] h.handler_ref = "map-fields"      -> IF h.takes \subseteq payload THEN {h.gives} ELSE {}
    [] h.handler_ref = "merge-constants" -> {payload \cup h.gives}
    [] OTHER                             -> {}

Bound(b) ==
  {op \in DOMAIN b.operation_bindings : b.operation_bindings[op].handler_ref # "none"}

BoxOutput(boxes, box_ref, operation, payload) ==
  UNION {Handled(b.operation_bindings[operation], payload) : b \in {row \in boxes :
           row.box_ref = box_ref /\ row.lifecycle_state = "ACTIVE"}}

\* _apply_transform, for the at most one transform of a plan
Transformed(transforms, refs, payload) ==
  IF refs = {} THEN {payload}
  ELSE {t.gives : t \in {row \in transforms :
          /\ row.transform_ref \in refs /\ row.lifecycle_state = "ACTIVE"
          /\ row.takes \subseteq payload}}

AdaptersAvailable(adapters, refs) ==
  \A ref \in refs : \E a \in adapters :
    a.adapter_ref = ref /\ a.lifecycle_state = "ACTIVE"

\* execute_wire: what a plan makes of a payload, if it may run in the context.
WireOutput(boxes, transforms, adapters, plan, payload, context) ==
  {output \in UNION {BoxOutput(boxes, plan.to_box_ref, plan.to_operation, q) :
       q \in Transformed(transforms, plan.transformation_refs, payload)} :
     plan.needs \subseteq context /\ AdaptersAvailable(adapters, plan.adapter_refs)}
=============================================================================
