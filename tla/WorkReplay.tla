----------------------------- MODULE WorkReplay -----------------------------
(***************************************************************************)
(* replay_work: the three trace tables of a work are read, put together by *)
(* the time of each row, and answered as one responsibility chain.  Rows   *)
(* with the same time come in the order of their event types, which puts   *)
(* the handover of a refusal before the refusal itself: both rows carry    *)
(* the time at which _block_and_handover began.                            *)
(***************************************************************************)
EXTENDS WorkRefinement, FiniteSetsExt

\* The time of the i-th committed row.  Requests one after the other have times of their
\* own; the handover of a refusal has the refusal's.
Stamp(w, i) == IF PaysRefusal(trace[w], i) THEN i - 1 ELSE i

\* The alphabetical order of the event types.
TypeOrder == [HANDOVER |-> 1, TASK |-> 2, TRANSITION |-> 3]

\* Mutant: rows with the same time are answered in the order they were committed.
CommittedBefore(w, i, j) == i < j

ReplayedBefore(w, i, j) ==
  \/ Stamp(w, i) < Stamp(w, j)
  \/ Stamp(w, i) = Stamp(w, j)
     /\ TypeOrder[trace[w][i].event] < TypeOrder[trace[w][j].event]

\* state_from and state_to of an item; a task has neither.
Item(r) ==
  IF IsTask(r) THEN [event |-> r.event, from |-> "NONE", to |-> "NONE"]
  ELSE [event |-> r.event, from |-> LinkOf(r).from, to |-> LinkOf(r).to]

\* The rows that the replay answers before the i-th.
RowsBefore(w, i) == {j \in DOMAIN trace[w] : ReplayedBefore(w, j, i)}

\* WorkReplayResult.responsibility_chain: the k-th item has k - 1 before it.
ReplayOf(w) ==
  [k \in DOMAIN trace[w] |->
     Item(trace[w][CHOOSE i \in DOMAIN trace[w] : Cardinality(RowsBefore(w, i)) = k - 1])]

\* replay_complete: an E3 approval of the chain names its authority and signature.
ReplayComplete(w) ==
  ContractOf[w].execution_class = "E3" =>
    \A i \in DOMAIN trace[w] :
      IsApplied(trace[w][i]) /\ trace[w][i].to_state = "APPROVED" =>
        trace[w][i].authority_ref # "none" /\ trace[w][i].signature_ref # "none"

\* The state in which the first k items of a replay leave the work.
StateAfter(items, k) ==
  LET moves == {j \in 1 .. k : items[j].event # "TASK"}
  IN  IF moves = {} THEN "CREATED" ELSE items[Max(moves)].to

\* A contract whose approval asks for an authority and a signature.
FullyApproved(c) ==
  /\ HumanPoints(c) # {}
  /\ FirstHumanPoint(c).required_authority_action
  /\ FirstHumanPoint(c).signature_required

(***************************************************************************)
(* The replay of a work explains its state, when its requests come one     *)
(* after the other: read from CREATED, every item starts where the items   *)
(* before it ended, except that a refusal comes right after the handover   *)
(* it caused and starts where that started; the last item ends in the      *)
(* current state; and the replay is complete whenever the contract asks    *)
(* for all that completeness looks at.                                     *)
(***************************************************************************)
ReplayExplainsState ==
  Quiescent => \A w \in Works :
    LET items == ReplayOf(w)
    IN  /\ \A k \in DOMAIN items :
             \/ items[k].event = "TASK"
             \/ items[k].from = StateAfter(items, k - 1)
             \/ /\ k > 1
                /\ items[k].event = "TRANSITION" /\ items[k].to = "BLOCKED"
                /\ items[k - 1].event = "HANDOVER"
                /\ items[k].from = items[k - 1].from
        /\ state[w] # "NONE" => state[w] = StateAfter(items, Len(trace[w]))
        /\ FullyApproved(ContractOf[w]) => ReplayComplete(w)
=============================================================================
