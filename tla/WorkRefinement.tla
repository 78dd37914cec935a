--------------------------- MODULE WorkRefinement ---------------------------
(***************************************************************************)
(* WorkRuntime with one thread and no crash implements GovernedWork.       *)
(*                                                                         *)
(* A move takes effect when update_work_state commits, so the record that  *)
(* the running handler committed just before is not part of the chain yet. *)
(* The handover record that follows a refusal pays what the refusal owes;  *)
(* one that an actor asked for is a link of the chain.                     *)
(***************************************************************************)
EXTENDS WorkRuntime

\* Of a sequence of records: the i-th is the handover of the refusal before it.
PaysRefusal(records, i) ==
  IsHandover(records[i]) /\ i > 1 /\ IsRefusal(records[i - 1])

IsLink(records, i) == ~IsTask(records[i]) /\ ~PaysRefusal(records, i)

LinkOf(r) ==
  IF IsHandover(r)
    THEN [from |-> r.from_state, to |-> "BLOCKED", by |-> "SYSTEM"]
    ELSE [from |-> r.from_state, to |-> r.to_state, by |-> r.actor_kind]

\* The handler of w has committed a record whose state it has not written.
Unpublished(w) ==
  \E t \in Threads :
    /\ handler[t].step \in {"write_state", "write_blocked", "write_handed_over"}
    /\ handler[t].work = w

\* The links among the first n records.
LinksTo(records, n) ==
  LET links[i \in 0 .. n] ==
        IF i = 0 THEN <<>>
        ELSE IF IsLink(records, i) THEN Append(links[i - 1], LinkOf(records[i]))
        ELSE links[i - 1]
  IN  links[n]

ChainOf(w) ==
  LinksTo(trace[w], IF Unpublished(w) THEN Len(trace[w]) - 1 ELSE Len(trace[w]))

OwedOf(w) ==
  \E t \in Threads :
    handler[t].step = "record_block_handover" /\ handler[t].work = w

Promise ==
  INSTANCE GovernedWork WITH
    HumanDecides <- {w \in Works : HumanPoints(ContractOf[w]) # {}},
    phase        <- state,
    chain        <- [w \in Works |-> ChainOf(w)],
    owed         <- [w \in Works |-> OwedOf(w)]

(***************************************************************************)
(* Every step of the sequential runtime is a step of GovernedWork or       *)
(* changes nothing that it promises: the chain links up without gaps, ends *)
(* in the current state, follows the transition table, has a human where   *)
(* the contract requires one, and nothing happens between a refusal and    *)
(* its handover.                                                           *)
(***************************************************************************)
ImplementsGovernedWork == Promise!ASpec
=============================================================================
