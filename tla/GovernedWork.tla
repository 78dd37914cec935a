---------------------------- MODULE GovernedWork ----------------------------
(***************************************************************************)
(* What the governed work runtime promises its users, with every request   *)
(* answered in one step.  A work moves along the transition table or is    *)
(* stopped in BLOCKED, a human decides where the contract says so, the     *)
(* responsibility chain is exactly the sequence of its moves, and a        *)
(* refused work is handed over before anything else happens to it.         *)
(*                                                                         *)
(* WorkRefinement shows that WorkRuntime keeps these promises with one     *)
(* thread and no crash.                                                    *)
(***************************************************************************)
EXTENDS WorkRules

CONSTANTS
  Works,         \* the work instances
  HumanDecides   \* the works whose contract has a human approval point

VARIABLES
  phase,   \* the state of each work, "NONE" before it is created
  chain,   \* the responsibility chain of each work
  owed     \* whether a refused work still waits for its handover

promised == <<phase, chain, owed>>

Link(from, to, by) == [from |-> from, to |-> to, by |-> by]

AInit ==
  /\ phase = [w \in Works |-> "NONE"]
  /\ chain = [w \in Works |-> <<>>]
  /\ owed  = [w \in Works |-> FALSE]

Create(w) ==
  /\ phase[w] = "NONE"
  /\ phase' = [phase EXCEPT ![w] = "CREATED"]
  /\ UNCHANGED <<chain, owed>>

\* The work goes to state s on behalf of an actor of the given kind.
Advance(w, s, kind) ==
  /\ phase[w] # "NONE" /\ ~owed[w]
  /\ phase' = [phase EXCEPT ![w] = s]
  /\ chain' = [chain EXCEPT ![w] = Append(@, Link(phase[w], s, kind))]

Move(w, s, kind) ==
  /\ s \in AllowedTransitions[phase[w]]
  /\ s = "APPROVED" /\ w \in HumanDecides => kind = "HUMAN"
  /\ Advance(w, s, kind)
  /\ UNCHANGED owed

\* A request the rules refuse stops the work, whatever state it is in.
Refuse(w) ==
  /\ Advance(w, "BLOCKED", "SYSTEM")
  /\ owed' = [owed EXCEPT ![w] = TRUE]

HandOver(w) ==
  /\ owed[w]
  /\ owed' = [owed EXCEPT ![w] = FALSE]
  /\ UNCHANGED <<phase, chain>>

\* A handover an actor asks for.
Stop(w) ==
  /\ Advance(w, "BLOCKED", "SYSTEM")
  /\ UNCHANGED owed

ANext ==
  \E w \in Works :
    \/ Create(w)
    \/ phase[w] # "NONE" /\ \E s \in WorkState, kind \in ActorKind : Move(w, s, kind)
    \/ Refuse(w)
    \/ HandOver(w)
    \/ Stop(w)

ASpec == AInit /\ [][ANext]_promised
=============================================================================
