--------------------------- MODULE DecisionReplay ---------------------------
(***************************************************************************)
(* The replay of a recorded decision, replay_decision: from the tables as  *)
(* they are now it puts together the policy version, roles, competences    *)
(* and authority that were in force at the decision's effective time.      *)
(* Every row carries two times: the effective times its client gives it,   *)
(* in the past or the future, and the time it was recorded.  Rows are only *)
(* added.  A replay commits nothing, so it is an operator on the tables.   *)
(*                                                                         *)
(* The recorded time of a decision or a lifecycle transition is given by   *)
(* its client, which is taken to write the present.  Provenance, events    *)
(* and the delegation, which a replay lists as they are, are left out.     *)
(***************************************************************************)
EXTENDS AuthorityRules, FiniteSets, TLAPS

CONSTANTS
  Subjects, Authorities, PolicyIds, DecisionIds, Names,
  \* The rows clients may post, without the time they are recorded:
  PolicyRows, RoleRows, CompetenceRows, DecisionRows, TransitionRows,
  MaxCommits           \* bound: how many rows are recorded

Lifecycle == {"ACTIVE", "DRAFT", "SUPERSEDED", "ARCHIVED", "REVOKED"}

PolicyRow ==
  [policy_id: PolicyIds, lifecycle_state: Lifecycle, effective_from: Nat,
   effective_to: Nat]

\* A role assignment or a competence assertion of a subject.
SubjectRow ==
  [subject_ref: Subjects, ref: Names, lifecycle_state: Lifecycle,
   validation_state: {"VALIDATED", "OTHER"}, effective_from: Nat, effective_to: Nat]

DecisionRow ==
  [decision_id: DecisionIds, subject_ref: Subjects, authority_ref: Authorities,
   policy_ref: PolicyIds, effective_time: Nat]

TransitionRow == [object_ref: DecisionIds, to_state: Lifecycle, effective_time: Nat]

ASSUME RowsAssumption ==
  /\ PolicyRows \subseteq PolicyRow
  /\ RoleRows \subseteq SubjectRow
  /\ CompetenceRows \subseteq SubjectRow
  /\ DecisionRows \subseteq DecisionRow
  /\ TransitionRows \subseteq TransitionRow

ASSUME CommitsBound == MaxCommits \in Nat

VARIABLES
  policies, roles, competences, authorities, decisions, transitions,  \* the tables
  now                                                                 \* the clock

vars == <<policies, roles, competences, authorities, decisions, transitions, now>>

\* A row of a table: what the client posted and when it was recorded.
Recorded(rows) == [row: rows, recorded_at: Nat]

\* Type correctness: rows are those posted, recorded in the past; one decision per id.
TypeOK ==
  /\ policies \subseteq Recorded(PolicyRows)
  /\ roles \subseteq Recorded(RoleRows)
  /\ competences \subseteq Recorded(CompetenceRows)
  /\ authorities \subseteq Authorities
  /\ decisions \subseteq Recorded(DecisionRows)
  /\ transitions \subseteq Recorded(TransitionRows)
  /\ now \in Nat
  /\ \A r \in policies \cup roles \cup competences \cup decisions \cup transitions :
       r.recorded_at < now
  /\ \A d, e \in decisions : d.row.decision_id = e.row.decision_id => d = e

Init ==
  /\ policies = {} /\ roles = {} /\ competences = {} /\ authorities = {}
  /\ decisions = {} /\ transitions = {}
  /\ now = 1

-----------------------------------------------------------------------------
\* Commits

Stamp(row) == [row |-> row, recorded_at |-> now]

Tick == now <= MaxCommits /\ now' = now + 1

AddPolicy(row) ==
  /\ Tick /\ policies' = policies \cup {Stamp(row)}
  /\ UNCHANGED <<roles, competences, authorities, decisions, transitions>>

AddRole(row) ==
  /\ Tick /\ roles' = roles \cup {Stamp(row)}
  /\ UNCHANGED <<policies, competences, authorities, decisions, transitions>>

AddCompetence(row) ==
  /\ Tick /\ competences' = competences \cup {Stamp(row)}
  /\ UNCHANGED <<policies, roles, authorities, decisions, transitions>>

AddAuthority(id) ==
  /\ id \notin authorities
  /\ Tick /\ authorities' = authorities \cup {id}
  /\ UNCHANGED <<policies, roles, competences, decisions, transitions>>

\* Neither the policy nor the authority of a decision has to exist.
AddDecision(row) ==
  /\ \A d \in decisions : d.row.decision_id # row.decision_id
  /\ Tick /\ decisions' = decisions \cup {Stamp(row)}
  /\ UNCHANGED <<policies, roles, competences, authorities, transitions>>

AddLifecycleTransition(row) ==
  /\ Tick /\ transitions' = transitions \cup {Stamp(row)}
  /\ UNCHANGED <<policies, roles, competences, authorities, decisions>>

Next ==
  \/ \E row \in PolicyRows : AddPolicy(row)
  \/ \E row \in RoleRows : AddRole(row)
  \/ \E row \in CompetenceRows : AddCompetence(row)
  \/ \E id \in Authorities : AddAuthority(id)
  \/ \E row \in DecisionRows : AddDecision(row)
  \/ \E row \in TransitionRows : AddLifecycleTransition(row)

Spec == Init /\ [][Next]_vars

-----------------------------------------------------------------------------
\* The replay

\* The order of applicable_policy: by effective_from, then by recorded_at.
Newer(p, q) ==
  \/ p.row.effective_from > q.row.effective_from
  \/ p.row.effective_from = q.row.effective_from /\ p.recorded_at > q.recorded_at

Newest(rows) == {p \in rows : \A q \in rows : ~Newer(q, p)}

Versions(id) ==
  {p \in policies : p.row.policy_id = id
                    /\ p.row.lifecycle_state \in {"ACTIVE", "SUPERSEDED", "ARCHIVED"}}

\* Mutant: the current version is used whatever the time of the decision.
CurrentPolicy(id, at) == Newest(Versions(id))

\* Mutant: the newest version is looked up first and then its period.
CurrentPolicyIfActive(id, at) == {p \in Newest(Versions(id)) : ActivePeriod(p.row, at)}

\* applicable_policy: the version of policy id at that time, or none.
ApplicablePolicy(id, at) == Newest({p \in Versions(id) : ActivePeriod(p.row, at)})

RolesAt(subject, at) ==
  {r \in roles : r.row.subject_ref = subject /\ InForce(r.row, at)}

CompetencesAt(subject, at) ==
  {c \in competences :
     /\ c.row.subject_ref = subject /\ c.row.validation_state = "VALIDATED"
     /\ InForce(c.row, at)}

\* The transition with the latest effective and then recorded time, if there is one.
LastTransition(id) ==
  LET own == {x \in transitions : x.row.object_ref = id}
  IN  {x \in own : \A y \in own :
         \/ y.row.effective_time < x.row.effective_time
         \/ y.row.effective_time = x.row.effective_time /\ y.recorded_at <= x.recorded_at}

\* Whether a replay in this perspective, as of this time, answers; otherwise it is a 404.
Replayable(d, perspective, at) ==
  IF perspective = "AS_EFFECTIVE_AT" THEN d.row.effective_time <= at
                                     ELSE d.recorded_at <= at

\* What it answers does not depend on the perspective and its time.
Replay(d) ==
  [policy      |-> ApplicablePolicy(d.row.policy_ref, d.row.effective_time),
   roles       |-> RolesAt(d.row.subject_ref, d.row.effective_time),
   competences |-> CompetencesAt(d.row.subject_ref, d.row.effective_time),
   authority   |-> {d.row.authority_ref} \cap authorities,
   lifecycle   |-> LastTransition(d.row.decision_id)]

\* completeness_status
Complete(d) == Replay(d).policy # {} /\ Replay(d).authority # {}

-----------------------------------------------------------------------------
\* What a replay shows of the time of the decision.
History(d) ==
  [policy      |-> ApplicablePolicy(d.row.policy_ref, d.row.effective_time),
   roles       |-> RolesAt(d.row.subject_ref, d.row.effective_time),
   competences |-> CompetencesAt(d.row.subject_ref, d.row.effective_time)]

\* The rows that a step records.
Added == (policies' \ policies) \cup (roles' \ roles) \cup (competences' \ competences)

\* History does not move: what a replay shows of the policy, roles and competences of a
\* decision changes only when a row that was in force at the time of the decision is
\* recorded late, never by what becomes effective later.
HistoryKept ==
  \A d \in decisions : History(d)' # History(d) =>
    \E r \in Added : ActivePeriod(r.row, d.row.effective_time)

\* The same as a property of every step (replay_decision).
OnlyLateRowsChangeReplay == [][HistoryKept]_vars

CompleteKept == \A d \in decisions : Complete(d) => Complete(d)'

\* A decision that could be replayed completely can be forever (replay_decision).
CompleteReplayStays == [][CompleteKept]_vars

\* A replay as of a time shows that time: as known then, only what had been recorded by
\* then; as effective then, the lifecycle state that had taken effect by then.
ReplayShowsItsTime ==
  \A d \in decisions : \A at \in 0 .. now - 1 :
    /\ Replayable(d, "AS_KNOWN_AT", at) =>
         \A r \in Replay(d).policy \cup Replay(d).roles \cup Replay(d).competences :
           r.recorded_at <= at
    /\ Replayable(d, "AS_EFFECTIVE_AT", at) =>
         \A x \in Replay(d).lifecycle : x.row.effective_time <= at

-----------------------------------------------------------------------------
\* Theorems, for every set of rows and any number of commits

-----------------------------------------------------------------------------
\* Type correctness

LEMMA TypeInit == Init => TypeOK
BY DEF Init, TypeOK

LEMMA TypeStep == TypeOK /\ [Next]_vars => TypeOK'
<1> SUFFICES ASSUME TypeOK, [Next]_vars PROVE TypeOK'
  OBVIOUS
<1>0. \A rows, row : row \in rows => Stamp(row) \in Recorded(rows)
  BY DEF TypeOK, Stamp, Recorded
<1>1. ASSUME NEW row \in PolicyRows, AddPolicy(row) PROVE TypeOK'
  BY <1>0, <1>1 DEF TypeOK, AddPolicy, Tick, Stamp, Recorded
<1>2. ASSUME NEW row \in RoleRows, AddRole(row) PROVE TypeOK'
  BY <1>0, <1>2 DEF TypeOK, AddRole, Tick, Stamp, Recorded
<1>3. ASSUME NEW row \in CompetenceRows, AddCompetence(row) PROVE TypeOK'
  BY <1>0, <1>3 DEF TypeOK, AddCompetence, Tick, Stamp, Recorded
<1>4. ASSUME NEW id \in Authorities, AddAuthority(id) PROVE TypeOK'
  BY <1>4 DEF TypeOK, AddAuthority, Tick, Recorded
<1>5. ASSUME NEW row \in DecisionRows, AddDecision(row) PROVE TypeOK'
  BY <1>0, <1>5 DEF TypeOK, AddDecision, Tick, Stamp, Recorded
<1>6. ASSUME NEW row \in TransitionRows, AddLifecycleTransition(row) PROVE TypeOK'
  BY <1>0, <1>6 DEF TypeOK, AddLifecycleTransition, Tick, Stamp, Recorded
<1>7. CASE UNCHANGED vars
  BY <1>7 DEF TypeOK, vars
<1>8. QED
  BY <1>1, <1>2, <1>3, <1>4, <1>5, <1>6, <1>7 DEF Next

(***************************************************************************)
(* Type correctness for every set of rows: rows are posted ones, recorded  *)
(* before now, and a decision is recorded once.                            *)
(***************************************************************************)
THEOREM TypeCorrect == Spec => []TypeOK
BY TypeInit, TypeStep, PTL DEF Spec

-----------------------------------------------------------------------------
\* History does not move

LEMMA TablesGrow ==
  ASSUME [Next]_vars
  PROVE  /\ policies \subseteq policies' /\ roles \subseteq roles'
         /\ competences \subseteq competences' /\ authorities \subseteq authorities'
BY DEF Next, AddPolicy, AddRole, AddCompetence, AddAuthority, AddDecision,
       AddLifecycleTransition, vars

(***************************************************************************)
(* For every set of rows: a step that changes the policy, roles or         *)
(* competences a decision is replayed with records a row that was in force *)
(* at the decision's effective time (replay_decision, applicable_policy,   *)
(* active_roles, active_competences).                                      *)
(***************************************************************************)
THEOREM HistoryStands == Spec => OnlyLateRowsChangeReplay
<1>1. ASSUME [Next]_vars, NEW d \in decisions,
             \A r \in Added : ~ActivePeriod(r.row, d.row.effective_time)
      PROVE  History(d)' = History(d)
  <2> DEFINE at == d.row.effective_time
  <2>1. /\ \A r \in policies' : ActivePeriod(r.row, at) => r \in policies
        /\ \A r \in roles' : ActivePeriod(r.row, at) => r \in roles
        /\ \A r \in competences' : ActivePeriod(r.row, at) => r \in competences
    BY <1>1, TablesGrow DEF Added
  <2>2. {p \in Versions(d.row.policy_ref) : ActivePeriod(p.row, at)}'
          = {p \in Versions(d.row.policy_ref) : ActivePeriod(p.row, at)}
    BY <1>1, <2>1, TablesGrow DEF Versions
  <2>3. ApplicablePolicy(d.row.policy_ref, at)' = ApplicablePolicy(d.row.policy_ref, at)
    BY <2>2 DEF ApplicablePolicy
  <2>4. RolesAt(d.row.subject_ref, at)' = RolesAt(d.row.subject_ref, at)
    BY <1>1, <2>1, TablesGrow DEF RolesAt, InForce
  <2>5. CompetencesAt(d.row.subject_ref, at)' = CompetencesAt(d.row.subject_ref, at)
    BY <1>1, <2>1, TablesGrow DEF CompetencesAt, InForce
  <2>6. QED
    BY <2>3, <2>4, <2>5 DEF History
<1>2. [Next]_vars => HistoryKept
  BY <1>1 DEF HistoryKept
<1>3. QED
  BY <1>2, PTL DEF Spec, OnlyLateRowsChangeReplay

-----------------------------------------------------------------------------
\* A complete replay stays complete

\* Recorded rows, with the times that Newer compares.
Timed(rows) == \A p \in rows : p.row.effective_from \in Nat /\ p.recorded_at \in Nat

\* A table that had a newest row has one when a row is added.
LEMMA NewestStays ==
  ASSUME NEW S, NEW p, Timed(S \cup {p}), Newest(S) # {}
  PROVE  Newest(S \cup {p}) # {}
<1>1. PICK n \in S : \A q \in S : ~Newer(q, n)
  BY DEF Newest
<1>2. CASE ~Newer(p, n)
  BY <1>1, <1>2 DEF Newest
<1>3. CASE Newer(p, n)
  <2>1. ASSUME NEW q \in S \cup {p}, Newer(q, p)
        PROVE  FALSE
    <3>1. Newer(q, n)
      BY <1>1, <1>3, <2>1 DEF Newer, Timed
    <3>2. q \in S
      BY <2>1 DEF Newer, Timed
    <3>3. QED
      BY <1>1, <3>1, <3>2
  <2>2. QED
    BY <2>1 DEF Newest
<1>4. QED
  BY <1>2, <1>3

(***************************************************************************)
(* For every set of rows: a decision that could once be replayed           *)
(* completely can be after every commit, whatever versions of its policy   *)
(* are recorded later (replay_decision, applicable_policy).                *)
(***************************************************************************)
THEOREM CompleteStays == Spec => CompleteReplayStays
<1>1. ASSUME TypeOK, [Next]_vars, NEW d \in decisions, Complete(d)
      PROVE  Complete(d)'
  <2> DEFINE id == d.row.policy_ref
             at == d.row.effective_time
             Candidates == {p \in Versions(id) : ActivePeriod(p.row, at)}
  <2>1. Newest(Candidates) # {} /\ {d.row.authority_ref} \cap authorities # {}
    BY <1>1 DEF Complete, Replay, ApplicablePolicy
  <2>2. {d.row.authority_ref} \cap authorities' # {}
    BY <1>1, <2>1, TablesGrow
  <2>3. Timed(policies')
    <3>1. TypeOK'
      BY <1>1, TypeStep
    <3>2. QED
      BY <3>1, RowsAssumption DEF TypeOK, Recorded, Timed, PolicyRow
  <2>4. Newest(Candidates') # {}
    <3>1. CASE policies' = policies
      BY <2>1, <3>1 DEF Versions
    <3>2. ASSUME NEW p, policies' = policies \cup {p}
          PROVE  Newest(Candidates') # {}
      <4>1. Candidates' = Candidates \/ Candidates' = Candidates \cup {p}
        BY <3>2 DEF Versions
      <4>2. Timed(Candidates')
        BY <2>3 DEF Timed, Versions
      <4> HIDE DEF Candidates
      <4>3. QED
        BY <2>1, <4>1, <4>2, NewestStays
    <3>3. policies' = policies \/ \E p : policies' = policies \cup {p}
      BY <1>1 DEF Next, AddPolicy, AddRole, AddCompetence, AddAuthority, AddDecision,
                  AddLifecycleTransition, vars
    <3>4. QED
      BY <3>1, <3>2, <3>3
  <2>5. QED
    BY <2>2, <2>4 DEF Complete, Replay, ApplicablePolicy
<1>2. TypeOK /\ [Next]_vars => CompleteKept
  BY <1>1 DEF CompleteKept
<1>3. QED
  BY <1>2, TypeCorrect, PTL DEF Spec, CompleteReplayStays
=============================================================================
