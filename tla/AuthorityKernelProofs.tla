------------------------ MODULE AuthorityKernelProofs ------------------------
(***************************************************************************)
(* Theorems about AuthorityKernel for every set of subjects, threads, rows *)
(* and requests.                                                           *)
(***************************************************************************)
EXTENDS AuthorityKernel, FiniteSetTheorems, WellFoundedInduction, TLAPS

-----------------------------------------------------------------------------
\* What the evaluation of authority owes to the rows it is given

\* A row that is added takes no competence away.
LEMMA CompetencesGrow ==
  ASSUME NEW C, NEW D, C \subseteq D, NEW req
  PROVE  ActiveCompetences(C, req) \subseteq ActiveCompetences(D, req)
BY DEF ActiveCompetences

\* Nor does a grant or a competence withdraw a standing grant.
LEMMA StandingGrow ==
  ASSUME NEW G, NEW H, G \subseteq H, NEW req, NEW C, NEW D, C \subseteq D
  PROVE  StandingGrants(G, req, C) \subseteq StandingGrants(H, req, D)
BY DEF StandingGrants, Confers

\* Nor do they invalidate a delegation or what it gives.
LEMMA DelegatesGrow ==
  ASSUME NEW G, NEW H, G \subseteq H, NEW req, NEW C, NEW D, C \subseteq D,
         NEW d, Delegates(G, d, req, C)
  PROVE  Delegates(H, d, req, D)
BY DEF Delegates, ValidDelegation, Confers

\* A delegation that matched goes on matching unless one of the new revocations is of it.
LEMMA MatchedGrow ==
  ASSUME NEW G, NEW H, G \subseteq H, NEW E, NEW F, E \subseteq F, NEW req,
         NEW C, NEW D, C \subseteq D, NEW R, NEW S,
         NEW d \in MatchedDelegations(G, E, R, req, C),
         d \notin MatchedDelegations(H, F, S, req, D)
  PROVE  \E r \in S \ R : r.delegation_id = d.delegation_id /\ r.effective_time <= req.at
<1>1. /\ d \in CurrentDelegations(F, req)
      /\ ~Revoked(R, d, req.at)
      /\ Delegates(G, d, req, C)
  BY DEF MatchedDelegations, CurrentDelegations
<1>2. Delegates(H, d, req, D)
  BY <1>1, DelegatesGrow
<1>3. Revoked(S, d, req.at)
  BY <1>1, <1>2 DEF MatchedDelegations
<1>4. QED
  BY <1>1, <1>3 DEF Revoked

\* Whatever effects were seen, one of the four is decided.
LEMMA EffectType ==
  ASSUME NEW P, NEW req
  PROVE  PolicyEffect(P, req) \in Effect
<1>1. \A seen : EffectSeen(seen) \in Effect
  BY DEF EffectSeen, Effect
<1>2. QED
  BY <1>1 DEF PolicyEffect

-----------------------------------------------------------------------------
\* Only a revocation withdraws a verdict

\* The tables only grow, and one commit changes one of them.
LEMMA TablesGrow ==
  ASSUME [Next]_vars
  PROVE  /\ competences \subseteq competences' /\ grants \subseteq grants'
         /\ delegations \subseteq delegations' /\ revocations \subseteq revocations'
<1>1. CASE Add
  BY <1>1 DEF Add, AddCompetence, AddAuthority, AddDelegation, RevokeDelegation, AddPolicy
<1>2. ASSUME NEW t \in Threads, Serve(t)
      PROVE  UNCHANGED tables
  BY <1>2 DEF Serve, BeginGate, ReadGrants, ReadDelegations, ReadPolicies, Release,
              ReadRevocations
<1>3. CASE UNCHANGED vars
  BY <1>3 DEF vars
<1>4. QED
  BY <1>1, <1>2, <1>3 DEF Next, tables

(***************************************************************************)
(* For every set of rows and requests: a verdict on a request turns from   *)
(* allowed to not allowed by no commit but a revocation, with effect by    *)
(* the time of the request, of a delegation the verdict rested on          *)
(* (evaluate_authority, active_delegations, validate_delegation).          *)
(***************************************************************************)
THEOREM VerdictsStand == Spec => OnlyRevocationWithdraws
<1>1. ASSUME [Next]_vars, NEW req \in Requests, Withdrawn(req)
      PROVE  \E r \in revocations' \ revocations, d \in MatchedBy(req) :
               r.delegation_id = d.delegation_id /\ r.effective_time <= req.at
  <2>1. ActiveCompetences(competences, req) \subseteq ActiveCompetences(competences', req)
    BY <1>1, TablesGrow, CompetencesGrow
  <2>2. StandingFor(req) \subseteq StandingFor(req)'
    BY <1>1, <2>1, TablesGrow, StandingGrow DEF StandingFor
  <2>3. PICK d \in MatchedBy(req) : d \notin MatchedBy(req)'
    BY <1>1, <2>2 DEF Withdrawn, Allowed
  <2>4. \E r \in revocations' \ revocations :
          r.delegation_id = d.delegation_id /\ r.effective_time <= req.at
    BY <1>1, <2>1, <2>3, TablesGrow, MatchedGrow DEF MatchedBy
  <2>5. QED
    BY <2>4
<1>2. [Next]_vars => RevocationsWithdraw
  BY <1>1 DEF RevocationsWithdraw
<1>3. QED
  BY <1>2, PTL DEF Spec, OnlyRevocationWithdraws

-----------------------------------------------------------------------------
\* Type correctness

\* Serving a request keeps the gates well formed.
LEMMA GateType ==
  ASSUME TypeOK, NEW t \in Threads, Serve(t)
  PROVE  gate' \in [Threads -> {Idle} \cup Serving]
<1>1. ASSUME NEW g \in {Idle} \cup Serving, gate' = [gate EXCEPT ![t] = g]
      PROVE  gate' \in [Threads -> {Idle} \cup Serving]
  BY <1>1 DEF TypeOK
<1>2. ASSUME gate[t].step # "idle"
      PROVE  gate[t] \in Serving
  BY <1>2 DEF TypeOK, Idle
<1>3. ASSUME NEW req \in Requests, BeginGate(t, req)
      PROVE  gate' \in [Threads -> {Idle} \cup Serving]
  <2> DEFINE g == [step |-> "read_grants", request |-> req,
                   competent |-> ActiveCompetences(competences, req), standing |-> {},
                   pending |-> {}, live |-> {}, matched |-> {}, effect |-> "DENY",
                   revoked |-> revocations, versions |-> Len(policies)]
  <2>1. ActiveCompetences(competences, req) \subseteq Competences
    BY RowsAssumption
    DEF TypeOK, ActiveCompetences, CompetenceAssertion, GovernedActionRequest
  <2>2. g \in Serving
    BY <2>1 DEF TypeOK, Serving, Effect
  <2>3. gate' = [gate EXCEPT ![t] = g]
    BY <1>3 DEF BeginGate
  <2>4. QED
    BY <1>1, <2>2, <2>3
<1>4. CASE ReadGrants(t)
  <2> DEFINE g == [gate[t] EXCEPT !.step = "read_delegations",
                     !.standing = StandingGrants(grants, gate[t].request,
                                                 gate[t].competent)]
  <2>1. gate[t] \in Serving
    BY <1>2, <1>4 DEF ReadGrants, At
  <2>2. StandingGrants(grants, gate[t].request, gate[t].competent) \subseteq GrantRows
    BY DEF TypeOK, StandingGrants
  <2>3. g \in Serving
    BY <2>1, <2>2 DEF Serving
  <2>4. gate' = [gate EXCEPT ![t] = g]
    BY <1>4 DEF ReadGrants
  <2>5. QED
    BY <1>1, <2>3, <2>4
<1>5. CASE ReadDelegations(t)
  <2> DEFINE g == [gate[t] EXCEPT !.step = "read_revocations",
                     !.pending = CurrentDelegations(delegations, gate[t].request)]
  <2>1. gate[t] \in Serving
    BY <1>2, <1>5 DEF ReadDelegations, At
  <2>2. CurrentDelegations(delegations, gate[t].request) \subseteq DelegationRows
    BY DEF TypeOK, CurrentDelegations
  <2>3. g \in Serving
    BY <2>1, <2>2 DEF Serving
  <2>4. gate' = [gate EXCEPT ![t] = g]
    BY <1>5 DEF ReadDelegations
  <2>5. QED
    BY <1>1, <2>3, <2>4
<1>6. ASSUME NEW d \in DelegationRows, ReadRevocations(t, d)
      PROVE  gate' \in [Threads -> {Idle} \cup Serving]
  <2> DEFINE live == IF Revoked(revocations, d, gate[t].request.at)
                     THEN gate[t].live ELSE gate[t].live \cup {d}
             g == [gate[t] EXCEPT !.pending = gate[t].pending \ {d}, !.live = live]
  <2>1. gate[t] \in Serving
    BY <1>2, <1>6 DEF ReadRevocations, At
  <2>2. live \subseteq DelegationRows
    BY <2>1 DEF Serving
  <2>3. g \in Serving
    <3> HIDE DEF live
    <3>1. QED
      BY <2>1, <2>2 DEF Serving
  <2>4. gate' = [gate EXCEPT ![t] = g]
    BY <1>6 DEF ReadRevocations
  <2>5. QED
    BY <1>1, <2>3, <2>4
<1>7. CASE ReadPolicies(t)
  <2> DEFINE matched == {d \in gate[t].live :
                           Delegates(grants, d, gate[t].request, gate[t].competent)}
             effect == PolicyEffect(policies, gate[t].request)
             g == [gate[t] EXCEPT !.step = "answered", !.matched = matched,
                                  !.effect = effect]
  <2>1. gate[t] \in Serving
    BY <1>2, <1>7 DEF ReadPolicies, At
  <2>2. matched \subseteq DelegationRows /\ effect \in Effect
    BY <2>1, EffectType DEF Serving
  <2>3. g \in Serving
    <3> HIDE DEF matched, effect
    <3>1. QED
      BY <2>1, <2>2 DEF Serving
  <2>4. gate' = [gate EXCEPT ![t] = g]
    BY <1>7 DEF ReadPolicies
  <2>5. QED
    BY <1>1, <2>3, <2>4
<1>8. CASE Release(t)
  BY <1>1, <1>8 DEF Release
<1>9. QED
  BY <1>3, <1>4, <1>5, <1>6, <1>7, <1>8 DEF Serve

LEMMA TypeStep == TypeOK /\ [Next]_vars => TypeOK'
<1> SUFFICES ASSUME TypeOK, [Next]_vars PROVE TypeOK'
  OBVIOUS
<1>1. CASE Add
  <2>1. ASSUME NEW row \in CompetenceRows, AddCompetence(row) PROVE TypeOK'
    BY <2>1 DEF TypeOK, AddCompetence
  <2>2. ASSUME NEW row \in GrantRows, AddAuthority(row) PROVE TypeOK'
    BY <2>2 DEF TypeOK, AddAuthority
  <2>3. ASSUME NEW row \in DelegationRows, AddDelegation(row) PROVE TypeOK'
    BY <2>3 DEF TypeOK, AddDelegation
  <2>4. ASSUME NEW row \in RevocationRows, RevokeDelegation(row) PROVE TypeOK'
    BY <2>4 DEF TypeOK, RevokeDelegation
  <2>5. ASSUME NEW row \in PolicyRows, AddPolicy(row) PROVE TypeOK'
    BY <2>5 DEF TypeOK, AddPolicy
  <2>6. QED
    BY <1>1, <2>1, <2>2, <2>3, <2>4, <2>5 DEF Add
<1>2. ASSUME NEW t \in Threads, Serve(t) PROVE TypeOK'
  <2>1. UNCHANGED tables
    BY <1>2 DEF Serve, BeginGate, ReadGrants, ReadDelegations, ReadPolicies, Release,
                ReadRevocations
  <2>2. gate' \in [Threads -> {Idle} \cup Serving]
    BY <1>2, GateType
  <2>3. QED
    BY <2>1, <2>2 DEF TypeOK, tables
<1>3. CASE UNCHANGED vars
  BY <1>3 DEF TypeOK, vars
<1>4. QED
  BY <1>1, <1>2, <1>3 DEF Next

(***************************************************************************)
(* Type correctness for every set of rows: the tables hold posted rows     *)
(* under unique keys, and a gate holds answers of the right kind.          *)
(***************************************************************************)
THEOREM TypeCorrect == Spec => []TypeOK
<1>1. Init => TypeOK
  BY DEF Init, TypeOK, Idle
<1>2. QED
  BY <1>1, TypeStep, PTL DEF Spec

-----------------------------------------------------------------------------
\* A delegated verdict is within its grant

(***************************************************************************)
(* For every set of rows and requests: a delegation that gives a verdict   *)
(* is taken from a grant of its delegator that may be delegated and whose  *)
(* period covers the time of the request (validate_delegation).  It rests  *)
(* on the key of a grant, which no second row takes.                       *)
(***************************************************************************)
THEOREM DelegatedWithinGrant == Spec => []DelegationWithinGrant
<1>1. ASSUME TypeOK, NEW req \in Requests, NEW d \in MatchedBy(req)
      PROVE  \E g \in grants :
               /\ g.authority_id = d.authority_ref /\ g.subject_ref = d.delegator_ref
               /\ g.delegation_allowed /\ ActivePeriod(g, req.at)
               /\ Confers(g, req, ActiveCompetences(competences, req))
  <2>1. /\ d \in CurrentDelegations(delegations, req)
        /\ Delegates(grants, d, req, ActiveCompetences(competences, req))
    BY <1>1 DEF MatchedBy, MatchedDelegations
  <2>2. PICK g \in grants :
          /\ g.authority_id = d.authority_ref
          /\ g.subject_ref = d.delegator_ref
          /\ g.delegation_allowed
          /\ g.effective_from <= d.valid_from
          /\ g.effective_to # NoEnd => d.valid_until <= g.effective_to
    BY <2>1 DEF Delegates, ValidDelegation
  <2>3. Confers(g, req, ActiveCompetences(competences, req))
    BY <1>1, <2>1, <2>2 DEF Delegates, TypeOK
  <2>4. /\ g.effective_from \in Nat /\ g.effective_to \in Nat
        /\ d.valid_from \in Nat /\ d.valid_until \in Nat /\ req.at \in Nat
        /\ d.valid_from <= req.at /\ req.at < d.valid_until
    BY <1>1, <2>1, RowsAssumption
    DEF TypeOK, CurrentDelegations, AuthorityGrant, DelegationGrant,
        GovernedActionRequest
  <2>5. ActivePeriod(g, req.at)
    BY <2>2, <2>4 DEF ActivePeriod
  <2>6. QED
    BY <2>2, <2>3, <2>5
<1>2. TypeOK => DelegationWithinGrant
  BY <1>1 DEF DelegationWithinGrant
<1>3. QED
  BY <1>2, TypeCorrect, PTL

-----------------------------------------------------------------------------
\* What a gate knows

\* The inductive invariant of the two theorems below.  What a gate read may be out of
\* date, but every row it counts on is still there, and the revocations it took no
\* notice of are not among those there were at the beginning.
Sound(g) ==
  /\ g.revoked \subseteq revocations
  /\ g.competent \subseteq ActiveCompetences(competences, g.request)
  /\ g.standing \subseteq StandingGrants(grants, g.request, g.competent)
  /\ g.matched \subseteq g.live
  /\ \A d \in g.live : ~Revoked(g.revoked, d, g.request.at)

GatesSound == TypeOK /\ \A t \in Threads : gate[t] # Idle => Sound(gate[t])

\* Commits leave a gate sound.
LEMMA SoundStays ==
  ASSUME [Next]_vars, NEW g, Sound(g)
  PROVE  Sound(g)'
<1>1. ActiveCompetences(competences, g.request)
        \subseteq ActiveCompetences(competences', g.request)
  BY TablesGrow, CompetencesGrow
<1>2. StandingGrants(grants, g.request, g.competent)
        \subseteq StandingGrants(grants', g.request, g.competent)
  BY TablesGrow, StandingGrow
<1>3. QED
  BY <1>1, <1>2, TablesGrow DEF Sound

\* So does every query.
LEMMA SoundServe ==
  ASSUME GatesSound, NEW t \in Threads, Serve(t), gate'[t] # Idle
  PROVE  Sound(gate'[t])
<1>1. gate[t].step # "idle" => gate[t] \in Serving /\ Sound(gate[t])
  BY DEF GatesSound, TypeOK, Idle, Serving
<1>2. ASSUME NEW req \in Requests, BeginGate(t, req)
      PROVE  Sound(gate'[t])
  BY <1>2 DEF BeginGate, GatesSound, TypeOK, Sound
<1>3. CASE ReadGrants(t)
  BY <1>1, <1>3 DEF ReadGrants, At, GatesSound, TypeOK, Serving, Sound
<1>4. CASE ReadDelegations(t)
  BY <1>1, <1>4 DEF ReadDelegations, At, GatesSound, TypeOK, Serving, Sound
<1>5. ASSUME NEW d \in DelegationRows, ReadRevocations(t, d)
      PROVE  Sound(gate'[t])
  <2>1. gate[t] \in Serving /\ Sound(gate[t])
    BY <1>1, <1>5 DEF ReadRevocations, At
  <2>2. /\ gate'[t].revoked = gate[t].revoked
        /\ gate'[t].request = gate[t].request
        /\ gate'[t].competent = gate[t].competent
        /\ gate'[t].standing = gate[t].standing
        /\ gate'[t].matched = gate[t].matched
        /\ gate'[t].live = IF Revoked(revocations, d, gate[t].request.at)
                           THEN gate[t].live ELSE gate[t].live \cup {d}
    BY <1>5, <2>1 DEF ReadRevocations, GatesSound, TypeOK, Serving
  <2>3. Revoked(gate[t].revoked, d, gate[t].request.at)
          => Revoked(revocations, d, gate[t].request.at)
    BY <2>1 DEF Sound, Revoked
  <2>4. QED
    BY <2>1, <2>2, <2>3 DEF Sound
<1>6. CASE ReadPolicies(t)
  BY <1>1, <1>6 DEF ReadPolicies, At, GatesSound, TypeOK, Serving, Sound
<1>7. CASE Release(t)
  BY <1>7 DEF Release, GatesSound, TypeOK
<1>8. QED
  BY <1>2, <1>3, <1>4, <1>5, <1>6, <1>7 DEF Serve

LEMMA SoundInit == Init => GatesSound
BY DEF Init, GatesSound, TypeOK, Idle

LEMMA SoundStep == GatesSound /\ [Next]_vars => GatesSound'
<1> SUFFICES ASSUME GatesSound, [Next]_vars PROVE GatesSound'
  OBVIOUS
<1>1. TypeOK'
  BY TypeStep DEF GatesSound
<1>2. ASSUME NEW u \in Threads, gate'[u] = gate[u], gate'[u] # Idle
      PROVE  Sound(gate[u])'
  BY <1>2, SoundStays DEF GatesSound
<1>3. ASSUME NEW t \in Threads, Serve(t), NEW u \in Threads, gate'[u] # Idle
      PROVE  Sound(gate[u])'
  <2>1. /\ UNCHANGED tables
        /\ u # t => gate'[u] = gate[u]
    BY <1>3 DEF Serve, BeginGate, ReadGrants, ReadDelegations, ReadPolicies, Release,
                ReadRevocations, GatesSound, TypeOK
  <2>2. CASE u # t
    BY <1>2, <1>3, <2>1, <2>2
  <2>3. CASE u = t
    BY <1>3, <2>1, <2>3, SoundServe DEF Sound, tables
  <2>4. QED
    BY <2>2, <2>3
<1>4. CASE Add
  BY <1>1, <1>2, <1>4 DEF Add, AddCompetence, AddAuthority, AddDelegation,
     RevokeDelegation, AddPolicy, GatesSound
<1>5. CASE UNCHANGED vars
  BY <1>1, <1>2, <1>5 DEF vars, GatesSound
<1>6. QED
  BY <1>1, <1>3, <1>4, <1>5 DEF Next, GatesSound

(***************************************************************************)
(* For every set of threads, rows and requests: an answer that a gate puts *)
(* together while rows are committed rests on no delegation whose          *)
(* revocation was committed before the request began (active_delegations   *)
(* reads the revocations after it began).                                  *)
(***************************************************************************)
THEOREM RevokedIsUnused == Spec => []RevokedBeforeRequestIsUnused
<1>1. GatesSound => RevokedBeforeRequestIsUnused
  BY DEF GatesSound, Sound, RevokedBeforeRequestIsUnused
<1>2. QED
  BY <1>1, SoundInit, SoundStep, PTL DEF Spec

(***************************************************************************)
(* And a standing grant it rests on, read at one moment for competences    *)
(* read at another, still gives the authority when the answer is given     *)
(* (evaluate_authority: no operation takes a row back).                    *)
(***************************************************************************)
THEOREM StandingStands == Spec => []StandingVerdictStands
<1>1. ASSUME GatesSound, NEW t \in Threads, gate[t] # Idle
      PROVE  gate[t].standing \subseteq StandingFor(gate[t].request)
  <2>1. Sound(gate[t])
    BY <1>1 DEF GatesSound
  <2>2. StandingGrants(grants, gate[t].request, gate[t].competent)
          \subseteq StandingFor(gate[t].request)
    BY <2>1, StandingGrow DEF Sound, StandingFor
  <2>3. QED
    BY <2>1, <2>2 DEF Sound
<1>2. GatesSound => StandingVerdictStands
  BY <1>1 DEF StandingVerdictStands
<1>3. QED
  BY <1>2, SoundInit, SoundStep, PTL DEF Spec
-----------------------------------------------------------------------------
\* Reading item by item, version by version

\* A set of numbers that has zero and every successor has them all.
LEMMA CountingUp ==
  ASSUME NEW S, 0 \in S, \A k \in Nat : k \in S => k + 1 \in S
  PROVE  \A k \in Nat : k \in S
<1> DEFINE missing == {k \in Nat : k \notin S}
           R == OpToRel(<, Nat)
<1> SUFFICES ASSUME missing # {} PROVE FALSE
  OBVIOUS
<1>1. \A x, y \in Nat : x < y => <<x, y>> \in R
  BY DEF OpToRel
<1>2. IsWellFoundedOn(R, Nat)
  BY NatLessThanWellFounded
<1>3. missing \subseteq Nat /\ missing # {}
  OBVIOUS
<1> HIDE DEF R
<1>4. \E m \in missing : \A k \in missing : ~(<<k, m>> \in R)
  <2> HIDE DEF missing
  <2> QED
    BY <1>2, <1>3, WFMin
<1>5. PICK m \in missing : \A k \in missing : ~(<<k, m>> \in R)
  BY <1>4
<1>6. m \in Nat /\ m # 0 /\ m - 1 \in Nat /\ m - 1 < m /\ (m - 1) + 1 = m
  BY <1>5
<1>7. m - 1 \in S
  BY <1>1, <1>5, <1>6
<1>8. QED
  BY <1>5, <1>6, <1>7

\* What n steps of F make of a value: the table that starts with it and goes on with F.
Reading(F, base, n, f) ==
  /\ f = [k \in 0 .. n |-> f[k]]
  /\ f[0] = base
  /\ \A k \in 1 .. n : f[k] = F[k][f[k - 1]]

LEMMA ReadingExists ==
  ASSUME NEW F, NEW base
  PROVE  \A n \in Nat : \E f : Reading(F, base, n, f)
<1> DEFINE S == {n \in Nat : \E f : Reading(F, base, n, f)}
<1>1. 0 \in S
  <2>1. Reading(F, base, 0, [k \in 0 .. 0 |-> base])
    BY DEF Reading
  <2>2. \E f : Reading(F, base, 0, f)
    BY <2>1
  <2>3. QED
    BY <2>2
<1>2. ASSUME NEW n \in Nat, n \in S PROVE n + 1 \in S
  <2>1. PICK f : Reading(F, base, n, f)
    BY <1>2
  <2>2. PICK g : g = [k \in 0 .. n + 1 |-> IF k = n + 1 THEN F[n + 1][f[n]] ELSE f[k]]
    OBVIOUS
  <2>3. g = [k \in 0 .. n + 1 |-> g[k]] /\ g[0] = base /\ g[n + 1] = F[n + 1][f[n]]
    BY <2>1, <2>2 DEF Reading
  <2>4. \A k \in 0 .. n : g[k] = f[k]
    BY <2>2
  <2>5. ASSUME NEW k \in 1 .. n + 1 PROVE g[k] = F[k][g[k - 1]]
    <3>1. CASE k = n + 1
      <4>1. k - 1 = n /\ n \in 0 .. n
        BY <3>1
      <4>2. QED
        BY <2>3, <2>4, <3>1, <4>1
    <3>2. CASE k # n + 1
      <4>1. k \in 1 .. n /\ k \in 0 .. n /\ k - 1 \in 0 .. n
        BY <3>2
      <4>2. QED
        BY <2>1, <2>4, <4>1 DEF Reading
    <3>3. QED
      BY <3>1, <3>2
  <2>6. Reading(F, base, n + 1, g)
    BY <2>3, <2>5 DEF Reading
  <2>7. \E h : Reading(F, base, n + 1, h)
    BY <2>6
  <2>8. n + 1 \in S
    BY <2>7
  <2>9. QED
    BY <2>8
<1>3. \A n \in Nat : n \in S
  <2> HIDE DEF S
  <2> QED
    BY <1>1, <1>2, CountingUp
<1>4. QED
  BY <1>3

Seen == [denied: BOOLEAN, allow: BOOLEAN, review: BOOLEAN, signature: BOOLEAN]

LEMMA ReadItemType ==
  ASSUME NEW seen \in Seen, NEW item
  PROVE  ReadItem(seen, item) \in Seen
BY DEF ReadItem, Seen, NothingSeen

\* seen is what the items of I say: a DENY, or else all the others together.
Means(seen, I) ==
  /\ seen \in Seen
  /\ seen.denied <=> \E item \in I : item.effect = "DENY"
  /\ ~seen.denied =>
       /\ seen.allow <=> \E item \in I : item.effect = "ALLOW"
       /\ seen.review <=> \E item \in I : item.require = "review"
       /\ seen.signature <=> \E item \in I : item.require = "signature"

LEMMA NothingMeans == Means(NothingSeen, {})
BY DEF Means, NothingSeen, Seen

LEMMA ItemMeans ==
  ASSUME NEW seen, NEW I, Means(seen, I), NEW item
  PROVE  Means(ReadItem(seen, item), I \cup {item})
<1>1. CASE seen.denied
  BY <1>1 DEF Means, ReadItem
<1>2. CASE ~seen.denied /\ item.effect = "DENY"
  BY <1>2 DEF Means, ReadItem, NothingSeen, Seen
<1>3. CASE ~seen.denied /\ item.effect # "DENY"
  <2>1. ReadItem(seen, item) =
          [denied    |-> FALSE,
           allow     |-> seen.allow \/ item.effect = "ALLOW",
           review    |-> seen.review \/ item.require = "review",
           signature |-> seen.signature \/ item.require = "signature"]
    BY <1>3 DEF ReadItem
  <2>2. PICK a, r, g : /\ a = (seen.allow \/ item.effect = "ALLOW")
                       /\ r = (seen.review \/ item.require = "review")
                       /\ g = (seen.signature \/ item.require = "signature")
    OBVIOUS
  <2>3. /\ a \in BOOLEAN /\ r \in BOOLEAN /\ g \in BOOLEAN
        /\ a <=> \E x \in I \cup {item} : x.effect = "ALLOW"
        /\ r <=> \E x \in I \cup {item} : x.require = "review"
        /\ g <=> \E x \in I \cup {item} : x.require = "signature"
    BY <1>3, <2>2 DEF Means
  <2>4. ~\E x \in I \cup {item} : x.effect = "DENY"
    BY <1>3 DEF Means
  <2>5. ReadItem(seen, item) = [denied |-> FALSE, allow |-> a, review |-> r, signature |-> g]
    BY <2>1, <2>2
  <2>6. QED
    BY <2>3, <2>4, <2>5 DEF Means, Seen
<1>4. QED
  BY <1>1, <1>2, <1>3

\* ReadPolicy(seen, policy) is the end of a table of what is seen after each of n items.
ItemByItem(f, seen, policy, n) ==
  /\ f[0] = seen /\ f[n] = ReadPolicy(seen, policy)
  /\ \A k \in 1 .. n : f[k] = ReadItem(f[k - 1], policy.effects[k])

LEMMA ReadPolicyUnfolds ==
  ASSUME NEW seen \in Seen, NEW policy, NEW n \in Nat, n = Len(policy.effects)
  PROVE  \E f : ItemByItem(f, seen, policy, n)
<1>1. PICK e, F : /\ e = policy.effects
                  /\ F = [k \in 1 .. n |-> [s \in Seen |-> ReadItem(s, e[k])]]
  OBVIOUS
<1>2. PICK f : Reading(F, seen, n, f)
  BY ReadingExists
<1>3. \A k \in 1 .. n, s \in Seen : F[k][s] = ReadItem(s, e[k])
  BY <1>1
<1>4. \A k \in Nat : k <= n => f[k] \in Seen
  <2> DEFINE S == {k \in Nat : k <= n => f[k] \in Seen}
  <2>1. 0 \in S
    BY <1>2 DEF Reading
  <2>2. ASSUME NEW k \in Nat, k \in S PROVE k + 1 \in S
    <3>1. CASE k + 1 <= n
      <4>1. k + 1 \in 1 .. n /\ (k + 1) - 1 = k /\ f[k] \in Seen
        BY <2>2, <3>1
      <4>2. f[k + 1] = ReadItem(f[k], e[k + 1])
        BY <1>2, <1>3, <4>1 DEF Reading
      <4>3. QED
        BY <4>1, <4>2, ReadItemType
    <3>2. QED
      BY <3>1
  <2>3. \A k \in Nat : k \in S
    <3> HIDE DEF S
    <3> QED
      BY <2>1, <2>2, CountingUp
  <2>4. QED
    BY <2>3
<1>5. f = [k \in 0 .. n |-> IF k = 0 THEN seen ELSE ReadItem(f[k - 1], e[k])]
  <2>1. ASSUME NEW k \in 1 .. n PROVE f[k] = ReadItem(f[k - 1], e[k])
    <3>1. k - 1 \in Nat /\ k - 1 <= n
      OBVIOUS
    <3>2. QED
      BY <1>2, <1>3, <1>4, <3>1 DEF Reading
  <2>2. \A k \in 0 .. n : f[k] = IF k = 0 THEN seen ELSE ReadItem(f[k - 1], e[k])
    <3>1. \A k \in 0 .. n : k = 0 \/ k \in 1 .. n
      OBVIOUS
    <3>2. QED
      BY <1>2, <2>1, <3>1 DEF Reading
  <2>3. QED
    BY <1>2, <2>2 DEF Reading
<1>6. PICK g : /\ g = [k \in 0 .. n |-> IF k = 0 THEN seen ELSE ReadItem(g[k - 1], e[k])]
               /\ ReadPolicy(seen, policy) = g[n]
  BY <1>1, <1>5 DEF ReadPolicy
<1>7. g[0] = seen /\ \A k \in 1 .. n : g[k] = ReadItem(g[k - 1], e[k])
  <2>1. \A k \in 1 .. n : k \in 0 .. n /\ k # 0
    OBVIOUS
  <2>2. 0 \in 0 .. n
    OBVIOUS
  <2>3. \A k \in 0 .. n : g[k] = IF k = 0 THEN seen ELSE ReadItem(g[k - 1], e[k])
    BY <1>6
  <2>4. QED
    BY <2>1, <2>2, <2>3
<1>8. QED
  BY <1>1, <1>6, <1>7 DEF ItemByItem

LEMMA ReadPolicyType ==
  ASSUME NEW seen \in Seen, NEW policy, Len(policy.effects) \in Nat
  PROVE  ReadPolicy(seen, policy) \in Seen
<1>1. PICK n \in Nat : n = Len(policy.effects)
  OBVIOUS
<1>2. PICK f : ItemByItem(f, seen, policy, n)
  BY <1>1, ReadPolicyUnfolds
<1> DEFINE S == {k \in Nat : k <= n => f[k] \in Seen}
<1>3. 0 \in S
  BY <1>2 DEF ItemByItem
<1>4. ASSUME NEW k \in Nat, k \in S PROVE k + 1 \in S
  <2>1. CASE k + 1 <= n
    <3>1. k + 1 \in 1 .. n /\ (k + 1) - 1 = k /\ f[k] \in Seen
      BY <1>4, <2>1
    <3>2. QED
      BY <1>2, <3>1, ReadItemType DEF ItemByItem
  <2>2. QED
    BY <2>1
<1>5. \A k \in Nat : k \in S
  <2> HIDE DEF S
  <2> QED
    BY <1>3, <1>4, CountingUp
<1>6. QED
  BY <1>2, <1>5 DEF ItemByItem

\* The first k items.
Through(e, k) == {e[j] : j \in 1 .. k}

LEMMA ThroughGrows ==
  ASSUME NEW e, NEW k \in Nat
  PROVE  Through(e, 0) = {} /\ Through(e, k + 1) = Through(e, k) \cup {e[k + 1]}
<1>1. 1 .. 0 = {} /\ 1 .. k + 1 = (1 .. k) \cup {k + 1}
  OBVIOUS
<1>2. QED
  BY <1>1 DEF Through

\* What is seen after a policy is what was seen before and all its items mean.
LEMMA PolicyMeans ==
  ASSUME NEW seen, NEW I, Means(seen, I), NEW policy,
         NEW n \in Nat, n = Len(policy.effects), DOMAIN policy.effects = 1 .. n
  PROVE  Means(ReadPolicy(seen, policy), I \cup ToSet(policy.effects))
<1>1. seen \in Seen
  BY DEF Means
<1>0. PICK e : e = policy.effects
  OBVIOUS
<1>2. PICK f : ItemByItem(f, seen, policy, n)
  BY <1>1, ReadPolicyUnfolds
<1> DEFINE S == {k \in Nat : k <= n => Means(f[k], I \cup Through(e, k))}
<1>3. 0 \in S
  <2>1. I \cup Through(e, 0) = I
    BY ThroughGrows
  <2>2. QED
    BY <1>2, <2>1 DEF ItemByItem
<1>4. ASSUME NEW k \in Nat, k \in S PROVE k + 1 \in S
  <2>1. CASE k + 1 <= n
    <3>1. k + 1 \in 1 .. n /\ (k + 1) - 1 = k /\ Means(f[k], I \cup Through(e, k))
      BY <1>4, <2>1
    <3>2. f[k + 1] = ReadItem(f[k], e[k + 1])
      BY <1>0, <1>2, <3>1 DEF ItemByItem
    <3>3. I \cup Through(e, k + 1) = (I \cup Through(e, k)) \cup {e[k + 1]}
      BY ThroughGrows
    <3>4. QED
      BY <3>1, <3>2, <3>3, ItemMeans
  <2>2. QED
    BY <2>1
<1>5. \A k \in Nat : k \in S
  <2> HIDE DEF S
  <2> QED
    BY <1>3, <1>4, CountingUp
<1>6. Means(f[n], I \cup Through(e, n))
  <2>1. n \in S
    <3> HIDE DEF S
    <3> QED
      BY <1>5
  <2>2. n <= n
    OBVIOUS
  <2>3. QED
    BY <2>1, <2>2
<1>7. Through(e, n) = ToSet(policy.effects)
  BY <1>0 DEF Through, ToSet
<1>8. QED
  BY <1>2, <1>6, <1>7 DEF ItemByItem

\* A policy whose effects are a sequence.
Listed(policy) ==
  Len(policy.effects) \in Nat /\ DOMAIN policy.effects = 1 .. Len(policy.effects)

\* ReadVersions(versions) is the end of a table of what is seen after each of n versions.
VersionByVersion(f, versions, n) ==
  /\ f[0] = NothingSeen /\ f[n] = ReadVersions(versions)
  /\ \A k \in 1 .. n : f[k] = ReadPolicy(f[k - 1], versions[k])

LEMMA ReadVersionsUnfolds ==
  ASSUME NEW versions, NEW n \in Nat, n = Len(versions), \A k \in 1 .. n : Listed(versions[k])
  PROVE  \E f : VersionByVersion(f, versions, n)
<1>1. PICK F : F = [k \in 1 .. n |-> [s \in Seen |-> ReadPolicy(s, versions[k])]]
  OBVIOUS
<1>2. PICK f : Reading(F, NothingSeen, n, f)
  BY ReadingExists
<1>3. \A k \in 1 .. n, s \in Seen : F[k][s] = ReadPolicy(s, versions[k])
  BY <1>1
<1>4. \A k \in Nat : k <= n => f[k] \in Seen
  <2> DEFINE S == {k \in Nat : k <= n => f[k] \in Seen}
  <2>1. 0 \in S
    BY <1>2, NothingMeans DEF Reading, Means
  <2>2. ASSUME NEW k \in Nat, k \in S PROVE k + 1 \in S
    <3>1. CASE k + 1 <= n
      <4>1. k + 1 \in 1 .. n /\ (k + 1) - 1 = k /\ f[k] \in Seen
        BY <2>2, <3>1
      <4>2. f[k + 1] = ReadPolicy(f[k], versions[k + 1])
        BY <1>2, <1>3, <4>1 DEF Reading
      <4>3. Len(versions[k + 1].effects) \in Nat
        BY <4>1 DEF Listed
      <4>4. QED
        BY <4>1, <4>2, <4>3, ReadPolicyType
    <3>2. QED
      BY <3>1
  <2>3. \A k \in Nat : k \in S
    <3> HIDE DEF S
    <3> QED
      BY <2>1, <2>2, CountingUp
  <2>4. QED
    BY <2>3
<1>5. f = [k \in 0 .. n |-> IF k = 0 THEN NothingSeen ELSE ReadPolicy(f[k - 1], versions[k])]
  <2>1. ASSUME NEW k \in 1 .. n PROVE f[k] = ReadPolicy(f[k - 1], versions[k])
    <3>1. k - 1 \in Nat /\ k - 1 <= n
      OBVIOUS
    <3>2. QED
      BY <1>2, <1>3, <1>4, <3>1 DEF Reading
  <2>2. \A k \in 0 .. n :
          f[k] = IF k = 0 THEN NothingSeen ELSE ReadPolicy(f[k - 1], versions[k])
    <3>1. \A k \in 0 .. n : k = 0 \/ k \in 1 .. n
      OBVIOUS
    <3>2. QED
      BY <1>2, <2>1, <3>1 DEF Reading
  <2>3. QED
    BY <1>2, <2>2 DEF Reading
<1>6. PICK g :
        /\ g = [k \in 0 .. n |-> IF k = 0 THEN NothingSeen ELSE ReadPolicy(g[k - 1], versions[k])]
        /\ ReadVersions(versions) = g[n]
  BY <1>5 DEF ReadVersions
<1>7. g[0] = NothingSeen /\ \A k \in 1 .. n : g[k] = ReadPolicy(g[k - 1], versions[k])
  <2>1. \A k \in 1 .. n : k \in 0 .. n /\ k # 0
    OBVIOUS
  <2>2. 0 \in 0 .. n
    OBVIOUS
  <2>3. \A k \in 0 .. n :
          g[k] = IF k = 0 THEN NothingSeen ELSE ReadPolicy(g[k - 1], versions[k])
    BY <1>6
  <2>4. QED
    BY <2>1, <2>2, <2>3
<1>8. QED
  BY <1>6, <1>7 DEF VersionByVersion

\* The items of the first k versions.
ItemsThrough(versions, k) == UNION {ToSet(versions[j].effects) : j \in 1 .. k}

LEMMA ItemsThroughGrow ==
  ASSUME NEW versions, NEW k \in Nat
  PROVE  /\ ItemsThrough(versions, 0) = {}
         /\ ItemsThrough(versions, k + 1)
              = ItemsThrough(versions, k) \cup ToSet(versions[k + 1].effects)
<1>1. 1 .. 0 = {} /\ 1 .. k + 1 = (1 .. k) \cup {k + 1}
  OBVIOUS
<1>2. QED
  BY <1>1 DEF ItemsThrough

\* What is seen at the end is what all the items mean, although a DENY ends the reading.
LEMMA VersionsMean ==
  ASSUME NEW versions, NEW n \in Nat, n = Len(versions), \A k \in 1 .. n : Listed(versions[k])
  PROVE  Means(ReadVersions(versions), ItemsThrough(versions, n))
<1>1. PICK f : VersionByVersion(f, versions, n)
  BY ReadVersionsUnfolds
<1> DEFINE S == {k \in Nat : k <= n => Means(f[k], ItemsThrough(versions, k))}
<1>2. 0 \in S
  <2>1. ItemsThrough(versions, 0) = {}
    BY ItemsThroughGrow
  <2>2. QED
    BY <1>1, <2>1, NothingMeans DEF VersionByVersion
<1>3. ASSUME NEW k \in Nat, k \in S PROVE k + 1 \in S
  <2>1. CASE k + 1 <= n
    <3>1. k + 1 \in 1 .. n /\ (k + 1) - 1 = k /\ Means(f[k], ItemsThrough(versions, k))
      BY <1>3, <2>1
    <3>2. f[k + 1] = ReadPolicy(f[k], versions[k + 1])
      BY <1>1, <3>1 DEF VersionByVersion
    <3>3. ItemsThrough(versions, k + 1)
            = ItemsThrough(versions, k) \cup ToSet(versions[k + 1].effects)
      BY ItemsThroughGrow
    <3>4. PICK p, m, seen, I :
            /\ p = versions[k + 1] /\ m = Len(p.effects) /\ seen = f[k]
            /\ I = ItemsThrough(versions, k)
      OBVIOUS
    <3>5. m \in Nat /\ DOMAIN p.effects = 1 .. m /\ Means(seen, I)
      BY <3>1, <3>4 DEF Listed
    <3>6. Means(ReadPolicy(seen, p), I \cup ToSet(p.effects))
      BY <3>4, <3>5, PolicyMeans
    <3>7. Means(f[k + 1], ItemsThrough(versions, k + 1))
      BY <3>2, <3>3, <3>4, <3>6
    <3>8. QED
      BY <3>7
  <2>2. QED
    BY <2>1
<1>4. \A k \in Nat : k \in S
  <2> HIDE DEF S
  <2> QED
    BY <1>2, <1>3, CountingUp
<1>5. Means(f[n], ItemsThrough(versions, n))
  <2>1. n \in S
    <3> HIDE DEF S
    <3> QED
      BY <1>4
  <2>2. n <= n
    OBVIOUS
  <2>3. QED
    BY <2>1, <2>2
<1>6. QED
  BY <1>1, <1>5 DEF VersionByVersion

-----------------------------------------------------------------------------
\* The order of reading leaves no version out

\* A table whose rows have a time to be compared by.
Dated(P, rows) ==
  rows \subseteq Nat /\ \A i \in rows : P[i].effective_from \in Nat

\* The reading is a strict order of its rows.
LEMMA ReadingIsAnOrder ==
  ASSUME NEW P, NEW rows, Dated(P, rows)
  PROVE  /\ \A i \in rows : ~ReadBefore(P, i, i)
         /\ \A i, j \in rows : i = j \/ ReadBefore(P, i, j) \/ ReadBefore(P, j, i)
         /\ \A i, j, k \in rows : ReadBefore(P, i, j) /\ ReadBefore(P, j, k) => ReadBefore(P, i, k)
<1>1. \A i \in rows : i \in Nat /\ P[i].effective_from \in Nat
  BY DEF Dated
<1>2. ASSUME NEW i \in rows PROVE ~ReadBefore(P, i, i)
  <2>1. PICK x, a : x = i /\ x \in Nat /\ a = P[i].effective_from /\ a \in Nat
    BY <1>1
  <2>2. ~(a > a) /\ ~(x > x)
    BY <2>1
  <2>3. QED
    BY <2>1, <2>2 DEF ReadBefore
<1>3. ASSUME NEW i \in rows, NEW j \in rows
      PROVE  i = j \/ ReadBefore(P, i, j) \/ ReadBefore(P, j, i)
  <2>1. PICK a, b : /\ a = P[i].effective_from /\ b = P[j].effective_from
                    /\ i \in Nat /\ j \in Nat /\ a \in Nat /\ b \in Nat
    BY <1>1
  <2>2. a > b \/ b > a \/ (a = b /\ (i > j \/ j > i)) \/ i = j
    BY <2>1
  <2>3. QED
    BY <2>1, <2>2 DEF ReadBefore
<1>4. ASSUME NEW i \in rows, NEW j \in rows, NEW k \in rows,
             ReadBefore(P, i, j), ReadBefore(P, j, k)
      PROVE  ReadBefore(P, i, k)
  <2>1. PICK a, b, c : /\ a = P[i].effective_from /\ b = P[j].effective_from
                       /\ c = P[k].effective_from
                       /\ i \in Nat /\ j \in Nat /\ k \in Nat
                       /\ a \in Nat /\ b \in Nat /\ c \in Nat
    BY <1>1
  <2>2. (a > b \/ (a = b /\ i > j)) /\ (b > c \/ (b = c /\ j > k))
    BY <1>4, <2>1 DEF ReadBefore
  <2>3. a > c \/ (a = c /\ i > k)
    BY <2>1, <2>2
  <2>4. QED
    BY <2>1, <2>3 DEF ReadBefore
<1>5. QED
  BY <1>2, <1>3, <1>4

LEMMA RankGrows ==
  ASSUME NEW P, NEW rows, IsFiniteSet(rows), Dated(P, rows),
         NEW i \in rows, NEW j \in rows, ReadBefore(P, i, j)
  PROVE  Rank(P, rows, i) \in Nat /\ Rank(P, rows, j) \in Nat
         /\ Rank(P, rows, i) < Rank(P, rows, j)
<1>1. PICK A, B : /\ A = {k \in rows : ReadBefore(P, k, i)}
                  /\ B = {k \in rows : ReadBefore(P, k, j)}
  OBVIOUS
<1>2. i \notin A /\ i \in B
  BY <1>1, ReadingIsAnOrder
<1>3. \A k \in A : k \in B
  BY <1>1, ReadingIsAnOrder
<1>4. A \in SUBSET (B \ {i}) /\ B \in SUBSET rows /\ A \in SUBSET rows
  BY <1>1, <1>2, <1>3
<1>5. IsFiniteSet(B) /\ IsFiniteSet(A)
  BY <1>4, FS_Subset
<1>6. IsFiniteSet(B \ {i}) /\ Cardinality(B \ {i}) = Cardinality(B) - 1
  BY <1>2, <1>5, FS_RemoveElement
<1>7. Cardinality(A) <= Cardinality(B \ {i})
  BY <1>4, <1>6, FS_Subset
<1>8. Cardinality(A) \in Nat /\ Cardinality(B) \in Nat
  BY <1>5, FS_CardinalityType
<1>9. Cardinality(A) < Cardinality(B)
  BY <1>6, <1>7, <1>8
<1>10. QED
  BY <1>1, <1>8, <1>9 DEF Rank

LEMMA RankBound ==
  ASSUME NEW P, NEW rows, IsFiniteSet(rows), Dated(P, rows), NEW i \in rows
  PROVE  Rank(P, rows, i) \in 0 .. Cardinality(rows) - 1
<1>1. PICK A : A = {k \in rows : ReadBefore(P, k, i)}
  OBVIOUS
<1>2. i \notin A
  BY <1>1, ReadingIsAnOrder
<1>3. A \in SUBSET (rows \ {i}) /\ A \in SUBSET rows
  BY <1>1, <1>2
<1>4. IsFiniteSet(rows \ {i}) /\ Cardinality(rows \ {i}) = Cardinality(rows) - 1
  BY FS_RemoveElement
<1>5. Cardinality(A) <= Cardinality(rows \ {i})
  BY <1>3, <1>4, FS_Subset
<1>6. IsFiniteSet(A)
  BY <1>3, FS_Subset
<1>7. Cardinality(A) \in Nat /\ Cardinality(rows) \in Nat
  BY <1>6, FS_CardinalityType
<1>8. Rank(P, rows, i) = Cardinality(A)
  BY <1>1 DEF Rank
<1>9. QED
  BY <1>4, <1>5, <1>7, <1>8

\* Every row has a rank of its own and every rank its row.
LEMMA RanksAreTaken ==
  ASSUME NEW P, NEW rows, IsFiniteSet(rows), Dated(P, rows)
  PROVE  /\ Cardinality(rows) \in Nat
         /\ \A i, j \in rows : Rank(P, rows, i) = Rank(P, rows, j) => i = j
         /\ \A k \in 1 .. Cardinality(rows) : \E i \in rows : Rank(P, rows, i) = k - 1
<1>1. PICK n : n = Cardinality(rows) /\ n \in Nat
  BY FS_CardinalityType
<1>2. ASSUME NEW i \in rows, NEW j \in rows, Rank(P, rows, i) = Rank(P, rows, j) PROVE i = j
  <2>1. CASE i # j
    <3>1. ReadBefore(P, i, j) \/ ReadBefore(P, j, i)
      BY <2>1, ReadingIsAnOrder
    <3>2. CASE ReadBefore(P, i, j)
      BY <1>2, <3>2, RankGrows
    <3>3. CASE ReadBefore(P, j, i)
      BY <1>2, <3>3, RankGrows
    <3>4. QED
      BY <3>1, <3>2, <3>3
  <2>2. QED
    BY <2>1
<1>3. PICK T, rank : T = 0 .. n - 1 /\ rank = [i \in rows |-> Rank(P, rows, i)]
  OBVIOUS
<1>4. rank \in [rows -> T]
  <2>1. \A i \in rows : Rank(P, rows, i) \in T
    BY <1>1, <1>3, RankBound
  <2>2. QED
    BY <1>3, <2>1
<1>5. rank \in Injection(rows, T)
  BY <1>2, <1>3, <1>4 DEF Injection, IsInjective
<1>6. IsFiniteSet(T) /\ Cardinality(T) = n
  <2>1. PICK m : m = n - 1 /\ m \in Int /\ 0 \in Int
    BY <1>1
  <2>2. IsFiniteSet(0 .. m)
    BY <2>1, FS_Interval, Zenon
  <2>3. Cardinality(0 .. m) = IF 0 > m THEN 0 ELSE m - 0 + 1
    BY <2>1, FS_Interval
  <2>4. Cardinality(0 .. m) = n
    BY <1>1, <2>1, <2>3
  <2>5. QED
    BY <1>3, <2>1, <2>2, <2>4
<1>7. rank \in Surjection(rows, T)
  BY <1>1, <1>5, <1>6, FS_Injection
<1>8. ASSUME NEW k \in 1 .. n PROVE \E i \in rows : Rank(P, rows, i) = k - 1
  <2>1. k - 1 \in T
    BY <1>1, <1>3
  <2>2. PICK i \in rows : rank[i] = k - 1
    BY <1>7, <2>1 DEF Surjection
  <2>3. QED
    BY <1>3, <2>2
<1>9. QED
  BY <1>1, <1>2, <1>8

-----------------------------------------------------------------------------
\* The policy decision means what its versions mean together

\* The reading takes every applicable version, and no other.
TakesAll(versions, n, P, req) ==
  /\ versions \in Seq(PolicyRows) /\ Len(versions) = n
  /\ \A k \in 1 .. n : \E i \in ApplicableRows(P, req) : versions[k] = P[i]
  /\ \A i \in ApplicableRows(P, req) : \E k \in 1 .. n : versions[k] = P[i]

LEMMA EveryVersionIsRead ==
  ASSUME NEW P \in Seq(PolicyRows), NEW req
  PROVE  \E n \in Nat : TakesAll(NewestFirst(P, req), n, P, req)
<1> DEFINE rows == ApplicableRows(P, req)
           n == Cardinality(rows)
           versions == NewestFirst(P, req)
<1>1. versions = [k \in 1 .. n |-> P[CHOOSE i \in rows : Rank(P, rows, i) = k - 1]]
  BY DEF NewestFirst
<1>2. PICK m \in Nat : m = Len(P) /\ DOMAIN P = 1 .. m
  OBVIOUS
<1>3. rows \subseteq 1 .. m
  BY <1>2 DEF ApplicableRows
<1> HIDE DEF rows, n, versions
<1>4. IsFiniteSet(rows)
  <2>1. IsFiniteSet(1 .. m)
    <3>1. m \in Int /\ 1 \in Int
      OBVIOUS
    <3>2. QED
      BY <3>1, FS_Interval, Zenon
  <2>2. QED
    BY <1>3, <2>1, FS_Subset
<1>5. \A i \in rows : P[i] \in PolicyRows
  BY <1>2, <1>3
<1>6. Dated(P, rows)
  BY <1>2, <1>3, <1>5, RowsAssumption DEF Dated, PolicyVersion
<1>7. /\ n \in Nat
      /\ \A i, j \in rows : Rank(P, rows, i) = Rank(P, rows, j) => i = j
      /\ \A k \in 1 .. n : \E i \in rows : Rank(P, rows, i) = k - 1
  BY <1>4, <1>6, RanksAreTaken DEF n
<1>9. ASSUME NEW k \in 1 .. n, NEW i \in rows, Rank(P, rows, i) = k - 1
      PROVE  versions[k] = P[i]
  <2>1. (CHOOSE j \in rows : Rank(P, rows, j) = k - 1) = i
    BY <1>7, <1>9
  <2>2. QED
    BY <1>1, <2>1
<1>10. \A k \in 1 .. n : \E i \in rows : versions[k] = P[i]
  BY <1>7, <1>9
<1>11. ASSUME NEW i \in rows PROVE \E k \in 1 .. n : versions[k] = P[i]
  <2>1. Rank(P, rows, i) \in 0 .. n - 1
    BY <1>4, <1>6, RankBound DEF n
  <2>2. Rank(P, rows, i) + 1 \in 1 .. n /\ Rank(P, rows, i) = (Rank(P, rows, i) + 1) - 1
    BY <1>7, <2>1
  <2>3. QED
    BY <1>9, <2>2
<1>12. versions \in Seq(PolicyRows) /\ Len(versions) = n
  <2>1. \A k \in 1 .. n : versions[k] \in PolicyRows
    BY <1>5, <1>10
  <2>2. versions = [k \in 1 .. n |-> versions[k]]
    BY <1>1
  <2>3. QED
    BY <1>7, <2>1, <2>2
<1>13. TakesAll(versions, n, P, req)
  BY <1>10, <1>11, <1>12 DEF TakesAll, rows
<1>14. QED
  BY <1>7, <1>13 DEF versions

LEMMA EffectIsMeaning ==
  ASSUME NEW P \in Seq(PolicyRows), NEW req
  PROVE  PolicyEffect(P, req) = PolicyMeaning(P, req)
<1>1. PICK n \in Nat : TakesAll(NewestFirst(P, req), n, P, req)
  BY EveryVersionIsRead
<1>2. PICK versions : versions = NewestFirst(P, req) /\ TakesAll(versions, n, P, req)
  BY <1>1
<1>3. \A k \in 1 .. n : Listed(versions[k])
  <2>1. TAKE k \in 1 .. n
  <2>2. versions[k] \in PolicyVersion
    BY <1>2, RowsAssumption DEF TakesAll
  <2>3. PICK e : e = versions[k].effects /\ e \in Seq(EffectItem)
    BY <2>2 DEF PolicyVersion
  <2>4. Len(e) \in Nat /\ DOMAIN e = 1 .. Len(e)
    BY <2>3
  <2>5. QED
    BY <2>3, <2>4 DEF Listed
<1>4. PICK seen, I : /\ seen = ReadVersions(versions) /\ I = ItemsThrough(versions, n)
                     /\ Means(seen, I)
  BY <1>2, <1>3, VersionsMean DEF TakesAll
<1>5. I = UNION {ToSet(P[i].effects) : i \in ApplicableRows(P, req)}
  <2>1. ASSUME NEW x \in I PROVE x \in UNION {ToSet(P[i].effects) : i \in ApplicableRows(P, req)}
    <3>1. PICK k \in 1 .. n : x \in ToSet(versions[k].effects)
      BY <1>4, <2>1 DEF ItemsThrough
    <3>2. PICK i \in ApplicableRows(P, req) : versions[k] = P[i]
      BY <1>2 DEF TakesAll
    <3>3. QED
      BY <3>1, <3>2
  <2>2. ASSUME NEW i \in ApplicableRows(P, req), NEW x \in ToSet(P[i].effects) PROVE x \in I
    <3>1. PICK k \in 1 .. n : versions[k] = P[i]
      BY <1>2 DEF TakesAll
    <3>2. QED
      BY <1>4, <2>2, <3>1 DEF ItemsThrough
  <2>3. QED
    BY <2>1, <2>2
<1>6. PolicyEffect(P, req) = EffectSeen(seen)
  BY <1>2, <1>4 DEF PolicyEffect
<1>7. PolicyMeaning(P, req) =
        IF \E item \in I : item.effect = "DENY" THEN "DENY"
        ELSE IF \E item \in I : item.require = "signature" THEN "REQUIRE_SIGNATURE"
        ELSE IF \E item \in I : item.require = "review" THEN "REQUIRE_REVIEW"
        ELSE IF \E item \in I : item.effect = "ALLOW" THEN "ALLOW"
        ELSE "DENY"
  BY <1>5 DEF PolicyMeaning
<1>8. QED
  BY <1>4, <1>6, <1>7 DEF Means, EffectSeen

(***************************************************************************)
(* For every set of policy rows and requests, and tables of any length:    *)
(* the order in which evaluate_policy reads the versions, the reset at a   *)
(* DENY and the end of the reading there do not show in the effect.  It is *)
(* what the applicable versions say together: deny overrides, then a       *)
(* signature, then a review, then an allowance, else it is denied.         *)
(***************************************************************************)
THEOREM EffectMeans == Spec => []PolicyEffectIsMeaning
<1>1. TypeOK => PolicyEffectIsMeaning
  BY EffectIsMeaning DEF TypeOK, PolicyEffectIsMeaning
<1>2. QED
  BY <1>1, TypeCorrect, PTL

\* An effect other than DENY says that nothing applicable denies.
LEMMA UndeniedEffect ==
  ASSUME NEW P \in Seq(PolicyRows), NEW req, PolicyEffect(P, req) # "DENY",
         NEW i \in DOMAIN P, Applicable(P[i], req)
  PROVE  \A item \in ToSet(P[i].effects) : item.effect # "DENY"
<1>1. PolicyMeaning(P, req) # "DENY"
  BY EffectIsMeaning
<1>2. ToSet(P[i].effects)
        \subseteq UNION {ToSet(P[j].effects) : j \in ApplicableRows(P, req)}
  BY DEF ApplicableRows
<1>3. QED
  BY <1>1, <1>2 DEF PolicyMeaning

\* What a gate answered by the policies still holds for those there were when it began.
Heeds(g) ==
  /\ g.versions \in Nat /\ g.versions <= Len(policies)
  /\ g.step = "answered" /\ g.effect # "DENY" =>
       \A i \in 1 .. g.versions :
         Applicable(policies[i], g.request) =>
           \A item \in ToSet(policies[i].effects) : item.effect # "DENY"

GatesHeed == TypeOK /\ \A t \in Threads : gate[t] # Idle => Heeds(gate[t])

\* Versions are only appended.
LEMMA PoliciesGrow ==
  ASSUME TypeOK, [Next]_vars
  PROVE  /\ Len(policies) \in Nat /\ Len(policies') \in Nat /\ Len(policies) <= Len(policies')
         /\ \A i \in 1 .. Len(policies) : policies'[i] = policies[i]
<1>1. policies \in Seq(PolicyRows)
  BY DEF TypeOK
<1>2. CASE policies' = policies
  BY <1>1, <1>2
<1>3. ASSUME NEW row \in PolicyRows, policies' = Append(policies, row)
      PROVE  /\ Len(policies) \in Nat /\ Len(policies') \in Nat
             /\ Len(policies) <= Len(policies')
             /\ \A i \in 1 .. Len(policies) : policies'[i] = policies[i]
  BY <1>1, <1>3
<1>4. policies' = policies \/ \E row \in PolicyRows : policies' = Append(policies, row)
  BY DEF Next, Add, AddCompetence, AddAuthority, AddDelegation, RevokeDelegation, AddPolicy,
     Serve, BeginGate, ReadGrants, ReadDelegations, ReadPolicies, Release, ReadRevocations,
     tables, vars
<1>5. QED
  BY <1>2, <1>3, <1>4

LEMMA HeedsStays ==
  ASSUME TypeOK, [Next]_vars, NEW g, Heeds(g)
  PROVE  Heeds(g)'
<1>1. /\ Len(policies) \in Nat /\ Len(policies') \in Nat /\ Len(policies) <= Len(policies')
      /\ \A i \in 1 .. Len(policies) : policies'[i] = policies[i]
  BY PoliciesGrow
<1>2. g.versions \in Nat /\ g.versions <= Len(policies') /\ 1 .. g.versions \subseteq 1 .. Len(policies)
  BY <1>1 DEF Heeds
<1>3. \A i \in 1 .. g.versions : policies'[i] = policies[i]
  BY <1>1, <1>2
<1>4. QED
  BY <1>2, <1>3 DEF Heeds

LEMMA HeedsServe ==
  ASSUME GatesHeed, NEW t \in Threads, Serve(t), gate'[t] # Idle
  PROVE  Heeds(gate'[t])
<1>1. /\ policies \in Seq(PolicyRows) /\ Len(policies) \in Nat
      /\ DOMAIN policies = 1 .. Len(policies)
  BY DEF GatesHeed, TypeOK
<1>2. gate[t].step # "idle" => gate[t] \in Serving /\ Heeds(gate[t])
  BY DEF GatesHeed, TypeOK, Idle, Serving
<1>3. ASSUME NEW req \in Requests, BeginGate(t, req)
      PROVE  Heeds(gate'[t])
  <2>1. gate'[t].versions = Len(policies) /\ gate'[t].step = "read_grants"
    BY <1>3 DEF BeginGate, GatesHeed, TypeOK
  <2>2. QED
    BY <1>1, <2>1 DEF Heeds
<1>4. CASE ReadGrants(t) \/ ReadDelegations(t) \/ (\E d \in DelegationRows : ReadRevocations(t, d))
  <2>1. gate[t] \in Serving /\ Heeds(gate[t])
    BY <1>2, <1>4 DEF ReadGrants, ReadDelegations, ReadRevocations, At
  <2>2. gate'[t].versions = gate[t].versions /\ gate'[t].step # "answered"
    <3>1. CASE ReadGrants(t)
      BY <2>1, <3>1 DEF ReadGrants, GatesHeed, TypeOK, Serving
    <3>2. CASE ReadDelegations(t)
      BY <2>1, <3>2 DEF ReadDelegations, GatesHeed, TypeOK, Serving
    <3>3. ASSUME NEW d \in DelegationRows, ReadRevocations(t, d)
          PROVE  gate'[t].versions = gate[t].versions /\ gate'[t].step # "answered"
      BY <2>1, <3>3 DEF ReadRevocations, At, GatesHeed, TypeOK, Serving
    <3>4. QED
      BY <1>4, <3>1, <3>2, <3>3
  <2>3. QED
    BY <2>1, <2>2 DEF Heeds
<1>5. CASE ReadPolicies(t)
  <2>1. gate[t] \in Serving /\ Heeds(gate[t])
    BY <1>2, <1>5 DEF ReadPolicies, At
  <2>2. /\ gate'[t].versions = gate[t].versions /\ gate'[t].request = gate[t].request
        /\ gate'[t].effect = PolicyEffect(policies, gate[t].request)
    BY <1>5, <2>1 DEF ReadPolicies, GatesHeed, TypeOK, Serving
  <2>3. \A i \in 1 .. gate[t].versions : i \in DOMAIN policies
    BY <1>1, <2>1 DEF Heeds
  <2>4. QED
    BY <1>1, <2>1, <2>2, <2>3, UndeniedEffect DEF Heeds
<1>6. CASE Release(t)
  BY <1>6 DEF Release, GatesHeed, TypeOK
<1>7. QED
  BY <1>3, <1>4, <1>5, <1>6 DEF Serve

LEMMA HeedStep == GatesHeed /\ [Next]_vars => GatesHeed'
<1> SUFFICES ASSUME GatesHeed, [Next]_vars PROVE GatesHeed'
  OBVIOUS
<1>1. TypeOK'
  BY TypeStep DEF GatesHeed
<1>2. ASSUME NEW u \in Threads, gate'[u] = gate[u], gate'[u] # Idle
      PROVE  Heeds(gate[u])'
  BY <1>2, HeedsStays DEF GatesHeed
<1>3. ASSUME NEW t \in Threads, Serve(t), NEW u \in Threads, gate'[u] # Idle
      PROVE  Heeds(gate[u])'
  <2>1. /\ UNCHANGED tables
        /\ u # t => gate'[u] = gate[u]
    BY <1>3 DEF Serve, BeginGate, ReadGrants, ReadDelegations, ReadPolicies, Release,
                ReadRevocations, GatesHeed, TypeOK
  <2>2. CASE u # t
    BY <1>2, <1>3, <2>1, <2>2
  <2>3. CASE u = t
    BY <1>3, <2>1, <2>3, HeedsServe DEF Heeds, tables
  <2>4. QED
    BY <2>2, <2>3
<1>4. CASE Add
  BY <1>1, <1>2, <1>4 DEF Add, AddCompetence, AddAuthority, AddDelegation,
     RevokeDelegation, AddPolicy, GatesHeed
<1>5. CASE UNCHANGED vars
  BY <1>1, <1>2, <1>5 DEF vars, GatesHeed
<1>6. QED
  BY <1>1, <1>3, <1>4, <1>5 DEF Next, GatesHeed

(***************************************************************************)
(* For every set of threads, rows and requests: an action that a gate lets *)
(* pass is denied by no policy version committed before its request began, *)
(* whatever was committed while it was reading (enforce_governed_action).  *)
(***************************************************************************)
THEOREM DeniedIsRefused == Spec => []DeniedBeforeRequestIsRefused
<1>1. GatesHeed => DeniedBeforeRequestIsRefused
  BY DEF GatesHeed, Heeds, DeniedBeforeRequestIsRefused, Proceeds
<1>2. Init => GatesHeed
  BY DEF Init, GatesHeed, TypeOK, Idle
<1>3. QED
  BY <1>1, <1>2, HeedStep, PTL DEF Spec
=============================================================================
