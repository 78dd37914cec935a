# TLA+ specifications of the ANU kernel

The ANU kernel (`src/anu-phase1-kernel/src/anu_kernel`, about 7200 lines of Python: FastAPI
endpoints over SQLAlchemy) keeps the institutional record of a university: who may decide what,
which data and knowledge it holds, which capabilities it runs, and the governed work that
humans and agents do with them. Below, paths are relative to that directory.

## How the program executes

Endpoints are synchronous functions (but for the upload of an artifact), so the server runs each request on a thread of a pool with a
database session of its own (`api_dependencies.get_session`). There are no locks and no version
columns. Every `add_*` and `update_*` function of the repositories commits by itself
(`session.add`, `session.commit`; an `IntegrityError` rolls back and becomes a 409). So a request
is a *sequence of transactions*, and between two of them other requests run or the process dies.
What a handler read before a commit it may use after it. This is the execution model of the
modules: **one action per commit**, with the reads that precede the first commit in the same
action as the decision they feed.

## Inventory

| Component | State it keeps | Operations | Interacts with |
|---|---|---|---|
| Governed work runtime (`work_*.py`) | contracts, graphs, plans; work instances (state); transition, task and handover records | register contract/graph, plan, start, transition, execute task, request handover, replay | asks Authority and Policy for verdicts, Trust for signatures and attestations; runs assemblies of SBBS; appends to the audit log |
| Authority, delegation, policy (`services.py`, `repository.py`, `db.py`) | identities, roles, competences, grants, delegations, revocations, policy versions, decisions, audit events | add each of them, revoke, evaluate authority, evaluate policy, replay a decision | read by the work runtime and the enforcement gate |
| Trust (`trust.py`, `authn.py`, `enforcement.py`) | credentials, signature records, agent attestations | add, verify, enforce | read by the work runtime |
| SBBS runtime (`sbbs_runtime_*.py`) | transforms, adapters, compatibility evidence, connection plans, assemblies, executions, Write Box candidates | check, plan, execute a wire, execute an assembly, propose, promote | reads and extends the capability registry |
| Capability registry (`capability_*.py`) | capability versions, Smart Box manifests | register, discover | read by SBBS and the work runtime |
| Ingestion, retrieval, object store (`ingestion_*.py`, `object_store.py`, `retrieval.py`) | files by content hash, artifact versions, retrieval projections, memory | ingest, materialise knowledge, verify, search | provenance and lifecycle records of the kernel, knowledge of Reality |
| Reality (`reality_*.py`) | sources and their authority, data contracts, versions of data objects, knowledge, artifacts, memory | add each of them, project a data object in two times, walk the provenance graph, search | provenance records; its memory is indexed by Ingestion |
| Backup, media extraction, HTTP, migrations, scripts | - | - | - |

### Hard behaviours, and what makes each component correct

* **Governed work.** Two requests on one work interleave between their commits; a request decides
  on a state that is stale when it writes; a handler dies after some of the four commits of a
  refusal. Correct: no consequential action without the human approval its contract asks for;
  every state has a record; every refusal is handed over; the audit log accounts for the records.
* **Authority and policy.** Grants, delegations and revocations have validity periods; a verdict
  is stale when the work is written. Correct: a delegation never exceeds its parent; a revoked or
  expired one licenses nothing; unknown policy denies; replay answers what was known then.
* **Trust.** A credential is retired or revoked between signing and verification. Correct: a
  signature is valid for the person, work and artifact it was made for.
* **SBBS.** The registry changes between the compatibility check and the plan; an assembly fails
  midway and is retried; a promotion is three commits. Correct: a plan runs only what was proven
  compatible, in a context its target allows, and gives again what it gave; a recorded run is whole;
  a candidate is promoted with what is its own.
* **Ingestion and objects.** A crash leaves a prefix of an ingest, on the disk and in the tables,
  which a retry meets; a version is superseded while knowledge is made from it. Correct: a file has
  the bytes of its hash; a record rests on stored bytes and provenance; a superseded version is not
  found as current; what was answered stays found.
* **Reality.** A version is committed after a look at the versions there were; rows arrive in any
  order, predecessors after those that name them; rebuilds of the memory index race. Correct: epistemic
  types come in with first versions only, history leads back to one, what was known at a time is rewritten
  only by a version that claims to have been recorded by then, a provenance graph that
  was complete stays so, an answered rebuild has indexed what it found.
* **The work runtime and the kernel together.** A verdict is read table by table while rows are posted
  and delegations revoked, and the work is written later still. Correct: an approval on record rests on an
  evaluation of its own request, grounded in what the kernel holds.

`PROJECT.json` lists the hazards at their lines.

## Modules

| Module | Models | Notes |
|---|---|---|
| `WorkRules` | the rules of `work_services.py` and the contracts of `work_contracts.py` | pure operators, no state |
| `WorkRuntime` | the handlers of `work_services.py` over the tables of `work_models.py` | one action per commit |
| `GovernedWork` | what the work runtime promises, one step per request | abstract specification |
| `WorkRefinement` | the refinement mapping from `WorkRuntime` to `GovernedWork` | |
| `WorkReplay` | `replay_work`: the order in which the trace is answered | over `WorkRuntime`'s variables |
| `WorkDefinitions` | contracts, graphs and `plan_execution` | one action per query of the planner |
| `AuthorizedWork` | the work runtime, the authority kernel and the definitions in one database | composes `WorkRuntime`, `AuthorityKernel`, `WorkDefinitions` |
| `WorkRuntimeProofs` | theorems about `WorkRuntime`, and about `WorkRefinement` and `WorkReplay` when requests come one after the other | TLAPS |
| `AuthorityRules` | `active_*`, `validate_delegation`, `evaluate_authority` of `services.py` | pure operators over rows |
| `PolicyDecision` | `evaluate_policy` | the reading of effects item by item, and what it is for |
| `AuthorityKernel` | the authority tables of `repository.py` and the gate of `enforcement.py` | one action per commit or query |
| `DecisionReplay` | `replay_decision` over tables that record both times | its theorems are in it |
| `TrustKernel` | credentials, signatures, attestations and `trust.py` | verification is an operator |
| `Ingestion` | `object_store.py`, `ingestion_services.py`, `retrieval.py` | one action per file operation or commit |
| `ConnectionRules` | compatibility, transforms, adapters and boxes of `sbbs_runtime_services.py` | pure operators over rows |
| `CapabilityRuntime` | the capability registry and the handlers of `sbbs_runtime_services.py` | one action per commit |
| `Reality` | `reality_repository.py`, `reality_services.py`, and the rebuild of the memory index in `ingestion_services.py` | one action per post, query or commit |
| `MCWorkRuntime`, `MCAuthorizedWork`, `MCAuthorityKernel`, `MCDecisionReplay`, `MCTrustKernel`, `MCIngestion`, `MCCapabilityRuntime`, `MCReality` | rows and requests for TLC | |
| `AuthorizedWorkProofs`, `AuthorityKernelProofs`, `TrustKernelProofs`, `IngestionProofs`, `CapabilityRuntimeProofs`, `RealityProofs` | theorems | TLAPS |

### WorkRules

A handler collects reason codes and refuses when there is one; a rule is the conjunction of the
conditions under which none arises. `TransitionAccepted` stands for lines 540-609 of
`transition_work` and `TaskAccepted` for the branches of `execute_task`. What other components
answer is the verdict: the answers of `evaluate_authority` and `evaluate_policy`, whether a cited
authority or policy is among those they name, and what verification finds out about the signature and
the attestation. Evidence is a number because the code counts it. `WorkContract` admits only contracts that pass
`enforce_phase4_guardrails`.

### WorkRuntime

| Variable | In the program |
|---|---|
| `state[w]` | `WorkInstanceRecord.state`, or `"NONE"` before `start_work` |
| `trace[w]` | the three record tables of a work, in the order of their commits |
| `audits[w][type]` | how many audit events of the type the work has |
| `handler[t]` | where thread `t` is in its handler, the state it read, the record it carries |
| `crashes` | how many handlers died midway |

`StartWork`, `ReceiveTransition`, `ReceiveTask` and `RequestHandover` are the handlers' reading of the
work. `DecideTransition` and `DecideTask` are the decision, which comes later because the services are
asked in between, and uses the state that was read. The other actions are the commits in the order of
the code. `Crash(t)` drops a handler between two steps; a crash of the process is one such step for
each handler it had. A request that ends with an error before it reads the work (an unknown work or
node, missing provenance) changes nothing and is a stuttering step. A capability task whose assembly
raises is answered with an error, and neither refused nor recorded (`AssemblyRaises`): what the wires
left is in the tables of `CapabilityRuntime`. Contracts and graphs are immutable once they
are registered (the tables have no update), so they are constants.

`WriteHandedOver` reads the state again: SQLAlchemy expires the row at the commit before it. All
other writes use what the handler decided from its first read.

### GovernedWork and the refinement

`GovernedWork` has three variables: the phase of each work, its responsibility chain, and whether
it owes a handover. A work moves along the table, is refused into `BLOCKED` and then owes a
handover that comes before anything else, or is stopped by a handover an actor asks for.
`WorkRefinement` maps the state to the phase and the records whose state has been written to the
chain. It holds with one thread and no crash (`SequentialRuntimeKeepsPromise` proves it); with two
threads it does not, which the `state_projection_race` run shows for its simplest consequence.

### WorkReplay, WorkDefinitions and AuthorizedWork

`replay_work` sorts the rows of a trace by their time and then by the name of the event. A handler's
refusal and its handover carry one time, so the handover comes before the refusal that caused it, and
`ReplayExplainsState` says what a reader of the chain may still rely on: `StateAfter` is the state in which a
prefix of the chain leaves the work. `Stamp` numbers the times: requests one after the other have times of their
own. The sort is stated by what it does: the k-th item is the row with k - 1 rows before it (`RowsBefore`), which is
one row because no two rows of one time have the same type.

`WorkDefinitions` has the registered capability references, the contracts, the graphs in the order of
`recorded_at`, the plans, and the planning request each planner is in the middle of. `plan_execution`
reads the contract (`BeginPlan`), the newest active graph with its checks (`ReadGraph`), and commits
(`AddExecutionPlan`). `since` in a planning request and in a plan is history.

`AuthorizedWork` puts the three together. `WorkRuntime` is extended and `AuthorityKernel` instantiated with
`evaluation[t]`, the evaluation that the handler of thread `t` makes, in the place of its gate. A decision that
needs an authority waits for its evaluation (`Inquire`, then `Evaluate` query by query), whose answer restricts
the verdict (`Answers`); every other answer stays free. The evaluation's time is taken when it begins and the
policies are read at the time by then, as the code takes `_now()` twice. `StartPlanned` starts a work from a
plan under that plan's contract, and a task names a node of the plan's graph. `received` and `licences` are
history: what there was when a request came in, and for each record of a trace the evaluation it rests on.
A cited authority must be among those the evaluation names: `Answers` lets it be found only when the evaluation
has found one.

### AuthorityRules and PolicyDecision

The rules are pure functions of the rows they are given, so a gate may apply them to rows it read at
different moments. A row is a record with the columns that evaluation reads; a time is a number,
and `NoEnd` a missing `effective_to`. A scope is reduced to two keys, the one that evaluation reads
(`resource`) and one that only containment does (`context`); `"none"` is a missing value and `"*"`
any. Of a policy effect the model keeps what `evaluate_policy` looks at: ALLOW, DENY or something
else, and whether it requires a signature or anything else. `PolicyEffect` reads the applicable
versions newest first and stops at a DENY, as the code does: `NewestFirst` puts each version where its `Rank`, the
number of versions read before it, says, and `ReadVersions` and `ReadPolicy` are the two nested loops, as functions
of the number of entries read. `PolicyMeaning` says without an order what the versions mean together.

### AuthorityKernel

| Variable | In the program |
|---|---|
| `competences`, `grants`, `delegations`, `revocations` | the tables, as sets: rows are only added |
| `policies` | `policy_version`, in the order of `recorded_at` |
| `gate[t]` | which query of `enforce_governed_action` thread `t` has come to, and the answers so far |

`gate[t].revoked` and `gate[t].versions` are history: what the tables held when the request began. No
action reads them. An `add_*` whose key exists is rolled back and changes nothing, so it is the
action's guard; `AddDelegation` is one transaction with its validation. A gate never commits: its
actions are its queries, and every query sees what is committed by then. Grants are read twice by
the code (the subject's own, then the parent of each delegation); the second read may be joined to
the reading of policies because a row that a delegation needs was there when it was added.

### DecisionReplay

`now` counts commits and stamps `recorded_at`. The recorded time of a decision or of a transition is
posted by its client, which is taken to post the present; effective times are whatever clients
write. `Replay` is what `replay_decision` answers from the tables as they are now; whether it
answers at all, in a perspective and as of a time, is `Replayable`.

### TrustKernel

Verification commits nothing and may be asked for at any time, so it is an operator on the tables and
its properties say what a later commit may do to a verdict. A key is its holder, `signed_with` and
`tampered` stand for the cryptography. `SignerTypes` is a set because `session.scalar` takes any one
of the identities with the signer's subject. Nothing changes a credential once it is registered.

### Ingestion

| Variable | In the program |
|---|---|
| `object[c]`, `temporary[c]` | the files `<hash>` and `<hash>.tmp` of a content: absent, cut short or whole |
| `sources`, `mappings` | `source_registry`, `source_authority_mapping` |
| `provenance` | which record was made from which content |
| `versions`, `superseded` | `artifact_object_version`; its only mutable column, the lifecycle, is apart |
| `transitions`, `knowledge`, `memory` | `lifecycle_transition`, `knowledge_object_version`, the memory records |
| `projection[ref]` | the lifecycle of the retrieval projection of a version or knowledge object |
| `ingest`, `handler[t]` | the next step and the request of the ingest, and of each materialisation |
| `answered` | history: the records whose request came to its end; no action reads it |

The ingest endpoint is `async def` and awaits nothing while it ingests, so a server process has one
ingest at a time; materialisations run on threads beside it and beside each other. Several
server processes over one object directory are not modelled: they would share the temporary file and
race between the validation and the commit of a version. `CrashIngest` and `CrashMaterialize` are
the death of a handler or an error of the database or the disk between two steps; a retry is the same
request again, which meets whatever the first one left. The API always posts an ingest as `ACTIVE`.
A further version of an artifact supersedes one of its versions; a first version may name any
version, of another artifact too, and clients are taken not to let it name itself. What extraction
yields is reduced to whether it yields anything (`Extractable`).

### ConnectionRules and CapabilityRuntime

| Variable | In the program |
|---|---|
| `capabilities`, `boxes` | `capability_version`, `smart_box_manifest_version` |
| `transforms`, `adapters` | `transform_version`, `adapter_version` |
| `evidence`, `plans`, `assemblies` | `compatibility_evidence`, `connection_plan_version`, `assembly_version` |
| `wires`, `runs` | `wire_execution_record`, `assembly_execution_record` |
| `stage[p]` | the stage of the candidate that proposal `p` made, or `"NONE"` |
| `handler[t]` | where thread `t` is: planning, running an assembly or promoting, and what it carries |

`BeginPlan` is `plan_connection` up to the commit of its evidence and `CommitPlan` the rest, which
reads capabilities and boxes again; the evidence of a check that fails is that of
`CheckCompatibility`. `BeginAssembly` runs the first box, which commits nothing; each `RunWire` is the
commit of a wire, `FailWire` the error of one, `RecordRun` the commit of the run. `PromoteCapability`,
`PromoteBox` and `CommitStage` are the three commits of `promote_write_box_candidate`. `Crash` drops
a handler between two of them. An `add_*` whose key exists is rolled back, so the key is a guard.

What an operation `needs` is the union of its permissions, its security tags and its policies with
those of its capability: each is compared with a set of the context in the same way. A payload
is the set of its fields, because handlers and transforms fail on missing fields and look at nothing
else. Boxes are numbered in the order in which `_pick_box` sorts them; the queries for a transform or an
adapter have no order, so `Evaluations` is a set. Evidence, plans and execution records have fresh
identifiers; two that agree in all else are one element here. A request whose provenance is
missing, or whose actor does not own the candidate, changes nothing. Retry and observability
policies are stored and never read.

`PlansAreProven` speaks of the boxes' runtimes only where the request named its boxes: for one that
does not, a box registered between the two reads of `plan_connection` may be planned that was
not compared (`_pick_box` takes the first), and the plan then has no adapter for it. A promotion that
dies after its first commit leaves its capability without its box, and its candidate `VERIFIED` for
good: every retry stops at the conflict.

### Reality

| Variable | In the program |
|---|---|
| `sources`, `mappings`, `contracts`, `provenance` | `source_registry`, `source_authority_mapping`, `data_contract_version`, `provenance_record` |
| `versions` | `data_object_version`; `first` is history: its handler had found no version of the object |
| `knowledge`, `artifacts`, `memory` | `knowledge_object_version`, `ingested_artifact`, `university_memory_record` |
| `index` | the memory records that have a retrieval projection |
| `handler[t]` | a post of a version between its checks and its commit, or a rebuild and what is left of it |
| `rebuilt` | history: what the answered rebuilds found when they began |

Rows are only added. A check that finds a row stays true, so the posts that only look for rows are one action.
`add_data_object` also finds that there is *no* version, which another handler may change before it
commits: it is two actions. A rebuild reads the memory once and then looks for each entry and commits it; one that
loses the race to the unique constraint ends with a conflict (`EntryConflict`) and is not answered.
`project_data`, `provenance_graph` and what `search_memory` may find are operators on the tables.
`Projection` is a set because `max` takes any one of the rows with the same time; its `known_at` is `NoEnd`
where the request names no recorded time. A scope
has one key. `_authoritative_mapping` does not look at the period of a mapping, so the model's mappings have none.

`recorded_time` is what the client posts (`reality_repository.py:191`): no clock is asked and it is not
compared with that of the version it supersedes, in the model as in the code. So a version that is posted
late with an early `recorded_time` changes what `project_data` answers for a past time, and one from the future hides every
later correction. What an answer about the past is worth is therefore what the recorded times are
worth: `OnlyLateVersionsRewrite` says that nothing *else* changes one, no correction, fork, race or version of
another period or object that is recorded after the time asked for.

## Runs

| Run | Instance | Question |
|---|---|---|
| `work_race` | 1 E3 work, 2 threads, 1 crash, 4 records, the requests of the path to `ACTION_AUTHORIZED` with a complete approval, one that cites no authority and policy and one by an agent; tasks accepted and refused; handovers | `TypeOK`, `ApprovalBeforeAction`, `StateHasRecord`, `RefusedTasksHandedOver`, `AuditAccountsForTrace` |
| `sequential` | 1 work, 1 thread, every transition by an agent, the approvals, missing evidence, a signature of another work, every verdict, capability tasks that raise, 6 records | `ApprovalStands`, `ReplayExplainsState`, `ImplementsGovernedWork`, and under fairness `RefusalLeadsToHandover` |
| `state_projection_race` | 2 threads | `StateIsProjection` is violated |
| `authority` | 1 gate thread, 2 grants (one with a competence) and a second row for the key of the first, delegations within and beyond them, 2 revocations, 5 kinds of policy version of which 2 are added | `TypeOK`, `DelegationWithinGrant`, `OnlyRevocationWithdraws`, `RevokedBeforeRequestIsUnused`, `DeniedBeforeRequestIsRefused`, `PolicyEffectIsMeaning` |
| `decision_replay` | 4 policy versions with a gap and an overlap, a role, a competence, 2 decisions, 2 transitions; 5 commits | `OnlyLateRowsChangeReplay`, `CompleteReplayStays` |
| `replay_as_of` | the same without roles and competences; 3 commits | `ReplayShowsItsTime` is violated |
| `trust` | a signer whose role, competence, grant and credential end at different times, forged and tampered signatures, identities registered later, attestations before, in and after two delegations, 2 revocations, a clock to 3 | `AttestedUnderGrant`, `SignatureStands`, `OnlyRevocationWithdrawsAttestation` |
| `ingestion` | 2 artifacts, 3 version ids, 6 requests (two successors of one version, one that changes the type, one that supersedes another artifact's version, one whose mapping has ended), 2 contents, 2 materialisations under one reference, any number of crashes and retries | `TypeOK`, `StoredObjectsAreWhole`, `RecordsAreGrounded`, `SearchFindsCurrent`, `SupersededOnce`, `AnsweredIsFound` |
| `superseded_history` | a version and its successor, any number of crashes | `SupersededHasTransition` is violated |
| `capability` | 2 threads; a retrieval, a summary and a publication; a summary from either of two candidates with needs and constraints that differ, in two runtimes; a transform, an adapter, 3 connection requests (one names its boxes), an assembly of two plans, contexts with and without what is needed; any number of crashes | `PlansAreProven`, `WiresAreGated`, `RunsAreWhole`, `PromotionsStand` |
| `reality` | 2 threads, 2 data objects, 4 version ids, 6 envelopes (two first versions of different types, corrections of either in overlapping periods, one that names another object's version, one recorded before what it corrects), 2 provenance ids with records that lead in a circle, 2 memory records; any number of crashes | `TypeOK`, `TypesComeFirst`, `HistoryReachesFirst`, `RebuiltIsIndexed`, `OnlyLateVersionsRewrite`, `CompleteGraphStands` |
| `authorized_work` | 1 work, 1 handler and 1 planner; a professor with a grant and an agent with its delegation, 1 revocation, policies that allow and deny from a time; 2 active graphs and a retired one, an active and a retired row of the contract; a clock to 2, 1 crash, 4 records | `GovernedTypeOK`, `ApprovalsAreLicensed`, `ActionsAreLicensed`, `PlansRestOnDefinitions` |

**Bounds.** `MaxTrace` stops new requests on a work once it has that many records (a handler that
is under way may add a few more), `MaxCrashes` bounds crashes. Works do not share state, so one work
is enough. Two threads give every pair of interleaved handlers, which is what stale reads
need. With four records a handler may still begin the fifth, which reaches `ACTION_AUTHORIZED`
(`CONTEXT_READY`, `IN_PROGRESS`, `REVIEW_REQUIRED`, `APPROVED`, `ACTION_AUTHORIZED`); six let a
sequential work recover from a refusal and come back to review. One crash leaves a handler's
prefix for the other to meet. Threads are symmetric in the runs without liveness.

In the other modules the rows clients may post are finite sets, so the tables fill up: the sets hold
one row on either side of each boundary (a period's end, a revocation's time, a version's start),
which is what the comparisons of the code can tell apart. `MaxPolicies` = 2 is enough for a
version that denies and one that allows in both orders; `MaxCommits` = 5 for a decision, its
authority, its policy version and two later ones. `CHECK_DEADLOCK FALSE` stands where
the bound ends the commits (`decision_replay`, `replay_as_of`), in `superseded_history`, where a successor that came
first makes every later request invalid, in `capability`, whose requests end with its bounds, and in
`authorized_work`, where the tables fill up, the clock stops and the constraint ends the rest; the gate, the work
runtime, the trust tables and Reality can always go on.
`Ingestion` has no bound: its requests are few and can be sent again as often as one likes. One materialising
thread is enough for the rows it shares with the ingest, two requests for those it leaves behind.

`MaxEvidence` = `MaxPlans` = 2 give the two plans of a chain, or two plans for one request from before
and after a registration; `MaxRuns` = 2 the wires of one run, or those of two that share them. Each of two
threads is at any step of its plan, run or promotion while the other goes through its own.

Two constraints keep what does not interact apart. `Apart` (`reality`) does not post data objects beside
knowledge, memory and rebuilds: they share the provenance only, which neither changes. `Phased`
(`authorized_work`) lets the definitions be posted and planned in every order first; then the work runs on one
outcome of that, is brought to its review, and only from there on are the kernel's rows posted, time
passes, tasks run and the approval is asked for, at any time and in any order. The definitions do not
change once a work is started but for further versions, which a started work does not read. `PlanIds`
bounds the plans and `MaxTime` the clock. `Times` are those that versions are recorded at and asked for.
The proofs assume none of these constraints.

**Fairness.** `FairSpec` has weak fairness on `Commit(t)`: a thread the server schedules finishes
its handler. There is none on requests (clients owe nothing) or crashes. One thread is enough for
`RefusalLeadsToHandover`: no handler waits for another, and what a thread must commit next does
not depend on the state of the work.

**Violations.** The three runs that end in a violation are the `findings` of `PROJECT.json`, each
against a sentence of the documentation. `replay_as_of` has one cause: after it
has decided whether to answer, `replay_decision` does not use the requested time.
`superseded_history`: an ingest that dies between the commit of the supersession and that of its
transition leaves a superseded version with no transition, and the retry, which conflicts on the
version, never adds it.

Four more places where code and text disagree are in the definitions and have no run: for the first three a
property could only repeat the guard, and of the fourth `TypesComeFirst` says what is left.

* `work_services.py:414`: the ceiling of an E3 agent before the decision depends on the state alone, and the
  transition table leads from `IN_PROGRESS` to `EXECUTED` with no approval (`AllowedTransitions`, `PostDecision`).
  `ARCHITECTURE.md:193`: "E3 pre-decision Agent execution above A2 is blocked".
* `services.py:54`: a delegation that leaves out a key its grant restricts is contained in the grant
  (`ScopeContains`). The docstring at line 52: "child may narrow but never broaden".
* `reality_repository.py:128`: an official data object is accepted on a mapping whose period has ended
  (`AuthoritativeMapping`). `ARCHITECTURE.md:45`: "fails closed without a matching active/effective
  source-authority mapping". The ingestion of artifacts does look at the period.
* `reality_repository.py:154`: two first versions of a data object that are posted together may have
  different epistemic types, which the message at line 161 calls immutable.

A handler that dies within `_block_and_handover` leaves a refusal without its handover, and nothing completes it
(`RefusalLeadsToHandover` holds without crashes only); what holds with crashes is that nothing is
*reported* as handed over that was not (`RefusedTasksHandedOver`).

## Proofs

`WorkRuntimeProofs` proves, for all works, threads, contracts that pass the guardrails, requests,
verdicts and bounds (assumptions `ContractsAssumption`, `RequestsAssumption`, `BoundsAssumption`):

* `TypeCorrect`: `Spec => []TypeOK`. The invariant adds `RecordFits`: a thread that will write a
  requested state carries a transition record.
* `ActionIsApproved`: `Spec => []ApprovalBeforeAction`. The property is not inductive, because a
  handler writes a state that it checked commits ago. The strengthening `WriteIsLicensed` says that
  a handler about to record a transition into an action state carries a complete approval or finds
  one in the trace, and one about to write the state finds it in the trace. It survives the other
  handlers because the trace only grows (`TraceGrows`): the state read may be stale, the licence
  cannot be.
* `StateIsRecorded`: `Spec => []StateHasRecord`. The strengthening `RecordsFirst` says that a handler
  about to write a state has its record in the trace.
* `RefusedAreHandedOver`: `Spec => []RefusedTasksHandedOver`, and `AuditAccounts`: `Spec => []AuditAccountsForTrace`,
  by one invariant, the `Ledger`. It balances, for each work, the records of each kind with the audit events and with
  the handlers that have made one of the two entries (`Carriers`); a dead handler leaves one entry open. A commit
  changes the weight of one handler (`CarriersMove`) and at most one record (`HitsAppend`), so for each action the
  five balances are a table of small numbers (`Carried`, `Gains`). `Threads` need not be finite.

Its second part assumes besides that requests come one after the other and no handler dies (`Sequential`: one
thread, `MaxCrashes` = 0), which is how `GovernedWork` and the replay see a work; with two threads TLC refutes the
three properties. It proves, for all works, guarded contracts, requests, verdicts and bounds:

* `SequentialRuntimeKeepsPromise`: `Spec => ImplementsGovernedWork`, the refinement step by step. The write of a
  state is the abstract move, refusal or stop, the commit of the handover pays for the refusal, and every other commit
  stutters. The invariant is `Orderly`: what a handler read is still so when it writes (`FreshRead`), it carries a
  move of the table or its own refusal (`CarriesMove`), the newest record is the one whose state it is about to write
  (`RecordIsLast`), and a refusal at the end of a trace is still in hand (`RefusalsInHand`). The responsibility chain
  is a recursive function of the trace; its lemmas (`LinksUnfold`, `LinksOfPrefix`) are inductions on its length,
  written as the least element of a set of numbers (`SetInduction`), which needs no operator parameter.
* `SequentialApprovalStands`: `Spec => []ApprovalStands`, by `Explained`: up to the record whose state is still to be
  written, every record starts where those before it ended (`Follows`), the records put the work in the state it is
  in (`StandsIn`), and in an action state there is an approval followed by nothing but tasks and actions (`ApprovedBy`).
* `SequentialReplayExplains`: `Spec => []ReplayExplainsState`, by the same invariant. `Place` says where each item of
  the replay stands in the trace: a handover and the refusal it pays for change places, everything else stays.
  `CountBefore` counts the rows before an item, so `Place` is the order of the replay (`ReplayPlaces`), and a prefix of
  the replay leaves the work where a prefix of the trace does (`ReplayTells`).

`AuthorizedWorkProofs` proves every property of the `authorized_work` run for all works, threads, rows, policies,
requests and clocks, under the assumptions of the modules it composes:

* `GovernedActionIsApproved`: `ApprovalBeforeAction` of `WorkRuntime`, proved there for every verdict, carries over
  to the verdicts the kernel gives. The lemma `GovernedIsRuntime` under it only says how the module is
  composed: each step is one of the work runtime with more conditions, or leaves its variables alone.
* `PlansAreSound` by `DefinitionsFit`: what a planner has read is still so when it commits, because contracts
  and graphs are only added and the newest of the graphs there were stays the newest of those (`NewestStays`).
* `ApprovalsLicensed` by `Licensing`: an evaluation under way is *reliable*, that is, what it holds follows from rows
  that are still there, about its own request and not older than it (`EvaluationReliable`); a handler about
  to record an approval carries a reliable evaluation that allowed it; what a licence says of a record
  stays true as rows are added (`ReliableStays`, `PostGrows`). That a delegation in use was not revoked when the
  request was received is said of a set that was read then and does not grow with the table.
* `ActionsLicensed` joins the two: a work in an action state has a complete approval in its trace, whatever stale
  state its handlers wrote, and every such record has its licence.
* `GovernedTypeCorrect` by `Planned`: every started work keeps its plan, and every record has its licence.

`AuthorityKernelProofs` (`RowsAssumption`: rows and requests have the columns the model gives them):

* `TypeCorrect`, and from it `DelegatedWithinGrant`: the two grants that `Delegates` looks up are one
  because keys are unique, and the periods nest.
* `VerdictsStand`: `Spec => OnlyRevocationWithdraws`, with no invariant: every rule is monotone in
  every table but the revocations (`CompetencesGrow`, `StandingGrow`, `DelegatesGrow`, `MatchedGrow`).
* `RevokedIsUnused` and `StandingStands`: the strengthening `GatesSound` says what a gate knows while
  the tables move: its standing grants follow from competences it found, which are still
  there, and no delegation it holds was revoked when it began.
* `EffectMeans`: `Spec => []PolicyEffectIsMeaning`, from `EffectIsMeaning` for any table of policies. After k entries what
  was seen `Means` the entries read (`PolicyMeans`, `VersionsMean`, by induction on k); the ranks of the applicable
  versions are distinct and fill the places from 0 (`ReadingIsAnOrder`, `RanksAreTaken`), so every version is read
  (`EveryVersionIsRead`).
* `DeniedIsRefused`: `Spec => []DeniedBeforeRequestIsRefused`. The strengthening `GatesHeed`: the versions there were when
  the gate began are still at their places, since the table grows at its end, and the effect it has read heeds all of
  them.

`TrustKernelProofs`: `TypeCorrect`; `AttestationsAreGranted`, whose strengthening `DelegationsValid`
says that a delegation stays valid whatever is added; `AttestationsStand`; `SignaturesStand`.

`DecisionReplay` itself: `TypeCorrect`; `HistoryStands`; `CompleteStays`, where a later version takes the
place of a newest one but never leaves none (`NewestStays`: the order is transitive).

`IngestionProofs` (`RequestsAssumption`) proves every property of the `ingestion` run for all
contents, requests and threads:

* `TypeCorrect`, and `ObjectsAreWhole` by `FilesSound`: when the rename comes, the temporary file is whole.
* `RecordsAlwaysGrounded` by `RecordsSound`: an ingest past its file has the object whole, past its
  provenance has the record of it; nothing removes either.
* `TypesAgree` and `OfficialAlwaysAuthorized` by `ChecksStand`: the validation, made steps before the version
  is committed, still holds then: the type agrees with *all* versions of the artifact although the
  code compares it with any one of them, and the mappings only grow.
* `SearchIsCurrent` and `SupersessionStands` by `HistorySound`: a version still to be projected has not been
  superseded, and one being superseded has no transition yet.
* `AnswersStand` by `AnswersSound`: an answered record has no handler still to write its projection.

`RealityProofs` (`RowsAssumption`) proves every property of the `reality` run for all rows, threads and times:

* `TypeCorrect`.
* `TypesEnterFirst` and `HistoriesReachFirst` by `DataInv`: a version about to be committed was checked (`CheckedPosts`):
  unless its handler found none, its type and its predecessor are those of versions that are there, and stay there.
* `LateVersionsRewrite`: the versions are a growing set and one step adds one at most (`AnswersStep`), so what was
  recorded last among the old candidates gives way only to the new one, and only if it says it was recorded no earlier.
* `CompleteGraphs`: in a complete graph every reference has its record, records are unique and do not change, so a new
  one is outside and the least closed set of references is the same.
* `EverythingFoundIsGrounded` (`FoundIsGrounded`: whatever a search may find, and every artifact, has its provenance).
* `RebuildsIndexAll` by `IndexInv`: what a rebuild read is in the index, left to do, or the record in hand.

`CapabilityRuntimeProofs` (`RowsAssumption`) proves every property of the `capability` run for all rows,
requests, payloads and threads:

* `PromotedStand` by `PromotionInv`: a candidate past its first commit holds its capability, one past
  its second its box, and no two hold the same reference. A promotion that begins finds its reference
  free, so nobody holds it; steps of other kinds are `Steady`.
* `RecordedRunsAreWhole` by `RunInv`: a run under way has the records of its first wires (`SoFar`).
* `EveryPlanIsProven` and `EveryWireIsGated` by `PlanInv`: what a check found is still so when the plan
  commits, since references are unique (`OperationIsOne`) and rows only added (`OperationStays`,
  `NamedBoxStays`), although the plan is made from a second reading.
* `EveryWireReplays` by `BridgeInv`: an output stays an output (`OutputStays`) and is the only one
  (`OutputIsOne`), because a plan has one box and at most one transform.
* `TypeCorrect`.

Some theorems state properties that no run checks any more, because a run's time is better spent
on others: `StandingVerdictStands`, `OneEpistemicType`, `OfficialIsAuthorized`, `WiresReplay`, `FoundIsGrounded`, and the type
invariants of `TrustKernel`, `DecisionReplay` and `CapabilityRuntime`.

Every invariant and action property of the passing runs, and the refinement, are stated by a theorem. What is
model-checked only is `RefusalLeadsToHandover`: liveness under fairness, which is beyond the prover. The runs
`sequential` and `authority` check the three properties of one thread and the two of the policies on an instance.

## Not modelled

Wording, hashes, payloads; the ranking of searches; extraction of text from media; backup; HTTP routing;
migrations and scripts. Of the authority kernel: identities' assurance, semantic
definitions, audit and event rows, which are inserts that no rule reads. Bearer
tokens: a request of the gate carries the identity it was authenticated as. Two gates do not
interact, since they commit nothing, so `authority` has one. Times are numbers: SQLite gives a
time back without its offset, which `_cmp_dt` takes to be UTC, so with bounds posted at another offset the periods of
the model are shifted ones. Of SBBS and the registry: the search for capabilities and its ranking, the order of the
records of executions, and the lifecycle of plans and assemblies, which nothing changes. Of Reality: validation
states, which are stored as posted, and the payloads.

Limits of the code that the models state as they are and no document contradicts: only the first human
approval point of a contract is enforced (`FirstHumanPoint`); `add_policy` does not end the period of the version
it supersedes; a credential's revocation is a field of the row that registers it, so an active one
cannot be revoked; an evaluation may combine a delegation that is revoked meanwhile with a policy that comes later.

## Plan

Done: `WorkRules`, `WorkRuntime`, `GovernedWork`, `WorkRefinement`, `WorkReplay`, `WorkDefinitions`; `AuthorityRules`,
`PolicyDecision`, `AuthorityKernel`, `AuthorizedWork`; `DecisionReplay`; `TrustKernel`; `Ingestion`; `ConnectionRules`,
`CapabilityRuntime`; `Reality`; their proofs.

Left, in this order:

1. The capability tasks of `WorkRuntime` composed with `CapabilityRuntime`: what a task leaves whose assembly fails
   midway and is sent again.
2. `AuthorizedWork` with the tables of `TrustKernel`, so that signatures and attestations are answered by it.
