------------------------------- MODULE Reality -------------------------------
(***************************************************************************)
(* What the university holds to be so: the sources it hears from, the      *)
(* contracts of its data, the versions of its data objects in two times,   *)
(* the provenance they come from, and its memory with an index that is     *)
(* rebuilt from it.  Rows are added and never changed or deleted.          *)
(*                                                                         *)
(* A post is one commit after checks on rows that only ever arrive, so     *)
(* check and commit are one action, but for add_data_object: it finds that *)
(* a data object has no version yet, and commits later.  A rebuild of the  *)
(* memory index reads the memory once and then, record by record, looks    *)
(* for the entry and commits.  A handler may die before any of its steps.  *)
(***************************************************************************)
EXTENDS AuthorityRules, FiniteSets

CONSTANTS
  DataIds, VersionIds, Sources, SemanticTypes, Institutions, ProvenanceIds, MemoryIds,
  Threads,
  \* What clients may post:
  MappingRows, ContractRows, ProvenanceRows, Envelopes, KnowledgeRows, ArtifactRows,
  MemoryRows,
  Times                \* the times that projections are asked for

Lifecycle == {"ACTIVE", "OTHER"}

Official == {"FACT", "EVIDENCE", "DECISION"}

EpistemicType == Official \cup {"CLAIM", "INFERENCE", "PREDICTION", "RECOMMENDATION"}

\* authority_scope by one key: the institutions it admits, all of them for a wildcard.
SourceAuthorityMapping ==
  [source_ref: Sources, semantic_type: SemanticTypes, authority_scope: SUBSET Institutions,
   authoritative: BOOLEAN, lifecycle_state: Lifecycle]

DataContract ==
  [contract_ref: SemanticTypes, semantic_definition: SemanticTypes,
   authoritative_source: Sources \cup {"none"}, lifecycle_state: Lifecycle]

ProvenanceRecord ==
  [provenance_id: ProvenanceIds, previous_provenance_refs: SUBSET ProvenanceIds]

\* A posted envelope.  synthetic_not_authoritative rejects synthetic output that claims to
\* be official.  recorded_time is what the client says: it is compared with nothing, and
\* may lie before that of a version which is there, or in the future.
DataEnvelope ==
  {e \in [version_id: VersionIds, data_id: DataIds, contract_ref: SemanticTypes,
          semantic_type: SemanticTypes, source: Sources,
          institution: Institutions \cup {"none"}, epistemic_type: EpistemicType,
          synthetic_output: BOOLEAN, provenance_ref: ProvenanceIds,
          supersedes_ref: VersionIds \cup {"none"},
          effective_from: Nat, effective_to: Nat, recorded_time: Nat] :
     e.synthetic_output => e.epistemic_type \notin Official}

KnowledgeObject == [knowledge_ref: STRING, provenance_ref: ProvenanceIds]

IngestedArtifact == [artifact_id: STRING, source_ref: Sources, provenance_ref: ProvenanceIds]

MemoryRecord == [memory_id: MemoryIds, provenance_ref: ProvenanceIds]

ASSUME RowsAssumption ==
  /\ MappingRows \subseteq SourceAuthorityMapping /\ ContractRows \subseteq DataContract
  /\ ProvenanceRows \subseteq ProvenanceRecord /\ Envelopes \subseteq DataEnvelope
  /\ KnowledgeRows \subseteq KnowledgeObject /\ ArtifactRows \subseteq IngestedArtifact
  /\ MemoryRows \subseteq MemoryRecord
  /\ "none" \notin VersionIds \cup MemoryIds
  /\ Times \subseteq Nat

VARIABLES
  sources, mappings, contracts, provenance,  \* the tables, as sets of rows
  versions,            \* data_object_version
  knowledge, artifacts,
  memory,              \* university_memory_record
  index,               \* the memory records that have a retrieval projection
  handler,             \* the request each thread is in the middle of
  rebuilt              \* history: what the answered rebuilds read when they began

registry == <<sources, mappings, contracts>>
records  == <<versions, knowledge, artifacts, memory>>
vars == <<registry, provenance, records, index, handler, rebuilt>>

\* first: the handler that committed the version had found none (history).
DataObjectVersion == [envelope: Envelopes, first: BOOLEAN]

Idle == [step |-> "idle"]

Posting == [step: {"commit_version"}, version: DataObjectVersion]

\* read: the memory when the rebuild began.  todo: what is left of it.  record: the
\* record whose entry was looked for last.
Rebuilding ==
  {h \in [step: {"look_up", "insert", "update"}, read: SUBSET MemoryIds,
          todo: SUBSET MemoryIds, record: MemoryIds \cup {"none"}] :
     h.record = "none" => h.step = "look_up"}

\* Type correctness: rows are those posted, with unique keys.
TypeOK ==
  /\ sources \subseteq Sources /\ mappings \subseteq MappingRows
  /\ contracts \subseteq ContractRows
  /\ \A c, d \in contracts : c.contract_ref = d.contract_ref => c = d
  /\ provenance \subseteq ProvenanceRows
  /\ \A p, q \in provenance : p.provenance_id = q.provenance_id => p = q
  /\ versions \subseteq DataObjectVersion
  /\ \A v, u \in versions : v.envelope.version_id = u.envelope.version_id => v = u
  /\ knowledge \subseteq KnowledgeRows /\ artifacts \subseteq ArtifactRows
  /\ memory \subseteq MemoryRows
  /\ \A m, n \in memory : m.memory_id = n.memory_id => m = n
  /\ index \subseteq MemoryIds
  /\ handler \in [Threads -> {Idle} \cup Posting \cup Rebuilding]
  /\ rebuilt \subseteq MemoryIds

Init ==
  /\ sources = {} /\ mappings = {} /\ contracts = {} /\ provenance = {}
  /\ versions = {} /\ knowledge = {} /\ artifacts = {} /\ memory = {} /\ index = {}
  /\ handler = [t \in Threads |-> Idle]
  /\ rebuilt = {}

-----------------------------------------------------------------------------
\* Posts of one commit.  A row whose key exists is rolled back: nothing changes.

Known(ref) == \E p \in provenance : p.provenance_id = ref

AddSource(source) ==
  /\ sources' = sources \cup {source}
  /\ UNCHANGED <<mappings, contracts, provenance, records, index, handler, rebuilt>>

AddSourceAuthority(row) ==
  /\ row.source_ref \in sources
  /\ mappings' = mappings \cup {row}
  /\ UNCHANGED <<sources, contracts, provenance, records, index, handler, rebuilt>>

\* Mutant: a contract may be registered again.
AddDataContractAgain(row) ==
  /\ row.authoritative_source \in sources \cup {"none"}
  /\ contracts' = contracts \cup {row}
  /\ UNCHANGED <<sources, mappings, provenance, records, index, handler, rebuilt>>

AddDataContract(row) ==
  /\ row.authoritative_source \in sources \cup {"none"}
  /\ \A c \in contracts : c.contract_ref # row.contract_ref
  /\ contracts' = contracts \cup {row}
  /\ UNCHANGED <<sources, mappings, provenance, records, index, handler, rebuilt>>

\* Mutant: a record may be posted again with other predecessors.
AddProvenanceAgain(row) ==
  /\ provenance' = {p \in provenance : p.provenance_id # row.provenance_id} \cup {row}
  /\ UNCHANGED <<registry, records, index, handler, rebuilt>>

\* The records that a new one names as its predecessors are not looked for.
AddProvenance(row) ==
  /\ ~Known(row.provenance_id)
  /\ provenance' = provenance \cup {row}
  /\ UNCHANGED <<registry, records, index, handler, rebuilt>>

AddKnowledgeObject(row) ==
  /\ Known(row.provenance_ref)
  /\ \A k \in knowledge : k.knowledge_ref # row.knowledge_ref
  /\ knowledge' = knowledge \cup {row}
  /\ UNCHANGED <<registry, provenance, versions, artifacts, memory, index, handler, rebuilt>>

AddIngestedArtifact(row) ==
  /\ row.source_ref \in sources /\ Known(row.provenance_ref)
  /\ \A a \in artifacts : a.artifact_id # row.artifact_id
  /\ artifacts' = artifacts \cup {row}
  /\ UNCHANGED <<registry, provenance, versions, knowledge, memory, index, handler, rebuilt>>

\* Posted, or the last commit of an ingest.
AddMemoryRecord(row) ==
  /\ Known(row.provenance_ref)
  /\ \A m \in memory : m.memory_id # row.memory_id
  /\ memory' = memory \cup {row}
  /\ UNCHANGED <<registry, provenance, versions, knowledge, artifacts, index, handler, rebuilt>>

-----------------------------------------------------------------------------
\* add_data_object

VersionsOf(id) == {v \in versions : v.envelope.data_id = id}

\* _authoritative_mapping, which does not look at the mapping's period.
AuthoritativeMapping(e) ==
  \E m \in mappings :
    /\ m.source_ref = e.source /\ m.semantic_type = e.semantic_type
    /\ m.authoritative /\ m.lifecycle_state = "ACTIVE"
    /\ e.institution = "none" \/ e.institution \in m.authority_scope

\* _contract_row
ContractHolds(e) ==
  \E c \in contracts :
    /\ c.contract_ref = e.contract_ref /\ c.lifecycle_state = "ACTIVE"
    /\ c.semantic_definition = e.semantic_type

\* Mutant: the epistemic type is not compared.
SupersedesAny(e) ==
  VersionsOf(e.data_id) # {} =>
    \E v \in VersionsOf(e.data_id) : v.envelope.version_id = e.supersedes_ref

\* Mutant: the predecessor may be a version of any data object.
SupersedesAnywhere(e) ==
  VersionsOf(e.data_id) # {} =>
    /\ \E v \in VersionsOf(e.data_id) : v.envelope.epistemic_type = e.epistemic_type
    /\ \E v \in versions : v.envelope.version_id = e.supersedes_ref

\* A further version has the type of one that exists, and supersedes one that exists.
SupersedesValidly(e) ==
  VersionsOf(e.data_id) # {} =>
    /\ \E v \in VersionsOf(e.data_id) : v.envelope.epistemic_type = e.epistemic_type
    /\ \E v \in VersionsOf(e.data_id) : v.envelope.version_id = e.supersedes_ref

Acceptable(e) ==
  /\ e.source \in sources
  /\ ContractHolds(e)
  /\ Known(e.provenance_ref)
  /\ SupersedesValidly(e)
  /\ e.epistemic_type \in Official => AuthoritativeMapping(e)

\* The checks.
BeginDataObject(t, e) ==
  /\ handler[t] = Idle
  /\ Acceptable(e)
  /\ handler' = [handler EXCEPT ![t] =
       [step |-> "commit_version",
        version |-> [envelope |-> e, first |-> VersionsOf(e.data_id) = {}]]]
  /\ UNCHANGED <<registry, provenance, records, index, rebuilt>>

\* The commit, or the conflict when the version id is taken meanwhile.
CommitDataObject(t) ==
  /\ handler[t].step = "commit_version"
  /\ IF \E v \in versions : v.envelope.version_id = handler[t].version.envelope.version_id
       THEN UNCHANGED versions
       ELSE versions' = versions \cup {handler[t].version}
  /\ handler' = [handler EXCEPT ![t] = Idle]
  /\ UNCHANGED <<registry, provenance, knowledge, artifacts, memory, index, rebuilt>>

-----------------------------------------------------------------------------
\* rebuild_memory_projection

MemoryNow == {m.memory_id : m \in memory}

BeginRebuild(t) ==
  /\ handler[t] = Idle
  /\ handler' = [handler EXCEPT ![t] =
       [step |-> "look_up", read |-> MemoryNow, todo |-> MemoryNow, record |-> "none"]]
  /\ UNCHANGED <<registry, provenance, records, index, rebuilt>>

\* Mutant: what was looked for last decides of all that are left.
LookUpOnce(t, m) ==
  /\ handler[t].step = "look_up" /\ m \in handler[t].todo
  /\ handler' = [handler EXCEPT
       ![t].step   = IF m \in index THEN "update" ELSE "insert",
       ![t].record = m,
       ![t].todo   = IF m \in index THEN {} ELSE @ \ {m}]
  /\ UNCHANGED <<registry, provenance, records, index, rebuilt>>

\* upsert_retrieval_projection: the query, in whatever order the memory was read ...
LookUp(t, m) ==
  /\ handler[t].step = "look_up" /\ m \in handler[t].todo
  /\ handler' = [handler EXCEPT
       ![t].step   = IF m \in index THEN "update" ELSE "insert",
       ![t].record = m,
       ![t].todo   = @ \ {m}]
  /\ UNCHANGED <<registry, provenance, records, index, rebuilt>>

\* ... the entry is written again as it is: memory records do not change ...
UpdateEntry(t) ==
  /\ handler[t].step = "update"
  /\ handler' = [handler EXCEPT ![t].step = "look_up"]
  /\ UNCHANGED <<registry, provenance, records, index, rebuilt>>

\* ... or inserted ...
InsertEntry(t) ==
  /\ handler[t].step = "insert" /\ handler[t].record \notin index
  /\ index' = index \cup {handler[t].record}
  /\ handler' = [handler EXCEPT ![t].step = "look_up"]
  /\ UNCHANGED <<registry, provenance, records, rebuilt>>

\* ... unless another rebuild was faster: the rebuild ends with a conflict.
EntryConflict(t) ==
  /\ handler[t].step = "insert" /\ handler[t].record \in index
  /\ handler' = [handler EXCEPT ![t] = Idle]
  /\ UNCHANGED <<registry, provenance, records, index, rebuilt>>

\* The rebuild is answered.
FinishRebuild(t) ==
  /\ handler[t].step = "look_up" /\ handler[t].todo = {}
  /\ rebuilt' = rebuilt \cup handler[t].read
  /\ handler' = [handler EXCEPT ![t] = Idle]
  /\ UNCHANGED <<registry, provenance, records, index>>

\* A handler dies.
Crash(t) ==
  /\ handler[t] # Idle
  /\ handler' = [handler EXCEPT ![t] = Idle]
  /\ UNCHANGED <<registry, provenance, records, index, rebuilt>>

-----------------------------------------------------------------------------
Add ==
  \/ \E source \in Sources : AddSource(source)
  \/ \E row \in MappingRows : AddSourceAuthority(row)
  \/ \E row \in ContractRows : AddDataContract(row)
  \/ \E row \in ProvenanceRows : AddProvenance(row)
  \/ \E row \in KnowledgeRows : AddKnowledgeObject(row)
  \/ \E row \in ArtifactRows : AddIngestedArtifact(row)
  \/ \E row \in MemoryRows : AddMemoryRecord(row)

Rebuild(t) ==
  \/ BeginRebuild(t) \/ UpdateEntry(t) \/ InsertEntry(t) \/ EntryConflict(t)
  \/ FinishRebuild(t)
  \/ \E m \in MemoryIds : LookUp(t, m)

Next ==
  \/ Add
  \/ \E t \in Threads :
       \/ \E e \in Envelopes : BeginDataObject(t, e)
       \/ CommitDataObject(t) \/ Rebuild(t) \/ Crash(t)

Spec == Init /\ [][Next]_vars

-----------------------------------------------------------------------------
\* What readers are answered

\* What claims to be recorded by known_at, everything when no such time is given (NoEnd).
RecordedBy(v, known_at) == known_at = NoEnd \/ v.envelope.recorded_time <= known_at

RecordedNoLater(u, v) == u.envelope.recorded_time <= v.envelope.recorded_time

\* Mutant: a projection knows what was recorded later.
ProjectionInHindsight(id, effective_at, known_at) ==
  LET candidates == {v \in VersionsOf(id) : ActivePeriod(v.envelope, effective_at)}
  IN  {v \in candidates : \A u \in candidates : RecordedNoLater(u, v)}

\* project_data: of the versions in effect at a time and recorded by another, any one that
\* was recorded last, whatever its lifecycle and whatever supersedes it.
Projection(id, effective_at, known_at) ==
  LET candidates == {v \in VersionsOf(id) :
        ActivePeriod(v.envelope, effective_at) /\ RecordedBy(v, known_at)}
  IN  {v \in candidates : \A u \in candidates : RecordedNoLater(u, v)}

\* The references that contain ref and, with a record, its predecessors.
ClosedFrom(ref, refs) ==
  /\ ref \in refs
  /\ \A p \in provenance : p.provenance_id \in refs => p.previous_provenance_refs \subseteq refs

\* provenance_graph: the references that the walk from ref visits.
Ancestry(ref) ==
  {q \in ProvenanceIds :
     \A refs \in SUBSET ProvenanceIds : ClosedFrom(ref, refs) => q \in refs}

\* completeness_status: no visited reference is missing.
Complete(ref) == \A q \in Ancestry(ref) : Known(q)

\* search_memory: the provenance references of everything a search may find.
Searchable ==
  {v.envelope.provenance_ref : v \in versions} \cup {k.provenance_ref : k \in knowledge}
  \cup {m.provenance_ref : m \in memory}

-----------------------------------------------------------------------------
\* The epistemic type of a data object is immutable but for one race: a type comes in only
\* with a version whose handler had found no version of the object.  So an object that was
\* created by one request at a time has one type for good (add_data_object; ADR-0004).
TypesComeFirst ==
  \A v \in versions : \E u \in VersionsOf(v.envelope.data_id) :
    u.first /\ u.envelope.epistemic_type = v.envelope.epistemic_type

\* The supersession references of a further version lead back to a first version of the
\* same object: a set of versions that holds the first ones, and with a version those that
\* supersede it, holds all.  What a first version names is not looked at (add_data_object).
HistoryReachesFirst ==
  \A id \in DataIds : \A ids \in SUBSET VersionIds :
    (\A v \in VersionsOf(id) :
       v.first \/ v.envelope.supersedes_ref \in ids => v.envelope.version_id \in ids)
    => \A v \in VersionsOf(id) : v.envelope.version_id \in ids

\* Version v, new in this step, is answered of its object as in effect at a time and known
\* at another, alone or beside what was answered before.  It says that it was recorded by
\* then, and no earlier than that.
LateVersion(v, id, at, known_at) ==
  LET before == Projection(id, at, known_at)
      after  == Projection(id, at, known_at)'
  IN  /\ v.envelope.data_id = id
      /\ ActivePeriod(v.envelope, at) /\ RecordedBy(v, known_at)
      /\ v \in after /\ after \subseteq before \cup {v}
      /\ \A u \in before : RecordedNoLater(u, v)

AnswersStand ==
  \A id \in DataIds, at \in Times, known_at \in Times \cup {NoEnd} :
    Projection(id, at, known_at)' # Projection(id, at, known_at) =>
      \E v \in versions' \ versions : LateVersion(v, id, at, known_at)

(***************************************************************************)
(* History is rewritten by nothing but a version that claims to belong to  *)
(* it.  What was known at a time of a data object, in effect at any time,  *)
(* stays the answer whatever corrections, forks and versions of other      *)
(* periods or objects are committed in whatever order, unless one says     *)
(* that it was recorded by that time; and a version that says it was       *)
(* recorded earlier than what is answered never takes its place            *)
(* (project_data).                                                         *)
(***************************************************************************)
OnlyLateVersionsRewrite == [][AnswersStand]_vars

CompleteStands ==
  \A ref \in ProvenanceIds : Complete(ref) =>
    Complete(ref)' /\ Ancestry(ref)' = Ancestry(ref)

\* A provenance graph that was answered as COMPLETE stays complete and the same, although
\* predecessors are not checked and may be posted in any order (provenance_graph).
CompleteGraphStands == [][CompleteStands]_vars

\* Whatever can be found by a search, and every ingested artifact, has its provenance.
FoundIsGrounded ==
  /\ \A ref \in Searchable : Known(ref)
  /\ \A a \in artifacts : Known(a.provenance_ref)

\* A rebuild that was answered has indexed every memory record that existed when it
\* began, whatever other rebuilds and posts it met (rebuild_memory_projection).
RebuiltIsIndexed == rebuilt \subseteq index
=============================================================================
