------------------------------ MODULE Ingestion ------------------------------
(***************************************************************************)
(* Artifacts come in as files.  An ingest stores the bytes under their     *)
(* hash and then commits, one after the other, a provenance record, the    *)
(* version, the supersession of an earlier version, a retrieval projection *)
(* and a memory record.  Knowledge is materialised from a version the same *)
(* way.  A handler may die before any of its steps, and a client may send  *)
(* its request again.                                                      *)
(*                                                                         *)
(* The ingest endpoint is a coroutine that does not await while it         *)
(* ingests, so a server ingests one artifact at a time; materialisations   *)
(* run in threads beside it.                                               *)
(***************************************************************************)
EXTENDS AuthorityRules

CONSTANTS
  Artifacts, Versions, KnowledgeRefs, Sources, SemanticTypes, Institutions, Threads,
  Contents,            \* the bytes of files; a hash stands for its content
  Extractable,         \* contents whose extraction gives text or metadata
  \* What clients may post:
  SourceRows, MappingRows, Requests, Materializations

Refs == Versions \cup KnowledgeRefs

Official == {"FACT", "EVIDENCE", "DECISION"}

EpistemicType == Official \cup {"CLAIM", "INFERENCE", "PREDICTION", "RECOMMENDATION"}

Lifecycle == {"ACTIVE", "OTHER"}

AuthorityScope == [institution: Institutions \cup {"none", "*"}]

SourceRegistry ==
  [source_id: Sources, lifecycle_state: Lifecycle, effective_from: Nat, effective_to: Nat]

SourceAuthorityMapping ==
  [source_ref: Sources, semantic_type: SemanticTypes, authority_scope: AuthorityScope,
   authoritative: BOOLEAN, lifecycle_state: Lifecycle,
   effective_from: Nat, effective_to: Nat]

\* A request and, once committed, the version it made; only the lifecycle changes then.
ArtifactObjectVersion ==
  [version_id: Versions, artifact_id: Artifacts, content: Contents, source_ref: Sources,
   semantic_type: SemanticTypes, authority_scope: AuthorityScope, observed_at: Nat,
   epistemic_type: EpistemicType, supersedes_ref: Versions \cup {"none"}]

KnowledgeRequest ==
  [knowledge_ref: KnowledgeRefs, artifact_version_ref: Versions,
   lifecycle_state: Lifecycle]

\* Clients are taken not to let a version supersede itself, which the code accepts for the
\* first version of an artifact.
ASSUME RequestsAssumption ==
  /\ SourceRows \subseteq SourceRegistry /\ MappingRows \subseteq SourceAuthorityMapping
  /\ Requests \subseteq ArtifactObjectVersion
  /\ Materializations \subseteq KnowledgeRequest
  /\ Versions \cap KnowledgeRefs = {} /\ "none" \notin Versions
  /\ \A r \in Requests : r.supersedes_ref # r.version_id

VARIABLES
  object, temporary,           \* [Contents -> FileState]: <hash> and <hash>.tmp
  sources, mappings,           \* source_registry, source_authority_mapping
  provenance,                  \* which record was made from which content
  versions,                    \* artifact_object_version, without its lifecycle
  superseded,                  \* the ids of versions whose lifecycle_state is SUPERSEDED
  transitions,                 \* lifecycle_transition
  knowledge,                   \* knowledge_object_version
  projection,                  \* [Refs -> lifecycle_state of the retrieval projection]
  memory,                      \* what the memory records are about
  ingest,                      \* the ingest under way: its next step and its request
  handler,                     \* [Threads -> materialisation under way]
  answered                     \* history: records whose request was answered

files     == <<object, temporary>>
registry  == <<sources, mappings>>
lifecycle == <<superseded, transitions>>
records   == <<provenance, versions, knowledge, memory>>
vars == <<files, registry, lifecycle, records, projection, ingest, handler, answered>>

FileState == {"absent", "partial", "whole"}

Idle == [pc |-> "idle"]

At(pc, request) == [pc |-> pc, request |-> request]

IngestStep == {"put", "write", "rename", "provenance", "version", "supersede",
               "transition", "project", "memory"}

KnowledgeStep == {"knowledge", "project", "memory"}

\* Type correctness: a version has one row, one source one registration, and one
\* knowledge reference one record.
TypeOK ==
  /\ object \in [Contents -> FileState] /\ temporary \in [Contents -> FileState]
  /\ sources \subseteq SourceRows /\ mappings \subseteq MappingRows
  /\ \A s, u \in sources : s.source_id = u.source_id => s = u
  /\ provenance \subseteq [entity: Refs, content: Contents]
  /\ versions \subseteq Requests
  /\ \A v, u \in versions : v.version_id = u.version_id => v = u
  /\ superseded \subseteq Versions
  /\ transitions \subseteq [object_ref: Versions, superseded_by_ref: Versions]
  /\ knowledge \subseteq Materializations
  /\ \A k, l \in knowledge : k.knowledge_ref = l.knowledge_ref => k = l
  /\ projection \in [Refs -> {"NONE", "SUPERSEDED"} \cup Lifecycle]
  /\ memory \subseteq Refs /\ answered \subseteq Refs
  /\ \/ ingest = Idle
     \/ \E pc \in IngestStep, r \in Requests : ingest = At(pc, r)
  /\ DOMAIN handler = Threads
  /\ \A t \in Threads :
       \/ handler[t] = Idle
       \/ \E pc \in KnowledgeStep, m \in Materializations : handler[t] = At(pc, m)

Init ==
  /\ object = [c \in Contents |-> "absent"] /\ temporary = object
  /\ sources = {} /\ mappings = {}
  /\ provenance = {} /\ versions = {} /\ knowledge = {} /\ memory = {}
  /\ superseded = {} /\ transitions = {}
  /\ projection = [r \in Refs |-> "NONE"]
  /\ ingest = Idle /\ handler = [t \in Threads |-> Idle]
  /\ answered = {}

-----------------------------------------------------------------------------
\* What a request is checked against

AddSource(row) ==
  /\ \A s \in sources : s.source_id # row.source_id
  /\ sources' = sources \cup {row}
  /\ UNCHANGED <<files, mappings, lifecycle, records, projection, ingest, handler, answered>>

AddSourceAuthority(row) ==
  /\ \E s \in sources : s.source_id = row.source_ref
  /\ mappings' = mappings \cup {row}
  /\ UNCHANGED <<files, sources, lifecycle, records, projection, ingest, handler, answered>>

\* source_is_authoritative
SourceIsAuthoritative(r) ==
  \E m \in mappings :
    /\ m.source_ref = r.source_ref /\ m.semantic_type = r.semantic_type
    /\ m.authoritative
    /\ InForce(m, r.observed_at)
    /\ ScopeContains(m.authority_scope, r.authority_scope)

\* A further version of an artifact supersedes one of its versions and keeps to a type.
SupersedesValidly(r) ==
  LET previous == {v \in versions : v.artifact_id = r.artifact_id}
  IN  previous # {} =>
        /\ \E v \in previous : v.version_id = r.supersedes_ref
        /\ \E v \in previous : v.epistemic_type = r.epistemic_type

ValidIngestRequest(r) ==
  /\ \E s \in sources : s.source_id = r.source_ref /\ InForce(s, r.observed_at)
  /\ r.epistemic_type \in Official => SourceIsAuthoritative(r)
  /\ SupersedesValidly(r)

-----------------------------------------------------------------------------
\* FileSystemObjectStore.put

\* Mutant: the bytes are not stored.
BeginUnstored(r) ==
  /\ ingest = Idle /\ ValidIngestRequest(r)
  /\ ingest' = At("provenance", r)
  /\ UNCHANGED <<files, registry, lifecycle, records, projection, handler, answered>>

BeginIngest(r) ==
  /\ ingest = Idle /\ ValidIngestRequest(r)
  /\ ingest' = At("put", r)
  /\ UNCHANGED <<files, registry, lifecycle, records, projection, handler, answered>>

\* The object is there: it is read back and has to have its hash.
FindStored(r) ==
  /\ ingest = At("put", r) /\ object[r.content] # "absent"
  /\ ingest' = IF object[r.content] = "whole" THEN At("provenance", r) ELSE Idle
  /\ UNCHANGED <<files, registry, lifecycle, records, projection, handler, answered>>

\* Mutant: the object is written in place.
OpenObject(r) ==
  /\ ingest = At("put", r) /\ object[r.content] = "absent"
  /\ object' = [object EXCEPT ![r.content] = "partial"]
  /\ ingest' = At("write", r)
  /\ UNCHANGED <<temporary, registry, lifecycle, records, projection, handler, answered>>

\* Opening a file for writing creates or empties it.
OpenTemporary(r) ==
  /\ ingest = At("put", r) /\ object[r.content] = "absent"
  /\ temporary' = [temporary EXCEPT ![r.content] = "partial"]
  /\ ingest' = At("write", r)
  /\ UNCHANGED <<object, registry, lifecycle, records, projection, handler, answered>>

WriteTemporary(r) ==
  /\ ingest = At("write", r)
  /\ temporary' = [temporary EXCEPT ![r.content] = "whole"]
  /\ ingest' = At("rename", r)
  /\ UNCHANGED <<object, registry, lifecycle, records, projection, handler, answered>>

\* os.replace
RenameTemporary(r) ==
  /\ ingest = At("rename", r)
  /\ object' = [object EXCEPT ![r.content] = temporary[r.content]]
  /\ temporary' = [temporary EXCEPT ![r.content] = "absent"]
  /\ ingest' = At("provenance", r)
  /\ UNCHANGED <<registry, lifecycle, records, projection, handler, answered>>

-----------------------------------------------------------------------------
\* The commits of ingest_bytes

AddProvenance(r) ==
  /\ ingest = At("provenance", r)
  /\ provenance' = provenance \cup {[entity |-> r.version_id, content |-> r.content]}
  /\ ingest' = At("version", r)
  /\ UNCHANGED <<files, registry, lifecycle, versions, knowledge, memory, projection,
                 handler, answered>>

\* Mutant: the row is added whatever the table holds.
AddVersionAgain(r) ==
  /\ ingest = At("version", r)
  /\ versions' = versions \cup {r}
  /\ ingest' = At(IF r.supersedes_ref = "none" THEN "project" ELSE "supersede", r)
  /\ UNCHANGED <<files, registry, lifecycle, provenance, knowledge, memory, projection,
                 handler, answered>>

AddArtifactVersion(r) ==
  /\ ingest = At("version", r)
  /\ \A v \in versions : v.version_id # r.version_id
  /\ versions' = versions \cup {r}
  /\ ingest' = At(IF r.supersedes_ref = "none" THEN "project" ELSE "supersede", r)
  /\ UNCHANGED <<files, registry, lifecycle, provenance, knowledge, memory, projection,
                 handler, answered>>

\* RepositoryConflict: the version exists, from a request that may have died after it.
VersionConflict(r) ==
  /\ ingest = At("version", r)
  /\ \E v \in versions : v.version_id = r.version_id
  /\ ingest' = Idle
  /\ UNCHANGED <<files, registry, lifecycle, records, projection, handler, answered>>

SupersedeRow(r) ==
  /\ superseded' = superseded \cup {r.supersedes_ref}
  /\ ingest' = At("transition", r)
  /\ UNCHANGED <<files, registry, transitions, records, handler, answered>>

\* Mutant: the projection of the superseded version is left as it is.
SupersedeVersionOnly(r) ==
  /\ ingest = At("supersede", r)
  /\ \E v \in versions : v.version_id = r.supersedes_ref
  /\ r.supersedes_ref \notin superseded
  /\ SupersedeRow(r) /\ UNCHANGED projection

\* Mutant: a version is superseded whatever its lifecycle.
SupersedeAgain(r) ==
  /\ ingest = At("supersede", r)
  /\ \E v \in versions : v.version_id = r.supersedes_ref
  /\ SupersedeRow(r)
  /\ projection' = [projection EXCEPT ![r.supersedes_ref] =
                      IF @ = "NONE" THEN "NONE" ELSE "SUPERSEDED"]

\* An active version and its projection, if it has one, change in one commit.
SupersedePrevious(r) ==
  /\ ingest = At("supersede", r)
  /\ \E v \in versions : v.version_id = r.supersedes_ref
  /\ r.supersedes_ref \notin superseded
  /\ SupersedeRow(r)
  /\ projection' = [projection EXCEPT ![r.supersedes_ref] =
                      IF @ = "NONE" THEN "NONE" ELSE "SUPERSEDED"]

NothingToSupersede(r) ==
  /\ ingest = At("supersede", r)
  /\ \/ r.supersedes_ref \in superseded
     \/ \A v \in versions : v.version_id # r.supersedes_ref
  /\ ingest' = At("project", r)
  /\ UNCHANGED <<files, registry, lifecycle, records, projection, handler, answered>>

AddLifecycleTransition(r) ==
  /\ ingest = At("transition", r)
  /\ transitions' = transitions \cup
       {[object_ref |-> r.supersedes_ref, superseded_by_ref |-> r.version_id]}
  /\ ingest' = At("project", r)
  /\ UNCHANGED <<files, registry, superseded, records, projection, handler, answered>>

\* Mutant: only the first version of an artifact is projected.
ProjectFirst(r) ==
  /\ ingest = At("project", r)
  /\ projection' = [projection EXCEPT ![r.version_id] =
                      IF r.supersedes_ref = "none" THEN "ACTIVE" ELSE @]
  /\ ingest' = At("memory", r)
  /\ UNCHANGED <<files, registry, lifecycle, records, handler, answered>>

\* upsert_retrieval_projection: nobody else projects this version.
ProjectArtifact(r) ==
  /\ ingest = At("project", r)
  /\ projection' = [projection EXCEPT ![r.version_id] = "ACTIVE"]
  /\ ingest' = At("memory", r)
  /\ UNCHANGED <<files, registry, lifecycle, records, handler, answered>>

\* The last commit; the request is answered.
AddMemoryRecord(r) ==
  /\ ingest = At("memory", r)
  /\ memory' = memory \cup {r.version_id}
  /\ answered' = answered \cup {r.version_id}
  /\ ingest' = Idle
  /\ UNCHANGED <<files, registry, lifecycle, provenance, versions, knowledge, projection,
                 handler>>

\* The handler dies, or fails on an error of the database or the disk.
CrashIngest ==
  /\ ingest # Idle /\ ingest' = Idle
  /\ UNCHANGED <<files, registry, lifecycle, records, projection, handler, answered>>

Ingest(r) ==
  \/ BeginIngest(r) \/ FindStored(r) \/ OpenTemporary(r) \/ WriteTemporary(r)
  \/ RenameTemporary(r) \/ AddProvenance(r) \/ AddArtifactVersion(r)
  \/ VersionConflict(r) \/ SupersedePrevious(r) \/ NothingToSupersede(r)
  \/ AddLifecycleTransition(r) \/ ProjectArtifact(r) \/ AddMemoryRecord(r)

-----------------------------------------------------------------------------
\* materialize_knowledge_object

MaterializedFrom(m) == {v \in versions : v.version_id = m.artifact_version_ref}

\* The version is read, whatever its lifecycle, and the provenance committed.
BeginMaterialize(t, m) ==
  /\ handler[t] = Idle
  /\ \E v \in MaterializedFrom(m) :
       /\ v.content \in Extractable
       /\ provenance' =
            provenance \cup {[entity |-> m.knowledge_ref, content |-> v.content]}
  /\ handler' = [handler EXCEPT ![t] = At("knowledge", m)]
  /\ UNCHANGED <<files, registry, lifecycle, versions, knowledge, memory, projection,
                 ingest, answered>>

AddKnowledgeObject(t, m) ==
  /\ handler[t] = At("knowledge", m)
  /\ \A k \in knowledge : k.knowledge_ref # m.knowledge_ref
  /\ knowledge' = knowledge \cup {m}
  /\ handler' = [handler EXCEPT ![t] = At("project", m)]
  /\ UNCHANGED <<files, registry, lifecycle, provenance, versions, memory, projection,
                 ingest, answered>>

KnowledgeConflict(t, m) ==
  /\ handler[t] = At("knowledge", m)
  /\ \E k \in knowledge : k.knowledge_ref = m.knowledge_ref
  /\ handler' = [handler EXCEPT ![t] = Idle]
  /\ UNCHANGED <<files, registry, lifecycle, records, projection, ingest, answered>>

ProjectKnowledge(t, m) ==
  /\ handler[t] = At("project", m)
  /\ projection' = [projection EXCEPT ![m.knowledge_ref] = m.lifecycle_state]
  /\ handler' = [handler EXCEPT ![t] = At("memory", m)]
  /\ UNCHANGED <<files, registry, lifecycle, records, ingest, answered>>

AddKnowledgeMemory(t, m) ==
  /\ handler[t] = At("memory", m)
  /\ memory' = memory \cup {m.knowledge_ref}
  /\ answered' = answered \cup {m.knowledge_ref}
  /\ handler' = [handler EXCEPT ![t] = Idle]
  /\ UNCHANGED <<files, registry, lifecycle, provenance, versions, knowledge, projection,
                 ingest>>

CrashMaterialize(t) ==
  /\ handler[t] # Idle
  /\ handler' = [handler EXCEPT ![t] = Idle]
  /\ UNCHANGED <<files, registry, lifecycle, records, projection, ingest, answered>>

Materialize(t, m) ==
  \/ BeginMaterialize(t, m) \/ AddKnowledgeObject(t, m) \/ KnowledgeConflict(t, m)
  \/ ProjectKnowledge(t, m) \/ AddKnowledgeMemory(t, m)

Next ==
  \/ \E row \in SourceRows : AddSource(row)
  \/ \E row \in MappingRows : AddSourceAuthority(row)
  \/ \E r \in Requests : Ingest(r)
  \/ CrashIngest
  \/ \E t \in Threads, m \in Materializations : Materialize(t, m)
  \/ \E t \in Threads : CrashMaterialize(t)

Spec == Init /\ [][Next]_vars

-----------------------------------------------------------------------------
\* verify_artifact_integrity: what it answers of the bytes of a version.
IntegrityState(v) ==
  CASE object[v.content] = "absent"  -> "MISSING"
    [] object[v.content] = "partial" -> "FAIL"
    [] object[v.content] = "whole"   -> "PASS"

\* retrieve: what a search may find.
Retrievable == {ref \in Refs : projection[ref] = "ACTIVE"}

\* Whatever an ingest that died left on the disk, a file under a hash has all its bytes:
\* put only ever renames a complete file (FileSystemObjectStore.put).
StoredObjectsAreWhole == \A c \in Contents : object[c] \in {"absent", "whole"}

\* Every version verifies and has a provenance record made from its content, and every
\* knowledge object has one made from a recorded version that could be extracted,
\* although bytes, provenance and record are written apart (ingest_bytes,
\* materialize_knowledge_object).
RecordsAreGrounded ==
  /\ \A v \in versions :
       /\ IntegrityState(v) = "PASS"
       /\ [entity |-> v.version_id, content |-> v.content] \in provenance
  /\ \A k \in knowledge : \E v \in versions :
       /\ v.version_id = k.artifact_version_ref /\ v.content \in Extractable
       /\ [entity |-> k.knowledge_ref, content |-> v.content] \in provenance

\* A search never finds a superseded version, and hides no other version that was
\* indexed, through every crash and retry (ingest_bytes, retrieve).
SearchFindsCurrent ==
  \A v \in versions :
    projection[v.version_id] # "NONE" =>
      (v.version_id \in Retrievable <=> v.version_id \notin superseded)

\* A version is superseded by a version that is recorded, and its transition says by
\* which and says so once, although several versions may name it (ingest_bytes).
SupersededOnce ==
  /\ \A id \in superseded : \E v \in versions : v.supersedes_ref = id
  /\ \A x \in transitions :
       /\ x.object_ref \in superseded
       /\ \E v \in versions :
            v.version_id = x.superseded_by_ref /\ v.supersedes_ref = x.object_ref
       /\ \A y \in transitions : y.object_ref = x.object_ref => y = x

\* All versions of an artifact have one epistemic type (validate_ingest_request compares
\* with any earlier version and commits later).
OneEpistemicType ==
  \A v, u \in versions :
    v.artifact_id = u.artifact_id => v.epistemic_type = u.epistemic_type

\* An official version comes from a source that was registered and authoritative for its
\* meaning and scope when it was observed (validate_ingest_request).
OfficialIsAuthorized ==
  \A v \in versions : v.epistemic_type \in Official =>
    /\ \E s \in sources : s.source_id = v.source_ref /\ InForce(s, v.observed_at)
    /\ \E m \in mappings :
         /\ m.authoritative
         /\ m.source_ref = v.source_ref /\ m.semantic_type = v.semantic_type
         /\ InForce(m, v.observed_at)
         /\ ScopeContains(m.authority_scope, v.authority_scope)

\* What was answered stays in memory and in the index, in the lifecycle it was given until
\* it is superseded (ingest_bytes, materialize_knowledge_object).
AnsweredIsFound ==
  /\ answered \subseteq memory
  /\ \A v \in versions : v.version_id \in answered =>
       projection[v.version_id] =
         IF v.version_id \in superseded THEN "SUPERSEDED" ELSE "ACTIVE"
  /\ \A k \in knowledge : k.knowledge_ref \in answered =>
       projection[k.knowledge_ref] = k.lifecycle_state

\* Supersession is kept with an explicit transition, once no ingest is under way.
SupersededHasTransition ==
  ingest = Idle => \A id \in superseded : \E x \in transitions : x.object_ref = id
=============================================================================
