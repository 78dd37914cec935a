--------------------------- MODULE IngestionProofs ---------------------------
(***************************************************************************)
(* Theorems about Ingestion for every set of files, sources and requests,  *)
(* whichever handlers die and whatever is sent again.                      *)
(***************************************************************************)
EXTENDS Ingestion, TLAPS

-----------------------------------------------------------------------------
\* Type correctness

LEMMA TypeInit == Init => TypeOK
BY DEF Init, TypeOK, FileState, Refs, Idle

\* The version whose transition is about to be recorded is superseded already.
Superseding == \A r \in Requests :
  ingest = At("transition", r) => r.supersedes_ref \in superseded

LEMMA IngestTypes ==
  ASSUME TypeOK, Superseding, NEW r \in Requests, Ingest(r)
  PROVE  TypeOK'
<1> USE DEF files, registry, lifecycle, records, Refs, FileState, IngestStep
<1> r \in ArtifactObjectVersion
  BY RequestsAssumption
<1> /\ r.version_id \in Versions /\ r.content \in Contents
    /\ r.supersedes_ref \in Versions \cup {"none"}
  BY DEF ArtifactObjectVersion
<1>1. CASE BeginIngest(r)
  BY <1>1 DEF TypeOK, BeginIngest
<1>2. CASE FindStored(r)
  BY <1>2 DEF TypeOK, FindStored
<1>3. CASE OpenTemporary(r)
  BY <1>3 DEF TypeOK, OpenTemporary
<1>4. CASE WriteTemporary(r)
  BY <1>4 DEF TypeOK, WriteTemporary
<1>5. CASE RenameTemporary(r)
  BY <1>5 DEF TypeOK, RenameTemporary
<1>6. CASE AddProvenance(r)
  BY <1>6 DEF TypeOK, AddProvenance
<1>7. CASE AddArtifactVersion(r)
  BY <1>7 DEF TypeOK, AddArtifactVersion
<1>8. CASE VersionConflict(r)
  BY <1>8 DEF TypeOK, VersionConflict
<1>9. CASE SupersedePrevious(r)
  <2>1. r.supersedes_ref \in Versions
    BY <1>9, RequestsAssumption
    DEF TypeOK, SupersedePrevious, ArtifactObjectVersion
  <2>2. QED
    BY <1>9, <2>1 DEF TypeOK, SupersedePrevious, SupersedeRow
<1>10. CASE NothingToSupersede(r)
  BY <1>10 DEF TypeOK, NothingToSupersede
<1>11. CASE AddLifecycleTransition(r)
  BY <1>11 DEF TypeOK, AddLifecycleTransition, Superseding
<1>12. CASE ProjectArtifact(r)
  BY <1>12 DEF TypeOK, ProjectArtifact, Lifecycle
<1>13. CASE AddMemoryRecord(r)
  BY <1>13 DEF TypeOK, AddMemoryRecord
<1>14. QED
  BY <1>1, <1>2, <1>3, <1>4, <1>5, <1>6, <1>7, <1>8, <1>9, <1>10, <1>11, <1>12, <1>13
  DEF Ingest

LEMMA KnowledgeTypes ==
  ASSUME TypeOK, NEW t \in Threads, NEW m \in Materializations, Materialize(t, m)
  PROVE  TypeOK'
<1> USE DEF files, registry, lifecycle, records, Refs, KnowledgeStep
<1> m \in KnowledgeRequest
  BY RequestsAssumption
<1> m.knowledge_ref \in KnowledgeRefs /\ m.lifecycle_state \in Lifecycle
  BY DEF KnowledgeRequest
<1>1. CASE BeginMaterialize(t, m)
  <2>1. PICK v \in versions :
          provenance' =
            provenance \cup {[entity |-> m.knowledge_ref, content |-> v.content]}
    BY <1>1 DEF BeginMaterialize, MaterializedFrom
  <2>2. v.content \in Contents
    BY RequestsAssumption DEF TypeOK, ArtifactObjectVersion
  <2>3. QED
    BY <1>1, <2>1, <2>2 DEF TypeOK, BeginMaterialize
<1>2. CASE AddKnowledgeObject(t, m)
  BY <1>2 DEF TypeOK, AddKnowledgeObject
<1>3. CASE KnowledgeConflict(t, m)
  BY <1>3 DEF TypeOK, KnowledgeConflict
<1>4. CASE ProjectKnowledge(t, m)
  BY <1>4 DEF TypeOK, ProjectKnowledge
<1>5. CASE AddKnowledgeMemory(t, m)
  BY <1>5 DEF TypeOK, AddKnowledgeMemory
<1>6. QED
  BY <1>1, <1>2, <1>3, <1>4, <1>5 DEF Materialize

LEMMA TypeStep == TypeOK /\ Superseding /\ [Next]_vars => TypeOK'
<1> SUFFICES ASSUME TypeOK, Superseding, [Next]_vars PROVE TypeOK'
  OBVIOUS
<1> USE DEF files, registry, lifecycle, records
<1>1. ASSUME NEW row \in SourceRows, AddSource(row) PROVE TypeOK'
  BY <1>1 DEF TypeOK, AddSource
<1>2. ASSUME NEW row \in MappingRows, AddSourceAuthority(row) PROVE TypeOK'
  BY <1>2 DEF TypeOK, AddSourceAuthority
<1>3. CASE CrashIngest
  BY <1>3 DEF TypeOK, CrashIngest
<1>4. ASSUME NEW t \in Threads, CrashMaterialize(t) PROVE TypeOK'
  BY <1>4 DEF TypeOK, CrashMaterialize
<1>5. CASE UNCHANGED vars
  BY <1>5 DEF TypeOK, vars
<1>6. QED
  BY <1>1, <1>2, <1>3, <1>4, <1>5, IngestTypes, KnowledgeTypes DEF Next

LEMMA SupersedingStep == Superseding /\ [Next]_vars => Superseding'
<1> SUFFICES ASSUME Superseding, [Next]_vars, NEW r \in Requests,
                    ingest' = At("transition", r)
             PROVE  r.supersedes_ref \in superseded'
  BY DEF Superseding
<1> USE DEF files, registry, lifecycle, records
<1>1. superseded \subseteq superseded'
  BY DEF Next, Ingest, BeginIngest, FindStored, OpenTemporary, WriteTemporary,
         RenameTemporary, AddProvenance, AddArtifactVersion, VersionConflict,
         SupersedePrevious, SupersedeRow, NothingToSupersede, AddLifecycleTransition,
         ProjectArtifact, AddMemoryRecord, CrashIngest, Materialize, BeginMaterialize,
         AddKnowledgeObject, KnowledgeConflict, ProjectKnowledge, AddKnowledgeMemory,
         CrashMaterialize, AddSource, AddSourceAuthority, vars
<1>2. CASE ingest' = ingest
  BY <1>1, <1>2 DEF Superseding
<1>3. ASSUME NEW q \in Requests, Ingest(q) PROVE r.supersedes_ref \in superseded'
  BY <1>3
  DEF Ingest, BeginIngest, FindStored, OpenTemporary, WriteTemporary,
      RenameTemporary, AddProvenance, AddArtifactVersion, VersionConflict,
      SupersedePrevious, SupersedeRow, NothingToSupersede, AddLifecycleTransition,
      ProjectArtifact, AddMemoryRecord, At, Idle
<1>4. QED
  BY <1>2, <1>3
  DEF Next, CrashIngest, Materialize, BeginMaterialize,
      AddKnowledgeObject, KnowledgeConflict, ProjectKnowledge, AddKnowledgeMemory,
      CrashMaterialize, AddSource, AddSourceAuthority, vars, Idle, At

(***************************************************************************)
(* Type correctness for every set of rows and requests.                    *)
(***************************************************************************)
THEOREM TypeCorrect == Spec => []TypeOK
<1>1. Init => Superseding
  BY DEF Init, Superseding, Idle, At
<1>2. QED
  BY <1>1, TypeInit, TypeStep, SupersedingStep, PTL DEF Spec

-----------------------------------------------------------------------------
\* The files and the records made from them

\* The steps of an ingest after put.
AfterPut == {"provenance", "version", "supersede", "transition", "project", "memory"}

\* The inductive invariant of put: what is renamed is complete, and what an ingest goes on
\* with is stored.
FilesSound ==
  /\ StoredObjectsAreWhole
  /\ \A r \in Requests : ingest = At("rename", r) => temporary[r.content] = "whole"
  /\ \A r \in Requests, pc \in AfterPut :
       ingest = At(pc, r) => object[r.content] = "whole"

LEMMA FilesStep ==
  ASSUME TypeOK, FilesSound, [Next]_vars
  PROVE  FilesSound' /\ \A c \in Contents : object[c] = "whole" => object'[c] = "whole"
<1> DEFINE Kept == \A c \in Contents : object[c] = "whole" => object'[c] = "whole"
<1> USE DEF files, registry, lifecycle, records
<1>1. ASSUME NEW r \in Requests, Ingest(r) PROVE FilesSound' /\ Kept
  <2> r.content \in Contents
    BY RequestsAssumption DEF ArtifactObjectVersion
  <2>1. CASE FindStored(r)
    BY <2>1 DEF TypeOK, FilesSound, StoredObjectsAreWhole, FindStored, AfterPut, At, Idle
  <2>2. CASE OpenTemporary(r)
    BY <2>2 DEF TypeOK, FilesSound, StoredObjectsAreWhole, OpenTemporary, AfterPut, At
  <2>3. CASE WriteTemporary(r)
    BY <2>3 DEF TypeOK, FilesSound, StoredObjectsAreWhole, WriteTemporary, AfterPut, At
  <2>4. CASE RenameTemporary(r)
    BY <2>4 DEF TypeOK, FilesSound, StoredObjectsAreWhole, RenameTemporary, AfterPut, At
  <2>5. ASSUME UNCHANGED files,
               \/ ingest' = Idle
               \/ ingest' = At("put", r)
               \/ \E pc, qc \in AfterPut : ingest = At(pc, r) /\ ingest' = At(qc, r)
        PROVE  FilesSound' /\ Kept
    BY <2>5 DEF FilesSound, StoredObjectsAreWhole, AfterPut, At, Idle
  <2>6. QED
    BY <1>1, <2>1, <2>2, <2>3, <2>4, <2>5
    DEF Ingest, BeginIngest, AddProvenance, AddArtifactVersion, VersionConflict,
        SupersedePrevious, SupersedeRow, NothingToSupersede, AddLifecycleTransition,
        ProjectArtifact, AddMemoryRecord, AfterPut
<1>2. CASE CrashIngest
  BY <1>2 DEF FilesSound, StoredObjectsAreWhole, CrashIngest, At, Idle, AfterPut
<1>3. CASE UNCHANGED <<files, ingest>>
  BY <1>3 DEF FilesSound, StoredObjectsAreWhole
<1>4. QED
  BY <1>1, <1>2, <1>3
  DEF Next, Materialize, BeginMaterialize, AddKnowledgeObject, KnowledgeConflict,
      ProjectKnowledge, AddKnowledgeMemory, CrashMaterialize, AddSource,
      AddSourceAuthority, vars

\* What a knowledge request was found to stand on.
GroundOf(m) == \E v \in versions :
  /\ v.version_id = m.artifact_version_ref /\ v.content \in Extractable
  /\ [entity |-> m.knowledge_ref, content |-> v.content] \in provenance

\* The inductive invariant of the records: their provenance comes before them.
RecordsSound ==
  /\ \A v \in versions : object[v.content] = "whole"
  /\ \A v \in versions : [entity |-> v.version_id, content |-> v.content] \in provenance
  /\ \A r \in Requests : ingest = At("version", r) =>
       [entity |-> r.version_id, content |-> r.content] \in provenance
  /\ \A k \in knowledge : GroundOf(k)
  /\ \A t \in Threads, m \in Materializations :
       handler[t] = At("knowledge", m) => GroundOf(m)

LEMMA RecordsGrow ==
  ASSUME [Next]_vars
  PROVE  versions \subseteq versions' /\ provenance \subseteq provenance'
BY DEF Next, Ingest, BeginIngest, FindStored, OpenTemporary, WriteTemporary,
       RenameTemporary, AddProvenance, AddArtifactVersion, VersionConflict,
       SupersedePrevious, SupersedeRow, NothingToSupersede, AddLifecycleTransition,
       ProjectArtifact, AddMemoryRecord, CrashIngest, Materialize, BeginMaterialize,
       AddKnowledgeObject, KnowledgeConflict, ProjectKnowledge, AddKnowledgeMemory,
       CrashMaterialize, AddSource, AddSourceAuthority, vars, records

LEMMA RecordsStep ==
  ASSUME TypeOK, FilesSound, RecordsSound, [Next]_vars
  PROVE  RecordsSound'
<1> USE DEF files, registry, lifecycle, records
<1>1. \A c \in Contents : object[c] = "whole" => object'[c] = "whole"
  BY FilesStep
<1>2. \A r \in Requests : r.content \in Contents
  BY RequestsAssumption DEF ArtifactObjectVersion
<1>3. \A m : GroundOf(m) => GroundOf(m)'
  BY RecordsGrow DEF GroundOf
<1>4. ASSUME UNCHANGED <<versions, knowledge, handler>>,
             \/ ingest' = ingest
             \/ \A r \in Requests : ingest' # At("version", r)
      PROVE  RecordsSound'
  BY <1>1, <1>2, <1>3, <1>4, RecordsGrow DEF RecordsSound, TypeOK
<1>5. ASSUME NEW r \in Requests, Ingest(r) PROVE RecordsSound'
  <2>1. CASE AddProvenance(r)
    BY <1>1, <1>2, <1>3, <2>1, RecordsGrow DEF RecordsSound, TypeOK, AddProvenance, At
  <2>2. CASE AddArtifactVersion(r)
    <3>1. object'[r.content] = "whole"
      BY <1>1, <1>2, <2>2 DEF FilesSound, AfterPut, AddArtifactVersion
    <3>2. [entity |-> r.version_id, content |-> r.content] \in provenance'
      BY <2>2 DEF RecordsSound, AddArtifactVersion
    <3>3. \A q \in Requests : ingest' # At("version", q)
      BY <2>2 DEF AddArtifactVersion, At
    <3>4. versions' = versions \cup {r} /\ UNCHANGED <<knowledge, handler>>
      BY <2>2 DEF AddArtifactVersion
    <3>5. QED
      BY <1>1, <1>2, <1>3, <3>1, <3>2, <3>3, <3>4, RecordsGrow DEF RecordsSound, TypeOK
  <2>3. QED
    BY <1>4, <1>5, <2>1, <2>2
    DEF Ingest, BeginIngest, FindStored, OpenTemporary, WriteTemporary,
        RenameTemporary, VersionConflict, SupersedePrevious, SupersedeRow,
        NothingToSupersede, AddLifecycleTransition, ProjectArtifact, AddMemoryRecord,
        At, Idle
<1>6. ASSUME NEW t \in Threads, NEW m \in Materializations, Materialize(t, m)
      PROVE  RecordsSound'
  <2>1. CASE BeginMaterialize(t, m)
    <3>1. GroundOf(m)'
      BY <2>1 DEF BeginMaterialize, MaterializedFrom, GroundOf
    <3>2. \A u \in Threads, n \in Materializations :
            handler'[u] = At("knowledge", n) => handler[u] = At("knowledge", n) \/ n = m
      BY <2>1 DEF TypeOK, BeginMaterialize, At
    <3>3. UNCHANGED <<object, versions, knowledge, ingest>>
      BY <2>1 DEF BeginMaterialize
    <3>4. QED
      BY <1>3, <3>1, <3>2, <3>3, RecordsGrow DEF RecordsSound
  <2>2. CASE AddKnowledgeObject(t, m)
    BY <1>3, <2>2 DEF RecordsSound, TypeOK, AddKnowledgeObject, At
  <2>3. CASE KnowledgeConflict(t, m)
    BY <1>3, <2>3 DEF RecordsSound, TypeOK, KnowledgeConflict, At, Idle
  <2>4. CASE ProjectKnowledge(t, m)
    BY <1>3, <2>4 DEF RecordsSound, TypeOK, ProjectKnowledge, At
  <2>5. CASE AddKnowledgeMemory(t, m)
    BY <1>3, <2>5 DEF RecordsSound, TypeOK, AddKnowledgeMemory, At, Idle
  <2>6. QED
    BY <1>6, <2>1, <2>2, <2>3, <2>4, <2>5 DEF Materialize
<1>7. ASSUME NEW t \in Threads, CrashMaterialize(t) PROVE RecordsSound'
  BY <1>3, <1>7 DEF RecordsSound, TypeOK, CrashMaterialize, At, Idle
<1>8. QED
  BY <1>4, <1>5, <1>6, <1>7
  DEF Next, CrashIngest, AddSource, AddSourceAuthority, vars, At, Idle

\* What every reachable state satisfies, put together.
Sound == TypeOK /\ Superseding /\ FilesSound /\ RecordsSound

LEMMA SoundAlways == Spec => []Sound
<1>1. Init => Sound
  <2>1. Init => TypeOK
    BY TypeInit
  <2>2. Init => Superseding /\ FilesSound /\ RecordsSound
    BY DEF Init, Superseding, FilesSound, StoredObjectsAreWhole, RecordsSound, Idle, At
  <2>3. QED
    BY <2>1, <2>2 DEF Sound
<1>2. Sound /\ [Next]_vars => Sound'
  BY TypeStep, SupersedingStep, FilesStep, RecordsStep DEF Sound
<1>3. QED
  BY <1>1, <1>2, PTL DEF Spec

(***************************************************************************)
(* For every set of requests: a file under a hash is complete, whatever    *)
(* an ingest that died left under its temporary name.                      *)
(***************************************************************************)
THEOREM ObjectsAreWhole == Spec => []StoredObjectsAreWhole
<1>1. Sound => StoredObjectsAreWhole
  BY DEF Sound, FilesSound
<1>2. QED
  BY <1>1, SoundAlways, PTL

(***************************************************************************)
(* For every set of requests: the bytes of every version verify, and every *)
(* version and knowledge object has the provenance of its content.         *)
(***************************************************************************)
THEOREM RecordsAlwaysGrounded == Spec => []RecordsAreGrounded
<1>1. ASSUME Sound, NEW v \in versions PROVE IntegrityState(v) = "PASS"
  BY <1>1 DEF Sound, RecordsSound, IntegrityState
<1>2. Sound => RecordsAreGrounded
  BY <1>1 DEF Sound, RecordsSound, RecordsAreGrounded, GroundOf
<1>3. QED
  BY <1>2, SoundAlways, PTL

-----------------------------------------------------------------------------
\* What was checked before an ingest stands when it commits

\* The steps of an ingest before its version is committed.
BeforeVersion == {"put", "write", "rename", "provenance", "version"}

Authorized(v) == v.epistemic_type \in Official =>
  /\ \E s \in sources : s.source_id = v.source_ref /\ InForce(s, v.observed_at)
  /\ \E m \in mappings :
       /\ m.authoritative
       /\ m.source_ref = v.source_ref /\ m.semantic_type = v.semantic_type
       /\ InForce(m, v.observed_at)
       /\ ScopeContains(m.authority_scope, v.authority_scope)

Agrees(r) ==
  \A v \in versions : v.artifact_id = r.artifact_id => v.epistemic_type = r.epistemic_type

\* The inductive invariant: an ingest under way agrees with all versions of its artifact,
\* not only with the one its type was compared with, and is authorized.
ChecksStand ==
  /\ \A v \in versions : Agrees(v) /\ Authorized(v)
  /\ \A r \in Requests, pc \in BeforeVersion :
       ingest = At(pc, r) => Agrees(r) /\ Authorized(r)

LEMMA ChecksStep ==
  ASSUME ChecksStand, [Next]_vars
  PROVE  ChecksStand'
<1> USE DEF files, registry, lifecycle, records
<1>1. \A v : Authorized(v) => Authorized(v)'
  BY DEF Next, Ingest, BeginIngest, FindStored, OpenTemporary, WriteTemporary,
         RenameTemporary, AddProvenance, AddArtifactVersion, VersionConflict,
         SupersedePrevious, SupersedeRow, NothingToSupersede, AddLifecycleTransition,
         ProjectArtifact, AddMemoryRecord, CrashIngest, Materialize, BeginMaterialize,
         AddKnowledgeObject, KnowledgeConflict, ProjectKnowledge, AddKnowledgeMemory,
         CrashMaterialize, AddSource, AddSourceAuthority, vars, Authorized
<1>2. ASSUME UNCHANGED versions,
             \A r \in Requests, pc \in BeforeVersion : ingest' = At(pc, r) =>
               \E qc \in BeforeVersion : ingest = At(qc, r)
      PROVE  ChecksStand'
  <2>1. \A v : Agrees(v) => Agrees(v)'
    BY <1>2 DEF Agrees
  <2>2. QED
    BY <1>1, <1>2, <2>1 DEF ChecksStand
<1>3. ASSUME NEW r \in Requests, Ingest(r) PROVE ChecksStand'
  <2>1. CASE BeginIngest(r)
    <3>1. Agrees(r)
      BY <2>1 DEF ChecksStand, BeginIngest, ValidIngestRequest, SupersedesValidly, Agrees
    <3>2. Authorized(r)
      BY <2>1 DEF BeginIngest, ValidIngestRequest, SourceIsAuthoritative, Authorized
    <3>3. UNCHANGED <<versions, sources, mappings>> /\ ingest' = At("put", r)
      BY <2>1 DEF BeginIngest
    <3>4. QED
      BY <3>1, <3>2, <3>3 DEF ChecksStand, Agrees, Authorized, At
  <2>2. CASE AddArtifactVersion(r)
    <3>1. Agrees(r) /\ Authorized(r)
      BY <2>2 DEF ChecksStand, AddArtifactVersion, BeforeVersion
    <3>2. versions' = versions \cup {r}
      BY <2>2 DEF AddArtifactVersion
    <3>3. \A v \in versions' : Agrees(v)'
      BY <3>1, <3>2 DEF ChecksStand, Agrees
    <3>4. \A q \in Requests, pc \in BeforeVersion : ingest' # At(pc, q)
      BY <2>2 DEF AddArtifactVersion, BeforeVersion, At
    <3>5. QED
      BY <1>1, <3>1, <3>2, <3>3, <3>4 DEF ChecksStand
  <2>3. QED
    BY <1>2, <1>3, <2>1, <2>2
    DEF Ingest, FindStored, OpenTemporary, WriteTemporary, RenameTemporary,
        AddProvenance, VersionConflict, SupersedePrevious, SupersedeRow,
        NothingToSupersede, AddLifecycleTransition, ProjectArtifact, AddMemoryRecord,
        BeforeVersion, At, Idle
<1>4. CASE CrashIngest
  BY <1>2, <1>4 DEF CrashIngest, BeforeVersion, At, Idle
<1>5. CASE UNCHANGED <<versions, ingest>>
  BY <1>2, <1>5
<1>6. QED
  BY <1>3, <1>4, <1>5
  DEF Next, Materialize, BeginMaterialize, AddKnowledgeObject, KnowledgeConflict,
      ProjectKnowledge, AddKnowledgeMemory, CrashMaterialize, AddSource,
      AddSourceAuthority, vars

LEMMA ChecksAlways == Spec => []ChecksStand
<1>1. Init => ChecksStand
  BY DEF Init, ChecksStand, Idle, At
<1>2. QED
  BY <1>1, ChecksStep, PTL DEF Spec

(***************************************************************************)
(* For every set of requests: the versions of an artifact have one         *)
(* epistemic type, although a request is compared with any one of them.    *)
(***************************************************************************)
THEOREM TypesAgree == Spec => []OneEpistemicType
<1>1. ChecksStand => OneEpistemicType
  BY DEF ChecksStand, Agrees, OneEpistemicType
<1>2. QED
  BY <1>1, ChecksAlways, PTL

(***************************************************************************)
(* For every set of rows and requests: an official version is authorized.  *)
(***************************************************************************)
THEOREM OfficialAlwaysAuthorized == Spec => []OfficialIsAuthorized
<1>1. ChecksStand => OfficialIsAuthorized
  BY DEF ChecksStand, Authorized, OfficialIsAuthorized
<1>2. QED
  BY <1>1, ChecksAlways, PTL

-----------------------------------------------------------------------------
\* Supersession and what a search finds

\* The steps of an ingest after its version is committed.
AfterVersion == {"supersede", "transition", "project", "memory"}

Unknown(id) == \A v \in versions : v.version_id # id

Untouched(id) == projection[id] = "NONE" /\ id \notin superseded

\* The inductive invariant: a version that an ingest has still to project has no
\* projection and cannot be superseded meanwhile, and one whose transition is still to be
\* recorded has none yet.
HistorySound ==
  /\ SearchFindsCurrent
  /\ SupersededOnce
  /\ \A id \in Versions : Unknown(id) => Untouched(id)
  /\ \A r \in Requests, pc \in AfterVersion : ingest = At(pc, r) => r \in versions
  /\ \A r \in Requests, pc \in AfterVersion \ {"memory"} :
       ingest = At(pc, r) => Untouched(r.version_id)
  /\ \A r \in Requests : ingest = At("transition", r) =>
       \A x \in transitions : x.object_ref # r.supersedes_ref

LEMMA HistoryStep ==
  ASSUME TypeOK, TypeOK', Superseding, HistorySound, [Next]_vars
  PROVE  HistorySound'
<1> USE DEF files, registry, lifecycle, records
<1>1. \A r \in Requests : /\ r.version_id \in Versions /\ r.version_id \in Refs
                         /\ r.supersedes_ref # r.version_id
  BY RequestsAssumption DEF ArtifactObjectVersion, Refs
<1>2. ASSUME UNCHANGED <<versions, lifecycle>>,
             \A id \in Versions : projection'[id] = projection[id],
             \/ ingest' = ingest
             \/ \A r \in Requests, pc \in AfterVersion : ingest' # At(pc, r)
      PROVE  HistorySound'
  <2>1. \A id \in Versions : id \in Refs
    BY DEF Refs
  <2>2. SearchFindsCurrent'
    BY <1>1, <1>2, <2>1 DEF HistorySound, SearchFindsCurrent, Retrievable, TypeOK
  <2>3. SupersededOnce'
    BY <1>2 DEF HistorySound, SupersededOnce
  <2>4. QED
    BY <1>1, <1>2, <2>2, <2>3 DEF HistorySound, Unknown, Untouched, AfterVersion
<1>3. ASSUME NEW r \in Requests, Ingest(r) PROVE HistorySound'
  <2>1. CASE AddArtifactVersion(r)
    <3>1. Untouched(r.version_id)
      BY <1>1, <2>1 DEF AddArtifactVersion, HistorySound, Unknown
    <3>2. /\ versions' = versions \cup {r}
          /\ UNCHANGED <<projection, superseded, transitions>>
          /\ \A q \in Requests, pc \in AfterVersion : ingest' = At(pc, q) =>
               q = r /\ pc # "transition"
      BY <2>1 DEF AddArtifactVersion, At
    <3>3. SearchFindsCurrent'
      BY <3>1, <3>2 DEF HistorySound, SearchFindsCurrent, Retrievable, Untouched
    <3>4. SupersededOnce'
      BY <3>2 DEF HistorySound, SupersededOnce
    <3>5. QED
      BY <3>1, <3>2, <3>3, <3>4 DEF HistorySound, Unknown, Untouched, AfterVersion
  <2>2. CASE SupersedePrevious(r)
    <3>1. r \in versions /\ Untouched(r.version_id)
      BY <2>2 DEF SupersedePrevious, HistorySound, AfterVersion
    <3>2. /\ UNCHANGED <<versions, transitions>>
          /\ superseded' = superseded \cup {r.supersedes_ref}
          /\ ingest' = At("transition", r)
          /\ r.supersedes_ref \notin superseded
          /\ ~Unknown(r.supersedes_ref)
      BY <2>2 DEF SupersedePrevious, SupersedeRow, Unknown
    <3>3. /\ \A ref \in Refs : ref # r.supersedes_ref => projection'[ref] = projection[ref]
          /\ r.supersedes_ref \in Refs => projection'[r.supersedes_ref] # "ACTIVE"
      BY <2>2 DEF SupersedePrevious, TypeOK
    <3>4. SearchFindsCurrent'
      BY <1>1, <3>2, <3>3 DEF HistorySound, SearchFindsCurrent, Retrievable, TypeOK
    <3>5. SupersededOnce'
      BY <3>1, <3>2 DEF HistorySound, SupersededOnce
    <3>6. \A x \in transitions : x.object_ref # r.supersedes_ref
      BY <3>2 DEF HistorySound, SupersededOnce
    <3>7. Untouched(r.version_id)'
      BY <1>1, <3>1, <3>2, <3>3 DEF Untouched
    <3>8. \A id \in Versions : Unknown(id)' => Untouched(id)'
      BY <3>2, <3>3 DEF HistorySound, Unknown, Untouched, Refs
    <3>9. \A q \in Requests, pc \in AfterVersion : ingest' = At(pc, q) => q = r
      BY <3>2 DEF At
    <3>10. QED
      BY <3>1, <3>2, <3>4, <3>5, <3>6, <3>7, <3>8, <3>9
      DEF HistorySound, Unknown, Untouched, AfterVersion
  <2>3. CASE AddLifecycleTransition(r)
    <3>1. r \in versions /\ Untouched(r.version_id) /\ r.supersedes_ref \in superseded
      BY <2>3 DEF AddLifecycleTransition, HistorySound, AfterVersion, Superseding
    <3>2. /\ UNCHANGED <<versions, superseded, projection>>
          /\ transitions' = transitions \cup
               {[object_ref |-> r.supersedes_ref, superseded_by_ref |-> r.version_id]}
          /\ ingest' = At("project", r)
          /\ \A x \in transitions : x.object_ref # r.supersedes_ref
      BY <2>3 DEF AddLifecycleTransition, HistorySound
    <3>3. SupersededOnce'
      BY <3>1, <3>2 DEF HistorySound, SupersededOnce
    <3>4. SearchFindsCurrent'
      BY <3>2 DEF HistorySound, SearchFindsCurrent, Retrievable
    <3>5. QED
      BY <3>1, <3>2, <3>3, <3>4 DEF HistorySound, Unknown, Untouched, At
  <2>4. CASE ProjectArtifact(r)
    <3>1. r \in versions /\ Untouched(r.version_id)
      BY <2>4 DEF ProjectArtifact, HistorySound, AfterVersion
    <3>2. /\ UNCHANGED <<versions, superseded, transitions>>
          /\ ingest' = At("memory", r)
          /\ projection'[r.version_id] = "ACTIVE"
          /\ \A ref \in Refs : ref # r.version_id => projection'[ref] = projection[ref]
      BY <1>1, <2>4 DEF ProjectArtifact, TypeOK
    <3>3. SearchFindsCurrent'
      BY <1>1, <3>1, <3>2 DEF HistorySound, SearchFindsCurrent, Retrievable, Untouched, TypeOK
    <3>4. SupersededOnce'
      BY <3>2 DEF HistorySound, SupersededOnce
    <3>5. \A id \in Versions : Unknown(id)' => Untouched(id)'
      BY <3>1, <3>2 DEF HistorySound, Unknown, Untouched, Refs
    <3>6. \A q \in Requests, pc \in AfterVersion :
            ingest' = At(pc, q) => q = r /\ pc = "memory"
      BY <3>2 DEF At
    <3>7. QED
      BY <3>1, <3>2, <3>3, <3>4, <3>5, <3>6
      DEF HistorySound, Unknown, Untouched, AfterVersion
  <2>5. CASE NothingToSupersede(r)
    <3>1. r \in versions /\ Untouched(r.version_id)
      BY <2>5 DEF NothingToSupersede, HistorySound, AfterVersion
    <3>2. UNCHANGED <<versions, lifecycle, projection>> /\ ingest' = At("project", r)
      BY <2>5 DEF NothingToSupersede
    <3>3. SearchFindsCurrent' /\ SupersededOnce'
      BY <3>2 DEF HistorySound, SearchFindsCurrent, Retrievable, SupersededOnce
    <3>4. QED
      BY <3>1, <3>2, <3>3 DEF HistorySound, Unknown, Untouched, At
  <2>6. QED
    BY <1>2, <1>3, <2>1, <2>2, <2>3, <2>4, <2>5
    DEF Ingest, BeginIngest, FindStored, OpenTemporary, WriteTemporary, RenameTemporary,
        AddProvenance, VersionConflict, AddMemoryRecord, AfterVersion, At, Idle
<1>4. ASSUME NEW t \in Threads, NEW m \in Materializations, Materialize(t, m)
      PROVE  HistorySound'
  <2>1. m.knowledge_ref \notin Versions
    BY RequestsAssumption DEF KnowledgeRequest
  <2>2. \A id \in Versions : projection'[id] = projection[id]
    BY <1>4, <2>1
    DEF Materialize, BeginMaterialize, AddKnowledgeObject, KnowledgeConflict,
        ProjectKnowledge, AddKnowledgeMemory, TypeOK, Refs
  <2>3. UNCHANGED <<versions, lifecycle, ingest>>
    BY <1>4 DEF Materialize, BeginMaterialize, AddKnowledgeObject, KnowledgeConflict,
                ProjectKnowledge, AddKnowledgeMemory
  <2>4. QED
    BY <1>2, <2>2, <2>3
<1>5. CASE CrashIngest
  BY <1>2, <1>5 DEF CrashIngest, AfterVersion, At, Idle
<1>6. CASE UNCHANGED <<versions, lifecycle, projection, ingest>>
  BY <1>2, <1>6
<1>7. QED
  BY <1>3, <1>4, <1>5, <1>6 DEF Next, CrashMaterialize, AddSource, AddSourceAuthority, vars

LEMMA HistoryAlways == Spec => []HistorySound
<1>1. Init => HistorySound
  BY DEF Init, HistorySound, SearchFindsCurrent, SupersededOnce, Unknown, Untouched,
         Refs, Idle, At
<1>2. Spec => [](TypeOK /\ Superseding)
  <2>1. Init => Superseding
    BY DEF Init, Superseding, Idle, At
  <2>2. QED
    BY <2>1, TypeInit, TypeStep, SupersedingStep, PTL DEF Spec
<1>3. TypeOK /\ TypeOK' /\ Superseding /\ HistorySound /\ [Next]_vars => HistorySound'
  BY HistoryStep
<1>4. QED
  BY <1>1, <1>2, <1>3, PTL DEF Spec

(***************************************************************************)
(* For every set of requests: a search finds no superseded version and     *)
(* every other one that was indexed.                                       *)
(***************************************************************************)
THEOREM SearchIsCurrent == Spec => []SearchFindsCurrent
<1>1. HistorySound => SearchFindsCurrent
  BY DEF HistorySound
<1>2. QED
  BY <1>1, HistoryAlways, PTL

(***************************************************************************)
(* For every set of requests: a version is superseded by a recorded one,   *)
(* and has at most one transition, which names such a version.             *)
(***************************************************************************)
THEOREM SupersessionStands == Spec => []SupersededOnce
<1>1. HistorySound => SupersededOnce
  BY DEF HistorySound
<1>2. QED
  BY <1>1, HistoryAlways, PTL

-----------------------------------------------------------------------------
\* What was answered

Shown(id) == projection[id] = IF id \in superseded THEN "SUPERSEDED" ELSE "ACTIVE"

\* The inductive invariant: what is about to be answered is projected already, as its
\* record says, and only what is recorded is answered.
AnswersSound ==
  /\ answered \subseteq memory
  /\ \A id \in answered \cap Versions : ~Unknown(id) /\ Shown(id)
  /\ \A r \in Requests : ingest = At("memory", r) =>
       r \in versions /\ Shown(r.version_id)
  /\ \A k \in answered \cap KnowledgeRefs : \E m \in knowledge :
       m.knowledge_ref = k /\ projection[k] = m.lifecycle_state
  /\ \A t \in Threads, m \in Materializations :
       /\ handler[t] \in {At("project", m), At("memory", m)} => m \in knowledge
       /\ handler[t] = At("memory", m) => projection[m.knowledge_ref] = m.lifecycle_state

LEMMA AnswersStep ==
  ASSUME TypeOK, TypeOK', HistorySound, AnswersSound, [Next]_vars
  PROVE  AnswersSound'
<1> USE DEF files, registry, lifecycle, records
<1>1. /\ \A r \in Requests : r.version_id \in Versions
      /\ \A m \in Materializations : m.knowledge_ref \in KnowledgeRefs
      /\ Versions \cap KnowledgeRefs = {} /\ "none" \notin Versions
      /\ \A r \in Requests : r.supersedes_ref \in Versions \cup {"none"}
      /\ \A r \in Requests : r.supersedes_ref # r.version_id
  BY RequestsAssumption DEF ArtifactObjectVersion, KnowledgeRequest
<1>2. versions \subseteq versions' /\ \A id : Unknown(id)' => Unknown(id)
  BY RecordsGrow DEF Unknown
<1>3. ASSUME UNCHANGED <<projection, superseded, knowledge, memory, answered>>,
             \A r \in Requests : ingest' = At("memory", r) => ingest = ingest',
             \A t \in Threads : handler'[t] # handler[t] =>
               \A m \in Materializations : handler'[t] \notin {At("project", m), At("memory", m)}
      PROVE  AnswersSound'
  BY <1>2, <1>3 DEF AnswersSound, Shown, Untouched
<1>4. ASSUME NEW r \in Requests, Ingest(r) PROVE AnswersSound'
  <2>1. CASE SupersedePrevious(r)
    <3>1. r.supersedes_ref \in Versions /\ r.supersedes_ref \notin superseded
      BY <1>1, <2>1 DEF SupersedePrevious, TypeOK
    <3>2. /\ UNCHANGED <<versions, knowledge, memory, answered, handler>>
          /\ superseded' = superseded \cup {r.supersedes_ref}
          /\ \A q \in Requests : ingest' # At("memory", q)
      BY <2>1 DEF SupersedePrevious, SupersedeRow, At
    <3>3. /\ \A ref \in Refs : ref # r.supersedes_ref => projection'[ref] = projection[ref]
          /\ projection'[r.supersedes_ref] =
               IF projection[r.supersedes_ref] = "NONE" THEN "NONE" ELSE "SUPERSEDED"
      BY <2>1, <3>1 DEF SupersedePrevious, TypeOK, Refs
    <3>4. QED
      BY <1>1, <3>1, <3>2, <3>3 DEF AnswersSound, Shown, Untouched, Unknown, Refs
  <2>2. CASE ProjectArtifact(r)
    <3>1. r \in versions /\ Untouched(r.version_id)
      BY <2>2 DEF ProjectArtifact, HistorySound, AfterVersion
    <3>2. /\ UNCHANGED <<versions, superseded, knowledge, memory, answered, handler>>
          /\ \A q \in Requests : ingest' = At("memory", q) => q = r
      BY <2>2 DEF ProjectArtifact, At
    <3>3. /\ \A ref \in Refs : ref # r.version_id => projection'[ref] = projection[ref]
          /\ projection'[r.version_id] = "ACTIVE"
      BY <1>1, <2>2 DEF ProjectArtifact, TypeOK, Refs
    <3>4. QED
      BY <1>1, <3>1, <3>2, <3>3 DEF AnswersSound, Shown, Untouched, Unknown, Refs
  <2>3. CASE AddMemoryRecord(r)
    BY <1>1, <2>3 DEF AddMemoryRecord, AnswersSound, Shown, Untouched, Unknown, At, Idle
  <2>4. QED
    BY <1>3, <1>4, <2>1, <2>2, <2>3
    DEF Ingest, BeginIngest, FindStored, OpenTemporary, WriteTemporary,
        RenameTemporary, AddProvenance, AddArtifactVersion, VersionConflict,
        NothingToSupersede, AddLifecycleTransition, At, Idle
<1>5. ASSUME NEW t \in Threads, NEW m \in Materializations, Materialize(t, m)
      PROVE  AnswersSound'
  <2>1. CASE BeginMaterialize(t, m)
    BY <1>3, <2>1 DEF BeginMaterialize, TypeOK, At
  <2>2. CASE AddKnowledgeObject(t, m)
    BY <2>2 DEF AddKnowledgeObject, AnswersSound, Shown, Untouched, Unknown, TypeOK, At
  <2>3. CASE KnowledgeConflict(t, m)
    BY <1>3, <2>3 DEF KnowledgeConflict, TypeOK, At, Idle
  <2>4. CASE ProjectKnowledge(t, m)
    <3>1. m \in knowledge
      BY <2>4 DEF ProjectKnowledge, AnswersSound
    <3>2. /\ UNCHANGED <<versions, superseded, knowledge, memory, answered, ingest>>
          /\ \A u \in Threads : u # t => handler'[u] = handler[u]
          /\ handler'[t] = At("memory", m)
      BY <2>4 DEF ProjectKnowledge, TypeOK
    <3>3. /\ \A ref \in Refs : ref # m.knowledge_ref => projection'[ref] = projection[ref]
          /\ projection'[m.knowledge_ref] = m.lifecycle_state
      BY <1>1, <2>4 DEF ProjectKnowledge, TypeOK, Refs
    <3>4. \A k \in knowledge : k.knowledge_ref = m.knowledge_ref => k = m
      BY <3>1 DEF TypeOK
    <3>5. QED
      BY <1>1, <3>1, <3>2, <3>3, <3>4
      DEF AnswersSound, Shown, Untouched, Unknown, Refs, TypeOK, At
  <2>5. CASE AddKnowledgeMemory(t, m)
    BY <1>1, <2>5
    DEF AddKnowledgeMemory, AnswersSound, Shown, Untouched, Unknown, TypeOK, At, Idle
  <2>6. QED
    BY <1>5, <2>1, <2>2, <2>3, <2>4, <2>5 DEF Materialize
<1>6. ASSUME NEW t \in Threads, CrashMaterialize(t) PROVE AnswersSound'
  BY <1>3, <1>6 DEF CrashMaterialize, TypeOK, At, Idle
<1>7. QED
  BY <1>3, <1>4, <1>5, <1>6
  DEF Next, CrashIngest, AddSource, AddSourceAuthority, vars, At, Idle

(***************************************************************************)
(* For every set of requests: what was answered stays remembered and       *)
(* projected as its record says.                                           *)
(***************************************************************************)
THEOREM AnswersStand == Spec => []AnsweredIsFound
<1>1. Init => AnswersSound
  BY DEF Init, AnswersSound, Untouched, Refs, Idle, At
<1>2. TypeOK /\ TypeOK' /\ HistorySound /\ AnswersSound /\ [Next]_vars => AnswersSound'
  BY AnswersStep
<1>3. TypeOK /\ AnswersSound => AnsweredIsFound
  <2>1. ASSUME TypeOK, NEW v \in versions PROVE v.version_id \in Versions
    BY <2>1, RequestsAssumption DEF TypeOK, ArtifactObjectVersion
  <2>2. ASSUME TypeOK, NEW k \in knowledge PROVE k.knowledge_ref \in KnowledgeRefs
    BY <2>2, RequestsAssumption DEF TypeOK, KnowledgeRequest
  <2>3. ASSUME TypeOK, AnswersSound, NEW k \in knowledge, k.knowledge_ref \in answered
        PROVE  projection[k.knowledge_ref] = k.lifecycle_state
    BY <2>2, <2>3 DEF TypeOK, AnswersSound
  <2>4. QED
    BY <2>1, <2>3 DEF AnswersSound, AnsweredIsFound, Shown
<1>4. QED
  BY <1>1, <1>2, <1>3, TypeCorrect, HistoryAlways, PTL DEF Spec

=============================================================================
