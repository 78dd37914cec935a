---------------------------- MODULE RealityProofs ----------------------------
(***************************************************************************)
(* Theorems about Reality for every set of rows and envelopes, every number *)
(* of threads and whatever handlers die.                                   *)
(***************************************************************************)
EXTENDS Reality, TLAPS

-----------------------------------------------------------------------------
\* Type correctness

LEMMA TypeInit == Init => TypeOK
BY DEF Init, TypeOK, Idle

LEMMA MemoryTyped == TypeOK => MemoryNow \subseteq MemoryIds
BY RowsAssumption DEF TypeOK, MemoryNow, MemoryRecord

LEMMA AddTypes ==
  ASSUME TypeOK, Add
  PROVE  TypeOK'
<1> USE DEF registry, records
<1>1. ASSUME NEW source \in Sources, AddSource(source) PROVE TypeOK'
  BY <1>1 DEF TypeOK, AddSource
<1>2. ASSUME NEW row \in MappingRows, AddSourceAuthority(row) PROVE TypeOK'
  BY <1>2 DEF TypeOK, AddSourceAuthority
<1>3. ASSUME NEW row \in ContractRows, AddDataContract(row) PROVE TypeOK'
  BY <1>3 DEF TypeOK, AddDataContract
<1>4. ASSUME NEW row \in ProvenanceRows, AddProvenance(row) PROVE TypeOK'
  BY <1>4 DEF TypeOK, AddProvenance, Known
<1>5. ASSUME NEW row \in KnowledgeRows, AddKnowledgeObject(row) PROVE TypeOK'
  BY <1>5 DEF TypeOK, AddKnowledgeObject
<1>6. ASSUME NEW row \in ArtifactRows, AddIngestedArtifact(row) PROVE TypeOK'
  BY <1>6 DEF TypeOK, AddIngestedArtifact
<1>7. ASSUME NEW row \in MemoryRows, AddMemoryRecord(row) PROVE TypeOK'
  BY <1>7 DEF TypeOK, AddMemoryRecord
<1>8. QED
  BY <1>1, <1>2, <1>3, <1>4, <1>5, <1>6, <1>7 DEF Add

LEMMA PostTypes ==
  ASSUME TypeOK, NEW t \in Threads, NEW e \in Envelopes, BeginDataObject(t, e)
  PROVE  TypeOK'
<1> USE DEF registry, records
<1>1. [envelope |-> e, first |-> VersionsOf(e.data_id) = {}] \in DataObjectVersion
  BY DEF DataObjectVersion
<1>2. handler' \in [Threads -> {Idle} \cup Posting \cup Rebuilding]
  BY <1>1 DEF TypeOK, BeginDataObject, Posting
<1>3. QED
  BY <1>2 DEF TypeOK, BeginDataObject

LEMMA AtCommit ==
  ASSUME TypeOK, NEW t \in Threads, handler[t].step = "commit_version"
  PROVE  handler[t] \in Posting
BY DEF TypeOK, Idle, Rebuilding

LEMMA AtRebuild ==
  ASSUME TypeOK, NEW t \in Threads, handler[t].step \in {"look_up", "insert", "update"}
  PROVE  handler[t] \in Rebuilding
BY DEF TypeOK, Idle, Posting

LEMMA CommitTypes ==
  ASSUME TypeOK, NEW t \in Threads, CommitDataObject(t)
  PROVE  TypeOK'
<1> USE DEF registry, records
<1>1. handler[t].version \in DataObjectVersion
  BY AtCommit DEF CommitDataObject, Posting
<1>2. QED
  BY <1>1 DEF TypeOK, CommitDataObject

LEMMA RebuildTypes ==
  ASSUME TypeOK, NEW t \in Threads, Rebuild(t)
  PROVE  TypeOK'
<1> USE DEF registry, records
<1>1. CASE BeginRebuild(t)
  <2>1. [step |-> "look_up", read |-> MemoryNow, todo |-> MemoryNow, record |-> "none"]
          \in Rebuilding
    BY MemoryTyped DEF Rebuilding
  <2>2. QED
    BY <1>1, <2>1 DEF TypeOK, BeginRebuild
<1>2. ASSUME NEW m \in MemoryIds, LookUp(t, m) PROVE TypeOK'
  <2>1. handler[t] \in Rebuilding
    BY <1>2, AtRebuild DEF LookUp
  <2>2. handler'[t] \in Rebuilding
    BY <1>2, <2>1, RowsAssumption DEF TypeOK, LookUp, Rebuilding
  <2>3. QED
    BY <1>2, <2>2 DEF TypeOK, LookUp
<1>3. CASE UpdateEntry(t)
  <2>1. handler[t] \in Rebuilding
    BY <1>3, AtRebuild DEF UpdateEntry
  <2>2. handler'[t] \in Rebuilding
    BY <1>3, <2>1 DEF TypeOK, UpdateEntry, Rebuilding
  <2>3. QED
    BY <1>3, <2>2 DEF TypeOK, UpdateEntry
<1>4. CASE InsertEntry(t)
  <2>1. handler[t] \in Rebuilding
    BY <1>4, AtRebuild DEF InsertEntry
  <2>2. handler'[t] \in Rebuilding /\ handler[t].record \in MemoryIds
    BY <1>4, <2>1 DEF TypeOK, InsertEntry, Rebuilding
  <2>3. QED
    BY <1>4, <2>2 DEF TypeOK, InsertEntry
<1>5. CASE EntryConflict(t)
  <2>1. handler[t] \in Rebuilding
    BY <1>5, AtRebuild DEF EntryConflict
  <2>2. handler[t].record \in MemoryIds
    BY <1>5, <2>1 DEF EntryConflict, Rebuilding
  <2>3. QED
    BY <1>5, <2>2 DEF TypeOK, EntryConflict
<1>6. CASE FinishRebuild(t)
  <2>1. handler[t] \in Rebuilding
    BY <1>6, AtRebuild DEF FinishRebuild
  <2>2. handler[t].read \subseteq MemoryIds
    BY <2>1 DEF Rebuilding
  <2>3. QED
    BY <1>6, <2>2 DEF TypeOK, FinishRebuild
<1>7. QED
  BY <1>1, <1>2, <1>3, <1>4, <1>5, <1>6 DEF Rebuild

LEMMA TypeStep == TypeOK /\ [Next]_vars => TypeOK'
<1> SUFFICES ASSUME TypeOK, [Next]_vars PROVE TypeOK'
  OBVIOUS
<1>1. ASSUME NEW t \in Threads, Crash(t) PROVE TypeOK'
  BY <1>1 DEF TypeOK, Crash, registry, records
<1>2. CASE UNCHANGED vars
  BY <1>2 DEF TypeOK, vars, registry, records
<1>3. QED
  BY <1>1, <1>2, AddTypes, PostTypes, CommitTypes, RebuildTypes DEF Next

\* The tables hold rows as they were posted, with unique keys.
THEOREM TypeCorrect == Spec => []TypeOK
<1>1. QED
  BY TypeInit, TypeStep, PTL DEF Spec

-----------------------------------------------------------------------------
\* Data objects

\* What the checks of a post found, which stays so.
Checked(v) ==
  /\ Known(v.envelope.provenance_ref)
  /\ v.first \/
       /\ \E u \in VersionsOf(v.envelope.data_id) :
            u.envelope.epistemic_type = v.envelope.epistemic_type
       /\ \E u \in VersionsOf(v.envelope.data_id) :
            u.envelope.version_id = v.envelope.supersedes_ref

CheckedPosts ==
  \A t \in Threads : handler[t].step = "commit_version" => Checked(handler[t].version)

\* The registered versions stay, and records of provenance stay known.
LEMMA TablesGrow ==
  ASSUME TypeOK, [Next]_vars
  PROVE  versions \subseteq versions' /\ \A ref : Known(ref) => Known(ref)'
<1> USE DEF registry, records, Known
<1>1. CASE Add
  BY <1>1 DEF Add, AddSource, AddSourceAuthority, AddDataContract, AddProvenance,
     AddKnowledgeObject, AddIngestedArtifact, AddMemoryRecord
<1>2. ASSUME NEW t \in Threads, Rebuild(t)
      PROVE  UNCHANGED <<versions, provenance>>
  BY <1>2 DEF Rebuild, BeginRebuild, LookUp, UpdateEntry, InsertEntry, EntryConflict,
     FinishRebuild
<1>3. ASSUME NEW t \in Threads, NEW e \in Envelopes, BeginDataObject(t, e)
      PROVE  UNCHANGED <<versions, provenance>>
  BY <1>3 DEF BeginDataObject
<1>4. ASSUME NEW t \in Threads, CommitDataObject(t)
      PROVE  versions \subseteq versions' /\ UNCHANGED provenance
  BY <1>4 DEF CommitDataObject
<1>5. ASSUME NEW t \in Threads, Crash(t)
      PROVE  UNCHANGED <<versions, provenance>>
  BY <1>5 DEF Crash
<1>6. CASE UNCHANGED vars
  BY <1>6 DEF vars
<1>7. QED
  BY <1>1, <1>2, <1>3, <1>4, <1>5, <1>6 DEF Next

\* A thread is in the middle of a post because it was before, or has just checked it.
LEMMA PostsBegin ==
  ASSUME TypeOK, [Next]_vars, NEW t \in Threads, handler'[t].step = "commit_version"
  PROVE  \/ handler'[t] = handler[t]
         \/ /\ Acceptable(handler'[t].version.envelope)
            /\ handler'[t].version.first =
                 (VersionsOf(handler'[t].version.envelope.data_id) = {})
<1> USE DEF registry, records, Idle
<1>1. CASE Add
  BY <1>1 DEF Add, AddSource, AddSourceAuthority, AddDataContract, AddProvenance,
     AddKnowledgeObject, AddIngestedArtifact, AddMemoryRecord
<1>2. ASSUME NEW u \in Threads, Rebuild(u) PROVE handler'[t] = handler[t]
  <2>1. CASE BeginRebuild(u)
    BY <2>1 DEF TypeOK, BeginRebuild
  <2>2. ASSUME NEW m \in MemoryIds, LookUp(u, m) PROVE handler'[t] = handler[t]
    <3>1. u # t => handler'[t] = handler[t]
      BY <2>2 DEF TypeOK, LookUp
    <3>2. u = t => handler'[t].step \in {"insert", "update"}
      <4>1. handler[u] \in Rebuilding
        BY <2>2, AtRebuild DEF LookUp
      <4>2. QED
        BY <2>2, <4>1 DEF TypeOK, LookUp, Rebuilding
    <3>3. QED
      BY <3>1, <3>2
  <2>3. CASE UpdateEntry(u) \/ InsertEntry(u)
    <3>1. u # t => handler'[t] = handler[t]
      BY <2>3 DEF TypeOK, UpdateEntry, InsertEntry
    <3>2. u = t => handler'[t].step = "look_up"
      <4>1. handler[u] \in Rebuilding
        BY <2>3, AtRebuild DEF UpdateEntry, InsertEntry
      <4>2. QED
        BY <2>3, <4>1 DEF TypeOK, UpdateEntry, InsertEntry, Rebuilding
    <3>3. QED
      BY <3>1, <3>2
  <2>4. CASE EntryConflict(u) \/ FinishRebuild(u)
    BY <2>4 DEF TypeOK, EntryConflict, FinishRebuild
  <2>5. QED
    BY <1>2, <2>1, <2>2, <2>3, <2>4 DEF Rebuild
<1>3. ASSUME NEW u \in Threads, NEW e \in Envelopes, BeginDataObject(u, e)
      PROVE  \/ handler'[t] = handler[t]
             \/ /\ Acceptable(handler'[t].version.envelope)
                /\ handler'[t].version.first =
                     (VersionsOf(handler'[t].version.envelope.data_id) = {})
  BY <1>3 DEF TypeOK, BeginDataObject
<1>4. ASSUME NEW u \in Threads, CommitDataObject(u) \/ Crash(u)
      PROVE  handler'[t] = handler[t]
  BY <1>4 DEF TypeOK, CommitDataObject, Crash
<1>5. CASE UNCHANGED vars
  BY <1>5 DEF vars
<1>6. QED
  BY <1>1, <1>2, <1>3, <1>4, <1>5 DEF Next

LEMMA CheckedStays ==
  ASSUME TypeOK, [Next]_vars
  PROVE  \A v : Checked(v) => Checked(v)'
<1> SUFFICES ASSUME NEW v, Checked(v) PROVE Checked(v)'
  OBVIOUS
<1>1. VersionsOf(v.envelope.data_id) \subseteq VersionsOf(v.envelope.data_id)'
  BY TablesGrow DEF VersionsOf
<1>2. QED
  BY <1>1, TablesGrow DEF Checked

LEMMA CheckedStep ==
  ASSUME TypeOK, CheckedPosts, [Next]_vars
  PROVE  CheckedPosts'
<1> SUFFICES ASSUME NEW t \in Threads, handler'[t].step = "commit_version"
             PROVE  Checked(handler[t].version)'
  BY DEF CheckedPosts
<1> DEFINE w == handler'[t].version
<1>1. Checked(w)
  BY PostsBegin DEF CheckedPosts, Checked, Acceptable, SupersedesValidly
<1> HIDE DEF w
<1>2. \A v : v = w => Checked(v)'
  BY <1>1, CheckedStays
<1>3. QED
  BY <1>2 DEF Checked, w

\* A version is added only by the thread that has checked it.
LEMMA VersionsChange ==
  ASSUME TypeOK, [Next]_vars, versions' # versions
  PROVE  \E t \in Threads :
           /\ handler[t].step = "commit_version"
           /\ versions' = versions \cup {handler[t].version}
<1> USE DEF registry, records
<1>1. CASE Add
  BY <1>1 DEF Add, AddSource, AddSourceAuthority, AddDataContract, AddProvenance,
     AddKnowledgeObject, AddIngestedArtifact, AddMemoryRecord
<1>2. ASSUME NEW t \in Threads, Rebuild(t) PROVE FALSE
  BY <1>2 DEF Rebuild, BeginRebuild, LookUp, UpdateEntry, InsertEntry, EntryConflict,
     FinishRebuild
<1>3. ASSUME NEW t \in Threads, NEW e \in Envelopes, BeginDataObject(t, e) PROVE FALSE
  BY <1>3 DEF BeginDataObject
<1>4. ASSUME NEW t \in Threads, Crash(t) PROVE FALSE
  BY <1>4 DEF Crash
<1>5. ASSUME NEW t \in Threads, CommitDataObject(t)
      PROVE  /\ handler[t].step = "commit_version"
             /\ versions' = versions \cup {handler[t].version}
  BY <1>5 DEF CommitDataObject
<1>6. CASE UNCHANGED vars
  BY <1>6 DEF vars
<1>7. QED
  BY <1>1, <1>2, <1>3, <1>4, <1>5, <1>6 DEF Next

LEMMA TypesStep ==
  ASSUME TypeOK, CheckedPosts, TypesComeFirst, [Next]_vars
  PROVE  TypesComeFirst'
<1>1. CASE versions' = versions
  BY <1>1 DEF TypesComeFirst, VersionsOf
<1>2. CASE versions' # versions
  <2>1. PICK t \in Threads : /\ handler[t].step = "commit_version"
                             /\ versions' = versions \cup {handler[t].version}
    BY <1>2, VersionsChange
  <2>2. SUFFICES ASSUME NEW v \in versions'
                 PROVE  \E u \in VersionsOf(v.envelope.data_id)' :
                          /\ u.first
                          /\ u.envelope.epistemic_type = v.envelope.epistemic_type
    BY DEF TypesComeFirst
  <2>3. \A id : VersionsOf(id) \subseteq VersionsOf(id)'
    BY TablesGrow DEF VersionsOf
  <2>4. CASE v \in versions
    BY <2>3, <2>4 DEF TypesComeFirst
  <2>5. CASE v = handler[t].version /\ v.first
    BY <2>1, <2>5 DEF VersionsOf
  <2>6. CASE v = handler[t].version /\ ~v.first
    <3>1. PICK x \in VersionsOf(v.envelope.data_id) :
            x.envelope.epistemic_type = v.envelope.epistemic_type
      BY <2>1, <2>6 DEF CheckedPosts, Checked
    <3>2. x \in versions /\ x.envelope.data_id = v.envelope.data_id
      BY DEF VersionsOf
    <3>3. QED
      BY <2>3, <3>1, <3>2 DEF TypesComeFirst
  <2>7. QED
    BY <2>1, <2>4, <2>5, <2>6
<1>3. QED
  BY <1>1, <1>2

LEMMA ReachesStep ==
  ASSUME TypeOK, CheckedPosts, HistoryReachesFirst, [Next]_vars
  PROVE  HistoryReachesFirst'
<1>1. CASE versions' = versions
  BY <1>1 DEF HistoryReachesFirst, VersionsOf
<1>2. CASE versions' # versions
  <2>1. PICK t \in Threads : /\ handler[t].step = "commit_version"
                             /\ versions' = versions \cup {handler[t].version}
    BY <1>2, VersionsChange
  <2>2. SUFFICES ASSUME NEW id \in DataIds, NEW ids \in SUBSET VersionIds,
                        \A v \in VersionsOf(id)' :
                          v.first \/ v.envelope.supersedes_ref \in ids
                            => v.envelope.version_id \in ids,
                        NEW v \in VersionsOf(id)'
                 PROVE  v.envelope.version_id \in ids
    BY DEF HistoryReachesFirst
  <2>3. VersionsOf(id) \subseteq VersionsOf(id)'
    BY TablesGrow DEF VersionsOf
  <2>4. \A u \in VersionsOf(id) : u.envelope.version_id \in ids
    BY <2>2, <2>3 DEF HistoryReachesFirst
  <2>5. CASE v \in versions
    BY <2>4, <2>5 DEF VersionsOf
  <2>6. CASE v = handler[t].version
    <3>1. v.first \/ \E u \in VersionsOf(v.envelope.data_id) :
            u.envelope.version_id = v.envelope.supersedes_ref
      BY <2>1, <2>6 DEF CheckedPosts, Checked
    <3>2. v.envelope.data_id = id
      BY DEF VersionsOf
    <3>3. QED
      BY <2>2, <2>4, <3>1, <3>2
  <2>7. QED
    BY <2>1, <2>5, <2>6 DEF VersionsOf
<1>3. QED
  BY <1>1, <1>2

DataInv == TypeOK /\ CheckedPosts /\ TypesComeFirst /\ HistoryReachesFirst

LEMMA DataInvariant == Spec => []DataInv
<1>1. Init => DataInv
  BY TypeInit
  DEF Init, DataInv, CheckedPosts, TypesComeFirst, HistoryReachesFirst, VersionsOf, Idle
<1>2. DataInv /\ [Next]_vars => DataInv'
  BY TypeStep, CheckedStep, TypesStep, ReachesStep DEF DataInv
<1>3. QED
  BY <1>1, <1>2, PTL DEF Spec

\* A type comes in only with a version whose handler had found none (add_data_object).
THEOREM TypesEnterFirst == Spec => []TypesComeFirst
<1>1. DataInv => TypesComeFirst
  BY DEF DataInv
<1>2. QED
  BY <1>1, DataInvariant, PTL

\* The references of later versions lead back to a first one (add_data_object).
THEOREM HistoriesReachFirst == Spec => []HistoryReachesFirst
<1>1. DataInv => HistoryReachesFirst
  BY DEF DataInv
<1>2. QED
  BY <1>1, DataInvariant, PTL

\* A version that commits changes an answer only by being in it.
LEMMA AnswersStep ==
  ASSUME TypeOK, [Next]_vars
  PROVE  AnswersStand
<1> SUFFICES ASSUME NEW id \in DataIds, NEW at \in Times, NEW known_at \in Times \cup {NoEnd},
                    Projection(id, at, known_at)' # Projection(id, at, known_at)
             PROVE  \E v \in versions' \ versions : LateVersion(v, id, at, known_at)
  BY DEF AnswersStand
<1>1. versions' # versions
  BY DEF Projection, VersionsOf
<1>2. PICK t \in Threads : /\ handler[t].step = "commit_version"
                           /\ versions' = versions \cup {handler[t].version}
  BY <1>1, VersionsChange
<1> DEFINE v == handler[t].version
<1>3. v \in versions' \ versions
  BY <1>1, <1>2
<1>4. \A u \in versions' : u.envelope.recorded_time \in Nat
  <2>1. v \in DataObjectVersion
    BY <1>2, AtCommit DEF Posting
  <2>2. \A u \in versions' : u \in DataObjectVersion
    BY <1>2, <2>1 DEF TypeOK
  <2>3. QED
    BY <2>2, RowsAssumption DEF DataObjectVersion, DataEnvelope
<1> HIDE DEF v
<1>5. versions' = versions \cup {v}
  BY <1>2 DEF v
\* Were v not answered, what was answered before would be: v is no candidate, or it was
\* recorded before another.
<1>6. /\ v.envelope.data_id = id
      /\ ActivePeriod(v.envelope, at) /\ RecordedBy(v, known_at)
  BY <1>5 DEF Projection, VersionsOf, RecordedBy, RecordedNoLater, ActivePeriod
<1>7. \A u \in Projection(id, at, known_at) : RecordedNoLater(u, v)
  <2> SUFFICES ASSUME NEW u \in Projection(id, at, known_at), ~RecordedNoLater(u, v)
               PROVE  FALSE
    OBVIOUS
  <2>1. Projection(id, at, known_at)' = Projection(id, at, known_at)
    BY <1>4, <1>5 DEF Projection, VersionsOf, RecordedBy, RecordedNoLater, ActivePeriod
  <2>2. QED
    BY <2>1
<1>8. v \in Projection(id, at, known_at)'
  BY <1>4, <1>5, <1>6, <1>7
  DEF Projection, VersionsOf, RecordedBy, RecordedNoLater, ActivePeriod
<1>9. Projection(id, at, known_at)' \subseteq Projection(id, at, known_at) \cup {v}
  BY <1>5 DEF Projection, VersionsOf, RecordedBy, RecordedNoLater, ActivePeriod
<1>10. QED
  BY <1>3, <1>6, <1>7, <1>8, <1>9 DEF LateVersion

(***************************************************************************)
(* Whatever recorded times clients post: an answer about a data object is  *)
(* changed only by a version that is in it, that says it was recorded by   *)
(* the time asked for and no earlier than what was answered (project_data).*)
(***************************************************************************)
THEOREM LateVersionsRewrite == Spec => OnlyLateVersionsRewrite
<1>1. TypeOK /\ [Next]_vars => [AnswersStand]_vars
  BY AnswersStep
<1>2. QED
  BY <1>1, TypeCorrect, PTL DEF Spec, OnlyLateVersionsRewrite

-----------------------------------------------------------------------------
\* Provenance

LEMMA AncestryClosed ==
  ASSUME TypeOK, NEW ref \in ProvenanceIds
  PROVE  ClosedFrom(ref, Ancestry(ref))
<1>1. ref \in Ancestry(ref)
  BY DEF Ancestry, ClosedFrom
<1>2. ASSUME NEW p \in provenance, p.provenance_id \in Ancestry(ref),
             NEW q \in p.previous_provenance_refs
      PROVE  q \in Ancestry(ref)
  <2>1. q \in ProvenanceIds
    BY RowsAssumption DEF TypeOK, ProvenanceRecord
  <2>2. ASSUME NEW refs \in SUBSET ProvenanceIds, ClosedFrom(ref, refs)
        PROVE  q \in refs
    BY <1>2, <2>2 DEF Ancestry, ClosedFrom
  <2>3. QED
    BY <2>1, <2>2 DEF Ancestry
<1>3. QED
  BY <1>1, <1>2 DEF ClosedFrom

\* The table of provenance changes by records that were not known.
LEMMA ProvenanceChange ==
  ASSUME TypeOK, [Next]_vars
  PROVE  /\ provenance \subseteq provenance'
         /\ \A p \in provenance' \ provenance : ~Known(p.provenance_id)
<1> USE DEF registry, records
<1>1. CASE Add
  BY <1>1 DEF Add, AddSource, AddSourceAuthority, AddDataContract, AddProvenance,
     AddKnowledgeObject, AddIngestedArtifact, AddMemoryRecord
<1>2. ASSUME NEW t \in Threads, Rebuild(t) PROVE UNCHANGED provenance
  BY <1>2 DEF Rebuild, BeginRebuild, LookUp, UpdateEntry, InsertEntry, EntryConflict,
     FinishRebuild
<1>3. ASSUME NEW t \in Threads, NEW e \in Envelopes, BeginDataObject(t, e)
      PROVE  UNCHANGED provenance
  BY <1>3 DEF BeginDataObject
<1>4. ASSUME NEW t \in Threads, CommitDataObject(t) \/ Crash(t) PROVE UNCHANGED provenance
  BY <1>4 DEF CommitDataObject, Crash
<1>5. CASE UNCHANGED vars
  BY <1>5 DEF vars
<1>6. QED
  BY <1>1, <1>2, <1>3, <1>4, <1>5 DEF Next

LEMMA CompleteStep ==
  ASSUME TypeOK, [Next]_vars
  PROVE  CompleteStands
<1> SUFFICES ASSUME NEW ref \in ProvenanceIds, Complete(ref)
             PROVE  Complete(ref)' /\ Ancestry(ref)' = Ancestry(ref)
  BY DEF CompleteStands
<1> DEFINE walked == Ancestry(ref)
<1>1. walked \in SUBSET ProvenanceIds
  BY DEF Ancestry
<1>2. \A p \in provenance' : p.provenance_id \in walked => p \in provenance
  BY ProvenanceChange DEF Complete
<1>3. ClosedFrom(ref, walked)
  BY AncestryClosed
<1>4. /\ ref \in walked
      /\ \A p \in provenance' :
           p.provenance_id \in walked => p.previous_provenance_refs \subseteq walked
  BY <1>2, <1>3 DEF ClosedFrom
<1>5. Ancestry(ref)' \subseteq walked
  <2> HIDE DEF walked
  <2>1. QED
    BY <1>1, <1>4 DEF Ancestry, ClosedFrom
<1>6. walked \subseteq Ancestry(ref)'
  <2>1. ASSUME NEW q \in walked, NEW refs \in SUBSET ProvenanceIds, ref \in refs,
               \A p \in provenance' :
                 p.provenance_id \in refs => p.previous_provenance_refs \subseteq refs
        PROVE  q \in refs
    <3>1. ClosedFrom(ref, refs)
      BY <2>1, ProvenanceChange DEF ClosedFrom
    <3>2. QED
      BY <2>1, <3>1 DEF Ancestry
  <2>2. QED
    BY <1>1, <2>1 DEF Ancestry, ClosedFrom
<1>7. QED
  BY <1>5, <1>6, TablesGrow DEF Complete

\* A provenance graph that is complete stays complete and the same (provenance_graph).
THEOREM CompleteGraphs == Spec => CompleteGraphStands
<1>1. TypeOK /\ [Next]_vars => [CompleteStands]_vars
  BY CompleteStep
<1>2. QED
  BY <1>1, TypeCorrect, PTL DEF Spec, CompleteGraphStands

GroundedInv == TypeOK /\ CheckedPosts /\ FoundIsGrounded

LEMMA GroundedStep ==
  ASSUME GroundedInv, [Next]_vars
  PROVE  FoundIsGrounded'
<1> USE DEF registry, records, FoundIsGrounded, Searchable, GroundedInv, Known
<1>1. CASE Add
  BY <1>1 DEF Add, AddSource, AddSourceAuthority, AddDataContract, AddProvenance,
     AddKnowledgeObject, AddIngestedArtifact, AddMemoryRecord
<1>2. ASSUME NEW t \in Threads, Rebuild(t) PROVE FoundIsGrounded'
  BY <1>2 DEF Rebuild, BeginRebuild, LookUp, UpdateEntry, InsertEntry, EntryConflict,
     FinishRebuild
<1>3. ASSUME NEW t \in Threads, NEW e \in Envelopes, BeginDataObject(t, e)
      PROVE  FoundIsGrounded'
  BY <1>3 DEF BeginDataObject
<1>4. ASSUME NEW t \in Threads, CommitDataObject(t) PROVE FoundIsGrounded'
  <2>1. Known(handler[t].version.envelope.provenance_ref)
    BY <1>4 DEF CommitDataObject, CheckedPosts, Checked
  <2>2. versions' = versions \/ versions' = versions \cup {handler[t].version}
    BY <1>4 DEF CommitDataObject
  <2>3. UNCHANGED <<provenance, knowledge, artifacts, memory>>
    BY <1>4 DEF CommitDataObject
  <2>4. \A v \in versions' : Known(v.envelope.provenance_ref)
    BY <2>1, <2>2
  <2>5. QED
    BY <2>3, <2>4
<1>5. ASSUME NEW t \in Threads, Crash(t) PROVE FoundIsGrounded'
  BY <1>5 DEF Crash
<1>6. CASE UNCHANGED vars
  BY <1>6 DEF vars
<1>7. QED
  BY <1>1, <1>2, <1>3, <1>4, <1>5, <1>6 DEF Next

\* What can be found, and every artifact, has its provenance (search_memory).
THEOREM EverythingFoundIsGrounded == Spec => []FoundIsGrounded
<1>1. Init => GroundedInv
  BY TypeInit DEF Init, GroundedInv, CheckedPosts, FoundIsGrounded, Searchable, Idle
<1>2. GroundedInv /\ [Next]_vars => GroundedInv'
  BY TypeStep, CheckedStep, GroundedStep DEF GroundedInv
<1>3. GroundedInv => FoundIsGrounded
  BY DEF GroundedInv
<1>4. QED
  BY <1>1, <1>2, <1>3, PTL DEF Spec

-----------------------------------------------------------------------------
\* The memory index

\* A rebuild has indexed what it read but for what is left and what it is about to insert.
Indexing(h) ==
  /\ h.step = "insert" => h.read \subseteq index \cup h.todo \cup {h.record}
  /\ h.step \in {"look_up", "update"} => h.read \subseteq index \cup h.todo

IndexInv == TypeOK /\ RebuiltIsIndexed /\ \A t \in Threads : Indexing(handler[t])

LEMMA IndexGrows ==
  ASSUME [Next]_vars
  PROVE  index \subseteq index'
BY DEF registry, records, Next, Add, AddSource, AddSourceAuthority,
   AddDataContract, AddProvenance, AddKnowledgeObject, AddIngestedArtifact,
   AddMemoryRecord, BeginDataObject, CommitDataObject, Crash, Rebuild, BeginRebuild,
   LookUp, UpdateEntry, InsertEntry, EntryConflict, FinishRebuild, vars

LEMMA RebuildStep ==
  ASSUME IndexInv, NEW t \in Threads, Rebuild(t), index \subseteq index'
  PROVE  RebuiltIsIndexed' /\ \A u \in Threads : Indexing(handler[u])'
<1> USE DEF registry, records, IndexInv, RebuiltIsIndexed
<1>1. CASE BeginRebuild(t)
  BY <1>1 DEF TypeOK, BeginRebuild, Indexing
<1>2. ASSUME NEW m \in MemoryIds, LookUp(t, m)
      PROVE  RebuiltIsIndexed' /\ \A u \in Threads : Indexing(handler[u])'
  <2>1. handler[t] \in Rebuilding
    BY <1>2, AtRebuild DEF LookUp
  <2>2. handler[t].read \subseteq index \cup handler[t].todo
    BY <1>2 DEF LookUp, Indexing
  <2>3. Indexing(handler[t])'
    BY <1>2, <2>1, <2>2 DEF TypeOK, LookUp, Indexing, Rebuilding
  <2>4. \A u \in Threads \ {t} : Indexing(handler[u])'
    BY <1>2 DEF TypeOK, LookUp, Indexing
  <2>5. QED
    BY <1>2, <2>3, <2>4 DEF LookUp
<1>3. CASE UpdateEntry(t) \/ InsertEntry(t)
  <2>1. handler[t] \in Rebuilding
    BY <1>3, AtRebuild DEF UpdateEntry, InsertEntry
  <2>2. Indexing(handler[t])'
    BY <1>3, <2>1 DEF TypeOK, UpdateEntry, InsertEntry, Indexing, Rebuilding
  <2>3. \A u \in Threads \ {t} : Indexing(handler[u])'
    BY <1>3 DEF TypeOK, UpdateEntry, InsertEntry, Indexing
  <2>4. QED
    BY <1>3, <2>2, <2>3 DEF UpdateEntry, InsertEntry
<1>4. CASE EntryConflict(t)
  BY <1>4 DEF TypeOK, EntryConflict, Indexing, Idle
<1>5. CASE FinishRebuild(t)
  BY <1>5 DEF TypeOK, FinishRebuild, Indexing, Idle
<1>6. QED
  BY <1>1, <1>2, <1>3, <1>4, <1>5 DEF Rebuild

LEMMA IndexStep ==
  ASSUME IndexInv, [Next]_vars
  PROVE  RebuiltIsIndexed' /\ \A u \in Threads : Indexing(handler[u])'
<1> USE DEF registry, records, IndexInv, RebuiltIsIndexed
<1>1. CASE Add
  BY <1>1 DEF Add, AddSource, AddSourceAuthority, AddDataContract, AddProvenance,
     AddKnowledgeObject, AddIngestedArtifact, AddMemoryRecord, Indexing
<1>2. ASSUME NEW t \in Threads, NEW e \in Envelopes, BeginDataObject(t, e)
      PROVE  RebuiltIsIndexed' /\ \A u \in Threads : Indexing(handler[u])'
  BY <1>2 DEF TypeOK, BeginDataObject, Indexing
<1>3. ASSUME NEW t \in Threads, CommitDataObject(t) \/ Crash(t)
      PROVE  RebuiltIsIndexed' /\ \A u \in Threads : Indexing(handler[u])'
  BY <1>3 DEF TypeOK, CommitDataObject, Crash, Indexing, Idle
<1>4. CASE UNCHANGED vars
  BY <1>4 DEF vars, Indexing
<1>5. QED
  BY <1>1, <1>2, <1>3, <1>4, RebuildStep, IndexGrows DEF Next

\* A rebuild that was answered has indexed all it read (rebuild_memory_projection).
THEOREM RebuildsIndexAll == Spec => []RebuiltIsIndexed
<1>1. Init => IndexInv
  BY TypeInit DEF Init, IndexInv, RebuiltIsIndexed, Indexing, Idle
<1>2. IndexInv /\ [Next]_vars => IndexInv'
  BY TypeStep, IndexStep DEF IndexInv
<1>3. IndexInv => RebuiltIsIndexed
  BY DEF IndexInv
<1>4. QED
  BY <1>1, <1>2, <1>3, PTL DEF Spec
=============================================================================
