------------------------------ MODULE MCReality ------------------------------
(***************************************************************************)
(* Rows and envelopes of Reality for TLC: the learning system of a          *)
(* university.                                                             *)
(***************************************************************************)
EXTENDS Reality, TLC

Mapping(authoritative) ==
  [source_ref |-> "lms", semantic_type |-> "learning", authority_scope |-> {"aru"},
   authoritative |-> authoritative, lifecycle_state |-> "ACTIVE"]

Contract(source) ==
  [contract_ref |-> "learning", semantic_definition |-> "learning",
   authoritative_source |-> source, lifecycle_state |-> "ACTIVE"]

Derived(id, previous) == [provenance_id |-> id, previous_provenance_refs |-> previous]

Version(id, data, type, supersedes, from, to, recorded) ==
  [version_id |-> id, data_id |-> data, contract_ref |-> "learning",
   semantic_type |-> "learning", source |-> "lms", institution |-> "aru",
   epistemic_type |-> type, synthetic_output |-> type = "INFERENCE",
   provenance_ref |-> "p1", supersedes_ref |-> supersedes,
   effective_from |-> from, effective_to |-> to, recorded_time |-> recorded]

-----------------------------------------------------------------------------
\* Records whose predecessors may come later, or lead in a circle.
Derivations ==
  {Derived("p1", {}), Derived("p1", {"p2"}), Derived("p2", {"p1"})}

TheMappings  == {Mapping(TRUE)}
TheContracts == {Contract("lms"), Contract("none")}

\* Two first versions of different types and of one time, the second of which names a
\* version that comes later; a correction of either in an overlapping period, one of them
\* backdated; a version of another object that names one of the first, and a correction
\* that names it.
TheEnvelopes ==
  {Version("v1", "d1", "INFERENCE", "none", 1, NoEnd, 2),
   Version("v2", "d1", "FACT", "v3", 1, 2, 2),
   Version("v3", "d1", "FACT", "v2", 2, NoEnd, 3),
   Version("v3", "d1", "INFERENCE", "v1", 1, NoEnd, 1),
   Version("v3", "d1", "INFERENCE", "v4", 1, NoEnd, 3),
   Version("v4", "d2", "CLAIM", "v1", 1, NoEnd, 1)}

TheKnowledge == {[knowledge_ref |-> "k1", provenance_ref |-> "p2"]}
TheArtifacts == {[artifact_id |-> "a1", source_ref |-> "lms", provenance_ref |-> "p2"]}
TheMemory    == {[memory_id |-> m, provenance_ref |-> "p1"] : m \in MemoryIds}

\* Bound: data objects and the rest are not posted side by side.  They share nothing but
\* the provenance, which neither writes.
Apart ==
  \/ versions = {} /\ \A t \in Threads : handler[t].step # "commit_version"
  \/ /\ memory = {} /\ knowledge = {} /\ artifacts = {}
     /\ \A t \in Threads : handler[t].step \in {"idle", "commit_version"}

ThreadSymmetry == Permutations(Threads)
=============================================================================
