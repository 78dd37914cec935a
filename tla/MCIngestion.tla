----------------------------- MODULE MCIngestion -----------------------------
(***************************************************************************)
(* Files, sources and requests of Ingestion for TLC.                       *)
(***************************************************************************)
EXTENDS Ingestion, TLC

Within(institution) == [institution |-> institution]

Source(from, to) ==
  [source_id |-> "lms", lifecycle_state |-> "ACTIVE",
   effective_from |-> from, effective_to |-> to]

Mapping(authoritative, from, to) ==
  [source_ref |-> "lms", semantic_type |-> "learning", authority_scope |-> Within("aru"),
   authoritative |-> authoritative, lifecycle_state |-> "ACTIVE",
   effective_from |-> from, effective_to |-> to]

Version(artifact, id, content, type, supersedes) ==
  [version_id |-> id, artifact_id |-> artifact, content |-> content,
   source_ref |-> "lms", semantic_type |-> "learning", authority_scope |-> Within("aru"),
   observed_at |-> 1, epistemic_type |-> type, supersedes_ref |-> supersedes]

Knowledge(id, version) ==
  [knowledge_ref |-> id, artifact_version_ref |-> version, lifecycle_state |-> "ACTIVE"]

-----------------------------------------------------------------------------
\* Two versions that supersede the first, one that changes its type, an artifact whose
\* first version supersedes another's; an official artifact too late for its mapping.

TheSource   == {Source(1, NoEnd)}
TheMappings == {Mapping(TRUE, 1, 2), Mapping(FALSE, 1, NoEnd)}

Versioned ==
  {Version("a", "v1", "c1", "CLAIM", "none"), Version("a", "v2", "c2", "CLAIM", "v1"),
   Version("a", "v3", "c1", "CLAIM", "v1"), Version("a", "v2", "c2", "FACT", "v1"),
   Version("b", "v3", "c1", "FACT", "v2"),
   [Version("b", "v3", "c1", "FACT", "none") EXCEPT !.observed_at = 2]}

Summaries ==
  {Knowledge("k1", "v1"), [Knowledge("k1", "v2") EXCEPT !.lifecycle_state = "OTHER"]}

\* A version and its successor.
Succession ==
  {Version("a", "v1", "c1", "CLAIM", "none"), Version("a", "v2", "c2", "CLAIM", "v1")}

None == {}
=============================================================================
