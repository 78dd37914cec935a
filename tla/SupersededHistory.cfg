\* An ingest dies between the supersession and its transition.
SPECIFICATION Spec
CHECK_DEADLOCK FALSE
CONSTANTS
  Artifacts = {"a"}
  Versions = {"v1", "v2"}
  KnowledgeRefs = {"k1"}
  Sources = {"lms"}
  SemanticTypes = {"learning"}
  Institutions = {"aru"}
  Threads = {t1}
  Contents = {"c1", "c2"}
  Extractable = {"c1"}
  SourceRows <- TheSource
  MappingRows <- None
  Requests <- Succession
  Materializations <- None
INVARIANT
  SupersededHasTransition
