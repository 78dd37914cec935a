\* Every order of requests, materialisations, crashes and retries.
SPECIFICATION Spec
CONSTANTS
  Artifacts = {"a", "b"}
  Versions = {"v1", "v2", "v3"}
  KnowledgeRefs = {"k1"}
  Sources = {"lms"}
  SemanticTypes = {"learning"}
  Institutions = {"aru"}
  Threads = {t1}
  Contents = {"c1", "c2"}
  Extractable = {"c1"}
  SourceRows <- TheSource
  MappingRows <- TheMappings
  Requests <- Versioned
  Materializations <- Summaries
INVARIANTS
  TypeOK
  StoredObjectsAreWhole
  RecordsAreGrounded
  SearchFindsCurrent
  SupersededOnce
  AnsweredIsFound
