\* Two threads post versions of two data objects and rebuild the index of two memory
\* records, in any order with the posts of what they rest on.
SPECIFICATION Spec
CONSTANTS
  DataIds = {"d1", "d2"}
  VersionIds = {"v1", "v2", "v3", "v4"}
  Sources = {"lms"}
  SemanticTypes = {"learning"}
  Institutions = {"aru"}
  ProvenanceIds = {"p1", "p2"}
  MemoryIds = {"m1", "m2"}
  Threads = {t1, t2}
  MappingRows <- TheMappings
  ContractRows <- TheContracts
  ProvenanceRows <- Derivations
  Envelopes <- TheEnvelopes
  KnowledgeRows <- TheKnowledge
  ArtifactRows <- TheArtifacts
  MemoryRows <- TheMemory
  Times = {1, 2, 3}
CONSTRAINT Apart
SYMMETRY ThreadSymmetry
INVARIANTS
  TypeOK
  TypesComeFirst
  HistoryReachesFirst
  RebuiltIsIndexed
PROPERTIES
  OnlyLateVersionsRewrite
  CompleteGraphStands
