CONSTANTS
  Malformed = Malformed  NoBound = NoBound  None = None  Array = Array  NoPlan = NoPlan
  NoNode = NoNode  Unreadable = Unreadable  NoPath = NoPath  NoRename = NoRename
  Topics = {"values", "scans", "prefixes", "lookups", "graphs", "louvain", "labels", "vectors", "trees", "queries"}
CHECK_DEADLOCK FALSE
SPECIFICATION Spec
INVARIANTS EntriesFaithful RegionsExact  AnalyticsExact CommunitiesSound HnswWellFormed SearchSound SnapshotRestores   ParsedAsWritten
PROPERTIES ModularityRises
