\* Every pair of texts of up to four lines, both callers, and any embedder with two deltas.
CONSTANTS
  Line = {a, blank}
  Blank = blank
  MaxLines = 4
  Delta = {20, 100}
  PersistFrac = 40
SPECIFICATION FairSpec
CHECK_DEADLOCK FALSE
INVARIANTS
  HunksTransform
  DiffIsMinimal
  PersistenceNeedsContext
  VerdictIffChanged
PROPERTIES
  AnalysisEnds
