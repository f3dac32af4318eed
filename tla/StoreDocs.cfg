CONSTANTS
  Docs = {1, 2}
  MaxSplits = 2
  Contents <- Shapes
  SegmentMax = 6
  CompactPercent = 0
  MaxSeq = 7
  MaxSegments = 3
  MaxCrashes = 2
SPECIFICATION RefinementRuns
INVARIANTS
  TypeOK
  ReplayAgrees
  OwnedResolve
  SeqsUnique
  TombstonesSound
  SealedDurable
  SegmentsSafe
  AlwaysOpens
  RecoveryKeepsPromise
PROPERTIES
  SealedImmutable
  ImplementsDocStore
