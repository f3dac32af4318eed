CONSTANTS
  Failing = {"compact"}
  Docs = {1, 2}
  MaxSplits = 2
  Contents <- OneSplit
  SegmentMax = 3
  CompactPercent = 0
  MaxSeq = 8
  MaxSegments = 4
  MaxCrashes = 1
SPECIFICATION FaultSpec
INVARIANT OpensAfterFailure
