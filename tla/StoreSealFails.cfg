CONSTANTS
  Failing = {"seal"}
  Docs = {1, 2}
  MaxSplits = 2
  Contents <- OneSplit
  SegmentMax = 3
  CompactPercent = 0
  MaxSeq = 7
  MaxSegments = 3
  MaxCrashes = 1
SPECIFICATION FaultSpec
INVARIANT MapsReplayable
