CONSTANTS
  Failing = {"rewind", "flush"}
  Docs = {1, 2}
  MaxSplits = 2
  Contents <- OneSplit
  SegmentMax = 8
  CompactPercent = 0
  MaxSeq = 7
  MaxSegments = 3
  MaxCrashes = 1
SPECIFICATION FaultSpec
INVARIANT FlushedReplayable
