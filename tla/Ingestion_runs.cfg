CONSTANTS
  PageCount = 3
  Canon <- Mirror
  Hashes = {"a", "b", "c"}
  NoHash = NoHash
  Served <- MirrorServed
  Blocks <- Bodies
  Chunks <- Texts
  Budget = 2
  MaxSize = 2
  Concurrency = 2
  SinkSets = {{"sqlite"}, {"stream"}, {"sqlite", "stream"}}
  MaxRuns = 2
  MaxCrashes = 1
  MaxFaults = 1
SPECIFICATION IngestFairSpec
INVARIANTS TypeOK PermitsConserved NoOrphanChunk OkRunIsStored
PROPERTIES IngestEnds
