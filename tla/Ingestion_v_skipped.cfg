CONSTANTS
  PageCount = 1
  Canon <- Single
  Hashes = {"a", "b"}
  NoHash = NoHash
  Served <- SingleServed
  Blocks <- Bodies
  Chunks <- Texts
  Budget = 2
  MaxSize = 2
  Concurrency = 1
  SinkSets = {{"sqlite"}}
  MaxRuns = 2
  MaxCrashes = 1
  MaxFaults = 0
SPECIFICATION Spec
INVARIANT SkippedIsStored
