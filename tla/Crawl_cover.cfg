CONSTANTS
  Urls = {1, 2, 3, 4, 5}
  Seed = 1
  ExtraSeeds = {}
  Links <- Deeper
  MaxDepth = 2
  MaxPages = 8
  Concurrency = 1
  Levels = {"Normal", "Critical"}
  Interval = 0
  Interrupts = {}
  MaxInterrupts = 0
  MaxFailures = 1
  MaxSaveFaults = 1
  MaxLoadFaults = 1
SPECIFICATION Spec
INVARIANTS WithinDepth CoversDepth
