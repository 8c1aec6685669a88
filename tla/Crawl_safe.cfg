CONSTANTS
  Urls = {1, 2, 3, 4}
  Seed = 1
  ExtraSeeds = {4}
  Links <- Shortcut
  MaxDepth = 2
  MaxPages = 3
  Concurrency = 2
  Levels = {"Normal"}
  Interval = 1
  Interrupts = {"signal", "cancel", "crash"}
  MaxInterrupts = 1
  MaxFailures = 1
  MaxSaveFaults = 1
  MaxLoadFaults = 1
SPECIFICATION Spec
INVARIANTS TypeOK CollectedWithinBudget CompleteMeansAllVisited
PROPERTIES  NoRefetch PagesNeverRegress
