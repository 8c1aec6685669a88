CONSTANTS
  Urls = {1, 2, 3}
  Seed = 1
  ExtraSeeds = {}
  Links <- Fork
  MaxDepth = 1
  MaxPages = 4
  Concurrency = 2
  Levels = {"Normal", "Reduced"}
  Interval = 1
  Interrupts = {"signal"}
  MaxInterrupts = 1
  MaxFailures = 1
  MaxSaveFaults = 0
  MaxLoadFaults = 0
SPECIFICATION EngineFairSpec
PROPERTIES CrawlTerminates ShutdownTerminates
