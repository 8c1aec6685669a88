CONSTANTS
  UrlCount = 3
  Size <- Sizes
  BufferSize = 1
  MaxBytes = 2
  MaxFaults = 1
  MaxConcurrent = 2
SPECIFICATION SinkFairSpec
INVARIANTS TypeOK NoSilentLoss HeldBounded
PROPERTIES DeferredIsSpooled BatchReturns
CHECK_DEADLOCK FALSE
