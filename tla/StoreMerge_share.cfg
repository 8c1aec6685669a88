SPECIFICATION FairSpec
CONSTANTS
  p1 = p1
  p2 = p2
  u1 = u1
  u2 = u2
  Procs = {p1, p2}
  NoProc = NoProc
  Urls = {u1, u2}
  Hashes = {u1, u2}
  NoHash = NoHash
  Work <- Mixed
  PageHash <- OwnHash
  MaxClock = 4
  MaxRuns = 2
  MaxFaults = 1
CHECK_DEADLOCK FALSE
INVARIANT TypeOK
PROPERTIES StampsAdvance ClaimSurvives RunsEnd
