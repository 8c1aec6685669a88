SPECIFICATION Spec
CONSTANTS
  p1 = p1
  p2 = p2
  u1 = u1
  u2 = u2
  Procs = {p1, p2}
  NoProc = NoProc
  Urls = {u1, u2}
  Hashes = {u1, u2}
  NoHash = NoHash
  Work <- Disjoint
  PageHash <- OwnHash
  MaxClock = 4
  MaxRuns = 1
  MaxFaults = 0
CHECK_DEADLOCK FALSE
PROPERTY CommittedSurvives
