CONSTANTS
  u1 = u1
  u2 = u2
  a1 = a1
  a2 = a2
  b1 = b1
  NoHash = NoHash
  Urls = {u1, u2}
  Hashes = {a1, a2, b1}
  PageContents <- DisjointContents
  Modes = {"resume"}
  TornTails = {"partial"}
  Copies = 2
  MaxCrashes = 2
  MaxItemFaults = 1
  MaxSaveFaults = 1
  MaxReadFaults = 1
  MaxReruns = 0
SPECIFICATION FairSpec
INVARIANTS StoreSatisfiesTable OnceUnlessFailed
PROPERTIES RefinesDurableExport ExportedBeforeCommitted EventuallyCommitted
