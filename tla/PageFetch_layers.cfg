CONSTANTS
  Fetches = {1, 2}
  Requests = {1, 2}
  Redirects = {2}
  Strategies = {"Static", "Hybrid", "Full"}
  Callers <- CompeteUnderFull
  MaxRetries = 2
  Permits = 1
SPECIFICATION FetchFairSpec
INVARIANTS TypeOK SendsWithinBudget LastFailureTold PermitsMatchChromes ChildOwned DrainedIsQuiet
PROPERTIES QuietMeansIdle FetchReturns
