\* A browser tab: simulated runs next to the live poll.
SPECIFICATION FairSpec
CONSTANTS
  northwind = northwind
  meridian = meridian
  colorants = colorants
  pacific = pacific
  authorized = authorized
  titan = titan
  Scenario = {northwind, meridian}
  Home = northwind
  Vendor = {colorants, pacific, authorized, titan}
  Verified = {colorants, authorized}
  Candidates <- MCCandidates
  Seeds <- MCSeeds
  IncidentCap = 2
  None = None
  MaxRuns = 2
  MaxInterruptions = 2
  MaxAsked = 1
INVARIANTS
  RecordsAreEarned
  WarmIsEarned
  BoardIsInOrder
PROPERTIES
  ImplementsLifecycle
  RunIsSettled
  ShowsTheWorkspace
