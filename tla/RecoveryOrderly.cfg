\* An operator who waits, a sender that delivers once, nothing lost.
CONSTANTS
  home = home  away = away
  cheap = cheap  steady = steady  distant = distant
  Scenario = {home, away}
  Home = home
  Vendor = {cheap, steady, distant}
  NoVendor = NoVendor
  Candidates <- MCCandidates
  Stock <- MCStock
  Price <- MCPrice
  Evidence <- MCEvidence
  Quantity = {1}
  RequestedQty = 2
  FullQty = 2
  Threshold = 1
  WebhookEvent = {e1}
  NoOrder = NoOrder
  MonitorEnabled = TRUE
  OperatorWaits = TRUE
  SenderOnce = TRUE
  Reliable = TRUE
  MaxRequests = 3
  MaxCrashes = 0
SPECIFICATION FairSpec
INVARIANTS
  LiveRunIsShown
  IncidentsAreTheRunsOwn
  NothingOutlivesAReset
  HistoryIsHonest
  EventBuysOnce
  PurchasesAreRecorded
PROPERTIES
  ImplementsLifecycle
  EveryRunEnds
  LowStockIsAnswered
CHECK_DEADLOCK FALSE
