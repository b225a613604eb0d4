\* A webhook asks for more than any vendor has in stock.
CONSTANTS
  home = home  away = away
  cheap = cheap  steady = steady  distant = distant
  Scenario = {home, away}
  Home = home
  Vendor = {cheap, steady, distant}
  NoVendor = NoVendor
  Candidates <- MCCandidates
  Stock <- MCStock
  Price <- MCPrice
  Evidence <- MCEvidence
  Quantity = {3}
  RequestedQty = 2
  FullQty = 2
  Threshold = 1
  WebhookEvent = {e1}
  NoOrder = NoOrder
  MonitorEnabled = TRUE
  OperatorWaits = TRUE
  SenderOnce = TRUE
  Reliable = TRUE
  MaxRequests = 2
  MaxCrashes = 0
SPECIFICATION Spec
INVARIANTS
  HistoryIsHonest
CHECK_DEADLOCK FALSE
