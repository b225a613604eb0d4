\* A scenario request's body arrives after the check of the status.
CONSTANTS
  home = home  away = away
  cheap = cheap  steady = steady  distant = distant
  Scenario = {home, away}
  Home = home
  Vendor = {cheap, steady, distant}
  NoVendor = NoVendor
  Candidates <- MCCandidates
  Stock <- MCStock
  Price <- MCPrice
  Evidence <- MCEvidence
  Quantity = {1}
  RequestedQty = 2
  FullQty = 2
  Threshold = 1
  WebhookEvent = {e1}
  NoOrder = NoOrder
  MonitorEnabled = TRUE
  OperatorWaits = FALSE
  SenderOnce = TRUE
  Reliable = TRUE
  MaxRequests = 2
  MaxCrashes = 0
SPECIFICATION Spec
PROPERTIES
  ScenarioHoldsStill
CHECK_DEADLOCK FALSE
