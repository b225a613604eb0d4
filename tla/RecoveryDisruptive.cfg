\* Resets and switches in mid-run, events delivered again, answers lost, a crash,
\* an origin that restarts, a second vendor that is short of stock.
CONSTANTS
  home = home  away = away
  cheap = cheap  steady = steady  distant = distant
  Scenario = {home, away}
  Home = home
  Vendor = {cheap, steady, distant}
  NoVendor = NoVendor
  Candidates <- MCCandidates
  Stock <- MCScarceStock
  Price <- MCPrice
  Evidence <- MCEvidence
  Quantity = {1}
  RequestedQty = 2
  FullQty = 1
  Threshold = 0
  WebhookEvent = {e1}
  NoOrder = NoOrder
  MonitorEnabled = TRUE
  OperatorWaits = FALSE
  SenderOnce = FALSE
  Reliable = FALSE
  MaxRequests = 2
  MaxCrashes = 1
SPECIFICATION Spec
INVARIANTS
  RecoveryInv
  ShownOrderIsReal
  CreditIsEarned
  MonitorFiresOnce
  PurchasesAreJustified
CHECK_DEADLOCK FALSE
