CONSTANTS
  established = established  young = young
  genuine = genuine  tenant = tenant  reseller = reseller  impostor = impostor
  Vendor = {genuine, tenant, reseller, impostor}
  Host = {established, young}
  HostOf <- MCHostOf
  PayeeMatch <- MCPayeeMatch
  Typosquat <- MCTyposquat
  Synthetic = {impostor}
  RegisteredAt <- MCRegisteredAt
  Page <- MCPage
  SecondSource = {established}
  LinkupKey = TRUE
  Day = 2
  CacheTtl = 2
  None = None
  MaxClock = 3
  MaxCollections = 3
  Age = {29, 30, 89, 90}
SPECIFICATION MCSpec
INVARIANTS
  CollectorInv
  VerdictIsTrue
  InsufficiencyIsEarned
  ExplanationIsHonest
  FindingsDecide
PROPERTIES
  EveryCollectionEnds
  NoComeback
  ScoreFollowsEvidence
CHECK_DEADLOCK FALSE
