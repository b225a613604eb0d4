\* Safety and refinement: three requests, two lives of the process.
CONSTANTS
  x1 = x1  x2 = x2  x3 = x3
  k1 = k1  k2 = k2  blank = blank  n1 = n1  n2 = n2
  vA = vA  vB = vB  quote = quote  secret = secret  rotated = rotated
  Exchange <- MCExchange
  Key = {k1, k2, blank}
  EmptyKey = blank
  Nonce = {n1, n2}
  Vendor = {vA, vB}
  Terms = {quote}
  Secret = {secret, rotated}
  Attestation <- MCAttestation
  Submission <- MCSubmission
  OriginSecret = secret
  MaxSafeInteger = 7
  FutureSkew = 0
  NoSecret = NoSecret
  NoCredential = NoCredential
  NoKey = NoKey
  NoNonce = NoNonce
  NoOrder = NoOrder
  NoSubmission = NoSubmission
  MaxClock = 2
  MaxRestarts = 1
SPECIFICATION Spec
SYMMETRY MCSymmetry
INVARIANTS
  OnlyTheEmptyKeyIsForgotten
  KeyNamesOneRequest
  VerdictIsStable
  GrantIsCovered
  ExposureIsBounded
  OriginInv
PROPERTIES
  ImplementsLedger
CHECK_DEADLOCK FALSE
