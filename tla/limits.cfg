SPECIFICATION FairSpec
CHECK_DEADLOCK FALSE
CONSTANTS
  Call = {1, 2, 3}
  Address = {a1, a2}
  Execution = {x1}
  PollMessage = {p1}
  Nonce = {n1, n2}
  None = None
  RateLimit = 2
  RateWindow = 2
  AttestLimit = 1
  AttestWindow = 3
  NonceTTL = 2
  TokenLifetime = 1
  Lag = 1
  MaxKey = 1
  MaxClock = 3
  MaxEpoch = 1
  Faults = {"bad_body", "late"}
INVARIANTS
  RateBound
  NonceOnce
  AttestationBound
PROPERTIES
  RefusalsJustified
  StaleAddressesGo
