SPECIFICATION Spec
CHECK_DEADLOCK FALSE
CONSTANTS
  Call = {1, 2}
  Address = {a1}
  Execution = {x1, x2}
  PollMessage = {}
  Nonce = {n1, n2}
  None = None
  RateLimit = 2
  RateWindow = 1
  AttestLimit = 1
  AttestWindow = 1
  NonceTTL = 2
  TokenLifetime = 1
  Lag = 1
  MaxKey = 2
  MaxClock = 2
  MaxEpoch = 2
  Faults = {"down", "bad_claim", "bad_body", "late"}
INVARIANT
  NoReplay
PROPERTY
  CurrentKeyAccepted
