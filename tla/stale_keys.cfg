SPECIFICATION Spec
CHECK_DEADLOCK FALSE
CONSTANTS
  Call = {1, 2}
  Address = {a1}
  Execution = {x1}
  PollMessage = {p1}
  Nonce = {n1, n2}
  None = None
  RateLimit = 2
  RateWindow = 2
  AttestLimit = 1
  AttestWindow = 3
  NonceTTL = 2
  TokenLifetime = 1
  Lag = 1
  MaxKey = 2
  MaxClock = 2
  MaxEpoch = 2
  Faults = {"keyless"}
PROPERTY CurrentKeyAccepted
