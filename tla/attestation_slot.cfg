SPECIFICATION Spec
CONSTANTS
  Execution = {e1, e2}
  NoExit = NoExit
  NoExecution = NoExecution
  MaxConcurrent = 1
  MaxOutput = 0
  WideLead = {}
  Stream = {}
  MaxEmit = 0
  Poller = {}
  MaxText = 3
  Faults = {"attest"}
INVARIANT
  QueuedHasOwner
