SPECIFICATION Spec
CONSTANTS
  Execution = {e1}
  NoExit = NoExit
  NoExecution = NoExecution
  MaxConcurrent = 1
  MaxOutput = 3
  WideLead = {1}
  Stream = {"stdout", "stderr"}
  MaxEmit = 2
  Poller = {p1}
  MaxText = 3
  Faults = {"bad_poll", "container_create", "container_start", "remove", "remove_transport", "rmtree"}
INVARIANTS
  OutputBound
  CaptureFaithful
  ReplyConsistent
  StdoutReassembled
PROPERTIES
  OutputFinal
  PollsMonotone
