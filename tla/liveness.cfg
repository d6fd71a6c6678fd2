SPECIFICATION FairSpec
CONSTANTS
  Execution = {e1, e2}
  NoExit = NoExit
  NoExecution = NoExecution
  MaxConcurrent = 1
  MaxOutput = 1
  WideLead = {}
  Stream = {"stdout"}
  MaxEmit = 0
  Poller = {}
  MaxText = 3
  Faults = {"bad_script", "container_start", "stop_transport", "join_timeout", "stream_error"}
PROPERTIES
  EveryExecutionEnds
  EverythingReclaimed
