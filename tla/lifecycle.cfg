SPECIFICATION Spec
CONSTANTS
  Execution = {e1, e2, e3}
  NoExit = NoExit
  NoExecution = NoExecution
  MaxConcurrent = 2
  MaxOutput = 0
  WideLead = {}
  Stream = {}
  MaxEmit = 0
  Poller = {}
  MaxText = 3
  Faults = {"crash", "bad_script", "attest", "thread_start", "container_start", "stop", "stop_transport"}
SYMMETRY ExecutionSymmetry
INVARIANTS
  VerdictAgreement
  KeyBeforeThread
  StoresAgree
  TypeOK
  ConcurrencyLimit
  MetricsLaw
  WorkspaceInUse
  Supervised
PROPERTIES
  VerdictFinal
  NothingLeaked
  ImplementsLifecycle
