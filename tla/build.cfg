SPECIFICATION CasesSpec
CHECK_DEADLOCK FALSE
CONSTANTS
  f1 = f1
  f2 = f2
  f3 = f3
  Flavor <- MCFlavor
  None = None
  Manifest <- MCManifest
  Tools = 2
  ConnectAttempts = 2
  InstallAttempts = 2
  ReconnectAttempts = 2
  AllowDebug = FALSE
INVARIANTS
  OnlySigned
  OwnArtifact
  GatesHold
  ResultsComplete
  UploadsSequential
PROPERTIES
  ResultsFinal
  DriverEnds
