SPECIFICATION FairSpec
CONSTANTS
  Modes <- MCModes
  NoActor = NoActor
INVARIANTS
  TypeOK
  GracefulExit
  ExitCodeTrue
PROPERTIES
  ProcessEnds
  DetectorEnds
CHECK_DEADLOCK FALSE
