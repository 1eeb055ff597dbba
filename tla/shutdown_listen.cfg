SPECIFICATION FairSpec
CONSTANTS
  Modes <- MCServing
  NoActor = NoActor
PROPERTIES
  ServerErrorExits
CHECK_DEADLOCK FALSE
