SPECIFICATION FairSpec
CONSTANTS
  MixPerSource = 1
  U8Max = 3
  MaxNodes = 4
  MaxKids = 1
  Nodes <- Added
  KidNames = {}
  InitialTree <- Required
  MaxTopologies = 1
  MaxInbox = 1
  Commands <- Typed
  RawPaths <- TypedPaths
  MaxOutbox = 1
PROPERTY
  PowerAsksForYes
CHECK_DEADLOCK FALSE
