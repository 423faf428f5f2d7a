SPECIFICATION Spec
CONSTANTS
  MixPerSource = 1
  U8Max = 3
  MaxNodes = 4
  MaxKids = 1
  Nodes <- Added
  KidNames = {}
  InitialTree <- Required
  MaxTopologies = 3
  MaxInbox = 2
  Commands <- Typed
  RawPaths <- TypedPaths
  MaxOutbox = 1
INVARIANT
  ChangeFramesDecodeAgainstAnUpToDateMap
CHECK_DEADLOCK FALSE
