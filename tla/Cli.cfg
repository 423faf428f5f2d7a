SPECIFICATION FairSpec
CONSTANTS
  MixPerSource = 1
  U8Max = 3
  MaxNodes = 4
  MaxKids = 1
  Nodes <- Added
  KidNames = {}
  InitialTree <- Required
  MaxTopologies = 2
  MaxInbox = 2
  Commands <- Typed
  RawPaths <- TypedPaths
  MaxOutbox = 1
INVARIANTS
  TypeOK
  StoresAgree
  DumpShowsTheCell
  EventsAreRightUntilAChange
  StrayFramesAreOfAnOldMap
PROPERTIES
  RefreshRepairsTheMap
  NeitherThreadStaysLockedOut
CHECK_DEADLOCK FALSE
