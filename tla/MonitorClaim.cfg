SPECIFICATION Spec
CONSTANTS
  MixPerSource = 1
  U8Max = 3
  NamedSources = 1
  RootProps <- NoProps
  KidProps <- NoKidProps
  MaxNodes = 4
  MaxKids = 1
  Nodes <- Added
  KidNames = {}
  InitialTree <- Required
  MaxTopologies = 3
  MaxInbox = 3
INVARIANT
  SurvivesALayoutChange
