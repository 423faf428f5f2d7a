SPECIFICATION Spec
CONSTANTS
  MixPerSource = 13
  U8Max = 255
  NamedSources = 19
  RootProps <- NoProps
  KidProps <- NoKidProps
  CallMeOffset = 4
  EchoStride = 6
  MaxNodes = 800
  MaxKids = 89
  Nodes = {}
  KidNames = {}
  InitialTree <- Duo
INVARIANT
  EchoedAssignmentsNameTheFader
