SPECIFICATION Spec
CONSTANTS
  MixPerSource = 2
  U8Max = 2
  NamedSources = 2
  RootProps <- NoProps
  KidProps <- NoKidProps
  CallMeOffset = 4
  CallMeSources = {1}
  Words <- AnyWord
  MaxNodes = 6
  MaxKids = 2
  Nodes <- Parts
  KidNames <- KidParts
  InitialTree <- Required
INVARIANTS
  TypeOK
  EncodedPathsReachTheirNode
  ResolvedPathsAreTrue
  LinesReachOnlyWhatTheyName
