SPECIFICATION Spec
CONSTANTS
  MixPerSource = 1
  U8Max = 2
  NamedSources = 1
  RootProps <- SetupRoot
  KidProps <- SetupKids
  CallMeOffset = 4
  EchoStride = 2
  MaxNodes = 5
  MaxKids = 2
  Nodes <- SharedNodes
  KidNames = {}
  InitialTree <- Shared
INVARIANTS
  FamiliesAreDisjoint
  EventsNameTheNode
  CarriedPropertiesAreReported
  PrecedenceIsImmaterial
  InitialStateAgreesWithEvents
  EchoNamesTheCommand
  RefusedMeansOutOfReach
  SetupSkipLeavesSetup
