SPECIFICATION Spec
CONSTANTS
  IntBytes = 2
  LongBytes = 2
  Beginnings <- Openings
  Alphabet <- Some
  MaxMore = 6
INVARIANTS
  TypeOK
  FramesAreSelfDelimiting
  ReencodedFramesSurvive
  WrittenValuesArrive
CHECK_DEADLOCK FALSE
