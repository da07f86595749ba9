\* Two levels, with or without files of earlier sessions; bakes and previews
\* of both, levels begun at every point.
SPECIFICATION Spec
CONSTANTS
  Levels = {l1, l2}
  NoLevel = NoLevel
  MaxBakes = 2
  MaxLoads = 2
  MaxEvents = 4
INVARIANTS
  TypeOK
  OneOperation
  StartNeverBlocks
  OnlyStoppedIsSilent
  OutdatedOnlyThroughImage
  WrongLevelOnlyIfOverlapped
  PreviewIsOffered
PROPERTIES
  PathsChangeOnlyWhenQuiet
  OperationEnds
\* The user may leave the editor alone.
CHECK_DEADLOCK FALSE
