\* The four threads of a bake over one tile and two image lines, with the user
\* editing the settings and cancelling at every point, bake after bake.
SPECIFICATION Spec
CONSTANTS
  NumTiles = 1
  RawTile = 2
  HeaderSize = 1
  Max32 = 100
  MinTileToCompress = 2
  MinDataToCompress = 2
  Tasks = {"image", "tiles", "directory", "flush"}
  Reserved = {"flush"}
  Share = 10
  Compressions <- MCAutoOrNone
  Rows = 2
  FlushOps = 2
  StagingCapacity = 2
INVARIANTS
  TypeOK
  NoPartialFile
  SuccessIsComplete
  EarlyCancelIsSeen
  UndisturbedBakeIsSound
  OrderedProgressIsBounded
PROPERTIES
  BakeReturns
  ProgressNeverGoesBack
