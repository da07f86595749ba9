\* Packed tiles that grow past the slack of the size estimate.
SPECIFICATION Spec
CONSTANTS
  NumTiles = 2
  GridWidth = 3
  GridHeight = 2
  TileSize = 2
  Word = 5
  RawTile = 3
  HeaderSize = 1
  Max32 = 11
  PackedSizes = {1, 6}
  Rasters = {v1}
  Compressions <- MCPackers
  DirFormats = {"Auto"}
  MinTileToCompress = 1
  MinDataToCompress = 1
  StagingCapacity = 2
  CloseLosesData = FALSE
INVARIANT OffsetsFit
