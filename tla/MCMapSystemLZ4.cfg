\* Maps with LZ4-compressed tiles.
SPECIFICATION Spec
CONSTANTS
  NumTiles = 2
  GridWidth = 3
  GridHeight = 2
  TileSize = 2
  Word = 5
  RawTile = 2
  HeaderSize = 1
  Max32 = 100
  PackedSizes = {1, 2}
  Rasters = {v1}
  Compressions <- MCLZ4
  DirFormats = {"Auto"}
  MinTileToCompress = 2
  MinDataToCompress = 4
  StagingCapacity = 2
  CloseLosesData = FALSE
INVARIANT BakedMapIsPreviewable
