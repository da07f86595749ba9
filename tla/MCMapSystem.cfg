\* Bakes, previews and crashes over two tiles and two rasters: every setting
\* the editor offers, partial files, lost headers.  A packed tile may grow by
\* two words, within the slack of the size estimate, and one word more than
\* 32-bit offsets reach is needed for two such tiles.
SPECIFICATION Spec
CONSTANTS
  NumTiles = 2
  GridWidth = 3
  GridHeight = 2
  TileSize = 2
  Word = 5
  RawTile = 2
  HeaderSize = 1
  Max32 = 8
  PackedSizes = {1, 4}
  Rasters = {v1, v2}
  Compressions <- MCAllCompressions
  DirFormats <- MCDirFormats
  MinTileToCompress = 2
  MinDataToCompress = 4
  StagingCapacity = 2
  CloseLosesData = TRUE
SYMMETRY MCSymmetry
INVARIANTS
  TypeOK
  SealedMapIsWhole
  PreviewIsLatestBake
  OnlyLZ4TilesUnreadable
  OffsetsFit
  WrittenIsSealed
  RejectedIsUnsealed
PROPERTIES
  OldMapKeptUntilOpen
  ImplementsStore
