\* A directory of four bytes in every division into pieces, and two tiles,
\* through buffers no larger than a tile.
SPECIFICATION Spec
CONSTANTS
  Kinds = {"Zlib", "Zstd", "LZ4"}
  DirectorySize = 4
  TileSize = 2
  NumTiles = 2
  CHUNK_SIZE = 2
  EncoderBuffer = 2
  DecoderBuffer = 2
INVARIANTS
  TypeOK
  FrameIsComplete
  AcceptedIsWhole
  WholeIsAccepted
PROPERTY StreamsEnd
\* A file is written and read once.
CHECK_DEADLOCK FALSE
