------------------------------ MODULE MapDisk ------------------------------
(***************************************************************************)
(* The baked map file: what is on disk, and how its header, directory and  *)
(* tile section are laid out (src/Shared/MapHeader.h and the directory     *)
(* strategies).  CMapFileWriter and CMapFileReader share this module.      *)
(*                                                                         *)
(* The file is a partial function from offsets to words.  A word stands    *)
(* for one chunk of WriteDataChunked: a piece of a tile, the occupancy     *)
(* bitmask, one tile offset, a whole compressed directory, or the header.  *)
(* An offset outside the domain is past the end of the file or in the hole *)
(* left by seeking over the header, which reads as zeros.                  *)
(***************************************************************************)
EXTENDS MapFormats

CONSTANTS
  PackedSizes, (* words a compressed tile may take                          *)
  Rasters,     (* what Bake may return: the data of every non-empty tile    *)
  GridWidth, GridHeight, TileSize, (* of the level context, in cells        *)
  Word         (* 2^32                                                      *)

ASSUME LayoutAssumption ==
  /\ PackedSizes \subseteq Nat \ {0} /\ PackedSizes # {}
  /\ Rasters # {}

(* InitLayout: a sum of 32 bits.                                            *)
TileCount(n) == ((n + TileSize - 1) % Word) \div TileSize

(* A grid is at most 2^31 - 1 cells wide, and the editor offers no tile     *)
(* larger than the terrain (CalculateMaxTileSize): InitLayout's sums do not *)
(* wrap.                                                                    *)
ASSUME GridAssumption ==
  /\ {GridWidth, GridHeight, TileSize} \subseteq Nat \ {0} /\ Word \in Nat
  /\ GridWidth + TileSize <= Word /\ GridHeight + TileSize <= Word
  /\ NumTiles = TileCount(GridWidth) * TileCount(GridHeight)

(* GetActiveLayersMask is asked after GetChannelCount and after Bake: when  *)
(* a layer is switched in between, the mask names as many layers as there   *)
(* are channels, another number of layers, or none.                         *)
Masks == {"same", "other", "none"}

VARIABLES
  exists,  (* the map file is in the level's directory                      *)
  disk     (* its words, by offset                                          *)

diskVars == <<exists, disk>>

(* Set bits below index i: what the rank table built over the occupancy     *)
(* bitmask answers for a set bit i.                                         *)
Rank(bits, i) == Cardinality({j \in bits : j < i})

-----------------------------------------------------------------------------
(* Words.                                                                   *)

(* Part k of the n words that tile i of raster v takes, stored raw or as    *)
(* the one-shot output of algorithm enc.                                    *)
TileWord(i, v, enc, k, n) ==
  [kind |-> "tile", tile |-> i, raster |-> v, enc |-> enc, part |-> k, of |-> n]

BitsWord(bits)       == [kind |-> "bits", bits |-> bits]
OffsetWord(at)       == [kind |-> "offset", at |-> at]
PackedWord(bits, fs) == [kind |-> "packed", bits |-> bits, offs |-> fs]

HeaderWord(fmt, mask, alg, blocks, dirAt, raw, packed) ==
  [kind |-> "header", fmt |-> fmt, mask |-> mask, alg |-> alg, blocks |-> blocks,
   dirAt |-> dirAt, rawDir |-> raw, packedDir |-> packed,
   countX |-> TileCount(GridWidth), countY |-> TileCount(GridHeight)]

EmptyFile == [p \in {} |-> OffsetWord(0)]

(* FWrite of one word at the file position; a hole is left where nothing    *)
(* was written.                                                             *)
Put(file, at, word) ==
  [p \in DOMAIN file \cup {at} |-> IF p = at THEN word ELSE file[p]]

Unsealed(file) == [p \in DOMAIN file \ {0} |-> file[p]]

(* static_cast<TOffset>(offset) of the offsets recorder.                    *)
Cast(fmt, at) == IF fmt = "Hybrid_32" THEN at % (Max32 + 1) ELSE at

-----------------------------------------------------------------------------
(* Reading the file back.                                                   *)

HasHeader == 0 \in DOMAIN disk /\ disk[0].kind = "header"

(* IsValidMapHeader: the compression fields must agree with each other, the *)
(* mask names a layer, and the tiles are counted again with 64-bit sums.    *)
(* The writer has checked the grid; no setting makes a cell less than 0.1.  *)
IsValidMapHeader(h) ==
  /\ h.fmt \in Formats /\ h.alg \in Algs /\ h.blocks \subseteq Blocks
  /\ h.alg = "None" => h.blocks = {} /\ h.packedDir = 0
  /\ h.alg # "None" =>
       IF "Directory" \in h.blocks
       THEN h.packedDir # 0 /\ h.rawDir # 0
       ELSE h.packedDir = 0
  /\ h.dirAt # 0 /\ h.mask # "none"
  /\ h.countX = ((GridWidth + TileSize - 1) \div TileSize) % Word
  /\ h.countY = ((GridHeight + TileSize - 1) \div TileSize) % Word

(* ReadDirectory finds all the bytes it asks for where the header says, and *)
(* ParseDirectory accepts their number.                                     *)
DirectoryReadable(h) ==
  /\ h.dirAt \in DOMAIN disk
  /\ IF "Directory" \in h.blocks
     THEN disk[h.dirAt].kind = "packed"
     ELSE /\ disk[h.dirAt].kind = "bits"
          /\ \A k \in 1 .. h.rawDir - 1 :
               /\ h.dirAt + k \in DOMAIN disk
               /\ disk[h.dirAt + k].kind = "offset"

DirectoryBits(h) == disk[h.dirAt].bits

DirectoryOffsets(h) ==
  IF "Directory" \in h.blocks
  THEN disk[h.dirAt].offs
  ELSE [k \in 0 .. h.rawDir - 2 |-> disk[h.dirAt + 1 + k].at]

ParseDirectory(h) ==
  /\ DirectoryReadable(h)
  /\ DOMAIN DirectoryOffsets(h) =
       (IF h.fmt = "Bitmask" THEN {} ELSE 0 .. Cardinality(DirectoryBits(h)))

(* GetTileNode: where a non-empty tile is, and how many words it takes.     *)
NodeOffset(fmt, bits, offs, i) ==
  IF fmt = "Bitmask" THEN HeaderSize + Rank(bits, i) * RawTile
                     ELSE offs[Rank(bits, i)]

NodeSize(fmt, bits, offs, i) ==
  IF fmt = "Bitmask" THEN RawTile
                     ELSE offs[Rank(bits, i) + 1] - offs[Rank(bits, i)]

(* The n words at offset at are exactly those of tile i of raster v.        *)
Holds(at, n, i, v, enc) ==
  /\ n > 0
  /\ \A k \in 0 .. n - 1 :
       at + k \in DOMAIN disk /\ disk[at + k] = TileWord(i, v, enc, k, n)

(* DecompressChunk reads what one-shot Compress wrote.  zlib and zstd have  *)
(* one container for both; LZ4 compresses a tile to a bare block and        *)
(* decodes an LZ4 frame.                                                    *)
StreamReadsOneShot(alg) == alg \in {"Zlib", "Zstd"}

(* What MapTileToImage draws in a tile of the preview; Garbled are bytes    *)
(* taken for another number of channels, from wherever they are found.      *)
Garbled          == [kind |-> "garbled"]
Blank            == [kind |-> "blank"]
Drawn(i, v)      == [kind |-> "drawn", tile |-> i, raster |-> v]
Picture(bits, v) == [i \in Tiles |-> IF i \in bits THEN Drawn(i, v) ELSE Blank]
=============================================================================
