----------------------------- MODULE MapFormats -----------------------------
(***************************************************************************)
(* The formats of a map and how CMapsBaker::RunBake resolves them from the *)
(* settings and the sizes (src/Core/Orchestration/MapsBaker.cpp).          *)
(***************************************************************************)
EXTENDS Integers, FiniteSets

CONSTANTS
  NumTiles,          (* tileCountX * tileCountY                             *)
  RawTile,           (* words of an uncompressed tile                       *)
  HeaderSize,        (* sizeof(SMapHeader), in words; tilesOffset           *)
  Max32,             (* the largest offset a uint32 directory entry holds   *)
  MinTileToCompress, (* kMinTileSizeToCompress                              *)
  MinDataToCompress  (* kMinDataSizeToCompress                              *)

ASSUME FormatsAssumption ==
  /\ NumTiles \in Nat \ {0}
  /\ RawTile \in Nat \ {0}
  /\ HeaderSize \in Nat \ {0}
  /\ Max32 \in Nat \ {0}
  /\ MinTileToCompress \in Nat /\ MinDataToCompress \in Nat

Tiles   == 0 .. NumTiles - 1
Formats == {"Bitmask", "Hybrid_32", "Hybrid_64"}
Algs    == {"None", "Zlib", "Zstd", "LZ4"}
Blocks  == {"Directory", "Tiles"}

(* A compression setting c is an algorithm, or Auto, and the blocks it      *)
(* names; n is the number of non-empty tiles.                               *)
ResolveCompressionAlg(c) == IF c.alg = "Auto" THEN "Zstd" ELSE c.alg

ResolveCompressBlocks(c, n) ==
  IF c.alg # "Auto" THEN c.blocks
  ELSE IF RawTile >= MinTileToCompress /\ n * RawTile >= MinDataToCompress
  THEN {"Directory", "Tiles"}
  ELSE {"Directory"}

MutantFullSize(n) == HeaderSize + NumTiles + n  (* forgets the tiles *)

(* ComputeFullSize: raw tiles, one byte per tile for the bitmask and one    *)
(* entry per non-empty tile for the offsets.                                *)
ComputeFullSize(n) == HeaderSize + n * RawTile + NumTiles + n

MutantEntryFormat(d, n, blocks) ==  (* forgets that packed tiles need offsets *)
  IF d # "Hybrid" THEN "Bitmask"
  ELSE IF ComputeFullSize(n) <= Max32 THEN "Hybrid_32" ELSE "Hybrid_64"

ResolveEntryFormat(d, n, blocks) ==
  IF d = "Bitmask" \/ (d # "Hybrid" /\ "Tiles" \notin blocks) THEN "Bitmask"
  ELSE IF ComputeFullSize(n) <= Max32 THEN "Hybrid_32" ELSE "Hybrid_64"

=============================================================================
