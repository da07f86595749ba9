--------------------------- MODULE MapFileReader ---------------------------
(***************************************************************************)
(* CMapFileReader: Prepare reads and checks the header, LoadPreviewFromMap *)
(* opens the file again, reads and parses the directory and draws every    *)
(* tile into the preview image.  Src: src/Core/MapWork/Read.               *)
(***************************************************************************)
EXTENDS MapDisk

VARIABLES
  rpc,     (* where the preview is, and how it ended                        *)
  header,  (* m_readContext.header, cached between the two opens            *)
  rbits,   (* the parsed occupancy bitmask                                  *)
  roffs,   (* the parsed offsets                                            *)
  rtile,   (* the next tile ReadTiles asks for                              *)
  image    (* the preview, tile by tile                                     *)

readVars == <<rpc, header, rbits, roffs, rtile, image>>

(* rejected: Prepare finds no file or a header it refuses; corrupt: the     *)
(* header was accepted but what it leads to cannot be read back; aborted:   *)
(* cancelled, or a file that is there cannot be opened or read.             *)
ReaderRunning  == {"directory", "tiles"}
ReaderOutcomes == {"off", "rejected", "corrupt", "aborted", "done"}

NoHeader == HeaderWord("Bitmask", "none", "None", {}, 0, 0, 0)
NoImage  == [i \in Tiles |-> Blank]

ReaderInit ==
  /\ rpc = "off"
  /\ header = NoHeader
  /\ rbits = {} /\ roffs = [k \in {} |-> 0]
  /\ rtile = 0
  /\ image = NoImage

ForgetPreview ==
  /\ rpc' = "off"
  /\ header' = NoHeader
  /\ rbits' = {} /\ roffs' = [k \in {} |-> 0]
  /\ rtile' = 0
  /\ image' = NoImage

(* CMapFileReader::Prepare.  GetMapPath, FOpen and FReadRaw may fail.       *)
PreparePreview ==
  /\ rpc \notin ReaderRunning
  /\ LET accepted == exists /\ HasHeader /\ IsValidMapHeader(disk[0])
     IN  \/ accepted /\ rpc' = "directory" /\ header' = disk[0]
         \/ ~accepted /\ rpc' = "rejected" /\ header' = NoHeader
         \/ rpc' = "aborted" /\ header' = NoHeader
  /\ rbits' = {} /\ roffs' = [k \in {} |-> 0] /\ rtile' = 0 /\ image' = NoImage
  /\ UNCHANGED <<exists, disk>>

ReadDirectory ==
  /\ rpc = "directory"
  /\ IF exists /\ ParseDirectory(header)
     THEN /\ rpc' = "tiles"
          /\ rbits' = DirectoryBits(header)
          /\ roffs' = IF header.fmt = "Bitmask" THEN roffs ELSE DirectoryOffsets(header)
     ELSE rpc' = "corrupt" /\ UNCHANGED <<rbits, roffs>>
  /\ UNCHANGED <<exists, disk, header, rtile, image>>

(* The tile buffer is drawn at tile i, whichever tile the words came from.  *)
ReadableTile(at, n) ==
  /\ at \in DOMAIN disk /\ disk[at].kind = "tile"
  /\ IF "Tiles" \in header.blocks
     THEN /\ StreamReadsOneShot(header.alg)
          /\ Holds(at, n, disk[at].tile, disk[at].raster, header.alg)
     ELSE Holds(at, n, disk[at].tile, disk[at].raster, "None")

(* GetTileNode has a value, and the tile a size.                            *)
HasNode == rtile \in rbits /\ NodeSize(header.fmt, rbits, roffs, rtile) # 0

(* The channels counted in the mask are those in the tiles.                 *)
CountsChannels == header.mask = "same"

(* ReadTile of tile rtile, drawn at place; a tile without a node is left    *)
(* blank.  With another count of channels a packed tile has the wrong size; *)
(* what is read of an unpacked one, if anything, is left open.              *)
DrawTile(place) ==
  LET at == NodeOffset(header.fmt, rbits, roffs, rtile)
      n  == NodeSize(header.fmt, rbits, roffs, rtile)
  IN  /\ \/ /\ ~HasNode
            /\ rtile' = rtile + 1
            /\ UNCHANGED <<rpc, image>>
         \/ /\ HasNode /\ CountsChannels /\ ReadableTile(at, n)
            /\ image' = [image EXCEPT ![place] = Drawn(disk[at].tile, disk[at].raster)]
            /\ rtile' = rtile + 1
            /\ UNCHANGED rpc
         \/ /\ HasNode /\ ~CountsChannels /\ "Tiles" \notin header.blocks
            /\ image' = [image EXCEPT ![place] = Garbled]
            /\ rtile' = rtile + 1
            /\ UNCHANGED rpc
         \/ /\ HasNode /\ ~(CountsChannels /\ ReadableTile(at, n))
            /\ rpc' = "corrupt"
            /\ UNCHANGED <<image, rtile>>
      /\ UNCHANGED <<exists, disk, header, rbits, roffs>>

(* One round of the loop in ReadTiles.                                      *)
MutantTileLoop  == rpc = "tiles" /\ rtile <= NumTiles /\ DrawTile(rtile)
MutantTilePlace == rpc = "tiles" /\ rtile \in Tiles /\ DrawTile(Rank(rbits, rtile))
ReadTile        == rpc = "tiles" /\ rtile \in Tiles /\ DrawTile(rtile)

FinishPreview ==
  /\ rpc = "tiles" /\ rtile = NumTiles
  /\ rpc' = "done"
  /\ UNCHANGED <<exists, disk, header, rbits, roffs, rtile, image>>

AbortPreview ==
  /\ rpc \in ReaderRunning
  /\ rpc' = "aborted"
  /\ UNCHANGED <<exists, disk, header, rbits, roffs, rtile, image>>

ReaderStep == ReadDirectory \/ ReadTile \/ FinishPreview \/ AbortPreview
=============================================================================
