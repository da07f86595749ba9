--------------------------- MODULE MapFileWriter ---------------------------
(***************************************************************************)
(* CMapFileWriter: the formats RunBake resolves for a bake, and BakeMap    *)
(* writing the tiles, the directory and, last of all, the header.          *)
(* Src: src/Core/MapWork/Write, src/Core/Orchestration/MapsBaker.cpp.      *)
(***************************************************************************)
EXTENDS MapDisk

CONSTANTS
  Compressions,       (* Settings::ECompression the user may choose         *)
  DirFormats,         (* Settings::EDirectoryFormat the user may choose     *)
  StagingCapacity,    (* offsets in the recorder's staging buffer           *)
  CloseLosesData      (* FClose may fail to flush, which nothing checks     *)

(* A compression setting is an algorithm (or Auto) and the blocks it names. *)
ASSUME SettingsAssumption ==
  /\ Compressions \subseteq [alg : Algs \cup {"Auto"}, blocks : SUBSET Blocks]
  /\ \A c \in Compressions : c.alg = "None" => c.blocks = {}
  /\ DirFormats \subseteq {"Auto", "Bitmask", "Hybrid"}
  /\ StagingCapacity \in Nat \ {0}
  /\ CloseLosesData \in BOOLEAN

VARIABLES
  wpc,      (* where BakeMap is                                             *)
  job,      (* the bake context and the write context: formats, occupancy   *)
  pos,      (* position of the file                                         *)
  tile,     (* tileIndex of ProcessTiles                                    *)
  part,     (* words of the current tile or of the directory written so far *)
  size,     (* words of the current tile                                    *)
  recorded, (* calls of recordOffset so far                                 *)
  offs,     (* the offsets they were given                                  *)
  fed,      (* how many of them the directory compressor has been given     *)
  dirAt,    (* m_directoryOffset                                            *)
  outcome,  (* how the last bake ended                                      *)
  sealed    (* history: the job whose header is, or was last, in the file   *)

localVars == <<job, pos, tile, part, size, recorded, offs, fed, dirAt>>
writeVars == <<wpc, localVars, outcome, sealed>>

WriterStates ==
  {"idle", "open", "bitmask", "tiles", "chunks", "directory", "header", "close"}
Outcomes  == {"none", "written", "failed"}
NoOffsets == [k \in {} |-> 0]
NoJob     == [fmt |-> "none"]

-----------------------------------------------------------------------------
(* The context of a bake (MapsBaker.cpp).                                   *)

(* UpdateFormatComboBoxState: with any compression the format is Auto.      *)
OfferedSettings ==
  {s \in Compressions \X DirFormats : s[1].alg # "None" => s[2] = "Auto"}

PlannedJob(s, bits, v, mask) ==
  LET n      == Cardinality(bits)
      blocks == ResolveCompressBlocks(s[1], n)
  IN  [alg    |-> ResolveCompressionAlg(s[1]),
       blocks |-> blocks,
       fmt    |-> ResolveEntryFormat(s[2], n, blocks),
       bits   |-> bits,
       raster |-> v,
       mask   |-> mask]

Jobs == [alg : Algs, blocks : SUBSET Blocks, fmt : Formats,
         bits : SUBSET Tiles, raster : Rasters, mask : Masks]

PacksTiles     == "Tiles" \in job.blocks
PacksDirectory == "Directory" \in job.blocks
KeepsOffsets   == job.fmt # "Bitmask"
StreamsOffsets == KeepsOffsets /\ PacksDirectory

-----------------------------------------------------------------------------
LocalsInit ==
  /\ job = NoJob
  /\ pos = 0 /\ tile = 0 /\ part = 0 /\ size = 0
  /\ recorded = 0 /\ offs = NoOffsets /\ fed = 0 /\ dirAt = 0

WriterInit ==
  /\ wpc = "idle"
  /\ LocalsInit
  /\ outcome = "none"
  /\ sealed = NoJob

(* RunBake returns: the writer is one of its locals.                        *)
WriterReturns(how) ==
  /\ wpc' = "idle"
  /\ outcome' = how
  /\ job' = NoJob
  /\ pos' = 0 /\ tile' = 0 /\ part' = 0 /\ size' = 0
  /\ recorded' = 0 /\ offs' = NoOffsets /\ fed' = 0 /\ dirAt' = 0
  /\ UNCHANGED sealed

MutantPrepareMap(s, bits, v, mask) ==  (* removes the earlier map in advance *)
  /\ wpc = "idle"
  /\ job' = PlannedJob(s, bits, v, mask)
  /\ wpc' = "open"
  /\ outcome' = "none"
  /\ exists' = FALSE /\ disk' = EmptyFile
  /\ UNCHANGED <<pos, tile, part, size, recorded, offs, fed, dirAt, sealed>>

(* CMapFileWriter::Prepare, after Bake: there are channels, the mask and    *)
(* the occupancy are asked for.  When it fails nothing was opened, as when  *)
(* FOpen fails (see FailBake).                                              *)
PrepareMap(s, bits, v, mask) ==
  /\ wpc = "idle"
  /\ job' = PlannedJob(s, bits, v, mask)
  /\ wpc' = "open"
  /\ outcome' = "none"
  /\ UNCHANGED <<exists, disk, pos, tile, part, size, recorded, offs, fed, dirAt, sealed>>

MutantOpenMap ==  (* opens without truncating *)
  /\ wpc = "open"
  /\ exists' = TRUE
  /\ wpc' = IF StreamsOffsets THEN "bitmask" ELSE "tiles"
  /\ pos' = HeaderSize
  /\ UNCHANGED <<disk, job, tile, part, size, recorded, offs, fed, dirAt, outcome, sealed>>

(* FOpen "wb" truncates an earlier map.  A compressed hybrid directory      *)
(* starts its stream with the bitmask before the tiles are written.         *)
OpenMap ==
  /\ wpc = "open"
  /\ exists' = TRUE
  /\ disk' = EmptyFile
  /\ wpc' = IF StreamsOffsets THEN "bitmask" ELSE "tiles"
  /\ pos' = HeaderSize
  /\ sealed' = NoJob
  /\ UNCHANGED <<job, tile, part, size, recorded, offs, fed, dirAt, outcome>>

FeedBitmask ==
  /\ wpc = "bitmask"
  /\ wpc' = "tiles"
  /\ UNCHANGED <<exists, disk, localVars, outcome, sealed>>

SkipTile ==
  /\ wpc = "tiles" /\ tile \in Tiles \ job.bits
  /\ tile' = tile + 1
  /\ UNCHANGED <<exists, disk, wpc, job, pos, part, size, recorded, offs, fed, dirAt,
                 outcome, sealed>>

(* recordOffset is given the position.  The recorder of a bitmask map       *)
(* ignores it; that of a streamed directory hands a full staging buffer to  *)
(* the compressor.                                                          *)
RecordOffset ==
  /\ recorded' = recorded + 1
  /\ offs' = [k \in 0 .. recorded |-> IF k = recorded THEN pos ELSE offs[k]]

(* Extract the tile, compress it if tiles are compressed, note its offset.  *)
BeginTile ==
  /\ wpc = "tiles" /\ tile \in job.bits
  /\ size' \in (IF PacksTiles THEN PackedSizes ELSE {RawTile})
  /\ RecordOffset
  /\ fed' = IF StreamsOffsets /\ recorded' - fed = StagingCapacity THEN recorded' ELSE fed
  /\ part' = 0
  /\ wpc' = "chunks"
  /\ UNCHANGED <<exists, disk, job, pos, tile, dirAt, outcome, sealed>>

(* One round of WriteDataChunked.                                           *)
WriteTileChunk ==
  /\ wpc = "chunks"
  /\ disk' = Put(disk, pos, TileWord(tile, job.raster,
                                     IF PacksTiles THEN job.alg ELSE "None", part, size))
  /\ pos' = pos + 1
  /\ part' = part + 1
  /\ IF part + 1 = size THEN tile' = tile + 1 /\ wpc' = "tiles"
                        ELSE UNCHANGED <<tile, wpc>>
  /\ UNCHANGED <<exists, job, size, recorded, offs, fed, dirAt, outcome, sealed>>

MutantEndTiles ==  (* forgets the recorder's Finish *)
  /\ wpc = "tiles" /\ tile = NumTiles
  /\ RecordOffset
  /\ dirAt' = pos
  /\ part' = 0
  /\ wpc' = "directory"
  /\ UNCHANGED <<exists, disk, job, pos, tile, size, fed, outcome, sealed>>

(* The final offset, the rest of the staging buffer (Finish), FTell.        *)
EndTiles ==
  /\ wpc = "tiles" /\ tile = NumTiles
  /\ RecordOffset
  /\ fed' = IF StreamsOffsets THEN recorded' ELSE fed
  /\ dirAt' = pos
  /\ part' = 0
  /\ wpc' = "directory"
  /\ UNCHANGED <<exists, disk, job, pos, tile, size, outcome, sealed>>

(* Word k of the directory: one compressed block, or the bitmask and the    *)
(* offsets one after another.                                               *)
DirectoryWord(k) ==
  IF PacksDirectory
  THEN PackedWord(job.bits, [r \in 0 .. fed - 1 |-> Cast(job.fmt, offs[r])])
  ELSE IF k = 0 THEN BitsWord(job.bits) ELSE OffsetWord(Cast(job.fmt, offs[k - 1]))

RawDirectorySize == 1 + (IF KeepsOffsets THEN Cardinality(job.bits) + 1 ELSE 0)
DirectoryLength  == IF PacksDirectory THEN 1
                    ELSE 1 + (IF KeepsOffsets THEN recorded ELSE 0)

MutantDirectoryChunk ==  (* closes without a header *)
  /\ wpc = "directory"
  /\ disk' = Put(disk, pos, DirectoryWord(part))
  /\ pos' = pos + 1
  /\ part' = part + 1
  /\ wpc' = IF part + 1 = DirectoryLength THEN "close" ELSE wpc
  /\ UNCHANGED <<exists, job, tile, size, recorded, offs, fed, dirAt, outcome, sealed>>

WriteDirectoryChunk ==
  /\ wpc = "directory"
  /\ disk' = Put(disk, pos, DirectoryWord(part))
  /\ pos' = pos + 1
  /\ part' = part + 1
  /\ wpc' = IF part + 1 = DirectoryLength THEN "header" ELSE wpc
  /\ UNCHANGED <<exists, job, tile, size, recorded, offs, fed, dirAt, outcome, sealed>>

MutantHeader ==  (* forgets the compressed size of the directory *)
  /\ wpc = "header"
  /\ disk' = Put(disk, 0, HeaderWord(job.fmt, job.mask, job.alg, job.blocks, dirAt,
                                     RawDirectorySize, 0))
  /\ sealed' = job
  /\ wpc' = "close"
  /\ UNCHANGED <<exists, localVars, outcome>>

WriteHeader ==
  /\ wpc = "header"
  /\ disk' = Put(disk, 0, HeaderWord(job.fmt, job.mask, job.alg, job.blocks, dirAt,
                                     RawDirectorySize, IF PacksDirectory THEN 1 ELSE 0))
  /\ sealed' = job
  /\ wpc' = "close"
  /\ UNCHANGED <<exists, localVars, outcome>>

(* file.close(true).  The header sits in the stream's buffer until then,    *)
(* and the result of FClose is dropped.                                     *)
CloseMap ==
  /\ wpc = "close"
  /\ \/ UNCHANGED disk
     \/ CloseLosesData /\ disk' = Unsealed(disk)
  /\ WriterReturns("written")
  /\ UNCHANGED exists

(* Out of memory, a failed FOpen or FWrite, a compressor error, or a        *)
(* cancel seen by a progress callback.  If the file is open its             *)
(* ScopedCryFile closes it and asks for its removal, which may fail.        *)
FailBake ==
  /\ wpc \notin {"idle", "close"}
  /\ \/ wpc = "open" /\ UNCHANGED <<exists, disk>>
     \/ wpc # "open" /\ exists' = FALSE /\ disk' = EmptyFile
     \/ wpc # "open" /\ UNCHANGED <<exists, disk>>
  /\ WriterReturns("failed")

(* The editor dies.  What was written stays, but a header still in the      *)
(* stream's buffer may be lost.                                             *)
WriterCrash ==
  /\ \/ UNCHANGED disk
     \/ wpc = "close" /\ disk' = Unsealed(disk)
  /\ WriterReturns("none")
  /\ UNCHANGED exists

WriterStep ==
  \/ OpenMap \/ FeedBitmask \/ SkipTile \/ BeginTile \/ WriteTileChunk
  \/ EndTiles \/ WriteDirectoryChunk \/ WriteHeader \/ CloseMap \/ FailBake
=============================================================================
