------------------------------ MODULE MapSystem ------------------------------
(***************************************************************************)
(* One editor over one map file: bakes and previews run one after another  *)
(* on the view model's worker thread, the editor may die at any point and  *)
(* be started again, and the file is what survives.                        *)
(***************************************************************************)
EXTENDS MapFileWriter, MapFileReader

vars == <<exists, disk, writeVars, readVars>>

Init ==
  /\ exists = FALSE
  /\ disk = EmptyFile
  /\ WriterInit
  /\ ReaderInit

WorkerFree == wpc = "idle" /\ rpc \notin ReaderRunning

Bake(s, bits, v, mask) == WorkerFree /\ PrepareMap(s, bits, v, mask) /\ ForgetPreview

Preview == WorkerFree /\ PreparePreview /\ UNCHANGED writeVars

Crash ==
  /\ ~WorkerFree
  /\ WriterCrash
  /\ ForgetPreview

Next ==
  \/ \E s \in OfferedSettings, bits \in SUBSET Tiles, v \in Rasters, mask \in Masks :
       Bake(s, bits, v, mask)
  \/ Preview
  \/ WriterStep /\ UNCHANGED readVars
  \/ ReaderStep /\ UNCHANGED writeVars
  \/ Crash

Spec == Init /\ [][Next]_vars

-----------------------------------------------------------------------------
WordsOK ==
  \A p \in DOMAIN disk :
    /\ disk[p].kind = "tile" => disk[p].tile \in Tiles /\ disk[p].raster \in Rasters
    /\ disk[p].kind \in {"bits", "packed"} => disk[p].bits \in SUBSET Tiles

Images == [Tiles -> {Blank, Garbled} \cup {Drawn(t, v) : t \in Tiles, v \in Rasters}]

DiskTypeOK ==
  /\ exists \in BOOLEAN
  /\ DOMAIN disk \subseteq Nat /\ WordsOK

WriterTypeOK ==
  /\ wpc \in WriterStates
  /\ job \in Jobs \cup {NoJob} /\ (wpc # "idle" => job \in Jobs)
  /\ pos \in Nat /\ part \in Nat /\ size \in Nat
  /\ tile \in 0 .. NumTiles /\ (wpc = "chunks" => tile \in Tiles)
  /\ recorded \in Nat /\ fed \in Nat /\ dirAt \in Nat
  /\ offs \in [0 .. recorded - 1 -> Nat]
  /\ outcome \in Outcomes
  /\ sealed \in Jobs \cup {NoJob}

ReaderTypeOK ==
  /\ rpc \in ReaderRunning \cup ReaderOutcomes
  /\ rbits \in SUBSET Tiles
  /\ rtile \in 0 .. NumTiles
  /\ image \in Images

(* Every variable holds a value the code's types allow: the file is a set   *)
(* of well-formed words, the writer's and the reader's fields are in range. *)
TypeOK == DiskTypeOK /\ WriterTypeOK /\ ReaderTypeOK

(* A map with a header is a whole map: every non-empty tile of the bake     *)
(* whose header was written is where the reader's directory says it is.     *)
(* The header is written last, over the hole left for it, and is valid      *)
(* unless every layer was switched off while the bake was being prepared.   *)
SealedMapIsWhole ==
  HasHeader =>
    LET h == disk[0] IN
    /\ sealed \in Jobs
    /\ h.mask = sealed.mask
    /\ sealed.mask # "none" => IsValidMapHeader(h)
    /\ ParseDirectory(h)
    /\ DirectoryBits(h) = sealed.bits
    /\ \A i \in sealed.bits :
         Holds(NodeOffset(h.fmt, sealed.bits, DirectoryOffsets(h), i),
               NodeSize(h.fmt, sealed.bits, DirectoryOffsets(h), i),
               i, sealed.raster, IF "Tiles" \in h.blocks THEN h.alg ELSE "None")

(* The layers in the header are as many as the channels in the tiles: no    *)
(* layer was switched between the two questions of BuildWriteContext.       *)
Undisturbed(j) == j \in Jobs /\ j.mask = "same"

(* A preview that succeeds is of the bake whose header was written last,    *)
(* and shows it, each tile in its own place, if that bake was undisturbed.  *)
PreviewIsLatestBake ==
  rpc = "done" =>
    sealed \in Jobs /\ (Undisturbed(sealed) => image = Picture(sealed.bits, sealed.raster))

(* Only LZ4-compressed tiles can make the accepted map of an undisturbed    *)
(* bake unreadable.                                                         *)
OnlyLZ4TilesUnreadable ==
  rpc = "corrupt" /\ Undisturbed(sealed) => header.alg = "LZ4" /\ "Tiles" \in header.blocks

(* A file is refused, failed opens and reads aside, only when no bake       *)
(* completed it, or when the bake that did found every layer switched off   *)
(* after it had counted its channels: nothing else that RunBake may choose  *)
(* or WriteHeader compute ends in a header the reader refuses.              *)
RejectedIsUnsealed == rpc = "rejected" => ~HasHeader \/ sealed.mask = "none"

(* A bake that reports "Map was written" wrote its header into the file,    *)
(* and it is there unless closing the file lost it.                         *)
WrittenIsSealed ==
  outcome = "written" => exists /\ sealed \in Jobs /\ (HasHeader \/ CloseLosesData)

(* The assertion in SOffsetsRecorder: no offset exceeds its type.           *)
OffsetsFit ==
  wpc # "idle" /\ job.fmt = "Hybrid_32" => \A k \in 0 .. recorded - 1 : offs[k] <= Max32

(* An earlier map is untouched until the new bake has opened the file, and  *)
(* a sealed map is never modified in place.                                 *)
OldMapKeptUntilOpen ==
  [][HasHeader /\ disk' # disk => wpc = "close" \/ (wpc = "open" /\ exists' /\ disk' = EmptyFile)]_vars

(* The tooltip of the preview button: a preview is generated from the baked *)
(* map.  The map of an undisturbed bake can be read back.                   *)
BakedMapIsPreviewable == rpc = "corrupt" => ~Undisturbed(sealed)

(* The slack of ComputeFullSize, per tile: as long as packing a tile grows  *)
(* it by no more than this, a 32-bit directory can hold every offset.       *)
GrowthBounded == \A z \in PackedSizes : z <= RawTile + 2

-----------------------------------------------------------------------------
Nothing == <<>>

Store == INSTANCE MapStore WITH
  Pictures <- {Picture(bits, v) : bits \in SUBSET Tiles, v \in Rasters},
  store    <- IF HasHeader /\ Undisturbed(sealed)
              THEN Picture(sealed.bits, sealed.raster) ELSE Nothing,
  shown    <- IF rpc = "done" /\ Undisturbed(sealed) THEN image ELSE Nothing

(* Bakes, previews and crashes over one file implement the abstract store   *)
(* of the maps of undisturbed bakes.                                        *)
ImplementsStore == Store!Spec
=============================================================================
