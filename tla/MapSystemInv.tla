---------------------------- MODULE MapSystemInv ----------------------------
(***************************************************************************)
(* The inductive invariant behind the theorems of MapSystem_proofs: what   *)
(* holds of the half-written file, word by word, while BakeMap runs.       *)
(***************************************************************************)
EXTENDS MapSystem

Writing == {"bitmask", "tiles", "chunks", "directory", "header"}
Finished == {"directory", "header", "close"}

Enc(j) == IF "Tiles" \in j.blocks THEN j.alg ELSE "None"

(* What RunBake's choices guarantee: packed tiles always have a directory   *)
(* with offsets, and 32-bit offsets are chosen for maps that fit.           *)
JobSound(j) ==
  /\ j.fmt = "Bitmask" => "Tiles" \notin j.blocks
  /\ j.alg = "None" => j.blocks = {}
  /\ j.fmt = "Hybrid_32" => ComputeFullSize(Cardinality(j.bits)) <= Max32

JobInv == wpc # "idle" => JobSound(job)

(* How many offsets were recorded, and how many of them were streamed.      *)
CountInv ==
  /\ wpc \in {"idle", "open", "bitmask"} => tile = 0 /\ recorded = 0 /\ fed = 0
  /\ wpc = "tiles" => recorded = Rank(job.bits, tile)
  /\ wpc = "chunks" => /\ tile \in job.bits
                       /\ recorded = Rank(job.bits, tile) + 1
                       /\ part < size
                       /\ size \in (IF PacksTiles THEN PackedSizes ELSE {RawTile})
  /\ wpc \in Finished => /\ tile = NumTiles
                         /\ recorded = Cardinality(job.bits) + 1
                         /\ fed = IF StreamsOffsets THEN recorded ELSE 0
  /\ wpc = "directory" => part < DirectoryLength
  /\ fed <= recorded
  /\ wpc # "idle" => (~StreamsOffsets => fed = 0)

(* Where the r-th non-empty tile ends.                                      *)
End(r) == IF r + 1 < recorded THEN offs[r + 1] ELSE pos

(* Everything written so far lies between the header and the position.      *)
PositionInv ==
  /\ wpc \in Writing =>
       /\ pos >= HeaderSize
       /\ \A p \in DOMAIN disk : HeaderSize <= p /\ p < pos
  /\ wpc = "bitmask" => pos = HeaderSize
  /\ wpc \in Writing \cup {"close"} => \A r \in 0 .. recorded - 1 : HeaderSize <= offs[r]
  /\ wpc = "chunks" => pos = offs[recorded - 1] + part

(* Unpacked tiles are evenly spaced, which a bitmask directory relies on.   *)
SpacingInv ==
  wpc \in Writing \cup {"close"} /\ ~PacksTiles =>
    /\ \A r \in 0 .. recorded - 1 : offs[r] = HeaderSize + r * RawTile
    /\ wpc \in {"bitmask", "tiles"} => pos = HeaderSize + recorded * RawTile

(* A tile takes at most RawTile + 2 words.                                  *)
GrowthInv ==
  wpc \in Writing \cup {"close"} =>
    /\ \A r \in 0 .. recorded - 1 : offs[r] <= HeaderSize + r * (RawTile + 2)
    /\ wpc \in {"bitmask", "tiles"} => pos <= HeaderSize + recorded * (RawTile + 2)

(* The tiles written so far.                                                *)
TilesInv ==
  /\ wpc \in {"tiles", "chunks"} \cup Finished =>
       \A i \in job.bits : i < tile =>
         LET r == Rank(job.bits, i)
         IN  Holds(offs[r], End(r) - offs[r], i, job.raster, Enc(job))
  /\ wpc = "chunks" =>
       \A k \in 0 .. part - 1 :
         /\ offs[recorded - 1] + k \in DOMAIN disk
         /\ disk[offs[recorded - 1] + k] = TileWord(tile, job.raster, Enc(job), k, size)

(* The directory written so far.                                            *)
DirectoryInv ==
  wpc \in Finished =>
    /\ dirAt = offs[recorded - 1]
    /\ wpc = "directory" => pos = dirAt + part
    /\ \A k \in 0 .. (IF wpc = "directory" THEN part ELSE DirectoryLength) - 1 :
         dirAt + k \in DOMAIN disk /\ disk[dirAt + k] = DirectoryWord(k)

(* The file exists whenever anything is in it.                              *)
FileInv ==
  /\ ~exists => DOMAIN disk = {}
  /\ wpc \in Writing \cup {"close"} => exists

(* A preview runs alone, over the file whose header it has.                 *)
ReaderInv ==
  /\ wpc # "idle" => rpc = "off"
  /\ rpc \in ReaderRunning =>
       /\ HasHeader /\ header = disk[0] /\ exists
       /\ rtile = 0 \/ rpc = "tiles"
       /\ Undisturbed(sealed) =>
            \A i \in Tiles : image[i] =
              IF i < rtile THEN Picture(sealed.bits, sealed.raster)[i] ELSE Blank
  /\ rpc = "tiles" =>
       /\ rbits = sealed.bits
       /\ header.fmt # "Bitmask" => roffs = DirectoryOffsets(header)
=============================================================================
