------------------------------ MODULE MapPicture ----------------------------
(***************************************************************************)
(* A bake from the vegetation to what the user sees: the baker packs the   *)
(* densities of the enabled layers, the writer finds the tiles that are    *)
(* not empty and copies them out, the reader paints a preview from them,   *)
(* and the exporter paints the same densities into the debug image.  All   *)
(* of them read the layers' checkboxes, which the user may change while    *)
(* the bake runs.  The debug image is switched on, the files' order of     *)
(* writes and failures are those of MapFileWriter and BakeRun.             *)
(* Src: VegetationBaker.cpp, MapFileWriter_Prepare.cpp,                    *)
(* MapFileWriter_Bake.cpp, MapImageConverter.h, ImageExporter.cpp.         *)
(***************************************************************************)
EXTENDS VegetationSplat, Functions

CONSTANTS
  Levels,     (* the vegetation a level may have: sequences of objects      *)
  TileSizes, Densities,
  Word,       (* 2^32                                                       *)
  MaskBits,   (* bits of a word of the bitmask (64)                         *)
  MaxEdits    (* changes of a setting while the bake runs                   *)

LayerOrder == <<"Tree", "Grass", "Bush">>
Layers     == {"Tree", "Grass", "Bush"}

Objects == [layer : Layers, home : Int \X Int, texels : SUBSET (Int \X Int), fill : BOOLEAN]

ASSUME PictureAssumption ==
  /\ \A v \in Levels : v \in Seq(Objects) /\ \A i \in DOMAIN v : IsFiniteSet(v[i].texels)
  /\ TileSizes \subseteq Nat \ {0} /\ Densities \subseteq 0 .. Full
  /\ \A t \in TileSizes : GridWidth + t <= Word /\ GridHeight + t <= Word
  /\ Word \in Nat /\ MaskBits \in Nat \ {0} /\ MaxEdits \in Nat

VARIABLES
  flags, density,  (* SVegetationBakerSettings: bEnable..., densityPerInstance *)
  level, tileSize, (* the vegetation, and the tile size RunBake copied      *)
  beyond,          (* the byte found behind the baked data                  *)
  edits,           (* changes of a setting during the bake                  *)
  pc,              (* where the worker is                                   *)
  seen, at,        (* the flags it has read of those it reads in turn       *)
  bake,            (* the locals of Bake and what it returns                *)
  write, export,   (* channels and mask the writer and the exporter use     *)
  map, preview, image,
  starved, lost, wild (* history: no memory for the data; objects drawn as  *)
                      (* an outline or not at all, for lack of memory; some *)
                      (* access left the data or the bitmask                *)

settings == <<flags, density>>
inputs   == <<level, tileSize, beyond>>
history  == <<starved, lost, wild>>
vars == <<settings, inputs, edits, pc, seen, at, bake, write, export, map, preview, image, history>>

Before(l) == {m \in Layers : \E i, j \in DOMAIN LayerOrder :
                i < j /\ LayerOrder[i] = m /\ LayerOrder[j] = l}

(* The channel of a layer: as many enabled ones come before it.             *)
Channel(mask, l) == Cardinality(Before(l) \intersect mask)
PopCount(mask)   == Cardinality(mask)

NoMap     == [written |-> FALSE, mask |-> {}, countX |-> 0, countY |-> 0, tiles |-> <<>>]
NoPicture == [shown |-> "none", pixels |-> <<>>]
Picture(pixels) == [shown |-> "picture", pixels |-> pixels]

-----------------------------------------------------------------------------
(* The user: a checkbox, or the sensitivity.                                *)
Edit ==
  /\ edits < MaxEdits /\ pc \notin {"exported", "failed", "crashed"}
  /\ \/ \E l \in Layers : flags' = [flags EXCEPT ![l] = ~@] /\ UNCHANGED density
     \/ density' \in Densities \ {density} /\ UNCHANGED flags
  /\ edits' = edits + 1
  /\ UNCHANGED <<inputs, pc, seen, at, bake, write, export, map, preview, image, history>>

(* GetActiveLayersMask, GetChannelCount, BuildGroupData and Bake look at    *)
(* one flag after the other.                                                *)
ReadFlag ==
  /\ pc \in {"count", "query", "pack", "writeCount", "writeMask", "exportCount", "exportMask"}
  /\ at < Len(LayerOrder) /\ at' = at + 1
  /\ seen' = seen \union {l \in {LayerOrder[at']} : flags[l]}
  /\ UNCHANGED <<settings, inputs, edits, pc, bake, write, export, map, preview, image, history>>

AllRead(here, next) ==
  /\ pc = here /\ at = Len(LayerOrder)
  /\ pc' = next /\ at' = 0 /\ seen' = {}

-----------------------------------------------------------------------------
(* CVegetationBaker::Bake.                                                  *)

Size(channels) == GridWidth * GridHeight * channels

CountChannels ==
  /\ AllRead("count", IF seen = {} THEN "writeCount" ELSE "alloc")
  /\ bake' = [bake EXCEPT !.channels = PopCount(seen)]
  /\ UNCHANGED <<settings, inputs, edits, write, export, map, preview, image, history>>

AllocateData ==
  /\ pc = "alloc" /\ pc' = "query"
  /\ bake' = [bake EXCEPT !.data = [k \in 0 .. Size(bake.channels) - 1 |-> 0]]
  /\ UNCHANGED <<settings, inputs, edits, seen, at, write, export, map, preview, image, history>>

(* Without memory Bake returns no data, as if no layer were enabled.        *)
AllocateFails ==
  /\ pc = "alloc" /\ pc' = "writeCount"
  /\ starved' = TRUE
  /\ UNCHANGED <<settings, inputs, edits, seen, at, bake, write, export, map, preview, image,
                 lost, wild>>

(* QueryVegetationInstances: those of enabled groups.  Without memory for   *)
(* the groups, the placed or the procedural ones it returns what it has.    *)
QueryVegetation ==
  /\ AllRead("query", "pack")
  /\ LET there == {i \in DOMAIN level : level[i].layer \in seen} IN
     \E left \in SUBSET there :
       /\ bake' = [bake EXCEPT !.left = left]
       /\ lost' = [lost EXCEPT !.none = there \ left]
  /\ UNCHANGED <<settings, inputs, edits, write, export, map, preview, image, starved, wild>>

(* layerToChannel.                                                          *)
PackChannels ==
  /\ AllRead("pack", "splat")
  /\ bake' = [bake EXCEPT !.packed = seen]
  /\ UNCHANGED <<settings, inputs, edits, write, export, map, preview, image, history>>

(* AddCellDensity and AddCellDensityFast.                                   *)
Put(data, k, amount) == Least({Full, data[k] + amount})

(* What a splat adds to the bytes; a channel that does not exist is in the  *)
(* next cell, or behind the data.                                           *)
Added(o, splat) ==
  LET place(c) == (c[2] * GridWidth + c[1]) * bake.channels + Channel(bake.packed, o.layer)
  IN  [k \in {place(c) : c \in DOMAIN splat} |-> splat[CHOOSE c \in DOMAIN splat : place(c) = k]]

SplatObject ==
  /\ pc = "splat" /\ bake.left # {}
  /\ \E memory \in {"all", "outline", "none"} :
       LET i     == Least(bake.left)
           o     == level[i]
           added == IF o.layer \in bake.packed THEN Added(o, Splat(o, density, memory)) ELSE Nothing
           data  == [k \in DOMAIN bake.data |->
                       IF k \in DOMAIN added THEN Put(bake.data, k, added[k]) ELSE bake.data[k]]
           out   == DOMAIN added \ DOMAIN bake.data # {}
       IN  /\ memory # "all" => SplatsAsGeometry(o)
           /\ memory = "outline" => o.fill
           /\ bake' = [bake EXCEPT !.left = @ \ {i}, !.data = data]
           /\ lost' = IF memory = "all" THEN lost ELSE [lost EXCEPT ![memory] = @ \union {i}]
           /\ wild' = (wild \/ out)
           /\ pc' \in {"splat"} \union {p \in {"crashed"} : out}
  /\ UNCHANGED <<settings, inputs, edits, seen, at, write, export, map, preview, image, starved>>

BakeReturns ==
  /\ pc = "splat" /\ bake.left = {} /\ pc' = "writeCount"
  /\ UNCHANGED <<settings, inputs, edits, seen, at, bake, write, export, map, preview, image, history>>

Byte(k) == IF k \in DOMAIN bake.data THEN bake.data[k] ELSE beyond

-----------------------------------------------------------------------------
(* CMapFileWriter::BuildWriteContext.                                       *)

CountToWrite ==
  /\ AllRead("writeCount", "writeMask")
  /\ write' = [write EXCEPT !.channels = PopCount(seen)]
  /\ UNCHANGED <<settings, inputs, edits, bake, export, map, preview, image, history>>

(* ValidateBakeContext refuses a bake without channels.                     *)
MaskToWrite ==
  /\ AllRead("writeMask", IF write.channels = 0 THEN "failed" ELSE "layout")
  /\ write' = [write EXCEPT !.mask = seen]
  /\ UNCHANGED <<settings, inputs, edits, bake, export, map, preview, image, history>>

MutantTileCount(n) == n \div tileSize  (* drops the tiles the edge cuts *)

(* InitLayout: 32-bit sums.                                                 *)
TileCount(n) == ((n + tileSize - 1) % Word) \div tileSize

TotalTiles == TileCount(GridWidth) * TileCount(GridHeight)

PixelHasData(c) ==
  \E b \in 0 .. write.channels - 1 : Byte((c[2] * GridWidth + c[1]) * write.channels + b) # 0

TileOf(c) == (c[2] \div tileSize) * TileCount(GridWidth) + c[1] \div tileSize

(* ComputeTilesOccupancy, with the bitmask's words it touches.              *)
Occupied == {TileOf(c) : c \in {d \in Cells : PixelHasData(d)}}
OutOfBitmask ==
  \E c \in Cells : TileOf(c) \div MaskBits >= (TotalTiles + MaskBits - 1) \div MaskBits

Layout ==
  /\ pc = "layout"
  /\ LET out == OutOfBitmask \/ Size(write.channels) > Cardinality(DOMAIN bake.data)
     IN  /\ wild' = (wild \/ out)
         /\ pc' \in {"exportCount", "failed"} \union {p \in {"crashed"} : out}
  /\ write' = [write EXCEPT !.occupied = Occupied]
  /\ UNCHANGED <<settings, inputs, edits, seen, at, bake, export, map, preview, image, starved, lost>>

MutantExtractTileData(tile) ==  (* rows as long as the grid has them *)
  LET x0    == (tile % TileCount(GridWidth)) * tileSize
      y0    == (tile \div TileCount(GridWidth)) * tileSize
      width == Least({tileSize, GridWidth - x0})
      x(k)  == x0 + ((k \div write.channels) % width)
      y(k)  == y0 + k \div (write.channels * width)
  IN  [k \in 0 .. tileSize * tileSize * write.channels - 1 |->
         IF <<x(k), y(k)>> \in Cells
         THEN Byte((y(k) * GridWidth + x(k)) * write.channels + (k % write.channels)) ELSE 0]

(* ExtractTileData: the rows of the tile inside the grid, then zeros.       *)
ExtractTileData(tile) ==
  LET x(k) == (tile % TileCount(GridWidth)) * tileSize + ((k \div write.channels) % tileSize)
      y(k) == (tile \div TileCount(GridWidth)) * tileSize + k \div (write.channels * tileSize)
  IN  [k \in 0 .. tileSize * tileSize * write.channels - 1 |->
         IF <<x(k), y(k)>> \in Cells
         THEN Byte((y(k) * GridWidth + x(k)) * write.channels + (k % write.channels)) ELSE 0]

(* BakeMap, on a thread of its own beside the exporter's.                   *)
BakeMap ==
  /\ pc \in {"exportCount", "exportMask", "export", "exported"} /\ ~map.written
  /\ map' = [written |-> TRUE, mask |-> write.mask,
             countX |-> TileCount(GridWidth), countY |-> TileCount(GridHeight),
             tiles |-> [t \in write.occupied \intersect (0 .. TotalTiles - 1) |-> ExtractTileData(t)]]
  /\ UNCHANGED <<settings, inputs, edits, pc, seen, at, bake, write, export, preview, image, history>>

-----------------------------------------------------------------------------
(* Painting.                                                                *)

Intensity(value) == IF value = 0 THEN 0 ELSE 50 + (value * 205) \div Full

(* VegetationDebugColorMapper: red, green and blue from a cell's bytes.     *)
DebugColor(mask, bytes) ==
  [l \in Layers |-> IF l \in mask THEN Intensity(bytes[Channel(mask, l)]) ELSE 0]

Black == [l \in Layers |-> 0]

(* Line row of an image is row GridHeight - 1 - row of the grid.            *)
RowOf(row) == GridHeight - 1 - row

CountToExport ==
  /\ AllRead("exportCount", "exportMask")
  /\ export' = [export EXCEPT !.channels = PopCount(seen)]
  /\ UNCHANGED <<settings, inputs, edits, bake, write, map, preview, image, history>>

MaskToExport ==
  /\ AllRead("exportMask", "export")
  /\ export' = [export EXCEPT !.mask = seen]
  /\ UNCHANGED <<settings, inputs, edits, bake, write, map, preview, image, history>>

(* FetchRowRGB, row by row; the last cell's bytes are the highest read.     *)
ExportImage ==
  /\ pc = "export"
  /\ LET cell(p) == (RowOf(p[2]) * GridWidth + p[1]) * export.channels
         pixel(p) == DebugColor(export.mask, [k \in 0 .. PopCount(export.mask) - 1 |-> Byte(cell(p) + k)])
         last == (GridWidth * GridHeight - 1) * export.channels + PopCount(export.mask)
         out  == last > Cardinality(DOMAIN bake.data)
     IN  /\ image' = Picture([p \in Cells |-> pixel(p)])
         /\ wild' = (wild \/ out)
         /\ pc' \in {"exported"} \union {q \in {"crashed"} : out}
  /\ UNCHANGED <<settings, inputs, edits, seen, at, bake, write, export, map, preview, starved, lost>>

(* IsValidMapHeader sums in 64 bits.                                        *)
IsValidMapHeader ==
  /\ map.mask # {}
  /\ map.countX = (GridWidth + tileSize - 1) \div tileSize
  /\ map.countY = (GridHeight + tileSize - 1) \div tileSize

(* MapTileToImage, on an image that Resize made black.                      *)
PaintedPixel(p) ==
  LET x    == p[1]
      y    == RowOf(p[2])
      tile == (y \div tileSize) * map.countX + x \div tileSize
      cell == ((y % tileSize) * tileSize + (x % tileSize)) * PopCount(map.mask)
      bytes == [k \in 0 .. PopCount(map.mask) - 1 |-> map.tiles[tile][cell + k]]
  IN  IF tile \in DOMAIN map.tiles THEN DebugColor(map.mask, bytes) ELSE Black

(* A reader that counts other channels than the writer looks for tiles in   *)
(* other places; what it finds there is left open.                          *)
LoadPreview ==
  /\ pc = "exported" /\ map.written /\ preview = NoPicture
  /\ preview' = IF ~IsValidMapHeader THEN [NoPicture EXCEPT !.shown = "refused"]
                ELSE IF PopCount(map.mask) # write.channels THEN [NoPicture EXCEPT !.shown = "garbled"]
                ELSE Picture([p \in Cells |-> PaintedPixel(p)])
  /\ UNCHANGED <<settings, inputs, edits, pc, seen, at, bake, write, export, map, image, history>>

-----------------------------------------------------------------------------
Init ==
  /\ flags \in [Layers -> BOOLEAN] /\ density \in Densities
  /\ level \in Levels /\ tileSize \in TileSizes /\ beyond \in {0, Full}
  /\ edits = 0 /\ pc = "count" /\ seen = {} /\ at = 0
  /\ bake = [channels |-> 0, packed |-> {}, left |-> {}, data |-> <<>>]
  /\ write = [channels |-> 0, mask |-> {}, occupied |-> {}]
  /\ export = [channels |-> 0, mask |-> {}]
  /\ map = NoMap /\ preview = NoPicture /\ image = NoPicture
  /\ starved = FALSE /\ lost = [outline |-> {}, none |-> {}] /\ wild = FALSE

Next ==
  \/ Edit \/ ReadFlag
  \/ CountChannels \/ AllocateData \/ AllocateFails \/ QueryVegetation \/ PackChannels
  \/ SplatObject \/ BakeReturns
  \/ CountToWrite \/ MaskToWrite \/ Layout \/ BakeMap
  \/ CountToExport \/ MaskToExport \/ ExportImage
  \/ LoadPreview

Spec == Init /\ [][Next]_vars

-----------------------------------------------------------------------------
Undisturbed == edits = 0 /\ ~starved

(* What a layer's vegetation means for a cell.                              *)
Vegetation(l, c) ==
  LET there    == {i \in DOMAIN level \ lost.none : level[i].layer = l}
      drawn(i) == [level[i] EXCEPT !.fill = @ /\ i \notin lost.outline]
  IN  Least({Full, SumFunctionOnSet([i \in there |-> Meant(drawn(i), c, density)], there)})

Expected ==
  [p \in Cells |-> [l \in Layers |->
     IF flags[l] THEN Intensity(Vegetation(l, <<p[1], RowOf(p[2])>>)) ELSE 0]]

(* With the settings left alone, preview and debug image show for every     *)
(* cell and layer what the vegetation there sums up to, cut at Full, each   *)
(* object whole or, for lack of memory, unfilled or not at all: whichever   *)
(* layers are on, however tiles cut the grid, in whatever order.            *)
PictureIsVegetation ==
  Undisturbed =>
    /\ preview.shown # "none" => preview = Picture(Expected)
    /\ image.shown # "none" => image = Picture(Expected)

(* Whatever was edited before and even if the data were read past their     *)
(* end: a map and an image made with the same channels show the same.       *)
ViewsAgree ==
  /\ preview.shown = "picture" /\ image.shown = "picture"
  /\ export.channels = write.channels /\ export.mask = write.mask
  => preview = image

(* Baker, writer and exporter touch nothing beyond the baked data and the   *)
(* bitmask, unless a layer is switched in between or there was no memory.   *)
StaysInside == wild => edits > 0 \/ starved

(* MapHeader.h:34: activeLayersMask is the bitmask of active layers on map, *)
(* here even of maps written without leaving the data.                      *)
MaskNamesLayers == map.written /\ ~wild => map.mask = bake.packed
=============================================================================
