# A verification of JDKLevelMaps in TLA+

JDKLevelMaps is an editor plugin for CryEngine. It rasterises the vegetation of a
level into a grid, cuts the grid into tiles, and writes the non-empty tiles into one
`.map` file with a directory that a game can look up by position. The same editor
previews a map by reading it back, and may write a debug image beside it.

This directory models the parts of the plugin whose correctness depends on order:
the order in which a file is written and read, the order in which threads read
shared settings and report progress, and the order in which user actions, level
events and queued callbacks reach the window. It also follows the data once through
the whole way, from the vegetation of a level to the pixels of a preview, where
every stage counts cells, channels, tiles and rows anew.

## 1. The system

### Components, their state and their operations

| component | state | operations |
|---|---|---|
| Editor window (`Editor/Views/JDKLevelMapsEditor.cpp`) | `m_bLevelLoaded`, `m_bHasMap`, buttons, preview, settings widgets | clicks, level events, handlers of the view model's signals |
| View model (`Editor/ViewModels/LevelMapsViewModel.cpp`) | operation state and number, worker thread, progress | `StartBaking`, `LoadPreview...Async`, `StopBaking`, `StopLoadingPreview`, `JoinThread`, queued callbacks |
| Bake orchestration (`Core/Orchestration/MapsBaker.cpp`) | settings by reference; writer, exporter and progressor as locals | `RunBake` |
| Map file writer (`Core/MapWork/Write`) | bake and write contexts, offsets, directory offset | `Prepare`, `BakeMap` |
| Map file reader (`Core/MapWork/Read`) | header, directory strategy, decompressor | `Prepare`, `LoadPreviewFromMap` |
| Header and directories (`Shared/MapHeader.h`, `Strategies/DirectoryFormat`) | bitmask, rank table, offsets | `ParseDirectory`, `GetTileNode` |
| Compression (`Strategies/Compression`) | one codec stream | `Compress`, `Begin/CompressChunk/End`, `DecompressChunk` |
| Progress (`Utils/Progress.*`) | one atomic counter, the cancel flag, tasks | `RegisterProgressTask`, `ReserveProgressTask`, `Update` |
| Image exporter and importer (`Core/ImageWork`) | readiness, row, buffers and zlib streams of a PNG | `Prepare`, `ExportImage`, `ImportImage` |
| Path resolver (`Core/FileSystem/PathResolver.cpp`) | the level's directory | `RecomputePath`, `GetMapPath`, `GetImagePath` |
| Rank tables (`Includes/JDKMath`) | prefix counts of a bitmask | `Build`, `GetRank` |
| Vegetation baker (`Core/Bakers/Vegetation/VegetationBaker.cpp`) | layer flags and density, which widgets edit; grid data during a bake | `Bake` with `SplatProjected` and `DownsampleToGrid`, `GetChannelCount`, `GetActiveLayersMask` |
| Geometry of a group (`Core/Bakers/Geometry`) | triangles of a group, built once per bake | building, `ClipTriangleToSlab`, `FillEnclosedAreas` |
| Procedural vegetation (`ProcVegGenerator.cpp`) | a random generator per terrain node | `GenerateProcVeg` |

### How they interact

The UI thread owns the window and the view model. An operation (a bake, a preview of
the map, the load of an image) runs on one worker thread; its last act is to queue a
callback for the UI thread. A bake's worker starts two more threads with
`std::async`, one for the map and one for the image, and waits for both. Three things
are shared without a lock: the settings, which `RunBake` holds by reference while the
UI edits them; the progress, whose counter and cancel flag are atomic; and the path
resolver, which level events recompute. Everything that outlives an operation is in
two files, `.map` and `.png`, in the level's directory.

Within a bake, the baker asks the vegetation source for the objects of the level, those
placed by hand and those `GenerateProcVeg` predicts, and adds each to a grid of cells with one byte
per enabled layer. The writer asks the baker again how many and which layers there are,
cuts the grid into tiles, and writes those that hold anything; the exporter asks once
more and paints the same grid line by line. The reader knows only the file.

### What is hard

- A map is written in place and sealed by its header at the end; every failure and
  crash in between must leave a file the reader refuses.
- The directory's format, the compression and the offsets' width are chosen in turn
  before any tile is packed, and the reader relies on every one of these choices.
- The settings may change between any two reads of them; a cancel may arrive at any
  time; the map and the image fail independently.
- Progress tasks are registered while other tasks already report.
- A callback may be delivered after the level it belongs to was closed.
- A compressed stream passes through three buffers, none of which ends where a piece
  of the data does, and each library stops for a reason of its own.
- The rank tables exist in a scalar and a vector form that must agree, with entries of
  the narrowest type that fits and gathers that read past the last one.
- The number of layers is asked for by the baker, the writer and the exporter, each time
  flag by flag, while the user may switch a layer; memory may run out for the data, for
  one object or for the fill of its outline, and the bake goes on.
- The grid is cut by tiles that may reach over its edge, is upside down in images, and
  its sums of densities stop at a byte.
- A PNG is written and read through buffers that end in the middle of rows and of
  compressed data; the one that is read may be another program's or a torn one.
- Procedural vegetation must draw the same random numbers as the engine although most of
  what the engine generates is not wanted.

The list of these hazards with the lines where they bite and the properties that
watch each is under `hazards` in `PROJECT.json`.

## 2. Modules

| module | models |
|---|---|
| `MapFormats` | the choices of `RunBake`: algorithm, packed blocks, entry format |
| `MapDisk` | the file: words at offsets, header, directory, tile lookup |
| `MapFileWriter` | `CMapFileWriter::Prepare` and `BakeMap`, write by write |
| `MapFileReader` | `CMapFileReader::Prepare` and `LoadPreviewFromMap`, tile by tile |
| `MapStore` | abstract: there is no map or a whole one, and a preview shows it |
| `MapSystem` | writer and reader over one file that survives crashes; refines `MapStore` |
| `MapSystemInv` | what holds of a half-written file, for the proofs |
| `MapSystem_proofs` | proofs: types, a bake up to the sealed map, previews, the refinement of `MapStore` |
| `DataLemmas` | lemmas on sequences, sums and streams of bytes, for the proofs |
| `BakeProgress` | `CProgressor` and `SProgressTask` |
| `BakeRun` | the four threads of a bake: UI, worker, map, image |
| `BakeRun_proofs` | proofs: files, progress and cancellation of a bake |
| `LevelMaps` | window, view model, path resolver and level events |
| `LevelMaps_proofs` | proofs: what is offered, shown and delivered |
| `ByteStreams` | what any compression library does with bytes; shared by `CompressionStream` and `PngStream` |
| `CompressionStream` | the three strategies' loops, `SCompressor` and `SDecompressor`, byte by byte |
| `CompressionStream_proofs` | proofs: where each byte of a directory is |
| `PngStream` | `CImageExporter`'s and `CImageImporter`'s files, chunk by chunk |
| `PngStream_proofs` | proofs: where each byte of a picture is |
| `RankTables` | JDKMath's flat and two-level rank tables, built and read with and without AVX-512 |
| `RankTables_proofs` | proofs: every rank is a number of set bits, every gather is mapped |
| `VegetationSplat` | one object on the grid: texels, filled areas, shares of cells |
| `MapPicture` | a bake's data from the layers to tiles, preview and debug image |
| `ProcVeg` | `GenerateProcVeg` against what the engine generates |
| `Vegetation_proofs` | proofs: what the user sees is the vegetation (`MapPicture`), what is predicted is what the engine grows (`ProcVeg`) |
| `MC...` | instances for TLC |

`MapFormats` is shared by the two views of a bake. `MapSystem` opens up the file and
treats the bake as one thread that may fail anywhere; `BakeRun` opens up the threads
and reduces the file to absent, partial, whole or old. `LevelMaps` sits above both: a
bake is one step that leaves a new version of the files, or not. `CompressionStream` and
`RankTables` open up two things the map file takes for granted: that what comes out of
a packed block is what went in, and that the rank of a tile is the number of non-empty
tiles before it. `MapPicture` opens up what `MapSystem` calls a raster, and extends
`VegetationSplat`; `ProcVeg` is where part of its objects come from. `PngStream` opens up
the other file, which `BakeRun` has as absent, partial or whole.

### The map file: `MapDisk`, `MapFileWriter`, `MapFileReader`, `MapSystem`

`disk` is a partial function from offsets to words. A word is one chunk of
`WriteDataChunked`: a piece of a tile, the bitmask, one offset, a whole packed
directory, or the header. An offset outside the domain is a hole or the end of the
file. A bake (`PrepareMap`) chooses which tiles are non-empty and a raster, which
names the content of all tiles of that bake, so that a tile of an older bake is told
from the same tile of a newer one. The actions follow `BakeMap`:

| action | code |
|---|---|
| `OpenMap` | `FOpen "wb"`, and the seek over the header |
| `FeedBitmask` | the bitmask given to the directory's compressor before the tiles |
| `SkipTile`, `BeginTile`, `WriteTileChunk` | `ProcessTiles`: empty tile, `recordOffset`, chunks |
| `EndTiles` | the last offset, `Finish`, `FTell` |
| `WriteDirectoryChunk` | bitmask and offsets, or the packed directory |
| `WriteHeader`, `CloseMap` | `WriteHeader`, `file.close(true)` |
| `FailBake` | any early return; `ScopedCryFile` removes the file, or fails to |
| `WriterCrash` | the process dies; a header still in the stream's buffer may be lost |

The reader checks the header in `PreparePreview`, opens the file again in
`ReadDirectory`, and draws tile by tile in `ReadTile`; any open or read may fail, which
ends the preview as `aborted`. It never consults the writer's
variables: it sees the words alone. The variable `sealed` is history: the job whose
header is in the file, or was until the file was damaged, and none from the moment the
file is opened for the next bake. No guard reads it.

The writer asks the baker for the number of channels and then for the mask of layers, and
the user may switch layers in between. Which layers there are is the subject of
`MapPicture`; here `mask` says what the answer means to the reader: as many layers as the
tiles have channels (`"same"`), another number (`"other"`), so that tiles come out with a
wrong size or as `Garbled` pixels, or no layer (`"none"`), which makes the header invalid.
The counts of tiles in the header are those of `InitLayout`, a sum of 32 bits, and
`IsValidMapHeader` computes them again with 64 bits.

Packed sizes come from the constant `PackedSizes`; a codec may make data larger. The
rank of a tile is the number of non-empty tiles before it, the meaning of JDKMath's
rank tables. What a decoder makes of another encoder's output is in
`StreamReadsOneShot`: zlib and zstd use one container for one-shot and streamed
data, LZ4 two different ones.

### The bake: `BakeProgress`, `BakeRun`

`bpc` is where `RunBake` is, `mpc` and `ipc` where its two threads are. Every read of
the shared settings is a step of its own (`ReadAlgorithm`, `ReadBlocks`,
`ReadFormat`, `PrepareImage`, `StartImage`), and the UI may edit the settings or
cancel between any two. The handler of the compression box writes the compression
first and resets the format after, so it is two steps (`ChooseCompression`,
`ResetFormat`). `Writes` is the sequence of the map's writes that are followed by a
progress callback, in the order of the code for each combination of formats.

`progress` is the shared counter. The fractions of the tasks are doubles in the code
and exact rationals here, rounded down where the code rounds down. Two threads
that update the counter interleave as `Report` steps do, since the counter is updated
by one atomic addition.

Taken as given: the baker is registered, `std::async` can start its threads, and
`FClose` and `RemoveFile` succeed (`MapSystem` covers the case where they do not).

### The window: `LevelMaps`

A UI handler is one action, except the one for level events that waits for the worker
(`LevelBeginsBusy`, `LevelBeginsJoined`). The worker asks the path resolver for its
file (`AskPath`), works, and posts its callback (`FinishBake`, `FinishLoad`,
`FinishNowhere`); the event loop delivers callbacks in order (`BakeFinished`,
`PreviewFinished`). A bake leaves each of its two files new, untouched or absent, and
what earlier sessions left of a level, both files, one or none, is its version 1. A
preview is a record of the kind of file, the level and the version it was made from:
that is what makes a stale one visible. `cancelled` is the flag of the shared progress:
set by `StopBaking` and `StopLoadingPreview`, cleared at the start of the next operation, and
read when a callback is delivered, to tell a stopped operation from a failed one.
`stopped` is history: which operation the user stopped. `buttons` is what `UpdateUIState` last made of
the two buttons; the code does not call it after every change, and neither does the
model.

### Compressed blocks: `CompressionStream`

The directory goes through `CompressChunk` in pieces of any size and through
`EndCompression`; tiles are packed in one call; both come back chunk by chunk through
one decompressor. A compressed byte completes some units of its stream: the frame's
header, raw bytes, its end. `Accepts`, `Finishes` and `Decodes` are what the
libraries promise, no more: how much a call takes in, puts out or keeps is open.
What is modelled is the code around the calls: when each loop calls again
(`ZlibCompressAgain`, `ZstdEndAgain`, `LZ4DecodeAgain`, ...), LZ4's header that waits in
`internalBuf`, the context and buffer reset for every tile, and the size check at the
end.

The loops differ on purpose. Zlib's go by the room left in the output, because
`inflate` may have consumed all input with decoded bytes still inside. Those of Zstd and
LZ4 go by the input left, which loses nothing only because neither library consumes
the last byte of a frame before everything in front of it was put out
(`Decodes`, `src/Includes/Zstd/decompress/zstd_decompress.c:2379`).

### Images on disk: `PngStream`

A file is a sequence of items: the signature, the headers of chunks, checksums, and
data byte by byte. `FetchRow` gives a filter byte and a row to `deflate`, `DeflateRow`
turns a full buffer into an `IDAT` chunk, `FinishStream` is one turn of `Flush(true)`,
`FlushFile` and `CloseFile` are the two calls at the end, of which only the first is
checked by the code. `ExportStops` stands for a failed write, a cancel or the
death of the process, and leaves any beginning of the file. The importer reads what
lies there: an export, or one of the files in `Strangers`, which a user may have put
there: rows with filters, a row too few, bytes behind the stream's end, a stream whose header
asks for a dictionary, interlacing.
`Inflates` says what the code may rely on of `inflate`; in particular, that it takes nothing
behind the stream's end or behind a header that asks for a dictionary. Both places are
`Ending` in the model: what `inflate` returns there, `Z_STREAM_END` or
`Z_NEED_DICT`, is none of the three errors that `ProcessChunk` looks for, so its loop over
the rest of the input goes on without progress.

### From vegetation to pixels: `VegetationSplat`, `MapPicture`

An object has a layer, a home cell and, when it is drawn by its geometry, the texels it
covers. `Splat` is what it adds: all of its density at home, a share of it in
the other cells its texels reach, with enclosed areas filled by the code's flood fill from the
border of its bounds. The resolution is lowered to what fits the scratch memory.

| action of `MapPicture` | code |
|---|---|
| `Edit` | a checkbox or the density, at any point of the bake |
| `ReadFlag` | one flag looked at, in any of the seven places that ask for all of them |
| `CountChannels` ... `BakeReturns` | `CVegetationBaker::Bake` and `QueryVegetationInstances` |
| `CountToWrite`, `MaskToWrite`, `Layout` | `BuildWriteContext`, `InitLayout`, `ComputeTilesOccupancy` |
| `BakeMap` | the tiles of the map, by `ExtractTileData`, on a thread of its own |
| `CountToExport`, `MaskToExport`, `ExportImage` | the exporter's `Prepare` and `FetchRowRGB` |
| `LoadPreview` | `IsValidMapHeader`, `MapTileToImage` |

Reading or writing past the data is undefined in the code: the model lets the process die
(`crashed`) or finds the byte `beyond` there, and notes it in `wild`. `lost` notes which
objects memory was missing for: the query of the vegetation may be short of any of the
objects of enabled layers, since it goes on without the groups, the placed or the
procedural ones it has no room for.

### Procedural vegetation: `ProcVeg`

`EnterNode`, `EnterGroup` and `GrowCell` follow the three nested loops of the generator.
`EngineVegetation` is the reference: every group of every node from one sequence of
random numbers per node. The comments of the source name the engine's function it
follows, and the reference has its order of draws; the engine itself is external. It is
written as recursive functions over a group's cells (`AfterCells`) and a node's groups
(`AfterPlaces`), and `BakedOf` keeps of its instances those the editor has a use for. The
weights of a surface at a position are computed twice, as by the scalar code and as by the
SSE2 lanes. `AccessViolation` is the structured exception around the walk.

### Rank tables: `RankTables`

`Choose` picks table and width, `VectorRound` and `ScalarRound` fill it, the latter
taking the tail the vectors leave. The vector build is modelled lane by lane: the
three masked shifts of a prefix sum, the reduction, the broadcast to the next vector.
`SingleRank` and the batches answer for every position, including positions past the
end, and record whether every gather stayed in mapped memory. Entries wrap at their
width. `cpu` says which of the two builds and two batches run.

## 3. Runs

| run | what it asks | instance |
|---|---|---|
| `map_file` | file, preview and crash properties, offsets that fit, refinement of `MapStore` | 2 tiles of 2 words, packed to 1 or 4, 2 rasters, all settings, 32-bit offsets up to 8 |
| `map_growth` | violation: packed tiles that grow beyond the slack | 2 tiles, growth by 3 words |
| `map_lz4` | violation: a map with LZ4 tiles can be previewed | 2 tiles |
| `bake` | files, results, cancel and progress under every interleaving; every bake returns | 1 tile, 2 image lines, compression automatic or off |
| `levels` | window, preview, buttons, cancel, path; every operation ends | 2 levels, with or without files of an earlier session, bakes up to version 2, 2 previews, 4 level events |
| `picture` | preview and debug image show the vegetation; no access outside the data | 3 x 2 cells, 6 levels of up to 3 objects, every set of layers, 3 tile sizes, one edit |
| `picture_layers` | violation: the mask in a map names the layers it holds | 3 x 2 cells, 1 level, one edit |
| `png` | what is imported is a whole picture, what is exported can be imported; both end | 2 rows of 2 pixels, buffers of 2 bytes, 6 kinds of files of the user's or none |
| `png_rows` | violation: an image that lacks rows is refused | the same, with the two kinds of files that lack rows |
| `procveg` | the generator keeps in step with the engine | 3 terrains, every set of baked groups, 8 sequences of numbers |
| `streams` | packed blocks come back whole, every loop ends | a directory of 4 bytes, 2 tiles of 2, chunks and buffers of 2, three libraries |
| `ranks` | scalar and vector tables agree with the number of set bits | up to 21 blocks of 2 bits, 8 lanes, 2 vectors to a super block |

### Why the bounds are enough

Two tiles give an empty tile before, after and between non-empty ones and every value
of a rank that matters; a tile of two words can be half written; two rasters tell an
old tile from a new one. `Max32` is small so that both hybrid widths are chosen by
the code's own comparison: the estimate for two tiles is one more than `Max32`, and so is
the end of two tiles that grew by as much as the estimate has slack for. `StagingCapacity` is 2, so that a staging buffer is packed
once full and once by `Finish`. The grid is cut
by its edge: 3 x 2 cells make two tiles of 2, and `Word` is the least that `GridAssumption`
allows. In `levels`, version 1 may be of an earlier session
or of the first bake, so that two versions are enough for a preview to be of the one before
the last; two previews and four level events leave a level and come back. Counts are bounded in `LevelMaps` alone (`MaxBakes`, `MaxLoads`,
`MaxEvents`), apart from `MaxEdits` of `MapPicture`; `MapSystem` and `BakeRun` run bake
after bake without a bound.
`map_file` uses the symmetry of rasters; it checks no liveness.

In `bake`, one tile is enough for every kind of write: with one word more the map's
thread only repeats itself, and it is the two lines of the image it interleaves with.
`MinDataToCompress` is low there so that the automatic choice packs. In `streams`, the
directory is two chunks long, so that a stream crosses a chunk's end, a piece is longer
than LZ4's step, and an output fills exactly. In `ranks`, vectors have 8 lanes as in
the code, since the prefix sum is built for 8; blocks have 2 bits and a super block 2
vectors, and `MaxOf` is small in proportion, so that every width is chosen. The bitmasks
are those whose blocks are alike but for one, at sizes around a vector's and a super
block's end, and a page has 8 bytes so that tables end at every place in one.

In `picture`, tiles of 1, 2 and 4 cells divide a grid of 3 x 2 evenly, cut it on one side, and
exceed it. `Full` is 5 so that two objects of density 3 pass the largest value of a
byte; `MaskBits` is 2 so that six tiles take several words of the bitmask; `Word` stands
for 2^32 and `MaxScratch`, 16 texels, is exceeded by one of the objects at two texels to
a side. The objects are a closed outline, one open to a side, one that leaves the grid,
one beside its home, one outside the grid, and points. One edit is enough to
separate any two reads of the flags. In `png`, a row of three bytes does not fit a
buffer of two, so rows and chunks end at different places. In `procveg`, the limit of 4
objects is reached inside a group and between two, and surfaces are unknown, empty,
shared by several groups, or hold groups the editor does not know.

### Properties

Of the file: a map with a header is whole (`SealedMapIsWhole`); a preview that succeeds
shows the bake sealed last, each tile in its place (`PreviewIsLatestBake`); a file is
refused, failed reads aside, when no bake completed it or when its bake found every layer
switched off after it had counted its channels, and never for anything else a bake may
choose or compute (`RejectedIsUnsealed`); an
old map is untouched until the new bake opens the file (`OldMapKeptUntilOpen`); a bake that
reports success wrote a header, which only a failed close can have lost, since the code
drops the result of `FClose` (`WrittenIsSealed`); 32-bit
offsets never overflow while packed tiles grow within the slack of the size estimate
(`OffsetsFit`); and the whole implements `MapStore` (`ImplementsStore`). What is shown of a
map is only promised for undisturbed bakes, those whose mask names as many layers as there
are channels (`Undisturbed`): without that the reader takes the channels for those of
other cells, and `MapStore` is a store of undisturbed maps.

Of a bake: nothing half written is left when it returns (`NoPartialFile`); success
means both files (`SuccessIsComplete`); a cancel given before the threads start is not
lost, although a map may have no tile and so no tile task (`EarlyCancelIsSeen`); with
the settings left alone the two reads of each agree (`UndisturbedBakeIsSound`); the
progress stays within 100 when all tasks were registered first
(`OrderedProgressIsBounded`) and never goes back (`ProgressNeverGoesBack`).

A bake returns (`BakeReturns`).

Of the window: one operation at a time, whose number is current (`OneOperation`); no
button blocks the UI (`StartNeverBlocks`); a callback is silenced exactly when its own
operation was stopped (`OnlyStoppedIsSilent`); what an outdated or misplaced preview can
come from (`OutdatedOnlyThroughImage`, `WrongLevelOnlyIfOverlapped`); the Load button is
there when it is of use (`PreviewIsOffered`); and the path never changes under a worker
that was started with a level open (`PathsChangeOnlyWhenQuiet`). Operations end
(`OperationEnds`).

Of the streams: what is flushed is one frame of exactly the directory's bytes, however
they were cut (`FrameIsComplete`); what the reader accepts is what was written, even
when the file lost its end (`AcceptedIsWhole`); an intact file is accepted, LZ4 tiles
excepted (`WholeIsAccepted`); and no loop runs forever (`StreamsEnd`).

Of the rank tables: a set bit gets the number of set bits before it, an unset one gets no
answer that could be a set one's, not even where the answer is cut to the width of the entries,
and from a single query the largest `uint64`, which `GetTileRank` compares with; the
total is exact (`RanksAreExact`); no
gather leaves the pages of the table (`GathersStayMapped`).

Of the picture: with the settings left alone, preview and debug image show for every cell and
layer what the vegetation sums up to, whatever tiles cut the grid
(`PictureIsVegetation`); edited or not, a map and an image made with the same layers agree
(`ViewsAgree`); and nothing outside the baked data is touched unless a layer was switched
in between or memory ran out (`StaysInside`). The last one has these exceptions because the code does:
a layer switched on between `Bake` and `BuildWriteContext` makes the writer count a channel more
than there are bytes, and an empty vector after lack of memory is read as a full grid.

Of images on disk: what is imported is all of one picture, never a torn one or rows of two
(`ImportedIsWhole`); an export that reports success can be imported, and so can a plain
picture of the user's (`ExportedIsReadable`); both loops end (`ImagesEnd`), except on a
stream with bytes where `inflate` takes none: behind its end, or behind a header that
asks for a dictionary (`Stalling`).

Of procedural vegetation: what is kept is exactly what the engine will generate for the
baked groups, in order, and a fault only cuts it short (`InSyncWithEngine`).

### Fairness

`BakeRun` assumes weak fairness of each thread of a bake and of the end of a UI
handler: the threads are scheduled by the system, and no step of theirs waits for the
user. Faults are left out of the fair actions: nothing has to fail. `LevelMaps`
assumes weak fairness of the worker, of the event loop's delivery, and of the return
from a join whose thread has ended. Nothing is assumed of the user. `CompressionStream`
assumes it of the writer's and the reader's thread, failures left out, and `PngStream` of an export's and
an import's. `MapSystem`, `RankTables`, `MapPicture` and `ProcVeg` have no fairness: their
properties are safety.

### Where the code and its claims part

1. *Offsets* (`map_growth`). The size that picks 32-bit offsets is computed from raw
   tiles. A packed tile may be larger than a raw one, and with tiles of noise the
   offsets pass the limit; the release build truncates them.
2. *LZ4 tiles* (`map_lz4`). A tile is packed as a bare LZ4 block and unpacked as an
   LZ4 frame. Every preview of such a map fails, while a directory packed with LZ4 is
   streamed on both sides and works.
3. *Layers* (`picture_layers`). The mask in a map's header is asked for after the
   channels were packed. A layer switched in between, when it leaves as many channels or
   fewer, gives a valid map whose densities belong to other layers.
4. *Dictionaries* (`png_rows`). An image whose rows cannot be had should be refused as
   "decoded incompletely"; one whose stream asks for a dictionary keeps `ProcessChunk` in its
   loop, and so does a stream with bytes behind its end, which `ImagesEnd` leaves out.

Other disagreements were met while modelling. They have no run of their own, and the
properties above allow for them by name:

- The number of channels is asked for, and checked not to be zero, before the mask
  (`MapFileWriter_Prepare.cpp:25`, `:26`). With every layer switched off between the two the
  bake completes and reports success, and its map is refused for a mask of zero
  (`MapHeader.h:113`). `RejectedIsUnsealed` names this case, and no other map that a bake
  completed is ever refused. It is the same race as in `picture_layers`, with another end.
- `FlatRankTable.h:51` and `TwoLevelRankTable.h:61` promise that `GetRank` answers an unset bit
  with the largest value of `TRank` and of `TSuperRank`; both return the largest `uint64`
  (`FlatRankTable.h:66`, `TwoLevelRankTable.h:76`). The comment of the wrapper
  (`UniversalRankTable.h:67`) agrees with the code, and so does `GetTileRank`, which compares
  with the largest `uint64`. `RanksAreExact` takes the wrapper's side.
- `BitmaskRank.h:555` and `:595` promise the largest `uint64` for a missing bit of a batch; the
  vector batches keep it in the type of the entries (`:297`, `:437`) and answer 255 or 65535 from
  narrow tables, where the scalar batches answer as promised. `RanksAreExact` asks of batches
  that the answer, cut or not, is no rank of a set bit. The plugin asks for one tile
  at a time, so only other users of the library meet this.
- `Progress.h` asks for all tasks to be registered before updates begin; the map's
  tasks are registered by its thread, beside the image's (`OrderedProgressIsBounded`
  holds only of bakes where they were).
- The compression is read twice while the UI may edit it; switched on in between, the
  writer finds no compressor (`UndisturbedBakeIsSound`).
- The two-level table compares an index with the length of its padded entries, so it reads
  blocks behind the bitmask for indices out of bounds (`RanksAreExact` is about bits that are
  there). The plugin asks for tiles of the map alone.

## 4. Proofs

The theorems hold for every value of the constants that satisfies the assumptions named
in the modules. None of these assumptions says more than the code does about itself:

| component | assumptions | they leave open |
|---|---|---|
| `MapSystem` | `FormatsAssumption`, `LayoutAssumption`, `GridAssumption`, `SettingsAssumption` | the number of tiles, the size of grid and tiles as long as sums of 32 bits hold it, the size of a raw or packed tile, the settings |
| `BakeRun` | `BakeAssumption`, `ProgressAssumption` | the number of rows and tiles, the staging buffer, what the user may choose, the share of a reserved task |
| `LevelMaps` | `LevelMapsAssumption` | the levels, how often anything is clicked |
| `CompressionStream` | `StreamAssumption` | the sizes of chunk, directory, tiles and of the libraries' buffers, the strategies |
| `PngStream` | `PngAssumption` | the size of the picture, of `outBuffer` and `inBuffer`, which files a user has |
| `RankTables` | `RankAssumption` | the bitmasks and their length, the bits of a block, up to 8 lanes, the vectors of a super block, the widths of entries, the threshold, the page |
| `MapPicture` | `SplatAssumption`, `PictureAssumption` | the size of grid, cells, tiles and scratch memory, the levels with any number of objects and any finite shapes, the densities and their limit, the bits of a word of the bitmask |
| `ProcVeg` | `ProcVegAssumption` | the terrains, with any number of nodes, surfaces and groups, the numbers a generator draws, what suits a group, the baked groups, the limits of levels and objects |

| theorem | property | further assumption |
|---|---|---|
| in `MapSystem_proofs` | | |
| `TypeCorrect` | `TypeOK` | |
| `OffsetsNeverOverflow` | `OffsetsFit` | `GrowthBounded` |
| `SealedMapsAreWhole` | `SealedMapIsWhole` | `GrowthBounded` |
| `PreviewInvariant` | `PreviewInv` | `GrowthBounded` |
| `PreviewsAreTrue` | `PreviewIsLatestBake` | `GrowthBounded` |
| `RefusalsAreRight` | `RejectedIsUnsealed` | `GrowthBounded` |
| `FailuresAreLZ4` | `OnlyLZ4TilesUnreadable` | `GrowthBounded` |
| `StoreIsImplemented` | `ImplementsStore` | `GrowthBounded` |
| `OldMapsAreKept` | `OldMapKeptUntilOpen` | |
| `SuccessIsSealed` | `WrittenIsSealed` | |
| in `BakeRun_proofs` | | |
| `RunInvariant` | `RunInv` | |
| `RunTypes` | `TypeOK` | |
| `NothingHalfWritten` | `NoPartialFile` | |
| `SuccessMeansWhole` | `SuccessIsComplete` | |
| `EarlyCancelSucceeds` | `EarlyCancelIsSeen` | |
| `LeftAloneIsSound` | `UndisturbedBakeIsSound` | |
| `OrderedSharesAddUp` | `OrderedProgressIsBounded` | |
| `ProgressOnlyGrows` | `ProgressNeverGoesBack` | |
| in `LevelMaps_proofs` | | |
| `WindowInvariant` | `WindowInv` | |
| `WindowTyped` | `TypeOK` | |
| `OneAtATime` | `OneOperation` | |
| `StartsAtOnce` | `StartNeverBlocks` | |
| `SilenceIsMeant` | `OnlyStoppedIsSilent` | |
| `MapsAreCurrent` | `OutdatedOnlyThroughImage` | |
| `MisplacedIsOverlapped` | `WrongLevelOnlyIfOverlapped` | |
| `OfferIsMade` | `PreviewIsOffered` | |
| `PathsAreQuiet` | `PathsChangeOnlyWhenQuiet` | |
| in `CompressionStream_proofs` | | |
| `StreamInvariant` | `StreamInv` | |
| `StreamTypes` | `TypeOK` | |
| `DirectoryIsOneFrame` | `FrameIsComplete` | |
| `WhatIsAcceptedIsWhole` | `AcceptedIsWhole` | |
| `WhatIsWholeIsAccepted` | `WholeIsAccepted` | |
| in `PngStream_proofs` | | |
| `PngInvariant` | `PngInv` | |
| `AcceptedImagesAreWhole` | `ImportedIsWhole` | |
| `ExportsAreReadable` | `ExportedIsReadable` | |
| in `RankTables_proofs` | | |
| `RankInvariant` | `RankInv` | |
| `RanksAreRight` | `RanksAreExact` | |
| `GathersAreMapped` | `GathersStayMapped` | |
| in `Vegetation_proofs` | | |
| `PictureInvariant` | `PictureInv` | |
| `PicturesAreTrue` | `PictureIsVegetation` | |
| `ViewsAlwaysAgree` | `ViewsAgree` | |
| `NothingOutside` | `StaysInside` | |
| `VegetationInSync` | `InSyncWithEngine` | |

`GrowthBounded` says that packing grows a tile by no more than the slack of
`ComputeFullSize`. It is not a property of the code: run `map_growth` shows what
happens without it, and without it a sealed map may hold truncated offsets, so the
theorems that follow offsets into the directory need it. `OldMapsAreKept` does not.
`Vegetation_proofs` extends both `MapPicture` and `ProcVeg`, which have no name in common
(hence `ProcVegSpec`); no theorem relates the two.

### `MapSystem`

**Types.** Type correctness is not free: the offsets are a function whose domain grows
with `recorded`, the tile counter must stay below `NumTiles` while a tile is written, and
the preview's picture is built from words read from the disk, so it is only well formed
because the words on disk are. `TypeOK` is inductive by itself.

**A bake.** None of the other invariants is inductive as it stands: that a map is whole
when its header appears depends on everything written before. `MapSystemInv` says what
holds of the half-written file, in parts that are proved one on top of the other:

1. `JobInv`: the choices of `RunBake` stay sound, so a packed tile always has offsets.
2. `CountInv`: `recorded` is the rank of the tile at hand, and everything recorded
   reaches the directory's compressor by `Finish`. Rests on the lemmas on `Rank`.
3. `PositionInv`: the file grows at its end and nothing is in the header's place.
4. `GrowthInv`: the r-th offset is at most `HeaderSize + r * (RawTile + 2)`. With the
   bound on the number of offsets this gives `OffsetsFit`.
5. `SpacingInv`: unpacked tiles are evenly spaced, which a bitmask directory relies on.
6. `TilesInv`, `DirectoryInv`: what is already there is right, word by word. Writing
   past a tile and recording its end leave it whole (`TileKeptByPut`,
   `TileKeptByRecord`).

`HeaderSeals` puts them together: with the header, what the reader computes from the
words is what the writer recorded. `SealedNext` adds that a file without a header stays
without one until then, and that a sealed one changes only by losing its header.

**A preview.** `ReaderInv`: a preview runs alone, the header it cached is still the one on
disk, and for an undisturbed bake the picture is that of the sealed map up to the tile at
hand. `FileInv` ties `exists` to the words. That the header is valid unless its mask names
no layer rests on `GridAssumption`, by which the counts of 32 and 64 bits agree, and on
`CountInv` and `JobInv` for the sizes and formats of the directory. `StepRefines` then maps every step of the editor to a step of
`MapStore`: `WriteHeader` publishes, opening or a failed close loses, `FinishPreview`
shows, a new operation clears, and everything else stutters.

### `BakeRun`

`RunInv` has one part per piece of state that two threads share.

- `ThreadsInv` says which positions of the four threads are possible together and what the
  files are there; `NoPartialFile` follows, since `RunBake` joins both threads before it
  returns.
- `ContextInv` and `SettingsInv` say when the context of the bake is complete, and that
  settings which nobody touches during a bake stay what the context was made from. That is
  all `UndisturbedBakeIsSound` needs, and it fails without it: the settings are read by
  reference, once by `RunBake` and again by both threads.
- `OpsInv`, `TasksInv` and `SharesInv` are about progress. The total never exceeds 100
  because, as long as every task is registered before one reports, each task's share is at
  most its operations' part of what is not reserved. To add that up over a set of tasks
  the proof needs sums over sets, and integer division that rounds down twice. A task
  that registers late breaks the bound, which is why `SharesInv`, like the property, is
  conditional; that progress never goes back holds regardless.
- `EarlyInv`: once cancelled before the threads begin, the map thread gets as far as what
  it writes before its first report, and no further.
- `FilesInv`: what the two results say of the two files.

### `LevelMaps`

What makes the window hard is that a result may be delivered long after the operation it
belongs to. `WindowInv` follows a result from the worker to the queue to the view model:
`QueueInv` (at most one result is on its way), `JoinInv` and `ClosedInv` (who waits for whom),
`StopInv` (the cancel flag belongs to the running operation, so it is the stopped one that
stays silent), `ButtonsInv` (buttons are recomputed after every change of what they depend
on), and three parts about what is shown: `FreshInv` (what was read from a map is what is on
disk unless a bake is under way), `PlaceInv` (everything read since the last level event
that met nothing unfinished is of the open level) and `OfferInv` (`m_bHasMap` is right where
no image stands in for the map). `PlaceInv` needs `overlap`: without it the property is false.

### `CompressionStream`

The invariant says at any moment where each byte of a directory is.

- `InOrder`: what was put out, then what the encoder holds, then the rest of the piece, then
  what was not fed yet, is the directory's frame. Every step of the writer moves bytes from
  the front of one of the four to the back of the one before it (`Moves`, `Regroups`), so
  the frame is complete when three of them are empty. LZ4's header is missing at the front
  until the first piece is compressed: the strategy keeps it in a buffer of its own.
- `Reading`: what was put out, then what the decoder holds, is what the consumed bytes of the
  file decode to, whatever the library chose to hold back and wherever a chunk ended.
- `ReaderInv` ties this to the way the loops stop. A strategy accepts when its length is
  used up, and Zlib also when it saw the end of the frame; since the last byte of a frame
  carries the ending (`LastUnit`), nothing is held after it, so what is accepted is whole.
  Where `Close` lost the end of the directory the item is short, and a short read is an
  error. A tile packed by LZ4 is no frame, so it is never decoded to something else.

### `PngStream`

`PngInv` follows a picture from the rows to the disk and back.

- `Exporting`: what the file's `IDAT` chunks hold, then `outBuffer`, then what `deflate`
  keeps, then the row on its way, are the rows fetched so far. With `IEND` nothing is left
  but the file. `Chained` says that the file is one chunk behind another, `Open` and
  `Ended` that the last one is not cut short.
- `OnDisk`: between an export and an import the file holds a beginning of a picture, and
  all of it if it was closed or came from the user in plain form. `FileCut` shows that cutting
  a file off anywhere, as a crash may, leaves it `Chained`.
- `Reading`: the rows painted are those of the picture, and `rowBuffer`, then what `inflate`
  keeps, then `inBuffer`, then the rest of the file are the rest of the picture, or a
  beginning of it. A row leaves only when it is full (`RowIsNext`), so the one painted is the
  next one, and the end of the stream cannot be among its bytes. `InChunk` says that the
  header after a chunk is found where the reader looks for it.

That `IEND` was reached with all rows painted is what `ImportedIsWhole` rests on: no checksum
is compared, so a file that lost its end is told from a whole one by the missing header, and a
picture of a row too few by the count of rows. `ExportedIsReadable` needs the converse, that the
reader never runs past the end of a whole file.

### `RankTables`

`RankInv` says what the builder has done at any point: `RoundsInv` that `at` is where vectors
or the blocks of a super block begin, `SumsInv` that the running sums are `Before(at)`, the number
of set bits in front of block `at` (in front of its super block, and from there on, in a
two-level table), and `EntriesInv` that every entry up to there is what it should be.
`AnswerInv` says it of the answers.

- The vector build rests on `Inclusive`: each of the three masked shifts doubles the number of
  lanes a lane is the sum of, so after three a lane of at most eight has all in front of it.
  `BeforeStep` then carries the sum from one vector to the next.
- That nothing wraps is arithmetic about `Build`'s choice: the width is the narrowest
  that fits the number of bits, so it fits every sum; an entry of a two-level table fits because a super
  block holds no more bits than its type counts to.
- `RanksAreExact` counts positions while the code adds up words. The set bits of a block
  correspond one to one to their positions, and positions before a bit are those of the blocks
  before its own and those before it in its block.
- `MissingIsNoRank`: what a batch answers for an unset bit is cut to a type that fits the total,
  so it is at least the total, and every rank is below it.
- `GathersAreMapped` needs the padding alone: with it no gather ends behind the table. The
  code's `safeLimit` and the alignment of the base, which the model has too, add nothing.

### `MapPicture`

`PicturesAreTrue` joins a whole chain of conversions, each with a lemma that says what it does
for any size:

- `FillIs`: the flood fill leaves at 0 what no way through empty texels joins to the edge.
  Every turn of its loop takes a texel off the stack and a texel is pushed once, so the texels
  still 0 and the length of the stack bound the turns (`DrainEnds`). What is marked stays
  within any set of texels that no neighbour leaves (`Within`), hence within what the
  reference reaches from the edge; and a marked texel that is off the stack has no neighbour
  at 0 (`Waits`), so with the stack empty all of that is marked. Order does not matter.
- `ShareIsRounded`: the code's sum with a half, cut to an integer, is the nearest integer.
  `SplatIsMeant` puts the two together for one object, with or without memory for the fill.
- `PlacesAre`: a cell and a layer have a byte of their own, inside the data. It needs that
  channels are the enabled layers counted (`ChannelsAre`), for whichever layers.
- `TileOfCell`, `ExtractedIs`, `PaintedIs`: through tiles, whole or cut by the grid's edge, the
  preview finds the bytes of the cell it paints, and a tile that was left out is black.

`PictureInv` has a part that always holds and one that holds while the settings are left alone.
`ShownInv`: preview and image are painted from the baked data, which nothing changes once the
layout is made, even when they were read past their end. `ViewsAgree` follows from it alone, and it
is not conditional on how the layers were read. `CleanInv` is about a bake without edits and with
memory for its data: by `ReadsInv` a loop over the flags that is half way has found the half of
the enabled layers, so any two that ended found the same; by `RoomInv` there is a byte for every
cell and channel of that number, so nothing spills (`StaysInside`) and the header is valid; and by
`DataInv` the bytes hold what the objects drawn so far sum up to, cut at the largest density,
where `CutOnce` says that cutting after every object is cutting once.

### `ProcVeg`

The generator draws from a node's random numbers for as long as something baked can follow,
and the engine draws for everything. `ProcInv` ties the two together in every position of the
three loops: at group `nPos` (`AtPlace`) and cell `nCell` of it (`AtCell`), as many numbers and
instances were drawn as the engine's own state has there, and `result` is what is baked of the
nodes before, then what is baked of that state (`Reached`).

- `BakedConcat`, `BakedAppend`: what is baked of two sequences is what is baked of one after
  what is baked of the other. So a cell may be judged when it is drawn (`GrowCellKeeps`).
- `Adds(x, y, T)`: the engine's later state `y` is `x` with more instances behind it, all of a set
  `T`, and is `x` itself once a sector is full. It goes through cells (`CellLeads`), groups
  (`PlaceLeads`) and nodes (`EarlierBegins`).
- `NoMoreBaked`: behind `LastBakedPos` the engine adds instances of groups that are not baked, and
  `BakedOf` drops them, so the generator may leave the node there (`NodeLeft`). A full sector
  ends the node on both sides, at the same object, because the counter counts what is not
  baked too.
- `SameSurface`: the lanes give the scalar code's amount, so `sse2` does not matter.
- `AlwaysBegins`: at any point `result` begins what the engine's whole vegetation has of baked
  groups (`PartBegins`), which is what a fault may leave.

### Lemmas on data

`DataLemmas` has what the proofs need of sequences, of sums over finite sets and of the
operators of `ByteStreams`. The library states induction for an operator that a theorem takes
as a parameter, which the provers cannot instantiate. `Induction` states it for a set of
numbers instead: it is derived from the well-foundedness of `<`, and a recursive function
such as `FlattenSeq` is followed by defining the set of the lengths for which the claim
holds. `IterationExists` gives the values of a function that repeats a step, which loops of a
bounded number of turns are written as, and `Division` with its companions the arithmetic of
`\div` and `%` that tiles, channels and rank tables share.

TLC found the parts of the invariants to hold on the instances of `map_file`,
`bake`, `levels`, `streams`, `png`, `ranks` and `picture` before they were proved.

### Only model-checked

Every invariant that the passing runs check is proved. Left to TLC is what is liveness, of
`BakeRun`, `LevelMaps`, `CompressionStream` and `PngStream`, since the prover has no rule for
fairness and `ENABLED`; and the four runs that show a violation.

## 5. Not modelled

- Zstd and LZ4, which are vendored and make up seven of eight lines of C in the repository;
  zlib from Qt; CryPak. They are what the strategies and `LFSFacade` rely on. A map of
  lines over the whole repository stays small for this reason; of the plugin's own code the
  models cover about 44 percent, and most of the rest is in the items below.
- Floating-point geometry: building triangles, projecting them, transforms. It keeps no
  state; `VegetationSplat` takes its result, the texels an object covers, as input.
  Rounding of sums in single precision is not modelled: shares of cells are exact.
- How vegetation groups are sorted into layers by their names, the margin around the level in
  which the engine is asked for objects, and the validation of the structures that
  `MockTerrain.h` lays over the engine's memory: tables and layout without behaviour.
  Elevation, slope and size limits of procedural vegetation are the constant `Suits`.
- `FTell` and `FSeek` are taken not to fail. The code turns a failed `FTell` into offset 0;
  whether it can fail on an open file depends on CryPak.
- Widgets: layout, painting, zoom, spin boxes and their limits, loading and saving of
  settings, the progress timer. Message boxes run an event loop of their own, in which
  other callbacks could be delivered; `LevelMaps` delivers them one after the other.
- The bound of `GetMaxCompressedSize` and the one-shot `Decompress`, which nothing calls; the
  limits on an image's size; `std::array` batches of the rank tables, which do not
  compile; detection of the processor.

## 6. Plan

Modelling is complete as far as section 5 allows, and the safety properties are proved. What
would extend it: `FTell` and `FSeek` that fail, once it is known what CryPak does then, and
rounding in single precision, which the provers have no theory of.
