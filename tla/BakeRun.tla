------------------------------- MODULE BakeRun -------------------------------
(***************************************************************************)
(* CMapsBaker::RunBake and the four threads of a bake: the UI, which keeps *)
(* editing the settings and may cancel, the worker, which reads them as it *)
(* goes, and the two threads that write the map and the debug image.       *)
(* Src: src/Core/Orchestration/MapsBaker.cpp, CMapFileWriter,              *)
(* CImageExporter and the settings' handlers of CJDKLevelMapsEditor.       *)
(***************************************************************************)
EXTENDS MapFormats, BakeProgress, SequencesExt

CONSTANTS
  Compressions,    (* Settings::ECompression the user may choose            *)
  Rows,            (* gridHeight, the lines of the debug image              *)
  FlushOps,        (* chunks of a compressed directory                      *)
  StagingCapacity  (* offsets in the recorder's staging buffer              *)

ASSUME BakeAssumption ==
  /\ Compressions \subseteq [alg : Algs \cup {"Auto"}, blocks : SUBSET Blocks]
  /\ \A c \in Compressions : c.alg = "None" => c.blocks = {}
  /\ Rows \in Nat \ {0} /\ FlushOps \in Nat \ {0} /\ StagingCapacity \in Nat \ {0}
  /\ Tasks = {"image", "tiles", "directory", "flush"} /\ Reserved = {"flush"}

VARIABLES
  settings,     (* m_bakerSettings, which RunBake reads by reference        *)
  resetPending, (* the UI is inside the handler of the compression box      *)
  bpc,          (* where RunBake is                                         *)
  ctx,          (* SBakeContext                                             *)
  ready,        (* m_bReady of the exporter                                 *)
  mpc, written, (* the map's thread, and how many writes it has done        *)
  ipc, row,     (* the image's thread, and its line                         *)
  mapResult, imageResult, result,
  mapFile,      (* absent, partial, whole, or old: left by an earlier bake  *)
  imageFile,
  asked,        (* history: the debug image was on when the bake was started  *)
  disturbed,    (* history: they were changed while it ran                  *)
  early         (* history: it was cancelled before its threads started     *)

uiVars     == <<settings, resetPending>>
mapVars    == <<mpc, written, mapResult, mapFile>>
imageVars  == <<ipc, row, imageResult, imageFile>>
runVars    == <<bpc, ctx, ready, result>>
history    == <<asked, disturbed, early>>
vars == <<progressVars, uiVars, mapVars, imageVars, runVars, history>>

Settings == [compression : Compressions, format : {"Auto", "Bitmask", "Hybrid"},
             image : BOOLEAN]

Consistent(s) == s.compression.alg # "None" => s.format = "Auto"

NoContext == [alg |-> "None", n |-> 0, blocks |-> {}, fmt |-> "Bitmask"]

Init ==
  /\ ProgressInit
  /\ settings \in {s \in Settings : Consistent(s)} /\ resetPending = FALSE
  /\ bpc = "idle" /\ ctx = NoContext /\ ready = FALSE /\ result = "none"
  /\ mpc = "off" /\ written = 0 /\ mapResult = "none" /\ mapFile = "absent"
  /\ ipc = "off" /\ row = 0 /\ imageResult = "none" /\ imageFile = "absent"
  /\ asked = settings.image /\ disturbed = FALSE /\ early = FALSE

-----------------------------------------------------------------------------
(* The UI thread.  The settings stay editable while a bake runs.            *)

Edit(s) ==
  /\ settings' = s
  /\ disturbed' = (disturbed \/ bpc # "idle")
  /\ UNCHANGED <<progressVars, mapVars, imageVars, runVars, asked, early>>

(* The handler of the compression box writes the setting first ...          *)
ChooseCompression ==
  /\ ~resetPending
  /\ \E c \in Compressions \ {settings.compression} :
       /\ Edit([settings EXCEPT !.compression = c])
       /\ resetPending' = (c.alg # "None")

MutantResetFormat ==  (* disables the format box without resetting it *)
  /\ resetPending
  /\ resetPending' = FALSE
  /\ Edit(settings)

(* ... and then UpdateFormatComboBoxState puts the format back to Auto.     *)
ResetFormat ==
  /\ resetPending
  /\ resetPending' = FALSE
  /\ Edit([settings EXCEPT !.format = "Auto"])

ChooseFormat ==
  /\ ~resetPending /\ settings.compression.alg = "None"
  /\ \E f \in {"Auto", "Bitmask", "Hybrid"} \ {settings.format} :
       Edit([settings EXCEPT !.format = f])
  /\ UNCHANGED resetPending

ToggleImage ==
  /\ ~resetPending
  /\ Edit([settings EXCEPT !.image = ~settings.image])
  /\ UNCHANGED resetPending

(* StopBaking, while the worker's thread is joinable.                       *)
Stop ==
  /\ ~resetPending /\ bpc # "idle" /\ ~cancelled
  /\ Cancel
  /\ UNCHANGED <<uiVars, mapVars, imageVars, runVars, history>>

Earlier(file) == IF file = "whole" THEN "old" ELSE file

(* StartBaking: m_progress.Reset(), then the worker's thread.               *)
Start ==
  /\ ~resetPending /\ bpc = "idle"
  /\ Reset
  /\ bpc' = "baking" /\ result' = "none"
  /\ asked' = settings.image /\ disturbed' = FALSE /\ early' = FALSE
  /\ mapFile' = Earlier(mapFile) /\ imageFile' = Earlier(imageFile)
  /\ UNCHANGED <<uiVars, ctx, ready, mpc, written, mapResult, ipc, row, imageResult>>

UIStep == ChooseCompression \/ ResetFormat \/ ChooseFormat \/ ToggleImage \/ Stop \/ Start

-----------------------------------------------------------------------------
(* The worker.                                                              *)

(* RunBake returns: the context, the writer, the exporter, the progressor   *)
(* and the futures are its locals.                                          *)
Return(how) ==
  /\ bpc' = "idle" /\ result' = how
  /\ ctx' = NoContext /\ ready' = FALSE
  /\ mpc' = "off" /\ written' = 0 /\ mapResult' = "none"
  /\ ipc' = "off" /\ row' = 0 /\ imageResult' = "none"
  /\ ops' = NoTasks /\ reported' = NoTasks
  /\ UNCHANGED <<progress, cancelled, late, uiVars, mapFile, imageFile, history>>

(* Bake, and the first of two reads of the compression setting.             *)
ReadAlgorithm ==
  /\ bpc = "baking" /\ bpc' = "prepare"
  /\ ctx' = [ctx EXCEPT !.alg = ResolveCompressionAlg(settings.compression)]
  /\ UNCHANGED <<progressVars, uiVars, mapVars, imageVars, ready, result, history>>

(* CMapFileWriter::Prepare: creates the compressor, counts n tiles.         *)
PrepareWriter ==
  /\ bpc = "prepare"
  /\ \/ Return("failed")
     \/ /\ \E n \in 0 .. NumTiles : ctx' = [ctx EXCEPT !.n = n]
        /\ bpc' = "blocks"
        /\ UNCHANGED <<progressVars, uiVars, mapVars, imageVars, ready, result, history>>

(* The second read.                                                         *)
ReadBlocks ==
  /\ bpc = "blocks" /\ bpc' = "format"
  /\ ctx' = [ctx EXCEPT !.blocks = ResolveCompressBlocks(settings.compression, ctx.n)]
  /\ UNCHANGED <<progressVars, uiVars, mapVars, imageVars, ready, result, history>>

ReadFormat ==
  /\ bpc = "format" /\ bpc' = "image"
  /\ ctx' = [ctx EXCEPT !.fmt = ResolveEntryFormat(settings.format, ctx.n, ctx.blocks)]
  /\ UNCHANGED <<progressVars, uiVars, mapVars, imageVars, ready, result, history>>

(* If the debug image is on now, CImageExporter::Prepare registers its task.*)
PrepareImage ==
  /\ bpc = "image"
  /\ \/ settings.image /\ Return("failed")
     \/ /\ \/ settings.image /\ Register("image", Rows) /\ ready' = TRUE
           \/ ~settings.image /\ UNCHANGED <<progressVars, ready>>
        /\ bpc' = "map"
        /\ UNCHANGED <<uiVars, mapVars, imageVars, ctx, result, history>>

SpawnMap ==
  /\ bpc = "map" /\ bpc' = "spawn"
  /\ mpc' = "tiles"
  /\ early' = cancelled
  /\ UNCHANGED <<progressVars, uiVars, written, mapResult, mapFile, imageVars,
                 ctx, ready, result, asked, disturbed>>

SpawnImage ==
  /\ bpc = "spawn" /\ bpc' = "join"
  /\ ipc' = "start"
  /\ UNCHANGED <<progressVars, uiVars, mapVars, row, imageResult, imageFile,
                 ctx, ready, result, history>>

(* Both get() calls, then the map's error before the image's.               *)
Outcome ==
  IF mapResult = "ok" /\ imageResult = "ok" THEN "ok"
  ELSE IF mapResult # "ok" THEN mapResult ELSE imageResult

MutantJoin ==  (* reports a failed map at once *)
  /\ bpc = "join" /\ mpc = "done" /\ (mapResult = "ok" => ipc = "done")
  /\ Return(Outcome)

Join ==
  /\ bpc = "join" /\ mpc = "done" /\ ipc = "done"
  /\ Return(Outcome)

WorkerStep ==
  ReadAlgorithm \/ PrepareWriter \/ ReadBlocks \/ ReadFormat \/ PrepareImage
  \/ SpawnMap \/ SpawnImage \/ Join

-----------------------------------------------------------------------------
(* The map's thread: CMapFileWriter::BakeMap.                               *)

PacksTiles     == "Tiles" \in ctx.blocks
PacksDirectory == "Directory" \in ctx.blocks
KeepsOffsets   == ctx.fmt # "Bitmask"

DirectoryOps == NumTiles + (IF KeepsOffsets THEN ctx.n + 1 ELSE 0)

(* A write is followed by Update of a task; begin marks the start of        *)
(* ProcessTiles, which has no callback of its own.                          *)
Write(task, done) == [task |-> task, done |-> done]
Begin      == Write("begin", 0)
BitsWrite  == Write("directory", NumTiles)
FlushWrites == [k \in 1 .. FlushOps |-> Write("flush", k)]

(* A streamed directory compresses its offsets when the staging buffer is   *)
(* full, before the tile is written; what is left at the end goes without   *)
(* a callback (Finish).                                                     *)
StagedWrite(k) ==
  IF KeepsOffsets /\ PacksDirectory /\ k % StagingCapacity = 0
  THEN <<Write("directory", NumTiles + k)>> ELSE <<>>

TileWrites ==
  <<Begin>>
  \o FlattenSeq([k \in 1 .. ctx.n |-> StagedWrite(k) \o <<Write("tiles", k * RawTile)>>])
  \o StagedWrite(ctx.n + 1)

Writes ==
  IF PacksDirectory
  THEN IF KeepsOffsets THEN <<BitsWrite>> \o TileWrites \o FlushWrites
                       ELSE TileWrites \o <<BitsWrite>> \o FlushWrites
  ELSE TileWrites \o <<BitsWrite>>
       \o (IF KeepsOffsets THEN <<Write("directory", DirectoryOps)>> ELSE <<>>)

OthersOfMap == <<uiVars, imageVars, runVars, history>>

RegisterTiles ==
  /\ mpc = "tiles" /\ mpc' = "directory"
  /\ Register("tiles", ctx.n * RawTile)
  /\ UNCHANGED <<OthersOfMap, written, mapResult, mapFile>>

RegisterDirectory ==
  /\ mpc = "directory"
  /\ mpc' = IF PacksDirectory THEN "flush" ELSE "open"
  /\ Register("directory", DirectoryOps)
  /\ UNCHANGED <<OthersOfMap, written, mapResult, mapFile>>

ReserveFlush ==
  /\ mpc = "flush" /\ mpc' = "open"
  /\ Register("flush", 0)
  /\ UNCHANGED <<OthersOfMap, written, mapResult, mapFile>>

OpenMap ==
  /\ mpc = "open"
  /\ \/ mpc' = "write" /\ mapFile' = "partial" /\ UNCHANGED mapResult
     \/ mpc' = "done" /\ mapResult' = "failed" /\ UNCHANGED mapFile
  /\ UNCHANGED <<OthersOfMap, progressVars, written>>

(* ScopedCryFile removes the file when BakeMap returns early.               *)
MapFails(how) ==
  /\ mpc' = "done" /\ mapResult' = how /\ mapFile' = "absent"
  /\ UNCHANGED <<progressVars, written>>

(* The strategy was created for the algorithm read first.                   *)
CompressorMissing(w) ==
  /\ ctx.alg = "None"
  /\ \/ w.task = "begin" /\ PacksTiles
     \/ w.task \in {"directory", "flush"} /\ PacksDirectory

SizeOf(w) == IF w.task = "flush" THEN FlushOps ELSE ops[w.task]

MutantWrite ==  (* does not look at the cancel flag *)
  /\ mpc = "write" /\ written < Len(Writes)
  /\ LET w == Writes[written + 1] IN
     /\ ~CompressorMissing(w)
     /\ written' = written + 1
     /\ IF w.task = "begin" THEN UNCHANGED progressVars ELSE Report(w.task, w.done, SizeOf(w))
     /\ UNCHANGED <<mpc, mapResult, mapFile>>
  /\ UNCHANGED OthersOfMap

WriteMap ==
  /\ mpc = "write" /\ written < Len(Writes)
  /\ LET w == Writes[written + 1] IN
     \/ CompressorMissing(w) /\ MapFails("internal")
     \/ ~CompressorMissing(w) /\ w.task # "begin" /\ cancelled /\ MapFails("cancelled")
     \/ /\ ~CompressorMissing(w)
        /\ written' = written + 1
        /\ \/ w.task = "begin" /\ UNCHANGED progressVars
           \/ w.task # "begin" /\ ~cancelled /\ Report(w.task, w.done, SizeOf(w))
        /\ UNCHANGED <<mpc, mapResult, mapFile>>
  /\ UNCHANGED OthersOfMap

(* A failed FWrite, a compressor error or no memory.                        *)
MapFault ==
  /\ mpc = "write"
  /\ MapFails("failed")
  /\ UNCHANGED OthersOfMap

(* WriteHeader and file.close(true).                                        *)
SealMap ==
  /\ mpc = "write" /\ written = Len(Writes)
  /\ mpc' = "done" /\ mapResult' = "ok" /\ mapFile' = "whole"
  /\ UNCHANGED <<OthersOfMap, progressVars, written>>

MapAdvances ==
  RegisterTiles \/ RegisterDirectory \/ ReserveFlush \/ OpenMap \/ WriteMap \/ SealMap

-----------------------------------------------------------------------------
(* The image's thread: it reads the flag again, then ExportImage.           *)

OthersOfImage == <<uiVars, mapVars, bpc, ctx, result, history>>

ImageEnds(how) == ipc' = "done" /\ imageResult' = how

StartImage ==
  /\ ipc = "start"
  /\ IF ~settings.image THEN ImageEnds("ok") /\ UNCHANGED ready
     ELSE IF ~ready THEN ImageEnds("unready") /\ UNCHANGED ready
     ELSE ipc' = "open" /\ ready' = FALSE /\ UNCHANGED imageResult
  /\ UNCHANGED <<OthersOfImage, progressVars, row, imageFile>>

OpenImage ==
  /\ ipc = "open"
  /\ \/ ipc' = "rows" /\ imageFile' = "partial" /\ UNCHANGED imageResult
     \/ ImageEnds("failed") /\ UNCHANGED imageFile
  /\ UNCHANGED <<OthersOfImage, progressVars, ready, row>>

ImageFails(how) == ImageEnds(how) /\ imageFile' = "absent" /\ UNCHANGED <<progressVars, row>>

MutantRow ==  (* does not go to the next line *)
  /\ ipc = "rows" /\ row < Rows
  /\ \/ cancelled /\ ImageFails("cancelled")
     \/ ~cancelled /\ Report("image", row, Rows) /\ UNCHANGED <<ipc, row, imageResult, imageFile>>
  /\ UNCHANGED <<OthersOfImage, ready>>

MutantRowLoop ==  (* writes one line too many *)
  /\ ipc = "rows" /\ row <= Rows
  /\ \/ cancelled /\ ImageFails("cancelled")
     \/ /\ ~cancelled /\ Report("image", row, Rows)
        /\ row' = row + 1
        /\ UNCHANGED <<ipc, imageResult, imageFile>>
  /\ UNCHANGED <<OthersOfImage, ready>>

(* One round of StreamIDAT: OnProgress(y), then line y.                     *)
WriteRow ==
  /\ ipc = "rows" /\ row < Rows
  /\ \/ cancelled /\ ImageFails("cancelled")
     \/ /\ ~cancelled /\ Report("image", row, Rows)
        /\ row' = row + 1
        /\ UNCHANGED <<ipc, imageResult, imageFile>>
  /\ UNCHANGED <<OthersOfImage, ready>>

ImageFault ==
  /\ ipc = "rows"
  /\ ImageFails("failed")
  /\ UNCHANGED <<OthersOfImage, ready>>

MutantFinishImage ==  (* drops bSuccess of close *)
  /\ ipc = "rows" /\ row = Rows
  /\ ImageEnds("ok") /\ imageFile' = "absent"
  /\ UNCHANGED <<OthersOfImage, progressVars, ready, row>>

(* The last OnProgress, whose answer is not looked at, and close(true).     *)
FinishImage ==
  /\ ipc = "rows" /\ row = Rows
  /\ IF cancelled THEN UNCHANGED progressVars ELSE Report("image", Rows, Rows)
  /\ ImageEnds("ok") /\ imageFile' = "whole"
  /\ UNCHANGED <<OthersOfImage, ready, row>>

ImageAdvances == StartImage \/ OpenImage \/ WriteRow \/ FinishImage

-----------------------------------------------------------------------------
Next == UIStep \/ WorkerStep \/ MapAdvances \/ MapFault \/ ImageAdvances \/ ImageFault

(* Every thread of a bake is scheduled by the system and gets on without    *)
(* faults; the user owes nothing but the end of a handler.                  *)
Spec ==
  /\ Init /\ [][Next]_vars
  /\ WF_vars(WorkerStep) /\ WF_vars(MapAdvances) /\ WF_vars(ImageAdvances)
  /\ WF_vars(ResetFormat)

-----------------------------------------------------------------------------
FileStates == {"absent", "partial", "whole", "old"}
Results    == {"none", "ok", "failed", "cancelled", "internal", "unready"}

(* Every variable is in the range its declaration in the code gives it.     *)
TypeOK ==
  /\ progress \in Nat /\ cancelled \in BOOLEAN /\ late \in BOOLEAN
  /\ Registered \subseteq Tasks /\ ops \in [Registered -> Nat]
  /\ reported \in [Registered -> 0 .. 100]
  /\ settings \in Settings /\ asked \in BOOLEAN /\ resetPending \in BOOLEAN
  /\ ctx \in [alg : Algs, n : 0 .. NumTiles, blocks : SUBSET Blocks, fmt : Formats]
  /\ written \in 0 .. Len(Writes) /\ row \in 0 .. Rows
  /\ {mapFile, imageFile} \subseteq FileStates
  /\ {mapResult, imageResult, result} \subseteq Results
  /\ {ready, disturbed, early} \subseteq BOOLEAN

(* RunBake returns only after both threads have: nothing is left half       *)
(* written, whichever of them failed, was cancelled, or never started.      *)
NoPartialFile == bpc = "idle" => "partial" \notin {mapFile, imageFile}

(* A bake that reports success wrote the whole map, and the debug image if  *)
(* the user had asked for one and left the settings alone.                  *)
SuccessIsComplete ==
  bpc = "idle" /\ result = "ok" =>
    mapFile = "whole" /\ (asked /\ ~disturbed => imageFile = "whole")

(* A cancel given before the threads are started is never lost: whatever    *)
(* the formats, the map's thread passes a callback that sees it.            *)
EarlyCancelIsSeen == bpc = "idle" /\ early => result # "ok"

(* If the settings are left alone, the two reads of the compression and the *)
(* two of the image flag agree, and no format without offsets is chosen for *)
(* packed tiles.                                                            *)
UndisturbedBakeIsSound ==
  ~disturbed =>
    /\ result \notin {"internal", "unready"}
    /\ mpc # "off" /\ PacksTiles => KeepsOffsets

(* When every task was registered before any of them reported, the progress *)
(* never passes 100.                                                        *)
OrderedProgressIsBounded == ~late => progress <= 100

(* Progress never goes back within a bake, also when a late registration    *)
(* reweighs the tasks.                                                      *)
ProgressNeverGoesBack == [][bpc # "idle" => progress' >= progress]_vars

(* Every bake returns, cancelled or not.                                    *)
BakeReturns == bpc # "idle" ~> bpc = "idle"
=============================================================================
