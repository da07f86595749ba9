------------------------------ MODULE PngStream -----------------------------
(***************************************************************************)
(* The debug image on disk, chunk by chunk: CImageExporter writes it row   *)
(* by row through deflate and a buffer that becomes an IDAT chunk whenever *)
(* it is full, CImageImporter reads whatever PNG lies at its path, through *)
(* inflate and a buffer of one row.  The file may be one that a bake wrote *)
(* whole, one it left when it stopped or the process died, or one of the   *)
(* user's own.                                                             *)
(* Src: PNGStreamWriter.cpp, PNGStreamReader.cpp, ImageExporter.cpp,       *)
(* ImageImporter.cpp.                                                      *)
(***************************************************************************)
EXTENDS ByteStreams

CONSTANTS
  Width, Height,
  OutputBuffer,  (* kOutputBufferSize, in bytes                             *)
  InputBuffer,   (* kInputBufferSize                                        *)
  Strangers      (* the files, by kind, that may lie there already          *)

ASSUME PngAssumption ==
  /\ {Width, Height, OutputBuffer, InputBuffer} \subseteq Nat \ {0}
  /\ Strangers \subseteq {"missing", "plain", "filtered", "short", "trailing", "dictionary", "interlaced"}

VARIABLES
  stranger, (* which of them did                                            *)
  file,     (* what FWrite was given, item by item                          *)
  synced,   (* FFlush has brought all of it to the disk                     *)
  wpc, y,   (* the exporter, and its row                                    *)
  input,    (* next_in                                                      *)
  held,     (* what deflate has taken and not put out                       *)
  buffer,   (* outBuffer                                                    *)
  rpc, pos, (* the importer, and its place in the file                      *)
  sizes,    (* m_imageSizes                                                 *)
  remaining, chunk, (* of the IDAT chunk; of inBuffer                       *)
  decoded,  (* what inflate has decoded and not put out                     *)
  ended,    (* inflate has come to the stream's ending                      *)
  row,      (* rowBuffer                                                    *)
  image     (* the rows painted                                             *)

exporter == <<wpc, y, input, held, buffer>>
importer == <<rpc, pos, sizes, remaining, chunk, decoded, ended, row, image>>
vars == <<stranger, file, synced, exporter, importer>>

(* Raw bytes of a picture: a filter byte and the pixels of a row.  Ending   *)
(* is the place of a stream from which inflate goes no further: its end     *)
(* (Z_STREAM_END), or a header that asks for a dictionary (Z_NEED_DICT).    *)
Filter(f) == [of |-> f, row |-> 0, at |-> 0]
Ending    == [of |-> "end", row |-> 0, at |-> 0]
Pixels(of, r) == [x \in 1..Width |-> [of |-> of, row |-> r, at |-> x]]
Line(of, f, r) == <<Filter(f)>> \o Pixels(of, r)
Rows(of, f, n) == FlattenSeq([r \in 1..n |-> Line(of, f, r)])

(* Items of a file.  The header of a chunk and its CRC are one item each,   *)
(* data are items byte by byte.                                             *)
Signature     == [is |-> "signature"]
HeadOf(type, n) == [is |-> "head", type |-> type, length |-> n]
Crc           == [is |-> "crc"]
Byte(units)   == [is |-> "byte", units |-> units]
Format(f)     == [is |-> "format", width |-> Width, height |-> Height, format |-> f]
Info(f)       == <<HeadOf("IHDR", 1), Format(f), Crc>>
Ends          == <<HeadOf("IEND", 0), Crc>>

(* WriteChunk.                                                              *)
IDAT(bytes) ==
  <<HeadOf("IDAT", Len(bytes))>> \o [i \in DOMAIN bytes |-> Byte(bytes[i])] \o <<Crc>>

Comment == <<HeadOf("tEXt", 2), Byte(<<>>), Byte(<<>>), Crc>>

Single(units) == [i \in DOMAIN units |-> <<units[i]>>]

Stranger(s) ==
  CASE s = "missing" -> <<>>
    [] s = "plain" -> <<Signature>> \o Info("rgb8") \o Comment
                        \o IDAT(Single(Rows("user", "none", Height) \o <<Ending>>)) \o Ends
    [] s = "filtered" -> <<Signature>> \o Info("rgb8")
                        \o IDAT(Single(Rows("user", "sub", Height) \o <<Ending>>)) \o Ends
    [] s = "short" -> <<Signature>> \o Info("rgb8")
                        \o IDAT(Single(Rows("user", "none", Height - 1) \o <<Ending>>)) \o Ends
    [] s = "trailing" -> <<Signature>> \o Info("rgb8")
                        \o IDAT(Single(Rows("user", "none", Height) \o <<Ending, Ending>>)) \o Ends
    [] s = "dictionary" -> <<Signature>> \o Info("rgb8")
                        \o IDAT(Single(<<Ending, Ending>>)) \o Ends
    [] s = "interlaced" -> <<Signature>> \o Info("adam7") \o Ends

Init ==
  /\ stranger \in Strangers /\ file = Stranger(stranger) /\ synced = TRUE
  /\ wpc = "ready" /\ y = 0 /\ input = <<>> /\ held = <<>> /\ buffer = <<>>
  /\ rpc = "idle" /\ pos = 1 /\ sizes = [width |-> 0, height |-> 0]
  /\ remaining = 0 /\ chunk = <<>> /\ decoded = <<>> /\ ended = FALSE /\ row = <<>> /\ image = <<>>

-----------------------------------------------------------------------------
(* CImageExporter::ExportImage and WritePNG.                                *)

(* Opening truncates the file.                                              *)
OpenExport ==
  /\ wpc = "ready" /\ rpc = "idle"
  /\ file' = <<Signature>> \o Info("rgb8") /\ synced' = FALSE
  /\ wpc' = "row"
  /\ UNCHANGED <<y, input, held, buffer>>

(* OnProgress, then FetchRowRGB.                                            *)
FetchRow ==
  /\ wpc = "row" /\ y < Height
  /\ y' = y + 1
  /\ input' = Line("bake", "none", y')
  /\ wpc' = "deflate"
  /\ UNCHANGED <<file, synced, held, buffer>>

(* deflate takes all its input unless it fills the output.  A full buffer   *)
(* becomes a chunk (Flush(false)).                                          *)
DeflateRow ==
  /\ wpc = "deflate"
  /\ \E taken \in 0..Len(input) :
       \E e \in Emissions(held \o FirstOf(input, taken), OutputBuffer - Len(buffer), Ending) :
         LET filled == buffer \o e.bytes
         IN /\ Len(filled) < OutputBuffer => taken = Len(input)
            /\ input' = After(input, taken)
            /\ held' = e.rest
            /\ IF Len(filled) = OutputBuffer
               THEN file' = file \o IDAT(filled) /\ buffer' = <<>>
               ELSE buffer' = filled /\ UNCHANGED file
  /\ wpc' = IF input' = <<>> THEN "row" ELSE "deflate"
  /\ UNCHANGED <<synced, y>>

EndRows ==
  /\ wpc = "row" /\ y = Height
  /\ held' = Append(held, Ending)
  /\ wpc' = "finish"
  /\ UNCHANGED <<file, synced, y, input, buffer>>

MutantFlushed(bytes, ends) == <<>>  (* leaves what Z_STREAM_END came with *)

(* What Flush(true) writes after a call of deflate(Z_FINISH): its bytes, if *)
(* the stream has ended; otherwise they stay in outBuffer.                  *)
Flushed(bytes, ends) == IF ends /\ bytes # <<>> THEN IDAT(bytes) ELSE <<>>

MutantFinishAgain(rest) == TRUE  (* takes Z_STREAM_END for Z_OK *)

FinishAgain(rest) == rest # <<>>

(* One turn of Flush(true).                                                 *)
FinishStream ==
  /\ wpc = "finish"
  /\ \E e \in Emissions(held, OutputBuffer, Ending) :
       /\ e.rest = <<>> \/ Len(e.bytes) = OutputBuffer
       /\ held' = e.rest
       /\ file' = file \o (IF buffer = <<>> THEN <<>> ELSE IDAT(buffer))
                       \o Flushed(e.bytes, ~FinishAgain(e.rest))
       /\ buffer' = IF FinishAgain(e.rest) THEN e.bytes ELSE <<>>
       /\ wpc' = IF FinishAgain(e.rest) THEN "finish" ELSE "end"
  /\ UNCHANGED <<synced, y, input>>

WriteIEND ==
  /\ wpc = "end"
  /\ file' = file \o Ends
  /\ wpc' = "flush"
  /\ UNCHANGED <<synced, y, input, held, buffer>>

(* FFlush.                                                                  *)
FlushFile ==
  /\ wpc = "flush"
  /\ synced' = TRUE
  /\ wpc' = "close"
  /\ UNCHANGED <<file, y, input, held, buffer>>

(* close ignores what FClose returns: bytes that were not flushed may be    *)
(* lost without notice.                                                     *)
CloseFile ==
  /\ wpc = "close"
  /\ \E n \in 0..Len(file) : (synced => n = Len(file)) /\ file' = FirstOf(file, n)
  /\ wpc' = "exported"
  /\ UNCHANGED <<synced, y, input, held, buffer>>

(* A write that fails, a cancellation, the process that dies: the file is   *)
(* removed, or any beginning of it stays.                                   *)
ExportStops ==
  /\ wpc \notin {"ready", "exported", "stopped"}
  /\ \E n \in 0..Len(file) : (synced => n = Len(file)) /\ file' = FirstOf(file, n)
  /\ wpc' = "stopped"
  /\ UNCHANGED <<synced, y, input, held, buffer>>

ExportStep ==
  \/ FetchRow \/ DeflateRow \/ EndRows \/ FinishStream
  \/ WriteIEND \/ FlushFile \/ CloseFile

-----------------------------------------------------------------------------
(* CImageImporter: Prepare with ReadPNGInfo, ImportImage with ReadPNG.      *)

Item(p) == IF p <= Len(file) THEN file[p] ELSE [is |-> "nothing"]

ReadPNGInfo ==
  /\ rpc = "idle" /\ wpc \in {"ready", "exported", "stopped"}
  /\ IF Item(1) = Signature /\ Item(2) = HeadOf("IHDR", 1) /\ Item(3) = Format("rgb8")
     THEN /\ sizes' = [width |-> Item(3).width, height |-> Item(3).height]
          /\ rpc' = "info"
     ELSE rpc' = "refused" /\ UNCHANGED sizes
  /\ UNCHANGED <<pos, remaining, chunk, decoded, ended, row, image>>

(* The file is opened again, the image resized, and the first chunks are    *)
(* skipped by their size (kPNGDataOffset).                                  *)
BeginReadPNG ==
  /\ rpc = "info"
  /\ pos' = 5
  /\ rpc' = "chunk"
  /\ UNCHANGED <<sizes, remaining, chunk, decoded, ended, row, image>>

MutantAllRows == TRUE  (* does not count the rows *)

AllRows == Len(image) = sizes.height

(* ReadChunkHeader, and what ReadPNG does with a chunk: chunks it does not  *)
(* know are skipped with their CRC, and the end's CRC is not looked at.     *)
ReadChunkHeader ==
  /\ rpc = "chunk"
  /\ LET head == Item(pos)
     IN IF head.is # "head"
        THEN rpc' = "refused" /\ UNCHANGED <<pos, remaining>>
        ELSE /\ pos' = IF head.type \in {"IDAT", "IEND"} THEN pos + 1 ELSE pos + 1 + head.length + 1
             /\ remaining' = IF head.type = "IDAT" THEN head.length ELSE remaining
             /\ rpc' = CASE head.type = "IDAT" -> "read"
                         [] head.type = "IEND" -> IF AllRows THEN "imported" ELSE "refused"
                         [] OTHER -> "chunk"
  /\ UNCHANGED <<sizes, chunk, decoded, ended, row, image>>

ToRead == IF remaining < InputBuffer THEN remaining ELSE InputBuffer

(* ProcessChunk reads a buffer of the chunk, or skips its CRC.              *)
ReadBuffer ==
  /\ rpc = "read"
  /\ IF remaining = 0 THEN pos' = pos + 1 /\ rpc' = "chunk" /\ UNCHANGED <<remaining, chunk>>
     ELSE IF pos + ToRead - 1 > Len(file)
     THEN rpc' = "refused" /\ UNCHANGED <<pos, remaining, chunk>>
     ELSE /\ chunk' = [i \in 1..ToRead |-> file[pos + i - 1].units]
          /\ pos' = pos + ToRead /\ remaining' = remaining - ToRead
          /\ rpc' = "inflate"
  /\ UNCHANGED <<sizes, decoded, ended, row, image>>

(* The data of what inflate takes, without the stream's ending.             *)
Finishes(units) == units # <<>> /\ Last(units) = Ending
DataOf(units)   == IF Finishes(units) THEN Front(units) ELSE units

(* inflate stops short of the input's end only when the row is full or at   *)
(* the stream's ending, which comes after all its data; no byte after it is *)
(* taken, and what inflate returns there is none of the errors ProcessChunk *)
(* looks for.                                                               *)
Inflates(units, taken, put, room, left) ==
  /\ ended => taken = 0
  /\ ~ended => taken + put > 0
  /\ put < room /\ ~ended /\ ~Finishes(units) => taken = Len(chunk)
  /\ \A i \in 1..Len(units) - 1 : units[i] # Ending
  /\ Finishes(units) => left = <<>>

(* FlushRow: rows beyond the image's height are dropped.                    *)
Refuses(full)  == Len(image) < sizes.height /\ Head(full) # Filter("none")
Painted(full)  == IF Len(image) < sizes.height THEN Append(image, Tail(full)) ELSE image

(* One turn of ProcessChunk's inner loop.                                   *)
Inflate ==
  /\ rpc = "inflate" /\ chunk # <<>>
  /\ \E taken \in 0..Len(chunk) :
       LET units == FlattenSeq(FirstOf(chunk, taken))
           data  == decoded \o DataOf(units)
           room  == sizes.width + 1 - Len(row)
           put   == IF Len(data) < room THEN Len(data) ELSE room
           full  == row \o FirstOf(data, put)
       IN /\ Inflates(units, taken, put, room, After(data, put))
          /\ chunk' = After(chunk, taken)
          /\ decoded' = After(data, put)
          /\ ended' = (ended \/ Finishes(units))
          /\ IF Len(full) < sizes.width + 1
             THEN row' = full /\ UNCHANGED <<rpc, image>>
             ELSE IF Refuses(full)
             THEN rpc' = "refused" /\ UNCHANGED <<row, image>>
             ELSE image' = Painted(full) /\ row' = <<>> /\ UNCHANGED rpc
  /\ UNCHANGED <<pos, sizes, remaining>>

BufferDone ==
  /\ rpc = "inflate" /\ chunk = <<>>
  /\ rpc' = "read"
  /\ UNCHANGED <<pos, sizes, remaining, chunk, decoded, ended, row, image>>

(* No memory, a read that fails, a cancellation at a row.                   *)
ImportStops ==
  /\ rpc \in {"info", "chunk", "read", "inflate"}
  /\ rpc = "inflate" => ~ended
  /\ rpc' = "stopped"
  /\ UNCHANGED <<pos, sizes, remaining, chunk, decoded, ended, row, image>>

ImportStep ==
  \/ ReadPNGInfo \/ BeginReadPNG \/ ReadChunkHeader \/ ReadBuffer \/ Inflate \/ BufferDone

-----------------------------------------------------------------------------
Export == (OpenExport \/ ExportStep \/ ExportStops) /\ UNCHANGED <<stranger, importer>>
Import == (ImportStep \/ ImportStops) /\ UNCHANGED <<stranger, file, synced, exporter>>
Next   == Export \/ Import

(* An export or an import is a loop of a thread that always runs on.        *)
Fairness ==
  /\ WF_vars(ExportStep /\ UNCHANGED <<stranger, importer>>)
  /\ WF_vars(ImportStep /\ UNCHANGED <<stranger, file, synced, exporter>>)

Spec == Init /\ [][Next]_vars /\ Fairness

-----------------------------------------------------------------------------
PictureOf(of) == [r \in 1..Height |-> Pixels(of, r)]

(* An image the importer accepts is a whole picture, every row in its       *)
(* place: no beginning of a file that an export left, however deflate's     *)
(* output fell into chunks and buffers, passes for one, and rows of an      *)
(* older file never mix with new ones (WritePNG, ReadPNG).                  *)
ImportedIsWhole == rpc = "imported" => image \in {PictureOf("bake"), PictureOf("user")}

(* An export that reports success leaves an image that the importer reads   *)
(* to its end, unless it is stopped itself; and so does the importer with a *)
(* picture of the user's that has no row filters and no interlacing.        *)
ExportedIsReadable ==
  rpc \in {"refused", "imported"} =>
    /\ wpc = "exported" => rpc = "imported" /\ image = PictureOf("bake")
    /\ wpc = "ready" /\ stranger = "plain" => rpc = "imported" /\ image = PictureOf("user")

(* Streams of the user's with bytes where inflate takes none: after their   *)
(* end, or after a header that asks for a dictionary.                       *)
Stalling == {"trailing", "dictionary"}

(* Exports and imports end, except on a stalling stream: there inflate      *)
(* makes no progress and ProcessChunk's loop goes on calling it.            *)
ImagesEnd ==
  /\ wpc # "ready" ~> wpc \in {"exported", "stopped"}
  /\ rpc # "idle" ~> \/ rpc \in {"imported", "refused", "stopped"}
                     \/ wpc = "ready" /\ stranger \in Stalling

(* An image whose stream does not hold all its rows is refused in the end,  *)
(* unless its import is stopped: "Image decoded incompletely (missing rows)"*)
(* (ReadPNG, PNGStreamReader.cpp:200).                                      *)
MissingRowsAreRefused ==
  rpc = "info" /\ wpc = "ready" /\ stranger \in {"short", "dictionary"}
    ~> rpc \in {"refused", "stopped"}
=============================================================================
