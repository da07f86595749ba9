------------------------- MODULE CompressionStream -------------------------
(***************************************************************************)
(* The compressed blocks of one map file, byte stream by byte stream: the  *)
(* directory, compressed piece by piece (SCompressor), the tiles, each     *)
(* compressed in one call (ProcessTiles), and their decompression chunk by *)
(* chunk into one buffer that serves tile after tile (SDecompressor).      *)
(*                                                                         *)
(* The three libraries are external.  A compressed byte completes one or   *)
(* more units of its stream: the frame's header, a raw byte, the frame's   *)
(* end.  How units fall on bytes, how much a call consumes and how much it *)
(* holds back are left open within what each library promises.             *)
(***************************************************************************)
EXTENDS ByteStreams

CONSTANTS
  Kinds,          \* the libraries: a subset of {"Zlib", "Zstd", "LZ4"}
  DirectorySize,  \* raw bytes of the directory
  TileSize,       \* raw bytes of a tile
  NumTiles,
  CHUNK_SIZE,     \* bytes read, and given to LZ4, at a time
  EncoderBuffer,  \* internalBuf.size() of a compression context
  DecoderBuffer   \* internalBuf.size() of a decompression context

ASSUME StreamAssumption ==
  /\ Kinds \subseteq {"Zlib", "Zstd", "LZ4"}
  /\ {DirectorySize, TileSize, CHUNK_SIZE, EncoderBuffer, DecoderBuffer} \subseteq Nat \ {0}
  /\ NumTiles \in Nat

VARIABLES
  kind,        \* the strategy
  wpc,         \* the writer: tiles, begin, feed, compress, end, flush, sealed, failed
  raw,         \* bytes of the directory not given to the compressor yet
  src,         \* rest of the piece CompressChunk is working on
  enc,         \* units the library has taken and not put out
  headerWritten, \* LZ4: the frame header was taken out of internalBuf
  compressed,  \* compressedBuffer
  file,        \* the bytes on disk, by item
  length,      \* the recorded length of each item
  rpc,         \* the reader: idle, begin, read, decode, loaded, or why it stopped
  item,        \* what it is reading
  bytesRead,
  chunk,       \* rest of readBuf the library has not consumed
  started,     \* the decoder has seen a frame header
  hold,        \* raw bytes the decoder has decoded and not put out
  out,         \* decompressedBuffer
  got          \* what was accepted, by item

writer == <<wpc, raw, src, enc, headerWritten, compressed, file, length>>
reader == <<rpc, item, bytesRead, chunk, started, hold, out, got>>
vars == <<kind, writer, reader>>

Directory == 0
Items == 0..NumTiles

Unit == [what : {"header", "raw", "end"}, item : Items, pos : Nat]
Header == [what |-> "header", item |-> 0, pos |-> 0]
Ending == [what |-> "end", item |-> 0, pos |-> 0]
Raw(i) == [p \in 1..(IF i = Directory THEN DirectorySize ELSE TileSize) |->
             [what |-> "raw", item |-> i, pos |-> p]]
Frame(units) == <<Header>> \o units \o <<Ending>>

\* The raw bytes that bytes of a stream decode to.
Decoded(bytes) ==
  LET units == FlattenSeq(bytes)
  IN  FlattenSeq([k \in DOMAIN units |-> IF units[k].what = "raw" THEN <<units[k]>> ELSE <<>>])

-----------------------------------------------------------------------------
(* The libraries.                                                            *)

Complete(units) ==
  {e.bytes : e \in {x \in Emissions(units, Len(units), Ending) : x.rest = <<>>}}

\* A call that gives input: deflate takes everything unless its output is full,
\* ZSTD_compressStream2 makes some progress, LZ4F_compressUpdate takes it all
\* (internalBuf holds what 1 MB can become, LZ4F_compressBound).
Accepts(input, taken, e) ==
  CASE kind = "Zlib" -> Len(e.bytes) < EncoderBuffer => taken = Len(input)
    [] kind = "Zstd" -> taken > 0 \/ e.bytes # <<>>
    [] kind = "LZ4"  -> taken = Len(input)

\* A call that finishes the frame puts out all it holds, unless its output is
\* full; LZ4F_compressEnd always does.
Finishes(e) ==
  \/ e.rest = <<>>
  \/ kind # "LZ4" /\ Len(e.bytes) = EncoderBuffer

OutputBound(units) == IF kind = "LZ4" THEN Len(units) ELSE EncoderBuffer

\* inflate, ZSTD_decompressStream and LZ4F_decompress stop short of the input's
\* end only when the output is full.  The last two keep the frame's last byte
\* until everything before it has been put out.
Decodes(taken, put, left) ==
  /\ put < DecoderBuffer => taken = Len(chunk)
  /\ chunk # <<>> => taken + put > 0
  /\ kind # "Zlib" /\ Ending \in ToSet(FlattenSeq(FirstOf(chunk, taken))) => left = <<>>

-----------------------------------------------------------------------------
(* Writing.                                                                  *)

Init ==
  /\ kind \in Kinds
  /\ wpc = "tiles"
  /\ raw = Raw(Directory) /\ src = <<>> /\ enc = <<>>
  /\ headerWritten = FALSE
  /\ compressed = <<>>
  /\ file = [i \in Items |-> <<>>] /\ length = [i \in Items |-> 0]
  /\ rpc = "idle" /\ item = Directory /\ bytesRead = 0
  /\ chunk = <<>> /\ started = FALSE /\ hold = <<>> /\ out = <<>>
  /\ got = [i \in Items |-> <<>>]

\* compress and ZSTD_compress make a frame; LZ4_compress_default a bare block.
TileUnits(i) == IF kind = "LZ4" THEN Raw(i) ELSE Frame(Raw(i))

\* The tiles are on disk, each compressed by one call.
WriteTiles ==
  /\ wpc = "tiles"
  /\ \E tiles \in [Items \ {Directory} -> UNION {Complete(TileUnits(i)) : i \in Items \ {Directory}}] :
       /\ \A i \in Items \ {Directory} : tiles[i] \in Complete(TileUnits(i))
       /\ file' = [i \in Items |-> IF i = Directory THEN <<>> ELSE tiles[i]]
       /\ length' = [i \in Items |-> IF i = Directory THEN 0 ELSE Len(tiles[i])]
  /\ wpc' = "begin"
  /\ UNCHANGED <<raw, src, enc, headerWritten, compressed>>

\* LZ4F_compressBegin leaves the header in internalBuf; the others hold it.
BeginCompression ==
  /\ wpc = "begin"
  /\ enc' = IF kind = "LZ4" THEN <<>> ELSE <<Header>>
  /\ wpc' = "feed"
  /\ UNCHANGED <<raw, src, headerWritten, compressed, file, length>>

MutantCompressChunk ==  (* writes the header with every piece *)
  /\ wpc = "feed" /\ raw # <<>>
  /\ \E n \in 1..Len(raw) : src' = FirstOf(raw, n) /\ raw' = After(raw, n)
  /\ compressed' = IF kind = "LZ4" THEN Append(compressed, <<Header>>) ELSE compressed
  /\ headerWritten' = (headerWritten \/ kind = "LZ4")
  /\ wpc' = "compress"
  /\ UNCHANGED <<enc, file, length>>

\* CompressChunk is called with a piece of any size: 1 MB of the bitmask, a full
\* buffer of offsets, or what is left of them.
CompressChunk ==
  /\ wpc = "feed" /\ raw # <<>>
  /\ \E n \in 1..Len(raw) : src' = FirstOf(raw, n) /\ raw' = After(raw, n)
  /\ compressed' = IF kind = "LZ4" /\ ~headerWritten
                   THEN Append(compressed, <<Header>>) ELSE compressed
  /\ headerWritten' = (headerWritten \/ kind = "LZ4")
  /\ wpc' = "compress"
  /\ UNCHANGED <<enc, file, length>>

\* What a call is given: LZ4's loop cuts the piece at 1 MB.
Input == IF kind = "LZ4" /\ Len(src) > CHUNK_SIZE THEN FirstOf(src, CHUNK_SIZE) ELSE src

\* Whether CompressChunk's loop calls the library again: Zlib's while the output
\* was filled, the other two while part of the piece is left.
ZlibCompressAgain(put)  == put = EncoderBuffer
ZstdCompressAgain(left) == left # <<>>
LZ4CompressAgain(left)  == left # <<>>

CompressAgain(put, left) ==
  CASE kind = "Zlib" -> ZlibCompressAgain(put)
    [] kind = "Zstd" -> ZstdCompressAgain(left)
    [] kind = "LZ4"  -> LZ4CompressAgain(left)

\* LZ4's loop gives the start of the piece at every turn.
MutantCompressStep ==
  /\ wpc = "compress"
  /\ \E taken \in 0..Len(Input) :
       LET units == enc \o FirstOf(Input, taken)
       IN \E e \in Emissions(units, OutputBound(units), Ending) :
            /\ Accepts(Input, taken, e)
            /\ src' = FirstOf(src, Len(src) - taken)
            /\ enc' = e.rest
            /\ compressed' = compressed \o e.bytes
            /\ wpc' = IF CompressAgain(Len(e.bytes), src') THEN "compress" ELSE "feed"
  /\ UNCHANGED <<raw, headerWritten, file, length>>

\* One turn of that loop.
CompressStep ==
  /\ wpc = "compress"
  /\ \E taken \in 0..Len(Input) :
       LET units == enc \o FirstOf(Input, taken)
       IN \E e \in Emissions(units, OutputBound(units), Ending) :
            /\ Accepts(Input, taken, e)
            /\ src' = After(src, taken)
            /\ enc' = e.rest
            /\ compressed' = compressed \o e.bytes
            /\ wpc' = IF CompressAgain(Len(e.bytes), src') THEN "compress" ELSE "feed"
  /\ UNCHANGED <<raw, headerWritten, file, length>>

\* EndCompression, up to its first call.
EndCompression ==
  /\ wpc = "feed" /\ raw = <<>>
  /\ enc' = Append(enc, Ending)
  /\ wpc' = "end"
  /\ UNCHANGED <<raw, src, headerWritten, compressed, file, length>>

\* Whether EndCompression's loop calls the library again: until Z_STREAM_END,
\* until nothing remains to be put out; LZ4 makes one call.
MutantZlibEndAgain(rest) == TRUE  (* takes Z_STREAM_END for "not yet" *)

ZlibEndAgain(rest) == rest # <<>>
ZstdEndAgain(rest) == rest # <<>>

EndAgain(rest) ==
  CASE kind = "Zlib" -> ZlibEndAgain(rest)
    [] kind = "Zstd" -> ZstdEndAgain(rest)
    [] kind = "LZ4"  -> FALSE

\* One turn of that loop.
EndStep ==
  /\ wpc = "end"
  /\ \E e \in Emissions(enc, OutputBound(enc), Ending) :
       /\ Finishes(e)
       /\ enc' = e.rest
       /\ compressed' = compressed \o e.bytes
       /\ wpc' = IF EndAgain(e.rest) THEN "end" ELSE "flush"
  /\ UNCHANGED <<raw, src, headerWritten, file, length>>

\* Flush, and the header that seals the file.  What close fails to write is
\* missing from the directory's end, and nobody is told.
Flush ==
  /\ wpc = "flush"
  /\ \E n \in 0..Len(compressed) : file' = [file EXCEPT ![Directory] = FirstOf(compressed, n)]
  /\ length' = [length EXCEPT ![Directory] = Len(compressed)]
  /\ wpc' = "sealed"
  /\ UNCHANGED <<raw, src, enc, headerWritten, compressed>>

\* No memory for the context or the output, a write that fails, a cancellation.
WriterFails ==
  /\ wpc \in {"tiles", "begin", "feed", "compress", "end", "flush"}
  /\ wpc' = "failed"
  /\ UNCHANGED <<raw, src, enc, headerWritten, compressed, file, length>>

WriterStep ==
  \/ WriteTiles \/ BeginCompression \/ CompressChunk \/ CompressStep
  \/ EndCompression \/ EndStep \/ Flush

-----------------------------------------------------------------------------
(* Reading.                                                                  *)

\* ReadMap, on a file whose header is valid.
Open ==
  /\ wpc = "sealed" /\ rpc = "idle"
  /\ rpc' = "begin"
  /\ UNCHANGED <<item, bytesRead, chunk, started, hold, out, got>>

MutantBeginDecompression ==  (* goes on counting from the item before *)
  /\ rpc = "begin"
  /\ chunk' = <<>> /\ started' = FALSE /\ hold' = <<>> /\ out' = <<>>
  /\ rpc' = "read"
  /\ UNCHANGED <<item, bytesRead, got>>

\* A fresh context and an empty output for every item.
BeginDecompression ==
  /\ rpc = "begin"
  /\ bytesRead' = 0 /\ chunk' = <<>> /\ started' = FALSE /\ hold' = <<>> /\ out' = <<>>
  /\ rpc' = "read"
  /\ UNCHANGED <<item, got>>

ToRead == IF length[item] - bytesRead < CHUNK_SIZE THEN length[item] - bytesRead ELSE CHUNK_SIZE

\* ProcessChunked reads a chunk and hands it to DecompressChunk.
ReadChunk ==
  /\ rpc = "read" /\ bytesRead < length[item]
  /\ IF bytesRead + ToRead > Len(file[item])
     THEN rpc' = "short" /\ UNCHANGED <<bytesRead, chunk>>
     ELSE /\ chunk' = SubSeq(file[item], bytesRead + 1, bytesRead + ToRead)
          /\ bytesRead' = bytesRead + ToRead
          /\ rpc' = "decode"
  /\ UNCHANGED <<item, started, hold, out, got>>

\* What follows is no frame of this library.
NoFrame == chunk # <<>> /\ ~started /\ Head(Head(chunk)) # Header

DecodeFails ==
  /\ rpc = "decode" /\ NoFrame
  /\ rpc' = "corrupt"
  /\ UNCHANGED <<item, bytesRead, chunk, started, hold, out, got>>

\* Whether DecompressChunk's loop calls the library again: Zlib's while the output
\* was filled, the other two while part of the chunk is left.
MutantZlibDecodeAgain(put) == FALSE  (* calls inflate once for a chunk *)

ZlibDecodeAgain(put)  == put = DecoderBuffer
ZstdDecodeAgain(left) == left # <<>>
LZ4DecodeAgain(left)  == left # <<>>

DecodeAgain(put, left) ==
  CASE kind = "Zlib" -> ZlibDecodeAgain(put)
    [] kind = "Zstd" -> ZstdDecodeAgain(left)
    [] kind = "LZ4"  -> LZ4DecodeAgain(left)

\* One turn of that loop.
DecodeStep ==
  /\ rpc = "decode" /\ ~NoFrame
  /\ \E taken \in 0..Len(chunk) :
       LET data == hold \o Decoded(FirstOf(chunk, taken))
           put  == IF Len(data) < DecoderBuffer THEN Len(data) ELSE DecoderBuffer
       IN /\ Decodes(taken, put, After(data, put))
          /\ chunk' = After(chunk, taken)
          /\ started' = (started \/ taken > 0)
          /\ hold' = After(data, put)
          /\ out' = out \o FirstOf(data, put)
          /\ rpc' = IF DecodeAgain(put, chunk') THEN "decode" ELSE "read"
  /\ UNCHANGED <<item, bytesRead, got>>

\* ParseDirectory and ReadTile compare the size with what the header tells.
Accept ==
  /\ rpc = "read" /\ bytesRead = length[item]
  /\ IF Len(out) # Len(Raw(item))
     THEN rpc' = "mismatch" /\ UNCHANGED <<item, got>>
     ELSE /\ got' = [got EXCEPT ![item] = out]
          /\ IF item = NumTiles
             THEN rpc' = "loaded" /\ UNCHANGED item
             ELSE rpc' = "begin" /\ item' = item + 1
  /\ UNCHANGED <<bytesRead, chunk, started, hold, out>>

\* No memory, a read that fails, a cancellation.
ReaderFails ==
  /\ rpc \in {"begin", "read", "decode"}
  /\ rpc' = "failed"
  /\ UNCHANGED <<item, bytesRead, chunk, started, hold, out, got>>

ReaderStep ==
  \/ Open \/ BeginDecompression \/ ReadChunk \/ DecodeFails \/ DecodeStep \/ Accept

-----------------------------------------------------------------------------
Write == (WriterStep \/ WriterFails) /\ UNCHANGED <<kind, reader>>
Read  == (ReaderStep \/ ReaderFails) /\ UNCHANGED <<kind, writer>>
Next  == Write \/ Read

\* Writer and reader are loops of a thread that always runs on.
Fairness ==
  /\ WF_vars(WriterStep /\ UNCHANGED <<kind, reader>>)
  /\ WF_vars(ReaderStep /\ UNCHANGED <<kind, writer>>)

Spec == Init /\ [][Next]_vars /\ Fairness

-----------------------------------------------------------------------------
(* Properties.                                                               *)

\* The counters stay within the streams they count.
TypeOK ==
  /\ kind \in Kinds
  /\ wpc \in {"tiles", "begin", "feed", "compress", "end", "flush", "sealed", "failed"}
  /\ rpc \in {"idle", "begin", "read", "decode", "loaded", "short", "corrupt", "mismatch", "failed"}
  /\ raw \in Seq(Unit) /\ src \in Seq(Unit) /\ enc \in Seq(Unit) /\ hold \in Seq(Unit) /\ out \in Seq(Unit)
  /\ headerWritten \in BOOLEAN /\ started \in BOOLEAN
  /\ compressed \in Seq(Seq(Unit)) /\ chunk \in Seq(Seq(Unit))
  /\ \A i \in Items : file[i] \in Seq(Seq(Unit)) /\ got[i] \in Seq(Unit)
  /\ item \in Items
  /\ rpc \in {"read", "decode"} => bytesRead \in 0..length[item]

\* However the directory is cut into pieces, and whatever the library holds back
\* between calls, its bytes go in once and in order, and what is flushed is one
\* frame with its header in front (CompressChunk, EndCompression).
FrameIsComplete ==
  /\ wpc \in {"feed", "compress"} =>
       (IF kind = "LZ4" /\ ~headerWritten THEN <<Header>> ELSE <<>>)
         \o FlattenSeq(compressed) \o enc \o src \o raw = <<Header>> \o Raw(Directory)
  /\ wpc \in {"flush", "sealed"} => FlattenSeq(compressed) = Frame(Raw(Directory))

\* A directory or a tile the reader accepts is the one that was written, byte by
\* byte: a lost end of the file or bytes of the tile before are never taken for
\* it (ProcessChunked, DecompressChunk, ReadTile).
AcceptedIsWhole ==
  \A i \in Items : got[i] # <<>> => got[i] = Raw(i)

\* A file that lost nothing is read to its end: no loop leaves decoded bytes in
\* the decoder.  The exception are tiles packed by LZ4, whose blocks the frame
\* decoder does not know.
WholeIsAccepted ==
  rpc \in {"short", "corrupt", "mismatch"} =>
    \/ Len(file[Directory]) < length[Directory]
    \/ kind = "LZ4" /\ item # Directory

\* Every loop around a library call ends, so writing and reading end.
StreamsEnd ==
  <>(wpc = "failed" \/ rpc \in {"loaded", "short", "corrupt", "mismatch", "failed"})

=============================================================================
