----------------------- MODULE CompressionStream_proofs ---------------------
(***************************************************************************)
(* What is proved of CompressionStream: every unit of a stream is in one   *)
(* place at a time, in order, on its way into a file and out of it.  The   *)
(* libraries are what CompressionStream assumes of them, their emissions   *)
(* any that DataLemmas allows.                                             *)
(***************************************************************************)
EXTENDS CompressionStream, DataLemmas

-----------------------------------------------------------------------------
(* The invariant.                                                           *)

(* LZ4 keeps the frame's header back until the first piece comes.           *)
Unwritten == IF kind = "LZ4" /\ ~headerWritten THEN <<Header>> ELSE <<>>

(* The directory's units, from the bytes already made to the raw bytes.     *)
InOrder ==
  Unwritten \o (FlattenSeq(compressed) \o (enc \o (src \o raw))) = <<Header>> \o Raw(Directory)

WriterTypes ==
  /\ kind \in Kinds
  /\ wpc \in {"tiles", "begin", "feed", "compress", "end", "flush", "sealed", "failed"}
  /\ raw \in Seq(Unit) /\ src \in Seq(Unit) /\ enc \in Seq(Unit)
  /\ headerWritten \in BOOLEAN /\ compressed \in Bytes(Unit)

Writing ==
  /\ wpc \in {"tiles", "begin"} =>
       /\ raw = Raw(Directory) /\ src = <<>> /\ enc = <<>>
       /\ compressed = <<>> /\ ~headerWritten
  /\ wpc \in {"feed", "compress"} => InOrder
  /\ wpc = "feed" => src = <<>>
  /\ kind = "LZ4" /\ ~headerWritten /\ wpc = "feed" => raw = Raw(Directory) /\ compressed = <<>>
  /\ kind = "LZ4" /\ wpc = "compress" => headerWritten
  /\ wpc = "end" => FlattenSeq(compressed) \o enc = Frame(Raw(Directory))
  /\ wpc \in {"flush", "sealed"} => FlattenSeq(compressed) = Frame(Raw(Directory))

(* The tiles are whole, and the directory is what close wrote of it.        *)
Files ==
  /\ DOMAIN file = Items /\ DOMAIN length = Items
  /\ \A i \in Items : file[i] \in Bytes(Unit) /\ length[i] \in Nat
  /\ wpc \notin {"tiles", "failed"} =>
       \A i \in Items \ {Directory} : length[i] = Len(file[i]) /\ FlattenSeq(file[i]) = TileUnits(i)
  /\ wpc = "sealed" =>
       /\ length[Directory] = Len(compressed)
       /\ Len(file[Directory]) <= Len(compressed)
       /\ file[Directory] = FirstOf(compressed, Len(file[Directory]))

WriterInv == WriterTypes /\ Writing /\ Files

(* The bytes of the item that the library has consumed.                     *)
Consumed == bytesRead - Len(chunk)

(* A tile packed by LZ4, to whose frame decoder a block is unknown.         *)
Foreign == kind = "LZ4" /\ item # Directory

ReaderTypes ==
  /\ rpc \in {"idle", "begin", "read", "decode", "loaded", "short", "corrupt", "mismatch", "failed"}
  /\ item \in Items /\ chunk \in Bytes(Unit) /\ hold \in Seq(Unit) /\ out \in Seq(Unit)
  /\ started \in BOOLEAN
  /\ \A i \in Items : got[i] \in Seq(Unit)

(* What is put out and what is held are what the consumed bytes decode to.  *)
Reading ==
  /\ bytesRead \in 0 .. Len(file[item]) /\ Len(chunk) <= bytesRead
  /\ chunk = SubSeq(file[item], Consumed + 1, bytesRead)
  /\ out \o hold = Decoded(FirstOf(file[item], Consumed))
  /\ ~started => Consumed = 0
  /\ kind # "Zlib" /\ Consumed = length[item] /\ ~Foreign => hold = <<>>

ReaderInv ==
  /\ ReaderTypes
  /\ rpc # "idle" => wpc = "sealed"
  /\ rpc \in {"read", "decode"} => Reading /\ bytesRead <= length[item]
  /\ rpc = "read" => chunk = <<>> /\ (kind = "Zlib" => hold = <<>>)
  /\ rpc = "decode" /\ kind # "Zlib" => chunk # <<>>
  /\ AcceptedIsWhole
  /\ WholeIsAccepted

StreamInv == WriterInv /\ ReaderInv

-----------------------------------------------------------------------------
(* Units and frames.                                                        *)

LEMMA ConstantTypes ==
  /\ Kinds \subseteq {"Zlib", "Zstd", "LZ4"}
  /\ DirectorySize \in Nat \ {0} /\ TileSize \in Nat \ {0} /\ CHUNK_SIZE \in Nat \ {0}
  /\ EncoderBuffer \in Nat \ {0} /\ DecoderBuffer \in Nat \ {0} /\ NumTiles \in Nat
  BY StreamAssumption

LEMMA UnitTypes ==
  /\ Header \in Unit /\ Ending \in Unit
  /\ <<Header>> \in Seq(Unit) /\ <<Ending>> \in Seq(Unit)
  /\ \A i \in Items : Raw(i) \in Seq(Unit) /\ Raw(i) # <<>> /\ \A k \in 1 .. Len(Raw(i)) : Raw(i)[k].what = "raw"
<1>1. Header \in Unit /\ Ending \in Unit
  BY ConstantTypes DEF Header, Ending, Unit, Items
<1>2. ASSUME NEW i \in Items
      PROVE  Raw(i) \in Seq(Unit) /\ Raw(i) # <<>> /\ \A k \in 1 .. Len(Raw(i)) : Raw(i)[k].what = "raw"
  <2> DEFINE size == IF i = Directory THEN DirectorySize ELSE TileSize
  <2>1. size \in Nat \ {0}
    BY ConstantTypes
  <2>2. Raw(i) = [p \in 1 .. size |-> [what |-> "raw", item |-> i, pos |-> p]]
    BY DEF Raw
  <2> HIDE DEF size
  <2>3. \A p \in 1 .. size : [what |-> "raw", item |-> i, pos |-> p] \in Unit
    BY <1>2, <2>1 DEF Unit
  <2>4. Raw(i) \in [1 .. size -> Unit]
    BY <2>2, <2>3
  <2>5. Raw(i) \in Seq(Unit)
    BY <2>1, <2>4, FunctionIsSeq
  <2>6. Len(Raw(i)) = size
    BY <2>1, <2>2
  <2> QED
    BY <2>1, <2>2, <2>5, <2>6
<1> QED
  BY <1>1, <1>2

LEMMA FrameTypes ==
  ASSUME NEW u \in Seq(Unit)
  PROVE  /\ Frame(u) \in Seq(Unit) /\ Frame(u) # <<>>
         /\ Frame(u)[1] = Header /\ Frame(u)[Len(Frame(u))] = Ending
<1>1. <<Header>> \in Seq(Unit) /\ <<Ending>> \in Seq(Unit)
  BY UnitTypes
<1>2. ASSUME NEW a, NEW b, <<a>> \in Seq(Unit), <<b>> \in Seq(Unit)
      PROVE  LET f == <<a>> \o u \o <<b>>
             IN  f \in Seq(Unit) /\ f # <<>> /\ f[1] = a /\ f[Len(f)] = b
  BY <1>2
<1> QED
  BY <1>1, <1>2 DEF Frame

(* The raw units among some.                                                *)
Mark(unit)    == IF unit.what = "raw" THEN <<unit>> ELSE <<>>
Marked(units) == [k \in DOMAIN units |-> Mark(units[k])]
Data(units)   == FlattenSeq(Marked(units))

LEMMA DataIs ==
  \A bytes : Decoded(bytes) = Data(FlattenSeq(bytes))
  BY DEF Data, Marked, Mark, Decoded

LEMMA MarkedType ==
  ASSUME NEW u \in Seq(Unit)
  PROVE  Marked(u) \in Seq(Seq(Unit))
<1>1. DOMAIN u = 1 .. Len(u) /\ Len(u) \in Nat
  OBVIOUS
<1>2. \A k \in 1 .. Len(u) : Mark(u[k]) \in Seq(Unit)
  BY DEF Mark
<1>3. Marked(u) \in [1 .. Len(u) -> Seq(Unit)]
  BY <1>1, <1>2 DEF Marked
<1> QED
  BY <1>1, <1>3, FunctionIsSeq

LEMMA DataConcat ==
  ASSUME NEW a \in Seq(Unit), NEW b \in Seq(Unit)
  PROVE  Data(a \o b) = Data(a) \o Data(b)
<1>1. Marked(a \o b) = Marked(a) \o Marked(b)
  <2>1. Len(Marked(a)) = Len(a) /\ Len(Marked(b)) = Len(b) /\ Len(a \o b) = Len(a) + Len(b)
    BY DEF Marked
  <2>2. Marked(a) \o Marked(b) =
          [k \in 1 .. Len(a) + Len(b) |-> IF k <= Len(a) THEN Marked(a)[k] ELSE Marked(b)[k - Len(a)]]
    <3>1. Marked(a) \in Seq(Seq(Unit)) /\ Marked(b) \in Seq(Seq(Unit))
      BY MarkedType
    <3>2. Marked(a) \o Marked(b) =
            [k \in 1 .. Len(Marked(a)) + Len(Marked(b)) |->
               IF k <= Len(Marked(a)) THEN Marked(a)[k] ELSE Marked(b)[k - Len(Marked(a))]]
      BY <3>1, ConcatIs, Zenon
    <3> QED
      BY <2>1, <3>2
  <2>3. \A k \in 1 .. Len(a) + Len(b) :
          Mark((a \o b)[k]) = IF k <= Len(a) THEN Marked(a)[k] ELSE Marked(b)[k - Len(a)]
    BY DEF Marked
  <2>4. Marked(a \o b) = [k \in 1 .. Len(a) + Len(b) |-> Mark((a \o b)[k])]
    BY DEF Marked
  <2> QED
    BY <2>2, <2>3, <2>4
<1>2. Marked(a) \in Seq(Seq(Unit)) /\ Marked(b) \in Seq(Seq(Unit))
  BY MarkedType
<1> QED
  BY <1>1, <1>2, FlattenConcat DEF Data

LEMMA DataType ==
  ASSUME NEW u \in Seq(Unit)
  PROVE  Data(u) \in Seq(Unit)
  BY MarkedType, FlattenSeqType DEF Data

LEMMA DataOfRaw ==
  ASSUME NEW i \in Items
  PROVE  Data(Raw(i)) = Raw(i) /\ Data(Frame(Raw(i))) = Raw(i)
<1> DEFINE r == Raw(i)
<1>1. r \in Seq(Unit) /\ \A k \in 1 .. Len(r) : r[k].what = "raw"
  BY UnitTypes
<1> HIDE DEF r
<1>2. Marked(r) = [k \in 1 .. Len(r) |-> <<r[k]>>]
  BY <1>1 DEF Marked, Mark
<1>3. Data(r) = r
  BY <1>1, <1>2, FlattenSingles DEF Data
<1>4. Data(<<Header>>) = <<>> /\ Data(<<Ending>>) = <<>>
  <2>1. Marked(<<Header>>) = << <<>> >> /\ Marked(<<Ending>>) = << <<>> >>
    BY DEF Marked, Mark, Header, Ending
  <2>2. <<>> \in Seq(Unit)
    OBVIOUS
  <2>3. FlattenSeq(<< <<>> >>) = <<>>
    BY <2>2, FlattenFew
  <2> QED
    BY <2>1, <2>3 DEF Data
<1>5. Data(<<Header>> \o r) = r /\ <<Header>> \o r \in Seq(Unit)
  <2>1. Data(<<Header>> \o r) = <<>> \o r
    BY <1>1, <1>3, <1>4, UnitTypes, DataConcat
  <2> QED
    BY <1>1, <2>1, UnitTypes
<1>6. Data((<<Header>> \o r) \o <<Ending>>) = r
  <2>1. Data((<<Header>> \o r) \o <<Ending>>) = r \o <<>>
    BY <1>4, <1>5, UnitTypes, DataConcat
  <2> QED
    BY <1>1, <2>1
<1> QED
  BY <1>3, <1>6 DEF r, Frame

(* The bytes of two stretches decode one after the other.                   *)
LEMMA DecodedType ==
  ASSUME NEW a \in Bytes(Unit)
  PROVE  FlattenSeq(a) \in Seq(Unit) /\ Decoded(a) \in Seq(Unit)
  BY BytesAreParts, FlattenSeqType, DataIs, DataType

LEMMA DecodedConcat ==
  ASSUME NEW a \in Bytes(Unit), NEW b \in Bytes(Unit)
  PROVE  Decoded(a \o b) = Decoded(a) \o Decoded(b)
<1>1. a \in Seq(Seq(Unit)) /\ b \in Seq(Seq(Unit))
  BY BytesAreParts
<1>2. FlattenSeq(a \o b) = FlattenSeq(a) \o FlattenSeq(b)
  BY <1>1, FlattenConcat
<1>3. Data(FlattenSeq(a) \o FlattenSeq(b)) = Data(FlattenSeq(a)) \o Data(FlattenSeq(b))
  BY DecodedType, DataConcat
<1> QED
  BY <1>2, <1>3, DataIs

LEMMA DecodedNothing == Decoded(<<>>) = <<>>
<1>1. <<>> \in Seq(Unit) /\ Marked(<<>>) = <<>>
  BY DEF Marked
<1> QED
  BY <1>1, FlattenFew, DataIs DEF Data

-----------------------------------------------------------------------------
(* The writer.                                                              *)

LEMMA TileUnitsType ==
  ASSUME NEW i \in Items
  PROVE  TileUnits(i) \in Seq(Unit) /\ Data(TileUnits(i)) = Raw(i)
  BY UnitTypes, FrameTypes, DataOfRaw DEF TileUnits

LEMMA CompleteIs ==
  ASSUME NEW u \in Seq(Unit), NEW bytes \in Complete(u)
  PROVE  bytes \in Bytes(Unit) /\ Len(bytes) \in Nat /\ FlattenSeq(bytes) = u
<1>1. PICK e \in Emissions(u, Len(u), Ending) : e.rest = <<>> /\ bytes = e.bytes
  BY DEF Complete
<1>2. Len(u) \in Nat
  OBVIOUS
<1>3. e.bytes \in Bytes(Unit) /\ FlattenSeq(e.bytes) \o e.rest = u
  BY <1>2, EmissionIs
<1>4. FlattenSeq(bytes) \in Seq(Unit) /\ bytes \in Seq(Seq(Unit))
  BY <1>1, <1>3, DecodedType, BytesAreParts
<1>5. FlattenSeq(bytes) \o <<>> = FlattenSeq(bytes)
  BY <1>4
<1> QED
  BY <1>1, <1>3, <1>4, <1>5

LEMMA InitWriter == Init => WriterInv
<1> SUFFICES ASSUME Init PROVE WriterInv
  OBVIOUS
<1>1. Directory \in Items /\ <<>> \in Seq(Unit) /\ <<>> \in Bytes(Unit)
  BY ConstantTypes, BytesType DEF Directory, Items
<1>2. WriterTypes
  BY <1>1, UnitTypes DEF Init, WriterTypes
<1>3. Writing
  BY DEF Init, Writing
<1>4. Files
  BY <1>1 DEF Init, Files
<1> QED
  BY <1>2, <1>3, <1>4 DEF WriterInv

LEMMA WriteTilesInv ==
  ASSUME WriterInv, WriteTiles, kind' = kind
  PROVE  WriterInv'
<1> USE DEF WriterInv
<1>1. PICK tiles \in [Items \ {Directory} -> UNION {Complete(TileUnits(i)) : i \in Items \ {Directory}}] :
        /\ \A i \in Items \ {Directory} : tiles[i] \in Complete(TileUnits(i))
        /\ file' = [i \in Items |-> IF i = Directory THEN <<>> ELSE tiles[i]]
        /\ length' = [i \in Items |-> IF i = Directory THEN 0 ELSE Len(tiles[i])]
  BY DEF WriteTiles
<1>2. \A i \in Items \ {Directory} :
        tiles[i] \in Bytes(Unit) /\ Len(tiles[i]) \in Nat /\ FlattenSeq(tiles[i]) = TileUnits(i)
  BY <1>1, TileUnitsType, CompleteIs
<1>3. WriterTypes'
  BY DEF WriterTypes, WriteTiles
<1>4. Writing'
  BY DEF Writing, WriteTiles
<1>5. Files'
  <2>1. \A i \in Items : file'[i] \in Bytes(Unit) /\ length'[i] \in Nat
    BY <1>1, <1>2, BytesType
  <2>2. \A i \in Items \ {Directory} : length'[i] = Len(file'[i]) /\ FlattenSeq(file'[i]) = TileUnits(i)'
    BY <1>1, <1>2 DEF TileUnits
  <2>3. wpc' = "begin"
    BY DEF WriteTiles
  <2> QED
    BY <1>1, <2>1, <2>2, <2>3 DEF Files
<1> QED
  BY <1>3, <1>4, <1>5

(* The files do not change while the directory is compressed.               *)
LEMMA FilesStay ==
  ASSUME Files, UNCHANGED <<kind, file, length>>, wpc \notin {"tiles", "failed"}, wpc' # "sealed"
  PROVE  Files'
  BY DEF Files, TileUnits

LEMMA BeginCompressionInv ==
  ASSUME WriterInv, BeginCompression, kind' = kind
  PROVE  WriterInv'
<1> USE DEF WriterInv
<1>1. WriterTypes'
  <2>1. <<>> \in Seq(Unit)
    OBVIOUS
  <2> QED
    BY <2>1, UnitTypes DEF WriterTypes, BeginCompression
<1>2. Writing'
  <2>1. /\ raw = Raw(Directory) /\ src = <<>> /\ compressed = <<>> /\ ~headerWritten
        /\ enc' = IF kind = "LZ4" THEN <<>> ELSE <<Header>>
        /\ UNCHANGED <<raw, src, headerWritten, compressed>> /\ wpc' = "feed"
    BY DEF Writing, BeginCompression
  <2>2. FlattenSeq(<<>>) = <<>>
    BY FlattenFew
  <2>3. InOrder'
    <3>1. Raw(Directory) \in Seq(Unit) /\ <<Header>> \in Seq(Unit)
      BY ConstantTypes, UnitTypes DEF Directory, Items
    <3>2. ASSUME NEW r \in Seq(Unit), NEW h \in Seq(Unit)
          PROVE  h \o (<<>> \o (<<>> \o (<<>> \o r))) = h \o r /\ <<>> \o (<<>> \o (h \o (<<>> \o r))) = h \o r
      OBVIOUS
    <3>3. FlattenSeq(compressed') = <<>>
      BY <2>1, <2>2
    <3> QED
      BY <2>1, <3>1, <3>2, <3>3 DEF InOrder, Unwritten
  <2> QED
    BY <2>1, <2>3 DEF Writing
<1>3. Files'
  BY FilesStay DEF BeginCompression
<1> QED
  BY <1>1, <1>2, <1>3

LEMMA CompressChunkInv ==
  ASSUME WriterInv, CompressChunk, kind' = kind
  PROVE  WriterInv'
<1> USE DEF WriterInv
<1>1. PICK n \in 1 .. Len(raw) : src' = FirstOf(raw, n) /\ raw' = After(raw, n)
  BY DEF CompressChunk
<1>2. raw \in Seq(Unit) /\ src = <<>> /\ compressed \in Bytes(Unit) /\ InOrder /\ enc \in Seq(Unit)
  BY DEF WriterTypes, Writing, CompressChunk
<1>3. src' \in Seq(Unit) /\ raw' \in Seq(Unit) /\ src' \o raw' = raw
  <2>1. n \in 0 .. Len(raw)
    BY <1>2
  <2> QED
    BY <1>1, <1>2, <2>1, FirstAndAfter
<1>4. <<Header>> \in Seq(Unit) /\ <<Header>> \in Seq(Unit) \ {<<>>}
  BY UnitTypes
<1>5. WriterTypes'
  BY <1>3, <1>4, BytesType DEF WriterTypes, CompressChunk
<1>6. /\ Unwritten \in Seq(Unit) /\ Unwritten' \in Seq(Unit)
      /\ FlattenSeq(compressed) \in Seq(Unit) /\ FlattenSeq(compressed') \in Seq(Unit)
  <2>1. compressed' \in Bytes(Unit)
    BY <1>5 DEF WriterTypes
  <2>2. <<>> \in Seq(Unit)
    OBVIOUS
  <2> QED
    BY <1>2, <1>4, <2>1, <2>2, DecodedType DEF Unwritten
<1>7. Unwritten \o FlattenSeq(compressed) = Unwritten' \o FlattenSeq(compressed')
  <2>1. CASE kind = "LZ4" /\ ~headerWritten
    <3>1. compressed = <<>> /\ compressed' = Append(compressed, <<Header>>) /\ headerWritten'
      BY <2>1 DEF Writing, CompressChunk
    <3>2. compressed' = << <<Header>> >>
      BY <3>1
    <3>3. FlattenSeq(compressed) = <<>> /\ FlattenSeq(compressed') = <<Header>>
      BY <1>4, <3>1, <3>2, FlattenFew
    <3>4. Unwritten = <<Header>> /\ Unwritten' = <<>>
      BY <2>1, <3>1 DEF Unwritten
    <3> QED
      BY <1>4, <3>3, <3>4
  <2>2. CASE ~(kind = "LZ4" /\ ~headerWritten)
    <3>1. compressed' = compressed /\ Unwritten' = Unwritten
      BY <2>2 DEF Unwritten, CompressChunk
    <3> QED
      BY <3>1
  <2> QED
    BY <2>1, <2>2
<1>8. InOrder'
  <2>1. enc' = enc
    BY DEF CompressChunk
  <2>2. <<>> \o raw = src' \o raw'
    BY <1>2, <1>3
  <2>3. enc \o (<<>> \o raw) \in Seq(Unit)
    BY <1>2
  <2>4. Unwritten \o (FlattenSeq(compressed) \o (enc \o (<<>> \o raw)))
        = Unwritten' \o (FlattenSeq(compressed') \o (enc \o (<<>> \o raw)))
    <3>1. /\ Regroups(Unwritten, FlattenSeq(compressed), enc \o (<<>> \o raw))
          /\ Regroups(Unwritten', FlattenSeq(compressed'), enc \o (<<>> \o raw))
      BY <1>6, <2>3, Regroup
    <3> QED
      BY <1>7, <3>1 DEF Regroups
  <2> QED
    BY <1>2, <2>1, <2>2, <2>4 DEF InOrder
<1>9. Writing'
  BY <1>8 DEF Writing, CompressChunk
<1>10. Files'
  BY FilesStay DEF CompressChunk
<1> QED
  BY <1>5, <1>9, <1>10

LEMMA InputIs ==
  ASSUME src \in Seq(Unit), NEW taken \in 0 .. Len(Input)
  PROVE  /\ FirstOf(Input, taken) = FirstOf(src, taken)
         /\ taken \in 0 .. Len(src)
         /\ kind # "LZ4" => Len(Input) = Len(src)
<1>1. CHUNK_SIZE \in Nat
  BY ConstantTypes
<1>2. CASE kind = "LZ4" /\ Len(src) > CHUNK_SIZE
  BY <1>1, <1>2 DEF Input, FirstOf
<1>3. CASE ~(kind = "LZ4" /\ Len(src) > CHUNK_SIZE)
  BY <1>3 DEF Input
<1> QED
  BY <1>2, <1>3

(* CompressChunk's loop ends when the piece is used up.                     *)
LEMMA PieceIsUsedUp ==
  ASSUME kind \in {"Zlib", "Zstd", "LZ4"}, src \in Seq(Unit), NEW taken \in 0 .. Len(Input),
         NEW e, Accepts(Input, taken, e), Len(e.bytes) \in Nat, Len(e.bytes) <= OutputBound(enc \o FirstOf(Input, taken)),
         ~CompressAgain(Len(e.bytes), After(src, taken))
  PROVE  After(src, taken) = <<>>
<1>1. CASE kind = "Zlib"
  <2>1. Len(e.bytes) < EncoderBuffer => taken = Len(Input)
    BY <1>1 DEF Accepts
  <2>2. Len(e.bytes) <= EncoderBuffer
    BY <1>1 DEF OutputBound
  <2>3. Len(e.bytes) # EncoderBuffer
    BY <1>1 DEF CompressAgain, ZlibCompressAgain
  <2>4. taken = Len(src)
    BY <1>1, <2>1, <2>2, <2>3, InputIs, ConstantTypes
  <2> QED
    BY <2>4 DEF After
<1>2. CASE kind = "Zstd"
  BY <1>2 DEF CompressAgain, ZstdCompressAgain
<1>3. CASE kind = "LZ4"
  BY <1>3 DEF CompressAgain, LZ4CompressAgain
<1> QED
  BY <1>1, <1>2, <1>3

LEMMA KindIs ==
  ASSUME WriterTypes
  PROVE  kind \in {"Zlib", "Zstd", "LZ4"}
  BY ConstantTypes DEF WriterTypes

LEMMA OutputBoundType ==
  ASSUME NEW u \in Seq(Unit)
  PROVE  OutputBound(u) \in Nat
  BY ConstantTypes DEF OutputBound

LEMMA CompressStepInv ==
  ASSUME WriterInv, CompressStep, kind' = kind
  PROVE  WriterInv'
<1> USE DEF WriterInv
<1>1. PICK taken \in 0 .. Len(Input) :
        \E e \in Emissions(enc \o FirstOf(Input, taken), OutputBound(enc \o FirstOf(Input, taken)), Ending) :
          /\ Accepts(Input, taken, e)
          /\ src' = After(src, taken)
          /\ enc' = e.rest
          /\ compressed' = compressed \o e.bytes
          /\ wpc' = IF CompressAgain(Len(e.bytes), src') THEN "compress" ELSE "feed"
  BY DEF CompressStep
<1> DEFINE first == FirstOf(Input, taken)
           units == enc \o first
<1>2. PICK e \in Emissions(units, OutputBound(units), Ending) :
          /\ Accepts(Input, taken, e)
          /\ src' = After(src, taken)
          /\ enc' = e.rest
          /\ compressed' = compressed \o e.bytes
          /\ wpc' = IF CompressAgain(Len(e.bytes), src') THEN "compress" ELSE "feed"
  BY <1>1
<1>3. /\ raw \in Seq(Unit) /\ src \in Seq(Unit) /\ enc \in Seq(Unit) /\ compressed \in Bytes(Unit)
      /\ kind \in {"Zlib", "Zstd", "LZ4"} /\ InOrder /\ (kind = "LZ4" => headerWritten)
      /\ UNCHANGED <<raw, headerWritten, file, length>>
  BY KindIs DEF WriterTypes, Writing, CompressStep
<1>4. taken \in 0 .. Len(src) /\ first = FirstOf(src, taken)
  BY <1>3, InputIs
<1>5. first \in Seq(Unit) /\ src' \in Seq(Unit) /\ first \o src' = src
  BY <1>2, <1>3, <1>4, FirstAndAfter
<1>6. units \in Seq(Unit)
  BY <1>3, <1>5
<1> HIDE DEF first, units
<1>7. /\ e.bytes \in Bytes(Unit) /\ Len(e.bytes) <= OutputBound(units) /\ Len(e.bytes) \in Nat
      /\ enc' \in Seq(Unit) /\ FlattenSeq(e.bytes) \o enc' = units
  <2>1. OutputBound(units) \in Nat
    BY <1>6, OutputBoundType
  <2>2. /\ e.bytes \in Bytes(Unit) /\ Len(e.bytes) <= OutputBound(units) /\ e.rest \in Seq(Unit)
        /\ FlattenSeq(e.bytes) \o e.rest = units
    BY <1>6, <2>1, EmissionIs
  <2> QED
    BY <1>2, <2>2, BytesAreParts
<1>8. WriterTypes'
  <2>1. compressed' \in Bytes(Unit)
    BY <1>2, <1>3, <1>7, BytesType
  <2>2. wpc' \in {"feed", "compress"}
    BY <1>2
  <2> QED
    BY <1>3, <1>5, <1>7, <2>1, <2>2 DEF WriterTypes
<1>9. InOrder'
  <2>1. FlattenSeq(compressed') = FlattenSeq(compressed) \o FlattenSeq(e.bytes)
    <3>1. compressed \in Seq(Seq(Unit)) /\ e.bytes \in Seq(Seq(Unit))
      BY <1>3, <1>7, BytesAreParts
    <3>2. FlattenSeq(compressed \o e.bytes) = FlattenSeq(compressed) \o FlattenSeq(e.bytes)
      BY <3>1, FlattenConcat
    <3> QED
      BY <1>2, <3>2
  <2>2. FlattenSeq(compressed) \in Seq(Unit) /\ FlattenSeq(e.bytes) \in Seq(Unit)
    BY <1>3, <1>7, DecodedType
  <2>3. Passes(FlattenSeq(e.bytes), enc', enc, first)
    BY <1>7 DEF Passes, units
  <2>4. src' \o raw \in Seq(Unit)
    BY <1>3, <1>5
  <2>5. Kept(FlattenSeq(compressed), FlattenSeq(e.bytes), enc', enc, first, src' \o raw)
    BY <1>3, <1>5, <1>7, <2>2, <2>3, <2>4, OrderIsKept
  <2>6. first \o (src' \o raw) = src \o raw
    <3>1. Regroups(first, src', raw)
      BY <1>3, <1>5, Regroup
    <3> QED
      BY <1>5, <3>1 DEF Regroups
  <2>7. raw' = raw /\ Unwritten' = Unwritten
    BY <1>3 DEF Unwritten
  <2> QED
    BY <1>3, <2>1, <2>5, <2>6, <2>7 DEF InOrder, Kept
<1>10. wpc' = "feed" => src' = <<>>
  <2> SUFFICES ASSUME wpc' = "feed" PROVE After(src, taken) = <<>>
    BY <1>2
  <2>1. ~CompressAgain(Len(e.bytes), After(src, taken))
    BY <1>2
  <2>2. Len(e.bytes) <= OutputBound(enc \o FirstOf(Input, taken))
    BY <1>7 DEF units, first
  <2> QED
    BY <1>2, <1>3, <1>7, <2>1, <2>2, PieceIsUsedUp
<1>11. Writing'
  BY <1>2, <1>3, <1>9, <1>10 DEF Writing
<1>12. Files'
  <2>1. wpc = "compress" /\ wpc' # "sealed"
    BY <1>2 DEF CompressStep
  <2> QED
    BY <1>3, <2>1, FilesStay
<1> QED
  BY <1>8, <1>11, <1>12

LEMMA EndCompressionInv ==
  ASSUME WriterInv, EndCompression, kind' = kind
  PROVE  WriterInv'
<1> USE DEF WriterInv
<1>1. /\ InOrder /\ src = <<>> /\ raw = <<>> /\ enc' = Append(enc, Ending) /\ wpc' = "end"
      /\ UNCHANGED <<raw, src, headerWritten, compressed, file, length>>
      /\ (kind = "LZ4" => headerWritten)
  <2>1. kind = "LZ4" /\ ~headerWritten => raw = Raw(Directory)
    BY DEF Writing, EndCompression
  <2>2. Raw(Directory) # <<>>
    BY ConstantTypes, UnitTypes DEF Directory, Items
  <2> QED
    BY <2>1, <2>2 DEF Writing, WriterTypes, EndCompression
<1>2. enc \in Seq(Unit) /\ Ending \in Unit /\ FlattenSeq(compressed) \in Seq(Unit)
  BY UnitTypes, DecodedType DEF WriterTypes
<1>3. WriterTypes'
  BY <1>1, <1>2 DEF WriterTypes
<1>4. FlattenSeq(compressed) \o enc' = Frame(Raw(Directory))
  <2>1. FlattenSeq(compressed) \o enc = <<Header>> \o Raw(Directory)
    <3>1. Unwritten = <<>>
      BY <1>1 DEF Unwritten, WriterTypes
    <3>2. ASSUME NEW a \in Seq(Unit), NEW b \in Seq(Unit)
          PROVE  <<>> \o (a \o (b \o (<<>> \o <<>>))) = a \o b
      OBVIOUS
    <3> QED
      BY <1>1, <1>2, <3>1, <3>2 DEF InOrder
  <2>2. enc' = enc \o <<Ending>> /\ <<Ending>> \in Seq(Unit)
    BY <1>1, <1>2
  <2>3. FlattenSeq(compressed) \o (enc \o <<Ending>>) = (FlattenSeq(compressed) \o enc) \o <<Ending>>
    BY <1>2, <2>2, Associative
  <2> QED
    BY <2>1, <2>2, <2>3 DEF Frame
<1>5. Writing'
  BY <1>1, <1>4 DEF Writing
<1>6. Files'
  BY <1>1, FilesStay DEF EndCompression
<1> QED
  BY <1>3, <1>5, <1>6

LEMMA EndStepInv ==
  ASSUME WriterInv, EndStep, kind' = kind
  PROVE  WriterInv'
<1> USE DEF WriterInv
<1>1. PICK e \in Emissions(enc, OutputBound(enc), Ending) :
        /\ Finishes(e)
        /\ enc' = e.rest
        /\ compressed' = compressed \o e.bytes
        /\ wpc' = IF EndAgain(e.rest) THEN "end" ELSE "flush"
  BY DEF EndStep
<1>2. /\ enc \in Seq(Unit) /\ compressed \in Bytes(Unit) /\ kind \in {"Zlib", "Zstd", "LZ4"}
      /\ FlattenSeq(compressed) \o enc = Frame(Raw(Directory))
      /\ UNCHANGED <<raw, src, headerWritten, file, length>>
  BY KindIs DEF WriterTypes, Writing, EndStep
<1>3. /\ e.bytes \in Bytes(Unit) /\ e.rest \in Seq(Unit)
      /\ FlattenSeq(e.bytes) \o e.rest = enc
  BY <1>2, OutputBoundType, EmissionIs
<1>4. WriterTypes'
  <2>1. compressed' \in Bytes(Unit)
    BY <1>1, <1>2, <1>3, BytesType
  <2>2. wpc' \in {"end", "flush"}
    BY <1>1
  <2> QED
    BY <1>1, <1>2, <1>3, <2>1, <2>2 DEF WriterTypes
<1>5. FlattenSeq(compressed') \o enc' = Frame(Raw(Directory))
  <2>1. FlattenSeq(compressed') = FlattenSeq(compressed) \o FlattenSeq(e.bytes)
    BY <1>1, <1>2, <1>3, BytesAreParts, FlattenConcat
  <2>2. FlattenSeq(compressed) \in Seq(Unit) /\ FlattenSeq(e.bytes) \in Seq(Unit)
    BY <1>2, <1>3, DecodedType
  <2>3. Regroups(FlattenSeq(compressed), FlattenSeq(e.bytes), e.rest)
    BY <1>3, <2>2, Regroup
  <2> QED
    BY <1>1, <1>2, <1>3, <2>1, <2>3 DEF Regroups
<1>6. wpc' = "flush" => FlattenSeq(compressed') = Frame(Raw(Directory))
  <2> SUFFICES ASSUME wpc' = "flush" PROVE e.rest = <<>>
    <3>1. FlattenSeq(compressed') \in Seq(Unit)
      BY <1>4, DecodedType DEF WriterTypes
    <3>2. FlattenSeq(compressed') \o <<>> = FlattenSeq(compressed')
      BY <3>1
    <3> QED
      BY <1>1, <1>5, <3>2
  <2>1. ~EndAgain(e.rest)
    BY <1>1
  <2>2. CASE kind = "LZ4"
    BY <1>1, <2>2 DEF Finishes
  <2>3. CASE kind # "LZ4"
    BY <1>2, <2>1, <2>3 DEF EndAgain, ZlibEndAgain, ZstdEndAgain
  <2> QED
    BY <2>2, <2>3
<1>7. Writing'
  BY <1>1, <1>5, <1>6 DEF Writing
<1>8. Files'
  <2>1. wpc = "end" /\ wpc' # "sealed"
    BY <1>1 DEF EndStep
  <2> QED
    BY <1>2, <2>1, FilesStay
<1> QED
  BY <1>4, <1>7, <1>8

LEMMA FlushInv ==
  ASSUME WriterInv, Flush, kind' = kind
  PROVE  WriterInv'
<1> USE DEF WriterInv
<1>1. PICK n \in 0 .. Len(compressed) : file' = [file EXCEPT ![Directory] = FirstOf(compressed, n)]
  BY DEF Flush
<1>2. compressed \in Bytes(Unit) /\ compressed \in Seq(Seq(Unit))
  BY BytesAreParts DEF WriterTypes
<1>3. FirstOf(compressed, n) \in Bytes(Unit) /\ Len(FirstOf(compressed, n)) = n /\ Len(compressed) \in Nat
  BY <1>2, BytesType, FirstAndAfter
<1>4. WriterTypes'
  BY DEF WriterTypes, Flush
<1>5. Writing'
  BY DEF Writing, Flush
<1>6. Files'
  <2> DEFINE end == FirstOf(compressed, n)
  <2>1. end \in Bytes(Unit) /\ Len(end) = n /\ end = FirstOf(compressed, Len(end))
    BY <1>3
  <2> HIDE DEF end
  <2>2. file' = [file EXCEPT ![Directory] = end] /\ length' = [length EXCEPT ![Directory] = Len(compressed)]
    BY <1>1 DEF Flush, end
  <2>3. Directory \in Items
    BY ConstantTypes DEF Directory, Items
  <2>4. wpc = "flush" /\ wpc' = "sealed" /\ compressed' = compressed
    BY DEF Flush
  <2>5. /\ DOMAIN file = Items /\ DOMAIN length = Items
        /\ \A i \in Items : file[i] \in Bytes(Unit) /\ length[i] \in Nat
        /\ \A i \in Items \ {Directory} : length[i] = Len(file[i]) /\ FlattenSeq(file[i]) = TileUnits(i)
    BY <2>4 DEF Files
  <2>6. \A i \in Items : file'[i] \in Bytes(Unit) /\ length'[i] \in Nat
    BY <1>3, <2>1, <2>2, <2>5
  <2>7. \A i \in Items \ {Directory} : length'[i] = Len(file'[i]) /\ FlattenSeq(file'[i]) = TileUnits(i)'
    BY <2>2, <2>5 DEF TileUnits
  <2>8. length'[Directory] = Len(compressed) /\ file'[Directory] = end
    BY <2>2, <2>3, <2>5
  <2>9. Len(end) <= Len(compressed)
    BY <1>3, <2>1
  <2> QED
    BY <2>1, <2>2, <2>4, <2>5, <2>6, <2>7, <2>8, <2>9 DEF Files
<1> QED
  BY <1>4, <1>5, <1>6

LEMMA WriterFailsInv ==
  ASSUME WriterInv, WriterFails, kind' = kind
  PROVE  WriterInv'
<1>1. WriterTypes' /\ Writing'
  BY DEF WriterInv, WriterTypes, Writing, WriterFails
<1>2. Files'
  BY DEF WriterInv, Files, WriterFails
<1> QED
  BY <1>1, <1>2 DEF WriterInv

-----------------------------------------------------------------------------
(* The reader.                                                              *)

Units(i) == IF i = Directory THEN Frame(Raw(Directory)) ELSE TileUnits(i)

(* On disk is the stream of an item, or the beginning of the directory's.   *)
LEMMA FileIs ==
  ASSUME WriterInv, wpc = "sealed", NEW i \in Items
  PROVE  /\ file[i] \in Bytes(Unit) /\ length[i] \in Nat /\ Len(file[i]) <= length[i]
         /\ i # Directory => Len(file[i]) = length[i]
         /\ \E rest \in Bytes(Unit) :
              /\ FlattenSeq(file[i] \o rest) = Units(i)
              /\ Len(file[i]) = length[i] => rest = <<>>
<1>1. file[i] \in Bytes(Unit) /\ length[i] \in Nat
  BY DEF WriterInv, Files
<1>2. CASE i # Directory
  <2>1. length[i] = Len(file[i]) /\ FlattenSeq(file[i]) = TileUnits(i)
    BY <1>2 DEF WriterInv, Files
  <2>2. <<>> \in Bytes(Unit) /\ file[i] \o <<>> = file[i]
    BY <1>1, BytesAreParts, BytesType
  <2>3. FlattenSeq(file[i] \o <<>>) = Units(i)
    BY <1>2, <2>1, <2>2 DEF Units
  <2>4. Len(file[i]) <= length[i]
    BY <1>1, <2>1
  <2> QED
    BY <1>1, <1>2, <2>1, <2>2, <2>3, <2>4
<1>3. CASE i = Directory
  <2> DEFINE n == Len(file[i])
             rest == After(compressed, n)
  <2>1. /\ length[i] = Len(compressed) /\ n <= Len(compressed) /\ file[i] = FirstOf(compressed, n)
        /\ FlattenSeq(compressed) = Frame(Raw(Directory)) /\ compressed \in Bytes(Unit)
    BY <1>3 DEF WriterInv, WriterTypes, Writing, Files
  <2>2. compressed \in Seq(Seq(Unit)) /\ n \in Nat
    BY <1>1, <2>1, BytesAreParts
  <2>3. n \in 0 .. Len(compressed)
    BY <2>1, <2>2
  <2>4. FirstOf(compressed, n) \o rest = compressed /\ rest \in Bytes(Unit)
    BY <2>1, <2>2, <2>3, FirstAndAfter, BytesType
  <2>5. n = Len(compressed) => rest = <<>>
    BY <2>2 DEF After
  <2> HIDE DEF rest
  <2> QED
    BY <1>1, <1>3, <2>1, <2>4, <2>5 DEF Units
<1> QED
  BY <1>2, <1>3

LEMMA WholeFileIs ==
  ASSUME WriterInv, wpc = "sealed", NEW i \in Items, Len(file[i]) = length[i]
  PROVE  FlattenSeq(file[i]) = Units(i)
<1>1. PICK rest \in Bytes(Unit) : FlattenSeq(file[i] \o rest) = Units(i) /\ rest = <<>>
  BY FileIs
<1>2. file[i] \in Seq(Seq(Unit))
  BY FileIs, BytesAreParts
<1>3. file[i] \o <<>> = file[i]
  BY <1>2
<1> QED
  BY <1>1, <1>3

LEMMA UnitsAre ==
  ASSUME NEW i \in Items
  PROVE  /\ Units(i) \in Seq(Unit) /\ Data(Units(i)) = Raw(i)
         /\ ~(kind = "LZ4" /\ i # Directory) => Units(i) = Frame(Raw(i))
<1>1. Directory \in Items
  BY ConstantTypes DEF Directory, Items
<1> QED
  BY <1>1, UnitTypes, FrameTypes, DataOfRaw, TileUnitsType DEF Units, TileUnits

(* A file begins with a frame's header,                                     *)
LEMMA FileBegins ==
  ASSUME WriterInv, wpc = "sealed", NEW i \in Items, file[i] # <<>>, ~(kind = "LZ4" /\ i # Directory)
  PROVE  file[i][1][1] = Header
<1>1. PICK rest \in Bytes(Unit) : FlattenSeq(file[i] \o rest) = Units(i)
  BY FileIs
<1>2. file[i] \in Bytes(Unit)
  BY FileIs
<1>3. ASSUME NEW a \in Seq(Seq(Unit)), NEW b \in Seq(Seq(Unit)), a # <<>>
      PROVE  a \o b # <<>> /\ (a \o b)[1] = a[1]
  BY <1>3
<1>4. file[i] \o rest # <<>> /\ (file[i] \o rest)[1] = file[i][1]
  BY <1>2, <1>3, BytesAreParts
<1>5. file[i] \o rest \in Bytes(Unit)
  BY <1>2, BytesType
<1>6. FlattenSeq(file[i] \o rest)[1] = (file[i] \o rest)[1][1]
  BY <1>4, <1>5, FirstUnit
<1>7. Units(i)[1] = Header
  BY UnitsAre, UnitTypes, FrameTypes
<1> QED
  BY <1>1, <1>4, <1>6, <1>7

(* and a whole file ends with the frame's end.                              *)
LEMMA FileEnds ==
  ASSUME WriterInv, wpc = "sealed", NEW i \in Items, Len(file[i]) = length[i],
         ~(kind = "LZ4" /\ i # Directory),
         NEW a \in Bytes(Unit), NEW b \in Bytes(Unit), a \o b = file[i], b # <<>>
  PROVE  Ending \in ToSet(FlattenSeq(b))
<1>1. FlattenSeq(a \o b) = Frame(Raw(i))
  BY WholeFileIs, UnitsAre
<1>2. Frame(Raw(i))[Len(Frame(Raw(i)))] = Ending
  BY UnitTypes, FrameTypes
<1> QED
  BY <1>1, <1>2, LastUnit

LEMMA InitReader == Init => ReaderInv
<1> SUFFICES ASSUME Init PROVE ReaderInv
  OBVIOUS
<1>1. Directory \in Items /\ <<>> \in Seq(Unit) /\ <<>> \in Bytes(Unit)
  BY ConstantTypes, BytesType DEF Directory, Items
<1> QED
  BY <1>1 DEF Init, ReaderInv, ReaderTypes, AcceptedIsWhole, WholeIsAccepted

(* While the file is written, nothing is read.                              *)
LEMMA WriteInv ==
  ASSUME StreamInv, Write
  PROVE  StreamInv'
<1>1. WriterInv /\ kind' = kind /\ UNCHANGED reader
  BY DEF StreamInv, Write
<1>2. wpc # "sealed"
  BY DEF Write, WriterStep, WriterFails, WriteTiles, BeginCompression, CompressChunk, CompressStep,
         EndCompression, EndStep, Flush
<1>3. WriterInv'
  <2>1. CASE WriteTiles
    BY <1>1, <2>1, WriteTilesInv
  <2>2. CASE BeginCompression
    BY <1>1, <2>2, BeginCompressionInv
  <2>3. CASE CompressChunk
    BY <1>1, <2>3, CompressChunkInv
  <2>4. CASE CompressStep
    BY <1>1, <2>4, CompressStepInv
  <2>5. CASE EndCompression
    BY <1>1, <2>5, EndCompressionInv
  <2>6. CASE EndStep
    BY <1>1, <2>6, EndStepInv
  <2>7. CASE Flush
    BY <1>1, <2>7, FlushInv
  <2>8. CASE WriterFails
    BY <1>1, <2>8, WriterFailsInv
  <2> QED
    BY <2>1, <2>2, <2>3, <2>4, <2>5, <2>6, <2>7, <2>8 DEF Write, WriterStep
<1>4. ReaderInv'
  <2>1. rpc = "idle" /\ ReaderTypes /\ AcceptedIsWhole
    BY <1>2 DEF StreamInv, ReaderInv
  <2> QED
    BY <1>1, <2>1 DEF reader, ReaderInv, ReaderTypes, AcceptedIsWhole, WholeIsAccepted
<1> QED
  BY <1>3, <1>4 DEF StreamInv

LEMMA WriterStays ==
  ASSUME WriterInv, UNCHANGED <<kind, writer>>
  PROVE  WriterInv'
  BY DEF writer, WriterInv, WriterTypes, Writing, Files, InOrder, Unwritten, TileUnits

(* What a step of the reader starts from.                                   *)
LEMMA ReaderStarts ==
  ASSUME StreamInv, UNCHANGED <<kind, writer>>, rpc # "idle"
  PROVE  /\ kind \in {"Zlib", "Zstd", "LZ4"} /\ wpc = "sealed" /\ wpc' = "sealed"
         /\ file' = file /\ length' = length /\ kind' = kind
         /\ item \in Items /\ chunk \in Bytes(Unit) /\ hold \in Seq(Unit) /\ out \in Seq(Unit)
         /\ file[item] \in Bytes(Unit) /\ file[item] \in Seq(Seq(Unit)) /\ length[item] \in Nat
         /\ Len(file[item]) <= length[item]
         /\ item # Directory => Len(file[item]) = length[item]
<1>1. kind \in {"Zlib", "Zstd", "LZ4"}
  BY KindIs DEF StreamInv, WriterInv
<1>2. wpc = "sealed" /\ item \in Items /\ chunk \in Bytes(Unit) /\ hold \in Seq(Unit) /\ out \in Seq(Unit)
  BY DEF StreamInv, ReaderInv, ReaderTypes
<1> QED
  BY <1>1, <1>2, FileIs, BytesAreParts DEF StreamInv, writer

LEMMA OpenInv ==
  ASSUME StreamInv, Open, UNCHANGED <<kind, writer>>
  PROVE  ReaderInv'
  BY DEF Open, writer, StreamInv, ReaderInv, ReaderTypes, AcceptedIsWhole, WholeIsAccepted

LEMMA BeginDecompressionInv ==
  ASSUME StreamInv, BeginDecompression, UNCHANGED <<kind, writer>>
  PROVE  ReaderInv'
<1>1. /\ rpc = "begin" /\ rpc' = "read" /\ UNCHANGED <<item, got>>
      /\ bytesRead' = 0 /\ chunk' = <<>> /\ started' = FALSE /\ hold' = <<>> /\ out' = <<>>
  BY DEF BeginDecompression
<1>2. /\ wpc' = "sealed" /\ file' = file /\ length' = length
      /\ file[item] \in Seq(Seq(Unit)) /\ length[item] \in Nat /\ ReaderTypes /\ AcceptedIsWhole
  BY <1>1, ReaderStarts DEF StreamInv, ReaderInv
<1>3. <<>> \in Seq(Unit) /\ <<>> \in Bytes(Unit)
  BY BytesType
<1>4. ReaderTypes'
  BY <1>1, <1>2, <1>3 DEF ReaderTypes
<1>5. Reading' /\ bytesRead' <= length'[item']
  <2>1. Consumed' = 0
    <3>1. Len(chunk') = 0
      BY <1>1
    <3>2. bytesRead' = 0
      BY <1>1
    <3> QED
      BY <3>1, <3>2 DEF Consumed
  <2>2. SubSeq(file[item], 1, 0) = <<>> /\ FirstOf(file[item], 0) = <<>>
    BY <1>2 DEF FirstOf
  <2>3. out' \o hold' = <<>>
    BY <1>1
  <2> QED
    BY <1>1, <1>2, <2>1, <2>2, <2>3, DecodedNothing DEF Reading
<1>6. AcceptedIsWhole' /\ WholeIsAccepted'
  BY <1>1, <1>2 DEF AcceptedIsWhole, WholeIsAccepted
<1> QED
  BY <1>1, <1>2, <1>4, <1>5, <1>6 DEF ReaderInv

LEMMA ReadChunkInv ==
  ASSUME StreamInv, ReadChunk, UNCHANGED <<kind, writer>>
  PROVE  ReaderInv'
<1>1. /\ rpc = "read" /\ bytesRead < length[item] /\ UNCHANGED <<item, started, hold, out, got>>
      /\ ReaderTypes /\ Reading /\ bytesRead <= length[item] /\ chunk = <<>> /\ AcceptedIsWhole
  BY DEF ReadChunk, StreamInv, ReaderInv
<1>2. /\ wpc' = "sealed" /\ file' = file /\ length' = length /\ kind' = kind
      /\ file[item] \in Bytes(Unit) /\ file[item] \in Seq(Seq(Unit)) /\ length[item] \in Nat
      /\ Len(file[item]) <= length[item] /\ item \in Items
      /\ item # Directory => Len(file[item]) = length[item]
  BY <1>1, ReaderStarts
<1>3. /\ bytesRead \in Nat /\ bytesRead <= Len(file[item]) /\ Len(file[item]) \in Nat
      /\ Consumed = bytesRead
  BY <1>1, <1>2 DEF Reading, Consumed
<1>4. ToRead \in Nat \ {0} /\ bytesRead + ToRead <= length[item]
  BY <1>1, <1>2, <1>3, ConstantTypes DEF ToRead
<1>5. AcceptedIsWhole'
  BY <1>1 DEF AcceptedIsWhole
<1>6. CASE bytesRead + ToRead > Len(file[item])
  <2>1. rpc' = "short" /\ UNCHANGED <<bytesRead, chunk>>
    BY <1>6 DEF ReadChunk
  <2>2. WholeIsAccepted'
    <3>1. Len(file[item]) < length[item]
      BY <1>2, <1>3, <1>4, <1>6
    <3>2. item = Directory
      BY <1>2, <3>1
    <3> QED
      BY <1>2, <3>1, <3>2 DEF WholeIsAccepted
  <2> QED
    BY <1>1, <1>2, <1>5, <2>1, <2>2 DEF ReaderInv, ReaderTypes
<1>7. CASE ~(bytesRead + ToRead > Len(file[item]))
  <2>1. /\ rpc' = "decode" /\ bytesRead' = bytesRead + ToRead
        /\ chunk' = SubSeq(file[item], bytesRead + 1, bytesRead + ToRead)
    BY <1>7 DEF ReadChunk
  <2>2. bytesRead' \in 0 .. Len(file[item]) /\ bytesRead' >= bytesRead /\ bytesRead' # bytesRead
    BY <1>3, <1>4, <1>7, <2>1
  <2>3. chunk' \in Bytes(Unit) /\ Len(chunk') = ToRead
    <3>1. bytesRead \in 0 .. Len(file[item]) /\ bytesRead' \in bytesRead .. Len(file[item])
      BY <1>3, <2>2
    <3>2. Moves(file[item], bytesRead, bytesRead', 0)
      <4>1. 0 \in 0 .. bytesRead' - bytesRead
        <5>1. bytesRead' - bytesRead = ToRead
          BY <1>3, <1>4, <2>1
        <5> QED
          BY <1>4, <5>1
      <4> QED
        BY <1>2, <3>1, <4>1, WindowMoves
    <3>3. bytesRead + 1 \in 1 .. Len(file[item]) + 1
      BY <3>1
    <3>4. SubSeq(file[item], bytesRead + 1, bytesRead') \in Bytes(Unit)
      BY <1>2, <2>2, <3>3, WindowType
    <3>5. bytesRead' - bytesRead = ToRead
      BY <1>3, <1>4, <2>1
    <3> QED
      BY <2>1, <3>2, <3>4, <3>5 DEF Moves
  <2>4. Consumed' = bytesRead
    BY <1>3, <1>4, <2>1, <2>3 DEF Consumed
  <2>5. Reading'
    <3>1. out \o hold = Decoded(FirstOf(file[item], bytesRead)) /\ (~started => bytesRead = 0)
      BY <1>1, <1>3 DEF Reading
    <3>2. Len(chunk') <= bytesRead'
      BY <1>3, <1>4, <2>1, <2>3
    <3>3. Consumed' # length'[item']
      BY <1>1, <1>2, <1>3, <2>4
    <3> QED
      BY <1>1, <1>2, <2>1, <2>2, <2>4, <3>1, <3>2, <3>3 DEF Reading
  <2>6. ReaderTypes'
    BY <1>1, <2>1, <2>3 DEF ReaderTypes
  <2>7. chunk' # <<>> /\ WholeIsAccepted'
    BY <1>4, <2>1, <2>3 DEF WholeIsAccepted
  <2> QED
    BY <1>1, <1>2, <1>4, <1>5, <2>1, <2>5, <2>6, <2>7 DEF ReaderInv
<1> QED
  BY <1>6, <1>7

LEMMA DecodeFailsInv ==
  ASSUME StreamInv, DecodeFails, UNCHANGED <<kind, writer>>
  PROVE  ReaderInv'
<1>1. /\ rpc = "decode" /\ NoFrame /\ rpc' = "corrupt"
      /\ UNCHANGED <<item, bytesRead, chunk, started, hold, out, got>>
      /\ ReaderTypes /\ Reading /\ AcceptedIsWhole
  BY DEF DecodeFails, StreamInv, ReaderInv
<1>2. /\ wpc = "sealed" /\ wpc' = "sealed" /\ file' = file /\ length' = length /\ kind' = kind
      /\ file[item] \in Bytes(Unit) /\ file[item] \in Seq(Seq(Unit)) /\ item \in Items
      /\ chunk \in Bytes(Unit)
  BY <1>1, ReaderStarts
<1>3. kind = "LZ4" /\ item # Directory
  <2> SUFFICES ASSUME ~(kind = "LZ4" /\ item # Directory) PROVE FALSE
    OBVIOUS
  <2>1. chunk # <<>> /\ Head(Head(chunk)) # Header /\ Consumed = 0 /\ ~started
    BY <1>1 DEF NoFrame, Reading
  <2>2. chunk = SubSeq(file[item], 1, bytesRead) /\ bytesRead \in 0 .. Len(file[item])
    BY <1>1, <2>1 DEF Reading
  <2>3. file[item] # <<>> /\ chunk[1] = file[item][1]
    BY <1>2, <2>1, <2>2
  <2>4. chunk[1] \in Seq(Unit) \ {<<>>}
    BY <1>2, <2>1, BytesAreParts
  <2>5. Head(Head(chunk)) = chunk[1][1]
    BY <1>2, <2>1, <2>4, BytesAreParts
  <2>6. file[item][1][1] = Header
    BY <1>2, <2>3, FileBegins DEF StreamInv
  <2> QED
    BY <2>1, <2>3, <2>5, <2>6
<1> QED
  BY <1>1, <1>2, <1>3 DEF ReaderInv, ReaderTypes, AcceptedIsWhole, WholeIsAccepted

LEMMA AcceptInv ==
  ASSUME StreamInv, Accept, UNCHANGED <<kind, writer>>
  PROVE  ReaderInv'
<1>1. /\ rpc = "read" /\ bytesRead = length[item] /\ UNCHANGED <<bytesRead, chunk, started, hold, out>>
      /\ ReaderTypes /\ Reading /\ chunk = <<>> /\ (kind = "Zlib" => hold = <<>>) /\ AcceptedIsWhole
  BY DEF Accept, StreamInv, ReaderInv
<1>2. /\ wpc = "sealed" /\ wpc' = "sealed" /\ file' = file /\ length' = length /\ kind' = kind
      /\ file[item] \in Bytes(Unit) /\ file[item] \in Seq(Seq(Unit)) /\ item \in Items
      /\ Len(file[item]) <= length[item] /\ length[item] \in Nat
      /\ out \in Seq(Unit) /\ hold \in Seq(Unit)
  BY <1>1, ReaderStarts
<1>3. Len(file[item]) = length[item] /\ Consumed = length[item]
  BY <1>1, <1>2 DEF Reading, Consumed
<1>4. out \o hold = Raw(item)
  <2>1. FirstOf(file[item], Consumed) = file[item]
    BY <1>2, <1>3 DEF FirstOf
  <2>2. Decoded(file[item]) = Data(Units(item))
    BY <1>2, <1>3, WholeFileIs, DataIs DEF StreamInv
  <2> QED
    BY <1>1, <1>2, <2>1, <2>2, UnitsAre DEF Reading
<1>5. CASE Len(out) # Len(Raw(item))
  <2>1. rpc' = "mismatch" /\ UNCHANGED <<item, got>>
    BY <1>5 DEF Accept
  <2>2. hold # <<>>
    <3>1. out \o <<>> = out
      BY <1>2
    <3> QED
      BY <1>4, <1>5, <3>1
  <2>3. kind = "LZ4" /\ item # Directory
    BY <1>1, <1>3, <2>2 DEF Reading, Foreign
  <2> QED
    BY <1>1, <1>2, <2>1, <2>3 DEF ReaderInv, ReaderTypes, AcceptedIsWhole, WholeIsAccepted
<1>6. CASE Len(out) = Len(Raw(item))
  <2>1. got' = [got EXCEPT ![item] = out] /\ rpc' \in {"loaded", "begin"} /\ item' \in Items
    <3>1. item # NumTiles => item + 1 \in Items
      BY <1>2, ConstantTypes DEF Items
    <3> QED
      BY <1>2, <1>6, <3>1 DEF Accept
  <2>2. out = Raw(item)
    <3>1. hold = <<>>
      BY <1>2, <1>4, <1>6, BeginningIs
    <3>2. out \o <<>> = out
      BY <1>2
    <3> QED
      BY <1>4, <3>1, <3>2
  <2>3. \A i \in Items : got'[i] \in Seq(Unit) /\ (got'[i] # <<>> => got'[i] = Raw(i))
    BY <1>1, <1>2, <2>1, <2>2 DEF ReaderTypes, AcceptedIsWhole
  <2>4. ReaderTypes'
    BY <1>1, <2>1, <2>3 DEF ReaderTypes
  <2>5. AcceptedIsWhole' /\ WholeIsAccepted'
    BY <2>1, <2>3 DEF AcceptedIsWhole, WholeIsAccepted
  <2> QED
    BY <1>2, <2>1, <2>4, <2>5 DEF ReaderInv
<1> QED
  BY <1>5, <1>6

LEMMA ReaderFailsInv ==
  ASSUME StreamInv, ReaderFails, UNCHANGED <<kind, writer>>
  PROVE  ReaderInv'
<1>1. rpc # "idle" /\ rpc' = "failed" /\ UNCHANGED <<item, bytesRead, chunk, started, hold, out, got>>
  BY DEF ReaderFails
<1> QED
  BY <1>1, ReaderStarts DEF StreamInv, ReaderInv, ReaderTypes, AcceptedIsWhole, WholeIsAccepted

(* DecompressChunk's loop ends when the chunk is used up and put out.       *)
LEMMA ChunkIsUsedUp ==
  ASSUME kind \in {"Zlib", "Zstd", "LZ4"}, chunk \in Bytes(Unit), NEW taken \in 0 .. Len(chunk),
         NEW put \in Nat, put <= DecoderBuffer, NEW left, put < DecoderBuffer => left = <<>>,
         Decodes(taken, put, left)
  PROVE  IF DecodeAgain(put, After(chunk, taken))
         THEN kind # "Zlib" => After(chunk, taken) # <<>>
         ELSE After(chunk, taken) = <<>> /\ (kind = "Zlib" => left = <<>>)
<1>1. CASE kind = "Zlib"
  <2>1. DecodeAgain(put, After(chunk, taken)) <=> put = DecoderBuffer
    BY <1>1 DEF DecodeAgain, ZlibDecodeAgain
  <2>2. CASE put = DecoderBuffer
    BY <1>1, <2>1, <2>2
  <2>3. CASE put # DecoderBuffer
    <3>1. put < DecoderBuffer
      BY <2>3, ConstantTypes
    <3>2. taken = Len(chunk)
      BY <3>1 DEF Decodes
    <3>3. chunk \in Seq(Seq(Unit))
      BY BytesAreParts
    <3>4. After(chunk, taken) = <<>>
      BY <3>2, <3>3 DEF After
    <3> QED
      BY <2>1, <2>3, <3>1, <3>4
  <2> QED
    BY <2>2, <2>3
<1>2. CASE kind = "Zstd"
  BY <1>2 DEF DecodeAgain, ZstdDecodeAgain
<1>3. CASE kind = "LZ4"
  BY <1>3 DEF DecodeAgain, LZ4DecodeAgain
<1> QED
  BY <1>1, <1>2, <1>3

LEMMA DecodeStepInv ==
  ASSUME StreamInv, DecodeStep, UNCHANGED <<kind, writer>>
  PROVE  ReaderInv'
<1>1. PICK taken \in 0 .. Len(chunk) :
        LET data == hold \o Decoded(FirstOf(chunk, taken))
            put  == IF Len(data) < DecoderBuffer THEN Len(data) ELSE DecoderBuffer
        IN /\ Decodes(taken, put, After(data, put))
           /\ chunk' = After(chunk, taken)
           /\ started' = (started \/ taken > 0)
           /\ hold' = After(data, put)
           /\ out' = out \o FirstOf(data, put)
           /\ rpc' = IF DecodeAgain(put, chunk') THEN "decode" ELSE "read"
  BY DEF DecodeStep
<1> DEFINE data == hold \o Decoded(FirstOf(chunk, taken))
           put  == IF Len(data) < DecoderBuffer THEN Len(data) ELSE DecoderBuffer
<1>2. /\ Decodes(taken, put, After(data, put))
      /\ chunk' = After(chunk, taken)
      /\ started' = (started \/ taken > 0)
      /\ hold' = After(data, put)
      /\ out' = out \o FirstOf(data, put)
      /\ rpc' = IF DecodeAgain(put, chunk') THEN "decode" ELSE "read"
  BY <1>1
<1>3. /\ rpc = "decode" /\ UNCHANGED <<item, bytesRead, got>>
      /\ ReaderTypes /\ Reading /\ bytesRead <= length[item] /\ AcceptedIsWhole
      /\ (kind # "Zlib" => chunk # <<>>)
  BY DEF DecodeStep, StreamInv, ReaderInv
<1>4. /\ wpc = "sealed" /\ wpc' = "sealed" /\ file' = file /\ length' = length /\ kind' = kind
      /\ kind \in {"Zlib", "Zstd", "LZ4"} /\ WriterInv
      /\ file[item] \in Bytes(Unit) /\ file[item] \in Seq(Seq(Unit)) /\ item \in Items
      /\ Len(file[item]) <= length[item] /\ length[item] \in Nat
      /\ chunk \in Bytes(Unit) /\ out \in Seq(Unit) /\ hold \in Seq(Unit)
  BY <1>3, ReaderStarts DEF StreamInv
<1>5. /\ chunk \in Seq(Seq(Unit)) /\ taken \in Nat /\ taken <= Len(chunk) /\ Len(chunk) \in Nat
      /\ bytesRead \in Nat /\ bytesRead <= Len(file[item]) /\ Len(chunk) <= bytesRead
      /\ Len(file[item]) \in Nat /\ Consumed \in Nat /\ Consumed = bytesRead - Len(chunk)
  <2>1. chunk \in Seq(Seq(Unit))
    BY <1>4, BytesAreParts
  <2>2. bytesRead \in 0 .. Len(file[item]) /\ Len(chunk) <= bytesRead
    BY <1>3 DEF Reading
  <2> QED
    BY <1>4, <2>1, <2>2 DEF Consumed
<1>6. FirstOf(chunk, taken) \in Bytes(Unit) /\ After(chunk, taken) \in Bytes(Unit)
  BY <1>4, <1>5, BytesType
<1>7. data \in Seq(Unit) /\ Decoded(FirstOf(chunk, taken)) \in Seq(Unit)
  BY <1>4, <1>6, DecodedType
<1> HIDE DEF data
<1>8. put \in 0 .. Len(data) /\ put <= DecoderBuffer /\ (put < DecoderBuffer => put = Len(data))
  BY <1>7, ConstantTypes
<1> HIDE DEF put
<1>9. /\ FirstOf(data, put) \in Seq(Unit) /\ After(data, put) \in Seq(Unit)
      /\ FirstOf(data, put) \o After(data, put) = data
      /\ (put = Len(data) => After(data, put) = <<>>)
  <2>1. put = Len(data) => After(data, put) = <<>>
    BY <1>7 DEF After
  <2> QED
    BY <1>7, <1>8, <2>1, FirstAndAfter
<1>10. ReaderTypes'
  <2>1. out' \in Seq(Unit) /\ hold' \in Seq(Unit) /\ chunk' \in Bytes(Unit)
    BY <1>2, <1>4, <1>6, <1>9
  <2>2. started' \in BOOLEAN /\ rpc' \in {"decode", "read"}
    BY <1>2
  <2> QED
    BY <1>3, <2>1, <2>2 DEF ReaderTypes
(* The window on the file moves on by what was taken.                       *)
<1>11. /\ Len(chunk') = Len(chunk) - taken /\ Consumed' = Consumed + taken
       /\ chunk' = SubSeq(file[item], Consumed' + 1, bytesRead)
       /\ FirstOf(file[item], Consumed) \o FirstOf(chunk, taken) = FirstOf(file[item], Consumed')
  <2>1. Len(chunk') = Len(chunk) - taken
    BY <1>2, <1>5, FirstAndAfter
  <2>2. Consumed' = Consumed + taken
    BY <1>3, <1>5, <2>1 DEF Consumed
  <2>3. chunk = SubSeq(file[item], Consumed + 1, bytesRead)
    BY <1>3 DEF Reading
  <2>4. Consumed \in 0 .. Len(file[item]) /\ bytesRead \in Consumed .. Len(file[item])
        /\ taken \in 0 .. bytesRead - Consumed
    BY <1>5
  <2> DEFINE c == Consumed
  <2> HIDE DEF c
  <2>5. Moves(file[item], c, bytesRead, taken)
    BY <1>4, <2>4, WindowMoves DEF c
  <2> QED
    BY <1>2, <2>1, <2>2, <2>3, <2>5 DEF c, Moves
<1>12. out' \o hold' = Decoded(FirstOf(file[item], Consumed'))
  <2> DEFINE before == FirstOf(file[item], Consumed)
  <2>1. out \o hold = Decoded(before)
    BY <1>3 DEF Reading
  <2>2. before \in Bytes(Unit)
    BY <1>4, <1>5, BytesType
  <2> HIDE DEF before
  <2>3. Decoded(before \o FirstOf(chunk, taken)) = Decoded(before) \o Decoded(FirstOf(chunk, taken))
    BY <1>6, <2>2, DecodedConcat
  <2>4. out' \o hold' = out \o data
    <3>1. Regroups(out, FirstOf(data, put), After(data, put))
      BY <1>4, <1>9, Regroup
    <3> QED
      BY <1>2, <1>9, <3>1 DEF Regroups
  <2>5. out \o data = (out \o hold) \o Decoded(FirstOf(chunk, taken))
    <3>1. Regroups(out, hold, Decoded(FirstOf(chunk, taken)))
      BY <1>4, <1>7, Regroup
    <3> QED
      BY <3>1 DEF data, Regroups
  <2> QED
    BY <1>11, <2>1, <2>3, <2>4, <2>5 DEF before
(* With the frame's end goes all that was held.                             *)
<1>13. ASSUME kind # "Zlib", Consumed' = length[item], ~Foreign PROVE hold' = <<>>
  <2>1. Len(file[item]) = length[item] /\ bytesRead = length[item]
    BY <1>4, <1>5, <1>11, <1>13
  <2>2. taken = Len(chunk) /\ taken # 0
    <3>1. Len(chunk) # 0
      BY <1>3, <1>5, <1>13
    <3>2. Consumed + taken = bytesRead /\ Consumed = bytesRead - Len(chunk)
      BY <1>5, <1>11, <1>13, <2>1
    <3>3. taken = Len(chunk)
      BY <1>5, <3>2
    <3> QED
      BY <3>1, <3>3
  <2>3. FirstOf(chunk, taken) # <<>>
    <3>1. taken \in 0 .. Len(chunk)
      BY <1>5
    <3>2. Len(FirstOf(chunk, taken)) = taken
      BY <1>5, <3>1, FirstAndAfter
    <3> QED
      BY <2>2, <3>2
  <2>4. FirstOf(file[item], Consumed) \o FirstOf(chunk, taken) = file[item]
    <3>1. FirstOf(file[item], Len(file[item])) = file[item]
      BY <1>4, FirstOfAll
    <3> QED
      BY <1>11, <1>13, <2>1, <3>1
  <2>5. FirstOf(file[item], Consumed) \in Bytes(Unit)
    BY <1>4, <1>5, BytesType
  <2>6. Ending \in ToSet(FlattenSeq(FirstOf(chunk, taken)))
    BY <1>4, <1>6, <1>13, <2>1, <2>3, <2>4, <2>5, FileEnds DEF Foreign
  <2> QED
    BY <1>2, <1>13, <2>6 DEF Decodes
<1>14. Reading'
  <2>1. bytesRead' \in 0 .. Len(file'[item']) /\ Len(chunk') <= bytesRead'
    BY <1>3, <1>4, <1>5, <1>11
  <2>2. ~started' => Consumed' = 0
    <3>1. ~started' => ~started /\ taken = 0
      <4>1. started' = (started \/ taken > 0)
        BY <1>2
      <4>2. ~(taken > 0) => taken = 0
        BY <1>5
      <4> QED
        BY <4>1, <4>2, Zenon
    <3>2. ~started => Consumed = 0
      BY <1>3 DEF Reading
    <3> QED
      BY <1>5, <1>11, <3>1, <3>2
  <2>3. (kind # "Zlib" /\ Consumed' = length[item] /\ ~Foreign) => hold' = <<>>
    BY <1>13
  <2>4. Foreign' <=> Foreign
    BY <1>3, <1>4 DEF Foreign
  <2> QED
    BY <1>3, <1>4, <1>11, <1>12, <2>1, <2>2, <2>3, <2>4 DEF Reading
<1>15. IF rpc' = "decode"
       THEN kind # "Zlib" => chunk' # <<>>
       ELSE rpc' = "read" /\ chunk' = <<>> /\ (kind = "Zlib" => hold' = <<>>)
  <2>1. put \in Nat /\ put <= DecoderBuffer /\ (put < DecoderBuffer => After(data, put) = <<>>)
    BY <1>7, <1>8, <1>9
  <2>2. IF DecodeAgain(put, After(chunk, taken))
        THEN kind # "Zlib" => After(chunk, taken) # <<>>
        ELSE After(chunk, taken) = <<>> /\ (kind = "Zlib" => After(data, put) = <<>>)
    BY <1>2, <1>4, <2>1, ChunkIsUsedUp
  <2> QED
    BY <1>2, <2>2
<1>16. AcceptedIsWhole' /\ WholeIsAccepted'
  BY <1>3, <1>15 DEF AcceptedIsWhole, WholeIsAccepted
<1>17. bytesRead' <= length'[item']
  BY <1>3, <1>4
<1> QED
  BY <1>4, <1>10, <1>14, <1>15, <1>16, <1>17 DEF ReaderInv

LEMMA ReadInv ==
  ASSUME StreamInv, Read
  PROVE  StreamInv'
<1>1. UNCHANGED <<kind, writer>>
  BY DEF Read
<1>2. WriterInv'
  BY <1>1, WriterStays DEF StreamInv
<1>3. ReaderInv'
  <2>1. CASE Open
    BY <1>1, <2>1, OpenInv
  <2>2. CASE BeginDecompression
    BY <1>1, <2>2, BeginDecompressionInv
  <2>3. CASE ReadChunk
    BY <1>1, <2>3, ReadChunkInv
  <2>4. CASE DecodeFails
    BY <1>1, <2>4, DecodeFailsInv
  <2>5. CASE DecodeStep
    BY <1>1, <2>5, DecodeStepInv
  <2>6. CASE Accept
    BY <1>1, <2>6, AcceptInv
  <2>7. CASE ReaderFails
    BY <1>1, <2>7, ReaderFailsInv
  <2> QED
    BY <2>1, <2>2, <2>3, <2>4, <2>5, <2>6, <2>7 DEF Read, ReaderStep
<1> QED
  BY <1>2, <1>3 DEF StreamInv

LEMMA StutterInv ==
  ASSUME StreamInv, UNCHANGED vars
  PROVE  StreamInv'
<1>1. WriterInv'
  BY WriterStays DEF StreamInv, vars
<1>2. ReaderInv'
  BY DEF StreamInv, vars, reader, writer, ReaderInv, ReaderTypes, Reading, Consumed, Foreign,
         AcceptedIsWhole, WholeIsAccepted
<1> QED
  BY <1>1, <1>2 DEF StreamInv

-----------------------------------------------------------------------------
(* The theorems.                                                            *)

(* Every unit of a stream is in one place, in order, from CompressChunk to  *)
(* ReadTile.                                                                *)
THEOREM StreamInvariant == Spec => []StreamInv
<1>1. Init => StreamInv
  BY InitWriter, InitReader DEF StreamInv
<1>2. StreamInv /\ [Next]_vars => StreamInv'
  BY WriteInv, ReadInv, StutterInv DEF Next
<1> QED
  BY <1>1, <1>2, PTL DEF Spec

(* The counters stay within the streams they count.                         *)
THEOREM StreamTypes == Spec => []TypeOK
<1>1. StreamInv => TypeOK
  <2> SUFFICES ASSUME StreamInv PROVE TypeOK
    OBVIOUS
  <2>1. WriterTypes /\ ReaderTypes
    BY DEF StreamInv, WriterInv, ReaderInv
  <2>2. compressed \in Seq(Seq(Unit)) /\ chunk \in Seq(Seq(Unit))
    BY <2>1, BytesAreParts DEF WriterTypes, ReaderTypes
  <2>3. \A i \in Items : file[i] \in Seq(Seq(Unit))
    BY BytesAreParts DEF StreamInv, WriterInv, Files
  <2>4. rpc \in {"read", "decode"} => bytesRead \in 0 .. length[item]
    <3> SUFFICES ASSUME rpc \in {"read", "decode"} PROVE bytesRead \in 0 .. length[item]
      OBVIOUS
    <3>1. bytesRead \in 0 .. Len(file[item]) /\ bytesRead <= length[item] /\ item \in Items
      BY DEF StreamInv, ReaderInv, ReaderTypes, Reading
    <3>2. length[item] \in Nat /\ Len(file[item]) \in Nat
      BY <2>3, <3>1 DEF StreamInv, WriterInv, Files
    <3> QED
      BY <3>1, <3>2
  <2> QED
    BY <2>1, <2>2, <2>3, <2>4 DEF TypeOK, WriterTypes, ReaderTypes
<1> QED
  BY <1>1, StreamInvariant, PTL

(* What goes to disk is one frame of the directory's bytes, each once and   *)
(* in order, for all sizes of its pieces and of the library's buffers       *)
(* (CompressChunk, EndCompression).                                         *)
THEOREM DirectoryIsOneFrame == Spec => []FrameIsComplete
<1>1. StreamInv => FrameIsComplete
  <2> SUFFICES ASSUME StreamInv PROVE FrameIsComplete
    OBVIOUS
  <2>1. /\ raw \in Seq(Unit) /\ src \in Seq(Unit) /\ enc \in Seq(Unit)
        /\ FlattenSeq(compressed) \in Seq(Unit) /\ Unwritten \in Seq(Unit)
    <3>1. <<>> \in Seq(Unit)
      OBVIOUS
    <3> QED
      BY <3>1, UnitTypes, DecodedType DEF StreamInv, WriterInv, WriterTypes, Unwritten
  <2>2. enc \o (src \o raw) \in Seq(Unit) /\ src \o raw \in Seq(Unit)
        /\ Unwritten \o FlattenSeq(compressed) \in Seq(Unit)
        /\ Unwritten \o FlattenSeq(compressed) \o enc \in Seq(Unit)
    BY <2>1
  <2>3. /\ Regroups(Unwritten \o FlattenSeq(compressed) \o enc, src, raw)
        /\ Regroups(Unwritten \o FlattenSeq(compressed), enc, src \o raw)
        /\ Regroups(Unwritten, FlattenSeq(compressed), enc \o (src \o raw))
    BY <2>1, <2>2, Regroup
  <2>4. Unwritten \o FlattenSeq(compressed) \o enc \o src \o raw
        = Unwritten \o (FlattenSeq(compressed) \o (enc \o (src \o raw)))
    BY <2>3 DEF Regroups
  <2> QED
    BY <2>4 DEF StreamInv, WriterInv, Writing, InOrder, Unwritten, FrameIsComplete
<1> QED
  BY <1>1, StreamInvariant, PTL

(* A directory or a tile the reader accepts is, byte for byte, the one that *)
(* was written (ProcessChunked, DecompressChunk, ReadTile).                 *)
THEOREM WhatIsAcceptedIsWhole == Spec => []AcceptedIsWhole
<1>1. StreamInv => AcceptedIsWhole
  BY DEF StreamInv, ReaderInv
<1> QED
  BY <1>1, StreamInvariant, PTL

(* The reader refuses only a directory that lost its end, or a tile packed  *)
(* by LZ4 (ProcessChunked, ProcessTiles).                                   *)
THEOREM WhatIsWholeIsAccepted == Spec => []WholeIsAccepted
<1>1. StreamInv => WholeIsAccepted
  BY DEF StreamInv, ReaderInv
<1> QED
  BY <1>1, StreamInvariant, PTL

=============================================================================
