-------------------------- MODULE MapSystem_proofs --------------------------
(***************************************************************************)
(* Theorems of MapSystem, for every number of tiles, tile size, packed     *)
(* size, staging capacity and set of rasters: the lemmas about its         *)
(* operators, the invariant of MapSystemInv with the safety that follows   *)
(* from it, what a preview makes of the file, and that bakes, previews and *)
(* crashes over one file implement the abstract store.                     *)
(***************************************************************************)
EXTENDS MapSystemInv, FiniteSetTheorems, TLAPS

-----------------------------------------------------------------------------
(* Arithmetic and ranks.                                                    *)

LEMMA ModSmall ==
  ASSUME NEW a \in Nat, NEW m \in Nat, a <= m
  PROVE  a % (m + 1) = a
  OBVIOUS

LEMMA MulMono ==
  ASSUME NEW a \in Nat, NEW b \in Nat, NEW c \in Nat, a <= b
  PROVE  a * c <= b * c
  OBVIOUS

(* The rank of a tile counts the set bits below it: it grows by one past a  *)
(* set bit and stays past a clear one.                                      *)
LEMMA RankStep ==
  ASSUME NEW bits \in SUBSET Tiles, NEW i \in Tiles
  PROVE  /\ Rank(bits, i) \in Nat
         /\ i \in bits => Rank(bits, i + 1) = Rank(bits, i) + 1
         /\ i \notin bits => Rank(bits, i + 1) = Rank(bits, i)
<1> USE FormatsAssumption, LayoutAssumption
<1> DEFINE Below == {j \in bits : j < i}
<1>1. \A j \in bits : j \in Int
  BY DEF Tiles
<1>2. i \in Int
  BY DEF Tiles
<1>3. IsFiniteSet(Below)
  <2>1. IsFiniteSet(Tiles)
    BY FS_Interval DEF Tiles
  <2> QED
    BY <2>1, FS_Subset
<1>4. ASSUME i \in bits
      PROVE  {j \in bits : j < i + 1} = Below \cup {i}
  <2>1. ASSUME NEW j \in bits
        PROVE  j < i + 1 <=> (j < i \/ j = i)
    BY <1>1, <1>2
  <2> QED
    BY <1>4, <2>1
<1>5. ASSUME i \notin bits
      PROVE  {j \in bits : j < i + 1} = Below
  <2>1. ASSUME NEW j \in bits
        PROVE  j < i + 1 <=> j < i
    BY <1>1, <1>2, <1>5
  <2> QED
    BY <2>1
<1>6. i \notin Below
  BY <1>2
<1>7. Cardinality(Below \cup {i}) = Cardinality(Below) + 1
  BY <1>3, <1>6, FS_AddElement
<1> QED
  BY <1>3, <1>4, <1>5, <1>7, FS_CardinalityType DEF Rank

LEMMA RankZero ==
  ASSUME NEW bits \in SUBSET Tiles
  PROVE  Rank(bits, 0) = 0
<1>1. {j \in bits : j < 0} = {}
  <2>1. \A j \in bits : ~(j < 0)
    BY FormatsAssumption, LayoutAssumption DEF Tiles
  <2> QED
    BY <2>1
<1> QED
  BY <1>1, FS_EmptySet DEF Rank

LEMMA RankAll ==
  ASSUME NEW bits \in SUBSET Tiles
  PROVE  /\ Rank(bits, NumTiles) = Cardinality(bits)
         /\ Cardinality(bits) \in Nat
         /\ Cardinality(bits) <= NumTiles
<1> USE FormatsAssumption, LayoutAssumption
<1>1. {j \in bits : j < NumTiles} = bits
  <2>1. \A j \in bits : j < NumTiles
    BY DEF Tiles
  <2> QED
    BY <2>1
<1>2. IsFiniteSet(Tiles) /\ Cardinality(Tiles) = NumTiles
  BY FS_Interval DEF Tiles
<1>3. IsFiniteSet(bits) /\ Cardinality(bits) <= Cardinality(Tiles)
  BY <1>2, FS_Subset
<1> QED
  BY <1>1, <1>2, <1>3, FS_CardinalityType DEF Rank

(* Tiles below one another have ranks below one another.                    *)
LEMMA RankBelow ==
  ASSUME NEW bits \in SUBSET Tiles, NEW i \in bits, NEW n \in 0 .. NumTiles, i < n
  PROVE  /\ Rank(bits, i) \in Nat /\ Rank(bits, n) \in Nat
         /\ Rank(bits, i) + 1 <= Rank(bits, n)
<1> USE FormatsAssumption, LayoutAssumption
<1>1. i \in Tiles /\ i \in Int /\ n \in Int
  BY DEF Tiles
<1>2. \A j \in bits : j \in Int
  BY DEF Tiles
<1> DEFINE Upto == {j \in bits : j < i + 1}
           Below == {j \in bits : j < n}
<1>3. Upto \subseteq Below
  <2>1. \A j \in bits : j < i + 1 => j < n
    BY <1>1, <1>2
  <2> QED
    BY <2>1
<1>4. IsFiniteSet(Below)
  <2>1. IsFiniteSet(Tiles)
    BY FS_Interval DEF Tiles
  <2> QED
    BY <2>1, FS_Subset
<1>5. Cardinality(Upto) <= Cardinality(Below) /\ Cardinality(Below) \in Nat
  BY <1>3, <1>4, FS_Subset, FS_CardinalityType
<1>6. Cardinality(Upto) = Rank(bits, i) + 1 /\ Rank(bits, i) \in Nat
  BY <1>1, RankStep DEF Rank
<1> QED
  BY <1>5, <1>6 DEF Rank
-----------------------------------------------------------------------------
(* Type correctness.                                                        *)

(* RunBake only plans well-formed jobs, and every plan is sound: a packed   *)
(* tile is never given a bitmask directory.                                 *)
LEMMA PlanSound ==
  ASSUME NEW s \in OfferedSettings, NEW bits \in SUBSET Tiles, NEW v \in Rasters,
         NEW mask \in Masks
  PROVE  PlannedJob(s, bits, v, mask) \in Jobs /\ JobSound(PlannedJob(s, bits, v, mask))
<1> DEFINE n == Cardinality(bits)
           c == s[1]
           blocks == ResolveCompressBlocks(c, n)
           fmt == ResolveEntryFormat(s[2], n, blocks)
<1> USE FormatsAssumption, SettingsAssumption
<1>1. c \in Compressions /\ s[2] \in DirFormats /\ (c.alg # "None" => s[2] = "Auto")
  BY DEF OfferedSettings
<1>2. c.alg \in Algs \cup {"Auto"} /\ c.blocks \in SUBSET Blocks
  BY <1>1
<1>3. ResolveCompressionAlg(c) \in Algs
  BY <1>2 DEF ResolveCompressionAlg, Algs
<1>4. blocks \in SUBSET Blocks
  BY <1>2 DEF ResolveCompressBlocks, Blocks
<1>5. fmt \in Formats
  BY DEF ResolveEntryFormat, Formats
<1>6. ResolveCompressionAlg(c) = "None" => blocks = {}
  BY <1>1 DEF ResolveCompressionAlg, ResolveCompressBlocks
<1>7. c.alg = "None" => blocks = {}
  BY <1>1 DEF ResolveCompressBlocks
<1>8. fmt = "Bitmask" => "Tiles" \notin blocks
  BY <1>1, <1>7 DEF ResolveEntryFormat
<1>9. fmt = "Hybrid_32" => ComputeFullSize(n) <= Max32
  BY DEF ResolveEntryFormat
<1>10. PlannedJob(s, bits, v, mask) =
         [alg |-> ResolveCompressionAlg(c), blocks |-> blocks, fmt |-> fmt,
          bits |-> bits, raster |-> v, mask |-> mask]
  BY DEF PlannedJob
<1> HIDE DEF n, c, blocks, fmt
<1> QED
  BY <1>3, <1>4, <1>5, <1>6, <1>8, <1>9, <1>10 DEF Jobs, JobSound, n

LEMMA NoOffsetsType == NoOffsets \in [0 .. 0 - 1 -> Nat]
<1>1. 0 .. 0 - 1 = {}
  OBVIOUS
<1> QED
  BY <1>1 DEF NoOffsets

LEMMA NoImageType == NoImage \in Images
  BY DEF NoImage, Images

LEMMA RecordType ==
  ASSUME recorded \in Nat, pos \in Nat, offs \in [0 .. recorded - 1 -> Nat], RecordOffset
  PROVE  recorded' \in Nat /\ offs' \in [0 .. recorded' - 1 -> Nat]
<1> DEFINE f == [k \in 0 .. recorded |-> IF k = recorded THEN pos ELSE offs[k]]
<1>1. recorded' = recorded + 1 /\ offs' = f
  BY DEF RecordOffset
<1>2. 0 .. recorded' - 1 = 0 .. recorded
  BY <1>1
<1>3. ASSUME NEW k \in 0 .. recorded PROVE f[k] \in Nat
  <2>1. CASE k = recorded
    BY <2>1
  <2>2. CASE k # recorded
    <3>1. k \in 0 .. recorded - 1
      BY <2>2
    <3> QED
      BY <2>2, <3>1
  <2> QED
    BY <2>1, <2>2
<1>4. f \in [0 .. recorded -> Nat]
  BY <1>3
<1> HIDE DEF f
<1> QED
  BY <1>1, <1>2, <1>4

LEMMA TypeInit == Init => TypeOK
<1> SUFFICES ASSUME Init PROVE TypeOK
  OBVIOUS
<1> USE FormatsAssumption, LayoutAssumption DEF Init, WriterInit, LocalsInit, ReaderInit
<1>1. DiskTypeOK
  BY DEF EmptyFile, WordsOK, DiskTypeOK
<1>2. WriterTypeOK
  BY NoOffsetsType DEF WriterTypeOK, WriterStates, Outcomes
<1>3. ReaderTypeOK
  BY NoImageType DEF ReaderTypeOK, ReaderRunning, ReaderOutcomes
<1> QED
  BY <1>1, <1>2, <1>3 DEF TypeOK

(* No step of BakeMap disturbs the types: the file.                         *)
LEMMA TypeWriterDisk ==
  ASSUME TypeOK, WriterStep
  PROVE  DiskTypeOK'
<1> USE FormatsAssumption, LayoutAssumption DEF TypeOK, DiskTypeOK, WordsOK
<1>1. CASE OpenMap
  BY <1>1 DEF OpenMap, EmptyFile
<1>2. CASE UNCHANGED <<exists, disk>>
  BY <1>2
<1>3. CASE WriteTileChunk
  <2>1. job \in Jobs /\ tile \in Tiles /\ pos \in Nat
    BY <1>3 DEF WriteTileChunk, WriterTypeOK
  <2> QED
    BY <1>3, <2>1 DEF WriteTileChunk, Put, TileWord, Jobs
<1>4. CASE WriteDirectoryChunk
  <2>1. job \in Jobs /\ pos \in Nat
    BY <1>4 DEF WriteDirectoryChunk, WriterTypeOK
  <2>2. /\ DirectoryWord(part).kind # "tile"
        /\ DirectoryWord(part).kind \in {"bits", "packed"}
             => DirectoryWord(part).bits \in SUBSET Tiles
    BY <2>1 DEF DirectoryWord, PackedWord, BitsWord, OffsetWord, Jobs
  <2> QED
    BY <1>4, <2>1, <2>2 DEF WriteDirectoryChunk, Put
<1>5. CASE WriteHeader
  BY <1>5 DEF WriteHeader, Put, HeaderWord
<1>6. CASE CloseMap
  BY <1>6 DEF CloseMap, Unsealed
<1>7. CASE exists' = FALSE /\ disk' = EmptyFile
  BY <1>7 DEF EmptyFile
<1> QED
  BY <1>1, <1>2, <1>3, <1>4, <1>5, <1>6, <1>7
  DEF WriterStep, FeedBitmask, SkipTile, BeginTile, EndTiles, FailBake

LEMMA ReturnType ==
  ASSUME WriterTypeOK, NEW how \in Outcomes, WriterReturns(how)
  PROVE  WriterTypeOK'
  BY FormatsAssumption, LayoutAssumption, NoOffsetsType DEF WriterReturns, WriterTypeOK, WriterStates

(* No step of BakeMap disturbs the types: the writer's own fields.          *)
LEMMA TypeWriterLocals ==
  ASSUME TypeOK, WriterStep
  PROVE  WriterTypeOK'
<1> USE FormatsAssumption, LayoutAssumption DEF TypeOK, WriterTypeOK, WriterStates
<1>1. CASE OpenMap
  BY <1>1 DEF OpenMap
<1>2. CASE FeedBitmask
  BY <1>2 DEF FeedBitmask, localVars
<1>3. CASE SkipTile
  BY <1>3 DEF SkipTile, Tiles
<1>4. CASE BeginTile
  <2>1. recorded' \in Nat /\ offs' \in [0 .. recorded' - 1 -> Nat]
    BY <1>4, RecordType DEF BeginTile
  <2>2. size' \in Nat /\ fed' \in Nat /\ tile' \in Tiles /\ tile' \in 0 .. NumTiles
    BY <1>4, <2>1 DEF BeginTile, Jobs
  <2>3. part' \in Nat /\ wpc' = "chunks" /\ job' \in Jobs
    BY <1>4 DEF BeginTile
  <2>4. UNCHANGED <<pos, dirAt, outcome, sealed>>
    BY <1>4 DEF BeginTile
  <2> QED
    BY <2>1, <2>2, <2>3, <2>4
<1>5. CASE WriteTileChunk
  BY <1>5 DEF WriteTileChunk, Tiles
<1>6. CASE EndTiles
  <2>1. recorded' \in Nat /\ offs' \in [0 .. recorded' - 1 -> Nat]
    BY <1>6, RecordType DEF EndTiles
  <2>2. fed' \in Nat /\ dirAt' \in Nat /\ part' \in Nat /\ wpc' = "directory"
    BY <1>6, <2>1 DEF EndTiles
  <2>3. UNCHANGED <<job, pos, tile, size, outcome, sealed>> /\ job \in Jobs
    BY <1>6 DEF EndTiles
  <2> QED
    BY <2>1, <2>2, <2>3
<1>7. CASE WriteDirectoryChunk
  BY <1>7 DEF WriteDirectoryChunk
<1>8. CASE WriteHeader
  BY <1>8 DEF WriteHeader, localVars
<1>9. CASE CloseMap
  BY <1>9, ReturnType DEF CloseMap, Outcomes
<1>10. CASE FailBake
  BY <1>10, ReturnType DEF FailBake, Outcomes
<1> QED
  BY <1>1, <1>2, <1>3, <1>4, <1>5, <1>6, <1>7, <1>8, <1>9, <1>10 DEF WriterStep

(* No step of the reader disturbs its own types, whatever is in the file.   *)
LEMMA TypeReader ==
  ASSUME TypeOK, ReaderStep
  PROVE  ReaderTypeOK'
<1> USE FormatsAssumption, LayoutAssumption DEF TypeOK, ReaderTypeOK, ReaderRunning, ReaderOutcomes
<1>1. CASE ReadDirectory
  <2>1. ParseDirectory(header) => DirectoryBits(header) \in SUBSET Tiles
    BY DEF ParseDirectory, DirectoryReadable, DirectoryBits, DiskTypeOK, WordsOK
  <2> QED
    BY <1>1, <2>1 DEF ReadDirectory
<1>2. CASE ReadTile
  <2> DEFINE at == NodeOffset(header.fmt, rbits, roffs, rtile)
             n == NodeSize(header.fmt, rbits, roffs, rtile)
  <2>1. rtile' \in 0 .. NumTiles
    BY <1>2 DEF ReadTile, DrawTile, Tiles
  <2>2. ReadableTile(at, n) => Drawn(disk[at].tile, disk[at].raster)
                                 \in {Drawn(t, v) : t \in Tiles, v \in Rasters}
    BY DEF ReadableTile, DiskTypeOK, WordsOK
  <2>3. image' \in Images
    BY <1>2, <2>2 DEF ReadTile, DrawTile, Images
  <2> QED
    BY <1>2, <2>1, <2>3 DEF ReadTile, DrawTile
<1>3. CASE FinishPreview
  BY <1>3 DEF FinishPreview
<1>4. CASE AbortPreview
  BY <1>4 DEF AbortPreview
<1> QED
  BY <1>1, <1>2, <1>3, <1>4 DEF ReaderStep

LEMMA ForgetType ==
  ASSUME ForgetPreview
  PROVE  ReaderTypeOK'
  BY FormatsAssumption, LayoutAssumption, NoImageType
  DEF ForgetPreview, ReaderTypeOK, ReaderRunning, ReaderOutcomes

LEMMA TypeNext == TypeOK /\ [Next]_vars => TypeOK'
<1> SUFFICES ASSUME TypeOK, [Next]_vars PROVE TypeOK'
  OBVIOUS
<1> USE FormatsAssumption, LayoutAssumption DEF TypeOK
<1>1. ASSUME NEW s \in OfferedSettings, NEW bits \in SUBSET Tiles, NEW v \in Rasters,
             NEW mask \in Masks, Bake(s, bits, v, mask)
      PROVE  TypeOK'
  <2>1. PlannedJob(s, bits, v, mask) \in Jobs
    BY PlanSound
  <2>2. WriterTypeOK'
    BY <1>1, <2>1 DEF Bake, PrepareMap, WriterTypeOK, WriterStates, Outcomes
  <2>3. DiskTypeOK'
    BY <1>1 DEF Bake, PrepareMap, DiskTypeOK, WordsOK
  <2> QED
    BY <1>1, <2>2, <2>3, ForgetType DEF Bake
<1>2. CASE Preview
  <2>1. ReaderTypeOK'
    BY <1>2, NoImageType
    DEF Preview, PreparePreview, ReaderTypeOK, ReaderRunning, ReaderOutcomes
  <2>2. DiskTypeOK' /\ WriterTypeOK'
    BY <1>2 DEF Preview, PreparePreview, DiskTypeOK, WordsOK, WriterTypeOK, writeVars, localVars
  <2> QED
    BY <2>1, <2>2
<1>3. CASE WriterStep /\ UNCHANGED readVars
  <2>1. ReaderTypeOK'
    BY <1>3 DEF ReaderTypeOK, readVars
  <2> QED
    BY <1>3, <2>1, TypeWriterDisk, TypeWriterLocals
<1>4. CASE ReaderStep /\ UNCHANGED writeVars
  <2>1. WriterTypeOK'
    BY <1>4 DEF WriterTypeOK, writeVars, localVars
  <2>2. UNCHANGED <<exists, disk>>
    BY <1>4 DEF ReaderStep, ReadDirectory, ReadTile, DrawTile, FinishPreview, AbortPreview
  <2>3. DiskTypeOK'
    BY <2>2 DEF DiskTypeOK, WordsOK
  <2> QED
    BY <1>4, <2>1, <2>3, TypeReader
<1>5. CASE Crash
  <2>1. DiskTypeOK'
    BY <1>5 DEF Crash, WriterCrash, Unsealed, WordsOK, DiskTypeOK
  <2> QED
    BY <1>5, <2>1, ForgetType, ReturnType DEF Crash, WriterCrash, Outcomes
<1>6. CASE UNCHANGED vars
  BY <1>6 DEF vars, writeVars, localVars, readVars, DiskTypeOK, WordsOK, WriterTypeOK, ReaderTypeOK
<1> QED
  BY <1>1, <1>2, <1>3, <1>4, <1>5, <1>6 DEF Next

(* Every state of the editor and its map file is well formed.               *)
THEOREM TypeCorrect == Spec => []TypeOK
<1>1. Init => TypeOK
  BY TypeInit
<1>2. TypeOK /\ [Next]_vars => TypeOK'
  BY TypeNext
<1> QED
  BY <1>1, <1>2, PTL DEF Spec

-----------------------------------------------------------------------------
(* The job.                                                                 *)

(* The choices of RunBake stay what they were while the file is written.    *)
LEMMA JobStep ==
  ASSUME TypeOK, JobInv, [Next]_vars
  PROVE  JobInv'
<1>1. ASSUME NEW s \in OfferedSettings, NEW bits \in SUBSET Tiles, NEW v \in Rasters,
             NEW mask \in Masks, Bake(s, bits, v, mask)
      PROVE  JobInv'
  <2>1. JobSound(PlannedJob(s, bits, v, mask)) /\ job' = PlannedJob(s, bits, v, mask)
    BY <1>1, PlanSound DEF Bake, PrepareMap
  <2> QED
    BY <2>1 DEF JobInv
<1>2. CASE UNCHANGED writeVars
  BY <1>2 DEF JobInv, writeVars, localVars
<1>3. CASE WriterStep
  <2>1. CASE wpc' = "idle"
    BY <2>1 DEF JobInv
  <2>2. CASE wpc' # "idle"
    <3>1. job' = job /\ wpc # "idle"
      BY <1>3, <2>2 DEF WriterStep, OpenMap, FeedBitmask, SkipTile, BeginTile, WriteTileChunk,
         EndTiles, WriteDirectoryChunk, WriteHeader, CloseMap, FailBake, WriterReturns, localVars
    <3> QED
      BY <3>1 DEF JobInv
  <2> QED
    BY <2>1, <2>2
<1>4. CASE Crash
  BY <1>4 DEF Crash, WriterCrash, WriterReturns, JobInv
<1> QED
  BY <1>1, <1>2, <1>3, <1>4 DEF Next, Preview, vars

-----------------------------------------------------------------------------
(* Counting.                                                                *)

(* A directory has at least its bitmask.                                    *)
LEMMA DirectoryHasWords ==
  ASSUME recorded \in Nat
  PROVE  DirectoryLength \in Nat \ {0}
  BY DEF DirectoryLength

(* recordOffset is called once per non-empty tile and once at the end, and  *)
(* the directory's compressor gets every offset.                            *)
LEMMA CountStep ==
  ASSUME TypeOK, CountInv, WriterStep
  PROVE  CountInv'
<1> USE FormatsAssumption, LayoutAssumption, SettingsAssumption
    DEF CountInv, TypeOK, WriterTypeOK, Finished, StreamsOffsets, KeepsOffsets, PacksDirectory, PacksTiles
<1>j. wpc # "idle" => job.bits \in SUBSET Tiles
  BY DEF Jobs
<1>1. CASE OpenMap
  <2>1. Rank(job.bits, 0) = 0
    BY <1>1, <1>j, RankZero DEF OpenMap
  <2> QED
    BY <1>1, <2>1 DEF OpenMap
<1>2. CASE FeedBitmask
  <2>1. Rank(job.bits, 0) = 0
    BY <1>2, <1>j, RankZero DEF FeedBitmask
  <2> QED
    BY <1>2, <2>1 DEF FeedBitmask, localVars
<1>3. CASE SkipTile
  <2>1. Rank(job.bits, tile + 1) = Rank(job.bits, tile)
    BY <1>3, <1>j, RankStep DEF SkipTile
  <2> QED
    BY <1>3, <2>1 DEF SkipTile
<1>4. CASE BeginTile
  BY <1>4 DEF BeginTile, RecordOffset
<1>5. CASE WriteTileChunk
  <2>1. Rank(job.bits, tile + 1) = Rank(job.bits, tile) + 1
    BY <1>5, <1>j, RankStep DEF WriteTileChunk
  <2>2. CASE part + 1 = size
    BY <1>5, <2>1, <2>2 DEF WriteTileChunk
  <2>3. CASE part + 1 # size
    BY <1>5, <2>3 DEF WriteTileChunk
  <2> QED
    BY <2>2, <2>3
<1>6. CASE EndTiles
  <2>1. Rank(job.bits, NumTiles) = Cardinality(job.bits)
    BY <1>6, <1>j, RankAll DEF EndTiles
  <2>2. recorded' \in Nat
    BY <1>6 DEF EndTiles, RecordOffset
  <2>3. DirectoryLength' = IF PacksDirectory THEN 1 ELSE 1 + (IF KeepsOffsets THEN recorded + 1 ELSE 0)
    BY <1>6 DEF EndTiles, RecordOffset, DirectoryLength
  <2> QED
    BY <1>6, <2>1, <2>2, <2>3 DEF EndTiles, RecordOffset
<1>7. CASE WriteDirectoryChunk
  <2>1. DirectoryLength' = DirectoryLength /\ DirectoryLength \in Nat
    BY <1>7 DEF WriteDirectoryChunk, DirectoryLength
  <2> QED
    BY <1>7, <2>1 DEF WriteDirectoryChunk
<1>8. CASE WriteHeader
  BY <1>8 DEF WriteHeader, localVars
<1>9. CASE \E how \in Outcomes : WriterReturns(how)
  BY <1>9 DEF WriterReturns
<1> QED
  BY <1>1, <1>2, <1>3, <1>4, <1>5, <1>6, <1>7, <1>8, <1>9
  DEF WriterStep, CloseMap, FailBake, Outcomes

(* A new bake, a preview and a crash leave the counters at zero.            *)
LEMMA CountNext ==
  ASSUME TypeOK, CountInv, [Next]_vars
  PROVE  CountInv'
<1>1. ASSUME NEW s \in OfferedSettings, NEW bits \in SUBSET Tiles, NEW v \in Rasters,
             NEW mask \in Masks, Bake(s, bits, v, mask)
      PROVE  CountInv'
  BY <1>1 DEF Bake, PrepareMap, CountInv, Finished
<1>2. CASE UNCHANGED writeVars
  BY <1>2 DEF CountInv, Finished, DirectoryLength, StreamsOffsets, KeepsOffsets, PacksDirectory,
     PacksTiles, writeVars, localVars
<1>3. CASE WriterStep
  BY <1>3, CountStep
<1>4. CASE Crash
  BY <1>4 DEF Crash, WriterCrash, WriterReturns, CountInv, Finished
<1> QED
  BY <1>1, <1>2, <1>3, <1>4 DEF Next, Preview, vars

LEMMA RankAtMost ==
  ASSUME NEW bits \in SUBSET Tiles, NEW i
  PROVE  Rank(bits, i) <= Cardinality(bits)
<1>1. IsFiniteSet(bits)
  <2>1. IsFiniteSet(Tiles)
    BY FS_Interval, FormatsAssumption DEF Tiles
  <2> QED
    BY <2>1, FS_Subset
<1>2. {j \in bits : j < i} \subseteq bits
  OBVIOUS
<1> QED
  BY <1>1, <1>2, FS_Subset DEF Rank

(* There is one more offset than there are non-empty tiles, at most.        *)
LEMMA RecordedBound ==
  ASSUME TypeOK, CountInv, wpc # "idle"
  PROVE  /\ job.bits \in SUBSET Tiles
         /\ Cardinality(job.bits) \in Nat /\ Cardinality(job.bits) <= NumTiles
         /\ recorded <= Cardinality(job.bits) + 1
         /\ wpc = "chunks" => recorded >= 1 /\ recorded <= Cardinality(job.bits)
<1> USE FormatsAssumption
<1>1. job.bits \in SUBSET Tiles /\ recorded \in Nat /\ wpc \in WriterStates /\ tile \in 0 .. NumTiles
  BY DEF TypeOK, WriterTypeOK, Jobs
<1>2. /\ Cardinality(job.bits) \in Nat /\ Cardinality(job.bits) <= NumTiles
      /\ Rank(job.bits, NumTiles) = Cardinality(job.bits)
  BY <1>1, RankAll
<1>3. CASE wpc = "tiles"
  BY <1>1, <1>2, <1>3, RankAtMost DEF CountInv
<1>4. CASE wpc = "chunks"
  <2>1. tile \in job.bits /\ recorded = Rank(job.bits, tile) + 1
    BY <1>4 DEF CountInv
  <2>2. tile < NumTiles /\ NumTiles \in 0 .. NumTiles
    BY <1>1, <2>1 DEF Tiles
  <2>3. Rank(job.bits, tile) \in Nat /\ Rank(job.bits, tile) + 1 <= Rank(job.bits, NumTiles)
    BY <1>1, <2>1, <2>2, RankBelow
  <2> QED
    BY <1>1, <1>2, <2>1, <2>3
<1> QED
  BY <1>1, <1>2, <1>3, <1>4 DEF CountInv, Finished, WriterStates

-----------------------------------------------------------------------------
(* Positions.                                                               *)

LEMMA RecordedOffsets ==
  ASSUME TypeOK, RecordOffset
  PROVE  /\ recorded' = recorded + 1
         /\ offs'[recorded] = pos
         /\ \A r \in 0 .. recorded - 1 : offs'[r] = offs[r]
<1>1. recorded \in Nat
  BY DEF TypeOK, WriterTypeOK
<1> QED
  BY <1>1 DEF RecordOffset

LEMMA PutDomain ==
  ASSUME NEW file, NEW at, NEW word
  PROVE  /\ DOMAIN Put(file, at, word) = DOMAIN file \cup {at}
         /\ Put(file, at, word)[at] = word
         /\ \A p \in DOMAIN file : p # at => Put(file, at, word)[p] = file[p]
  BY DEF Put

(* The file grows at its end, and its header's place is left alone.         *)
LEMMA PositionStep ==
  ASSUME TypeOK, CountInv, PositionInv, WriterStep
  PROVE  PositionInv'
<1> USE FormatsAssumption, LayoutAssumption DEF PositionInv, Writing
<1>t. /\ pos \in Nat /\ part \in Nat /\ recorded \in Nat /\ DOMAIN disk \subseteq Nat
      /\ \A r \in 0 .. recorded - 1 : offs[r] \in Nat
  BY DEF TypeOK, WriterTypeOK, DiskTypeOK
<1>1. CASE OpenMap
  <2>1. recorded' = 0 /\ pos' = HeaderSize /\ DOMAIN disk' = {} /\ wpc' \in {"bitmask", "tiles"}
    BY <1>1 DEF OpenMap, EmptyFile, CountInv
  <2> QED
    BY <2>1
<1>2. CASE FeedBitmask
  BY <1>2 DEF FeedBitmask, localVars
<1>3. CASE SkipTile
  BY <1>3 DEF SkipTile
<1>4. CASE BeginTile
  <2>1. /\ recorded' = recorded + 1 /\ offs'[recorded] = pos
        /\ \A r \in 0 .. recorded - 1 : offs'[r] = offs[r]
    BY <1>4, RecordedOffsets DEF BeginTile
  <2>2. /\ wpc = "tiles" /\ wpc' = "chunks" /\ pos' = pos /\ disk' = disk /\ part' = 0
    BY <1>4 DEF BeginTile
  <2>3. ASSUME NEW r \in 0 .. recorded' - 1 PROVE HeaderSize <= offs'[r]
    BY <1>t, <2>1, <2>2, <2>3
  <2>4. pos' = offs'[recorded' - 1] + part'
    BY <1>t, <2>1, <2>2
  <2> QED
    BY <2>2, <2>3, <2>4
<1>5. CASE WriteTileChunk
  <2>1. /\ DOMAIN disk' = DOMAIN disk \cup {pos} /\ pos' = pos + 1 /\ part' = part + 1
        /\ wpc = "chunks" /\ wpc' \in {"tiles", "chunks"}
        /\ UNCHANGED <<offs, recorded>>
    <3>1. \E word : disk' = Put(disk, pos, word)
      BY <1>5 DEF WriteTileChunk
    <3>2. DOMAIN disk' = DOMAIN disk \cup {pos}
      BY <3>1, PutDomain
    <3> QED
      BY <1>5, <3>2 DEF WriteTileChunk
  <2>2. recorded \in Nat /\ recorded >= 1
    BY <1>t, <2>1, RecordedBound
  <2>3. offs[recorded - 1] \in Nat
    BY <1>t, <2>2
  <2> QED
    BY <1>t, <2>1, <2>3
<1>6. CASE EndTiles
  <2>1. /\ recorded' = recorded + 1 /\ offs'[recorded] = pos
        /\ \A r \in 0 .. recorded - 1 : offs'[r] = offs[r]
    BY <1>6, RecordedOffsets DEF EndTiles
  <2>2. /\ wpc = "tiles" /\ wpc' = "directory" /\ pos' = pos /\ disk' = disk
    BY <1>6 DEF EndTiles
  <2>3. ASSUME NEW r \in 0 .. recorded' - 1 PROVE HeaderSize <= offs'[r]
    BY <1>t, <2>1, <2>2, <2>3
  <2> QED
    BY <2>2, <2>3
<1>7. CASE WriteDirectoryChunk
  <2>1. /\ DOMAIN disk' = DOMAIN disk \cup {pos} /\ pos' = pos + 1
        /\ wpc = "directory" /\ wpc' \in {"directory", "header"}
        /\ UNCHANGED <<offs, recorded>>
    BY <1>7, PutDomain DEF WriteDirectoryChunk
  <2> QED
    BY <1>t, <2>1
<1>8. CASE WriteHeader
  BY <1>8 DEF WriteHeader, localVars
<1>9. CASE wpc' = "idle"
  BY <1>9
<1> QED
  BY <1>1, <1>2, <1>3, <1>4, <1>5, <1>6, <1>7, <1>8, <1>9
  DEF WriterStep, CloseMap, FailBake, WriterReturns

-----------------------------------------------------------------------------
(* Growth.                                                                  *)

LEMMA MulNext ==
  ASSUME NEW a \in Nat, NEW k \in Nat
  PROVE  (a + 1) * k = a * k + k /\ a * k \in Nat
  OBVIOUS

(* As long as packing grows a tile by no more than the slack, offsets stay  *)
(* within the size RunBake estimated.                                       *)
LEMMA GrowthStep ==
  ASSUME TypeOK, CountInv, PositionInv, GrowthInv, GrowthBounded, WriterStep
  PROVE  GrowthInv'
<1> DEFINE K == RawTile + 2
<1>k. K \in Nat /\ HeaderSize \in Nat
  BY FormatsAssumption
<1>t. /\ pos \in Nat /\ part \in Nat /\ recorded \in Nat /\ size \in Nat
      /\ \A r \in 0 .. recorded - 1 : offs[r] \in Nat
  BY DEF TypeOK, WriterTypeOK
<1>i. wpc \in Writing \cup {"close"} =>
        /\ \A r \in 0 .. recorded - 1 : offs[r] <= HeaderSize + r * K
        /\ wpc \in {"bitmask", "tiles"} => pos <= HeaderSize + recorded * K
  BY DEF GrowthInv
<1>g. SUFFICES wpc' \in Writing \cup {"close"} =>
        /\ \A r \in 0 .. recorded' - 1 : offs'[r] <= HeaderSize + r * K
        /\ wpc' \in {"bitmask", "tiles"} => pos' <= HeaderSize + recorded' * K
  BY DEF GrowthInv
<1> HIDE DEF K
<1> USE DEF Writing
<1>1. CASE OpenMap
  <2>1. recorded' = 0 /\ pos' = HeaderSize
    BY <1>1 DEF OpenMap, CountInv
  <2> QED
    BY <2>1, <1>k
<1>2. CASE FeedBitmask
  BY <1>2, <1>i DEF FeedBitmask, localVars
<1>3. CASE SkipTile
  BY <1>3, <1>i DEF SkipTile
<1>4. CASE RecordOffset /\ wpc = "tiles" /\ wpc' \in {"chunks", "directory"} /\ pos' = pos
  <2>1. /\ recorded' = recorded + 1 /\ offs'[recorded] = pos
        /\ \A r \in 0 .. recorded - 1 : offs'[r] = offs[r]
    BY <1>4, RecordedOffsets
  <2>2. ASSUME NEW r \in 0 .. recorded' - 1 PROVE offs'[r] <= HeaderSize + r * K
    <3>1. CASE r = recorded
      BY <1>4, <1>i, <2>1, <3>1
    <3>2. CASE r # recorded
      <4>1. r \in 0 .. recorded - 1
        BY <1>t, <2>1, <3>2
      <4> QED
        BY <1>4, <1>i, <2>1, <4>1
    <3> QED
      BY <3>1, <3>2
  <2> QED
    BY <1>4, <2>2
<1>5. CASE WriteTileChunk
  <2>1. /\ wpc = "chunks" /\ pos' = pos + 1 /\ UNCHANGED <<offs, recorded>>
        /\ wpc' = "tiles" => part + 1 = size
        /\ wpc' \in {"tiles", "chunks"}
    BY <1>5 DEF WriteTileChunk
  <2>2. recorded >= 1
    BY <2>1, RecordedBound
  <2>3. size <= K
    BY <2>1, FormatsAssumption DEF CountInv, GrowthBounded, K
  <2>4. pos = offs[recorded - 1] + part
    BY <2>1 DEF PositionInv
  <2> DEFINE m == recorded - 1
  <2>5. m \in Nat /\ recorded = m + 1 /\ m \in 0 .. recorded - 1
    BY <1>t, <2>2
  <2>6. offs[m] <= HeaderSize + m * K /\ offs[m] \in Nat
    BY <1>i, <1>t, <2>1, <2>5
  <2>7. recorded * K = m * K + K /\ m * K \in Nat
    BY <1>k, <2>5, MulNext
  <2>8. wpc' = "tiles" => pos' <= HeaderSize + recorded * K
    BY <1>k, <1>t, <2>1, <2>3, <2>4, <2>6, <2>7
  <2> QED
    BY <1>i, <2>1, <2>8
<1>6. CASE wpc = "directory" /\ wpc' \in {"directory", "header"} /\ UNCHANGED <<offs, recorded>>
  BY <1>i, <1>6
<1>7. CASE WriteHeader
  BY <1>i, <1>7 DEF WriteHeader, localVars
<1>8. CASE wpc' = "idle"
  BY <1>8
<1> QED
  BY <1>1, <1>2, <1>3, <1>4, <1>5, <1>6, <1>7, <1>8
  DEF WriterStep, BeginTile, EndTiles, WriteDirectoryChunk, CloseMap, FailBake, WriterReturns

-----------------------------------------------------------------------------
(* Offsets.                                                                 *)

(* What holds of the half-written file as far as offsets go.                *)
SizesInv == TypeOK /\ JobInv /\ CountInv /\ PositionInv /\ GrowthInv

LEMMA SizesInit == Init => SizesInv
<1> SUFFICES ASSUME Init PROVE SizesInv
  OBVIOUS
<1> QED
  BY TypeInit DEF Init, WriterInit, LocalsInit, SizesInv, JobInv, CountInv, PositionInv, GrowthInv,
     Writing, Finished

LEMMA SizesNext ==
  ASSUME SizesInv, GrowthBounded, [Next]_vars
  PROVE  SizesInv'
<1> USE DEF SizesInv
<1>1. TypeOK' /\ JobInv' /\ CountInv'
  BY TypeNext, JobStep, CountNext
<1>2. CASE wpc' \in {"idle", "open"}
  <2>1. PositionInv' /\ GrowthInv'
    BY <1>1, <1>2 DEF PositionInv, GrowthInv, Writing
  <2> QED
    BY <1>1, <2>1
<1>3. CASE UNCHANGED <<disk, writeVars>>
  BY <1>1, <1>3 DEF PositionInv, GrowthInv, writeVars, localVars
<1>4. CASE WriterStep
  BY <1>1, <1>4, PositionStep, GrowthStep
<1>5. CASE ReaderStep /\ UNCHANGED writeVars
  BY <1>3, <1>5 DEF ReaderStep, ReadDirectory, ReadTile, DrawTile, FinishPreview, AbortPreview
<1> QED
  BY <1>2, <1>3, <1>4, <1>5
  DEF Next, Bake, PrepareMap, Preview, PreparePreview, Crash, WriterCrash, WriterReturns, vars

(* An offset of a map with 32-bit offsets is at most the estimated size.    *)
LEMMA SizesFit ==
  ASSUME SizesInv
  PROVE  OffsetsFit
<1> SUFFICES ASSUME wpc # "idle", job.fmt = "Hybrid_32", NEW k \in 0 .. recorded - 1
             PROVE  offs[k] <= Max32
  BY DEF OffsetsFit
<1> USE FormatsAssumption DEF SizesInv
<1> DEFINE n == Cardinality(job.bits)
<1>1. n \in Nat /\ n <= NumTiles /\ recorded \in Nat /\ recorded <= n + 1
  BY RecordedBound DEF TypeOK, WriterTypeOK
<1>2. HeaderSize + n * RawTile + NumTiles + n <= Max32
  BY DEF JobInv, JobSound, ComputeFullSize
<1>3. recorded # 0
  BY <1>1
<1>4. wpc \in Writing \cup {"close"}
  BY <1>3 DEF CountInv, Writing, TypeOK, WriterTypeOK, WriterStates
<1>5. offs[k] <= HeaderSize + k * (RawTile + 2) /\ offs[k] \in Nat
  BY <1>4 DEF GrowthInv, TypeOK, WriterTypeOK
<1>6. k \in Nat /\ k <= n
  BY <1>1
<1>7. k * (RawTile + 2) <= n * (RawTile + 2)
  BY <1>1, <1>6, MulMono
<1>8. n * (RawTile + 2) = n * RawTile + n + n /\ n * RawTile \in Nat
  BY <1>1
<1> HIDE DEF n
<1>9. k * (RawTile + 2) \in Nat
  BY <1>6
<1> QED
  BY <1>1, <1>2, <1>5, <1>7, <1>8, <1>9

(* The assertion of the offsets recorder never fires: while packing a tile  *)
(* grows it by no more than two words, no offset of a map that RunBake gave *)
(* 32-bit offsets exceeds them.                                             *)
THEOREM OffsetsNeverOverflow ==
  GrowthBounded /\ Spec => []OffsetsFit
<1> SUFFICES ASSUME GrowthBounded PROVE Spec => []OffsetsFit
  OBVIOUS
<1>1. Init => SizesInv
  BY SizesInit
<1>2. SizesInv /\ [Next]_vars => SizesInv'
  BY SizesNext
<1>3. SizesInv => OffsetsFit
  BY SizesFit
<1> QED
  BY <1>1, <1>2, <1>3, PTL DEF Spec

-----------------------------------------------------------------------------
(* Spacing.                                                                 *)

(* Unpacked tiles are written one raw tile apart.                           *)
LEMMA SpacingStep ==
  ASSUME TypeOK, CountInv, PositionInv, SpacingInv, WriterStep
  PROVE  SpacingInv'
<1>k. RawTile \in Nat /\ HeaderSize \in Nat
  BY FormatsAssumption
<1>t. /\ pos \in Nat /\ part \in Nat /\ recorded \in Nat /\ size \in Nat
      /\ \A r \in 0 .. recorded - 1 : offs[r] \in Nat
  BY DEF TypeOK, WriterTypeOK
<1>i. wpc \in Writing \cup {"close"} /\ ~PacksTiles =>
        /\ \A r \in 0 .. recorded - 1 : offs[r] = HeaderSize + r * RawTile
        /\ wpc \in {"bitmask", "tiles"} => pos = HeaderSize + recorded * RawTile
  BY DEF SpacingInv
<1>g. SUFFICES wpc' \in Writing \cup {"close"} /\ ~PacksTiles' =>
        /\ \A r \in 0 .. recorded' - 1 : offs'[r] = HeaderSize + r * RawTile
        /\ wpc' \in {"bitmask", "tiles"} => pos' = HeaderSize + recorded' * RawTile
  BY DEF SpacingInv
<1> USE DEF Writing, PacksTiles
<1>1. CASE OpenMap
  <2>1. recorded' = 0 /\ pos' = HeaderSize
    BY <1>1 DEF OpenMap, CountInv
  <2> QED
    BY <2>1, <1>k
<1>2. CASE FeedBitmask
  BY <1>2, <1>i DEF FeedBitmask, localVars
<1>3. CASE SkipTile
  BY <1>3, <1>i DEF SkipTile
<1>4. CASE RecordOffset /\ wpc = "tiles" /\ wpc' \in {"chunks", "directory"}
           /\ UNCHANGED <<job, pos>>
  <2>1. /\ recorded' = recorded + 1 /\ offs'[recorded] = pos
        /\ \A r \in 0 .. recorded - 1 : offs'[r] = offs[r]
    BY <1>4, RecordedOffsets
  <2>2. ASSUME ~PacksTiles', NEW r \in 0 .. recorded' - 1
        PROVE  offs'[r] = HeaderSize + r * RawTile
    <3>1. CASE r = recorded
      BY <1>4, <1>i, <2>1, <2>2, <3>1
    <3>2. CASE r # recorded
      <4>1. r \in 0 .. recorded - 1
        BY <1>t, <2>1, <3>2
      <4> QED
        BY <1>4, <1>i, <2>1, <2>2, <4>1
    <3> QED
      BY <3>1, <3>2
  <2> QED
    BY <1>4, <2>2
<1>5. CASE WriteTileChunk
  <2>1. /\ wpc = "chunks" /\ pos' = pos + 1 /\ UNCHANGED <<job, offs, recorded>>
        /\ wpc' = "tiles" => part + 1 = size
        /\ wpc' \in {"tiles", "chunks"}
    BY <1>5 DEF WriteTileChunk
  <2>2. recorded >= 1
    BY <2>1, RecordedBound
  <2>3. ~PacksTiles => size = RawTile
    BY <2>1 DEF CountInv
  <2>4. pos = offs[recorded - 1] + part
    BY <2>1 DEF PositionInv
  <2> DEFINE m == recorded - 1
  <2>5. m \in Nat /\ recorded = m + 1 /\ m \in 0 .. recorded - 1
    BY <1>t, <2>2
  <2>6. ~PacksTiles => offs[m] = HeaderSize + m * RawTile
    BY <1>i, <1>t, <2>1, <2>5
  <2>7. recorded * RawTile = m * RawTile + RawTile /\ m * RawTile \in Nat
    BY <1>k, <2>5, MulNext
  <2>8. ~PacksTiles /\ wpc' = "tiles" => pos' = HeaderSize + recorded * RawTile
    BY <1>k, <1>t, <2>1, <2>3, <2>4, <2>6, <2>7
  <2> QED
    BY <1>i, <2>1, <2>8
<1>6. CASE wpc = "directory" /\ wpc' \in {"directory", "header"} /\ UNCHANGED <<job, offs, recorded>>
  BY <1>i, <1>6
<1>7. CASE WriteHeader
  BY <1>i, <1>7 DEF WriteHeader, localVars
<1>8. CASE wpc' = "idle"
  BY <1>8
<1> QED
  BY <1>1, <1>2, <1>3, <1>4, <1>5, <1>6, <1>7, <1>8
  DEF WriterStep, BeginTile, EndTiles, WriteDirectoryChunk, CloseMap, FailBake, WriterReturns

-----------------------------------------------------------------------------
(* Tiles.                                                                   *)

(* Holds, of any file.                                                      *)
HoldsIn(file, at, n, i, v, enc) ==
  /\ n > 0
  /\ \A k \in 0 .. n - 1 :
       at + k \in DOMAIN file /\ file[at + k] = TileWord(i, v, enc, k, n)

Stop(os, n, p, r) == IF r + 1 < n THEN os[r + 1] ELSE p

(* Tile i of job j is whole in a file of which n offsets were recorded and  *)
(* whose end is p.                                                          *)
TileIn(file, os, n, p, j, i) ==
  LET r == Rank(j.bits, i)
  IN  HoldsIn(file, os[r], Stop(os, n, p, r) - os[r], i, j.raster, Enc(j))

PartIn(file, at, j, t, k, n) ==
  at + k \in DOMAIN file /\ file[at + k] = TileWord(t, j.raster, Enc(j), k, n)

TilesAre(w, file, os, n, p, j, t, pt, sz) ==
  /\ w \in {"tiles", "chunks"} \cup Finished =>
       \A i \in j.bits : i < t => TileIn(file, os, n, p, j, i)
  /\ w = "chunks" => \A k \in 0 .. pt - 1 : PartIn(file, os[n - 1], j, t, k, sz)

LEMMA TilesInvIs ==
  /\ TilesInv <=> TilesAre(wpc, disk, offs, recorded, pos, job, tile, part, size)
  /\ TilesInv' <=> TilesAre(wpc', disk', offs', recorded', pos', job', tile', part', size')
  BY DEF TilesInv, TilesAre, TileIn, PartIn, HoldsIn, Holds, Stop, End

(* A whole tile stays whole when a word is written past it, and when the    *)
(* position is recorded.                                                    *)
LEMMA TileKeptByPut ==
  ASSUME NEW file, NEW os, NEW n, NEW p, NEW p2, NEW j, NEW i, NEW q, NEW w,
         TileIn(file, os, n, p, j, i), q \notin DOMAIN file, Rank(j.bits, i) + 1 < n
  PROVE  TileIn(Put(file, q, w), os, n, p2, j, i)
<1>1. \A x \in DOMAIN file : x \in DOMAIN Put(file, q, w) /\ Put(file, q, w)[x] = file[x]
  BY DEF Put
<1> QED
  BY <1>1 DEF TileIn, HoldsIn, Stop

LEMMA TileKeptByRecord ==
  ASSUME NEW n \in Nat, NEW file, NEW os, NEW os2, NEW p, NEW j, NEW i,
         TileIn(file, os, n, p, j, i), Rank(j.bits, i) \in Nat, Rank(j.bits, i) + 1 <= n,
         os2[n] = p, \A r \in 0 .. n - 1 : os2[r] = os[r]
  PROVE  TileIn(file, os2, n + 1, p, j, i)
<1> DEFINE r == Rank(j.bits, i)
<1>1. os2[r] = os[r]
  OBVIOUS
<1>2. Stop(os2, n + 1, p, r) = Stop(os, n, p, r)
  <2>1. CASE r + 1 = n
    BY <2>1 DEF Stop
  <2>2. CASE r + 1 # n
    <3>1. r + 1 \in 0 .. n - 1
      BY <2>2
    <3> QED
      BY <3>1 DEF Stop
  <2> QED
    BY <2>1, <2>2
<1> QED
  BY <1>1, <1>2 DEF TileIn

(* Every tile below tileIndex has an offset and an end.                     *)
LEMMA RankRecorded ==
  ASSUME TypeOK, CountInv, wpc \in {"tiles", "chunks"} \cup Finished,
         NEW i \in job.bits, i < tile
  PROVE  /\ Rank(job.bits, i) \in Nat
         /\ Rank(job.bits, i) + 1 <= recorded
         /\ wpc # "tiles" => Rank(job.bits, i) + 1 < recorded
<1> USE FormatsAssumption
<1>1. /\ job.bits \in SUBSET Tiles /\ tile \in 0 .. NumTiles /\ recorded \in Nat
      /\ Rank(job.bits, NumTiles) = Cardinality(job.bits) /\ Cardinality(job.bits) \in Nat
  BY RecordedBound, RankAll DEF TypeOK, WriterTypeOK, Finished
<1>2. /\ Rank(job.bits, i) \in Nat /\ Rank(job.bits, tile) \in Nat
      /\ Rank(job.bits, i) + 1 <= Rank(job.bits, tile)
  BY <1>1, RankBelow
<1>3. wpc \in Finished => tile = NumTiles /\ recorded = Cardinality(job.bits) + 1
  BY DEF CountInv
<1>4. wpc = "tiles" => recorded = Rank(job.bits, tile)
  BY DEF CountInv
<1>5. wpc = "chunks" => recorded = Rank(job.bits, tile) + 1
  BY DEF CountInv
<1> QED
  BY <1>1, <1>2, <1>3, <1>4, <1>5

(* Every tile that was written is whole and where its offset says.          *)
LEMMA TilesStep ==
  ASSUME TypeOK, CountInv, PositionInv, TilesInv, WriterStep
  PROVE  TilesInv'
<1> USE FormatsAssumption, LayoutAssumption
<1>t. /\ pos \in Nat /\ part \in Nat /\ recorded \in Nat /\ size \in Nat /\ tile \in Nat
      /\ DOMAIN disk \subseteq Nat
      /\ wpc # "idle" => job.bits \subseteq Tiles
      /\ \A r \in 0 .. recorded - 1 : offs[r] \in Nat
  BY DEF TypeOK, WriterTypeOK, DiskTypeOK, Jobs
<1>i. TilesAre(wpc, disk, offs, recorded, pos, job, tile, part, size)
  BY TilesInvIs
<1>g. SUFFICES TilesAre(wpc', disk', offs', recorded', pos', job', tile', part', size')
  BY TilesInvIs
<1>w. wpc \in Writing => pos \notin DOMAIN disk
  BY <1>t DEF PositionInv
<1>1. CASE OpenMap \/ FeedBitmask
  <2>1. tile' = 0 /\ job'.bits \subseteq Nat /\ wpc' \in {"bitmask", "tiles"}
    BY <1>1, <1>t DEF OpenMap, FeedBitmask, localVars, CountInv, Tiles
  <2> QED
    BY <2>1 DEF TilesAre, Finished
<1>2. CASE SkipTile
  <2>1. /\ wpc = "tiles" /\ tile \notin job.bits /\ tile' = tile + 1
        /\ UNCHANGED <<wpc, disk, offs, recorded, pos, job>>
    BY <1>2 DEF SkipTile
  <2>2. \A i \in job.bits : i < tile + 1 => i < tile
    BY <1>t, <2>1 DEF Tiles
  <2> QED
    BY <1>i, <2>1, <2>2 DEF TilesAre
<1>3. CASE /\ RecordOffset /\ wpc = "tiles" /\ wpc' \in {"chunks", "directory"}
           /\ part' = 0 /\ UNCHANGED <<disk, pos, job, tile>>
  <2>1. /\ recorded' = recorded + 1 /\ offs'[recorded] = pos
        /\ \A r \in 0 .. recorded - 1 : offs'[r] = offs[r]
    BY <1>3, RecordedOffsets
  <2>2. ASSUME NEW i \in job.bits, i < tile
        PROVE  TileIn(disk, offs', recorded + 1, pos, job, i)
    <3>1. TileIn(disk, offs, recorded, pos, job, i)
      BY <1>3, <1>i, <2>2 DEF TilesAre
    <3>2. Rank(job.bits, i) \in Nat /\ Rank(job.bits, i) + 1 <= recorded
      BY <1>3, <2>2, RankRecorded
    <3> QED
      BY <1>t, <2>1, <3>1, <3>2, TileKeptByRecord
  <2> QED
    BY <1>3, <2>1, <2>2 DEF TilesAre
<1>4. CASE WriteTileChunk
  <2> DEFINE word == TileWord(tile, job.raster, Enc(job), part, size)
             at == offs[recorded - 1]
  <2>1. /\ wpc = "chunks" /\ disk' = Put(disk, pos, word) /\ pos' = pos + 1 /\ part' = part + 1
        /\ UNCHANGED <<job, size, recorded, offs>>
        /\ \/ part + 1 = size /\ tile' = tile + 1 /\ wpc' = "tiles"
           \/ part + 1 # size /\ tile' = tile /\ wpc' = "chunks"
    BY <1>4 DEF WriteTileChunk, Enc, PacksTiles
  <2>2. /\ recorded >= 1 /\ tile \in job.bits /\ recorded = Rank(job.bits, tile) + 1
        /\ part < size
    BY <2>1, RecordedBound DEF CountInv
  <2>3. at \in Nat /\ pos = at + part
    BY <1>t, <2>1, <2>2 DEF PositionInv
  <2>4. ASSUME NEW i \in job.bits, i < tile
        PROVE  TileIn(disk', offs, recorded, pos', job, i)
    <3>1. TileIn(disk, offs, recorded, pos, job, i)
      BY <1>i, <2>1, <2>4 DEF TilesAre
    <3>2. Rank(job.bits, i) + 1 < recorded
      BY <2>1, <2>4, RankRecorded
    <3>3. pos \notin DOMAIN disk
      BY <1>w, <2>1 DEF Writing
    <3> QED
      BY <2>1, <3>1, <3>2, <3>3, TileKeptByPut
  <2>5. ASSUME NEW k \in 0 .. part
        PROVE  PartIn(disk', at, job, tile, k, size)
    <3>1. CASE k = part
      BY <2>1, <2>3, <3>1 DEF PartIn, Put
    <3>2. CASE k # part
      <4>1. k \in 0 .. part - 1
        BY <1>t, <3>2
      <4>2. PartIn(disk, at, job, tile, k, size)
        BY <1>i, <2>1, <4>1 DEF TilesAre
      <4>3. pos \notin DOMAIN disk
        BY <1>w, <2>1 DEF Writing
      <4>4. \A x \in DOMAIN disk : x \in DOMAIN disk' /\ disk'[x] = disk[x]
        BY <2>1, <4>3 DEF Put
      <4> QED
        BY <4>2, <4>4 DEF PartIn
    <3> QED
      BY <3>1, <3>2
  <2>6. CASE part + 1 = size
    <3>1. TileIn(disk', offs, recorded, pos', job, tile)
      <4>1. Rank(job.bits, tile) = recorded - 1
        <5>1. Rank(job.bits, tile) \in Nat
          BY <1>t, <2>1, <2>2, RankStep
        <5> QED
          BY <2>2, <5>1
      <4>2. Stop(offs, recorded, pos', recorded - 1) = pos'
        BY <1>t DEF Stop
      <4>3. pos' - at = size /\ size > 0
        BY <1>t, <2>1, <2>3, <2>6
      <4>4. \A k \in 0 .. size - 1 : PartIn(disk', at, job, tile, k, size)
        BY <1>t, <2>5, <2>6
      <4> HIDE DEF at
      <4>5. HoldsIn(disk', at, size, tile, job.raster, Enc(job))
        BY <4>3, <4>4 DEF HoldsIn, PartIn
      <4> QED
        BY <4>1, <4>2, <4>3, <4>5 DEF TileIn, at
    <3>2. \A i \in job.bits : i < tile + 1 => i < tile \/ i = tile
      BY <1>t, <2>1 DEF Tiles
    <3> QED
      BY <2>1, <2>4, <2>6, <3>1, <3>2 DEF TilesAre
  <2>7. CASE part + 1 # size
    <3>1. \A k \in 0 .. part' - 1 : PartIn(disk', at, job, tile, k, size)
      BY <1>t, <2>1, <2>5
    <3> QED
      BY <2>1, <2>4, <2>7, <3>1 DEF TilesAre
  <2> QED
    BY <2>6, <2>7
<1>5. CASE WriteDirectoryChunk
  <2>1. /\ wpc = "directory" /\ disk' = Put(disk, pos, DirectoryWord(part))
        /\ wpc' \in {"directory", "header"} /\ UNCHANGED <<job, tile, recorded, offs>>
    BY <1>5 DEF WriteDirectoryChunk
  <2>2. ASSUME NEW i \in job.bits, i < tile
        PROVE  TileIn(disk', offs, recorded, pos', job, i)
    <3>1. TileIn(disk, offs, recorded, pos, job, i)
      BY <1>i, <2>1, <2>2 DEF TilesAre, Finished
    <3>2. Rank(job.bits, i) + 1 < recorded
      BY <2>1, <2>2, RankRecorded DEF Finished
    <3>3. pos \notin DOMAIN disk
      BY <1>w, <2>1 DEF Writing
    <3> QED
      BY <2>1, <3>1, <3>2, <3>3, TileKeptByPut
  <2> QED
    BY <2>1, <2>2 DEF TilesAre
<1>6. CASE WriteHeader
  <2>1. wpc = "header" /\ wpc' = "close" /\ UNCHANGED <<job, tile, recorded, offs, pos>>
        /\ \E w : disk' = Put(disk, 0, w)
    BY <1>6 DEF WriteHeader, localVars
  <2>2. ASSUME NEW i \in job.bits, i < tile
        PROVE  TileIn(disk', offs, recorded, pos', job, i)
    <3>1. TileIn(disk, offs, recorded, pos, job, i)
      BY <1>i, <2>1, <2>2 DEF TilesAre, Finished
    <3>2. Rank(job.bits, i) + 1 < recorded
      BY <2>1, <2>2, RankRecorded DEF Finished
    <3>3. 0 \notin DOMAIN disk
      BY <2>1 DEF PositionInv, Writing
    <3> QED
      BY <2>1, <3>1, <3>2, <3>3, TileKeptByPut
  <2> QED
    BY <2>1, <2>2 DEF TilesAre
<1>7. CASE wpc' = "idle"
  BY <1>7 DEF TilesAre, Finished
<1> QED
  BY <1>1, <1>2, <1>3, <1>4, <1>5, <1>6, <1>7
  DEF WriterStep, BeginTile, EndTiles, CloseMap, FailBake, WriterReturns

-----------------------------------------------------------------------------
(* The directory.                                                           *)

(* The directory is the rest of the file after the tiles.                   *)
LEMMA DirectoryStep ==
  ASSUME TypeOK, CountInv, PositionInv, DirectoryInv, WriterStep
  PROVE  DirectoryInv'
<1> USE FormatsAssumption, LayoutAssumption
<1>t. /\ pos \in Nat /\ part \in Nat /\ recorded \in Nat /\ dirAt \in Nat
      /\ DOMAIN disk \subseteq Nat
  BY DEF TypeOK, WriterTypeOK, DiskTypeOK
<1>1. CASE wpc' \notin Finished
  BY <1>1 DEF DirectoryInv
<1>2. CASE EndTiles
  <2>1. recorded' = recorded + 1 /\ offs'[recorded] = pos
    BY <1>2, RecordedOffsets DEF EndTiles
  <2>2. dirAt' = pos /\ pos' = pos /\ part' = 0 /\ wpc' = "directory"
    BY <1>2 DEF EndTiles
  <2>3. offs'[recorded' - 1] = pos
    BY <1>t, <2>1
  <2> QED
    BY <1>t, <2>2, <2>3 DEF DirectoryInv
<1>3. CASE WriteDirectoryChunk
  <2>1. /\ wpc = "directory" /\ pos' = pos + 1 /\ part' = part + 1
        /\ disk' = Put(disk, pos, DirectoryWord(part))
        /\ \/ part + 1 = DirectoryLength /\ wpc' = "header"
           \/ part + 1 # DirectoryLength /\ wpc' = "directory"
        /\ UNCHANGED <<job, recorded, offs, fed, dirAt>>
    BY <1>3 DEF WriteDirectoryChunk
  <2>2. /\ dirAt = offs[recorded - 1] /\ pos = dirAt + part
        /\ \A k \in 0 .. part - 1 : dirAt + k \in DOMAIN disk /\ disk[dirAt + k] = DirectoryWord(k)
    BY <2>1 DEF DirectoryInv, Finished
  <2>3. pos \notin DOMAIN disk
    BY <1>t, <2>1 DEF PositionInv, Writing
  <2>4. \A k : DirectoryWord(k)' = DirectoryWord(k)
    BY <2>1 DEF DirectoryWord, PacksDirectory
  <2>5. DirectoryLength' = DirectoryLength
    BY <2>1 DEF DirectoryLength, PacksDirectory, KeepsOffsets
  <2>6. ASSUME NEW k \in 0 .. part
        PROVE  dirAt + k \in DOMAIN disk' /\ disk'[dirAt + k] = DirectoryWord(k)
    <3>1. CASE k = part
      BY <2>1, <2>2, <3>1 DEF Put
    <3>2. CASE k # part
      <4>1. k \in 0 .. part - 1
        BY <1>t, <3>2
      <4> QED
        BY <2>1, <2>2, <2>3, <4>1 DEF Put
    <3> QED
      BY <3>1, <3>2
  <2>7. (IF wpc' = "directory" THEN part' ELSE DirectoryLength') = part + 1
    BY <2>1, <2>5
  <2>8. \A k \in 0 .. part' - 1 : k \in 0 .. part
    BY <1>t, <2>1
  <2>9. part' = part + 1 /\ pos' = dirAt + part' /\ dirAt' = offs'[recorded' - 1]
    BY <1>t, <2>1, <2>2
  <2>10. \A k \in 0 .. (part + 1) - 1 :
           dirAt' + k \in DOMAIN disk' /\ disk'[dirAt' + k] = DirectoryWord(k)'
    BY <2>1, <2>4, <2>6, <2>8
  <2> QED
    BY <2>1, <2>7, <2>9, <2>10 DEF DirectoryInv
<1>4. CASE WriteHeader
  <2>1. wpc = "header" /\ wpc' = "close" /\ UNCHANGED localVars
    BY <1>4 DEF WriteHeader
  <2>2. \A x \in DOMAIN disk : x \in DOMAIN disk' /\ disk'[x] = disk[x]
    <3>1. 0 \notin DOMAIN disk
      BY <2>1 DEF PositionInv, Writing
    <3>2. \E w : disk' = Put(disk, 0, w)
      BY <1>4 DEF WriteHeader
    <3> QED
      BY <3>1, <3>2 DEF Put
  <2>3. /\ dirAt = offs[recorded - 1]
        /\ \A k \in 0 .. DirectoryLength - 1 :
             dirAt + k \in DOMAIN disk /\ disk[dirAt + k] = DirectoryWord(k)
    BY <2>1 DEF DirectoryInv, Finished
  <2>4. \A k : DirectoryWord(k)' = DirectoryWord(k)
    BY <2>1 DEF DirectoryWord, PacksDirectory, localVars
  <2>5. DirectoryLength' = DirectoryLength
    BY <2>1 DEF DirectoryLength, PacksDirectory, KeepsOffsets, localVars
  <2>6. \A k \in 0 .. DirectoryLength' - 1 :
          dirAt' + k \in DOMAIN disk' /\ disk'[dirAt' + k] = DirectoryWord(k)'
    BY <2>1, <2>2, <2>3, <2>4, <2>5 DEF localVars
  <2>7. dirAt' = offs'[recorded' - 1]
    BY <2>1, <2>3 DEF localVars
  <2> QED
    BY <2>1, <2>6, <2>7 DEF DirectoryInv
<1> QED
  BY <1>1, <1>2, <1>3, <1>4
  DEF WriterStep, OpenMap, FeedBitmask, SkipTile, BeginTile, WriteTileChunk, CloseMap, FailBake,
      WriterReturns, Finished

-----------------------------------------------------------------------------
(* The sealed map.                                                          *)

(* The reader's view of any file.                                           *)
ReadableIn(file, h) ==
  /\ h.dirAt \in DOMAIN file
  /\ IF "Directory" \in h.blocks
     THEN file[h.dirAt].kind = "packed"
     ELSE /\ file[h.dirAt].kind = "bits"
          /\ \A k \in 1 .. h.rawDir - 1 :
               h.dirAt + k \in DOMAIN file /\ file[h.dirAt + k].kind = "offset"

BitsIn(file, h) == file[h.dirAt].bits

OffsetsIn(file, h) ==
  IF "Directory" \in h.blocks
  THEN file[h.dirAt].offs
  ELSE [k \in 0 .. h.rawDir - 2 |-> file[h.dirAt + 1 + k].at]

OffsetsOf(bits, h) == IF h.fmt = "Bitmask" THEN {} ELSE 0 .. Cardinality(bits)

WholeIn(file, j) ==
  0 \in DOMAIN file /\ file[0].kind = "header" =>
    LET h == file[0] IN
    /\ j \in Jobs
    /\ h.mask = j.mask
    /\ j.mask # "none" => IsValidMapHeader(h)
    /\ ReadableIn(file, h)
    /\ DOMAIN OffsetsIn(file, h) = OffsetsOf(BitsIn(file, h), h)
    /\ BitsIn(file, h) = j.bits
    /\ \A i \in j.bits :
         HoldsIn(file,
                 NodeOffset(h.fmt, j.bits, OffsetsIn(file, h), i),
                 NodeSize(h.fmt, j.bits, OffsetsIn(file, h), i),
                 i, j.raster, IF "Tiles" \in h.blocks THEN h.alg ELSE "None")

(* The directory gives every tile of a sealed map a position and a size.    *)
PlacedIn(file, j) ==
  0 \in DOMAIN file /\ file[0].kind = "header" =>
    LET h == file[0] IN
    \A i \in j.bits : /\ NodeOffset(h.fmt, j.bits, OffsetsIn(file, h), i) \in Nat
                      /\ NodeSize(h.fmt, j.bits, OffsetsIn(file, h), i) \in Int

SealedInv == SealedMapIsWhole /\ PlacedIn(disk, sealed)

LEMMA SealedMapIs ==
  /\ SealedMapIsWhole <=> WholeIn(disk, sealed)
  /\ SealedMapIsWhole' <=> WholeIn(disk', sealed')
  BY DEF SealedMapIsWhole, WholeIn, HasHeader, ParseDirectory, DirectoryReadable, ReadableIn,
     DirectoryBits, BitsIn, DirectoryOffsets, OffsetsIn, OffsetsOf, Holds, HoldsIn

(* Everything the bake relies on until its header is written.               *)
BakeInv == SizesInv /\ SpacingInv /\ TilesInv /\ DirectoryInv

(* The writer's 32-bit count of tiles is the one the reader expects.        *)
LEMMA CountsAgree ==
  ASSUME NEW n \in {GridWidth, GridHeight}
  PROVE  TileCount(n) = ((n + TileSize - 1) \div TileSize) % Word
<1> DEFINE t == TileSize
           m == n + t - 1
           q == m \div t
<1>1. t \in Nat \ {0} /\ n \in Nat \ {0} /\ n + t <= Word /\ Word \in Nat
  BY GridAssumption
<1> HIDE DEF t
<1>2. m \in Nat /\ m < Word /\ Word \in Nat \ {0}
  BY <1>1
<1>3. m % Word = m
  BY <1>2
<1>4. q \in Nat /\ m = t * q + (m % t) /\ m % t \in 0 .. t - 1
  BY <1>1, <1>2
<1> HIDE DEF q
<1>5. 1 * q <= t * q /\ 1 * q = q /\ t * q \in Nat
  BY <1>1, <1>4, MulMono
<1> HIDE DEF m
<1>6. q <= m
  BY <1>2, <1>4, <1>5
<1>7. q % Word = q
  BY <1>2, <1>4, <1>6
<1> QED
  BY <1>3, <1>7 DEF TileCount, q, m, t

(* The header completes a whole map.                                        *)
LEMMA HeaderSeals ==
  ASSUME BakeInv, WriteHeader
  PROVE  SealedInv'
<1> USE FormatsAssumption, LayoutAssumption DEF BakeInv, SizesInv
<1> DEFINE raw == RawDirectorySize
           packed == IF PacksDirectory THEN 1 ELSE 0
           h == HeaderWord(job.fmt, job.mask, job.alg, job.blocks, dirAt, raw, packed)
           n == Cardinality(job.bits)
<1>1. /\ wpc = "header" /\ sealed' = job /\ disk' = Put(disk, 0, h)
  BY DEF WriteHeader
<1>2. /\ job \in Jobs /\ JobSound(job) /\ dirAt \in Nat
      /\ \A r \in 0 .. recorded - 1 : offs[r] \in Nat
  BY <1>1 DEF TypeOK, WriterTypeOK, JobInv
<1>3. /\ n \in Nat /\ recorded = n + 1 /\ tile = NumTiles
      /\ fed = IF StreamsOffsets THEN n + 1 ELSE 0
  <2>1. n \in Nat
    BY <1>1, RecordedBound
  <2> QED
    BY <1>1, <2>1 DEF CountInv, Finished
<1>4. /\ 0 \notin DOMAIN disk
      /\ \A r \in 0 .. n : offs[r] >= HeaderSize
  BY <1>1, <1>3 DEF PositionInv, Writing
<1>5. /\ 0 \in DOMAIN disk' /\ disk'[0] = h
      /\ \A x \in DOMAIN disk : x \in DOMAIN disk' /\ disk'[x] = disk[x]
  BY <1>1, <1>4 DEF Put
<1>6. /\ dirAt = offs[n]
      /\ \A k \in 0 .. DirectoryLength - 1 :
           dirAt + k \in DOMAIN disk' /\ disk'[dirAt + k] = DirectoryWord(k)
  <2>1. recorded - 1 = n
    BY <1>3
  <2> QED
    BY <1>1, <1>5, <2>1 DEF DirectoryInv, Finished
<1>7. dirAt # 0
  BY <1>2, <1>3, <1>4, <1>6
<1>8. /\ h.kind = "header" /\ h.fmt = job.fmt /\ h.alg = job.alg /\ h.blocks = job.blocks
      /\ h.dirAt = dirAt /\ h.rawDir = raw /\ h.packedDir = packed /\ h.mask = job.mask
      /\ h.countX = TileCount(GridWidth) /\ h.countY = TileCount(GridHeight)
  BY DEF HeaderWord
<1>9. /\ job.fmt \in Formats /\ job.alg \in Algs /\ job.blocks \subseteq Blocks
      /\ job.bits \in SUBSET Tiles
  BY <1>2 DEF Jobs
<1>10. raw = 1 + (IF KeepsOffsets THEN n + 1 ELSE 0) /\ raw \in Nat \ {0}
  BY <1>3 DEF RawDirectorySize
<1> HIDE DEF h, n, raw
<1>11. job.mask # "none" => IsValidMapHeader(h)
  <2>1. /\ h.countX = ((GridWidth + TileSize - 1) \div TileSize) % Word
        /\ h.countY = ((GridHeight + TileSize - 1) \div TileSize) % Word
    BY <1>8, GridAssumption, CountsAgree
  <2> QED
    BY <1>2, <1>7, <1>8, <1>9, <1>10, <2>1 DEF IsValidMapHeader, JobSound, PacksDirectory
<1>12. /\ ReadableIn(disk', h) /\ BitsIn(disk', h) = job.bits
       /\ DOMAIN OffsetsIn(disk', h) = OffsetsOf(job.bits, h)
       /\ job.fmt # "Bitmask" =>
            \A r \in 0 .. n : OffsetsIn(disk', h)[r] = Cast(job.fmt, offs[r])
  <2>1. CASE PacksDirectory
    <3>1. DirectoryLength = 1 /\ 0 \in 0 .. DirectoryLength - 1
      BY <2>1 DEF DirectoryLength
    <3>2. dirAt + 0 = dirAt
      BY <1>2
    <3>3. /\ dirAt \in DOMAIN disk'
          /\ disk'[dirAt] = PackedWord(job.bits, [r \in 0 .. fed - 1 |-> Cast(job.fmt, offs[r])])
      BY <1>6, <2>1, <3>1, <3>2 DEF DirectoryWord
    <3>4. ReadableIn(disk', h) /\ BitsIn(disk', h) = job.bits
      BY <1>8, <2>1, <3>3 DEF ReadableIn, BitsIn, PackedWord, PacksDirectory
    <3>5. OffsetsIn(disk', h) = [r \in 0 .. fed - 1 |-> Cast(job.fmt, offs[r])]
      BY <1>8, <2>1, <3>3 DEF OffsetsIn, PackedWord, PacksDirectory
    <3>6. CASE job.fmt = "Bitmask"
      <4>1. 0 .. fed - 1 = {}
        BY <1>3, <3>6 DEF StreamsOffsets, KeepsOffsets
      <4> QED
        BY <1>8, <3>4, <3>5, <3>6, <4>1 DEF OffsetsOf
    <3>7. CASE job.fmt # "Bitmask"
      <4>1. 0 .. fed - 1 = 0 .. n
        BY <1>3, <2>1, <3>7 DEF StreamsOffsets, KeepsOffsets
      <4> QED
        BY <1>8, <3>4, <3>5, <3>7, <4>1 DEF OffsetsOf, n
    <3> QED
      BY <3>6, <3>7
  <2>2. CASE ~PacksDirectory
    <3>1. DirectoryLength = raw /\ DirectoryLength \in Nat \ {0}
      BY <1>3, <1>10, <2>2 DEF DirectoryLength
    <3>2. dirAt + 0 = dirAt
      BY <1>2
    <3>3. dirAt \in DOMAIN disk' /\ disk'[dirAt] = BitsWord(job.bits)
      BY <1>6, <2>2, <3>1, <3>2 DEF DirectoryWord
    <3>4. ASSUME NEW k \in 1 .. raw - 1
          PROVE  /\ dirAt + k \in DOMAIN disk'
                 /\ disk'[dirAt + k] = OffsetWord(Cast(job.fmt, offs[k - 1]))
      <4>1. k \in 0 .. DirectoryLength - 1 /\ k # 0
        BY <3>1
      <4> QED
        BY <1>6, <2>2, <4>1 DEF DirectoryWord
    <3>5. ReadableIn(disk', h) /\ BitsIn(disk', h) = job.bits
      <4>1. "Directory" \notin h.blocks /\ h.dirAt = dirAt /\ h.rawDir = raw
        BY <1>8, <2>2 DEF PacksDirectory
      <4>2. disk'[dirAt].kind = "bits" /\ disk'[dirAt].bits = job.bits
        BY <3>3 DEF BitsWord
      <4>3. ASSUME NEW k \in 1 .. raw - 1
            PROVE  dirAt + k \in DOMAIN disk' /\ disk'[dirAt + k].kind = "offset"
        <5>1. dirAt + k \in DOMAIN disk' /\ disk'[dirAt + k] = OffsetWord(Cast(job.fmt, offs[k - 1]))
          BY <3>4
        <5> QED
          BY <5>1 DEF OffsetWord
      <4> QED
        BY <3>3, <4>1, <4>2, <4>3 DEF ReadableIn, BitsIn
    <3>6. OffsetsIn(disk', h) = [k \in 0 .. raw - 2 |-> disk'[dirAt + 1 + k].at]
      BY <1>8, <2>2 DEF OffsetsIn, PacksDirectory
    <3>7. CASE job.fmt = "Bitmask"
      <4>1. 0 .. raw - 2 = {}
        BY <1>10, <3>7 DEF KeepsOffsets
      <4> QED
        BY <1>8, <3>5, <3>6, <3>7, <4>1 DEF OffsetsOf
    <3>8. CASE job.fmt # "Bitmask"
      <4>1. raw - 2 = n /\ raw - 1 = n + 1
        BY <1>3, <1>10, <3>8 DEF KeepsOffsets
      <4>2. ASSUME NEW r \in 0 .. n
            PROVE  OffsetsIn(disk', h)[r] = Cast(job.fmt, offs[r])
        <5>1. r + 1 \in 1 .. raw - 1 /\ (r + 1) - 1 = r /\ dirAt + 1 + r = dirAt + (r + 1)
          BY <1>2, <1>3, <4>1
        <5>2. disk'[dirAt + (r + 1)] = OffsetWord(Cast(job.fmt, offs[r]))
          BY <3>4, <5>1
        <5> QED
          BY <3>6, <4>1, <5>1, <5>2 DEF OffsetWord
      <4> QED
        BY <1>8, <3>5, <3>6, <3>8, <4>1, <4>2 DEF OffsetsOf, n
    <3> QED
      BY <3>7, <3>8
  <2> QED
    BY <2>1, <2>2
<1>13. job.fmt # "Bitmask" => \A r \in 0 .. n : OffsetsIn(disk', h)[r] = offs[r]
  <2>1. ASSUME job.fmt # "Bitmask", NEW r \in 0 .. n
        PROVE  Cast(job.fmt, offs[r]) = offs[r]
    <3>1. r \in 0 .. recorded - 1 /\ offs[r] \in Nat
      BY <1>2, <1>3
    <3>2. CASE job.fmt = "Hybrid_32"
      <4>1. offs[r] <= Max32
        BY <1>1, <3>1, <3>2, SizesFit DEF OffsetsFit
      <4> QED
        BY <3>1, <3>2, <4>1, ModSmall DEF Cast
    <3>3. CASE job.fmt # "Hybrid_32"
      BY <3>3 DEF Cast
    <3> QED
      BY <3>2, <3>3
  <2> QED
    BY <1>12, <2>1
<1>14. ASSUME NEW i \in job.bits
       PROVE  /\ HoldsIn(disk', NodeOffset(job.fmt, job.bits, OffsetsIn(disk', h), i),
                         NodeSize(job.fmt, job.bits, OffsetsIn(disk', h), i), i, job.raster, Enc(job))
              /\ NodeOffset(job.fmt, job.bits, OffsetsIn(disk', h), i) \in Nat
              /\ NodeSize(job.fmt, job.bits, OffsetsIn(disk', h), i) \in Int
  <2> DEFINE r == Rank(job.bits, i)
  <2>1. i < tile
    BY <1>3, <1>9 DEF Tiles
  <2>2. r \in Nat /\ r + 1 < recorded
    BY <1>1, <2>1, RankRecorded DEF Finished
  <2>3. r \in 0 .. n /\ r + 1 \in 0 .. n /\ r \in 0 .. recorded - 1 /\ r + 1 \in 0 .. recorded - 1
    BY <1>3, <2>2
  <2>4. HoldsIn(disk, offs[r], offs[r + 1] - offs[r], i, job.raster, Enc(job))
    <3>1. TileIn(disk, offs, recorded, pos, job, i)
      BY <1>1, <2>1, TilesInvIs DEF TilesAre, Finished
    <3> QED
      BY <2>2, <3>1 DEF TileIn, Stop
  <2>5. HoldsIn(disk', offs[r], offs[r + 1] - offs[r], i, job.raster, Enc(job))
    BY <1>5, <2>4 DEF HoldsIn
  <2>6. /\ NodeOffset(job.fmt, job.bits, OffsetsIn(disk', h), i) = offs[r]
        /\ NodeSize(job.fmt, job.bits, OffsetsIn(disk', h), i) = offs[r + 1] - offs[r]
    <3>1. CASE job.fmt = "Bitmask"
      <4>1. ~PacksTiles
        BY <1>2, <3>1 DEF JobSound, PacksTiles
      <4>2. offs[r] = HeaderSize + r * RawTile /\ offs[r + 1] = HeaderSize + (r + 1) * RawTile
        BY <1>1, <2>3, <4>1 DEF SpacingInv, Writing
      <4>3. (r + 1) * RawTile = r * RawTile + RawTile /\ r * RawTile \in Nat
        BY <2>2, MulNext
      <4>4. offs[r + 1] - offs[r] = RawTile
        BY <4>2, <4>3
      <4> QED
        BY <3>1, <4>2, <4>4 DEF NodeOffset, NodeSize
    <3>2. CASE job.fmt # "Bitmask"
      <4>1. OffsetsIn(disk', h)[r] = offs[r] /\ OffsetsIn(disk', h)[r + 1] = offs[r + 1]
        BY <1>13, <2>3, <3>2
      <4> QED
        BY <3>2, <4>1 DEF NodeOffset, NodeSize
    <3> QED
      BY <3>1, <3>2
  <2>7. offs[r] \in Nat /\ offs[r + 1] - offs[r] \in Int
    BY <1>2, <2>3
  <2> QED
    BY <2>5, <2>6, <2>7
<1>15. (IF "Tiles" \in h.blocks THEN h.alg ELSE "None") = Enc(job)
  BY <1>8 DEF Enc
<1>16. WholeIn(disk', job)
  BY <1>2, <1>5, <1>8, <1>11, <1>12, <1>14, <1>15 DEF WholeIn
<1>17. PlacedIn(disk', job)
  BY <1>5, <1>8, <1>14 DEF PlacedIn
<1> QED
  BY <1>1, <1>16, <1>17, SealedMapIs DEF SealedInv

(* Until the header is written nothing has the place of a header; after it  *)
(* the file only changes by losing it.                                      *)
LEMMA SealedNext ==
  ASSUME BakeInv, BakeInv', SealedInv, [Next]_vars
  PROVE  SealedInv'
<1>1. CASE UNCHANGED <<disk, sealed>>
  BY <1>1, SealedMapIs DEF SealedInv
<1>2. CASE 0 \notin DOMAIN disk'
  BY <1>2, SealedMapIs DEF SealedInv, WholeIn, PlacedIn
<1>3. CASE WriteHeader
  BY <1>3, HeaderSeals
<1>4. CASE wpc' \in Writing
  BY <1>2, <1>4, FormatsAssumption DEF BakeInv, SizesInv, PositionInv
<1>5. CASE CloseMap \/ FailBake \/ Crash
  BY <1>1, <1>2, <1>5
  DEF CloseMap, FailBake, Crash, WriterCrash, WriterReturns, Unsealed, EmptyFile
<1>6. CASE WriterStep
  BY <1>3, <1>4, <1>5, <1>6
  DEF WriterStep, OpenMap, FeedBitmask, SkipTile, BeginTile, WriteTileChunk, EndTiles,
      WriteDirectoryChunk, CloseMap, FailBake, Writing
<1> QED
  BY <1>1, <1>5, <1>6
  DEF Next, Bake, PrepareMap, Preview, PreparePreview, ReaderStep, ReadDirectory, ReadTile, DrawTile,
      FinishPreview, AbortPreview, vars, writeVars

LEMMA BakeInit == Init => BakeInv /\ SealedInv
<1> SUFFICES ASSUME Init PROVE BakeInv /\ SealedInv
  OBVIOUS
<1>1. wpc = "idle" /\ DOMAIN disk = {}
  BY DEF Init, WriterInit, EmptyFile
<1>2. SpacingInv /\ TilesInv /\ DirectoryInv
  BY <1>1 DEF SpacingInv, TilesInv, DirectoryInv, Writing, Finished
<1>3. SealedInv
  BY <1>1 DEF SealedInv, SealedMapIsWhole, HasHeader, PlacedIn
<1> QED
  BY <1>2, <1>3, SizesInit DEF BakeInv

LEMMA BakeNext ==
  ASSUME BakeInv, GrowthBounded, [Next]_vars
  PROVE  BakeInv'
<1> USE DEF BakeInv
<1>1. SizesInv'
  BY SizesNext
<1>2. CASE wpc' \in {"idle", "open"}
  BY <1>1, <1>2 DEF SpacingInv, TilesInv, DirectoryInv, Writing, Finished
<1>3. CASE UNCHANGED <<disk, writeVars>>
  <2>1. UNCHANGED <<disk, wpc, job, pos, tile, part, size, recorded, offs, fed, dirAt>>
    BY <1>3 DEF writeVars, localVars
  <2>2. SpacingInv'
    BY <2>1 DEF SpacingInv, PacksTiles
  <2>3. TilesInv'
    BY <2>1, TilesInvIs
  <2>4. DirectoryLength' = DirectoryLength /\ \A k : DirectoryWord(k)' = DirectoryWord(k)
    BY <2>1 DEF DirectoryLength, DirectoryWord, PacksDirectory, KeepsOffsets
  <2>5. DirectoryInv'
    BY <2>1, <2>4 DEF DirectoryInv
  <2> QED
    BY <1>1, <2>2, <2>3, <2>5
<1>4. CASE WriterStep
  BY <1>1, <1>4, SpacingStep, TilesStep, DirectoryStep DEF SizesInv
<1>5. CASE ReaderStep /\ UNCHANGED writeVars
  BY <1>3, <1>5 DEF ReaderStep, ReadDirectory, ReadTile, DrawTile, FinishPreview, AbortPreview
<1> QED
  BY <1>2, <1>3, <1>4, <1>5
  DEF Next, Bake, PrepareMap, Preview, PreparePreview, Crash, WriterCrash, WriterReturns, vars

(* A map that has a header is whole, wherever the editor died or whichever  *)
(* call failed: the directory the reader finds leads to every non-empty     *)
(* tile of the bake whose header it is.                                     *)
THEOREM SealedMapsAreWhole ==
  GrowthBounded /\ Spec => []SealedMapIsWhole
<1> SUFFICES ASSUME GrowthBounded PROVE Spec => []SealedMapIsWhole
  OBVIOUS
<1> DEFINE Inv == BakeInv /\ SealedInv
<1>1. Init => Inv
  BY BakeInit
<1>2. Inv /\ [Next]_vars => Inv'
  BY BakeNext, SealedNext
<1>3. Inv => SealedMapIsWhole
  BY DEF SealedInv
<1> QED
  BY <1>1, <1>2, <1>3, PTL DEF Spec

-----------------------------------------------------------------------------
(* The file is there from the moment it is opened until it is removed.      *)
LEMMA FileNext ==
  ASSUME TypeOK, FileInv, [Next]_vars
  PROVE  FileInv'
<1> USE DEF FileInv, Writing
<1>1. CASE UNCHANGED <<exists, disk>> /\ wpc' \in {"idle", "open"}
  BY <1>1
<1>2. CASE UNCHANGED <<exists, disk, wpc>>
  BY <1>2
<1>3. CASE OpenMap
  BY <1>3 DEF OpenMap
<1>4. CASE FeedBitmask \/ SkipTile \/ BeginTile \/ EndTiles
  BY <1>4 DEF FeedBitmask, SkipTile, BeginTile, EndTiles
<1>5. CASE WriteTileChunk \/ WriteDirectoryChunk \/ WriteHeader
  BY <1>5 DEF WriteTileChunk, WriteDirectoryChunk, WriteHeader
<1>6. CASE CloseMap \/ FailBake \/ Crash
  BY <1>6 DEF CloseMap, FailBake, Crash, WriterCrash, WriterReturns, Unsealed, EmptyFile
<1> QED
  BY <1>1, <1>2, <1>3, <1>4, <1>5, <1>6
  DEF Next, WriterStep, Bake, PrepareMap, Preview, PreparePreview, ReaderStep, ReadDirectory,
      ReadTile, DrawTile, FinishPreview, AbortPreview, vars, writeVars

-----------------------------------------------------------------------------
(* A preview.                                                               *)

(* How a preview may have ended.                                            *)
OutcomesInv == PreviewIsLatestBake /\ OnlyLZ4TilesUnreadable /\ RejectedIsUnsealed

PreviewInv == BakeInv /\ SealedInv /\ FileInv /\ ReaderInv /\ OutcomesInv

LEMMA WriterIsBusy ==
  ASSUME WriterStep
  PROVE  wpc # "idle"
  BY DEF WriterStep, OpenMap, FeedBitmask, SkipTile, BeginTile, WriteTileChunk, EndTiles,
     WriteDirectoryChunk, WriteHeader, CloseMap, FailBake

(* Preparing a preview: a header is refused only for its mask.              *)
LEMMA PrepareKeeps ==
  ASSUME PreviewInv, Preview
  PROVE  ReaderInv' /\ OutcomesInv'
<1> USE DEF Preview, PreparePreview, WorkerFree
<1>1. wpc' = "idle" /\ disk' = disk /\ exists' = exists /\ sealed' = sealed
  BY DEF writeVars
<1>2. HasHeader => exists /\ (sealed.mask # "none" => IsValidMapHeader(disk[0]))
  BY DEF PreviewInv, FileInv, SealedInv, SealedMapIsWhole, HasHeader
<1>3. HasHeader' <=> HasHeader
  BY <1>1 DEF HasHeader
<1>4. CASE rpc' = "directory"
  <2>1. HasHeader /\ header' = disk[0] /\ rtile' = 0 /\ image' = NoImage
    BY <1>4
  <2>2. \A i \in Tiles : image'[i] =
          IF i < rtile' THEN Picture(sealed'.bits, sealed'.raster)[i] ELSE Blank
    BY <2>1, FormatsAssumption DEF NoImage, Tiles
  <2>3. ReaderInv'
    BY <1>1, <1>2, <1>3, <1>4, <2>1, <2>2 DEF ReaderInv
  <2> QED
    BY <1>4, <2>3 DEF OutcomesInv, PreviewIsLatestBake, OnlyLZ4TilesUnreadable, RejectedIsUnsealed
<1>5. CASE rpc' = "rejected"
  <2>1. ~HasHeader \/ sealed.mask = "none"
    BY <1>2, <1>5
  <2> QED
    BY <1>1, <1>3, <1>5, <2>1
    DEF ReaderInv, OutcomesInv, PreviewIsLatestBake, OnlyLZ4TilesUnreadable, RejectedIsUnsealed,
        ReaderRunning
<1>6. CASE rpc' = "aborted"
  BY <1>1, <1>6
  DEF ReaderInv, OutcomesInv, PreviewIsLatestBake, OnlyLZ4TilesUnreadable, RejectedIsUnsealed,
      ReaderRunning
<1> QED
  BY <1>4, <1>5, <1>6

(* Where the reader looks for a tile is where the bake put it.              *)
LEMMA TileIsThere ==
  ASSUME PreviewInv, rpc = "tiles", rtile \in rbits
  PROVE  LET at == NodeOffset(header.fmt, rbits, roffs, rtile)
             n  == NodeSize(header.fmt, rbits, roffs, rtile)
         IN  /\ n > 0
             /\ Holds(at, n, rtile, sealed.raster,
                      IF "Tiles" \in header.blocks THEN header.alg ELSE "None")
             /\ at \in DOMAIN disk
             /\ disk[at].kind = "tile" /\ disk[at].tile = rtile /\ disk[at].raster = sealed.raster
<1> DEFINE at == NodeOffset(header.fmt, rbits, roffs, rtile)
           n  == NodeSize(header.fmt, rbits, roffs, rtile)
           enc == IF "Tiles" \in header.blocks THEN header.alg ELSE "None"
           ds == DirectoryOffsets(header)
<1>1. /\ HasHeader /\ header = disk[0] /\ rbits = sealed.bits
      /\ header.fmt # "Bitmask" => roffs = ds
  BY DEF PreviewInv, ReaderInv, ReaderRunning
<1>2. /\ Holds(NodeOffset(header.fmt, rbits, ds, rtile), NodeSize(header.fmt, rbits, ds, rtile),
               rtile, sealed.raster, enc)
      /\ NodeOffset(header.fmt, rbits, ds, rtile) \in Nat
      /\ NodeSize(header.fmt, rbits, ds, rtile) \in Int
  <2>1. ds = OffsetsIn(disk, header)
    BY DEF DirectoryOffsets, OffsetsIn
  <2> QED
    BY <1>1, <2>1 DEF PreviewInv, SealedInv, SealedMapIsWhole, PlacedIn, HasHeader
<1>3. /\ NodeOffset(header.fmt, rbits, ds, rtile) = at
      /\ NodeSize(header.fmt, rbits, ds, rtile) = n
  BY <1>1 DEF NodeOffset, NodeSize
<1>4. Holds(at, n, rtile, sealed.raster, enc) /\ at \in Nat /\ n \in Int
  BY <1>2, <1>3
<1> HIDE DEF at, n, enc
<1>5. n > 0 /\ 0 \in 0 .. n - 1 /\ at + 0 = at
  BY <1>4 DEF Holds
<1>6. at \in DOMAIN disk /\ disk[at] = TileWord(rtile, sealed.raster, enc, 0, n)
  BY <1>4, <1>5 DEF Holds
<1> QED
  BY <1>4, <1>5, <1>6 DEF TileWord, at, n, enc

(* A tile of the map is drawn in its place, or only LZ4 is to blame.        *)
LEMMA ReadTileKeeps ==
  ASSUME PreviewInv, ReadTile, Undisturbed(sealed)
  PROVE  /\ rpc' = "tiles" =>
              /\ rtile' = rtile + 1
              /\ \A i \in Tiles : image'[i] =
                   IF i < rtile' THEN Picture(sealed.bits, sealed.raster)[i] ELSE Blank
         /\ rpc' \in {"tiles", "corrupt"}
         /\ rpc' = "corrupt" => header.alg = "LZ4" /\ "Tiles" \in header.blocks
<1> DEFINE at == NodeOffset(header.fmt, rbits, roffs, rtile)
           n  == NodeSize(header.fmt, rbits, roffs, rtile)
           pic == Picture(sealed.bits, sealed.raster)
<1>1. /\ rpc = "tiles" /\ rtile \in Tiles /\ DrawTile(rtile) /\ rbits = sealed.bits
      /\ HasHeader /\ header = disk[0] /\ IsValidMapHeader(header) /\ CountsChannels
      /\ \A i \in Tiles : image[i] = IF i < rtile THEN pic[i] ELSE Blank
  BY DEF PreviewInv, ReaderInv, ReaderRunning, ReadTile, SealedInv, SealedMapIsWhole, Undisturbed,
     CountsChannels
<1>2. \A i \in Tiles : pic[i] = IF i \in sealed.bits THEN Drawn(i, sealed.raster) ELSE Blank
  BY DEF Picture
<1>3. image \in Images /\ \A i \in Tiles : i \in Int
  BY DEF PreviewInv, BakeInv, SizesInv, TypeOK, ReaderTypeOK, Tiles
<1> HIDE DEF pic
<1>4. rtile \in rbits => HasNode
  <2>1. rtile \in rbits => n > 0
    BY <1>1, TileIsThere
  <2> QED
    BY <2>1 DEF HasNode
<1>5. CASE ~HasNode
  <2>1. rtile' = rtile + 1 /\ UNCHANGED <<rpc, image>> /\ rtile \notin sealed.bits
    BY <1>1, <1>4, <1>5 DEF DrawTile
  <2>2. \A i \in Tiles : i < rtile + 1 <=> i < rtile \/ i = rtile
    BY <1>1, <1>3
  <2>3. \A i \in Tiles : image'[i] = IF i < rtile' THEN pic[i] ELSE Blank
    BY <1>1, <1>2, <2>1, <2>2
  <2> QED
    BY <1>1, <2>1, <2>3 DEF pic
<1>6. CASE HasNode
  <2>1. rtile \in rbits
    BY <1>6 DEF HasNode
  <2>2. /\ Holds(at, n, rtile, sealed.raster,
                 IF "Tiles" \in header.blocks THEN header.alg ELSE "None")
        /\ at \in DOMAIN disk /\ disk[at].kind = "tile"
        /\ disk[at].tile = rtile /\ disk[at].raster = sealed.raster
    BY <1>1, <2>1, TileIsThere
  <2> HIDE DEF at, n
  <2>3. CASE ReadableTile(at, n)
    <3>1. /\ image' = [image EXCEPT ![rtile] = Drawn(rtile, sealed.raster)]
          /\ rtile' = rtile + 1 /\ rpc' = rpc
      BY <1>1, <1>6, <2>2, <2>3 DEF DrawTile, at, n
    <3>2. \A i \in Tiles : image'[i] = IF i = rtile THEN Drawn(rtile, sealed.raster) ELSE image[i]
      BY <1>3, <3>1 DEF Images
    <3>3. \A i \in Tiles : i < rtile + 1 <=> i < rtile \/ i = rtile
      BY <1>1, <1>3
    <3>4. \A i \in Tiles : image'[i] = IF i < rtile' THEN pic[i] ELSE Blank
      BY <1>1, <1>2, <2>1, <3>1, <3>2, <3>3
    <3> QED
      BY <1>1, <3>1, <3>4 DEF pic
  <2>4. CASE ~ReadableTile(at, n)
    <3>1. rpc' = "corrupt"
      BY <1>1, <1>6, <2>4 DEF DrawTile, at, n
    <3>2. "Tiles" \in header.blocks /\ ~StreamReadsOneShot(header.alg)
      BY <2>2, <2>4 DEF ReadableTile
    <3>3. header.alg = "LZ4"
      BY <1>1, <3>2 DEF IsValidMapHeader, StreamReadsOneShot, Algs
    <3> QED
      BY <3>1, <3>2, <3>3
  <2> QED
    BY <2>3, <2>4
<1> QED
  BY <1>5, <1>6

(* No step of a preview loses track of the map it draws.                    *)
LEMMA ReaderKeeps ==
  ASSUME PreviewInv, ReaderStep, UNCHANGED writeVars
  PROVE  ReaderInv' /\ OutcomesInv'
<1>1. /\ wpc = "idle" /\ rpc \in ReaderRunning
      /\ UNCHANGED <<wpc, disk, exists, sealed, header>>
  BY DEF ReaderStep, ReadDirectory, ReadTile, DrawTile, FinishPreview, AbortPreview, PreviewInv,
     ReaderInv, ReaderRunning, writeVars
<1>2. /\ HasHeader /\ header = disk[0] /\ exists /\ (rtile = 0 \/ rpc = "tiles")
      /\ Undisturbed(sealed) => \A i \in Tiles : image[i] =
           IF i < rtile THEN Picture(sealed.bits, sealed.raster)[i] ELSE Blank
      /\ rpc = "tiles" => rbits = sealed.bits /\ (header.fmt # "Bitmask" => roffs = DirectoryOffsets(header))
  BY <1>1 DEF PreviewInv, ReaderInv
<1>3. HasHeader'
  BY <1>1, <1>2 DEF HasHeader
<1>4. DirectoryOffsets(header)' = DirectoryOffsets(header)
  BY <1>1 DEF DirectoryOffsets
<1>5. CASE ReadDirectory
  <2>1. ParseDirectory(header) /\ DirectoryBits(header) = sealed.bits
    BY <1>2 DEF PreviewInv, SealedInv, SealedMapIsWhole
  <2>2. /\ rpc' = "tiles" /\ rbits' = sealed.bits /\ UNCHANGED <<rtile, image>>
        /\ header.fmt # "Bitmask" => roffs' = DirectoryOffsets(header)
    BY <1>2, <1>5, <2>1 DEF ReadDirectory
  <2> QED
    BY <1>1, <1>2, <1>3, <1>4, <2>2
    DEF ReaderInv, OutcomesInv, PreviewIsLatestBake, OnlyLZ4TilesUnreadable, RejectedIsUnsealed
<1>6. CASE ReadTile
  <2>1. Undisturbed(sealed) =>
          /\ rpc' = "tiles" =>
               \A i \in Tiles : image'[i] =
                 IF i < rtile' THEN Picture(sealed.bits, sealed.raster)[i] ELSE Blank
          /\ rpc' = "corrupt" => header.alg = "LZ4" /\ "Tiles" \in header.blocks
    BY <1>6, ReadTileKeeps
  <2>2. rpc = "tiles" /\ UNCHANGED <<rbits, roffs>> /\ rpc' \in {"tiles", "corrupt"}
    BY <1>6 DEF ReadTile, DrawTile
  <2> QED
    BY <1>1, <1>2, <1>3, <1>4, <2>1, <2>2
    DEF ReaderInv, OutcomesInv, PreviewIsLatestBake, OnlyLZ4TilesUnreadable, RejectedIsUnsealed,
        ReaderRunning
<1>7. CASE FinishPreview
  <2>1. rpc' = "done" /\ rtile = NumTiles /\ image' = image
    BY <1>7 DEF FinishPreview
  <2>2. Undisturbed(sealed) => \A i \in Tiles : image[i] = Picture(sealed.bits, sealed.raster)[i]
    BY <1>2, <2>1, FormatsAssumption DEF Tiles
  <2>3. Undisturbed(sealed) => image = Picture(sealed.bits, sealed.raster)
    <3>1. image \in Images
      BY DEF PreviewInv, BakeInv, SizesInv, TypeOK, ReaderTypeOK
    <3> QED
      BY <2>2, <3>1 DEF Images, Picture
  <2>4. sealed \in Jobs
    BY <1>2 DEF PreviewInv, SealedInv, SealedMapIsWhole
  <2> QED
    BY <1>1, <2>1, <2>3, <2>4
    DEF ReaderInv, OutcomesInv, PreviewIsLatestBake, OnlyLZ4TilesUnreadable, RejectedIsUnsealed,
        ReaderRunning
<1>8. CASE AbortPreview
  BY <1>1, <1>8
  DEF AbortPreview, ReaderInv, OutcomesInv, PreviewIsLatestBake, OnlyLZ4TilesUnreadable,
      RejectedIsUnsealed, ReaderRunning
<1> QED
  BY <1>5, <1>6, <1>7, <1>8 DEF ReaderStep

LEMMA PreviewNext ==
  ASSUME PreviewInv, GrowthBounded, [Next]_vars
  PROVE  PreviewInv'
<1>1. BakeInv' /\ SealedInv' /\ FileInv'
  BY BakeNext, SealedNext, FileNext DEF PreviewInv, BakeInv, SizesInv
<1>2. CASE rpc' = "off"
  BY <1>1, <1>2
  DEF PreviewInv, ReaderInv, OutcomesInv, PreviewIsLatestBake, OnlyLZ4TilesUnreadable,
      RejectedIsUnsealed, ReaderRunning
<1>3. CASE Preview
  BY <1>1, <1>3, PrepareKeeps DEF PreviewInv
<1>4. CASE WriterStep /\ UNCHANGED readVars
  BY <1>2, <1>4, WriterIsBusy DEF PreviewInv, ReaderInv, readVars
<1>5. CASE ReaderStep /\ UNCHANGED writeVars
  BY <1>1, <1>5, ReaderKeeps DEF PreviewInv
<1>6. CASE UNCHANGED vars
  <2>1. UNCHANGED <<exists, disk, wpc, sealed, rpc, header, rbits, roffs, rtile, image>>
    BY <1>6 DEF vars, writeVars, readVars
  <2>2. HasHeader' = HasHeader /\ DirectoryOffsets(header)' = DirectoryOffsets(header)
    BY <2>1 DEF HasHeader, DirectoryOffsets
  <2> QED
    BY <1>1, <2>1, <2>2
    DEF PreviewInv, ReaderInv, OutcomesInv, PreviewIsLatestBake, OnlyLZ4TilesUnreadable,
        RejectedIsUnsealed
<1> QED
  BY <1>2, <1>3, <1>4, <1>5, <1>6 DEF Next, Bake, Crash, ForgetPreview

LEMMA PreviewInit == Init => PreviewInv
<1> SUFFICES ASSUME Init PROVE PreviewInv
  OBVIOUS
<1>1. FileInv
  BY DEF Init, WriterInit, EmptyFile, FileInv, Writing
<1>2. ReaderInv /\ OutcomesInv
  BY DEF Init, ReaderInit, ReaderInv, OutcomesInv, PreviewIsLatestBake, OnlyLZ4TilesUnreadable,
     RejectedIsUnsealed, ReaderRunning
<1> QED
  BY <1>1, <1>2, BakeInit DEF PreviewInv

(* The invariant holds throughout every behaviour of the system.            *)
THEOREM PreviewInvariant == GrowthBounded /\ Spec => []PreviewInv
<1> SUFFICES ASSUME GrowthBounded PROVE Spec => []PreviewInv
  OBVIOUS
<1>1. Init => PreviewInv
  BY PreviewInit
<1>2. PreviewInv /\ [Next]_vars => PreviewInv'
  BY PreviewNext
<1> QED
  BY <1>1, <1>2, PTL DEF Spec

(* A preview that succeeds shows the map that was sealed last, tile for     *)
(* tile, if no layer was switched while that bake was prepared.             *)
THEOREM PreviewsAreTrue == GrowthBounded /\ Spec => []PreviewIsLatestBake
<1> SUFFICES ASSUME GrowthBounded PROVE Spec => []PreviewIsLatestBake
  OBVIOUS
<1>1. PreviewInv => PreviewIsLatestBake
  BY DEF PreviewInv, OutcomesInv
<1> QED
  BY <1>1, PreviewInvariant, PTL

(* A file that the reader refuses holds no sealed map, unless every layer   *)
(* was switched off between the two questions of that bake: no format,      *)
(* compression, directory or size that RunBake may choose, whatever the     *)
(* grid, ends in a header its own reader turns away.                        *)
THEOREM RefusalsAreRight == GrowthBounded /\ Spec => []RejectedIsUnsealed
<1> SUFFICES ASSUME GrowthBounded PROVE Spec => []RejectedIsUnsealed
  OBVIOUS
<1>1. PreviewInv => RejectedIsUnsealed
  BY DEF PreviewInv, OutcomesInv
<1> QED
  BY <1>1, PreviewInvariant, PTL

(* The accepted map of an undisturbed bake is unreadable only if its tiles  *)
(* were packed with LZ4.                                                    *)
THEOREM FailuresAreLZ4 == GrowthBounded /\ Spec => []OnlyLZ4TilesUnreadable
<1> SUFFICES ASSUME GrowthBounded PROVE Spec => []OnlyLZ4TilesUnreadable
  OBVIOUS
<1>1. PreviewInv => OnlyLZ4TilesUnreadable
  BY DEF PreviewInv, OutcomesInv
<1> QED
  BY <1>1, PreviewInvariant, PTL

-----------------------------------------------------------------------------
(* The baked map, as seen from outside.                                     *)

Stored ==
  IF HasHeader /\ Undisturbed(sealed) THEN Picture(sealed.bits, sealed.raster) ELSE Nothing

Shown == IF rpc = "done" /\ Undisturbed(sealed) THEN image ELSE Nothing

LEMMA StoreIs ==
  /\ Store!Init <=> Stored = Nothing /\ Shown = Nothing
  /\ Store!Lose <=> Stored # Nothing /\ Stored' = Nothing /\ Shown' = Shown
  /\ Store!Publish <=>
       /\ Stored = Nothing /\ Shown' = Shown
       /\ Stored' \in {Picture(bits, v) : bits \in SUBSET Tiles, v \in Rasters}
  /\ Store!Show <=> Stored # Nothing /\ Shown' = Stored /\ Stored' = Stored
  /\ Store!Clear <=> Shown # Nothing /\ Shown' = Nothing /\ Stored' = Stored
  /\ (UNCHANGED Store!vars) <=> Stored' = Stored /\ Shown' = Shown
  BY DEF Store!Init, Store!Lose, Store!Publish, Store!Show, Store!Clear, Store!vars, Stored, Shown

LEMMA PictureIsSomething ==
  ASSUME NEW bits, NEW v
  PROVE  Picture(bits, v) # Nothing
<1>1. 0 \in Tiles
  BY FormatsAssumption DEF Tiles
<1>2. DOMAIN Picture(bits, v) = Tiles
  BY DEF Picture
<1>3. DOMAIN Nothing = {}
  BY DEF Nothing
<1> QED
  BY <1>1, <1>2, <1>3

(* No step of BakeMap shows anything; it publishes a map by its header and  *)
(* loses one by opening the file or by failing to close it.                 *)
LEMMA WriterRefines ==
  ASSUME PreviewInv, PreviewInv', WriterStep, UNCHANGED readVars
  PROVE  [Store!Next]_(Store!vars)
<1>1. Shown = Nothing /\ Shown' = Nothing
  BY WriterIsBusy DEF PreviewInv, ReaderInv, Shown, readVars
<1>2. CASE Stored' = Stored \/ Stored' = Nothing
  BY <1>1, <1>2, StoreIs DEF Store!Next
<1>3. CASE UNCHANGED <<disk, sealed>>
  <2>1. Stored' = Stored
    BY <1>3 DEF Stored, HasHeader
  <2> QED
    BY <1>2, <2>1
<1>4. CASE 0 \notin DOMAIN disk'
  <2>1. Stored' = Nothing
    BY <1>4 DEF Stored, HasHeader
  <2> QED
    BY <1>2, <2>1
<1>5. CASE WriteHeader
  <2>1. /\ wpc = "header" /\ sealed' = job
        /\ \E f, m, a, b, d, r, p : disk' = Put(disk, 0, HeaderWord(f, m, a, b, d, r, p))
    BY <1>5 DEF WriteHeader
  <2>2. 0 \notin DOMAIN disk /\ job.bits \in SUBSET Tiles /\ job.raster \in Rasters
    BY <2>1, FormatsAssumption
    DEF PreviewInv, BakeInv, SizesInv, PositionInv, Writing, TypeOK, WriterTypeOK, Jobs
  <2>3. Stored = Nothing
    BY <2>2 DEF Stored, HasHeader
  <2>4. Stored' \in {Picture(job.bits, job.raster), Nothing}
    BY <2>1 DEF Stored, HasHeader, Put, HeaderWord
  <2> QED
    BY <1>1, <1>2, <2>2, <2>3, <2>4, StoreIs DEF Store!Next
<1>6. CASE wpc' \in Writing
  BY <1>4, <1>6, FormatsAssumption DEF PreviewInv, BakeInv, SizesInv, PositionInv
<1>7. CASE CloseMap \/ FailBake
  BY <1>3, <1>4, <1>7 DEF CloseMap, FailBake, WriterReturns, Unsealed, EmptyFile
<1> QED
  BY <1>5, <1>6, <1>7
  DEF WriterStep, OpenMap, FeedBitmask, SkipTile, BeginTile, WriteTileChunk, EndTiles,
      WriteDirectoryChunk, Writing

(* A preview shows the stored map when it is done, and nothing before.      *)
LEMMA ReaderRefines ==
  ASSUME PreviewInv, PreviewInv', ReaderStep, UNCHANGED writeVars
  PROVE  [Store!Next]_(Store!vars)
<1>1. /\ rpc \in ReaderRunning /\ UNCHANGED <<disk, sealed>>
  BY DEF ReaderStep, ReadDirectory, ReadTile, DrawTile, FinishPreview, AbortPreview, writeVars,
     ReaderRunning
<1>2. Stored' = Stored /\ Shown = Nothing
  BY <1>1 DEF Stored, HasHeader, Shown, ReaderRunning
<1>3. CASE rpc' = "done" /\ Undisturbed(sealed)
  <2>1. Stored = Picture(sealed.bits, sealed.raster)
    BY <1>1, <1>3 DEF Stored, PreviewInv, ReaderInv
  <2>2. Shown' = Stored
    BY <1>1, <1>3, <2>1 DEF Shown, PreviewInv, OutcomesInv, PreviewIsLatestBake
  <2> QED
    BY <1>2, <2>1, <2>2, PictureIsSomething, StoreIs DEF Store!Next
<1>4. CASE ~(rpc' = "done" /\ Undisturbed(sealed))
  <2>1. Shown' = Nothing
    BY <1>1, <1>4 DEF Shown
  <2> QED
    BY <1>2, <2>1, StoreIs
<1> QED
  BY <1>3, <1>4

LEMMA CrashRefines ==
  ASSUME PreviewInv, Crash
  PROVE  [Store!Next]_(Store!vars)
<1>1. Shown = Nothing /\ Shown' = Nothing
  BY DEF Crash, WorkerFree, ForgetPreview, PreviewInv, ReaderInv, ReaderRunning, Shown
<1>2. sealed' = sealed /\ (disk' = disk \/ 0 \notin DOMAIN disk')
  BY DEF Crash, WriterCrash, WriterReturns, Unsealed
<1>3. Stored' = Stored \/ Stored' = Nothing
  BY <1>2 DEF Stored, HasHeader
<1> QED
  BY <1>1, <1>3, StoreIs DEF Store!Next

LEMMA StepRefines ==
  ASSUME PreviewInv, PreviewInv', [Next]_vars
  PROVE  [Store!Next]_(Store!vars)
<1>1. CASE UNCHANGED <<disk, sealed>> /\ rpc' # "done"
  <2>1. Stored' = Stored /\ Shown' = Nothing
    BY <1>1 DEF Stored, HasHeader, Shown
  <2> QED
    BY <2>1, StoreIs DEF Store!Next
<1>2. CASE UNCHANGED vars
  <2>1. Stored' = Stored /\ Shown' = Shown
    BY <1>2 DEF vars, writeVars, readVars, Stored, HasHeader, Shown
  <2> QED
    BY <2>1, StoreIs
<1> QED
  BY <1>1, <1>2, WriterRefines, ReaderRefines, CrashRefines
  DEF Next, Bake, PrepareMap, Preview, PreparePreview, ForgetPreview, writeVars

(* Bakes, previews and crashes over one file implement the abstract store:  *)
(* a map appears in one step, by its header, and is shown as it is or not   *)
(* at all.                                                                  *)
THEOREM StoreIsImplemented ==
  GrowthBounded /\ Spec => ImplementsStore
<1> SUFFICES ASSUME GrowthBounded PROVE Spec => Store!Spec
  BY DEF ImplementsStore
<1>1. Init => PreviewInv
  BY PreviewInit
<1>2. PreviewInv /\ [Next]_vars => PreviewInv'
  BY PreviewNext
<1>3. Init => Store!Init
  BY StoreIs DEF Init, WriterInit, ReaderInit, EmptyFile, Stored, Shown, HasHeader
<1>4. PreviewInv /\ PreviewInv' /\ [Next]_vars => [Store!Next]_(Store!vars)
  BY StepRefines
<1> QED
  BY <1>1, <1>2, <1>3, <1>4, PTL DEF Spec, Store!Spec

-----------------------------------------------------------------------------
(* An earlier map.                                                          *)

(* A sealed map is never modified in place: it only loses its header while  *)
(* the bake that wrote it closes the file, or all of it when the next one   *)
(* opens the file.                                                          *)
THEOREM OldMapsAreKept ==
  Spec => OldMapKeptUntilOpen
<1> DEFINE Kept == HasHeader /\ disk' # disk =>
                     wpc = "close" \/ (wpc = "open" /\ exists' /\ disk' = EmptyFile)
           Inv == TypeOK /\ CountInv /\ PositionInv
<1>1. Init => Inv
  BY TypeInit
  DEF Init, WriterInit, LocalsInit, CountInv, PositionInv, Writing, Finished
<1>2. Inv /\ [Next]_vars => Inv'
  <2> SUFFICES ASSUME Inv, [Next]_vars PROVE Inv'
    OBVIOUS
  <2>1. TypeOK' /\ CountInv'
    BY TypeNext, CountNext
  <2>2. CASE wpc' \in {"idle", "open"}
    BY <2>1, <2>2 DEF PositionInv, Writing
  <2>3. CASE WriterStep
    BY <2>1, <2>3, PositionStep
  <2>4. CASE UNCHANGED <<disk, writeVars>>
    BY <2>1, <2>4 DEF PositionInv, Writing, writeVars, localVars
  <2>5. CASE ReaderStep /\ UNCHANGED writeVars
    BY <2>4, <2>5 DEF ReaderStep, ReadDirectory, ReadTile, DrawTile, FinishPreview, AbortPreview
  <2> QED
    BY <2>2, <2>3, <2>4, <2>5
    DEF Next, Bake, PrepareMap, Preview, PreparePreview, Crash, WriterCrash, WriterReturns, vars
<1>3. Inv /\ [Next]_vars => [Kept]_vars
  <2> SUFFICES ASSUME Inv, [Next]_vars, HasHeader, disk' # disk
               PROVE  wpc = "close" \/ (wpc = "open" /\ exists' /\ disk' = EmptyFile)
    OBVIOUS
  <2>1. wpc \notin Writing
    BY FormatsAssumption DEF PositionInv, HasHeader
  <2>2. wpc \in {"idle", "open", "close"}
    BY <2>1 DEF TypeOK, WriterTypeOK, WriterStates, Writing
  <2> QED
    BY <2>2
    DEF Next, Bake, PrepareMap, Preview, PreparePreview, ReaderStep, ReadDirectory, ReadTile, DrawTile,
        FinishPreview, AbortPreview, Crash, WriterCrash, WriterStep, OpenMap, FeedBitmask, SkipTile,
        BeginTile, WriteTileChunk, EndTiles, WriteDirectoryChunk, WriteHeader, CloseMap, FailBake, vars
<1> HIDE DEF Inv
<1> QED
  BY <1>1, <1>2, <1>3, PTL DEF Spec, OldMapKeptUntilOpen

-----------------------------------------------------------------------------
(* Success.                                                                 *)

WrittenInv ==
  /\ TypeOK /\ FileInv
  /\ wpc = "close" => HasHeader /\ sealed \in Jobs
  /\ outcome = "written" => wpc = "idle" /\ WrittenIsSealed

(* A bake that reports success wrote its header, and it is in the file      *)
(* unless closing the file lost it.                                         *)
THEOREM SuccessIsSealed ==
  Spec => []WrittenIsSealed
<1>1. Init => WrittenInv
  BY TypeInit DEF Init, WriterInit, EmptyFile, WrittenInv, FileInv, Writing
<1>2. WrittenInv /\ [Next]_vars => WrittenInv'
  <2> SUFFICES ASSUME WrittenInv, [Next]_vars PROVE WrittenInv'
    OBVIOUS
  <2>1. TypeOK' /\ FileInv'
    BY TypeNext, FileNext DEF WrittenInv
  <2>2. CASE outcome' # "written" /\ wpc' # "close"
    BY <2>1, <2>2 DEF WrittenInv
  <2>3. CASE UNCHANGED <<exists, disk, wpc, outcome, sealed>>
    BY <2>1, <2>3 DEF WrittenInv, WrittenIsSealed, HasHeader
  <2>4. CASE WriteHeader
    <3>1. wpc = "header" /\ wpc' = "close" /\ outcome' = outcome
      BY <2>4 DEF WriteHeader
    <3>2. HasHeader'
      BY <2>4 DEF WriteHeader, HasHeader, Put, HeaderWord
    <3>3. sealed' \in Jobs
      BY <2>4, <3>1 DEF WriteHeader, WrittenInv, TypeOK, WriterTypeOK
    <3>4. outcome # "written"
      BY <3>1 DEF WrittenInv
    <3> QED
      BY <2>1, <3>1, <3>2, <3>3, <3>4 DEF WrittenInv
  <2>5. CASE CloseMap
    <3>1. wpc' = "idle" /\ UNCHANGED <<exists, sealed>> /\ exists /\ sealed \in Jobs
      BY <2>5 DEF CloseMap, WriterReturns, WrittenInv, FileInv
    <3>2. HasHeader' \/ CloseLosesData
      BY <2>5 DEF CloseMap, WrittenInv, HasHeader
    <3> QED
      BY <2>1, <3>1, <3>2 DEF WrittenInv, WrittenIsSealed
  <2>6. CASE WriterStep
    <3>1. outcome # "written"
      BY <2>6, WriterIsBusy DEF WrittenInv
    <3> QED
      BY <2>2, <2>4, <2>5, <2>6, <3>1
      DEF WriterStep, OpenMap, FeedBitmask, SkipTile, BeginTile, WriteTileChunk, EndTiles,
          WriteDirectoryChunk, FailBake, WriterReturns
  <2> QED
    BY <2>2, <2>3, <2>6
    DEF Next, Bake, PrepareMap, Preview, PreparePreview, ReaderStep, ReadDirectory, ReadTile, DrawTile,
        FinishPreview, AbortPreview, Crash, WriterCrash, WriterReturns, vars, writeVars
<1>3. WrittenInv => WrittenIsSealed
  BY DEF WrittenInv, WrittenIsSealed
<1> QED
  BY <1>1, <1>2, <1>3, PTL DEF Spec
=============================================================================
