--------------------------- MODULE BakeRun_proofs ---------------------------
(***************************************************************************)
(* Theorems of BakeRun, for any settings, any number of tiles and lines,   *)
(* and any number of bakes.                                                *)
(***************************************************************************)
EXTENDS BakeRun, DataLemmas

-----------------------------------------------------------------------------
(* The inductive invariant, in parts.                                       *)

(* The types of the variables that no part below speaks of.                 *)
FieldsInv ==
  /\ cancelled \in BOOLEAN /\ late \in BOOLEAN
  /\ settings \in Settings /\ asked \in BOOLEAN /\ resetPending \in BOOLEAN
  /\ written \in 0 .. Len(Writes) /\ row \in 0 .. Rows
  /\ mapFile \in FileStates /\ imageFile \in FileStates /\ result \in Results
  /\ ready \in BOOLEAN /\ disturbed \in BOOLEAN /\ early \in BOOLEAN

(* Where the three threads may be at the same time, and what the files are  *)
(* there.                                                                   *)
ThreadsInv ==
  /\ bpc \in {"idle", "baking", "prepare", "blocks", "format", "image", "map", "spawn", "join"}
  /\ mpc \in {"off", "tiles", "directory", "flush", "open", "write", "done"}
  /\ ipc \in {"off", "start", "open", "rows", "done"}
  /\ mpc # "off" <=> bpc \in {"spawn", "join"}
  /\ ipc # "off" <=> bpc = "join"
  /\ mpc = "flush" => PacksDirectory
  /\ mapFile = "partial" <=> mpc = "write"
  /\ imageFile = "partial" <=> ipc = "rows"
  /\ written # 0 => mpc \in {"write", "done"}
  /\ mapResult \in {"none", "ok", "failed", "cancelled", "internal"}
  /\ imageResult \in {"none", "ok", "failed", "cancelled", "unready"}
  /\ mapResult # "none" <=> mpc = "done"
  /\ imageResult # "none" <=> ipc = "done"

(* The context is filled in as RunBake goes on.                             *)
ContextType == ctx \in [alg : Algs, n : 0 .. NumTiles, blocks : SUBSET Blocks, fmt : Formats]

ContextInv ==
  /\ ContextType
  /\ bpc \in {"idle", "baking"} => ctx = NoContext
  /\ ready => bpc \in {"map", "spawn", "join"}

(* What is registered, with how many operations.                            *)
IsRegistered(t, n) == t \in Registered /\ ops[t] = n

OpsInv ==
  /\ Registered \subseteq Tasks /\ ops \in [Registered -> Nat]
  /\ \A t \in Registered \ Reserved : ops[t] > 0

TasksInv ==
  /\ bpc \notin {"map", "spawn", "join"} => Registered = {}
  /\ mpc \in {"off", "tiles"} => Registered \subseteq {"image"}
  /\ mpc = "directory" => Registered \subseteq {"image", "tiles"}
  /\ mpc = "flush" => Registered \subseteq {"image", "tiles", "directory"}
  /\ ready \/ ipc \in {"open", "rows"} => IsRegistered("image", Rows)
  /\ mpc \in {"directory", "flush", "open", "write"} /\ ctx.n > 0 =>
       IsRegistered("tiles", ctx.n * RawTile)
  /\ mpc \in {"flush", "open", "write"} => IsRegistered("directory", DirectoryOps)
  /\ mpc \in {"open", "write"} /\ PacksDirectory => IsRegistered("flush", 0)

(* The tasks share the progress; those that were all registered before any  *)
(* reported share what is not reserved in proportion to their operations.   *)
Operations == SumFunctionOnSet(ops, Registered \ Reserved)
Rest       == 100 - Share * Cardinality(Registered \cap Reserved)

SharesInv ==
  /\ progress \in Nat
  /\ reported \in [Registered -> 0 .. 100]
  /\ ~late => progress <= 100
  /\ bpc # "idle" => progress = SumFunctionOnSet(reported, Registered)
  /\ ~late => /\ \A t \in Registered \ Reserved : reported[t] * Operations <= ops[t] * Rest
              /\ \A t \in Registered \cap Reserved : reported[t] <= Share

(* A cancel before the threads started lets nothing through that reports.   *)
EarlyInv ==
  early => /\ cancelled /\ mapResult # "ok"
           /\ bpc = "idle" => result # "ok"
           /\ \A k \in 1 .. written : Writes[k].task = "begin"

(* Settings that are left alone are consistent, and the context has what    *)
(* they say.                                                                *)
SettingsInv ==
  /\ ~resetPending => Consistent(settings)
  /\ bpc # "idle" /\ ~disturbed =>
       /\ ~resetPending /\ asked = settings.image
       /\ bpc # "baking" => ctx.alg = ResolveCompressionAlg(settings.compression)
       /\ bpc \in {"format", "image", "map", "spawn", "join"} =>
            ctx.blocks = ResolveCompressBlocks(settings.compression, ctx.n)
       /\ bpc \in {"image", "map", "spawn", "join"} =>
            ctx.fmt = ResolveEntryFormat(settings.format, ctx.n, ctx.blocks)
       /\ bpc \in {"map", "spawn", "join"} /\ ipc \in {"off", "start"} /\ settings.image => ready
       /\ mapResult # "internal" /\ imageResult # "unready"
  /\ ~disturbed => result \notin {"internal", "unready"}

(* What a result says of the files.                                         *)
FilesInv ==
  /\ mapResult = "ok" => mapFile = "whole"
  /\ imageResult = "ok" /\ asked /\ ~disturbed => imageFile = "whole"
  /\ SuccessIsComplete

RunInv ==
  /\ FieldsInv /\ ThreadsInv /\ ContextInv /\ OpsInv /\ TasksInv /\ SharesInv
  /\ EarlyInv /\ SettingsInv /\ FilesInv

-----------------------------------------------------------------------------
(* Integer division.                                                        *)
LEMMA Quotient ==
  ASSUME NEW a \in Nat, NEW b \in Nat \ {0}
  PROVE  /\ a \div b \in Nat /\ (a \div b) * b <= a
         /\ \A c \in Nat : a <= b * c => a \div b <= c
  OBVIOUS

-----------------------------------------------------------------------------
(* CProgressor.                                                             *)

(* What RecalculateContexts divides by.                                     *)
Weights ==
  /\ IsFiniteSet(Registered) /\ Rest \in 0 .. 100
  /\ Share * Cardinality(Registered \cap Reserved) = 100 - Rest
  /\ Operations \in Nat
  /\ \A t \in Registered \ Reserved : ops[t] <= Operations

LEMMA WeightsAre == OpsInv => Weights
<1> SUFFICES ASSUME OpsInv PROVE Weights
  OBVIOUS
<1>1. IsFiniteSet(Registered) /\ IsFiniteSet(Reserved)
  BY ProgressAssumption, FS_Subset DEF OpsInv
<1> DEFINE c == Cardinality(Registered \cap Reserved)
<1>2. c \in Nat /\ Cardinality(Reserved) \in Nat /\ c <= Cardinality(Reserved)
  BY <1>1, FS_Subset, FS_CardinalityType
<1>3. Share * c \in Nat /\ Share * c <= 100
  <2> HIDE DEF c
  <2>1. Share \in Nat /\ Share * Cardinality(Reserved) <= 100
    BY <1>2, ProgressAssumption
  <2>2. Share * c <= Share * Cardinality(Reserved)
    BY <1>2, <2>1
  <2> QED
    BY <1>2, <2>1, <2>2
<1>4. Rest \in 0 .. 100 /\ Share * c = 100 - Rest
  BY <1>3 DEF Rest
<1>5. ops \in [Registered -> Nat]
  BY DEF OpsInv
<1>6. /\ Operations \in Nat
      /\ \A t \in Registered \ Reserved :
           /\ Operations = ops[t] + SumFunctionOnSet(ops, (Registered \ Reserved) \ {t})
           /\ SumFunctionOnSet(ops, (Registered \ Reserved) \ {t}) \in Nat
  BY <1>1, <1>5, SumAny DEF Operations
<1>7. ASSUME NEW t \in Registered \ Reserved PROVE ops[t] <= Operations
  <2>1. ops[t] \in Nat
    BY <1>5
  <2>2. PICK n \in Nat : Operations = ops[t] + n
    BY <1>6
  <2> QED
    BY <2>1, <2>2
<1> QED
  BY <1>1, <1>4, <1>6, <1>7 DEF Weights

LEMMA WeightsStay == OpsInv' => Weights'
  BY WeightsAre, PTL

(* What a task has earned is at most its share.                             *)
LEMMA EarnedIs ==
  ASSUME OpsInv, NEW t \in Registered, NEW size \in Nat \ {0}, NEW done \in 0 .. size,
         t \notin Reserved => size = ops[t]
  PROVE  LET earned == Contribution(t, done, size) IN
         /\ earned \in 0 .. 100
         /\ t \in Reserved => earned <= Share
         /\ t \notin Reserved => earned * Operations <= ops[t] * Rest
<1>0. Share \in 1 .. 100
  BY ProgressAssumption
<1>1. CASE t \in Reserved
  <2>1. done * Share \in Nat /\ done * Share <= size * Share
    BY <1>0
  <2>2. (done * Share) \div size \in Nat /\ (done * Share) \div size <= Share
    BY <1>0, <2>1, Quotient
  <2> QED
    BY <1>0, <1>1, <2>2 DEF Contribution
<1>2. CASE t \notin Reserved
  <2> DEFINE a == done * Rest
             e == a \div Operations
  <2>1. Rest \in 0 .. 100 /\ Operations \in Nat \ {0} /\ size <= Operations /\ ops[t] = size
    BY <1>2, WeightsAre DEF Weights
  <2>2. done * Rest \in Nat /\ done * Rest <= size * Rest /\ size * Rest <= Operations * Rest
    BY <2>1
  <2>3. e \in Nat /\ e * Operations <= a /\ e <= Rest
    <3>1. a \in Nat /\ a <= Operations * Rest
      BY <2>1, <2>2
    <3> HIDE DEF a
    <3> QED
      BY <2>1, <3>1, Quotient
  <2>4. Contribution(t, done, size) = e
    BY <1>2 DEF Contribution, Operations, Rest
  <2>5. e * Operations <= ops[t] * Rest
    BY <2>1, <2>2, <2>3
  <2> QED
    BY <1>2, <2>1, <2>3, <2>4, <2>5
<1> QED
  BY <1>1, <1>2

(* Where the tasks share in order, the sum of what they reported is at most *)
(* 100.                                                                     *)
LEMMA SharesAddUp ==
  ASSUME OpsInv, NEW r \in [Registered -> 0 .. 100],
         \A t \in Registered \ Reserved : r[t] * Operations <= ops[t] * Rest,
         \A t \in Registered \cap Reserved : r[t] <= Share
  PROVE  SumFunctionOnSet(r, Registered) <= 100
<1> DEFINE A == Registered \ Reserved
           B == Registered \cap Reserved
           Sum(S) == SumFunctionOnSet(r, S)
<1>0. /\ IsFiniteSet(Registered) /\ Rest \in 0 .. 100 /\ Operations \in Nat
      /\ Share * Cardinality(B) = 100 - Rest /\ Share \in Nat
      /\ r \in [Registered -> Nat] /\ ops \in [Registered -> Nat]
  BY WeightsAre, ProgressAssumption DEF Weights, OpsInv
<1>1. Sum(Registered) = Sum(A) + Sum(B) /\ Sum(A) \in Nat /\ Sum(B) \in Nat
  <2>1. A \cup B = Registered /\ A \cap B = {}
    OBVIOUS
  <2> QED
    BY <1>0, <2>1, SumOfTwo, SumAny
<1>2. Sum(A) <= Rest
  <2>1. CASE A = {}
    BY <1>0, <2>1, SumAny
  <2>2. CASE A # {}
    <3>1. Sum(A) * Operations <= Operations * Rest
      <4>1. A \in SUBSET Registered /\ Rest \in Nat
        BY <1>0
      <4>2. Sum(A) * Operations <= SumFunctionOnSet(ops, A) * Rest
        BY <1>0, <4>1, SumsBounded
      <4> QED
        BY <4>2 DEF Operations
    <3>2. Operations > 0
      BY <1>0, <2>2, WeightsAre DEF Weights, OpsInv
    <3> QED
      BY <1>0, <1>1, <3>1, <3>2
  <2> QED
    BY <2>1, <2>2
<1>3. Sum(B) <= 100 - Rest
  <2>1. B \in SUBSET Registered
    OBVIOUS
  <2>2. Sum(B) <= Share * Cardinality(B)
    <3> HIDE DEF B
    <3> QED
      BY <1>0, <2>1, SumAtMost DEF B
  <2> QED
    BY <1>0, <2>2
<1> QED
  BY <1>0, <1>1, <1>2, <1>3

(* Update of a registered task.                                             *)
LEMMA Reporting ==
  ASSUME OpsInv, SharesInv, bpc # "idle", bpc' # "idle",
         NEW t \in Registered, NEW size \in Nat \ {0}, NEW done \in 0 .. size,
         t \notin Reserved => size = ops[t],
         Report(t, done, size)
  PROVE  SharesInv' /\ progress' >= progress
<1> DEFINE earned == Contribution(t, done, size)
<1>1. UNCHANGED <<ops, late, cancelled, Registered, Operations, Rest>>
  BY DEF Report, Registered, Operations, Rest
<1>2. /\ earned \in 0 .. 100
      /\ t \in Reserved => earned <= Share
      /\ t \notin Reserved => earned * Operations <= ops[t] * Rest
  BY EarnedIs
<1>3. IsFiniteSet(Registered) /\ reported \in [Registered -> 0 .. 100] /\ progress \in Nat
  BY WeightsAre DEF Weights, SharesInv
<1>4. CASE UNCHANGED <<progress, reported>>
  BY <1>1, <1>4 DEF SharesInv
<1>5. CASE /\ earned > reported[t]
           /\ progress' = progress + earned - reported[t]
           /\ reported' = [reported EXCEPT ![t] = earned]
  <2> HIDE DEF earned
  <2>1. reported' \in [Registered -> 0 .. 100] /\ reported'[t] = earned
    BY <1>2, <1>3, <1>5
  <2>2. progress' \in Nat /\ progress' >= progress
    BY <1>2, <1>3, <1>5
  <2>3. progress' = SumFunctionOnSet(reported', Registered)
    <3> DEFINE others == Registered \ {t}
               now  == SumFunctionOnSet(reported', others)
               then == SumFunctionOnSet(reported, others)
    <3>1. /\ SumFunctionOnSet(reported', Registered) = earned + now
          /\ SumFunctionOnSet(reported, Registered) = reported[t] + then
          /\ then \in Nat
      <4>1. reported \in [Registered -> Nat] /\ reported' \in [Registered -> Nat]
        BY <1>3, <2>1
      <4> QED
        BY <1>3, <2>1, <4>1, SumAny
    <3>2. now = then
      <4>1. reported \in [Registered -> Nat] /\ reported' \in [Registered -> Nat]
        BY <1>3, <2>1
      <4>2. \A x \in others : reported'[x] = reported[x]
        BY <1>3, <1>5
      <4>3. others \in SUBSET Registered
        OBVIOUS
      <4> HIDE DEF others
      <4> QED
        BY <1>3, <4>1, <4>2, <4>3, SumsEqual
    <3>3. progress = reported[t] + then
      BY <3>1 DEF SharesInv
    <3> QED
      BY <1>2, <1>3, <1>5, <3>1, <3>2, <3>3
  <2>4. ASSUME ~late
        PROVE  /\ \A x \in Registered \ Reserved : reported'[x] * Operations <= ops[x] * Rest
               /\ \A x \in Registered \cap Reserved : reported'[x] <= Share
    BY <1>2, <1>3, <1>5, <2>4 DEF SharesInv
  <2>5. ~late => progress' <= 100
    BY <2>1, <2>3, <2>4, SharesAddUp
  <2> QED
    BY <1>1, <2>1, <2>2, <2>3, <2>4, <2>5 DEF SharesInv
<1> QED
  BY <1>3, <1>4, <1>5 DEF Report

(* RegisterProgressTask, of a task that is not registered.                  *)
Added(t, n) ==
  /\ Registered' \subseteq Registered \cup {t}
  /\ \A x \in Registered : x \in Registered' /\ ops'[x] = ops[x]
  /\ n > 0 \/ t \in Reserved => IsRegistered(t, n)'

LEMMA Registering ==
  ASSUME OpsInv, SharesInv, bpc # "idle", bpc' # "idle",
         NEW t \in Tasks \ Registered, NEW n \in Nat, Register(t, n)
  PROVE  /\ OpsInv' /\ SharesInv' /\ UNCHANGED <<progress, cancelled>>
         /\ Added(t, n)
<1>1. CASE n = 0 /\ t \notin Reserved
  <2>1. UNCHANGED <<ops, reported, late, progress, cancelled>>
    BY <1>1 DEF Register, progressVars
  <2>2. UNCHANGED <<Registered, Operations, Rest>>
    BY <2>1 DEF Registered, Operations, Rest
  <2> QED
    BY <1>1, <2>1, <2>2 DEF OpsInv, SharesInv, Added
<1>2. CASE ~(n = 0 /\ t \notin Reserved)
  <2>1. /\ ops' = [x \in Registered \cup {t} |-> IF x = t THEN n ELSE ops[x]]
        /\ reported' = [x \in Registered \cup {t} |-> IF x = t THEN 0 ELSE reported[x]]
        /\ late' = (late \/ \E x \in Registered : reported[x] > 0)
        /\ UNCHANGED <<progress, cancelled>>
    BY <1>2 DEF Register
  <2>2. Registered' = Registered \cup {t}
    BY <2>1 DEF Registered
  <2>3. OpsInv'
    BY <1>2, <2>1, <2>2 DEF OpsInv
  <2>4. reported' \in [Registered' -> 0 .. 100]
    BY <2>1, <2>2 DEF SharesInv
  <2>5. progress = SumFunctionOnSet(reported', Registered')
    <3>1. IsFiniteSet(Registered) /\ IsFiniteSet(Registered')
      BY <2>3, WeightsAre, WeightsStay, ProgressAssumption, FS_Subset DEF Weights, OpsInv
    <3>2. reported \in [Registered -> Nat] /\ reported' \in [Registered' -> Nat]
      BY <2>4 DEF SharesInv
    <3>3. SumFunctionOnSet(reported', Registered') =
            reported'[t] + SumFunctionOnSet(reported', Registered' \ {t})
      BY <2>2, <3>1, <3>2, SumAny
    <3>4. Registered' \ {t} = Registered /\ reported'[t] = 0
      BY <2>1, <2>2
    <3>5. SumFunctionOnSet(reported', Registered) = SumFunctionOnSet(reported, Registered)
      <4>1. \A x \in Registered : reported'[x] = reported[x]
        BY <2>1
      <4>2. Registered \in SUBSET Registered /\ Registered \in SUBSET Registered'
        BY <2>2
      <4> QED
        BY <3>1, <3>2, <4>1, <4>2, SumsEqual
    <3>6. progress = SumFunctionOnSet(reported, Registered) /\ progress \in Nat
      BY DEF SharesInv
    <3> QED
      BY <3>3, <3>4, <3>5, <3>6
  <2>6. ASSUME ~late'
        PROVE  /\ ~late
               /\ \A x \in Registered' \ Reserved : reported'[x] * Operations' <= ops'[x] * Rest'
               /\ \A x \in Registered' \cap Reserved : reported'[x] <= Share
    <3>1. ~late /\ \A x \in Registered : ~(reported[x] > 0)
      BY <2>1, <2>6
    <3>2. \A x \in Registered' : reported'[x] = 0
      BY <2>1, <2>2, <3>1 DEF SharesInv
    <3>3. Operations' \in Nat /\ Rest' \in Nat /\ Share \in Nat
      <4>1. Operations' \in Nat /\ Rest' \in 0 .. 100
        BY <2>3, WeightsStay DEF Weights
      <4> QED
        BY <4>1, ProgressAssumption
    <3>4. \A x \in Registered' : ops'[x] \in Nat
      BY <2>3 DEF OpsInv
    <3> QED
      BY <3>1, <3>2, <3>3, <3>4
  <2>7. progress' \in Nat /\ (~late' => progress' <= 100)
    BY <2>1, <2>6 DEF SharesInv
  <2>8. SharesInv'
    BY <2>1, <2>4, <2>5, <2>6, <2>7 DEF SharesInv
  <2> QED
    BY <2>1, <2>2, <2>3, <2>8 DEF IsRegistered, Added
<1> QED
  BY <1>1, <1>2

-----------------------------------------------------------------------------
(* The writes of a map.                                                     *)

MapWrites ==
  {Begin} \cup {Write("tiles", k * RawTile) : k \in 1 .. ctx.n}
    \cup {Write("directory", d) : d \in 0 .. DirectoryOps}
    \cup {w \in {Write("flush", k) : k \in 1 .. FlushOps} : PacksDirectory}

LEMMA WritesAre ==
  ASSUME ContextType
  PROVE  /\ Writes \in Seq(MapWrites)
         /\ \E k \in 1 .. Len(Writes) : Writes[k] = BitsWrite
<1>0. /\ ctx.n \in Nat /\ NumTiles \in Nat /\ RawTile \in Nat /\ FlushOps \in Nat
      /\ DirectoryOps \in Nat /\ DirectoryOps >= NumTiles
      /\ KeepsOffsets => DirectoryOps = NumTiles + ctx.n + 1
  BY FormatsAssumption, BakeAssumption DEF ContextType, DirectoryOps
<1>1. /\ Begin \in MapWrites /\ BitsWrite \in MapWrites
      /\ Write("directory", DirectoryOps) \in MapWrites
  BY <1>0 DEF MapWrites, BitsWrite
<1>2. ASSUME NEW k \in 1 .. ctx.n + 1 PROVE StagedWrite(k) \in Seq(MapWrites)
  <2>1. KeepsOffsets => Write("directory", NumTiles + k) \in MapWrites
    BY <1>0 DEF MapWrites
  <2> QED
    BY <2>1 DEF StagedWrite
<1>3. TileWrites \in Seq(MapWrites)
  <2> DEFINE parts == [k \in 1 .. ctx.n |-> StagedWrite(k) \o <<Write("tiles", k * RawTile)>>]
  <2>1. ASSUME NEW k \in 1 .. ctx.n PROVE parts[k] \in Seq(MapWrites)
    <3>1. Write("tiles", k * RawTile) \in MapWrites
      BY DEF MapWrites
    <3>2. StagedWrite(k) \in Seq(MapWrites)
      BY <1>0, <1>2
    <3> QED
      BY <3>1, <3>2
  <2>2. parts \in Seq(Seq(MapWrites))
    <3>1. parts \in [1 .. ctx.n -> Seq(MapWrites)]
      BY <2>1
    <3> HIDE DEF parts
    <3> QED
      BY <1>0, <3>1, FunctionIsSeq
  <2>3. FlattenSeq(parts) \in Seq(MapWrites)
    <3> HIDE DEF parts
    <3> QED
      BY <2>2, FlattenSeqType
  <2>4. StagedWrite(ctx.n + 1) \in Seq(MapWrites)
    BY <1>0, <1>2
  <2>5. <<Begin>> \in Seq(MapWrites)
    BY <1>1
  <2>6. TileWrites = <<Begin>> \o FlattenSeq(parts) \o StagedWrite(ctx.n + 1)
    BY DEF TileWrites
  <2> HIDE DEF parts
  <2> QED
    BY <2>3, <2>4, <2>5, <2>6
<1>4. PacksDirectory => FlushWrites \in Seq(MapWrites)
  <2>1. ASSUME PacksDirectory, NEW k \in 1 .. FlushOps PROVE Write("flush", k) \in MapWrites
    BY <2>1 DEF MapWrites
  <2> QED
    BY <1>0, <2>1 DEF FlushWrites
<1>5. <<BitsWrite>> \in Seq(MapWrites)
  BY <1>1
<1>6. CASE PacksDirectory /\ KeepsOffsets
  <2>1. Writes = <<BitsWrite>> \o TileWrites \o FlushWrites
    BY <1>6 DEF Writes
  <2>2. Writes \in Seq(MapWrites)
    BY <1>3, <1>4, <1>5, <1>6, <2>1
  <2>3. 1 \in 1 .. Len(Writes) /\ Writes[1] = BitsWrite
    BY <1>3, <1>4, <1>5, <1>6, <2>1
  <2> QED
    BY <2>2, <2>3
<1>7. CASE PacksDirectory /\ ~KeepsOffsets
  <2>1. Writes = TileWrites \o <<BitsWrite>> \o FlushWrites
    BY <1>7 DEF Writes
  <2>2. Writes \in Seq(MapWrites)
    BY <1>3, <1>4, <1>5, <1>7, <2>1
  <2>3. Len(TileWrites) + 1 \in 1 .. Len(Writes) /\ Writes[Len(TileWrites) + 1] = BitsWrite
    BY <1>3, <1>4, <1>5, <1>7, <2>1
  <2> QED
    BY <2>2, <2>3
<1>8. CASE ~PacksDirectory
  <2> DEFINE last == IF KeepsOffsets THEN <<Write("directory", DirectoryOps)>> ELSE <<>>
  <2>0. last \in Seq(MapWrites)
    BY <1>1
  <2>1. Writes = TileWrites \o <<BitsWrite>> \o last
    BY <1>8 DEF Writes
  <2> HIDE DEF last
  <2>2. Writes \in Seq(MapWrites)
    BY <1>3, <1>5, <2>0, <2>1
  <2>3. Len(TileWrites) + 1 \in 1 .. Len(Writes) /\ Writes[Len(TileWrites) + 1] = BitsWrite
    BY <1>3, <1>5, <2>0, <2>1
  <2> QED
    BY <2>2, <2>3
<1> QED
  BY <1>6, <1>7, <1>8

(* The task of a write is registered, and counts what is written.           *)
LEMMA WriteCounts ==
  ASSUME ContextType, OpsInv, TasksInv, mpc = "write", NEW w \in MapWrites, w.task # "begin"
  PROVE  /\ w.task \in Registered
         /\ SizeOf(w) \in Nat \ {0} /\ w.done \in 0 .. SizeOf(w)
         /\ w.task \notin Reserved => SizeOf(w) = ops[w.task]
<1>0. /\ ctx.n \in Nat /\ RawTile \in Nat \ {0} /\ FlushOps \in Nat \ {0} /\ Reserved = {"flush"}
      /\ DirectoryOps \in Nat \ {0}
  BY FormatsAssumption, BakeAssumption DEF ContextType, DirectoryOps
<1>1. CASE w = Begin
  BY <1>1 DEF Begin, Write
<1>2. CASE w \in {Write("tiles", k * RawTile) : k \in 1 .. ctx.n}
  <2>1. PICK k \in 1 .. ctx.n : w = Write("tiles", k * RawTile)
    BY <1>2
  <2>2. IsRegistered("tiles", ctx.n * RawTile)
    BY <1>0, <2>1 DEF TasksInv
  <2>3. \A i, j, m \in Nat : i <= j => i * m \in Nat /\ j * m \in Nat /\ i * m <= j * m
    OBVIOUS
  <2>4. /\ k * RawTile \in Nat /\ ctx.n * RawTile \in Nat /\ k * RawTile <= ctx.n * RawTile
        /\ ctx.n * RawTile # 0
    <3>1. k \in Nat /\ k <= ctx.n /\ 1 <= ctx.n /\ RawTile >= 1
      BY <1>0
    <3>2. 1 * RawTile <= ctx.n * RawTile
      BY <1>0, <2>3, <3>1
    <3> QED
      BY <1>0, <2>3, <3>1, <3>2
  <2>5. w.task = "tiles" /\ w.done = k * RawTile /\ SizeOf(w) = ops["tiles"]
    BY <2>1 DEF Write, SizeOf
  <2> QED
    BY <1>0, <2>2, <2>4, <2>5 DEF IsRegistered
<1>3. CASE w \in {Write("directory", d) : d \in 0 .. DirectoryOps}
  <2>1. IsRegistered("directory", DirectoryOps)
    BY DEF TasksInv
  <2>2. /\ w.task = "directory" /\ w.done \in 0 .. DirectoryOps /\ SizeOf(w) = ops["directory"]
    BY <1>3 DEF Write, SizeOf
  <2> QED
    BY <1>0, <2>1, <2>2 DEF IsRegistered
<1>4. CASE w \in {Write("flush", k) : k \in 1 .. FlushOps} /\ PacksDirectory
  <2>1. IsRegistered("flush", 0)
    BY <1>4 DEF TasksInv
  <2>2. w.task = "flush" /\ w.done \in 1 .. FlushOps /\ SizeOf(w) = FlushOps
    BY <1>4 DEF Write, SizeOf
  <2> QED
    BY <1>0, <2>1, <2>2 DEF IsRegistered
<1> QED
  BY <1>1, <1>2, <1>3, <1>4 DEF MapWrites

-----------------------------------------------------------------------------
(* What a step leaves alone.                                                *)

LEMMA RunTyped == RunInv => TypeOK
<1> SUFFICES ASSUME RunInv PROVE TypeOK
  OBVIOUS
<1>1. mapResult \in Results /\ imageResult \in Results
  BY DEF RunInv, ThreadsInv, Results
<1> QED
  BY <1>1 DEF RunInv, FieldsInv, ContextInv, ContextType, OpsInv, SharesInv, TypeOK

LEMMA SameContext ==
  ASSUME ctx' = ctx
  PROVE  UNCHANGED <<Writes, PacksTiles, PacksDirectory, KeepsOffsets, DirectoryOps, ContextType>>
  BY DEF Writes, TileWrites, StagedWrite, PacksTiles, PacksDirectory, KeepsOffsets, DirectoryOps,
     ContextType

(* Nothing written counts in any context.                                   *)
LEMMA NothingWritten == ContextType => 0 \in 0 .. Len(Writes)
<1> SUFFICES ASSUME ContextType PROVE 0 \in 0 .. Len(Writes)
  OBVIOUS
<1>1. Writes \in Seq(MapWrites)
  BY WritesAre
<1> QED
  BY <1>1

LEMMA NothingWrittenNext == ContextType' => (0 \in 0 .. Len(Writes))'
  BY NothingWritten, PTL

LEMMA SameProgress ==
  ASSUME OpsInv, SharesInv, UNCHANGED <<progress, ops, reported, late>>,
         bpc' # "idle" => bpc # "idle"
  PROVE  OpsInv' /\ SharesInv' /\ Registered' = Registered
<1>1. UNCHANGED <<Registered, Operations, Rest>>
  BY DEF Registered, Operations, Rest
<1> QED
  BY <1>1 DEF OpsInv, SharesInv

-----------------------------------------------------------------------------
(* The UI thread.                                                           *)

LEMMA EditKeeps ==
  ASSUME RunInv, NEW s \in Settings, Edit(s),
         resetPending' \in BOOLEAN, ~resetPending' => Consistent(s)
  PROVE  RunInv'
<1>1. /\ settings' = s /\ disturbed' = (disturbed \/ bpc # "idle")
      /\ UNCHANGED <<progress, cancelled, ops, reported, late, bpc, ctx, ready, result, mpc, written,
                     mapResult, mapFile, ipc, row, imageResult, imageFile, asked, early>>
  BY DEF Edit, progressVars, mapVars, imageVars, runVars
<1>2. UNCHANGED <<Writes, PacksTiles, PacksDirectory, KeepsOffsets, DirectoryOps, ContextType>>
  BY <1>1, SameContext
<1>3. OpsInv' /\ SharesInv' /\ Registered' = Registered
  BY <1>1, SameProgress DEF RunInv
<1>4. disturbed' \in BOOLEAN /\ (~disturbed' => ~disturbed /\ bpc = "idle")
  BY <1>1 DEF RunInv, FieldsInv
<1>5. FieldsInv' /\ ThreadsInv' /\ ContextInv'
  <2>1. FieldsInv'
    BY <1>1, <1>2, <1>4 DEF RunInv, FieldsInv
  <2>2. ThreadsInv'
    BY <1>1, <1>2 DEF RunInv, ThreadsInv
  <2>3. ContextInv'
    BY <1>1, <1>2 DEF RunInv, ContextInv
  <2> QED
    BY <2>1, <2>2, <2>3
<1>6. TasksInv'
  BY <1>1, <1>2, <1>3 DEF RunInv, TasksInv, IsRegistered
<1>7. EarlyInv' /\ FilesInv'
  BY <1>1, <1>2, <1>4 DEF RunInv, EarlyInv, FilesInv, SuccessIsComplete
<1>8. SettingsInv'
  BY <1>1, <1>4 DEF RunInv, SettingsInv
<1> QED
  BY <1>3, <1>5, <1>6, <1>7, <1>8 DEF RunInv

LEMMA UserEdits ==
  ASSUME RunInv, ChooseCompression \/ ResetFormat \/ ChooseFormat \/ ToggleImage
  PROVE  RunInv'
<1>0. /\ settings \in Settings /\ resetPending \in BOOLEAN
      /\ ~resetPending => Consistent(settings)
  BY DEF RunInv, FieldsInv, SettingsInv
<1>1. CASE ChooseCompression
  <2>1. PICK c \in Compressions : /\ Edit([settings EXCEPT !.compression = c])
                                  /\ resetPending' = (c.alg # "None")
    BY <1>1 DEF ChooseCompression
  <2> DEFINE s == [settings EXCEPT !.compression = c]
  <2>2. s \in Settings /\ s.compression = c
    BY <1>0 DEF Settings
  <2>3. resetPending' \in BOOLEAN
    BY <2>1, Zenon
  <2>4. ~resetPending' => Consistent(s)
    BY <2>1, <2>2 DEF Consistent
  <2> QED
    BY <2>1, <2>2, <2>3, <2>4, EditKeeps
<1>2. CASE ResetFormat
  <2> DEFINE s == [settings EXCEPT !.format = "Auto"]
  <2>1. s \in Settings /\ Consistent(s) /\ Edit(s) /\ resetPending' \in BOOLEAN
    BY <1>0, <1>2 DEF Settings, Consistent, ResetFormat
  <2> QED
    BY <2>1, EditKeeps
<1>3. CASE ChooseFormat
  <2>1. PICK f \in {"Auto", "Bitmask", "Hybrid"} : Edit([settings EXCEPT !.format = f])
    BY <1>3 DEF ChooseFormat
  <2> DEFINE s == [settings EXCEPT !.format = f]
  <2>2. s \in Settings /\ Consistent(s) /\ resetPending' \in BOOLEAN
    BY <1>0, <1>3 DEF Settings, Consistent, ChooseFormat
  <2> QED
    BY <2>1, <2>2, EditKeeps
<1>4. CASE ToggleImage
  <2> DEFINE s == [settings EXCEPT !.image = ~settings.image]
  <2>1. s \in Settings
    BY <1>0 DEF Settings
  <2>2. Consistent(s) /\ Edit(s) /\ resetPending' \in BOOLEAN
    BY <1>0, <1>4 DEF Settings, Consistent, ToggleImage
  <2> QED
    BY <2>1, <2>2, EditKeeps
<1> QED
  BY <1>1, <1>2, <1>3, <1>4

LEMMA UserStops ==
  ASSUME RunInv, Stop
  PROVE  RunInv'
<1>1. /\ cancelled' = TRUE
      /\ UNCHANGED <<progress, ops, reported, late, settings, resetPending, bpc, ctx, ready, result,
                     mpc, written, mapResult, mapFile, ipc, row, imageResult, imageFile, asked,
                     disturbed, early>>
  BY DEF Stop, Cancel, uiVars, mapVars, imageVars, runVars, history
<1>2. UNCHANGED <<Writes, PacksTiles, PacksDirectory, KeepsOffsets, DirectoryOps, ContextType>>
  BY <1>1, SameContext
<1>3. OpsInv' /\ SharesInv' /\ Registered' = Registered
  BY <1>1, SameProgress DEF RunInv
<1>4. FieldsInv'
  BY <1>1, <1>2 DEF RunInv, FieldsInv
<1>5. ThreadsInv' /\ ContextInv'
  BY <1>1, <1>2 DEF RunInv, ThreadsInv, ContextInv
<1>6. TasksInv'
  BY <1>1, <1>2, <1>3 DEF RunInv, TasksInv, IsRegistered
<1>7. EarlyInv' /\ FilesInv'
  BY <1>1, <1>2 DEF RunInv, EarlyInv, FilesInv, SuccessIsComplete
<1>8. SettingsInv'
  BY <1>1 DEF RunInv, SettingsInv
<1> QED
  BY <1>3, <1>4, <1>5, <1>6, <1>7, <1>8 DEF RunInv

(* Without tasks there is nothing to share.                                 *)
NothingRegistered ==
  /\ ops = NoTasks /\ reported = NoTasks /\ progress \in Nat
  /\ ~late => progress <= 100
  /\ bpc # "idle" => progress = 0

LEMMA NoTasksAre == NothingRegistered => OpsInv /\ SharesInv /\ Registered = {}
<1> SUFFICES ASSUME NothingRegistered PROVE OpsInv /\ SharesInv /\ Registered = {}
  OBVIOUS
<1>1. Registered = {}
  BY DEF NothingRegistered, Registered, NoTasks
<1>2. OpsInv
  BY <1>1 DEF NothingRegistered, OpsInv, NoTasks
<1>3. reported \in [Registered -> 0 .. 100]
  BY <1>1 DEF NothingRegistered, NoTasks
<1>4. SumFunctionOnSet(reported, Registered) = 0
  <2>1. NoTasks \in [{} -> Nat] /\ IsFiniteSet({}) /\ {} \in SUBSET {}
    BY FS_EmptySet DEF NoTasks
  <2>2. SumFunctionOnSet(NoTasks, {}) = 0
    BY <2>1, SumAny
  <2> QED
    BY <1>1, <2>2 DEF NothingRegistered
<1>5. progress \in Nat /\ (~late => progress <= 100) /\ (bpc # "idle" => progress = 0)
  BY DEF NothingRegistered
<1>6. bpc # "idle" => progress = SumFunctionOnSet(reported, Registered)
  BY <1>4, <1>5
<1>7. Registered \ Reserved = {} /\ Registered \cap Reserved = {}
  BY <1>1
<1>8. SharesInv
  BY <1>3, <1>5, <1>6, <1>7 DEF SharesInv
<1> QED
  BY <1>1, <1>2, <1>8

LEMMA NoTasksKept == NothingRegistered' => (OpsInv /\ SharesInv /\ Registered = {})'
  BY NoTasksAre, PTL

LEMMA UserStarts ==
  ASSUME RunInv, Start
  PROVE  RunInv'
<1>1. /\ progress' = 0 /\ cancelled' = FALSE /\ ops' = NoTasks /\ reported' = NoTasks
      /\ late' = FALSE /\ bpc = "idle" /\ ~resetPending
      /\ bpc' = "baking" /\ result' = "none"
      /\ asked' = settings.image /\ disturbed' = FALSE /\ early' = FALSE
      /\ mapFile' = Earlier(mapFile) /\ imageFile' = Earlier(imageFile)
      /\ UNCHANGED <<settings, resetPending, ctx, ready, mpc, written, mapResult, ipc, row,
                     imageResult>>
  BY DEF Start, Reset, uiVars
<1>2. UNCHANGED <<Writes, PacksTiles, PacksDirectory, KeepsOffsets, DirectoryOps, ContextType>>
  BY <1>1, SameContext
<1>3. /\ mpc = "off" /\ ipc = "off" /\ ~ready /\ written = 0 /\ mapResult = "none"
      /\ imageResult = "none" /\ ctx = NoContext
      /\ mapFile # "partial" /\ imageFile # "partial"
  BY <1>1 DEF RunInv, ThreadsInv, ContextInv
<1>4. OpsInv' /\ SharesInv' /\ Registered' = {}
  BY <1>1, NoTasksKept DEF NothingRegistered
<1>5. FieldsInv'
  BY <1>1, <1>2 DEF RunInv, FieldsInv, Earlier, FileStates, Results, Settings
<1>6. ThreadsInv' /\ ContextInv'
  BY <1>1, <1>2, <1>3 DEF RunInv, ThreadsInv, ContextInv, Earlier
<1>7. TasksInv'
  BY <1>1, <1>3, <1>4 DEF TasksInv
<1>8. EarlyInv' /\ FilesInv'
  BY <1>1, <1>3 DEF EarlyInv, FilesInv, SuccessIsComplete
<1>9. SettingsInv'
  BY <1>1, <1>3 DEF RunInv, SettingsInv
<1> QED
  BY <1>4, <1>5, <1>6, <1>7, <1>8, <1>9 DEF RunInv

-----------------------------------------------------------------------------
(* The worker.                                                              *)

LEMMA NoContextTyped ==
  NoContext \in [alg : Algs, n : 0 .. NumTiles, blocks : SUBSET Blocks, fmt : Formats]
<1>1. "None" \in Algs /\ "Bitmask" \in Formats /\ {} \in SUBSET Blocks
  BY DEF Algs, Formats
<1>2. 0 \in 0 .. NumTiles
  BY FormatsAssumption
<1> QED
  BY <1>1, <1>2 DEF NoContext

(* RunBake returns, with no thread left.                                    *)
LEMMA ReturnKeeps ==
  ASSUME RunInv, NEW how, how \in Results, Return(how),
         bpc # "idle", mpc \in {"off", "done"}, ipc \in {"off", "done"},
         how = "ok" => mapResult = "ok" /\ imageResult = "ok",
         disturbed \/ how \notin {"internal", "unready"}
  PROVE  RunInv'
<1>1. /\ bpc' = "idle" /\ result' = how /\ ctx' = NoContext /\ ready' = FALSE
      /\ mpc' = "off" /\ written' = 0 /\ mapResult' = "none"
      /\ ipc' = "off" /\ row' = 0 /\ imageResult' = "none"
      /\ ops' = NoTasks /\ reported' = NoTasks
      /\ UNCHANGED <<progress, cancelled, late, settings, resetPending, mapFile, imageFile, asked,
                     disturbed, early>>
  BY DEF Return, uiVars, history
<1>2. OpsInv' /\ SharesInv' /\ Registered' = {}
  BY <1>1, NoTasksKept DEF NothingRegistered, RunInv, SharesInv
<1>3. NoContext \in [alg : Algs, n : 0 .. NumTiles, blocks : SUBSET Blocks, fmt : Formats]
  BY NoContextTyped
<1>4. ContextInv'
  BY <1>1, <1>3 DEF ContextInv, ContextType
<1>5. FieldsInv'
  <2>1. written' \in 0 .. Len(Writes')
    BY <1>1, <1>4, NothingWrittenNext DEF ContextInv
  <2>2. row' \in 0 .. Rows
    BY <1>1, BakeAssumption
  <2> QED
    BY <1>1, <2>1, <2>2 DEF RunInv, FieldsInv
<1>6. ThreadsInv'
  BY <1>1 DEF RunInv, ThreadsInv
<1>7. TasksInv'
  BY <1>1, <1>2 DEF TasksInv
<1>8. EarlyInv'
  <2>1. how = "ok" => ~early
    BY DEF RunInv, EarlyInv
  <2>2. \A k \in 1 .. written' : FALSE
    BY <1>1
  <2> QED
    BY <1>1, <2>1, <2>2 DEF RunInv, EarlyInv
<1>9. FilesInv'
  BY <1>1 DEF RunInv, FilesInv, SuccessIsComplete
<1>10. SettingsInv'
  BY <1>1 DEF RunInv, SettingsInv
<1> QED
  BY <1>2, <1>4, <1>5, <1>6, <1>7, <1>8, <1>9, <1>10 DEF RunInv

(* What RunBake does before it starts its threads.                          *)
LEMMA ReadingKeeps ==
  ASSUME RunInv, bpc \in {"baking", "prepare", "blocks", "format"},
         bpc' \in {"prepare", "blocks", "format", "image"}, ContextType',
         UNCHANGED <<progressVars, uiVars, mapVars, imageVars, ready, result, history>>,
         ~disturbed =>
           /\ ctx'.alg = ResolveCompressionAlg(settings.compression)
           /\ bpc' \in {"format", "image"} =>
                ctx'.blocks = ResolveCompressBlocks(settings.compression, ctx'.n)
           /\ bpc' = "image" =>
                ctx'.fmt = ResolveEntryFormat(settings.format, ctx'.n, ctx'.blocks)
  PROVE  RunInv'
<1>1. UNCHANGED <<progress, cancelled, ops, reported, late, settings, resetPending, mpc, written,
                  mapResult, mapFile, ipc, row, imageResult, imageFile, ready, result, asked,
                  disturbed, early>>
  BY DEF progressVars, uiVars, mapVars, imageVars, history
<1>2. /\ mpc = "off" /\ ipc = "off" /\ ~ready /\ written = 0 /\ mapResult = "none"
      /\ imageResult = "none" /\ bpc # "idle" /\ Registered = {}
      /\ mapFile # "partial" /\ imageFile # "partial"
  BY DEF RunInv, ThreadsInv, ContextInv, TasksInv
<1>3. OpsInv' /\ SharesInv' /\ Registered' = {}
  BY <1>1, <1>2, SameProgress DEF RunInv
<1>4. FieldsInv'
  <2>1. written' \in 0 .. Len(Writes')
    BY <1>1, <1>2, NothingWrittenNext
  <2> QED
    BY <1>1, <2>1 DEF RunInv, FieldsInv
<1>5. ThreadsInv' /\ ContextInv'
  BY <1>1, <1>2 DEF ThreadsInv, ContextInv
<1>6. TasksInv'
  BY <1>1, <1>2, <1>3 DEF TasksInv
<1>7. EarlyInv' /\ FilesInv'
  BY <1>1, <1>2 DEF RunInv, EarlyInv, FilesInv, SuccessIsComplete
<1>8. SettingsInv'
  BY <1>1, <1>2 DEF RunInv, SettingsInv
<1> QED
  BY <1>3, <1>4, <1>5, <1>6, <1>7, <1>8 DEF RunInv

(* The settings that are left alone stay what the context was read from.    *)
LEMMA RunBakeReads ==
  ASSUME RunInv, ReadAlgorithm \/ (PrepareWriter /\ bpc' # "idle") \/ ReadBlocks \/ ReadFormat
  PROVE  RunInv'
<1>0. /\ ctx \in [alg : Algs, n : 0 .. NumTiles, blocks : SUBSET Blocks, fmt : Formats]
      /\ settings.compression \in [alg : Algs \cup {"Auto"}, blocks : SUBSET Blocks]
  BY BakeAssumption DEF RunInv, ContextInv, ContextType, FieldsInv, Settings
<1>1. CASE ReadAlgorithm
  <2> DEFINE a == ResolveCompressionAlg(settings.compression)
  <2>1. /\ bpc = "baking" /\ bpc' = "prepare" /\ ctx' = [ctx EXCEPT !.alg = a]
        /\ UNCHANGED <<progressVars, uiVars, mapVars, imageVars, ready, result, history>>
    BY <1>1 DEF ReadAlgorithm
  <2>2. a \in Algs
    BY <1>0 DEF ResolveCompressionAlg, Algs
  <2> HIDE DEF a
  <2>3. ContextType' /\ ctx'.alg = a
    BY <1>0, <2>1, <2>2 DEF ContextType
  <2> QED
    BY <2>1, <2>3, ReadingKeeps DEF a
<1>2. CASE PrepareWriter /\ bpc' # "idle"
  <2>1. PICK n \in 0 .. NumTiles : ctx' = [ctx EXCEPT !.n = n]
    BY <1>2 DEF PrepareWriter, Return
  <2>2. /\ bpc = "prepare" /\ bpc' = "blocks"
        /\ UNCHANGED <<progressVars, uiVars, mapVars, imageVars, ready, result, history>>
    BY <1>2 DEF PrepareWriter, Return
  <2>3. ContextType' /\ ctx'.alg = ctx.alg
    BY <1>0, <2>1 DEF ContextType
  <2>4. ~disturbed => ctx.alg = ResolveCompressionAlg(settings.compression)
    BY <2>2 DEF RunInv, SettingsInv
  <2> QED
    BY <2>2, <2>3, <2>4, ReadingKeeps
<1>3. CASE ReadBlocks
  <2> DEFINE b == ResolveCompressBlocks(settings.compression, ctx.n)
  <2>1. /\ bpc = "blocks" /\ bpc' = "format" /\ ctx' = [ctx EXCEPT !.blocks = b]
        /\ UNCHANGED <<progressVars, uiVars, mapVars, imageVars, ready, result, history>>
    BY <1>3 DEF ReadBlocks
  <2>2. b \in SUBSET Blocks
    BY <1>0 DEF ResolveCompressBlocks, Blocks
  <2>3. ~disturbed => ctx.alg = ResolveCompressionAlg(settings.compression)
    BY <2>1 DEF RunInv, SettingsInv
  <2>4. ContextType' /\ ctx'.alg = ctx.alg /\ ctx'.n = ctx.n /\ ctx'.blocks = b
    <3> HIDE DEF b
    <3> QED
      BY <1>0, <2>1, <2>2 DEF ContextType
  <2> QED
    BY <2>1, <2>3, <2>4, ReadingKeeps
<1>4. CASE ReadFormat
  <2> DEFINE f == ResolveEntryFormat(settings.format, ctx.n, ctx.blocks)
  <2>1. /\ bpc = "format" /\ bpc' = "image" /\ ctx' = [ctx EXCEPT !.fmt = f]
        /\ UNCHANGED <<progressVars, uiVars, mapVars, imageVars, ready, result, history>>
    BY <1>4 DEF ReadFormat
  <2>2. f \in Formats
    BY DEF ResolveEntryFormat, Formats
  <2>3. ~disturbed => /\ ctx.alg = ResolveCompressionAlg(settings.compression)
                      /\ ctx.blocks = ResolveCompressBlocks(settings.compression, ctx.n)
    BY <2>1 DEF RunInv, SettingsInv
  <2>4. ContextType' /\ ctx'.alg = ctx.alg /\ ctx'.n = ctx.n /\ ctx'.blocks = ctx.blocks /\ ctx'.fmt = f
    <3> HIDE DEF f
    <3> QED
      BY <1>0, <2>1, <2>2 DEF ContextType
  <2> QED
    BY <2>1, <2>3, <2>4, ReadingKeeps
<1> QED
  BY <1>1, <1>2, <1>3, <1>4

(* RunBake gives up before it starts its threads, or joins them.            *)
LEMMA RunBakeReturns ==
  ASSUME RunInv, ((PrepareWriter \/ PrepareImage) /\ bpc' = "idle") \/ Join
  PROVE  RunInv'
<1>1. CASE (PrepareWriter \/ PrepareImage) /\ bpc' = "idle"
  <2>1. Return("failed") /\ bpc \in {"prepare", "image"}
    BY <1>1 DEF PrepareWriter, PrepareImage
  <2>2. mpc = "off" /\ ipc = "off"
    BY <2>1 DEF RunInv, ThreadsInv
  <2>3. "failed" \in Results
    BY DEF Results
  <2> QED
    BY <2>1, <2>2, <2>3, ReturnKeeps
<1>2. CASE Join
  <2>1. Return(Outcome) /\ bpc = "join" /\ mpc = "done" /\ ipc = "done"
    BY <1>2 DEF Join
  <2>2. Outcome \in Results
    BY DEF RunInv, ThreadsInv, Outcome, Results
  <2>3. Outcome = "ok" => mapResult = "ok" /\ imageResult = "ok"
    BY DEF Outcome
  <2>4. disturbed \/ Outcome \notin {"internal", "unready"}
    BY <2>1 DEF RunInv, ThreadsInv, SettingsInv, Outcome
  <2> QED
    BY <2>1, <2>2, <2>3, <2>4, ReturnKeeps
<1> QED
  BY <1>1, <1>2

(* The exporter is prepared, if the image is on.                            *)
LEMMA RunBakePreparesImage ==
  ASSUME RunInv, PrepareImage, bpc' # "idle"
  PROVE  RunInv'
<1>1. /\ bpc = "image" /\ bpc' = "map"
      /\ \/ settings.image /\ Register("image", Rows) /\ ready' = TRUE
         \/ ~settings.image /\ UNCHANGED <<progressVars, ready>>
      /\ UNCHANGED <<settings, resetPending, mpc, written, mapResult, mapFile, ipc, row, imageResult,
                     imageFile, ctx, result, asked, disturbed, early>>
  BY DEF PrepareImage, Return, uiVars, mapVars, imageVars, history
<1>2. /\ mpc = "off" /\ ipc = "off" /\ ~ready /\ written = 0 /\ mapResult = "none"
      /\ imageResult = "none" /\ bpc # "idle" /\ Registered = {}
      /\ mapFile # "partial" /\ imageFile # "partial"
  BY <1>1 DEF RunInv, ThreadsInv, ContextInv, TasksInv
<1>3. UNCHANGED <<Writes, PacksTiles, PacksDirectory, KeepsOffsets, DirectoryOps, ContextType>>
  BY <1>1, SameContext
<1>4. /\ OpsInv' /\ SharesInv' /\ cancelled' = cancelled /\ late' \in BOOLEAN
      /\ Registered' \subseteq {"image"}
      /\ ready' \in BOOLEAN /\ (ready' => IsRegistered("image", Rows)')
      /\ (settings.image => ready')
  <2>1. CASE settings.image /\ Register("image", Rows) /\ ready' = TRUE
    <3>1. "image" \in Tasks \ Registered /\ Rows \in Nat /\ Rows > 0
      BY <1>2, BakeAssumption
    <3>2. OpsInv /\ SharesInv
      BY DEF RunInv
    <3>3. /\ OpsInv' /\ SharesInv' /\ cancelled' = cancelled
          /\ Registered' \subseteq Registered \cup {"image"}
          /\ IsRegistered("image", Rows)'
      BY <1>1, <1>2, <2>1, <3>1, <3>2, Registering DEF Added
    <3>4. late' \in BOOLEAN
      BY <2>1, <3>1, Zenon DEF Register, RunInv, FieldsInv, progressVars
    <3> QED
      BY <1>2, <2>1, <3>3, <3>4
  <2>2. CASE ~settings.image /\ UNCHANGED <<progressVars, ready>>
    <3>1. UNCHANGED <<progress, cancelled, ops, reported, late>>
      BY <2>2 DEF progressVars
    <3>2. OpsInv' /\ SharesInv' /\ Registered' = Registered
      BY <1>2, <3>1, SameProgress DEF RunInv
    <3> QED
      BY <1>2, <2>2, <3>1, <3>2 DEF RunInv, FieldsInv
  <2> QED
    BY <1>1, <2>1, <2>2
<1>5. FieldsInv'
  BY <1>1, <1>3, <1>4 DEF RunInv, FieldsInv
<1>6. ThreadsInv' /\ ContextInv'
  BY <1>1, <1>2, <1>3 DEF RunInv, ThreadsInv, ContextInv
<1>7. TasksInv'
  BY <1>1, <1>2, <1>4 DEF TasksInv
<1>8. EarlyInv' /\ FilesInv'
  BY <1>1, <1>2, <1>3, <1>4 DEF RunInv, EarlyInv, FilesInv, SuccessIsComplete
<1>9. SettingsInv'
  BY <1>1, <1>2, <1>4 DEF RunInv, SettingsInv
<1> QED
  BY <1>4, <1>5, <1>6, <1>7, <1>8, <1>9 DEF RunInv

LEMMA RunBakeSpawns ==
  ASSUME RunInv, SpawnMap \/ SpawnImage
  PROVE  RunInv'
<1>1. /\ UNCHANGED <<progress, cancelled, ops, reported, late, settings, resetPending, ctx, ready,
                     result, written, mapResult, mapFile, row, imageResult, imageFile, asked,
                     disturbed>>
      /\ \/ /\ bpc = "map" /\ bpc' = "spawn" /\ mpc' = "tiles" /\ ipc' = ipc /\ early' = cancelled
         \/ /\ bpc = "spawn" /\ bpc' = "join" /\ mpc' = mpc /\ ipc' = "start" /\ early' = early
  BY DEF SpawnMap, SpawnImage, progressVars, uiVars, mapVars, imageVars, history
<1>2. UNCHANGED <<Writes, PacksTiles, PacksDirectory, KeepsOffsets, DirectoryOps, ContextType>>
  BY <1>1, SameContext
<1>3. OpsInv' /\ SharesInv' /\ Registered' = Registered
  BY <1>1, SameProgress DEF RunInv
<1>4. FieldsInv'
  BY <1>1, <1>2 DEF RunInv, FieldsInv
<1>5. ThreadsInv'
  BY <1>1, <1>2 DEF RunInv, ThreadsInv
<1>6. ContextInv' /\ TasksInv'
  BY <1>1, <1>2, <1>3 DEF RunInv, ThreadsInv, ContextInv, TasksInv, IsRegistered
<1>7. EarlyInv'
  <2>1. CASE bpc = "map"
    <3>1. written' = 0 /\ mapResult' = "none" /\ bpc' # "idle"
      BY <1>1, <2>1 DEF RunInv, ThreadsInv
    <3>2. \A k \in 1 .. written' : FALSE
      BY <3>1
    <3> QED
      BY <1>1, <2>1, <3>1, <3>2 DEF EarlyInv
  <2>2. CASE bpc = "spawn"
    BY <1>1, <1>2, <2>2 DEF RunInv, EarlyInv
  <2> QED
    BY <1>1, <2>1, <2>2
<1>8. FilesInv'
  BY <1>1 DEF RunInv, FilesInv, SuccessIsComplete
<1>9. SettingsInv'
  BY <1>1 DEF RunInv, ThreadsInv, SettingsInv
<1> QED
  BY <1>3, <1>4, <1>5, <1>6, <1>7, <1>8, <1>9 DEF RunInv

-----------------------------------------------------------------------------
(* The map's thread.                                                        *)

LEMMA OthersKept ==
  ASSUME OthersOfMap' = OthersOfMap
  PROVE  /\ UNCHANGED <<settings, resetPending, ipc, row, imageResult, imageFile, bpc, ctx, ready,
                        result, asked, disturbed, early>>
         /\ UNCHANGED <<Writes, PacksTiles, PacksDirectory, KeepsOffsets, DirectoryOps, ContextType>>
<1>1. UNCHANGED <<settings, resetPending, ipc, row, imageResult, imageFile, bpc, ctx, ready,
                  result, asked, disturbed, early>>
  BY DEF OthersOfMap, uiVars, imageVars, runVars, history
<1> QED
  BY <1>1, SameContext

(* It registers its tasks one by one, each before the first write.          *)
LEMMA MapRegisters ==
  ASSUME RunInv, mpc \in {"tiles", "directory", "flush"}, mpc' \in {"directory", "flush", "open"},
         mpc' = "flush" => PacksDirectory,
         NEW t \in Tasks \ Registered, NEW n \in Nat, Register(t, n),
         OthersOfMap' = OthersOfMap, UNCHANGED <<written, mapResult, mapFile>>,
         Added(t, n) => TasksInv'
  PROVE  RunInv'
<1>1. /\ UNCHANGED <<settings, resetPending, ipc, row, imageResult, imageFile, bpc, ctx, ready,
                     result, asked, disturbed, early>>
      /\ UNCHANGED <<Writes, PacksTiles, PacksDirectory, KeepsOffsets, DirectoryOps, ContextType>>
  BY OthersKept
<1>2. bpc # "idle" /\ bpc' # "idle" /\ OpsInv /\ SharesInv
  BY <1>1 DEF RunInv, ThreadsInv
<1>3. /\ OpsInv' /\ SharesInv' /\ cancelled' = cancelled
      /\ Added(t, n)
  BY <1>2, Registering
<1>4. TasksInv'
  BY <1>3
<1>5. late' \in BOOLEAN
  <2>1. CASE late' = late
    BY <2>1 DEF RunInv, FieldsInv
  <2>2. CASE late' = (late \/ \E x \in Registered : reported[x] > 0)
    BY <2>2, Zenon
  <2> QED
    BY <2>1, <2>2 DEF Register, progressVars
<1>6. FieldsInv'
  BY <1>1, <1>3, <1>5 DEF RunInv, FieldsInv
<1>7. ThreadsInv' /\ ContextInv'
  BY <1>1 DEF RunInv, ThreadsInv, ContextInv
<1>8. EarlyInv' /\ FilesInv'
  BY <1>1, <1>3 DEF RunInv, EarlyInv, FilesInv, SuccessIsComplete
<1>9. SettingsInv'
  BY <1>1 DEF RunInv, SettingsInv
<1> QED
  BY <1>3, <1>4, <1>6, <1>7, <1>8, <1>9 DEF RunInv

LEMMA MapRegistersTasks ==
  ASSUME RunInv, RegisterTiles \/ RegisterDirectory \/ ReserveFlush
  PROVE  RunInv'
<1>0. /\ ctx.n \in Nat /\ RawTile \in Nat \ {0} /\ DirectoryOps \in Nat \ {0} /\ ctx.n * RawTile \in Nat
      /\ Tasks = {"image", "tiles", "directory", "flush"} /\ Reserved = {"flush"}
  BY FormatsAssumption, BakeAssumption DEF RunInv, ContextInv, ContextType, DirectoryOps
<1>1. OthersOfMap' = OthersOfMap /\ UNCHANGED <<written, mapResult, mapFile>>
  BY DEF RegisterTiles, RegisterDirectory, ReserveFlush
<1>2. /\ UNCHANGED <<ipc, bpc, ctx, ready>>
      /\ UNCHANGED <<PacksDirectory, DirectoryOps>>
  BY <1>1, OthersKept
<1>a. TasksInv /\ (bpc \in {"spawn", "join"} \/ mpc = "off")
  BY DEF RunInv, ThreadsInv
<1>3. CASE RegisterTiles
  <2>1. mpc = "tiles" /\ mpc' = "directory" /\ Register("tiles", ctx.n * RawTile)
    BY <1>3 DEF RegisterTiles
  <2>2. Registered \subseteq {"image"} /\ bpc \in {"spawn", "join"} /\ TasksInv
    BY <1>a, <2>1 DEF TasksInv
  <2>3. "tiles" \in Tasks \ Registered
    BY <1>0, <2>2
  <2>4. ctx.n > 0 => ctx.n * RawTile > 0
    BY <1>0
  <2>5. Added("tiles", ctx.n * RawTile) => TasksInv'
    BY <1>2, <2>1, <2>2, <2>4 DEF TasksInv, IsRegistered, Added
  <2> QED
    BY <1>0, <1>1, <2>1, <2>3, <2>5, MapRegisters
<1>4. CASE RegisterDirectory
  <2>1. /\ mpc = "directory" /\ mpc' = (IF PacksDirectory THEN "flush" ELSE "open")
        /\ Register("directory", DirectoryOps)
    BY <1>4 DEF RegisterDirectory
  <2>2. Registered \subseteq {"image", "tiles"} /\ bpc \in {"spawn", "join"} /\ TasksInv
    BY <1>a, <2>1 DEF TasksInv
  <2>3. "directory" \in Tasks \ Registered /\ DirectoryOps > 0
    BY <1>0, <2>2
  <2>5. Added("directory", DirectoryOps) => TasksInv'
    BY <1>2, <2>1, <2>2, <2>3 DEF TasksInv, IsRegistered, Added
  <2> QED
    BY <1>0, <1>1, <2>1, <2>3, <2>5, MapRegisters
<1>5. CASE ReserveFlush
  <2>1. mpc = "flush" /\ mpc' = "open" /\ Register("flush", 0)
    BY <1>5 DEF ReserveFlush
  <2>2. /\ Registered \subseteq {"image", "tiles", "directory"} /\ bpc \in {"spawn", "join"}
        /\ TasksInv
    BY <1>a, <2>1 DEF TasksInv
  <2>3. "flush" \in Tasks \ Registered /\ "flush" \in Reserved
    BY <1>0, <2>2
  <2>5. Added("flush", 0) => TasksInv'
    BY <1>2, <2>1, <2>2, <2>3 DEF TasksInv, IsRegistered, Added
  <2> QED
    BY <1>0, <1>1, <2>1, <2>3, <2>5, MapRegisters
<1> QED
  BY <1>3, <1>4, <1>5

(* It ends, with a whole file or without one.                               *)
LEMMA MapEnds ==
  ASSUME RunInv, mpc \in {"open", "write"}, mpc' = "done",
         mapResult' \in {"ok", "failed", "cancelled", "internal"},
         mapFile' \in FileStates, mapFile' # "partial",
         OthersOfMap' = OthersOfMap, UNCHANGED <<progressVars, written>>,
         mapResult' = "internal" => disturbed,
         mapResult' = "ok" => mapFile' = "whole" /\ ~early
  PROVE  RunInv'
<1>1. /\ UNCHANGED <<settings, resetPending, ipc, row, imageResult, imageFile, bpc, ctx, ready,
                     result, asked, disturbed, early>>
      /\ UNCHANGED <<Writes, PacksTiles, PacksDirectory, KeepsOffsets, DirectoryOps, ContextType>>
  BY OthersKept
<1>2. UNCHANGED <<progress, cancelled, ops, reported, late, written>>
  BY DEF progressVars
<1>3. bpc # "idle" /\ bpc \in {"spawn", "join"}
  BY DEF RunInv, ThreadsInv
<1>4. OpsInv' /\ SharesInv' /\ Registered' = Registered
  BY <1>1, <1>2, SameProgress DEF RunInv
<1>5. FieldsInv'
  BY <1>1, <1>2 DEF RunInv, FieldsInv
<1>6. ThreadsInv' /\ ContextInv'
  BY <1>1, <1>2 DEF RunInv, ThreadsInv, ContextInv
<1>7. TasksInv'
  BY <1>1, <1>2, <1>3, <1>4 DEF RunInv, TasksInv, IsRegistered
<1>8. EarlyInv' /\ FilesInv'
  BY <1>1, <1>2, <1>3 DEF RunInv, EarlyInv, FilesInv, SuccessIsComplete
<1>9. SettingsInv'
  BY <1>1, <1>3 DEF RunInv, SettingsInv
<1> QED
  BY <1>4, <1>5, <1>6, <1>7, <1>8, <1>9 DEF RunInv

LEMMA MapOpens ==
  ASSUME RunInv, OpenMap
  PROVE  RunInv'
<1>0. /\ mpc = "open" /\ OthersOfMap' = OthersOfMap /\ UNCHANGED <<progressVars, written>>
      /\ written' = written
  BY DEF OpenMap
<1>1. CASE mpc' = "done" /\ mapResult' = "failed" /\ mapFile' = mapFile
  <2>1. mapFile' \in FileStates /\ mapFile' # "partial"
    BY <1>0, <1>1 DEF RunInv, FieldsInv, ThreadsInv
  <2>2. mapResult' \in {"ok", "failed", "cancelled", "internal"} /\ mapResult' # "internal" /\ mapResult' # "ok"
    BY <1>1
  <2> QED
    BY <1>0, <1>1, <2>1, <2>2, MapEnds
<1>2. CASE mpc' = "write" /\ mapFile' = "partial" /\ mapResult' = mapResult
  <2>1. /\ UNCHANGED <<settings, resetPending, ipc, row, imageResult, imageFile, bpc, ctx, ready,
                       result, asked, disturbed, early>>
        /\ UNCHANGED <<Writes, PacksTiles, PacksDirectory, KeepsOffsets, DirectoryOps, ContextType>>
    BY <1>0, OthersKept
  <2>2. UNCHANGED <<progress, cancelled, ops, reported, late, written>>
    BY <1>0 DEF progressVars
  <2>3. bpc \in {"spawn", "join"} /\ mapResult = "none"
    BY <1>0 DEF RunInv, ThreadsInv
  <2>4. OpsInv' /\ SharesInv' /\ Registered' = Registered
    BY <2>1, <2>2, SameProgress DEF RunInv
  <2>5. FieldsInv'
    BY <1>2, <2>1, <2>2 DEF RunInv, FieldsInv, FileStates
  <2>6. ThreadsInv' /\ ContextInv'
    BY <1>0, <1>2, <2>1, <2>2 DEF RunInv, ThreadsInv, ContextInv
  <2>7. TasksInv'
    BY <1>0, <1>2, <2>1, <2>2, <2>3, <2>4 DEF RunInv, TasksInv, IsRegistered
  <2>8. EarlyInv' /\ FilesInv'
    BY <1>2, <2>1, <2>2, <2>3 DEF RunInv, EarlyInv, FilesInv, SuccessIsComplete
  <2>9. SettingsInv'
    BY <1>2, <2>1, <2>3 DEF RunInv, SettingsInv
  <2> QED
    BY <2>4, <2>5, <2>6, <2>7, <2>8, <2>9 DEF RunInv
<1> QED
  BY <1>1, <1>2 DEF OpenMap

(* The compressor is missing only if the settings changed between the two   *)
(* reads of the compression.                                                *)
LEMMA MissingIsDisturbed ==
  ASSUME RunInv, mpc = "write", NEW w, CompressorMissing(w)
  PROVE  disturbed
<1> SUFFICES ASSUME ~disturbed PROVE FALSE
  OBVIOUS
<1>1. /\ bpc \in {"spawn", "join"}
      /\ ctx.alg = ResolveCompressionAlg(settings.compression)
      /\ ctx.blocks = ResolveCompressBlocks(settings.compression, ctx.n)
  BY DEF RunInv, ThreadsInv, SettingsInv
<1>2. settings.compression \in Compressions
  BY DEF RunInv, FieldsInv, Settings
<1>3. settings.compression.alg = "None"
  BY <1>1 DEF CompressorMissing, ResolveCompressionAlg
<1>4. settings.compression.blocks = {}
  BY <1>2, <1>3, BakeAssumption
<1>5. ctx.blocks = {}
  BY <1>1, <1>3, <1>4 DEF ResolveCompressBlocks
<1> QED
  BY <1>5 DEF CompressorMissing, PacksTiles, PacksDirectory

LEMMA MapWritesOne ==
  ASSUME RunInv, WriteMap
  PROVE  RunInv'
<1> DEFINE w == Writes[written + 1]
<1>0. /\ mpc = "write" /\ written < Len(Writes) /\ OthersOfMap' = OthersOfMap
      /\ \/ CompressorMissing(w) /\ MapFails("internal")
         \/ ~CompressorMissing(w) /\ w.task # "begin" /\ cancelled /\ MapFails("cancelled")
         \/ /\ ~CompressorMissing(w)
            /\ written' = written + 1
            /\ \/ w.task = "begin" /\ UNCHANGED progressVars
               \/ w.task # "begin" /\ ~cancelled /\ Report(w.task, w.done, SizeOf(w))
            /\ UNCHANGED <<mpc, mapResult, mapFile>>
  BY DEF WriteMap
<1>1. ContextType /\ OpsInv /\ TasksInv /\ SharesInv
  BY DEF RunInv, ContextInv
<1>2. /\ written \in Nat /\ Len(Writes) \in Nat /\ w \in MapWrites
      /\ written + 1 \in 0 .. Len(Writes)
  <2>1. Writes \in Seq(MapWrites)
    BY <1>1, WritesAre
  <2>2. written \in 0 .. Len(Writes)
    BY DEF RunInv, FieldsInv
  <2> QED
    BY <1>0, <2>1, <2>2
<1>3. CASE mpc' = "done"
  <2> DEFINE how == mapResult'
  <2>1. /\ how \in {"internal", "cancelled"} /\ mapFile' = "absent" /\ UNCHANGED <<progressVars, written>>
        /\ how = "internal" => CompressorMissing(w)
    BY <1>0, <1>3 DEF MapFails
  <2>2. how = "internal" => disturbed
    BY <1>0, <2>1, MissingIsDisturbed
  <2>3. "absent" \in FileStates
    BY DEF FileStates
  <2> QED
    BY <1>0, <1>3, <2>1, <2>2, <2>3, MapEnds
<1>4. CASE mpc' = mpc
  <2>0. /\ written' = written + 1 /\ UNCHANGED <<mapResult, mapFile>>
        /\ \/ w.task = "begin" /\ UNCHANGED progressVars
           \/ w.task # "begin" /\ ~cancelled /\ Report(w.task, w.done, SizeOf(w))
    BY <1>0, <1>4 DEF MapFails
  <2>1. /\ UNCHANGED <<settings, resetPending, ipc, row, imageResult, imageFile, bpc, ctx, ready,
                       result, asked, disturbed, early>>
        /\ UNCHANGED <<Writes, PacksTiles, PacksDirectory, KeepsOffsets, DirectoryOps, ContextType>>
    BY <1>0, OthersKept
  <2>2. bpc \in {"spawn", "join"} /\ bpc # "idle"
    BY <1>0 DEF RunInv, ThreadsInv
  <2>3. OpsInv' /\ SharesInv' /\ UNCHANGED <<ops, late, cancelled>> /\ Registered' = Registered
    <3>1. CASE w.task = "begin" /\ UNCHANGED progressVars
      <4>1. UNCHANGED <<progress, cancelled, ops, reported, late>>
        BY <3>1 DEF progressVars
      <4> QED
        BY <1>1, <2>1, <2>2, <4>1, SameProgress
    <3>2. CASE w.task # "begin" /\ Report(w.task, w.done, SizeOf(w))
      <4>1. /\ w.task \in Registered
            /\ SizeOf(w) \in Nat \ {0} /\ w.done \in 0 .. SizeOf(w)
            /\ w.task \notin Reserved => SizeOf(w) = ops[w.task]
        BY <1>0, <1>1, <1>2, <3>2, WriteCounts
      <4>2. SharesInv'
        BY <1>1, <2>1, <2>2, <3>2, <4>1, Reporting
      <4>3. UNCHANGED <<ops, late, cancelled>> /\ Registered' = Registered
        BY <3>2 DEF Report, Registered
      <4> QED
        BY <1>1, <4>2, <4>3 DEF OpsInv
    <3> QED
      BY <2>0, <3>1, <3>2
  <2>4. FieldsInv'
    BY <1>2, <2>0, <2>1, <2>3 DEF RunInv, FieldsInv
  <2>5. ThreadsInv' /\ ContextInv'
    BY <1>0, <1>4, <2>0, <2>1 DEF RunInv, ThreadsInv, ContextInv
  <2>6. TasksInv'
    BY <1>1, <1>4, <2>1, <2>3 DEF TasksInv, IsRegistered
  <2>7. EarlyInv'
    <3> SUFFICES ASSUME early PROVE EarlyInv'
      BY <2>1 DEF EarlyInv
    <3>1. cancelled /\ mapResult # "ok" /\ \A k \in 1 .. written : Writes[k].task = "begin"
      BY DEF RunInv, EarlyInv
    <3>2. Writes[written + 1].task = "begin"
      BY <2>0, <3>1
    <3>3. \A k \in 1 .. written' : Writes[k].task = "begin"
      BY <1>2, <2>0, <3>1, <3>2
    <3> QED
      BY <2>0, <2>1, <2>2, <2>3, <3>1, <3>3 DEF EarlyInv
  <2>8. FilesInv'
    BY <2>0, <2>1 DEF RunInv, FilesInv, SuccessIsComplete
  <2>9. SettingsInv'
    BY <2>0, <2>1 DEF RunInv, SettingsInv
  <2> QED
    BY <2>3, <2>4, <2>5, <2>6, <2>7, <2>8, <2>9 DEF RunInv
<1> QED
  BY <1>0, <1>3, <1>4 DEF MapFails

LEMMA MapFinishes ==
  ASSUME RunInv, MapFault \/ SealMap
  PROVE  RunInv'
<1>1. CASE MapFault
  <2>1. /\ mpc = "write" /\ mpc' = "done" /\ mapResult' = "failed" /\ mapFile' = "absent"
        /\ UNCHANGED <<progressVars, written>> /\ OthersOfMap' = OthersOfMap
    BY <1>1 DEF MapFault, MapFails
  <2>2. "absent" \in FileStates
    BY DEF FileStates
  <2> QED
    BY <2>1, <2>2, MapEnds
<1>2. CASE SealMap
  <2>1. /\ mpc = "write" /\ mpc' = "done" /\ mapResult' = "ok" /\ mapFile' = "whole"
        /\ UNCHANGED <<progressVars, written>> /\ OthersOfMap' = OthersOfMap
        /\ written = Len(Writes)
    BY <1>2 DEF SealMap
  <2>2. ~early
    <3>1. PICK k \in 1 .. Len(Writes) : Writes[k] = BitsWrite
      BY WritesAre DEF RunInv, ContextInv
    <3>2. Writes[k].task # "begin"
      BY <3>1 DEF BitsWrite, Write
    <3> QED
      BY <2>1, <3>2 DEF RunInv, EarlyInv
  <2>3. "whole" \in FileStates
    BY DEF FileStates
  <2> QED
    BY <2>1, <2>2, <2>3, MapEnds
<1> QED
  BY <1>1, <1>2

-----------------------------------------------------------------------------
(* The image's thread.                                                      *)

(* It goes on only with its task registered, and ends without a half        *)
(* written file.                                                            *)
LEMMA ImageGoesOn ==
  ASSUME RunInv, ipc \in {"start", "open", "rows"}, ipc' \in {"open", "rows", "done"},
         OthersOfImage' = OthersOfImage, ready' \in {ready, FALSE}, row' \in 0 .. Rows,
         imageFile' \in FileStates, imageFile' = "partial" <=> ipc' = "rows",
         imageResult' \in {"none", "ok", "failed", "cancelled", "unready"},
         imageResult' # "none" <=> ipc' = "done",
         ipc' # "done" => ready \/ ipc # "start",
         imageResult' = "unready" => disturbed,
         imageResult' = "ok" /\ asked /\ ~disturbed => imageFile' = "whole",
         UNCHANGED <<cancelled, ops, late>>, SharesInv'
  PROVE  RunInv'
<1>1. UNCHANGED <<settings, resetPending, mpc, written, mapResult, mapFile, bpc, ctx, result,
                  asked, disturbed, early>>
  BY DEF OthersOfImage, uiVars, mapVars, history
<1>2. UNCHANGED <<Writes, PacksTiles, PacksDirectory, KeepsOffsets, DirectoryOps, ContextType>>
  BY <1>1, SameContext
<1>3. bpc = "join"
  BY DEF RunInv, ThreadsInv
<1>4. OpsInv' /\ Registered' = Registered
  BY DEF RunInv, OpsInv, Registered
<1>5. FieldsInv'
  BY <1>1, <1>2 DEF RunInv, FieldsInv
<1>6. ThreadsInv' /\ ContextInv'
  BY <1>1, <1>2 DEF RunInv, ThreadsInv, ContextInv
<1>7. TasksInv'
  <2>1. ready' => ready
    BY DEF RunInv, FieldsInv
  <2>2. ready' \/ ipc' \in {"open", "rows"} => IsRegistered("image", Rows)'
    BY <1>4, <2>1 DEF RunInv, TasksInv, IsRegistered
  <2> QED
    BY <1>1, <1>2, <1>3, <1>4, <2>2 DEF RunInv, TasksInv, IsRegistered
<1>8. EarlyInv' /\ FilesInv'
  BY <1>1, <1>2, <1>3 DEF RunInv, EarlyInv, FilesInv, SuccessIsComplete
<1>9. SettingsInv'
  BY <1>1, <1>3 DEF RunInv, SettingsInv
<1> QED
  BY <1>4, <1>5, <1>6, <1>7, <1>8, <1>9 DEF RunInv

(* It reads the flag again: an exporter that is not ready means that the    *)
(* settings changed.                                                        *)
LEMMA ImageStarts ==
  ASSUME RunInv, StartImage
  PROVE  RunInv'
<1>1. /\ ipc = "start" /\ OthersOfImage' = OthersOfImage
      /\ UNCHANGED <<progress, cancelled, ops, reported, late, row, imageFile>>
      /\ \/ ~settings.image /\ ipc' = "done" /\ imageResult' = "ok" /\ ready' = ready
         \/ settings.image /\ ~ready /\ ipc' = "done" /\ imageResult' = "unready" /\ ready' = ready
         \/ settings.image /\ ready /\ ipc' = "open" /\ ready' = FALSE /\ imageResult' = imageResult
  BY DEF StartImage, ImageEnds, progressVars
<1>2. /\ bpc = "join" /\ imageFile # "partial" /\ imageFile \in FileStates /\ imageResult = "none"
      /\ row \in 0 .. Rows /\ ready \in BOOLEAN
      /\ ~disturbed => asked = settings.image /\ (settings.image => ready)
  BY <1>1 DEF RunInv, ThreadsInv, FieldsInv, SettingsInv
<1>3. SharesInv'
  <2>1. bpc' = bpc
    BY <1>1 DEF OthersOfImage
  <2> QED
    BY <1>1, <2>1, SameProgress DEF RunInv
<1>4. /\ ipc' \in {"open", "done"} /\ ready' \in {ready, FALSE} /\ row' \in 0 .. Rows
      /\ imageFile' \in FileStates /\ imageFile' # "partial"
      /\ imageResult' \in {"none", "ok", "unready"}
      /\ imageResult' # "none" <=> ipc' = "done"
      /\ ipc' # "done" => ready
  BY <1>1, <1>2
<1>5. /\ imageResult' = "unready" => disturbed
      /\ imageResult' = "ok" /\ asked /\ ~disturbed => imageFile' = "whole"
  BY <1>1, <1>2
<1> QED
  BY <1>1, <1>3, <1>4, <1>5, ImageGoesOn

LEMMA ImageOpens ==
  ASSUME RunInv, OpenImage
  PROVE  RunInv'
<1>1. /\ ipc = "open" /\ OthersOfImage' = OthersOfImage
      /\ UNCHANGED <<progress, cancelled, ops, reported, late, ready, row>>
      /\ \/ ipc' = "rows" /\ imageFile' = "partial" /\ imageResult' = imageResult
         \/ ipc' = "done" /\ imageResult' = "failed" /\ imageFile' = imageFile
  BY DEF OpenImage, ImageEnds, progressVars
<1>2. /\ imageFile # "partial" /\ imageFile \in FileStates /\ imageResult = "none"
      /\ row \in 0 .. Rows /\ bpc = "join" /\ "partial" \in FileStates
  BY <1>1 DEF RunInv, ThreadsInv, FieldsInv, FileStates
<1>3. SharesInv'
  <2>1. bpc' = bpc
    BY <1>1 DEF OthersOfImage
  <2> QED
    BY <1>1, <2>1, SameProgress DEF RunInv
<1>4. /\ ipc' \in {"rows", "done"} /\ row' \in 0 .. Rows
      /\ imageFile' \in FileStates /\ (imageFile' = "partial" <=> ipc' = "rows")
      /\ imageResult' \in {"none", "failed"}
      /\ imageResult' # "none" <=> ipc' = "done"
  BY <1>1, <1>2
<1> QED
  BY <1>1, <1>3, <1>4, ImageGoesOn

(* A callback of the image's task.                                          *)
LEMMA ImageReports ==
  ASSUME RunInv, ipc = "rows", bpc' = bpc, NEW done \in 0 .. Rows, Report("image", done, Rows)
  PROVE  SharesInv' /\ UNCHANGED <<cancelled, ops, late>>
<1>1. OpsInv /\ SharesInv /\ IsRegistered("image", Rows) /\ bpc = "join"
  BY DEF RunInv, TasksInv, ThreadsInv
<1>2. Rows \in Nat \ {0} /\ "image" \in Registered /\ Rows = ops["image"]
  BY <1>1, BakeAssumption DEF IsRegistered
<1>3. SharesInv'
  BY <1>1, <1>2, Reporting
<1> QED
  BY <1>3 DEF Report

LEMMA ImageWrites ==
  ASSUME RunInv, WriteRow \/ ImageFault \/ FinishImage
  PROVE  RunInv'
<1>1. /\ ipc = "rows" /\ OthersOfImage' = OthersOfImage /\ ready' = ready /\ bpc' = bpc
  BY DEF WriteRow, ImageFault, FinishImage, OthersOfImage
<1>2. row \in 0 .. Rows /\ Rows \in Nat /\ bpc = "join" /\ imageResult = "none" /\ imageFile = "partial"
  BY <1>1, BakeAssumption DEF RunInv, FieldsInv, ThreadsInv
<1>3. {"absent", "partial", "whole"} \subseteq FileStates
  BY DEF FileStates
<1>4. CASE ipc' = "rows"
  <2>1. WriteRow /\ row < Rows /\ Report("image", row, Rows) /\ row' = row + 1
          /\ UNCHANGED <<imageResult, imageFile>>
    BY <1>4 DEF WriteRow, ImageFault, FinishImage, ImageFails, ImageEnds
  <2>2. row' \in 0 .. Rows
    BY <1>2, <2>1
  <2>3. SharesInv' /\ UNCHANGED <<cancelled, ops, late>>
    BY <1>1, <1>2, <2>1, ImageReports
  <2> QED
    BY <1>1, <1>2, <1>3, <1>4, <2>1, <2>2, <2>3, ImageGoesOn
<1>5. CASE ipc' # "rows"
  <2>1. /\ ipc' = "done" /\ row' = row
        /\ \/ imageResult' \in {"failed", "cancelled"} /\ imageFile' = "absent"
           \/ imageResult' = "ok" /\ imageFile' = "whole"
        /\ \/ UNCHANGED progressVars
           \/ Report("image", Rows, Rows)
    BY <1>1, <1>5 DEF WriteRow, ImageFault, FinishImage, ImageFails, ImageEnds
  <2>2. SharesInv' /\ UNCHANGED <<cancelled, ops, late>>
    <3>1. CASE UNCHANGED progressVars
      <4>1. UNCHANGED <<progress, cancelled, ops, reported, late>>
        BY <3>1 DEF progressVars
      <4> QED
        BY <1>1, <4>1, SameProgress DEF RunInv
    <3>2. CASE Report("image", Rows, Rows)
      <4>1. Rows \in 0 .. Rows
        BY <1>2
      <4> QED
        BY <1>1, <3>2, <4>1, ImageReports
    <3> QED
      BY <2>1, <3>1, <3>2
  <2> QED
    BY <1>1, <1>2, <1>3, <2>1, <2>2, ImageGoesOn
<1> QED
  BY <1>4, <1>5

-----------------------------------------------------------------------------
(* The invariant.                                                           *)

LEMMA RunStarts == Init => RunInv
<1> SUFFICES ASSUME Init PROVE RunInv
  OBVIOUS
<1>1. /\ progress = 0 /\ ~cancelled /\ cancelled \in BOOLEAN /\ ~late /\ late \in BOOLEAN
      /\ ops = NoTasks /\ reported = NoTasks
      /\ settings \in Settings /\ Consistent(settings) /\ ~resetPending /\ resetPending \in BOOLEAN
      /\ bpc = "idle" /\ ctx = NoContext /\ ~ready /\ ready \in BOOLEAN /\ result = "none"
      /\ mpc = "off" /\ written = 0 /\ mapResult = "none" /\ mapFile = "absent"
      /\ ipc = "off" /\ row = 0 /\ imageResult = "none" /\ imageFile = "absent"
      /\ asked = settings.image /\ asked \in BOOLEAN /\ ~disturbed /\ disturbed \in BOOLEAN
      /\ ~early /\ early \in BOOLEAN
  BY DEF Init, ProgressInit, Settings
<1>2. OpsInv /\ SharesInv /\ Registered = {}
  BY <1>1, NoTasksAre DEF NothingRegistered
<1>3. ContextInv
  BY <1>1, NoContextTyped DEF ContextInv, ContextType
<1>4. FieldsInv
  <2>1. 0 \in 0 .. Len(Writes) /\ 0 \in 0 .. Rows
    BY <1>3, NothingWritten, BakeAssumption DEF ContextInv
  <2> QED
    BY <1>1, <2>1 DEF FieldsInv, FileStates, Results
<1>5. ThreadsInv /\ TasksInv
  BY <1>1, <1>2 DEF ThreadsInv, TasksInv
<1>6. EarlyInv /\ SettingsInv /\ FilesInv
  BY <1>1 DEF EarlyInv, SettingsInv, FilesInv, SuccessIsComplete
<1> QED
  BY <1>2, <1>3, <1>4, <1>5, <1>6 DEF RunInv

LEMMA RunGoesOn ==
  ASSUME RunInv, [Next]_vars
  PROVE  RunInv'
<1>1. ASSUME UIStep PROVE RunInv'
  BY <1>1, UserEdits, UserStops, UserStarts DEF UIStep
<1>2. ASSUME WorkerStep PROVE RunInv'
  BY <1>2, RunBakeReads, RunBakeReturns, RunBakePreparesImage, RunBakeSpawns DEF WorkerStep
<1>3. ASSUME MapAdvances \/ MapFault PROVE RunInv'
  BY <1>3, MapRegistersTasks, MapOpens, MapWritesOne, MapFinishes DEF MapAdvances
<1>4. ASSUME ImageAdvances \/ ImageFault PROVE RunInv'
  BY <1>4, ImageStarts, ImageOpens, ImageWrites DEF ImageAdvances
<1>5. ASSUME UNCHANGED vars PROVE RunInv'
  <2>1. /\ UNCHANGED <<progress, cancelled, ops, reported, late, settings, resetPending, mpc, written,
                       mapResult, mapFile, ipc, row, imageResult, imageFile, bpc, ctx, ready, result>>
        /\ UNCHANGED <<asked, disturbed, early>>
    BY <1>5 DEF vars, progressVars, uiVars, mapVars, imageVars, runVars, history
  <2>2. UNCHANGED <<Writes, PacksTiles, PacksDirectory, KeepsOffsets, DirectoryOps, ContextType>>
    BY <2>1, SameContext
  <2>3. OpsInv' /\ SharesInv' /\ Registered' = Registered
    BY <2>1, SameProgress DEF RunInv
  <2>4. FieldsInv' /\ ThreadsInv' /\ ContextInv'
    BY <2>1, <2>2 DEF RunInv, FieldsInv, ThreadsInv, ContextInv
  <2>5. TasksInv'
    BY <2>1, <2>2, <2>3 DEF RunInv, TasksInv, IsRegistered
  <2>6. EarlyInv' /\ FilesInv'
    BY <2>1, <2>2 DEF RunInv, EarlyInv, FilesInv, SuccessIsComplete
  <2>7. SettingsInv'
    BY <2>1 DEF RunInv, SettingsInv
  <2> QED
    BY <2>3, <2>4, <2>5, <2>6, <2>7 DEF RunInv
<1> QED
  BY <1>1, <1>2, <1>3, <1>4, <1>5 DEF Next

(* The invariant holds of every state of every bake, one after the other.   *)
THEOREM RunInvariant == Spec => []RunInv
<1>1. RunInv /\ [Next]_vars => RunInv'
  BY RunGoesOn
<1> QED
  BY RunStarts, <1>1, PTL DEF Spec

-----------------------------------------------------------------------------
(* What it says of the properties.                                          *)

(* Every variable is in the range its declaration gives it, whatever the    *)
(* user does to the settings while RunBake reads them: the progress is      *)
(* never negative and the writer never passes its last write.               *)
THEOREM RunTypes == Spec => []TypeOK
  BY RunInvariant, RunTyped, PTL

(* RunBake joins both threads on every path, and each removes the file it   *)
(* did not finish: nothing half written is left once it returned.           *)
THEOREM NothingHalfWritten == Spec => []NoPartialFile
<1>1. RunInv => NoPartialFile
  BY DEF RunInv, ThreadsInv, NoPartialFile
<1> QED
  BY RunInvariant, <1>1, PTL

(* A bake that reports success wrote the whole map, and the debug image     *)
(* that was asked for unless the settings were changed meanwhile.           *)
THEOREM SuccessMeansWhole == Spec => []SuccessIsComplete
<1>1. RunInv => SuccessIsComplete
  BY DEF RunInv, FilesInv
<1> QED
  BY RunInvariant, <1>1, PTL

(* A cancel before the threads start is seen by a callback of BakeMap,      *)
(* whatever the formats: each of its sequences of writes has one.           *)
THEOREM EarlyCancelSucceeds == Spec => []EarlyCancelIsSeen
<1>1. RunInv => EarlyCancelIsSeen
  BY DEF RunInv, EarlyInv, EarlyCancelIsSeen
<1> QED
  BY RunInvariant, <1>1, PTL

(* With the settings left alone the two reads of the compression and of the *)
(* image's flag agree, so that neither "internal" nor "unready" is          *)
(* reported, and packed tiles always have offsets.                          *)
THEOREM LeftAloneIsSound == Spec => []UndisturbedBakeIsSound
<1>1. RunInv => UndisturbedBakeIsSound
  <2> SUFFICES ASSUME RunInv, ~disturbed PROVE UndisturbedBakeIsSound
    BY DEF UndisturbedBakeIsSound
  <2>1. result \notin {"internal", "unready"}
    BY DEF RunInv, SettingsInv
  <2>2. ASSUME mpc # "off", PacksTiles PROVE KeepsOffsets
    <3>1. /\ bpc \in {"spawn", "join"} /\ bpc # "idle"
          /\ ctx.blocks = ResolveCompressBlocks(settings.compression, ctx.n)
          /\ ctx.fmt = ResolveEntryFormat(settings.format, ctx.n, ctx.blocks)
          /\ Consistent(settings)
      BY <2>2 DEF RunInv, ThreadsInv, SettingsInv
    <3>2. settings.compression \in Compressions
      BY DEF RunInv, FieldsInv, Settings
    <3>3. settings.compression.alg # "None"
      <4> SUFFICES ASSUME settings.compression.alg = "None" PROVE FALSE
        OBVIOUS
      <4>1. settings.compression.blocks = {}
        BY <3>2, BakeAssumption
      <4> QED
        BY <2>2, <3>1, <4>1 DEF ResolveCompressBlocks, PacksTiles
    <3>4. settings.format = "Auto"
      BY <3>1, <3>3 DEF Consistent
    <3> QED
      BY <2>2, <3>1, <3>4 DEF ResolveEntryFormat, PacksTiles, KeepsOffsets
  <2> QED
    BY <2>1, <2>2 DEF UndisturbedBakeIsSound
<1> QED
  BY RunInvariant, <1>1, PTL

(* With every task registered before the first report, the shares that      *)
(* RecalculateContexts gives out never add up to more than 100: each is     *)
(* rounded down, and no task reports more than its own operations.          *)
THEOREM OrderedSharesAddUp == Spec => []OrderedProgressIsBounded
<1>1. RunInv => OrderedProgressIsBounded
  BY DEF RunInv, SharesInv, OrderedProgressIsBounded
<1> QED
  BY RunInvariant, <1>1, PTL

-----------------------------------------------------------------------------
(* What a step may not do.                                                  *)

(* Only a callback moves the progress within a bake, and it moves it up.    *)
LEMMA OnlyCallbacksCount ==
  ASSUME RunInv, [Next]_vars, bpc # "idle"
  PROVE  progress' >= progress
<1>0. progress \in Nat /\ OpsInv /\ SharesInv /\ TasksInv /\ ContextType
  BY DEF RunInv, SharesInv, ContextInv
<1>1. ASSUME progress' = progress PROVE progress' >= progress
  BY <1>0, <1>1
<1>2. ASSUME UIStep PROVE progress' = progress
  BY <1>2 DEF UIStep, ChooseCompression, ResetFormat, ChooseFormat, ToggleImage, Stop, Start, Edit,
     Cancel, progressVars
<1>3. ASSUME WorkerStep PROVE progress' = progress
  BY <1>3 DEF WorkerStep, ReadAlgorithm, PrepareWriter, ReadBlocks, ReadFormat, PrepareImage,
     SpawnMap, SpawnImage, Join, Return, Register, progressVars
<1>4. ASSUME MapAdvances \/ MapFault PROVE progress' >= progress
  <2>1. ASSUME NEW w, w = Writes[written + 1], mpc = "write", written < Len(Writes),
               ~CompressorMissing(w), w.task # "begin", bpc' = bpc,
               Report(w.task, w.done, SizeOf(w))
        PROVE  progress' >= progress
    <3>1. w \in MapWrites
      <4>1. Writes \in Seq(MapWrites) /\ written \in Nat
        BY <1>0, WritesAre DEF RunInv, FieldsInv
      <4> QED
        BY <2>1, <4>1
    <3>2. /\ w.task \in Registered
          /\ SizeOf(w) \in Nat \ {0} /\ w.done \in 0 .. SizeOf(w)
          /\ w.task \notin Reserved => SizeOf(w) = ops[w.task]
      BY <1>0, <2>1, <3>1, WriteCounts
    <3> QED
      BY <1>0, <2>1, <3>2, Reporting
  <2>2. ASSUME WriteMap PROVE progress' >= progress
    <3> DEFINE w == Writes[written + 1]
    <3>1. \/ progress' = progress
          \/ /\ mpc = "write" /\ written < Len(Writes) /\ ~CompressorMissing(w)
             /\ w.task # "begin" /\ bpc' = bpc /\ Report(w.task, w.done, SizeOf(w))
      BY <2>2 DEF WriteMap, MapFails, OthersOfMap, runVars, progressVars
    <3> QED
      BY <1>1, <2>1, <3>1
  <2>3. ASSUME ~WriteMap PROVE progress' = progress
    BY <1>4, <2>3 DEF MapAdvances, RegisterTiles, RegisterDirectory, ReserveFlush, OpenMap, SealMap,
       MapFault, MapFails, Register, progressVars
  <2> QED
    BY <1>1, <2>2, <2>3
<1>5. ASSUME ImageAdvances \/ ImageFault PROVE progress' >= progress
  <2>1. ASSUME NEW done \in 0 .. Rows, ipc = "rows", bpc' = bpc, Report("image", done, Rows)
        PROVE  progress' >= progress
    <3>1. IsRegistered("image", Rows)
      BY <1>0, <2>1 DEF TasksInv
    <3>2. Rows \in Nat \ {0} /\ "image" \in Registered /\ Rows = ops["image"]
      BY <3>1, BakeAssumption DEF IsRegistered
    <3> QED
      BY <1>0, <2>1, <3>2, Reporting
  <2>2. ASSUME WriteRow \/ FinishImage PROVE progress' >= progress
    <3>1. row \in 0 .. Rows /\ Rows \in 0 .. Rows
      BY BakeAssumption DEF RunInv, FieldsInv
    <3>2. /\ ipc = "rows" /\ bpc' = bpc
          /\ \/ progress' = progress
             \/ Report("image", row, Rows)
             \/ Report("image", Rows, Rows)
      BY <2>2 DEF WriteRow, FinishImage, ImageFails, OthersOfImage, progressVars
    <3> QED
      BY <1>1, <2>1, <3>1, <3>2
  <2>3. ASSUME ~(WriteRow \/ FinishImage) PROVE progress' = progress
    BY <1>5, <2>3 DEF ImageAdvances, StartImage, OpenImage, ImageFault, ImageFails, progressVars
  <2> QED
    BY <1>1, <2>2, <2>3
<1>6. ASSUME UNCHANGED vars PROVE progress' = progress
  BY <1>6 DEF vars, progressVars
<1> QED
  BY <1>1, <1>2, <1>3, <1>4, <1>5, <1>6 DEF Next

(* Progress never goes back within a bake, although each registration       *)
(* reweighs every task: Update only ever adds what a task has gained.       *)
THEOREM ProgressOnlyGrows == Spec => ProgressNeverGoesBack
<1>1. RunInv /\ [Next]_vars => [bpc # "idle" => progress' >= progress]_vars
  BY OnlyCallbacksCount
<1> QED
  BY RunInvariant, <1>1, PTL DEF Spec, ProgressNeverGoesBack
=============================================================================
