----------------------------- MODULE RankTables -----------------------------
(***************************************************************************)
(* JDKMath's rank tables: CUniversalRankTable picks a flat or a two-level  *)
(* table and the width of its entries, Build fills it block by block or,   *)
(* where the processor has AVX-512, by vectors of lanes, and GetRank and   *)
(* GetRanksBatch answer how many set bits precede a set bit.               *)
(* Src: src/Includes/JDKMath.                                              *)
(***************************************************************************)
EXTENDS Integers, FiniteSets, Sequences

CONSTANTS
  Bitmasks,    (* the vectors of blocks given to Build, indexed from 0      *)
  BlockBits,   (* bits of a block (64)                                      *)
  Lanes,       (* lanes of a vector (8)                                     *)
  LaneSteps,   (* vectors of a super block (4)                              *)
  MaxOf,       (* the largest value of an entry of 1, 2, 4 and 8 bytes      *)
  Thresholds,  (* JDK_MATH_TWOLEVEL_RANK_THRESHOLD_BYTES, as configured     *)
  Page         (* bytes of a memory page (4096)                             *)

Widths   == {1, 2, 4, 8}
BitSets  == SUBSET (0 .. BlockBits - 1)

SuperBlocks == Lanes * LaneSteps

ASSUME RankAssumption ==
  /\ BlockBits \in Nat \ {0} /\ Lanes \in 1 .. 8 /\ LaneSteps \in Nat \ {0}
  /\ MaxOf \in [Widths -> Nat]
  /\ MaxOf[1] <= MaxOf[2] /\ MaxOf[2] <= MaxOf[4] /\ MaxOf[4] <= MaxOf[8]
  /\ SuperBlocks * BlockBits <= MaxOf[2]
  /\ \A b \in Bitmasks : /\ IsFiniteSet(DOMAIN b)
                         /\ Cardinality(DOMAIN b) * BlockBits <= MaxOf[8]
                         /\ b \in [0 .. Cardinality(DOMAIN b) - 1 -> BitSets]
  /\ Thresholds \subseteq Nat /\ Page \in Nat \ (0 .. 3)

VARIABLES
  bits,      (* the bitmask, which the table points to                      *)
  cpu,       (* "scalar", "build" (AVX-512 in Build) or "all"               *)
  threshold,
  phase,     (* start, building, ready                                      *)
  kind,      (* the alternative of m_table: none, flat or two               *)
  width,     (* bytes of TRank or TSuperRank                                *)
  ranks,     (* m_ranks, or m_localRanks with its padding                   *)
  supers,    (* m_superRanks with its padding                               *)
  at,        (* the block the loop of Build has come to                     *)
  global, local, (* its running sums                                        *)
  answer     (* the last query: what was asked and what came back           *)

table == <<kind, width, ranks, supers, at, global, local>>
vars  == <<bits, cpu, threshold, phase, table, answer>>

Count  == Cardinality(DOMAIN bits)
NoRank == MaxOf[8]
NoAnswer == [via |-> "none", asked |-> <<>>, got |-> <<>>, mapped |-> TRUE]

Wrap(w, x) == x % (MaxOf[w] + 1)
PopCount(block) == Cardinality(block)

LocalWidth == 2

(* Entries added so that a 4-byte gather of the last one stays inside.      *)
MutantPadding(w) == 0
Padding(w) == IF w < 4 THEN (4 - w) \div w ELSE 0

Zeros(n) == [k \in 0 .. n - 1 |-> 0]

SuperCount == (Count + SuperBlocks - 1) \div SuperBlocks

-----------------------------------------------------------------------------
(* CUniversalRankTable::Build.                                              *)

Fits(w) == Count * BlockBits <= MaxOf[w]

ChosenWidth ==
  CHOOSE w \in Widths : (Fits(w) \/ w = 8) /\ \A v \in Widths : v < w => ~Fits(v)

ChosenKind(w) ==
  IF Count = 0 THEN "none"
  ELSE IF w = 1 THEN "flat"
  ELSE IF Count * w >= threshold THEN "two" ELSE "flat"

Choose ==
  /\ phase = "start" /\ phase' = "building"
  /\ width' = ChosenWidth
  /\ kind' = ChosenKind(width')
  /\ ranks' = Zeros(CASE kind' = "none" -> 0
                      [] kind' = "flat" -> Count
                      [] kind' = "two"  -> Count + Padding(LocalWidth))
  /\ supers' = Zeros(IF kind' = "two" THEN SuperCount + Padding(width') ELSE 0)
  /\ UNCHANGED <<bits, cpu, threshold, at, global, local, answer>>

MutantShift(x, d) == [k \in DOMAIN x |-> x[k] + x[IF k >= d THEN k - d ELSE 0]]

(* A vector plus itself moved up by d lanes, with zeros moved in.           *)
Shift(x, d) == [k \in DOMAIN x |-> x[k] + (IF k >= d THEN x[k - d] ELSE 0)]

(* The sums of the lanes before each lane, by three shifts and a fourth     *)
(* without the addition; the sum of all is the last of them.                *)
Inclusive(x) == Shift(Shift(Shift(x, 1), 2), 4)
Exclusive(x) == [k \in DOMAIN x |-> IF k >= 1 THEN Inclusive(x)[k - 1] ELSE 0]

Vector(first) == [k \in 0 .. Lanes - 1 |-> PopCount(bits[first + k])]

(* The running sum before vector s of a super block: reduce_add of those    *)
(* before it.                                                               *)
BeforeStep[s \in 0 .. LaneSteps] ==
  IF s = 0 THEN 0
  ELSE BeforeStep[s - 1] + Inclusive(Vector(at + (s - 1) * Lanes))[Lanes - 1]

Round == IF kind = "two" THEN SuperBlocks ELSE Lanes

(* BuildRanks_AVX512, one vector.                                           *)
FlatVectorRound ==
  /\ kind = "flat"
  /\ ranks' = [k \in DOMAIN ranks |->
                 IF k \in at .. at + Lanes - 1
                 THEN Wrap(width, global + Exclusive(Vector(at))[k - at]) ELSE ranks[k]]
  /\ global' = Wrap(width, global + Inclusive(Vector(at))[Lanes - 1])
  /\ UNCHANGED <<supers, local>>

(* BuildTwoLevelRanks_AVX512, one super block.                              *)
TwoVectorRound ==
  /\ kind = "two"
  /\ supers' = [supers EXCEPT ![at \div SuperBlocks] = global]
  /\ ranks' = [k \in DOMAIN ranks |->
                 IF k \in at .. at + SuperBlocks - 1
                 THEN LET s == (k - at) \div Lanes IN
                      Wrap(LocalWidth, BeforeStep[s] + Exclusive(Vector(at + s * Lanes))[(k - at) % Lanes])
                 ELSE ranks[k]]
  /\ global' = Wrap(width, global + BeforeStep[LaneSteps])
  /\ local' = 0

VectorRound ==
  /\ phase = "building" /\ cpu # "scalar" /\ at + Round <= Count
  /\ FlatVectorRound \/ TwoVectorRound
  /\ at' = at + Round
  /\ UNCHANGED <<bits, cpu, threshold, phase, kind, width, answer>>

(* BuildRanks_Scalar, one block.                                            *)
FlatScalarRound ==
  /\ kind = "flat"
  /\ ranks' = [ranks EXCEPT ![at] = global]
  /\ UNCHANGED <<supers, local>>

(* BuildTwoLevelRanks_Scalar, one block.                                    *)
TwoScalarRound ==
  LET first == at % SuperBlocks = 0
      sum   == IF first THEN 0 ELSE local
  IN  /\ kind = "two"
      /\ supers' = IF first THEN [supers EXCEPT ![at \div SuperBlocks] = global] ELSE supers
      /\ ranks' = [ranks EXCEPT ![at] = Wrap(LocalWidth, sum)]
      /\ local' = sum + PopCount(bits[at])

(* Without AVX-512, or for the blocks after the last whole vector.          *)
ScalarRound ==
  /\ phase = "building" /\ at < Count
  /\ cpu # "scalar" => at + Round > Count
  /\ FlatScalarRound \/ TwoScalarRound
  /\ global' = Wrap(width, global + PopCount(bits[at]))
  /\ at' = at + 1
  /\ UNCHANGED <<bits, cpu, threshold, phase, kind, width, answer>>

(* m_totalRank is the running sum.                                          *)
Built ==
  /\ phase = "building" /\ at = Count
  /\ phase' = "ready"
  /\ UNCHANGED <<bits, cpu, threshold, table, answer>>

-----------------------------------------------------------------------------
(* Queries.                                                                 *)

BlockOf(i) == i \div BlockBits
BitOf(i)   == i % BlockBits

(* What a read of element k of an array finds: past its end, anything.      *)
Read(array, k, anything) == IF k \in DOMAIN array THEN {array[k]} ELSE anything

(* The rank of a bit found set in block, by the tables' entries.            *)
Found(i, block) ==
  LET b     == BlockOf(i)
      below == PopCount({j \in block : j < BitOf(i)})
  IN  IF kind = "flat"
      THEN {r + below : r \in Read(ranks, b, {0, MaxOf[width]})}
      ELSE UNION {{s + r + below : r \in Read(ranks, b, {0, MaxOf[LocalWidth]})} :
                    s \in Read(supers, b \div SuperBlocks, {0, MaxOf[width]})}

(* What one lookup may give; missing is its answer for a bit not set.       *)
Lookup(i, missing) ==
  UNION {IF BitOf(i) \in block THEN Found(i, block) ELSE {missing} :
           block \in Read(bits, BlockOf(i), BitSets)}

(* The fill value of the AVX-512 batch is declared const TRank.             *)
Missing == IF cpu = "all" THEN MaxOf[width] ELSE NoRank

(* GetRank compares the block's index with the length of the entries.       *)
SingleRank(i) == IF BlockOf(i) \notin DOMAIN ranks THEN {NoRank} ELSE Lookup(i, NoRank)

Answer(via, asked, got, mapped) ==
  /\ answer' = [via |-> via, asked |-> asked, got |-> got, mapped |-> mapped]
  /\ UNCHANGED <<bits, cpu, threshold, phase, table>>

GetRank(i) ==
  /\ phase = "ready"
  /\ \E r \in SingleRank(i) : Answer("single", <<i>>, <<r>>, TRUE)

(* Elements below the limit are gathered four bytes at a time.              *)
SafeLimit(base, w, capacity) ==
  capacity - 1 + (IF (base + (capacity - 1) * w) % Page <= Page - 4 THEN 1 ELSE 0)

(* A gather of element k touches no page after the array's last.            *)
GatherMapped(base, w, capacity, k) ==
  (base + k * w + 3) \div Page <= (base + capacity * w - 1) \div Page

Gathered(base, w, capacity, limit, elements) ==
  w < 4 => \A k \in elements : k < limit => GatherMapped(base, w, capacity, k)

(* The entries of a flat table have reserved padding, those of a two-level  *)
(* table are padded; the limit of super ranks is divided once more.         *)
BatchMapped(base, asked) ==
  LET valid     == {k \in DOMAIN asked : BlockOf(asked[k]) < Count /\
                                         BitOf(asked[k]) \in bits[BlockOf(asked[k])]}
      blocks    == {BlockOf(asked[k]) : k \in valid}
      superCap  == Cardinality(DOMAIN supers)
      localCap  == Cardinality(DOMAIN ranks)
  IN  IF kind = "flat"
      THEN Gathered(base, width, Count + Padding(width),
                    SafeLimit(base, width, Count + Padding(width)), blocks)
      ELSE /\ Gathered(base, LocalWidth, localCap, SafeLimit(base, LocalWidth, localCap), blocks)
           /\ Gathered(base, width, superCap, SafeLimit(base, width, superCap) \div SuperBlocks,
                       {b \div SuperBlocks : b \in blocks})

(* GetRanksBatch: no comparison with the length.  The table's memory may    *)
(* begin at any aligned place of a page.                                    *)
GetRanksBatch(asked) ==
  /\ phase = "ready"
  /\ \E got \in [DOMAIN asked -> UNION {Lookup(asked[k], Missing) : k \in DOMAIN asked}],
        base \in {p \in 0 .. Page - 1 : p % (IF kind = "two" THEN LocalWidth ELSE width) = 0} :
       /\ \A k \in DOMAIN asked : got[k] \in Lookup(asked[k], Missing)
       /\ Answer("batch", asked, got, cpu = "all" => BatchMapped(base, asked))

-----------------------------------------------------------------------------
Indices == 0 .. (Count + 1) * BlockBits - 1

Init ==
  /\ bits \in Bitmasks /\ cpu \in {"scalar", "build", "all"} /\ threshold \in Thresholds
  /\ phase = "start" /\ kind = "none" /\ width = 1
  /\ ranks = Zeros(0) /\ supers = Zeros(0)
  /\ at = 0 /\ global = 0 /\ local = 0
  /\ answer = NoAnswer

Query ==
  /\ answer = NoAnswer
  /\ \/ \E i \in Indices : GetRank(i)
     \/ /\ kind # "none"
        /\ \E i \in Indices : GetRanksBatch(<<i>>) \/ GetRanksBatch(<<i, BlockBits - 1>>)

Next == Choose \/ VectorRound \/ ScalarRound \/ Built \/ Query

Spec == Init /\ [][Next]_vars

-----------------------------------------------------------------------------
(* The reference: what a table is for.                                      *)
InRange(i)   == i \in 0 .. Count * BlockBits - 1
IsSet(i)     == InRange(i) /\ BitOf(i) \in bits[BlockOf(i)]
SetBelow(i)  == Cardinality({j \in 0 .. i - 1 : IsSet(j)})

Total        == SetBelow(Count * BlockBits)

(* Flat or two-level, whatever the width, built and read by lanes or block  *)
(* by block: a set bit's rank is the number of set bits before it, and the  *)
(* total, which the reader takes for the number of tiles, is exact: no      *)
(* running sum wraps at the width chosen for it.  A bit that is there and   *)
(* not set gets no answer that could be a set bit's, cut to the width or    *)
(* not, and a single lookup the one that GetTileRank compares with.         *)
RanksAreExact ==
  /\ \A k \in DOMAIN answer.asked :
       LET i == answer.asked[k] IN
       /\ IsSet(i) => answer.got[k] = SetBelow(i)
       /\ InRange(i) /\ ~IsSet(i) =>
            /\ answer.got[k] >= Total
            /\ answer.via = "single" => answer.got[k] = NoRank
  /\ phase = "ready" => global = Total

(* The four-byte gathers of narrow entries touch no page that may not be    *)
(* there.                                                                   *)
GathersStayMapped == answer.mapped
=============================================================================
