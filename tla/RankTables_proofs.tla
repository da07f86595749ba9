------------------------- MODULE RankTables_proofs -------------------------
(***************************************************************************)
(* Theorems of RankTables, for bitmasks of every length, blocks of any     *)
(* number of bits, up to eight lanes and entries of any sizes.             *)
(***************************************************************************)
EXTENDS RankTables, DataLemmas

-----------------------------------------------------------------------------
(* Set bits before a place.                                                 *)

LEMMA SizesAre ==
  /\ BlockBits \in Nat \ {0} /\ Lanes \in Nat \ {0} /\ LaneSteps \in Nat \ {0}
  /\ SuperBlocks \in Nat \ {0}
  /\ \A w \in Widths : MaxOf[w] \in Nat
<1>1. /\ BlockBits \in Nat \ {0} /\ Lanes \in Nat \ {0} /\ LaneSteps \in Nat \ {0}
      /\ \A w \in Widths : MaxOf[w] \in Nat
  BY RankAssumption
<1>2. Lanes * LaneSteps \in Nat \ {0}
  BY <1>1
<1> QED
  BY <1>1, <1>2 DEF SuperBlocks

LEMMA BitsAre ==
  ASSUME bits \in Bitmasks
  PROVE  /\ Count \in Nat /\ DOMAIN bits = 0 .. Count - 1
         /\ \A b \in 0 .. Count - 1 :
              /\ bits[b] \in SUBSET (0 .. BlockBits - 1) /\ IsFiniteSet(bits[b])
              /\ PopCount(bits[b]) \in 0 .. BlockBits
<1>1. /\ IsFiniteSet(DOMAIN bits)
      /\ bits \in [0 .. Count - 1 -> BitSets]
  BY RankAssumption DEF Count
<1>2. Count \in Nat
  BY <1>1, FS_CardinalityType DEF Count
<1>3. ASSUME NEW b \in 0 .. Count - 1
      PROVE  /\ bits[b] \in SUBSET (0 .. BlockBits - 1) /\ IsFiniteSet(bits[b])
             /\ PopCount(bits[b]) \in 0 .. BlockBits
  <2>1. bits[b] \in SUBSET (0 .. BlockBits - 1)
    BY <1>1 DEF BitSets
  <2>2. IsFiniteSet(0 .. BlockBits - 1) /\ Cardinality(0 .. BlockBits - 1) = BlockBits
    BY SizesAre, FS_Interval
  <2>3. IsFiniteSet(bits[b]) /\ Cardinality(bits[b]) <= BlockBits
    <3>1. IsFiniteSet(bits[b]) /\ Cardinality(bits[b]) <= Cardinality(0 .. BlockBits - 1)
      BY <2>1, <2>2, FS_Subset, Zenon
    <3> QED
      BY <2>2, <3>1
  <2>4. Cardinality(bits[b]) \in Nat
    BY <2>3, FS_CardinalityType
  <2> QED
    BY <2>1, <2>3, <2>4, SizesAre DEF PopCount
<1> QED
  BY <1>1, <1>2, <1>3

LEMMA BitOfBlock ==
  ASSUME bits \in Bitmasks, NEW b \in 0 .. Count - 1, NEW j \in 0 .. BlockBits - 1
  PROVE  /\ b * BlockBits + j \in 0 .. Count * BlockBits - 1
         /\ IsSet(b * BlockBits + j) <=> j \in bits[b]
<1>1. BlockBits \in Nat \ {0} /\ b \in Nat /\ Count \in Nat /\ b + 1 \in Nat /\ b + 1 <= Count
  BY SizesAre, BitsAre
<1>2. BlockOf(b * BlockBits + j) = b /\ BitOf(b * BlockBits + j) = j
  BY <1>1, DividedIs DEF BlockOf, BitOf
<1>3. b * BlockBits \in Nat /\ (b + 1) * BlockBits <= Count * BlockBits
  BY <1>1, Product
<1>4. (b + 1) * BlockBits = b * BlockBits + BlockBits /\ Count * BlockBits \in Nat
  BY <1>1
<1>5. b * BlockBits + j \in 0 .. Count * BlockBits - 1
  <2> DEFINE p == b * BlockBits
             q == Count * BlockBits
  <2>1. p \in Nat /\ q \in Nat /\ p + BlockBits <= q
    BY <1>3, <1>4
  <2> HIDE DEF p, q
  <2>2. p + j \in 0 .. q - 1
    BY <1>1, <2>1
  <2> QED
    BY <2>2 DEF p, q
<1> QED
  BY <1>2, <1>5 DEF IsSet, InRange

BitsBelow(i) == {j \in 0 .. i - 1 : IsSet(j)}

LEMMA BelowIsFinite ==
  ASSUME NEW n \in Nat
  PROVE  IsFiniteSet(BitsBelow(n)) /\ SetBelow(n) = Cardinality(BitsBelow(n))
         /\ SetBelow(n) \in 0 .. n
<1>1. IsFiniteSet(0 .. n - 1) /\ Cardinality(0 .. n - 1) = n
  BY FS_Interval
<1>2. BitsBelow(n) \in SUBSET (0 .. n - 1)
  BY DEF BitsBelow
<1>3. IsFiniteSet(BitsBelow(n)) /\ Cardinality(BitsBelow(n)) <= n
  BY <1>1, <1>2, FS_Subset
<1>4. Cardinality(BitsBelow(n)) \in Nat
  BY <1>3, FS_CardinalityType
<1> QED
  BY <1>3, <1>4 DEF SetBelow, BitsBelow

(* The rank of a place in block b.                                          *)
Before(b) == SetBelow(b * BlockBits)

LEMMA RankInBlock ==
  ASSUME bits \in Bitmasks, NEW b \in 0 .. Count - 1, NEW m \in 0 .. BlockBits
  PROVE  SetBelow(b * BlockBits + m) = Before(b) + PopCount({j \in bits[b] : j < m})
<1> DEFINE n    == b * BlockBits
           low  == {j \in bits[b] : j < m}
           high == {i \in n .. n + m - 1 : IsSet(i)}
           f    == [j \in low |-> n + j]
<1>1. BlockBits \in Nat \ {0} /\ b \in Nat /\ Count \in Nat /\ n \in Nat /\ n + m \in Nat
  <2>1. BlockBits \in Nat \ {0} /\ b \in Nat /\ Count \in Nat
    BY SizesAre, BitsAre
  <2>2. n \in Nat
    BY <2>1, Product
  <2> HIDE DEF n
  <2> QED
    BY <2>1, <2>2
<1>2. low \in SUBSET (0 .. BlockBits - 1) /\ IsFiniteSet(low)
  <2>1. bits[b] \in SUBSET (0 .. BlockBits - 1) /\ IsFiniteSet(bits[b]) /\ low \in SUBSET bits[b]
    BY BitsAre
  <2> QED
    BY <2>1, FS_Subset
<1>3. \A j \in 0 .. BlockBits - 1 : IsSet(n + j) <=> j \in bits[b]
  BY BitOfBlock
<1>4. \A j \in low : j \in bits[b] /\ j < m /\ j \in 0 .. BlockBits - 1
  BY <1>2
<1>5. \A j \in 0 .. BlockBits - 1 : j \in bits[b] /\ j < m => j \in low
  OBVIOUS
<1>6. Cardinality(high) = Cardinality(low) /\ IsFiniteSet(high)
  <2> HIDE DEF n, low
  <2>1. f \in [low -> high]
    BY <1>1, <1>3, <1>4
  <2>2. f \in Injection(low, high)
    <3>1. \A j, k \in low : f[j] = f[k] => j = k
      BY <1>1, <1>4
    <3> QED
      BY <2>1, <3>1 DEF Injection, IsInjective
  <2>3. f \in Surjection(low, high)
    <3>1. ASSUME NEW i \in high PROVE \E j \in low : f[j] = i
      <4>1. i - n \in 0 .. m - 1 /\ IsSet(n + (i - n)) /\ i - n \in 0 .. BlockBits - 1
        BY <1>1, SizesAre
      <4>2. i - n \in low
        BY <1>3, <1>5, <4>1
      <4>3. f[i - n] = i
        BY <1>1, <4>1, <4>2
      <4> QED
        BY <4>2, <4>3
    <3> QED
      BY <2>1, <3>1 DEF Surjection
  <2>4. ExistsBijection(low, high)
    BY <2>2, <2>3 DEF ExistsBijection, Bijection
  <2> QED
    BY <1>2, <2>4, FS_Bijection
<1>7. BitsBelow(n + m) = BitsBelow(n) \cup high /\ BitsBelow(n) \cap high = {}
  <2> HIDE DEF n
  <2> QED
    BY <1>1 DEF BitsBelow
<1>8. Cardinality(BitsBelow(n + m)) = Cardinality(BitsBelow(n)) + Cardinality(high)
  <2> HIDE DEF n, high
  <2>1. IsFiniteSet(BitsBelow(n))
    BY <1>1, BelowIsFinite
  <2>2. Cardinality(BitsBelow(n) \cap high) = 0
    BY <1>7, FS_EmptySet
  <2>3. Cardinality(BitsBelow(n)) \in Nat /\ Cardinality(high) \in Nat
    BY <1>6, <2>1, FS_CardinalityType
  <2>4. Cardinality(BitsBelow(n) \cup high) =
          Cardinality(BitsBelow(n)) + Cardinality(high) - Cardinality(BitsBelow(n) \cap high)
    BY <1>6, <2>1, FS_Union
  <2> QED
    BY <1>7, <2>2, <2>3, <2>4
<1> QED
  BY <1>1, <1>6, <1>8, BelowIsFinite DEF Before, PopCount

LEMMA BeforeType ==
  ASSUME bits \in Bitmasks, NEW b \in 0 .. Count
  PROVE  Before(b) \in 0 .. Count * BlockBits
<1>1. BlockBits \in Nat \ {0} /\ b \in Nat /\ Count \in Nat /\ b <= Count
  BY SizesAre, BitsAre
<1>2. b * BlockBits \in Nat /\ b * BlockBits <= Count * BlockBits /\ Count * BlockBits \in Nat
  BY <1>1, Product
<1>3. SetBelow(b * BlockBits) \in 0 .. b * BlockBits
  BY <1>2, BelowIsFinite
<1> QED
  BY <1>2, <1>3 DEF Before

LEMMA BeforeNext ==
  ASSUME bits \in Bitmasks, NEW b \in 0 .. Count - 1
  PROVE  Before(b + 1) = Before(b) + PopCount(bits[b])
<1>1. BlockBits \in Nat \ {0} /\ b \in Nat /\ bits[b] \in SUBSET (0 .. BlockBits - 1)
  BY SizesAre, BitsAre
<1>2. (b + 1) * BlockBits = b * BlockBits + BlockBits
  BY <1>1
<1>3. {j \in bits[b] : j < BlockBits} = bits[b]
  BY <1>1
<1>4. BlockBits \in 0 .. BlockBits
  BY <1>1
<1>5. SetBelow(b * BlockBits + BlockBits) = Before(b) + PopCount({j \in bits[b] : j < BlockBits})
  BY <1>4, RankInBlock
<1> QED
  BY <1>2, <1>3, <1>5 DEF Before

LEMMA BeforeFirst == Before(0) = 0
<1>1. 0 * BlockBits = 0
  BY SizesAre
<1>2. SetBelow(0) \in 0 .. 0
  BY BelowIsFinite
<1> QED
  BY <1>1, <1>2 DEF Before

(* What lies between two blocks.                                            *)
LEMMA BeforeSpan ==
  ASSUME bits \in Bitmasks, NEW a \in 0 .. Count
  PROVE  \A n \in Nat : a + n <= Count => Before(a + n) - Before(a) \in 0 .. n * BlockBits
<1>1. BlockBits \in Nat \ {0} /\ a \in Nat /\ Count \in Nat
  BY SizesAre, BitsAre
<1>2. \A b \in 0 .. Count : Before(b) \in Nat
  BY BeforeType
<1> DEFINE N == {n \in Nat : a + n <= Count => Before(a + n) - Before(a) \in 0 .. n * BlockBits}
<1>3. 0 \in N
  <2>1. a + 0 = a /\ 0 * BlockBits = 0
    BY <1>1
  <2> QED
    BY <1>2, <2>1
<1>4. ASSUME NEW n \in N PROVE n + 1 \in N
  <2>1. n \in Nat /\ n + 1 \in Nat
    OBVIOUS
  <2> SUFFICES ASSUME a + (n + 1) <= Count
               PROVE  Before(a + (n + 1)) - Before(a) \in 0 .. (n + 1) * BlockBits
    BY <2>1
  <2>2. a + n \in 0 .. Count - 1 /\ a + n \in 0 .. Count /\ a + (n + 1) = (a + n) + 1
    BY <1>1, <2>1
  <2>3. Before(a + n) - Before(a) \in 0 .. n * BlockBits
    BY <2>2, <1>1
  <2>4. Before((a + n) + 1) = Before(a + n) + PopCount(bits[a + n])
    BY <2>2, BeforeNext
  <2>5. PopCount(bits[a + n]) \in 0 .. BlockBits
    BY <2>2, BitsAre
  <2>6. Before(a + n) \in Nat /\ Before(a) \in Nat
    BY <1>2, <2>2
  <2>7. (n + 1) * BlockBits = n * BlockBits + BlockBits /\ n * BlockBits \in Nat
    BY <1>1, <2>1
  <2> DEFINE p == n * BlockBits
             x == Before(a + n)
             y == Before(a)
             z == PopCount(bits[a + n])
  <2>8. x - y \in 0 .. p /\ z \in 0 .. BlockBits /\ x \in Nat /\ y \in Nat /\ p \in Nat
    BY <2>3, <2>5, <2>6, <2>7
  <2> HIDE DEF p, x, y, z
  <2>9. (x + z) - y \in 0 .. p + BlockBits
    BY <1>1, <2>8
  <2> QED
    BY <2>2, <2>4, <2>7, <2>9 DEF p, x, y, z
<1> HIDE DEF N
<1>5. N \in SUBSET Nat
  BY DEF N
<1>6. N = Nat
  BY <1>3, <1>4, <1>5, Induction
<1> QED
  BY <1>6 DEF N

-----------------------------------------------------------------------------
(* Sums over lanes.                                                         *)

(* Each lane of x has the sum of the w lanes up to it, of those there are;  *)
(* c[k] is the sum of the first k.                                          *)
SumsOf(x, c, w) ==
  /\ DOMAIN x = 0 .. Lanes - 1
  /\ \A k \in 0 .. Lanes - 1 : x[k] = c[k + 1] - c[IF k + 1 > w THEN k + 1 - w ELSE 0]

LEMMA ShiftDoubles ==
  ASSUME NEW x, NEW c \in [0 .. Lanes -> Nat], NEW w \in Nat \ {0}, SumsOf(x, c, w)
  PROVE  SumsOf(Shift(x, w), c, 2 * w)
<1> DEFINE y == Shift(x, w)
<1>1. DOMAIN x = 0 .. Lanes - 1 /\ DOMAIN y = 0 .. Lanes - 1
  BY DEF SumsOf, Shift
<1>2. ASSUME NEW k \in 0 .. Lanes - 1
      PROVE  y[k] = c[k + 1] - c[IF k + 1 > 2 * w THEN k + 1 - 2 * w ELSE 0]
  <2>1. y[k] = x[k] + (IF k >= w THEN x[k - w] ELSE 0)
    BY <1>1 DEF Shift
  <2>2. x[k] = c[k + 1] - c[IF k + 1 > w THEN k + 1 - w ELSE 0]
    BY DEF SumsOf
  <2>3. Lanes \in Nat
    BY SizesAre
  <2>4. CASE k >= w
    <3>1. k - w \in 0 .. Lanes - 1 /\ (k - w) + 1 = k + 1 - w /\ k + 1 > w
      BY <2>3, <2>4
    <3>2. x[k - w] = c[(k - w) + 1] - c[IF (k - w) + 1 > w THEN (k - w) + 1 - w ELSE 0]
      BY <3>1 DEF SumsOf
    <3>3. (IF (k - w) + 1 > w THEN (k - w) + 1 - w ELSE 0) =
          (IF k + 1 > 2 * w THEN k + 1 - 2 * w ELSE 0)
      BY <2>3
    <3> DEFINE e == IF k + 1 > 2 * w THEN k + 1 - 2 * w ELSE 0
               q == k + 1 - w
    <3>4. e \in 0 .. Lanes /\ q \in 0 .. Lanes /\ k + 1 \in 0 .. Lanes
      BY <2>3, <2>4
    <3>5. y[k] = (c[k + 1] - c[q]) + (c[q] - c[e])
      BY <2>1, <2>2, <2>4, <3>1, <3>2, <3>3
    <3> HIDE DEF e, q, y
    <3>6. c[k + 1] \in Nat /\ c[q] \in Nat /\ c[e] \in Nat
      BY <3>4
    <3>7. y[k] = c[k + 1] - c[e]
      BY <3>5, <3>6
    <3> QED
      BY <3>7 DEF e
  <2>5. CASE ~(k >= w)
    <3>1. ~(k + 1 > w) /\ ~(k + 1 > 2 * w)
      BY <2>3, <2>5
    <3>2. y[k] = (c[k + 1] - c[0]) + 0
      BY <2>1, <2>2, <2>5, <3>1
    <3>3. c[k + 1] \in Nat /\ c[0] \in Nat
      BY <2>3
    <3> QED
      BY <3>1, <3>2, <3>3
  <2> QED
    BY <2>4, <2>5
<1> QED
  BY <1>1, <1>2 DEF SumsOf

(* Three shifts are enough for eight lanes.                                 *)
LEMMA LanesAddUp ==
  ASSUME bits \in Bitmasks, NEW first \in Nat, first + Lanes <= Count
  PROVE  \A k \in 0 .. Lanes - 1 :
           /\ Inclusive(Vector(first))[k] = Before(first + (k + 1)) - Before(first)
           /\ Exclusive(Vector(first))[k] = Before(first + k) - Before(first)
<1> DEFINE c == [k \in 0 .. Lanes |-> Before(first + k)]
           v == Vector(first)
           x == Inclusive(v)
<1>1. Lanes \in 1 .. 8 /\ Count \in Nat
  BY RankAssumption, BitsAre
<1>2. \A k \in 0 .. Lanes : first + k \in 0 .. Count
  BY <1>1
<1>3. \A k \in 0 .. Lanes : Before(first + k) \in Nat
  BY <1>2, BeforeType, BitsAre, SizesAre
<1>4. c \in [0 .. Lanes -> Nat] /\ \A k \in 0 .. Lanes : c[k] = Before(first + k)
  BY <1>3
<1>5. SumsOf(v, c, 1)
  <2>1. ASSUME NEW k \in 0 .. Lanes - 1
        PROVE  v[k] = c[k + 1] - c[IF k + 1 > 1 THEN k + 1 - 1 ELSE 0]
    <3>1. first + k \in 0 .. Count - 1 /\ first + (k + 1) = (first + k) + 1
      BY <1>1
    <3>2. Before(first + (k + 1)) = Before(first + k) + PopCount(bits[first + k])
      BY <3>1, BeforeNext
    <3>3. k \in 0 .. Lanes /\ k + 1 \in 0 .. Lanes
      BY <1>1
    <3>4. c[k + 1] = Before(first + (k + 1)) /\ c[k] = Before(first + k)
      BY <1>4, <3>3
    <3>5. PopCount(bits[first + k]) \in Nat /\ c[k] \in Nat
      BY <1>4, <3>1, <3>3, BitsAre, SizesAre
    <3>6. v[k] = PopCount(bits[first + k])
      BY DEF Vector
    <3>7. (IF k + 1 > 1 THEN k + 1 - 1 ELSE 0) = k
      BY <1>1
    <3> HIDE DEF v, c
    <3>8. v[k] = c[k + 1] - c[k]
      BY <3>2, <3>4, <3>5, <3>6
    <3> QED
      BY <3>7, <3>8
  <2>2. DOMAIN v = 0 .. Lanes - 1
    BY DEF Vector
  <2> QED
    BY <2>1, <2>2 DEF SumsOf
<1> HIDE DEF c, v
<1>6. SumsOf(Shift(v, 1), c, 2 * 1)
  BY <1>4, <1>5, ShiftDoubles
<1>7. SumsOf(Shift(Shift(v, 1), 2), c, 2 * 2)
  <2>1. SumsOf(Shift(v, 1), c, 2)
    BY <1>6
  <2> QED
    BY <1>4, <2>1, ShiftDoubles
<1>8. SumsOf(x, c, 2 * 4)
  <2>1. SumsOf(Shift(Shift(v, 1), 2), c, 4)
    BY <1>7
  <2> QED
    BY <1>4, <2>1, ShiftDoubles DEF Inclusive
<1>9. ASSUME NEW k \in 0 .. Lanes - 1 PROVE x[k] = Before(first + (k + 1)) - Before(first)
  <2>1. x[k] = c[k + 1] - c[IF k + 1 > 2 * 4 THEN k + 1 - 2 * 4 ELSE 0]
    BY <1>8 DEF SumsOf
  <2>2. ~(k + 1 > 2 * 4) /\ k + 1 \in 0 .. Lanes /\ 0 \in 0 .. Lanes /\ first + 0 = first
    BY <1>1
  <2>3. c[k + 1] = Before(first + (k + 1)) /\ c[0] = Before(first)
    BY <1>4, <2>2
  <2> QED
    BY <2>1, <2>2, <2>3
<1>10. ASSUME NEW k \in 0 .. Lanes - 1
       PROVE  Exclusive(v)[k] = Before(first + k) - Before(first)
  <2>1. DOMAIN v = 0 .. Lanes - 1
    BY <1>5 DEF SumsOf
  <2>2. Exclusive(v)[k] = IF k >= 1 THEN x[k - 1] ELSE 0
    BY <2>1 DEF Exclusive
  <2>3. CASE k >= 1
    <3>1. k - 1 \in 0 .. Lanes - 1 /\ (k - 1) + 1 = k
      BY <1>1, <2>3
    <3>2. x[k - 1] = Before(first + ((k - 1) + 1)) - Before(first)
      BY <1>9, <3>1
    <3> QED
      BY <2>2, <2>3, <3>1, <3>2
  <2>4. CASE ~(k >= 1)
    <3>1. k = 0 /\ first + k = first
      BY <2>4
    <3>2. Before(first) \in Nat
      BY <1>1, <1>3, <3>1
    <3> QED
      BY <2>2, <2>4, <3>1, <3>2
  <2> QED
    BY <2>3, <2>4
<1> QED
  BY <1>9, <1>10 DEF v

(* The running sums of the vectors of a super block.                        *)
Stepping(f) ==
  f = [s \in 0 .. LaneSteps |->
         IF s = 0 THEN 0
         ELSE f[s - 1] + Inclusive(Vector(at + (s - 1) * Lanes))[Lanes - 1]]

LEMMA StepsAddUp ==
  ASSUME bits \in Bitmasks, at \in Nat, at + SuperBlocks <= Count
  PROVE  \A s \in 0 .. LaneSteps :
           /\ at + s * Lanes <= Count
           /\ BeforeStep[s] = Before(at + s * Lanes) - Before(at)
<1> DEFINE g == [s \in 0 .. LaneSteps |-> Before(at + s * Lanes) - Before(at)]
           next(s) == Inclusive(Vector(at + (s - 1) * Lanes))[Lanes - 1]
<1>1. Lanes \in Nat \ {0} /\ LaneSteps \in Nat \ {0} /\ Count \in Nat
  BY SizesAre, BitsAre
<1>2. ASSUME NEW s \in 0 .. LaneSteps PROVE s * Lanes \in Nat /\ at + s * Lanes <= Count
  <2>1. s \in Nat /\ s <= LaneSteps
    BY <1>1
  <2>2. s * Lanes \in Nat /\ s * Lanes <= LaneSteps * Lanes
    BY <1>1, <2>1, Product
  <2>3. LaneSteps * Lanes = SuperBlocks
    BY <1>1 DEF SuperBlocks
  <2> DEFINE p == s * Lanes
  <2>4. p \in Nat /\ p <= SuperBlocks /\ SuperBlocks \in Nat
    BY <2>2, <2>3, SizesAre
  <2> HIDE DEF p
  <2>5. at + p <= Count
    BY <1>1, <2>4
  <2> QED
    BY <2>2, <2>5 DEF p
<1>3. \A s \in 0 .. LaneSteps : Before(at + s * Lanes) \in Nat
  <2>1. ASSUME NEW s \in 0 .. LaneSteps PROVE Before(at + s * Lanes) \in Nat
    <3>1. at + s * Lanes \in 0 .. Count
      BY <1>1, <1>2
    <3> QED
      BY <3>1, BeforeType, BitsAre, SizesAre
  <2> QED
    BY <2>1
<1>4. ASSUME NEW s \in 0 .. LaneSteps, s # 0
      PROVE  /\ s - 1 \in 0 .. LaneSteps
             /\ next(s) = Before(at + s * Lanes) - Before(at + (s - 1) * Lanes)
  <2>1. s - 1 \in 0 .. LaneSteps /\ s - 1 \in Nat
    BY <1>1, <1>4
  <2> DEFINE first == at + (s - 1) * Lanes
  <2>2. (s - 1) * Lanes \in Nat /\ s * Lanes = (s - 1) * Lanes + Lanes
    BY <1>1, <2>1
  <2>3. first \in Nat /\ first + Lanes = at + s * Lanes
    <3> DEFINE p == (s - 1) * Lanes
    <3>1. p \in Nat /\ s * Lanes = p + Lanes
      BY <2>2
    <3> HIDE DEF p
    <3>2. at + p \in Nat /\ (at + p) + Lanes = at + (p + Lanes)
      BY <1>1, <3>1
    <3> QED
      BY <3>1, <3>2 DEF p
  <2>4. first + Lanes <= Count
    BY <1>2, <2>3
  <2> HIDE DEF first
  <2>5. Lanes - 1 \in 0 .. Lanes - 1 /\ (Lanes - 1) + 1 = Lanes
    BY <1>1
  <2>6. Inclusive(Vector(first))[Lanes - 1] = Before(first + ((Lanes - 1) + 1)) - Before(first)
    BY <2>3, <2>4, <2>5, LanesAddUp
  <2>7. Inclusive(Vector(first))[Lanes - 1] = Before(at + s * Lanes) - Before(first)
    BY <2>3, <2>5, <2>6
  <2> QED
    BY <2>1, <2>7 DEF first
<1>5. Stepping(g)
  <2>1. ASSUME NEW s \in 0 .. LaneSteps
        PROVE  g[s] = IF s = 0 THEN 0 ELSE g[s - 1] + next(s)
    <3>1. CASE s = 0
      <4>1. 0 * Lanes = 0 /\ at + 0 = at /\ 0 \in 0 .. LaneSteps
        BY <1>1
      <4>2. Before(at) \in Nat
        BY <1>3, <4>1
      <4> QED
        BY <3>1, <4>1, <4>2
    <3>2. CASE s # 0
      <4>1. s - 1 \in 0 .. LaneSteps /\ 0 \in 0 .. LaneSteps /\ 0 * Lanes = 0 /\ at + 0 = at
        BY <1>1, <1>4, <3>2
      <4> DEFINE u == Before(at + s * Lanes)
                 v == Before(at + (s - 1) * Lanes)
                 w == Before(at)
      <4>2. u \in Nat /\ v \in Nat /\ w \in Nat
        BY <1>3, <4>1
      <4>3. next(s) = u - v /\ g[s] = u - w /\ g[s - 1] = v - w
        BY <1>4, <3>2, <4>1
      <4> HIDE DEF u, v, w, g, next
      <4>4. u - w = (v - w) + (u - v)
        BY <4>2
      <4> QED
        BY <3>2, <4>3, <4>4
    <3> QED
      BY <3>1, <3>2
  <2> QED
    BY <2>1 DEF Stepping
<1>6. Stepping(BeforeStep)
  BY <1>5 DEF BeforeStep, Stepping
<1> DEFINE N == {n \in Nat : n <= LaneSteps => BeforeStep[n] = g[n]}
<1>7. \A s \in 0 .. LaneSteps : BeforeStep[s] = IF s = 0 THEN 0 ELSE BeforeStep[s - 1] + next(s)
  BY <1>6 DEF Stepping
<1>8. \A s \in 0 .. LaneSteps : g[s] = IF s = 0 THEN 0 ELSE g[s - 1] + next(s)
  BY <1>5 DEF Stepping
<1> HIDE DEF g, next
<1>9. 0 \in N
  <2>1. 0 \in 0 .. LaneSteps
    BY <1>1
  <2> QED
    BY <1>7, <1>8, <2>1
<1>10. ASSUME NEW n \in N PROVE n + 1 \in N
  <2>1. n \in Nat /\ n + 1 \in Nat
    OBVIOUS
  <2> SUFFICES ASSUME n + 1 <= LaneSteps PROVE BeforeStep[n + 1] = g[n + 1]
    BY <2>1
  <2>2. BeforeStep[n] = g[n]
    BY <1>1, <2>1
  <2>3. n + 1 \in 0 .. LaneSteps /\ n + 1 # 0 /\ (n + 1) - 1 = n
    BY <1>1, <2>1
  <2>4. BeforeStep[n + 1] = BeforeStep[n] + next(n + 1) /\ g[n + 1] = g[n] + next(n + 1)
    BY <1>7, <1>8, <2>3
  <2> QED
    BY <2>2, <2>4
<1> HIDE DEF N
<1>11. N = Nat
  <2>1. N \in SUBSET Nat
    BY DEF N
  <2> QED
    BY <1>9, <1>10, <2>1, Induction
<1>12. \A s \in 0 .. LaneSteps : BeforeStep[s] = g[s]
  BY <1>1, <1>11 DEF N
<1> QED
  BY <1>2, <1>12 DEF g

-----------------------------------------------------------------------------
(* The invariant.                                                           *)

(* The blocks before block b that are of its super block.                   *)
SuperOf(b)    == (b \div SuperBlocks) * SuperBlocks
SinceSuper(b) == Before(b) - Before(SuperOf(b))

(* A table that was chosen has room for all blocks and for all bits.        *)
ShapeInv ==
  /\ width \in Widths /\ Fits(width)
  /\ kind \in {"none", "flat", "two"} /\ (kind = "none" => Count = 0)
  /\ kind = "flat" => DOMAIN ranks = 0 .. Count - 1
  /\ kind = "two" => /\ DOMAIN ranks = 0 .. (Count + Padding(LocalWidth)) - 1
                     /\ DOMAIN supers = 0 .. (SuperCount + Padding(width)) - 1

(* The running sums are those of the blocks done.                           *)
SumsInv ==
  /\ global = Before(at)
  /\ kind = "two" /\ at % SuperBlocks # 0 => local = SinceSuper(at)

(* So are the entries: of the flat table from the beginning, of the         *)
(* two-level one from the beginning of the super block.                     *)
EntriesInv ==
  /\ kind = "flat" => \A k \in 0 .. at - 1 : ranks[k] = Before(k)
  /\ kind = "two" => /\ \A k \in 0 .. at - 1 : ranks[k] = SinceSuper(k)
                     /\ \A s \in DOMAIN supers :
                          s * SuperBlocks < at => supers[s] = Before(s * SuperBlocks)

(* Vectors come first, so a super block is never begun in its middle.       *)
RoundsInv == cpu # "scalar" /\ at + Round <= Count => at % Round = 0

(* What an answer has to be.                                                *)
Exact(via, i, r) ==
  /\ IsSet(i) => r = SetBelow(i)
  /\ InRange(i) /\ ~IsSet(i) => r >= Total /\ (via = "single" => r = NoRank)

AnswerInv ==
  /\ \A k \in DOMAIN answer.asked : Exact(answer.via, answer.asked[k], answer.got[k])
  /\ answer.mapped

RankInv ==
  /\ bits \in Bitmasks /\ at \in 0 .. Count
  /\ phase = "start" => at = 0 /\ kind = "none"
  /\ phase # "start" => ShapeInv
  /\ phase = "ready" => at = Count
  /\ SumsInv /\ EntriesInv /\ RoundsInv /\ AnswerInv

-----------------------------------------------------------------------------
(* Choosing a table.                                                        *)

(* Wrapping at the chosen width loses nothing.                              *)
LEMMA NoWrap ==
  ASSUME NEW w \in Widths, NEW x \in 0 .. MaxOf[w]
  PROVE  Wrap(w, x) = x
<1>1. MaxOf[w] \in Nat
  BY SizesAre
<1> DEFINE m == MaxOf[w]
<1>2. m \in Nat /\ x \in 0 .. m
  BY <1>1
<1> HIDE DEF m
<1>3. x % (m + 1) = x
  BY <1>2
<1> QED
  BY <1>3 DEF Wrap, m

LEMMA BeforeFits ==
  ASSUME bits \in Bitmasks, width \in Widths, Fits(width), NEW b \in 0 .. Count
  PROVE  Before(b) \in 0 .. MaxOf[width] /\ Wrap(width, Before(b)) = Before(b)
<1>1. Before(b) \in 0 .. Count * BlockBits /\ Count * BlockBits <= MaxOf[width]
  BY BeforeType DEF Fits
<1>2. MaxOf[width] \in Nat /\ Count * BlockBits \in Nat
  BY SizesAre, BitsAre, Product
<1>3. Before(b) \in 0 .. MaxOf[width]
  BY <1>1, <1>2
<1> QED
  BY <1>3, NoWrap

LEMMA ChosenWidthFits ==
  ASSUME bits \in Bitmasks
  PROVE  ChosenWidth \in Widths /\ Fits(ChosenWidth)
<1>1. Fits(8)
  BY RankAssumption DEF Fits, Count
<1> DEFINE Good(w) == (Fits(w) \/ w = 8) /\ \A v \in Widths : v < w => ~Fits(v)
<1>2. \E w \in Widths : Good(w)
  <2>1. CASE Fits(1)
    <3>1. Good(1)
      BY <2>1 DEF Widths
    <3> QED
      BY <3>1 DEF Widths
  <2>2. CASE ~Fits(1) /\ Fits(2)
    <3>1. Good(2)
      BY <2>2 DEF Widths
    <3> QED
      BY <3>1 DEF Widths
  <2>3. CASE ~Fits(1) /\ ~Fits(2) /\ Fits(4)
    <3>1. Good(4)
      BY <2>3 DEF Widths
    <3> QED
      BY <3>1 DEF Widths
  <2>4. CASE ~Fits(1) /\ ~Fits(2) /\ ~Fits(4)
    <3>1. Good(8)
      BY <2>4 DEF Widths
    <3> QED
      BY <3>1 DEF Widths
  <2> QED
    BY <2>1, <2>2, <2>3, <2>4
<1>3. ChosenWidth = CHOOSE w \in Widths : Good(w)
  BY DEF ChosenWidth
<1> HIDE DEF Good
<1>4. ChosenWidth \in Widths /\ Good(ChosenWidth)
  BY <1>2, <1>3
<1>5. Fits(ChosenWidth) \/ ChosenWidth = 8
  BY <1>4 DEF Good
<1> QED
  BY <1>1, <1>4, <1>5

(* The bitmask is not touched, and what follows from it stays.              *)
LEMMA BitsStay ==
  ASSUME bits' = bits
  PROVE  /\ Count' = Count
         /\ \A i : IsSet(i)' = IsSet(i) /\ InRange(i)' = InRange(i)
         /\ \A i : SetBelow(i)' = SetBelow(i)
         /\ \A b : Before(b)' = Before(b) /\ SinceSuper(b)' = SinceSuper(b)
         /\ \A w : Fits(w)' = Fits(w)
         /\ SuperCount' = SuperCount
<1>1. Count' = Count
  BY DEF Count
<1>2. \A i : InRange(i)' = InRange(i)
  BY <1>1 DEF InRange
<1>3. \A i : IsSet(i)' = IsSet(i)
  BY <1>2 DEF IsSet
<1>4. \A i : SetBelow(i)' = SetBelow(i)
  BY <1>3 DEF SetBelow
<1>5. \A b : Before(b)' = Before(b)
  BY <1>4 DEF Before
<1>6. \A b : SinceSuper(b)' = SinceSuper(b)
  BY <1>5 DEF SinceSuper
<1>7. \A w : Fits(w)' = Fits(w)
  BY <1>1 DEF Fits
<1>8. SuperCount' = SuperCount
  BY <1>1 DEF SuperCount
<1> QED
  BY <1>1, <1>2, <1>3, <1>4, <1>5, <1>6, <1>7, <1>8

LEMMA AnswerStays ==
  ASSUME bits' = bits, answer' = answer, AnswerInv
  PROVE  AnswerInv'
  BY BitsStay DEF AnswerInv, Exact, Total

LEMMA RoundIs == Round \in Nat \ {0}
  BY SizesAre DEF Round

LEMMA InitRank == Init => RankInv
<1> SUFFICES ASSUME Init PROVE RankInv
  OBVIOUS
<1>1. bits \in Bitmasks /\ Count \in Nat
  BY BitsAre DEF Init
<1>2. at = 0 /\ global = 0 /\ kind = "none" /\ phase = "start" /\ answer = NoAnswer
  BY DEF Init
<1>3. SumsInv
  BY <1>2, BeforeFirst DEF SumsInv
<1>4. EntriesInv
  BY <1>2 DEF EntriesInv
<1>5. RoundsInv
  <2>1. 0 % Round = 0
    BY RoundIs
  <2> QED
    BY <1>2, <2>1 DEF RoundsInv
<1>6. AnswerInv
  BY <1>2 DEF AnswerInv, NoAnswer
<1> QED
  BY <1>1, <1>2, <1>3, <1>4, <1>5, <1>6 DEF RankInv

LEMMA ChooseKeeps ==
  ASSUME RankInv, Choose
  PROVE  RankInv'
<1>1. /\ bits' = bits /\ bits \in Bitmasks /\ at' = at /\ at = 0 /\ global' = global
      /\ answer' = answer /\ phase' = "building" /\ Count \in Nat
      /\ width' = ChosenWidth
  BY BitsAre DEF Choose, RankInv
<1>2. ShapeInv'
  <2>1. width' \in Widths /\ Fits(width')
    BY <1>1, ChosenWidthFits
  <2>2. kind' = ChosenKind(width')
    BY DEF Choose
  <2>3. kind' \in {"none", "flat", "two"} /\ (kind' = "none" => Count = 0)
    BY <2>2 DEF ChosenKind
  <2>4. kind' = "flat" => DOMAIN ranks' = 0 .. Count - 1
    BY DEF Choose, Zeros
  <2>5. ASSUME kind' = "two"
        PROVE  /\ DOMAIN ranks' = 0 .. (Count + Padding(LocalWidth)) - 1
               /\ DOMAIN supers' = 0 .. (SuperCount + Padding(width')) - 1
    <3>1. ranks' = Zeros(Count + Padding(LocalWidth))
      BY <2>5 DEF Choose
    <3>2. supers' = Zeros(SuperCount + Padding(width'))
      BY <2>5 DEF Choose
    <3>3. \A n : DOMAIN Zeros(n) = 0 .. n - 1
      BY DEF Zeros
    <3> QED
      BY <3>1, <3>2, <3>3
  <2>6. Fits(width)'
    BY <1>1, <2>1 DEF Fits, Count
  <2>7. Count' = Count /\ SuperCount' = SuperCount
    BY <1>1, BitsStay
  <2>8. Padding(width)' = Padding(width') /\ Padding(LocalWidth)' = Padding(LocalWidth)
    BY DEF Padding
  <2> QED
    BY <2>1, <2>3, <2>4, <2>5, <2>6, <2>7, <2>8 DEF ShapeInv
<1>3. SumsInv'
  <2>1. 0 % SuperBlocks = 0
    BY SizesAre
  <2> QED
    BY <1>1, <2>1, BitsStay DEF SumsInv, RankInv
<1>4. EntriesInv'
  <2>1. \A s \in DOMAIN supers' : ~(s * SuperBlocks < 0)
    <3>1. ASSUME NEW s \in DOMAIN supers' PROVE ~(s * SuperBlocks < 0)
      <4>1. CASE kind' = "two"
        <5>1. s \in Nat
          BY <1>2, <4>1 DEF ShapeInv
        <5>2. s * SuperBlocks \in Nat
          BY <5>1, SizesAre, Product
        <5> QED
          BY <5>2
      <4>2. CASE kind' # "two"
        <5>1. supers' = Zeros(0)
          BY <4>2 DEF Choose
        <5> QED
          BY <5>1 DEF Zeros
      <4> QED
        BY <4>1, <4>2
    <3> QED
      BY <3>1
  <2> QED
    BY <1>1, <2>1 DEF EntriesInv
<1>5. RoundsInv'
  <2>1. \A n \in Nat \ {0} : 0 % n = 0
    OBVIOUS
  <2>2. 0 % Round' = 0
    BY <2>1, SizesAre DEF Round
  <2> QED
    BY <1>1, <2>2 DEF RoundsInv
<1>6. AnswerInv'
  BY <1>1, AnswerStays DEF RankInv
<1> QED
  BY <1>1, <1>2, <1>3, <1>4, <1>5, <1>6, BitsStay DEF RankInv

-----------------------------------------------------------------------------
(* Building.                                                                *)

LEMMA ShapeStays ==
  ASSUME ShapeInv, bits' = bits, kind' = kind, width' = width,
         DOMAIN ranks' = DOMAIN ranks, DOMAIN supers' = DOMAIN supers
  PROVE  ShapeInv'
<1>1. Count' = Count /\ SuperCount' = SuperCount /\ (Fits(width)' <=> Fits(width))
  <2>1. Count' = Count /\ SuperCount' = SuperCount
    BY BitsStay
  <2> QED
    BY <2>1 DEF Fits
<1>2. Padding(width)' = Padding(width) /\ Padding(LocalWidth)' = Padding(LocalWidth)
  BY DEF Padding
<1> QED
  BY <1>1, <1>2 DEF ShapeInv

LEMMA NextRound ==
  ASSUME NEW a \in Nat, NEW r \in Nat \ {0}, a % r = 0
  PROVE  (a + r) % r = 0
<1>1. a \div r \in Nat /\ a = r * (a \div r) + (a % r)
  BY Division
<1>2. a = (a \div r) * r + 0
  BY <1>1
<1>3. a + r = ((a \div r) + 1) * r + 0
  BY <1>1, <1>2
<1>4. (a \div r) + 1 \in Nat /\ 0 \in 0 .. r - 1
  BY <1>1
<1>5. (((a \div r) + 1) * r + 0) % r = 0
  BY <1>4, DividedIs
<1> QED
  BY <1>3, <1>5

LEMMA FlatVectorKeeps ==
  ASSUME RankInv, VectorRound, FlatVectorRound
  PROVE  SumsInv' /\ EntriesInv' /\ DOMAIN ranks' = DOMAIN ranks
<1>1. /\ bits \in Bitmasks /\ bits' = bits /\ at \in Nat /\ Count \in Nat /\ Lanes \in Nat \ {0}
      /\ kind = "flat" /\ kind' = kind /\ width' = width /\ at' = at + Lanes
      /\ at + Lanes <= Count /\ global = Before(at) /\ ShapeInv
  BY BitsAre, SizesAre DEF VectorRound, FlatVectorRound, RankInv, Round, SumsInv
<1>2. DOMAIN ranks = 0 .. Count - 1 /\ width \in Widths /\ Fits(width)
  BY <1>1 DEF ShapeInv
<1>3. DOMAIN ranks' = DOMAIN ranks
  BY DEF FlatVectorRound
<1>4. \A b \in 0 .. Count : Before(b) \in Nat /\ Wrap(width, Before(b)) = Before(b)
  BY <1>1, <1>2, BeforeFits, SizesAre
<1>5. \A k \in 0 .. Lanes - 1 :
         /\ Inclusive(Vector(at))[k] = Before(at + (k + 1)) - Before(at)
         /\ Exclusive(Vector(at))[k] = Before(at + k) - Before(at)
  BY <1>1, LanesAddUp
<1>6. at \in 0 .. Count /\ at + Lanes \in 0 .. Count
  BY <1>1
<1>7. SumsInv'
  <2>1. Lanes - 1 \in 0 .. Lanes - 1 /\ at + ((Lanes - 1) + 1) = at + Lanes
    BY <1>1
  <2>2. Inclusive(Vector(at))[Lanes - 1] = Before(at + Lanes) - Before(at)
    BY <1>5, <2>1
  <2>3. Before(at) \in Nat /\ Before(at + Lanes) \in Nat
    BY <1>4, <1>6
  <2>4. global + Inclusive(Vector(at))[Lanes - 1] = Before(at + Lanes)
    BY <1>1, <2>2, <2>3
  <2>5. global' = Before(at + Lanes)
    BY <1>4, <1>6, <2>4 DEF FlatVectorRound
  <2> QED
    BY <1>1, <2>5, BitsStay DEF SumsInv
<1>8. ASSUME NEW k \in 0 .. at + Lanes - 1 PROVE ranks'[k] = Before(k)
  <2>1. k \in DOMAIN ranks /\ k \in 0 .. Count
    BY <1>1, <1>2
  <2>2. CASE k < at
    <3>1. ranks'[k] = ranks[k]
      BY <1>1, <2>1, <2>2 DEF FlatVectorRound
    <3>2. ranks[k] = Before(k)
      BY <1>1, <2>2 DEF RankInv, EntriesInv
    <3> QED
      BY <3>1, <3>2
  <2>3. CASE k >= at
    <3>1. k \in at .. at + Lanes - 1 /\ k - at \in 0 .. Lanes - 1 /\ at + (k - at) = k
      BY <1>1, <2>3
    <3>2. ranks'[k] = Wrap(width, global + Exclusive(Vector(at))[k - at])
      BY <2>1, <3>1 DEF FlatVectorRound
    <3>3. Exclusive(Vector(at))[k - at] = Before(k) - Before(at)
      BY <1>5, <3>1
    <3>4. Before(at) \in Nat /\ Before(k) \in Nat
      BY <1>4, <1>6, <2>1
    <3>5. global + Exclusive(Vector(at))[k - at] = Before(k)
      BY <1>1, <3>3, <3>4
    <3> QED
      BY <1>4, <2>1, <3>2, <3>5
  <2> QED
    BY <1>1, <2>2, <2>3
<1>9. EntriesInv'
  BY <1>1, <1>8, BitsStay DEF EntriesInv
<1> QED
  BY <1>3, <1>7, <1>9

(* A sum within a super block fits in a local rank.                         *)
LEMMA SinceFits ==
  ASSUME bits \in Bitmasks, NEW a \in 0 .. Count, NEW b \in 0 .. Count,
         a <= b, b <= a + SuperBlocks
  PROVE  Wrap(LocalWidth, Before(b) - Before(a)) = Before(b) - Before(a)
<1>1. /\ SuperBlocks \in Nat /\ BlockBits \in Nat /\ a \in Nat /\ b \in Nat /\ Count \in Nat
      /\ b - a \in Nat /\ a + (b - a) = b /\ b - a <= SuperBlocks /\ b <= Count
  BY SizesAre, BitsAre
<1>2. a + (b - a) <= Count
  BY <1>1
<1>3. Before(a + (b - a)) - Before(a) \in 0 .. (b - a) * BlockBits
  BY <1>1, <1>2, BeforeSpan
<1>4. (b - a) * BlockBits \in Nat /\ (b - a) * BlockBits <= SuperBlocks * BlockBits
  BY <1>1, Product
<1>5. SuperBlocks * BlockBits <= MaxOf[2] /\ MaxOf[2] \in Nat /\ 2 \in Widths
  BY RankAssumption, SizesAre DEF Widths
<1>6. SuperBlocks * BlockBits \in Nat
  BY <1>1, Product
<1> DEFINE x == Before(b) - Before(a)
<1>7. x \in 0 .. (b - a) * BlockBits
  BY <1>1, <1>3
<1> HIDE DEF x
<1>8. x \in 0 .. MaxOf[2]
  BY <1>4, <1>5, <1>6, <1>7
<1>9. Wrap(2, x) = x
  BY <1>5, <1>8, NoWrap
<1> QED
  BY <1>9 DEF x, LocalWidth

LEMMA WithinSuper ==
  ASSUME NEW a \in Nat, a % SuperBlocks = 0, NEW k \in a .. a + SuperBlocks - 1
  PROVE  SuperOf(k) = a
<1>1. SuperBlocks \in Nat \ {0} /\ a \div SuperBlocks \in Nat
      /\ a = SuperBlocks * (a \div SuperBlocks) + (a % SuperBlocks)
  BY SizesAre, Division
<1>2. a = (a \div SuperBlocks) * SuperBlocks
  BY <1>1
<1>3. k - a \in 0 .. SuperBlocks - 1 /\ k = (a \div SuperBlocks) * SuperBlocks + (k - a)
  BY <1>1, <1>2
<1>4. ((a \div SuperBlocks) * SuperBlocks + (k - a)) \div SuperBlocks = a \div SuperBlocks
  BY <1>1, <1>3, DividedIs
<1> QED
  BY <1>2, <1>3, <1>4 DEF SuperOf

(* The super block of a block comes no later, and less than one before.     *)
LEMMA SuperIs ==
  ASSUME NEW b \in Nat
  PROVE  /\ b \div SuperBlocks \in Nat /\ b % SuperBlocks \in 0 .. SuperBlocks - 1
         /\ SuperOf(b) \in Nat /\ b = SuperOf(b) + (b % SuperBlocks)
<1>1. /\ SuperBlocks \in Nat \ {0} /\ b \div SuperBlocks \in Nat
      /\ b % SuperBlocks \in 0 .. SuperBlocks - 1
      /\ b = SuperBlocks * (b \div SuperBlocks) + (b % SuperBlocks)
  BY SizesAre, Division
<1>2. SuperOf(b) \in Nat /\ SuperOf(b) = SuperBlocks * (b \div SuperBlocks)
  BY <1>1 DEF SuperOf
<1> QED
  BY <1>1, <1>2

(* There is a super rank for the super block of every block.                *)
LEMMA SuperIsCounted ==
  ASSUME bits \in Bitmasks, NEW b \in 0 .. Count - 1
  PROVE  b \div SuperBlocks < SuperCount /\ SuperCount \in Nat
<1>1. Count \in Nat /\ SuperBlocks \in Nat \ {0} /\ b \in Nat /\ b <= Count - 1
  BY BitsAre, SizesAre
<1>2. /\ b \div SuperBlocks \in Nat /\ SuperOf(b) \in Nat /\ b % SuperBlocks \in Nat
      /\ b = SuperOf(b) + (b % SuperBlocks)
  BY <1>1, SuperIs
<1> DEFINE c == b \div SuperBlocks
<1>3. c \in Nat /\ c * SuperBlocks <= b /\ c * SuperBlocks \in Nat
  BY <1>1, <1>2 DEF SuperOf
<1> HIDE DEF c
<1>4. (c + 1) * SuperBlocks = c * SuperBlocks + SuperBlocks /\ c + 1 \in Nat
  BY <1>1, <1>3
<1> DEFINE n == Count + SuperBlocks - 1
<1>5. n \in Nat /\ (c + 1) * SuperBlocks <= n
  <2> DEFINE p == c * SuperBlocks
  <2>1. p \in Nat /\ p <= b
    BY <1>3
  <2> HIDE DEF p
  <2>2. p + SuperBlocks <= n
    BY <1>1, <2>1
  <2>3. n \in Nat
    BY <1>1
  <2> QED
    BY <1>4, <2>2, <2>3 DEF p
<1>6. n \div SuperBlocks \in Nat /\ n % SuperBlocks \in 0 .. SuperBlocks - 1
      /\ n = SuperBlocks * (n \div SuperBlocks) + (n % SuperBlocks)
  BY <1>1, <1>5, Division
<1>7. c < n \div SuperBlocks
  <2> DEFINE q == n \div SuperBlocks
  <2>1. q \in Nat /\ q + 1 \in Nat
    BY <1>6
  <2>2. (q + 1) * SuperBlocks = SuperBlocks * q + SuperBlocks
    BY <1>1, <2>1
  <2> DEFINE u == (c + 1) * SuperBlocks
             v == SuperBlocks * q
  <2>3. u <= n /\ n < v + SuperBlocks /\ u \in Nat /\ v \in Nat
    BY <1>1, <1>3, <1>4, <1>5, <1>6, <2>1, Product
  <2>4. (c + 1) * SuperBlocks < (q + 1) * SuperBlocks
    <3> HIDE DEF u, v, n, q
    <3>1. u < v + SuperBlocks
      BY <1>1, <1>5, <2>3
    <3> QED
      BY <2>2, <3>1 DEF u, v
  <2> HIDE DEF q
  <2>5. c + 1 < q + 1
    BY <1>1, <1>4, <2>1, <2>4, LessFactor
  <2> QED
    BY <1>3, <2>1, <2>5 DEF q
<1> QED
  BY <1>6, <1>7 DEF SuperCount, c

LEMMA SuperIsThere ==
  ASSUME bits \in Bitmasks, ShapeInv, kind = "two", NEW b \in 0 .. Count - 1
  PROVE  b \div SuperBlocks \in DOMAIN supers /\ b \in DOMAIN ranks
<1>1. Count \in Nat /\ b \in Nat /\ b <= Count - 1
  BY BitsAre
<1>2. /\ b \div SuperBlocks \in Nat /\ b \div SuperBlocks < SuperCount
      /\ SuperCount \in Nat
  BY <1>1, SuperIs, SuperIsCounted
<1>3. Padding(width) \in Nat /\ Padding(LocalWidth) \in Nat
  <2>1. width \in Widths
    BY DEF ShapeInv
  <2>2. Padding(width) \in Nat
    BY <2>1 DEF Padding, Widths
  <2>3. Padding(LocalWidth) \in Nat
    BY DEF Padding, LocalWidth
  <2> QED
    BY <2>2, <2>3
<1>4. DOMAIN supers = 0 .. (SuperCount + Padding(width)) - 1
      /\ DOMAIN ranks = 0 .. (Count + Padding(LocalWidth)) - 1
  BY DEF ShapeInv
<1>5. b \div SuperBlocks \in DOMAIN supers
  BY <1>2, <1>3, <1>4
<1>6. b \in DOMAIN ranks
  BY <1>1, <1>3, <1>4
<1> QED
  BY <1>5, <1>6

(* Entering a super rank at the beginning of its super block.               *)
LEMMA SuperEntered ==
  ASSUME RankInv, ShapeInv, kind = "two", at % SuperBlocks = 0, at \in 0 .. Count - 1,
         NEW n \in 1 .. SuperBlocks, NEW after,
         after = [supers EXCEPT ![at \div SuperBlocks] = global]
  PROVE  /\ DOMAIN after = DOMAIN supers
         /\ \A s \in DOMAIN supers :
              s * SuperBlocks < at + n => after[s] = Before(s * SuperBlocks)
<1> DEFINE q == at \div SuperBlocks
<1>1. /\ at \in Nat /\ q \in DOMAIN supers /\ q \in Nat /\ SuperBlocks \in Nat \ {0}
      /\ global = Before(at) /\ at = SuperOf(at) + 0 /\ SuperOf(at) \in Nat
  <2>1. bits \in Bitmasks /\ at \in Nat
    BY BitsAre DEF RankInv
  <2> QED
    BY <2>1, SizesAre, SuperIs, SuperIsThere DEF RankInv, SumsInv
<1>2. at = q * SuperBlocks
  BY <1>1 DEF SuperOf
<1> HIDE DEF q
<1>3. after = [supers EXCEPT ![q] = global]
  BY DEF q
<1>4. ASSUME NEW s \in DOMAIN supers, s * SuperBlocks < at + n
      PROVE  after[s] = Before(s * SuperBlocks)
  <2>1. s \in Nat
    BY DEF ShapeInv
  <2>2. CASE s = q
    BY <1>1, <1>2, <1>3, <2>2
  <2>3. CASE s # q
    <3>1. s * SuperBlocks \in Nat /\ (q + 1) * SuperBlocks = q * SuperBlocks + SuperBlocks
          /\ q * SuperBlocks \in Nat /\ q + 1 \in Nat
      <4>1. q \in Nat /\ s \in Nat /\ SuperBlocks \in Nat
        BY <1>1, <2>1
      <4>2. s * SuperBlocks \in Nat /\ q * SuperBlocks \in Nat /\ q + 1 \in Nat
        BY <4>1, Product
      <4>3. (q + 1) * SuperBlocks = q * SuperBlocks + SuperBlocks
        BY <4>1
      <4> QED
        BY <4>2, <4>3
    <3> DEFINE u == s * SuperBlocks
               v == q * SuperBlocks
    <3>2. u < v + SuperBlocks
      <4>1. u \in Nat /\ v \in Nat /\ u < v + n
        BY <1>2, <1>4, <3>1
      <4> HIDE DEF u, v
      <4> QED
        BY <1>1, <4>1
    <3>3. s * SuperBlocks < (q + 1) * SuperBlocks
      BY <3>1, <3>2
    <3>4. s < q + 1
      BY <1>1, <2>1, <3>1, <3>3, LessFactor
    <3>5. s + 1 <= q /\ s + 1 \in Nat
      BY <1>1, <2>1, <2>3, <3>4
    <3>6. (s + 1) * SuperBlocks <= q * SuperBlocks
          /\ (s + 1) * SuperBlocks = s * SuperBlocks + SuperBlocks
      BY <1>1, <2>1, <3>5, Product
    <3>7. u < at
      <4>1. u + SuperBlocks <= at /\ u \in Nat
        BY <1>2, <3>1, <3>6
      <4> HIDE DEF u
      <4> QED
        BY <1>1, <4>1
    <3>8. supers[s] = Before(s * SuperBlocks)
      BY <3>7 DEF RankInv, EntriesInv
    <3> QED
      BY <1>3, <2>3, <3>8
  <2> QED
    BY <2>2, <2>3
<1> QED
  BY <1>3, <1>4

LEMMA TwoVectorKeeps ==
  ASSUME RankInv, VectorRound, TwoVectorRound
  PROVE  /\ SumsInv' /\ EntriesInv'
         /\ DOMAIN ranks' = DOMAIN ranks /\ DOMAIN supers' = DOMAIN supers
<1>1. /\ bits \in Bitmasks /\ bits' = bits /\ at \in Nat /\ Count \in Nat
      /\ Lanes \in Nat \ {0} /\ LaneSteps \in Nat \ {0} /\ SuperBlocks \in Nat \ {0}
      /\ kind = "two" /\ kind' = kind /\ width' = width /\ at' = at + SuperBlocks
      /\ at + SuperBlocks <= Count /\ global = Before(at) /\ ShapeInv
  BY BitsAre, SizesAre DEF VectorRound, TwoVectorRound, RankInv, Round, SumsInv
<1>2. width \in Widths /\ Fits(width) /\ at % SuperBlocks = 0
  BY <1>1 DEF ShapeInv, RankInv, RoundsInv, VectorRound, Round
<1>3. /\ at \in 0 .. Count /\ at + SuperBlocks \in 0 .. Count /\ at \in 0 .. Count - 1
      /\ SuperBlocks \in 1 .. SuperBlocks
  BY <1>1
<1>4. \A b \in 0 .. Count : Before(b) \in Nat /\ Wrap(width, Before(b)) = Before(b)
  BY <1>1, <1>2, BeforeFits, SizesAre
<1>5. \A s \in 0 .. LaneSteps :
         /\ at + s * Lanes <= Count
         /\ BeforeStep[s] = Before(at + s * Lanes) - Before(at)
  BY <1>1, StepsAddUp
<1>6. SumsInv'
  <2>1. LaneSteps \in 0 .. LaneSteps /\ LaneSteps * Lanes = SuperBlocks
    BY <1>1 DEF SuperBlocks
  <2>2. BeforeStep[LaneSteps] = Before(at + SuperBlocks) - Before(at)
    BY <1>5, <2>1
  <2>3. Before(at) \in Nat /\ Before(at + SuperBlocks) \in Nat
    BY <1>3, <1>4
  <2>4. global + BeforeStep[LaneSteps] = Before(at + SuperBlocks)
    BY <1>1, <2>2, <2>3
  <2>5. global' = Before(at + SuperBlocks)
    BY <1>3, <1>4, <2>4 DEF TwoVectorRound
  <2>6. (at + SuperBlocks) % SuperBlocks = 0
    BY <1>1, <1>2, NextRound
  <2> QED
    BY <1>1, <2>5, <2>6, BitsStay DEF SumsInv
<1>7. /\ DOMAIN supers' = DOMAIN supers
      /\ \A s \in DOMAIN supers :
           s * SuperBlocks < at + SuperBlocks => supers'[s] = Before(s * SuperBlocks)
  <2>1. supers' = [supers EXCEPT ![at \div SuperBlocks] = global]
    BY DEF TwoVectorRound
  <2> QED
    BY <1>1, <1>2, <1>3, <2>1, SuperEntered
<1>8. DOMAIN ranks' = DOMAIN ranks
  BY DEF TwoVectorRound
<1>9. ASSUME NEW k \in 0 .. at + SuperBlocks - 1 PROVE ranks'[k] = SinceSuper(k)
  <2>1. k \in 0 .. Count - 1 /\ k \in 0 .. Count /\ k \in Nat
    BY <1>1
  <2>2. k \in DOMAIN ranks
    BY <1>1, <2>1, SuperIsThere
  <2>3. CASE k < at
    <3>1. ranks'[k] = ranks[k]
      BY <1>1, <2>2, <2>3 DEF TwoVectorRound
    <3>2. ranks[k] = SinceSuper(k)
      BY <1>1, <2>1, <2>3 DEF RankInv, EntriesInv
    <3> QED
      BY <3>1, <3>2
  <2>4. CASE k >= at
    <3> DEFINE s     == (k - at) \div Lanes
               r     == (k - at) % Lanes
               first == at + s * Lanes
    <3>1. k \in at .. at + SuperBlocks - 1 /\ k - at \in 0 .. SuperBlocks - 1 /\ k - at \in Nat
      BY <1>1, <2>4
    <3>2. s \in Nat /\ r \in 0 .. Lanes - 1 /\ k - at = Lanes * s + r
      BY <1>1, <3>1, Division
    <3>3. Lanes * s = s * Lanes /\ s * Lanes \in Nat
      BY <1>1, <3>2
    <3>4. first \in Nat /\ first + r = k
      <4> DEFINE p == s * Lanes
      <4>1. p \in Nat /\ k - at = p + r
        BY <3>2, <3>3
      <4> HIDE DEF p, s, r
      <4>2. at + p \in Nat /\ (at + p) + r = k
        BY <1>1, <2>1, <3>2, <4>1
      <4> QED
        BY <4>2 DEF p
    <3>5. s < LaneSteps
      <4> DEFINE p == s * Lanes
      <4>1. p \in Nat /\ p <= k - at
        <5>1. p \in Nat /\ k - at = p + r
          BY <3>2, <3>3
        <5> HIDE DEF p, s, r
        <5> QED
          BY <1>1, <3>2, <5>1
      <4>2. LaneSteps * Lanes = SuperBlocks
        BY <1>1 DEF SuperBlocks
      <4> HIDE DEF p
      <4>3. p < SuperBlocks
        BY <1>1, <3>1, <4>1
      <4>4. s * Lanes < LaneSteps * Lanes
        BY <4>2, <4>3 DEF p
      <4> HIDE DEF s
      <4> QED
        BY <1>1, <3>2, <4>4, LessFactor
    <3>6. ranks'[k] = Wrap(LocalWidth, BeforeStep[s] + Exclusive(Vector(first))[r])
      BY <2>2, <3>1 DEF TwoVectorRound
    <3> HIDE DEF s, r
    <3>7. s \in 0 .. LaneSteps /\ s + 1 \in 0 .. LaneSteps
      BY <1>1, <3>2, <3>5
    <3>8. first + Lanes <= Count
      <4>1. (s + 1) * Lanes = s * Lanes + Lanes
        BY <1>1, <3>2
      <4>2. at + (s + 1) * Lanes <= Count
        BY <1>5, <3>7
      <4> DEFINE p == s * Lanes
      <4>3. p \in Nat /\ at + (p + Lanes) <= Count
        BY <3>3, <4>1, <4>2
      <4> HIDE DEF p
      <4>4. (at + p) + Lanes <= Count
        BY <1>1, <4>3
      <4> QED
        BY <4>4 DEF p
    <3>9. BeforeStep[s] = Before(first) - Before(at)
      BY <1>5, <3>7
    <3> HIDE DEF first
    <3>10. Exclusive(Vector(first))[r] = Before(k) - Before(first)
      BY <1>1, <3>2, <3>4, <3>8, LanesAddUp
    <3>11. Before(first) \in Nat /\ Before(at) \in Nat /\ Before(k) \in Nat
      <4>1. first \in 0 .. Count
        BY <1>1, <3>4, <3>8
      <4> QED
        BY <1>3, <1>4, <2>1, <4>1
    <3>12. BeforeStep[s] + Exclusive(Vector(first))[r] = Before(k) - Before(at)
      BY <3>9, <3>10, <3>11
    <3>13. Wrap(LocalWidth, Before(k) - Before(at)) = Before(k) - Before(at)
      <4>1. at <= k /\ k <= at + SuperBlocks
        BY <1>1, <3>1
      <4> QED
        BY <1>1, <1>3, <2>1, <4>1, SinceFits
    <3>14. SuperOf(k) = at
      BY <1>1, <1>2, <3>1, WithinSuper
    <3> QED
      BY <3>6, <3>12, <3>13, <3>14 DEF SinceSuper
  <2> QED
    BY <1>1, <2>1, <2>3, <2>4
<1>10. EntriesInv'
  BY <1>1, <1>7, <1>9, BitsStay DEF EntriesInv
<1> QED
  BY <1>6, <1>7, <1>8, <1>10

LEMMA ScalarSum ==
  ASSUME RankInv, ScalarRound
  PROVE  /\ bits \in Bitmasks /\ bits' = bits /\ at \in Nat /\ Count \in Nat
         /\ at \in 0 .. Count - 1 /\ at \in 0 .. Count /\ at + 1 \in 0 .. Count
         /\ at' = at + 1 /\ kind' = kind /\ width' = width
         /\ ShapeInv /\ global = Before(at) /\ Before(at) \in Nat
         /\ PopCount(bits[at]) \in Nat /\ Before(at + 1) = Before(at) + PopCount(bits[at])
         /\ global' = Before(at + 1)
<1>1. /\ bits \in Bitmasks /\ bits' = bits /\ at \in Nat /\ Count \in Nat /\ at < Count
      /\ at' = at + 1 /\ kind' = kind /\ width' = width
      /\ ShapeInv /\ global = Before(at)
      /\ global' = Wrap(width, global + PopCount(bits[at]))
  BY BitsAre DEF RankInv, ScalarRound, SumsInv
<1>2. at \in 0 .. Count - 1 /\ at \in 0 .. Count /\ at + 1 \in 0 .. Count
  BY <1>1
<1>3. Before(at + 1) = Before(at) + PopCount(bits[at])
  BY <1>1, <1>2, BeforeNext
<1>4. width \in Widths /\ Fits(width)
  BY <1>1 DEF ShapeInv
<1>5. Wrap(width, Before(at + 1)) = Before(at + 1)
  BY <1>1, <1>2, <1>4, BeforeFits
<1>6. Before(at) \in Nat /\ PopCount(bits[at]) \in Nat
  <2>1. Before(at) \in 0 .. Count * BlockBits
    BY <1>1, <1>2, BeforeType
  <2>2. PopCount(bits[at]) \in 0 .. BlockBits
    BY <1>1, <1>2, BitsAre
  <2> QED
    BY <2>1, <2>2
<1> QED
  BY <1>1, <1>2, <1>3, <1>5, <1>6

LEMMA FlatScalarKeeps ==
  ASSUME RankInv, ScalarRound, FlatScalarRound
  PROVE  SumsInv' /\ EntriesInv' /\ DOMAIN ranks' = DOMAIN ranks
<1>1. /\ at \in 0 .. Count - 1 /\ at \in Nat /\ Count \in Nat /\ bits' = bits
      /\ at' = at + 1 /\ kind' = kind /\ ShapeInv
      /\ global = Before(at) /\ global' = Before(at + 1)
  BY ScalarSum
<1>2. kind = "flat" /\ ranks' = [ranks EXCEPT ![at] = global] /\ DOMAIN ranks' = DOMAIN ranks
  BY DEF FlatScalarRound
<1>3. SumsInv'
  BY <1>1, <1>2, BitsStay DEF SumsInv
<1>4. ASSUME NEW k \in 0 .. at PROVE ranks'[k] = Before(k)
  <2>1. k \in DOMAIN ranks
    BY <1>1, <1>2 DEF ShapeInv
  <2>2. CASE k = at
    BY <1>1, <1>2, <2>1, <2>2
  <2>3. CASE k # at
    <3>1. k \in 0 .. at - 1
      BY <1>1, <2>3
    <3>2. ranks[k] = Before(k)
      BY <1>2, <3>1 DEF RankInv, EntriesInv
    <3> QED
      BY <1>2, <2>1, <2>3, <3>2
  <2> QED
    BY <2>2, <2>3
<1>5. 0 .. (at + 1) - 1 = 0 .. at
  BY <1>1
<1>6. EntriesInv'
  BY <1>1, <1>2, <1>4, <1>5, BitsStay DEF EntriesInv
<1> QED
  BY <1>2, <1>3, <1>6

LEMMA SuperNext ==
  ASSUME NEW b \in Nat
  PROVE  /\ b % SuperBlocks = 0 => SuperOf(b) = b
         /\ (b + 1) % SuperBlocks # 0 => SuperOf(b + 1) = SuperOf(b)
         /\ \A s \in Nat : s * SuperBlocks = b => b % SuperBlocks = 0
<1>1. /\ SuperBlocks \in Nat \ {0} /\ SuperOf(b) \in Nat
      /\ b % SuperBlocks \in 0 .. SuperBlocks - 1
      /\ b = SuperOf(b) + (b % SuperBlocks) /\ b \div SuperBlocks \in Nat
  BY SizesAre, SuperIs
<1>2. \A s \in Nat : (s * SuperBlocks) % SuperBlocks = 0
  <2>1. ASSUME NEW s \in Nat PROVE (s * SuperBlocks) % SuperBlocks = 0
    <3>1. 0 \in 0 .. SuperBlocks - 1
      BY <1>1
    <3>2. (s * SuperBlocks + 0) % SuperBlocks = 0
      BY <1>1, <3>1, DividedIs
    <3>3. s * SuperBlocks + 0 = s * SuperBlocks
      BY <1>1
    <3> QED
      BY <3>2, <3>3
  <2> QED
    BY <2>1
<1>3. SuperOf(b) % SuperBlocks = 0
  BY <1>1, <1>2 DEF SuperOf
<1>4. ASSUME (b + 1) % SuperBlocks # 0 PROVE SuperOf(b + 1) = SuperOf(b)
  <2>1. CASE b % SuperBlocks = SuperBlocks - 1
    <3>1. b + 1 = SuperOf(b) + SuperBlocks
      BY <1>1, <2>1
    <3>2. (SuperOf(b) + SuperBlocks) % SuperBlocks = 0
      BY <1>1, <1>3, NextRound
    <3> QED
      BY <1>4, <3>1, <3>2
  <2>2. CASE b % SuperBlocks # SuperBlocks - 1
    <3>1. b + 1 \in SuperOf(b) .. SuperOf(b) + SuperBlocks - 1
      BY <1>1, <2>2
    <3> QED
      BY <1>1, <1>3, <3>1, WithinSuper
  <2> QED
    BY <2>1, <2>2
<1> QED
  BY <1>1, <1>2, <1>4

LEMMA TwoScalarKeeps ==
  ASSUME RankInv, ScalarRound, TwoScalarRound
  PROVE  /\ SumsInv' /\ EntriesInv'
         /\ DOMAIN ranks' = DOMAIN ranks /\ DOMAIN supers' = DOMAIN supers
<1> DEFINE sum == IF at % SuperBlocks = 0 THEN 0 ELSE local
<1>1. /\ bits \in Bitmasks /\ at \in 0 .. Count - 1 /\ at \in 0 .. Count
      /\ at + 1 \in 0 .. Count /\ at \in Nat /\ Count \in Nat /\ bits' = bits
      /\ at' = at + 1 /\ kind' = kind /\ ShapeInv
      /\ global = Before(at) /\ global' = Before(at + 1) /\ Before(at) \in Nat
      /\ PopCount(bits[at]) \in Nat /\ Before(at + 1) = Before(at) + PopCount(bits[at])
  BY ScalarSum
<1>2. /\ kind = "two" /\ local' = sum + PopCount(bits[at])
      /\ ranks' = [ranks EXCEPT ![at] = Wrap(LocalWidth, sum)]
      /\ supers' = IF at % SuperBlocks = 0
                   THEN [supers EXCEPT ![at \div SuperBlocks] = global] ELSE supers
  BY DEF TwoScalarRound
<1>3. /\ SuperBlocks \in Nat \ {0} /\ SuperOf(at) \in Nat
      /\ at % SuperBlocks \in 0 .. SuperBlocks - 1 /\ at = SuperOf(at) + (at % SuperBlocks)
  BY <1>1, SizesAre, SuperIs
<1>4. SuperOf(at) \in 0 .. Count /\ Before(SuperOf(at)) \in Nat
  <2>1. SuperOf(at) \in 0 .. Count
    BY <1>1, <1>3
  <2>2. Before(SuperOf(at)) \in 0 .. Count * BlockBits
    BY <1>1, <2>1, BeforeType
  <2> QED
    BY <2>1, <2>2
<1>5. sum = SinceSuper(at)
  <2>1. CASE at % SuperBlocks = 0
    <3>1. SuperOf(at) = at
      BY <1>1, <2>1, SuperNext
    <3> QED
      BY <1>1, <2>1, <3>1 DEF SinceSuper
  <2>2. CASE at % SuperBlocks # 0
    BY <1>2, <2>2 DEF RankInv, SumsInv
  <2> QED
    BY <2>1, <2>2
<1> HIDE DEF sum
<1>6. Wrap(LocalWidth, sum) = sum
  <2>1. SuperOf(at) <= at /\ at <= SuperOf(at) + SuperBlocks
    BY <1>1, <1>3
  <2> QED
    BY <1>1, <1>4, <1>5, <2>1, SinceFits DEF SinceSuper
<1>7. SumsInv'
  <2>1. ASSUME (at + 1) % SuperBlocks # 0 PROVE local' = SinceSuper(at + 1)
    <3>1. SuperOf(at + 1) = SuperOf(at)
      BY <1>1, <2>1, SuperNext
    <3>2. SinceSuper(at + 1) = (Before(at) + PopCount(bits[at])) - Before(SuperOf(at))
      BY <1>1, <3>1 DEF SinceSuper
    <3>3. local' = (Before(at) - Before(SuperOf(at))) + PopCount(bits[at])
      BY <1>2, <1>5 DEF SinceSuper
    <3> DEFINE x == Before(at)
               y == Before(SuperOf(at))
               z == PopCount(bits[at])
    <3>4. x \in Nat /\ y \in Nat /\ z \in Nat
      BY <1>1, <1>4
    <3>5. SinceSuper(at + 1) = (x + z) - y /\ local' = (x - y) + z
      BY <3>2, <3>3
    <3> HIDE DEF x, y, z
    <3> QED
      BY <3>4, <3>5
  <2> QED
    BY <1>1, <1>2, <2>1, BitsStay DEF SumsInv
<1>8. DOMAIN ranks' = DOMAIN ranks
  BY <1>2
<1>9. ASSUME NEW k \in 0 .. at PROVE ranks'[k] = SinceSuper(k)
  <2>1. k \in 0 .. Count - 1
    BY <1>1
  <2>2. k \in DOMAIN ranks
    BY <1>1, <1>2, <2>1, SuperIsThere
  <2>3. CASE k = at
    BY <1>2, <1>5, <1>6, <2>2, <2>3
  <2>4. CASE k # at
    <3>1. k \in 0 .. at - 1
      BY <1>1, <2>4
    <3>2. ranks[k] = SinceSuper(k)
      BY <1>2, <3>1 DEF RankInv, EntriesInv
    <3> QED
      BY <1>2, <2>2, <2>4, <3>2
  <2> QED
    BY <2>3, <2>4
<1>10. /\ DOMAIN supers' = DOMAIN supers
       /\ \A s \in DOMAIN supers : s * SuperBlocks < at + 1 => supers'[s] = Before(s * SuperBlocks)
  <2>1. CASE at % SuperBlocks = 0
    <3>1. supers' = [supers EXCEPT ![at \div SuperBlocks] = global]
      BY <1>2, <2>1
    <3>2. 1 \in 1 .. SuperBlocks
      BY <1>3
    <3> QED
      BY <1>1, <1>2, <2>1, <3>1, <3>2, SuperEntered
  <2>2. CASE at % SuperBlocks # 0
    <3>1. supers' = supers
      BY <1>2, <2>2
    <3>2. ASSUME NEW s \in DOMAIN supers, s * SuperBlocks < at + 1
          PROVE  supers[s] = Before(s * SuperBlocks)
      <4>1. s \in Nat
        BY <1>1, <1>2 DEF ShapeInv
      <4>2. s * SuperBlocks # at
        BY <1>1, <2>2, <4>1, SuperNext
      <4>3. s * SuperBlocks \in Nat
        BY <1>3, <4>1, Product
      <4>4. s * SuperBlocks < at
        BY <1>1, <3>2, <4>2, <4>3
      <4> QED
        BY <1>2, <4>4 DEF RankInv, EntriesInv
    <3> QED
      BY <3>1, <3>2
  <2> QED
    BY <2>1, <2>2
<1>11. EntriesInv'
  <2>1. 0 .. (at + 1) - 1 = 0 .. at
    BY <1>1
  <2> QED
    BY <1>1, <1>2, <1>9, <1>10, <2>1, BitsStay DEF EntriesInv
<1> QED
  BY <1>7, <1>8, <1>10, <1>11

LEMMA VectorKeeps ==
  ASSUME RankInv, VectorRound
  PROVE  RankInv'
<1>1. /\ bits' = bits /\ kind' = kind /\ width' = width /\ phase = "building" /\ phase' = phase
      /\ answer' = answer /\ at' = at + Round /\ at + Round <= Count /\ cpu' = cpu
      /\ bits \in Bitmasks /\ Count \in Nat /\ at \in Nat /\ ShapeInv
      /\ cpu # "scalar"
  BY BitsAre DEF VectorRound, RankInv
<1>2. Round \in Nat \ {0} /\ Round' = Round
  BY <1>1, RoundIs DEF Round
<1>3. at' \in 0 .. Count
  BY <1>1, <1>2
<1>4. SumsInv' /\ EntriesInv' /\ ShapeInv'
  <2>1. CASE FlatVectorRound
    <3>1. SumsInv' /\ EntriesInv' /\ DOMAIN ranks' = DOMAIN ranks
      BY <2>1, FlatVectorKeeps
    <3>2. supers' = supers
      BY <2>1 DEF FlatVectorRound
    <3> QED
      BY <1>1, <3>1, <3>2, ShapeStays
  <2>2. CASE TwoVectorRound
    BY <1>1, <2>2, TwoVectorKeeps, ShapeStays
  <2> QED
    BY <2>1, <2>2 DEF VectorRound
<1>5. RoundsInv'
  <2>1. at % Round = 0
    BY <1>1 DEF RankInv, RoundsInv
  <2>2. (at + Round) % Round = 0
    BY <1>1, <1>2, <2>1, NextRound
  <2> QED
    BY <1>1, <1>2, <2>2 DEF RoundsInv
<1>6. AnswerInv'
  BY <1>1, AnswerStays DEF RankInv
<1> QED
  BY <1>1, <1>3, <1>4, <1>5, <1>6, BitsStay DEF RankInv

LEMMA ScalarKeeps ==
  ASSUME RankInv, ScalarRound
  PROVE  RankInv'
<1>1. /\ bits' = bits /\ kind' = kind /\ width' = width /\ phase = "building" /\ phase' = phase
      /\ answer' = answer /\ at' = at + 1 /\ cpu' = cpu
      /\ cpu # "scalar" => at + Round > Count
      /\ bits \in Bitmasks /\ Count \in Nat /\ at \in Nat /\ ShapeInv
      /\ at + 1 \in 0 .. Count
  BY ScalarSum, BitsAre DEF ScalarRound, RankInv
<1>2. SumsInv' /\ EntriesInv' /\ ShapeInv'
  <2>1. CASE FlatScalarRound
    <3>1. SumsInv' /\ EntriesInv' /\ DOMAIN ranks' = DOMAIN ranks
      BY <2>1, FlatScalarKeeps
    <3>2. supers' = supers
      BY <2>1 DEF FlatScalarRound
    <3> QED
      BY <1>1, <3>1, <3>2, ShapeStays
  <2>2. CASE TwoScalarRound
    BY <1>1, <2>2, TwoScalarKeeps, ShapeStays
  <2> QED
    BY <2>1, <2>2 DEF ScalarRound
<1>3. RoundsInv'
  <2>1. Round' = Round /\ Count' = Count /\ Round \in Nat
    BY <1>1, BitsStay, RoundIs DEF Round
  <2>2. cpu # "scalar" => ~((at + 1) + Round <= Count)
    BY <1>1, <2>1
  <2> QED
    BY <1>1, <2>1, <2>2 DEF RoundsInv
<1>4. AnswerInv'
  BY <1>1, AnswerStays DEF RankInv
<1> QED
  BY <1>1, <1>2, <1>3, <1>4, BitsStay DEF RankInv

-----------------------------------------------------------------------------
(* Queries.                                                                 *)

LEMMA BlockInRange ==
  ASSUME bits \in Bitmasks, NEW i \in Nat, InRange(i)
  PROVE  /\ BlockOf(i) \in 0 .. Count - 1 /\ BitOf(i) \in 0 .. BlockBits - 1
         /\ i = BlockOf(i) * BlockBits + BitOf(i)
<1> DEFINE b == BlockOf(i)
           j == BitOf(i)
<1>1. Count \in Nat /\ BlockBits \in Nat \ {0}
  BY BitsAre, SizesAre
<1>2. b \in Nat /\ j \in 0 .. BlockBits - 1 /\ i = b * BlockBits + j
  <2>1. b \in Nat /\ j \in 0 .. BlockBits - 1 /\ i = BlockBits * b + j
    BY <1>1, Division DEF BlockOf, BitOf
  <2> HIDE DEF b, j
  <2>2. BlockBits * b = b * BlockBits
    BY <1>1, <2>1
  <2> QED
    BY <2>1, <2>2
<1> HIDE DEF b, j
<1>3. Count * BlockBits \in Nat /\ b * BlockBits \in Nat
  BY <1>1, <1>2, Product
<1>4. i < Count * BlockBits /\ b * BlockBits <= i
  BY <1>1, <1>2, <1>3 DEF InRange
<1>5. b * BlockBits < Count * BlockBits
  BY <1>3, <1>4
<1>6. b < Count
  BY <1>1, <1>2, <1>5, LessFactor
<1> QED
  BY <1>1, <1>2, <1>6 DEF b, j

LEMMA LookupIsExact ==
  ASSUME RankInv, phase = "ready", NEW i \in Nat, NEW missing, NEW r \in Lookup(i, missing)
  PROVE  /\ IsSet(i) => r = SetBelow(i)
         /\ InRange(i) /\ ~IsSet(i) => r = missing
<1> SUFFICES ASSUME InRange(i)
             PROVE  /\ IsSet(i) => r = SetBelow(i)
                    /\ ~IsSet(i) => r = missing
  BY DEF IsSet
<1> DEFINE b     == BlockOf(i)
           j     == BitOf(i)
           below == PopCount({k \in bits[b] : k < j})
<1>1. /\ bits \in Bitmasks /\ Count \in Nat /\ BlockBits \in Nat \ {0} /\ at = Count
      /\ ShapeInv /\ DOMAIN bits = 0 .. Count - 1
  BY BitsAre, SizesAre DEF RankInv
<1>2. b \in Nat /\ j \in 0 .. BlockBits - 1 /\ i = b * BlockBits + j
      /\ b \in 0 .. Count - 1
  BY <1>1, BlockInRange
<1> HIDE DEF b, j
<1>3. b \in 0 .. Count - 1
  BY <1>2
<1>4. Read(bits, b, BitSets) = {bits[b]}
  BY <1>1, <1>3 DEF Read
<1>5. r \in (IF j \in bits[b] THEN Found(i, bits[b]) ELSE {missing})
  BY <1>4 DEF Lookup, b, j
<1>6. IsSet(i) <=> j \in bits[b]
  BY DEF IsSet, b, j
<1>7. ASSUME j \in bits[b] PROVE r = SetBelow(i)
  <2>1. r \in Found(i, bits[b])
    BY <1>5, <1>7
  <2>2. SetBelow(i) = Before(b) + below
    <3>1. j \in 0 .. BlockBits
      BY <1>1, <1>2
    <3>2. SetBelow(b * BlockBits + j) = Before(b) + below
      BY <1>1, <1>3, <3>1, RankInBlock
    <3> QED
      BY <1>2, <3>2
  <2>3. b \in 0 .. at - 1 /\ b \in Nat
    BY <1>1, <1>3
  <2>4. CASE kind = "flat"
    <3>1. Read(ranks, b, {0, MaxOf[width]}) = {ranks[b]}
      BY <1>1, <1>3, <2>4 DEF Read, ShapeInv
    <3>2. ranks[b] = Before(b)
      BY <2>3, <2>4 DEF RankInv, EntriesInv
    <3>3. r = ranks[b] + below
      BY <2>1, <2>4, <3>1 DEF Found, b, j
    <3> QED
      BY <2>2, <3>2, <3>3
  <2>5. CASE kind = "two"
    <3> DEFINE c == b \div SuperBlocks
    <3>1. c \in DOMAIN supers /\ b \in DOMAIN ranks
      BY <1>1, <1>3, <2>5, SuperIsThere
    <3>2. Read(ranks, b, {0, MaxOf[LocalWidth]}) = {ranks[b]}
          /\ Read(supers, c, {0, MaxOf[width]}) = {supers[c]}
      BY <3>1 DEF Read
    <3>3. ranks[b] = SinceSuper(b)
      BY <2>3, <2>5 DEF RankInv, EntriesInv
    <3>4. SuperOf(b) <= b /\ SuperOf(b) \in Nat
      <4>1. /\ SuperOf(b) \in Nat /\ b % SuperBlocks \in 0 .. SuperBlocks - 1
            /\ b = SuperOf(b) + (b % SuperBlocks)
        BY <2>3, SuperIs
      <4> QED
        BY <2>3, <4>1, SizesAre
    <3>5. supers[c] = Before(SuperOf(b))
      <4>1. c * SuperBlocks = SuperOf(b)
        BY DEF SuperOf
      <4>2. c * SuperBlocks < at
        BY <1>1, <2>3, <3>4, <4>1
      <4>3. supers[c] = Before(c * SuperBlocks)
        BY <2>5, <3>1, <4>2 DEF RankInv, EntriesInv
      <4> QED
        BY <4>1, <4>3
    <3>6. r = supers[c] + ranks[b] + below
      <4>1. Found(i, bits[b]) =
              UNION {{s + q + below : q \in Read(ranks, b, {0, MaxOf[LocalWidth]})} :
                       s \in Read(supers, c, {0, MaxOf[width]})}
        BY <2>5 DEF Found, b, j
      <4> HIDE DEF below, c
      <4>2. PICK s \in Read(supers, c, {0, MaxOf[width]}) :
              r \in {s + q + below : q \in Read(ranks, b, {0, MaxOf[LocalWidth]})}
        BY <2>1, <4>1
      <4>3. PICK q \in Read(ranks, b, {0, MaxOf[LocalWidth]}) : r = s + q + below
        BY <4>2
      <4> QED
        BY <3>2, <4>2, <4>3
    <3>7. Before(SuperOf(b)) \in Nat /\ Before(b) \in Nat
      <4>1. SuperOf(b) \in 0 .. Count /\ b \in 0 .. Count
        BY <1>1, <1>3, <3>4
      <4>2. Before(SuperOf(b)) \in 0 .. Count * BlockBits /\ Before(b) \in 0 .. Count * BlockBits
        BY <1>1, <4>1, BeforeType
      <4> QED
        BY <4>2
    <3>8. supers[c] + ranks[b] = Before(b)
      BY <3>3, <3>5, <3>7 DEF SinceSuper
    <3> QED
      BY <2>2, <3>6, <3>8
  <2>6. kind # "none" /\ kind \in {"none", "flat", "two"}
    BY <1>1, <1>3 DEF ShapeInv
  <2> QED
    BY <2>4, <2>5, <2>6
<1> QED
  BY <1>5, <1>6, <1>7

(* No set bit has a rank like the answers for those that are not.           *)
LEMMA MissingIsNoRank ==
  ASSUME RankInv, phase = "ready"
  PROVE  NoRank >= Total /\ Missing >= Total
<1>1. bits \in Bitmasks /\ Count \in Nat /\ width \in Widths /\ Fits(width) /\ Fits(8)
  <2>1. bits \in Bitmasks /\ width \in Widths /\ Fits(width)
    BY DEF RankInv, ShapeInv
  <2>2. Fits(8)
    BY <2>1, RankAssumption DEF Fits, Count
  <2> QED
    BY <2>1, <2>2, BitsAre
<1>2. Total \in 0 .. Count * BlockBits
  <2>1. Count \in 0 .. Count
    BY <1>1
  <2> QED
    BY <1>1, <2>1, BeforeType DEF Before, Total
<1>3. MaxOf[width] \in Nat /\ MaxOf[8] \in Nat /\ Count * BlockBits \in Nat
  BY <1>1, SizesAre, Product DEF Widths
<1>4. MaxOf[width] >= Total /\ MaxOf[8] >= Total
  BY <1>1, <1>2, <1>3 DEF Fits
<1> QED
  BY <1>4 DEF NoRank, Missing

(* A gather of an entry that is there ends in the padding.                  *)
LEMMA GatherIsInside ==
  ASSUME NEW base \in Nat, NEW w \in Widths, NEW n \in Nat, NEW limit,
         NEW elements, elements \subseteq 0 .. n - 1
  PROVE  Gathered(base, w, n + Padding(w), limit, elements)
<1>1. Page \in Nat \ {0}
  BY RankAssumption
<1>2. \A x, y \in Nat : x <= y => x \div Page <= y \div Page
  <2>1. ASSUME NEW x \in Nat, NEW y \in Nat, x <= y PROVE x \div Page <= y \div Page
    <3>1. x \div Page \in Nat /\ y \div Page \in Nat
          /\ x % Page \in 0 .. Page - 1 /\ y % Page \in 0 .. Page - 1
          /\ x = Page * (x \div Page) + (x % Page) /\ y = Page * (y \div Page) + (y % Page)
      BY <1>1, Division
    <3> DEFINE p == x \div Page
               q == y \div Page
    <3>2. (q + 1) * Page = Page * q + Page /\ p * Page = Page * p /\ q + 1 \in Nat
          /\ Page * p \in Nat /\ Page * q \in Nat
      <4>1. p \in Nat /\ q \in Nat /\ Page \in Nat
        BY <1>1, <3>1
      <4> HIDE DEF p, q
      <4>2. Page * p \in Nat /\ Page * q \in Nat
        BY <4>1
      <4> QED
        BY <4>1, <4>2
    <3>3. Page * p < Page * q + Page
      <4> DEFINE u == Page * p
                 v == Page * q
      <4>1. u \in Nat /\ v \in Nat /\ u <= x /\ y < v + Page
        BY <1>1, <3>1, <3>2
      <4> HIDE DEF u, v
      <4>2. u < v + Page
        BY <1>1, <2>1, <4>1
      <4> QED
        BY <4>2 DEF u, v
    <3>4. p * Page < (q + 1) * Page /\ p \in Nat
      BY <3>1, <3>2, <3>3
    <3> HIDE DEF p, q
    <3>5. p < q + 1
      BY <1>1, <3>2, <3>4, LessFactor
    <3>6. q \in Nat /\ p \in Nat
      BY <3>1 DEF p, q
    <3> QED
      BY <3>5, <3>6 DEF p, q
  <2> QED
    BY <2>1
<1>3. ASSUME w < 4, NEW k \in elements
      PROVE  GatherMapped(base, w, n + Padding(w), k)
  <2>1. k \in 0 .. n - 1
    OBVIOUS
  <2>2. CASE w = 1
    <3>1. Padding(w) = 3
      BY <2>2 DEF Padding
    <3>2. base + k * w + 3 = base + k + 3 /\ base + (n + Padding(w)) * w - 1 = base + n + 2
      BY <2>1, <2>2, <3>1
    <3>3. base + k + 3 \in Nat /\ base + n + 2 \in Nat /\ base + k + 3 <= base + n + 2
      BY <2>1
    <3> QED
      BY <1>2, <3>2, <3>3 DEF GatherMapped
  <2>3. CASE w = 2
    <3>1. Padding(w) = 1
      BY <2>3 DEF Padding
    <3>2. base + k * w + 3 = base + 2 * k + 3 /\ base + (n + Padding(w)) * w - 1 = base + 2 * n + 1
      BY <2>1, <2>3, <3>1
    <3>3. base + 2 * k + 3 \in Nat /\ base + 2 * n + 1 \in Nat
          /\ base + 2 * k + 3 <= base + 2 * n + 1
      BY <2>1
    <3> QED
      BY <1>2, <3>2, <3>3 DEF GatherMapped
  <2> QED
    BY <1>3, <2>2, <2>3 DEF Widths
<1> QED
  BY <1>3 DEF Gathered

LEMMA BatchIsMapped ==
  ASSUME RankInv, phase = "ready", kind # "none", NEW base \in Nat, NEW asked,
         \A k \in DOMAIN asked : asked[k] \in Nat
  PROVE  BatchMapped(base, asked)
<1> DEFINE valid  == {k \in DOMAIN asked : BlockOf(asked[k]) < Count /\
                                           BitOf(asked[k]) \in bits[BlockOf(asked[k])]}
           blocks == {BlockOf(asked[k]) : k \in valid}
           supersAsked == {b \div SuperBlocks : b \in blocks}
<1>1. /\ bits \in Bitmasks /\ Count \in Nat /\ BlockBits \in Nat \ {0} /\ ShapeInv
      /\ width \in Widths /\ LocalWidth \in Widths
  BY BitsAre, SizesAre DEF RankInv, ShapeInv, LocalWidth, Widths
<1>2. blocks \subseteq 0 .. Count - 1
  <2>1. ASSUME NEW k \in valid PROVE BlockOf(asked[k]) \in 0 .. Count - 1
    <3>1. asked[k] \in Nat /\ BlockOf(asked[k]) < Count
      OBVIOUS
    <3>2. BlockOf(asked[k]) \in Nat
      BY <1>1, <3>1, Division DEF BlockOf
    <3> QED
      BY <1>1, <3>1, <3>2
  <2> QED
    BY <2>1
<1>3. CASE kind = "flat"
  <2>1. Gathered(base, width, Count + Padding(width),
                 SafeLimit(base, width, Count + Padding(width)), blocks)
    BY <1>1, <1>2, GatherIsInside
  <2> QED
    BY <1>3, <2>1 DEF BatchMapped
<1>4. CASE kind = "two"
  <2> DEFINE superCap == Cardinality(DOMAIN supers)
             localCap == Cardinality(DOMAIN ranks)
  <2>1. Padding(width) \in Nat /\ Padding(LocalWidth) \in Nat /\ SuperCount \in Nat
    <3>1. Padding(width) \in Nat
      BY <1>1 DEF Padding, Widths
    <3>2. Padding(LocalWidth) \in Nat
      BY DEF Padding, LocalWidth
    <3>3. SuperBlocks \in Nat \ {0} /\ Count + SuperBlocks - 1 \in Nat
      BY <1>1, SizesAre
    <3>4. SuperCount \in Nat
      BY <3>3, Division DEF SuperCount
    <3> QED
      BY <3>1, <3>2, <3>4
  <2>2. localCap = Count + Padding(LocalWidth)
    <3> DEFINE n == Count + Padding(LocalWidth)
    <3>1. DOMAIN ranks = 0 .. n - 1 /\ n \in Nat
      BY <1>1, <1>4, <2>1 DEF ShapeInv
    <3> HIDE DEF n
    <3>2. Cardinality(0 .. n - 1) = n
      BY <3>1, FS_Interval
    <3> QED
      BY <3>1, <3>2 DEF n
  <2>3. superCap = SuperCount + Padding(width)
    <3> DEFINE n == SuperCount + Padding(width)
    <3>1. DOMAIN supers = 0 .. n - 1 /\ n \in Nat
      BY <1>1, <1>4, <2>1 DEF ShapeInv
    <3> HIDE DEF n
    <3>2. Cardinality(0 .. n - 1) = n
      BY <3>1, FS_Interval
    <3> QED
      BY <3>1, <3>2 DEF n
  <2>4. supersAsked \subseteq 0 .. SuperCount - 1
    <3>1. ASSUME NEW b \in blocks PROVE b \div SuperBlocks \in 0 .. SuperCount - 1
      <4>1. b \in 0 .. Count - 1 /\ b \in Nat
        BY <1>2
      <4>2. b \div SuperBlocks < SuperCount
        BY <1>1, <4>1, SuperIsCounted
      <4>3. b \div SuperBlocks \in Nat
        BY <4>1, SuperIs
      <4> QED
        BY <2>1, <4>2, <4>3
    <3> QED
      BY <3>1
  <2>5. Gathered(base, LocalWidth, localCap, SafeLimit(base, LocalWidth, localCap), blocks)
    BY <1>1, <1>2, <2>2, GatherIsInside
  <2>6. Gathered(base, width, superCap, SafeLimit(base, width, superCap) \div SuperBlocks,
                 supersAsked)
    BY <1>1, <2>1, <2>3, <2>4, GatherIsInside
  <2> QED
    BY <1>4, <2>5, <2>6 DEF BatchMapped
<1> QED
  BY <1>1, <1>3, <1>4 DEF ShapeInv

Stays == UNCHANGED <<bits, cpu, kind, width, ranks, supers, at, global, local, answer>>

LEMMA StaysKeeps ==
  ASSUME RankInv, Stays
  PROVE  /\ bits' \in Bitmasks /\ at' \in 0 .. Count' /\ Count' = Count
         /\ at' = at /\ kind' = kind
         /\ (ShapeInv => ShapeInv') /\ SumsInv' /\ EntriesInv' /\ RoundsInv' /\ AnswerInv'
<1>1. bits' = bits /\ Count' = Count
  BY BitsStay DEF Stays
<1>2. ShapeInv => ShapeInv'
  BY ShapeStays DEF Stays
<1>3. SumsInv' /\ EntriesInv' /\ RoundsInv'
  BY BitsStay DEF Stays, RankInv, SumsInv, EntriesInv, RoundsInv, Round
<1>4. AnswerInv'
  BY AnswerStays DEF Stays, RankInv
<1> QED
  BY <1>1, <1>2, <1>3, <1>4 DEF Stays, RankInv

LEMMA AnswerKeeps ==
  ASSUME RankInv, phase = "ready", NEW via, NEW asked, NEW got, NEW mapped,
         Answer(via, asked, got, mapped), mapped,
         \A k \in DOMAIN asked : Exact(via, asked[k], got[k])
  PROVE  RankInv'
<1>1. /\ answer' = [via |-> via, asked |-> asked, got |-> got, mapped |-> mapped]
      /\ UNCHANGED <<bits, cpu, threshold, phase, kind, width, ranks, supers, at, global, local>>
  BY DEF Answer, table
<1>2. AnswerInv'
  <2>1. answer'.via = via /\ answer'.asked = asked /\ answer'.got = got /\ answer'.mapped = mapped
    BY <1>1
  <2>2. ASSUME NEW k \in DOMAIN asked PROVE Exact(via, asked[k], got[k])'
    <3>1. Exact(via, asked[k], got[k])
      OBVIOUS
    <3> QED
      BY <1>1, <3>1, BitsStay DEF Exact, Total
  <2> QED
    BY <2>1, <2>2 DEF AnswerInv
<1>3. ShapeInv => ShapeInv'
  BY <1>1, ShapeStays
<1>4. SumsInv' /\ EntriesInv' /\ RoundsInv'
  BY <1>1, BitsStay DEF RankInv, SumsInv, EntriesInv, RoundsInv, Round
<1> QED
  BY <1>1, <1>2, <1>3, <1>4, BitsStay DEF RankInv

LEMMA SingleKeeps ==
  ASSUME RankInv, NEW i \in Nat, GetRank(i)
  PROVE  RankInv'
<1>1. PICK r \in SingleRank(i) : Answer("single", <<i>>, <<r>>, TRUE)
  BY DEF GetRank
<1>2. phase = "ready" /\ bits \in Bitmasks /\ Count \in Nat /\ BlockBits \in Nat \ {0} /\ ShapeInv
  BY BitsAre, SizesAre DEF GetRank, RankInv
<1>3. Exact("single", i, r)
  <2>1. CASE BlockOf(i) \notin DOMAIN ranks
    <3>1. r = NoRank
      BY <2>1 DEF SingleRank
    <3>2. ~InRange(i)
      <4> SUFFICES ASSUME InRange(i) PROVE FALSE
        OBVIOUS
      <4>1. BlockOf(i) \in 0 .. Count - 1
        BY <1>2, BlockInRange
      <4>2. BlockOf(i) \in DOMAIN ranks
        <5>1. kind # "none"
          BY <1>2, <4>1 DEF ShapeInv
        <5>2. CASE kind = "flat"
          BY <1>2, <4>1, <5>2 DEF ShapeInv
        <5>3. CASE kind = "two"
          BY <1>2, <4>1, <5>3, SuperIsThere
        <5> QED
          BY <1>2, <5>1, <5>2, <5>3 DEF ShapeInv
      <4> QED
        BY <2>1, <4>2
    <3> QED
      BY <3>1, <3>2 DEF Exact, IsSet
  <2>2. CASE BlockOf(i) \in DOMAIN ranks
    <3>1. r \in Lookup(i, NoRank)
      BY <2>2 DEF SingleRank
    <3> QED
      BY <1>2, <3>1, LookupIsExact, MissingIsNoRank DEF Exact
  <2> QED
    BY <2>1, <2>2
<1>4. \A k \in DOMAIN <<i>> : Exact("single", <<i>>[k], <<r>>[k])
  BY <1>3
<1> DEFINE asked == <<i>>
           got   == <<r>>
<1> HIDE DEF asked, got
<1>5. Answer("single", asked, got, TRUE) /\ \A k \in DOMAIN asked : Exact("single", asked[k], got[k])
  BY <1>1, <1>4 DEF asked, got
<1> QED
  BY <1>2, <1>5, AnswerKeeps

LEMMA BatchKeeps ==
  ASSUME RankInv, kind # "none", NEW asked, \A k \in DOMAIN asked : asked[k] \in Nat,
         GetRanksBatch(asked)
  PROVE  RankInv'
<1>1. PICK got \in [DOMAIN asked -> UNION {Lookup(asked[k], Missing) : k \in DOMAIN asked}],
           base \in {p \in 0 .. Page - 1 : p % (IF kind = "two" THEN LocalWidth ELSE width) = 0} :
        /\ \A k \in DOMAIN asked : got[k] \in Lookup(asked[k], Missing)
        /\ Answer("batch", asked, got, cpu = "all" => BatchMapped(base, asked))
  BY DEF GetRanksBatch
<1>2. phase = "ready" /\ base \in Nat
  BY RankAssumption DEF GetRanksBatch
<1>3. BatchMapped(base, asked)
  BY <1>2, BatchIsMapped
<1>4. ASSUME NEW k \in DOMAIN asked PROVE Exact("batch", asked[k], got[k])
  <2>1. asked[k] \in Nat /\ got[k] \in Lookup(asked[k], Missing)
    BY <1>1
  <2>2. /\ IsSet(asked[k]) => got[k] = SetBelow(asked[k])
        /\ InRange(asked[k]) /\ ~IsSet(asked[k]) => got[k] = Missing
    BY <1>2, <2>1, LookupIsExact
  <2> QED
    BY <1>2, <2>2, MissingIsNoRank DEF Exact
<1> DEFINE mapped == cpu = "all" => BatchMapped(base, asked)
<1>5. mapped
  BY <1>3
<1>6. Answer("batch", asked, got, mapped)
  BY <1>1
<1> HIDE DEF mapped
<1> QED
  BY <1>2, <1>4, <1>5, <1>6, AnswerKeeps

LEMMA RankNext ==
  ASSUME RankInv, [Next]_vars
  PROVE  RankInv'
<1>1. CASE Choose
  BY <1>1, ChooseKeeps
<1>2. CASE VectorRound
  BY <1>2, VectorKeeps
<1>3. CASE ScalarRound
  BY <1>3, ScalarKeeps
<1>4. CASE Built
  <2>1. /\ at = Count /\ phase = "building" /\ phase' = "ready"
        /\ UNCHANGED <<bits, cpu, threshold, kind, width, ranks, supers, at, global, local, answer>>
    BY <1>4 DEF Built, table
  <2>2. Stays
    BY <2>1 DEF Stays
  <2> QED
    BY <2>1, <2>2, StaysKeeps DEF RankInv
<1>5. CASE Query
  <2>1. Indices \subseteq Nat /\ BlockBits - 1 \in Nat
    BY SizesAre DEF Indices
  <2>2. CASE \E i \in Indices : GetRank(i)
    BY <2>1, <2>2, SingleKeeps
  <2>3. CASE kind # "none" /\ \E i \in Indices : GetRanksBatch(<<i>>)
    <3>1. PICK i \in Indices : GetRanksBatch(<<i>>)
      BY <2>3
    <3> DEFINE asked == <<i>>
    <3>2. \A k \in DOMAIN asked : asked[k] \in Nat
      BY <2>1
    <3>3. GetRanksBatch(asked)
      BY <3>1
    <3> HIDE DEF asked
    <3> QED
      BY <2>3, <3>2, <3>3, BatchKeeps
  <2>4. CASE kind # "none" /\ \E i \in Indices : GetRanksBatch(<<i, BlockBits - 1>>)
    <3>1. PICK i \in Indices : GetRanksBatch(<<i, BlockBits - 1>>)
      BY <2>4
    <3> DEFINE asked == <<i, BlockBits - 1>>
    <3>2. \A k \in DOMAIN asked : asked[k] \in Nat
      BY <2>1
    <3>3. GetRanksBatch(asked)
      BY <3>1
    <3> HIDE DEF asked
    <3> QED
      BY <2>4, <3>2, <3>3, BatchKeeps
  <2> QED
    BY <1>5, <2>2, <2>3, <2>4 DEF Query
<1>6. CASE UNCHANGED vars
  <2>1. phase' = phase /\ Stays
    BY <1>6 DEF vars, table, Stays
  <2> QED
    BY <2>1, StaysKeeps DEF RankInv
<1> QED
  BY <1>1, <1>2, <1>3, <1>4, <1>5, <1>6 DEF Next

-----------------------------------------------------------------------------
(* The table being built, the running sums and the entries entered so far   *)
(* are those of the blocks done, and every answer is right.                 *)
THEOREM RankInvariant == Spec => []RankInv
<1>1. RankInv /\ [Next]_vars => RankInv'
  BY RankNext
<1> QED
  BY InitRank, <1>1, PTL DEF Spec

(* GetRank and GetRanksBatch of the table that CUniversalRankTable::Build   *)
(* chose and filled give every set bit the number of set bits before it,    *)
(* and a single lookup tells a missing one, however the table was built.    *)
THEOREM RanksAreRight == Spec => []RanksAreExact
<1>1. RankInv => RanksAreExact
  BY DEF RankInv, AnswerInv, Exact, SumsInv, Before, Total, RanksAreExact
<1> QED
  BY RankInvariant, <1>1, PTL

(* The AVX-512 batches read no page behind their arrays: the padding is     *)
(* enough, wherever the arrays begin.                                       *)
THEOREM GathersAreMapped == Spec => []GathersStayMapped
<1>1. RankInv => GathersStayMapped
  BY DEF RankInv, AnswerInv, GathersStayMapped
<1> QED
  BY RankInvariant, <1>1, PTL
=============================================================================
