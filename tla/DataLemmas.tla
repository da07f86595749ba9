----------------------------- MODULE DataLemmas -----------------------------
(***************************************************************************)
(* What the sums and the sequences of the models are, for data of every    *)
(* size: by induction on sets of numbers, from the least element each of   *)
(* them has.                                                               *)
(***************************************************************************)
EXTENDS Integers, Functions, ByteStreams, FiniteSetTheorems, SequenceTheorems,
        WellFoundedInduction, TLAPS

-----------------------------------------------------------------------------
(* Induction.                                                               *)

LEMMA LeastElement ==
  ASSUME NEW S \in SUBSET Nat, S # {}
  PROVE  \E n \in S : \A m \in S : n <= m
<1>1. PICK n \in S : \A m \in S : <<m, n>> \notin OpToRel(<, Nat)
  BY NatLessThanWellFounded, WFMin
<1>2. ASSUME NEW m \in S PROVE n <= m
  <2>1. <<m, n>> \notin {p \in Nat \X Nat : p[1] < p[2]}
    BY <1>1 DEF OpToRel
  <2> QED
    BY <2>1
<1> QED
  BY <1>2

LEMMA Induction ==
  ASSUME NEW S \in SUBSET Nat, 0 \in S, \A n \in S : n + 1 \in S
  PROVE  S = Nat
<1> SUFFICES ASSUME Nat \ S # {} PROVE FALSE
  OBVIOUS
<1>1. PICK n \in Nat \ S : \A m \in Nat \ S : n <= m
  BY LeastElement
<1>2. n # 0
  OBVIOUS
<1>3. n - 1 \in Nat /\ n - 1 \in S
  BY <1>1, <1>2
<1> QED
  BY <1>1, <1>3

-----------------------------------------------------------------------------
(* FlattenSeq.                                                              *)

LEMMA FunctionIsSeq ==
  ASSUME NEW S, NEW n \in Nat, NEW f \in [1 .. n -> S]
  PROVE  f \in Seq(S)
  OBVIOUS

(* f is what FlattenSeq computes on the way to the first n parts.           *)
Flattening(f, parts, n) ==
  f = [i \in 1 .. n |-> IF i = 1 THEN parts[i] ELSE f[i - 1] \o parts[i]]

LEMMA FlatteningExists ==
  ASSUME NEW S, NEW parts \in Seq(Seq(S))
  PROVE  \A n \in 0 .. Len(parts) :
           \E f \in [1 .. n -> Seq(S)] : Flattening(f, parts, n)
<1> DEFINE N == {n \in Nat : n <= Len(parts) =>
                   \E f \in [1 .. n -> Seq(S)] : Flattening(f, parts, n)}
<1>1. 0 \in N
  <2>1. [i \in 1 .. 0 |-> <<>>] \in [1 .. 0 -> Seq(S)]
    OBVIOUS
  <2>2. Flattening([i \in 1 .. 0 |-> <<>>], parts, 0)
    BY DEF Flattening
  <2> QED
    BY <2>1, <2>2
<1>2. ASSUME NEW n \in N PROVE n + 1 \in N
  <2> SUFFICES ASSUME n + 1 <= Len(parts)
               PROVE  \E f \in [1 .. n + 1 -> Seq(S)] : Flattening(f, parts, n + 1)
    OBVIOUS
  <2>1. PICK f \in [1 .. n -> Seq(S)] : Flattening(f, parts, n)
    BY <1>2
  <2>2. n \in Nat /\ parts[n + 1] \in Seq(S)
    BY <1>2
  <2> DEFINE last == IF n + 1 = 1 THEN parts[n + 1] ELSE f[n] \o parts[n + 1]
             g == [i \in 1 .. n + 1 |-> IF i = n + 1 THEN last ELSE f[i]]
  <2>3. last \in Seq(S)
    <3>1. CASE n = 0
      BY <2>2, <3>1
    <3>2. CASE n # 0
      <4>1. f[n] \in Seq(S)
        BY <2>1, <2>2, <3>2
      <4> QED
        BY <2>2, <3>2, <4>1
    <3> QED
      BY <3>1, <3>2
  <2>4. g \in [1 .. n + 1 -> Seq(S)]
    BY <2>1, <2>2, <2>3
  <2>5. ASSUME NEW i \in 1 .. n + 1
        PROVE  g[i] = IF i = 1 THEN parts[i] ELSE g[i - 1] \o parts[i]
    <3>1. CASE i = n + 1
      BY <2>2, <3>1
    <3>2. CASE i # n + 1
      <4>1. i \in 1 .. n /\ (i # 1 => i - 1 \in 1 .. n)
        BY <2>2, <3>2
      <4>2. f[i] = IF i = 1 THEN parts[i] ELSE f[i - 1] \o parts[i]
        BY <2>1, <4>1 DEF Flattening
      <4>3. g[i] = f[i] /\ (i # 1 => g[i - 1] = f[i - 1])
        BY <2>2, <4>1, <3>2
      <4> QED
        BY <4>2, <4>3
    <3> QED
      BY <3>1, <3>2
  <2>6. Flattening(g, parts, n + 1)
    BY <2>5 DEF Flattening
  <2> QED
    BY <2>4, <2>6
<1>3. N = Nat
  <2> HIDE DEF N
  <2>1. N \in SUBSET Nat
    BY DEF N
  <2> QED
    BY <1>1, <1>2, <2>1, Induction
<1> SUFFICES ASSUME NEW n \in 0 .. Len(parts)
             PROVE  \E f \in [1 .. n -> Seq(S)] : Flattening(f, parts, n)
  OBVIOUS
<1>4. n \in Nat /\ n <= Len(parts)
  OBVIOUS
<1>5. n \in N
  <2> HIDE DEF N
  <2> QED
    BY <1>3, <1>4
<1> QED
  BY <1>4, <1>5

(* A flat sequence has the elements of its parts.                           *)
LEMMA FlattenSeqType ==
  ASSUME NEW S, NEW parts \in Seq(Seq(S))
  PROVE  FlattenSeq(parts) \in Seq(S)
<1>1. CASE Len(parts) = 0
  BY <1>1 DEF FlattenSeq
<1>2. CASE Len(parts) # 0
  <2> DEFINE f == CHOOSE g : Flattening(g, parts, Len(parts))
             N == {n \in Nat : n + 1 <= Len(parts) => f[n + 1] \in Seq(S)}
  <2>1. Flattening(f, parts, Len(parts))
    BY FlatteningExists
  <2>2. FlattenSeq(parts) = f[Len(parts)]
    BY <1>2 DEF FlattenSeq, Flattening
  <2> HIDE DEF f
  <2>3. \A i \in 1 .. Len(parts) : f[i] = IF i = 1 THEN parts[i] ELSE f[i - 1] \o parts[i]
    BY <2>1 DEF Flattening
  <2>4. 0 \in N
    BY <2>3
  <2>5. ASSUME NEW n \in N PROVE n + 1 \in N
    <3> SUFFICES ASSUME n + 2 <= Len(parts) PROVE f[n + 2] \in Seq(S)
      OBVIOUS
    <3>1. f[n + 1] \in Seq(S) /\ parts[n + 2] \in Seq(S)
      BY <2>5
    <3>2. f[n + 2] = f[n + 1] \o parts[n + 2]
      <4>1. n + 2 \in 1 .. Len(parts) /\ n + 2 # 1 /\ (n + 2) - 1 = n + 1
        BY <2>5
      <4>2. f[n + 2] = IF n + 2 = 1 THEN parts[n + 2] ELSE f[(n + 2) - 1] \o parts[n + 2]
        BY <2>3, <4>1
      <4> QED
        BY <4>1, <4>2
    <3> QED
      BY <3>1, <3>2
  <2>6. N = Nat
    <3> HIDE DEF N
    <3>1. N \in SUBSET Nat
      BY DEF N
    <3> QED
      BY <2>4, <2>5, <3>1, Induction
  <2>7. Len(parts) - 1 \in Nat /\ (Len(parts) - 1) + 1 = Len(parts)
    BY <1>2
  <2>8. Len(parts) - 1 \in N
    <3> HIDE DEF N
    <3> QED
      BY <2>6, <2>7
  <2> QED
    BY <2>2, <2>7, <2>8
<1> QED
  BY <1>1, <1>2

LEMMA Associative ==
  ASSUME NEW S, NEW a \in Seq(S), NEW b \in Seq(S), NEW c \in Seq(S)
  PROVE  (a \o b) \o c = a \o (b \o c)
  OBVIOUS

(* What FlattenSeq has computed after some parts depends on no others.      *)
Accumulates(f, parts) ==
  \A i \in 1 .. Len(parts) : f[i] = IF i = 1 THEN parts[i] ELSE f[i - 1] \o parts[i]

Begins(parts, more) ==
  Len(parts) <= Len(more) /\ \A i \in 1 .. Len(parts) : parts[i] = more[i]

LEMMA FlattenSeqIs ==
  ASSUME NEW S, NEW parts \in Seq(Seq(S)), Len(parts) # 0
  PROVE  \E f : Accumulates(f, parts) /\ FlattenSeq(parts) = f[Len(parts)]
<1> DEFINE f == CHOOSE g : Flattening(g, parts, Len(parts))
<1>1. Flattening(f, parts, Len(parts))
  BY FlatteningExists
<1>2. FlattenSeq(parts) = f[Len(parts)]
  BY DEF FlattenSeq, Flattening
<1> HIDE DEF f
<1>3. Accumulates(f, parts)
  BY <1>1 DEF Flattening, Accumulates
<1> QED
  BY <1>2, <1>3

LEMMA AccumulationsAgree ==
  ASSUME NEW S, NEW parts \in Seq(Seq(S)), NEW more \in Seq(Seq(S)), Begins(parts, more),
         NEW f, NEW g, Accumulates(f, parts), Accumulates(g, more)
  PROVE  \A i \in 1 .. Len(parts) : f[i] = g[i]
<1>0. Len(parts) <= Len(more) /\ \A i \in 1 .. Len(parts) : parts[i] = more[i]
  BY DEF Begins
<1> DEFINE N == {n \in Nat : n + 1 <= Len(parts) => f[n + 1] = g[n + 1]}
<1>1. 0 \in N
  <2> SUFFICES ASSUME 1 <= Len(parts) PROVE f[1] = g[1]
    OBVIOUS
  <2>1. 1 \in 1 .. Len(parts) /\ 1 \in 1 .. Len(more)
    BY <1>0
  <2> QED
    BY <1>0, <2>1 DEF Accumulates
<1>2. ASSUME NEW n \in N PROVE n + 1 \in N
  <2> SUFFICES ASSUME n + 2 <= Len(parts) PROVE f[n + 2] = g[n + 2]
    OBVIOUS
  <2>1. f[n + 1] = g[n + 1]
    BY <1>2
  <2>2. n + 2 \in 1 .. Len(parts) /\ n + 2 \in 1 .. Len(more) /\ n + 2 # 1 /\ (n + 2) - 1 = n + 1
    BY <1>0, <1>2
  <2>3. /\ f[n + 2] = IF n + 2 = 1 THEN parts[n + 2] ELSE f[(n + 2) - 1] \o parts[n + 2]
        /\ g[n + 2] = IF n + 2 = 1 THEN more[n + 2] ELSE g[(n + 2) - 1] \o more[n + 2]
    BY <2>2 DEF Accumulates
  <2> QED
    BY <1>0, <2>1, <2>2, <2>3
<1>3. N = Nat
  <2> HIDE DEF N
  <2>1. N \in SUBSET Nat
    BY DEF N
  <2> QED
    BY <1>1, <1>2, <2>1, Induction
<1> SUFFICES ASSUME NEW i \in 1 .. Len(parts) PROVE f[i] = g[i]
  OBVIOUS
<1>4. i - 1 \in Nat /\ (i - 1) + 1 = i /\ i <= Len(parts)
  OBVIOUS
<1>5. i - 1 \in N
  <2> HIDE DEF N
  <2> QED
    BY <1>3, <1>4
<1> QED
  BY <1>4, <1>5

LEMMA FlattenAppend ==
  ASSUME NEW S, NEW parts \in Seq(Seq(S)), NEW part \in Seq(S)
  PROVE  FlattenSeq(Append(parts, part)) = FlattenSeq(parts) \o part
<1> DEFINE more == Append(parts, part)
<1>1. more \in Seq(Seq(S)) /\ Len(more) = Len(parts) + 1 /\ Len(parts) \in Nat
  OBVIOUS
<1>2. (\A i \in 1 .. Len(parts) : parts[i] = more[i]) /\ more[Len(more)] = part
  OBVIOUS
<1> HIDE DEF more
<1>3. PICK g : Accumulates(g, more) /\ FlattenSeq(more) = g[Len(more)]
  BY <1>1, FlattenSeqIs
<1>4. Len(more) \in 1 .. Len(more) /\ Len(more) - 1 = Len(parts)
  BY <1>1
<1>5. CASE Len(parts) = 0
  <2>1. FlattenSeq(parts) = <<>>
    BY <1>5 DEF FlattenSeq
  <2>2. FlattenSeq(more) = part
    BY <1>1, <1>2, <1>3, <1>4, <1>5 DEF Accumulates
  <2> QED
    BY <2>1, <2>2 DEF more
<1>6. CASE Len(parts) # 0
  <2>1. PICK f : Accumulates(f, parts) /\ FlattenSeq(parts) = f[Len(parts)]
    BY <1>6, FlattenSeqIs
  <2>2. Len(parts) \in 1 .. Len(parts)
    BY <1>1, <1>6
  <2>3. f[Len(parts)] = g[Len(parts)]
    <3>1. Begins(parts, more)
      BY <1>1, <1>2 DEF Begins
    <3>2. \A i \in 1 .. Len(parts) : f[i] = g[i]
      BY <1>1, <1>3, <2>1, <3>1, AccumulationsAgree
    <3> QED
      BY <2>2, <3>2
  <2>4. g[Len(more)] = g[Len(parts)] \o part
    <3>1. g[Len(more)] = IF Len(more) = 1 THEN more[Len(more)] ELSE g[Len(more) - 1] \o more[Len(more)]
      BY <1>3, <1>4 DEF Accumulates
    <3>2. Len(more) # 1
      BY <1>1, <1>6
    <3> QED
      BY <1>2, <1>4, <3>1, <3>2
  <2> QED
    BY <1>3, <2>1, <2>3, <2>4 DEF more
<1> QED
  BY <1>5, <1>6

LEMMA FlattenFew ==
  ASSUME NEW S
  PROVE  FlattenSeq(<<>>) = <<>> /\ \A part \in Seq(S) : FlattenSeq(<<part>>) = part
<1>1. FlattenSeq(<<>>) = <<>>
  BY DEF FlattenSeq
<1>2. ASSUME NEW part \in Seq(S) PROVE FlattenSeq(<<part>>) = part
  <2>1. <<>> \in Seq(Seq(S)) /\ <<part>> = Append(<<>>, part)
    OBVIOUS
  <2>2. FlattenSeq(<<part>>) = <<>> \o part
    BY <1>1, <2>1, FlattenAppend
  <2> QED
    BY <2>2
<1> QED
  BY <1>1, <1>2

LEMMA AssociativeParts ==
  ASSUME NEW S, NEW s \in Seq(Seq(S)), NEW t \in Seq(Seq(S)), NEW u \in Seq(S)
  PROVE  (FlattenSeq(s) \o FlattenSeq(t)) \o u = FlattenSeq(s) \o (FlattenSeq(t) \o u)
<1> DEFINE a == FlattenSeq(s)
           b == FlattenSeq(t)
<1>1. a \in Seq(S) /\ b \in Seq(S)
  BY FlattenSeqType
<1> HIDE DEF a, b
<1>2. (a \o b) \o u = a \o (b \o u)
  BY <1>1
<1> QED
  BY <1>2 DEF a, b

Joins(s, t) == FlattenSeq(s \o t) = FlattenSeq(s) \o FlattenSeq(t)

LEMMA FlattenOneMore ==
  ASSUME NEW S, NEW s \in Seq(Seq(S)), NEW v \in Seq(Seq(S)), NEW e \in Seq(S), Joins(s, v)
  PROVE  Joins(s, Append(v, e))
<1>1. s \o v \in Seq(Seq(S)) /\ s \o Append(v, e) = Append(s \o v, e)
  OBVIOUS
<1>2. FlattenSeq(Append(s \o v, e)) = FlattenSeq(s \o v) \o e
  BY <1>1, FlattenAppend
<1>3. FlattenSeq(Append(v, e)) = FlattenSeq(v) \o e
  BY FlattenAppend
<1>4. (FlattenSeq(s) \o FlattenSeq(v)) \o e = FlattenSeq(s) \o (FlattenSeq(v) \o e)
  BY AssociativeParts
<1> QED
  BY <1>1, <1>2, <1>3, <1>4 DEF Joins

(* FlattenSeq of two sequences of parts.                                    *)
LEMMA FlattenConcat ==
  ASSUME NEW S, NEW s \in Seq(Seq(S)), NEW t \in Seq(Seq(S))
  PROVE  FlattenSeq(s \o t) = FlattenSeq(s) \o FlattenSeq(t)
<1> DEFINE N == {n \in Nat : \A u \in Seq(Seq(S)) : Len(u) = n => Joins(s, u)}
<1>1. 0 \in N
  <2> SUFFICES ASSUME NEW u \in Seq(Seq(S)), Len(u) = 0 PROVE Joins(s, u)
    OBVIOUS
  <2>1. u = <<>> /\ s \o u = s /\ FlattenSeq(s) \in Seq(S)
    BY FlattenSeqType
  <2>2. FlattenSeq(u) = <<>>
    BY <2>1, FlattenFew
  <2> QED
    BY <2>1, <2>2 DEF Joins
<1>2. ASSUME NEW n \in N PROVE n + 1 \in N
  <2> SUFFICES ASSUME NEW u \in Seq(Seq(S)), Len(u) = n + 1 PROVE Joins(s, u)
    OBVIOUS
  <2>1. u # <<>>
    BY <1>2
  <2>2. PICK v \in Seq(Seq(S)), e \in Seq(S) : u = Append(v, e)
    BY <2>1, SequenceEmptyOrAppend
  <2>3. Len(v) = n /\ Joins(s, v)
    BY <1>2, <2>2
  <2>4. Joins(s, Append(v, e))
    BY <2>3, FlattenOneMore
  <2> QED
    BY <2>2, <2>4
<1>3. N = Nat
  <2> HIDE DEF N
  <2>1. N \in SUBSET Nat
    BY DEF N
  <2> QED
    BY <1>1, <1>2, <2>1, Induction
<1>4. Len(t) \in N
  <2> HIDE DEF N
  <2>1. Len(t) \in Nat
    OBVIOUS
  <2> QED
    BY <1>3, <2>1
<1> QED
  BY <1>4 DEF Joins

-----------------------------------------------------------------------------
(* Emissions.                                                               *)

(* The divisions of the first n units, by the divisions of fewer.           *)
WithLast(shorter, units, k, n) == {Append(bytes, SubSeq(units, k + 1, n)) : bytes \in shorter}

Divided(f, units, ending, n) ==
  IF n = 0 THEN {<<>>} ELSE UNION {WithLast(f[k], units, k, n) : k \in Cuts(units, ending, n)}

Dividing(f, units, ending, n) == f = [m \in 0 .. n |-> Divided(f, units, ending, m)]

LEMMA DividingExists ==
  ASSUME NEW units, NEW ending
  PROVE  \A n \in Nat : \E f : Dividing(f, units, ending, n)
<1> DEFINE N == {n \in Nat : \E f : Dividing(f, units, ending, n)}
<1>1. 0 \in N
  <2>1. Dividing([m \in 0 .. 0 |-> {<<>>}], units, ending, 0)
    BY DEF Dividing, Divided
  <2> QED
    BY <2>1
<1>2. ASSUME NEW n \in N PROVE n + 1 \in N
  <2>1. n \in Nat
    OBVIOUS
  <2>2. PICK f : Dividing(f, units, ending, n)
    BY <1>2
  <2> DEFINE g == [m \in 0 .. n + 1 |-> Divided(f, units, ending, m)]
  <2>3. \A m \in 0 .. n : f[m] = g[m]
    BY <2>1, <2>2 DEF Dividing
  <2>4. ASSUME NEW m \in 0 .. n + 1
        PROVE  Divided(f, units, ending, m) = Divided(g, units, ending, m)
    <3>1. \A k \in Cuts(units, ending, m) : f[k] = g[k]
      <4>1. \A k \in Cuts(units, ending, m) : k \in 0 .. n
        BY <2>1 DEF Cuts
      <4> HIDE DEF g
      <4> QED
        BY <2>3, <4>1
    <3> HIDE DEF g
    <3> QED
      BY <3>1 DEF Divided
  <2>5. Dividing(g, units, ending, n + 1)
    <3>1. g = [m \in 0 .. n + 1 |-> Divided(g, units, ending, m)]
      BY <2>4
    <3> HIDE DEF g
    <3> QED
      BY <3>1 DEF Dividing
  <2> QED
    <3> HIDE DEF g
    <3> QED
      BY <2>1, <2>5
<1>3. N = Nat
  <2> HIDE DEF N
  <2>1. N \in SUBSET Nat
    BY DEF N
  <2> QED
    BY <1>1, <1>2, <2>1, Induction
<1> QED
  BY <1>3

LEMMA DivisionsAre ==
  ASSUME NEW S, NEW units \in Seq(S), NEW ending
  PROVE  \A n \in 0 .. Len(units) :
           Divisions(units, ending)[n] = Divided(Divisions(units, ending), units, ending, n)
<1> DEFINE f == CHOOSE g : Dividing(g, units, ending, Len(units))
<1>1. Dividing(f, units, ending, Len(units))
  BY DividingExists
<1>2. Divisions(units, ending) = f
  BY DEF Divisions, Dividing, Divided, WithLast
<1> HIDE DEF f
<1> QED
  BY <1>1, <1>2 DEF Dividing

(* No byte of a stream is without a unit.                                   *)
Bytes(S) == Seq(Seq(S) \ {<<>>})

LEMMA BytesAreParts ==
  ASSUME NEW S, NEW bytes \in Bytes(S)
  PROVE  bytes \in Seq(Seq(S)) /\ \A k \in 1 .. Len(bytes) : bytes[k] \in Seq(S) \ {<<>>}
  BY DEF Bytes

(* A division puts all its units into bytes, in their order.                *)
Divides(bytes, S, units, n) == bytes \in Bytes(S) /\ FlattenSeq(bytes) = SubSeq(units, 1, n)

LEMMA DividesOneMore ==
  ASSUME NEW S, NEW units \in Seq(S), NEW n \in 1 .. Len(units), NEW k \in 0 .. n - 1,
         NEW bytes, Divides(bytes, S, units, k)
  PROVE  Divides(Append(bytes, SubSeq(units, k + 1, n)), S, units, n)
<1> DEFINE last == SubSeq(units, k + 1, n)
<1>1. last \in Seq(S) \ {<<>>}
  OBVIOUS
<1>2. bytes \in Bytes(S) /\ bytes \in Seq(Seq(S)) /\ FlattenSeq(bytes) = SubSeq(units, 1, k)
  BY BytesAreParts DEF Divides
<1>3. SubSeq(units, 1, k) \o last = SubSeq(units, 1, n)
  OBVIOUS
<1> HIDE DEF last
<1>4. Append(bytes, last) \in Bytes(S)
  BY <1>1, <1>2 DEF Bytes
<1>5. FlattenSeq(Append(bytes, last)) = FlattenSeq(bytes) \o last
  BY <1>1, <1>2, FlattenAppend
<1> QED
  BY <1>2, <1>3, <1>4, <1>5 DEF Divides, last

LEMMA DivisionsDivide ==
  ASSUME NEW S, NEW units \in Seq(S), NEW ending
  PROVE  \A n \in 0 .. Len(units) : \A bytes \in Divisions(units, ending)[n] :
           Divides(bytes, S, units, n)
<1> DEFINE f == Divisions(units, ending)
           Good(n) == \A bytes \in f[n] : Divides(bytes, S, units, n)
           N == {n \in Nat : \A m \in 0 .. n : m <= Len(units) => Good(m)}
<1>0. \A n \in 0 .. Len(units) : f[n] = Divided(f, units, ending, n)
  BY DivisionsAre
<1> HIDE DEF f
<1>1. 0 \in N
  <2>1. f[0] = {<<>>}
    <3>1. 0 \in 0 .. Len(units)
      OBVIOUS
    <3> QED
      BY <1>0, <3>1 DEF Divided
  <2>2. Divides(<<>>, S, units, 0)
    <3>1. <<>> \in Bytes(S) /\ SubSeq(units, 1, 0) = <<>>
      BY DEF Bytes
    <3> QED
      BY <3>1, FlattenFew DEF Divides
  <2> QED
    BY <2>1, <2>2
<1>2. ASSUME NEW n \in N PROVE n + 1 \in N
  <2>1. n \in Nat
    OBVIOUS
  <2> SUFFICES ASSUME n + 1 <= Len(units), NEW bytes \in f[n + 1]
               PROVE  Divides(bytes, S, units, n + 1)
    <3>1. \A m \in 0 .. n + 1 : m \in 0 .. n \/ m = n + 1
      BY <2>1
    <3> QED
      BY <2>1, <3>1
  <2>2. f[n + 1] = Divided(f, units, ending, n + 1)
    BY <1>0, <2>1
  <2>3. PICK k \in Cuts(units, ending, n + 1) :
          \E b \in f[k] : bytes = Append(b, SubSeq(units, k + 1, n + 1))
    <3>1. f[n + 1] = UNION {WithLast(f[k], units, k, n + 1) : k \in Cuts(units, ending, n + 1)}
      BY <2>1, <2>2 DEF Divided
    <3>2. PICK k \in Cuts(units, ending, n + 1) : bytes \in WithLast(f[k], units, k, n + 1)
      BY <3>1
    <3> QED
      BY <3>2 DEF WithLast
  <2>10. PICK b \in f[k] : bytes = Append(b, SubSeq(units, k + 1, n + 1))
    BY <2>3
  <2>4. k \in 0 .. n
    BY <2>1 DEF Cuts
  <2>5. Good(k)
    BY <1>2, <2>1, <2>4
  <2>6. Divides(b, S, units, k)
    BY <2>5
  <2>7. n + 1 \in 1 .. Len(units) /\ k \in 0 .. (n + 1) - 1
    BY <2>1, <2>4
  <2> HIDE DEF N, Good
  <2> QED
    BY <2>10, <2>6, <2>7, DividesOneMore
<1>3. N = Nat
  <2> HIDE DEF N
  <2>1. N \in SUBSET Nat
    BY DEF N
  <2> QED
    BY <1>1, <1>2, <2>1, Induction
<1>4. Len(units) \in N
  <2>1. Len(units) \in Nat
    OBVIOUS
  <2> HIDE DEF N
  <2> QED
    BY <1>3, <2>1
<1> QED
  BY <1>4 DEF f

(* Beginnings and ends of sequences.                                        *)
LEMMA FirstAndAfter ==
  ASSUME NEW S, NEW s \in Seq(S), NEW n \in 0 .. Len(s)
  PROVE  /\ FirstOf(s, n) \in Seq(S) /\ Len(FirstOf(s, n)) = n
         /\ After(s, n) \in Seq(S) /\ Len(After(s, n)) = Len(s) - n
         /\ FirstOf(s, n) \o After(s, n) = s
<1>1. FirstOf(s, n) \in Seq(S) /\ Len(FirstOf(s, n)) = n
  BY DEF FirstOf
<1>2. After(s, n) \in Seq(S) /\ Len(After(s, n)) = Len(s) - n
  BY DEF After
<1>3. SubSeq(s, 1, n) \o SubSeq(s, n + 1, Len(s)) = SubSeq(s, 1, Len(s))
  <2>1. 1 \in 1 .. Len(s) + 1 /\ n \in 1 - 1 .. Len(s) /\ Len(s) \in n .. Len(s)
    OBVIOUS
  <2> QED
    BY <2>1, ConcatAdjacentSubSeq
<1>4. SubSeq(s, 1, Len(s)) = s
  OBVIOUS
<1> QED
  BY <1>1, <1>2, <1>3, <1>4 DEF FirstOf, After

(* What a call puts out and what it holds back are what it had taken.       *)
LEMMA EmissionIs ==
  ASSUME NEW S, NEW units \in Seq(S), NEW space \in Nat, NEW ending,
         NEW e \in Emissions(units, space, ending)
  PROVE  /\ e.bytes \in Bytes(S) /\ Len(e.bytes) <= space
         /\ e.rest \in Seq(S)
         /\ FlattenSeq(e.bytes) \o e.rest = units
<1>0. PICK n \in 0 .. Len(units) : \E b \in Divisions(units, ending)[n] :
        Len(b) <= space /\ e = [bytes |-> b, rest |-> After(units, n)]
  BY DEF Emissions
<1>1. PICK b \in Divisions(units, ending)[n] :
        Len(b) <= space /\ e = [bytes |-> b, rest |-> After(units, n)]
  BY <1>0
<1>2. b \in Bytes(S) /\ FlattenSeq(b) = SubSeq(units, 1, n)
  BY DivisionsDivide DEF Divides
<1>3. SubSeq(units, 1, n) \o After(units, n) = units /\ After(units, n) \in Seq(S)
  BY FirstAndAfter DEF FirstOf
<1> QED
  BY <1>1, <1>2, <1>3

-----------------------------------------------------------------------------
(* Streams of bytes.                                                        *)

(* One part for each element, or none.                                      *)
LEMMA FlattenSingles ==
  ASSUME NEW S, NEW s \in Seq(S)
  PROVE  FlattenSeq([k \in 1 .. Len(s) |-> <<s[k]>>]) = s
<1> DEFINE Singles(t) == [k \in 1 .. Len(t) |-> <<t[k]>>]
           N == {n \in Nat : \A t \in Seq(S) : Len(t) = n => FlattenSeq(Singles(t)) = t}
<1>1. 0 \in N
  <2> SUFFICES ASSUME NEW t \in Seq(S), Len(t) = 0 PROVE FlattenSeq(Singles(t)) = t
    OBVIOUS
  <2>1. t = <<>> /\ Singles(t) = <<>>
    OBVIOUS
  <2>2. FlattenSeq(<<>>) = <<>>
    BY FlattenFew
  <2> HIDE DEF Singles
  <2> QED
    BY <2>1, <2>2
<1>2. ASSUME NEW n \in N PROVE n + 1 \in N
  <2> SUFFICES ASSUME NEW t \in Seq(S), Len(t) = n + 1 PROVE FlattenSeq(Singles(t)) = t
    OBVIOUS
  <2>1. t # <<>>
    BY <1>2
  <2>2. PICK u \in Seq(S), e \in S : t = Append(u, e)
    BY <2>1, SequenceEmptyOrAppend
  <2>3. FlattenSeq(Singles(u)) = u
    BY <1>2, <2>2
  <2>4. Singles(u) \in Seq(Seq(S)) /\ <<e>> \in Seq(S)
    OBVIOUS
  <2>5. Singles(t) = Append(Singles(u), <<e>>)
    BY <2>2
  <2>6. u \o <<e>> = Append(u, e)
    OBVIOUS
  <2> HIDE DEF Singles
  <2> QED
    BY <2>2, <2>3, <2>4, <2>5, <2>6, FlattenAppend
<1>3. N = Nat
  <2> HIDE DEF N
  <2>1. N \in SUBSET Nat
    BY DEF N
  <2> QED
    BY <1>1, <1>2, <2>1, Induction
<1>4. Len(s) \in N
  <2> HIDE DEF N
  <2>1. Len(s) \in Nat
    OBVIOUS
  <2> QED
    BY <1>3, <2>1
<1> QED
  BY <1>4

(* The first unit of a stream is the first of its first byte.               *)
LEMMA FirstUnit ==
  ASSUME NEW S, NEW bytes \in Bytes(S), bytes # <<>>
  PROVE  FlattenSeq(bytes) # <<>> /\ FlattenSeq(bytes)[1] = bytes[1][1]
<1>1. bytes \in Seq(Seq(S)) /\ bytes[1] \in Seq(S) \ {<<>>}
  BY BytesAreParts
<1>2. bytes = <<bytes[1]>> \o Tail(bytes) /\ <<bytes[1]>> \in Seq(Seq(S)) /\ Tail(bytes) \in Seq(Seq(S))
  BY <1>1
<1>3. FlattenSeq(bytes) = FlattenSeq(<<bytes[1]>>) \o FlattenSeq(Tail(bytes))
  BY <1>2, FlattenConcat
<1>4. FlattenSeq(<<bytes[1]>>) = bytes[1] /\ FlattenSeq(Tail(bytes)) \in Seq(S)
  BY <1>1, <1>2, FlattenFew, FlattenSeqType
<1>5. ASSUME NEW a \in Seq(S) \ {<<>>}, NEW b \in Seq(S)
      PROVE  a \o b # <<>> /\ (a \o b)[1] = a[1]
  OBVIOUS
<1> QED
  BY <1>1, <1>3, <1>4, <1>5

(* The last unit of a stream is in every end of it.                         *)
LEMMA LastUnit ==
  ASSUME NEW S, NEW a \in Bytes(S), NEW b \in Bytes(S), b # <<>>
  PROVE  LET all == FlattenSeq(a \o b) IN all # <<>> /\ all[Len(all)] \in ToSet(FlattenSeq(b))
<1>1. a \in Seq(Seq(S)) /\ b \in Seq(Seq(S))
  BY BytesAreParts
<1>2. FlattenSeq(a \o b) = FlattenSeq(a) \o FlattenSeq(b)
  BY <1>1, FlattenConcat
<1>3. FlattenSeq(b) # <<>>
  BY FirstUnit
<1>4. FlattenSeq(a) \in Seq(S) /\ FlattenSeq(b) \in Seq(S)
  BY <1>1, FlattenSeqType
<1>5. ASSUME NEW x \in Seq(S), NEW y \in Seq(S), y # <<>>
      PROVE  x \o y # <<>> /\ (x \o y)[Len(x \o y)] \in ToSet(y)
  <2>1. Len(x \o y) = Len(x) + Len(y) /\ Len(y) \in DOMAIN y /\ x \o y # <<>>
    BY <1>5
  <2>2. (x \o y)[Len(x \o y)] = y[Len(y)]
    BY <1>5, <2>1
  <2> QED
    BY <2>1, <2>2 DEF ToSet
<1> QED
  BY <1>2, <1>3, <1>4, <1>5

LEMMA BeginningIs ==
  ASSUME NEW S, NEW s \in Seq(S), NEW t \in Seq(S), Len(s) = Len(s \o t)
  PROVE  t = <<>>
  OBVIOUS

LEMMA ConcatIs ==
  ASSUME NEW S, NEW s \in Seq(S), NEW t \in Seq(S)
  PROVE  s \o t = [k \in 1 .. Len(s) + Len(t) |-> IF k <= Len(s) THEN s[k] ELSE t[k - Len(s)]]
<1> DEFINE both == s \o t
<1>1. both \in Seq(S) /\ Len(both) = Len(s) + Len(t)
  OBVIOUS
<1>2. \A k \in 1 .. Len(s) + Len(t) : both[k] = IF k <= Len(s) THEN s[k] ELSE t[k - Len(s)]
  BY ConcatProperties
<1> HIDE DEF both
<1>3. both = [k \in 1 .. Len(both) |-> both[k]]
  BY <1>1
<1> QED
  BY <1>1, <1>2, <1>3 DEF both

(* What is left of a window on a sequence, and what was before it.          *)
Moves(s, n, m, t) ==
  /\ Len(SubSeq(s, n + 1, m)) = m - n
  /\ FirstOf(s, n) \o FirstOf(SubSeq(s, n + 1, m), t) = FirstOf(s, n + t)
  /\ After(SubSeq(s, n + 1, m), t) = SubSeq(s, n + t + 1, m)

LEMMA WindowMoves ==
  ASSUME NEW S, NEW s \in Seq(S), NEW n \in 0 .. Len(s), NEW m \in n .. Len(s), NEW t \in 0 .. m - n
  PROVE  Moves(s, n, m, t)
<1>1. SubSeq(s, n + 1, m) \in Seq(S) /\ Len(SubSeq(s, n + 1, m)) = m - n
  OBVIOUS
<1>2. SubSeq(s, n + 1, m) = [i \in 1 .. m - n |-> s[n + i]]
  OBVIOUS
<1>3. FirstOf(SubSeq(s, n + 1, m), t) = [i \in 1 .. t |-> s[n + i]]
  BY DEF FirstOf
<1>4. After(SubSeq(s, n + 1, m), t) = SubSeq(s, n + t + 1, m)
  BY DEF After
<1>5. FirstOf(s, n) \o FirstOf(SubSeq(s, n + 1, m), t) = FirstOf(s, n + t)
  BY DEF FirstOf
<1> QED
  BY <1>1, <1>4, <1>5 DEF Moves

LEMMA BytesType ==
  ASSUME NEW S
  PROVE  /\ <<>> \in Bytes(S)
         /\ \A a \in Bytes(S), b \in Bytes(S) : a \o b \in Bytes(S)
         /\ \A a \in Bytes(S), b \in Seq(S) \ {<<>>} : Append(a, b) \in Bytes(S)
         /\ \A a \in Bytes(S), n \in Nat : n <= Len(a) => FirstOf(a, n) \in Bytes(S) /\ After(a, n) \in Bytes(S)
  BY DEF Bytes, FirstOf, After

LEMMA WindowType ==
  ASSUME NEW S, NEW a \in Bytes(S), NEW n \in 1 .. Len(a) + 1, NEW m \in 0 .. Len(a)
  PROVE  SubSeq(a, n, m) \in Bytes(S)
  BY DEF Bytes

LEMMA FirstOfAll ==
  ASSUME NEW S, NEW s \in Seq(S)
  PROVE  FirstOf(s, Len(s)) = s
  BY DEF FirstOf

(* Units that go from one place to the next keep their order.               *)
Passes(b, r, e, f) == b \o r = e \o f

Kept(a, b, r, e, f, t) == (a \o b) \o (r \o t) = a \o (e \o (f \o t))

(* Three in a row, as a fact of its own: where it is used, the provers find *)
(* too many ways to apply the equation.                                     *)
Regroups(a, b, c) == (a \o b) \o c = a \o (b \o c)

LEMMA Regroup ==
  ASSUME NEW S, NEW a \in Seq(S), NEW b \in Seq(S), NEW c \in Seq(S)
  PROVE  Regroups(a, b, c)
  BY Associative DEF Regroups

LEMMA OrderIsKept ==
  ASSUME NEW S, NEW a \in Seq(S), NEW b \in Seq(S), NEW r \in Seq(S), NEW e \in Seq(S),
         NEW f \in Seq(S), NEW t \in Seq(S), Passes(b, r, e, f)
  PROVE  Kept(a, b, r, e, f, t)
<1>1. r \o t \in Seq(S)
  OBVIOUS
<1>2. Regroups(a, b, r \o t) /\ Regroups(b, r, t) /\ Regroups(e, f, t)
  BY <1>1, Regroup
<1> QED
  BY <1>2 DEF Kept, Passes, Regroups

-----------------------------------------------------------------------------
(* SumFunctionOnSet.                                                        *)

(* The element that the sum over s takes first.                             *)
First(s) == CHOOSE x \in s : TRUE

Summed(g, f, s) == IF s = {} THEN 0 ELSE f[First(s)] + g[s \ {First(s)}]

(* g is what SumFunctionOnSet computes on the way to the sum over S.        *)
Summing(g, f, S) == g = [s \in SUBSET S |-> Summed(g, f, s)]
Sums(g, f, S)    == \A s \in SUBSET S : g[s] = Summed(g, f, s)

LEMMA FirstIn ==
  ASSUME NEW s, IsFiniteSet(s), s # {}
  PROVE  /\ First(s) \in s /\ IsFiniteSet(s \ {First(s)})
         /\ Cardinality(s) \in Nat \ {0}
         /\ Cardinality(s \ {First(s)}) = Cardinality(s) - 1
<1>1. First(s) \in s
  BY DEF First
<1> QED
  BY <1>1, FS_RemoveElement, FS_CardinalityType, FS_EmptySet

LEMMA SummingExists ==
  ASSUME NEW D, NEW f \in [D -> Nat], NEW S \in SUBSET D, IsFiniteSet(S)
  PROVE  \E g \in [SUBSET S -> Nat] : Summing(g, f, S)
<1> DEFINE Small(n) == {s \in SUBSET S : Cardinality(s) <= n}
           Good(n) == \E g \in [Small(n) -> Nat] : \A s \in Small(n) : g[s] = Summed(g, f, s)
           N == {n \in Nat : Good(n)}
<1>0. \A s \in SUBSET S : IsFiniteSet(s) /\ Cardinality(s) \in Nat
  BY FS_Subset, FS_CardinalityType
<1>1. 0 \in N
  <2> DEFINE g == [s \in Small(0) |-> 0]
  <2>1. \A s \in Small(0) : s = {}
    BY <1>0, FS_EmptySet
  <2>2. g \in [Small(0) -> Nat] /\ \A s \in Small(0) : g[s] = Summed(g, f, s)
    BY <2>1 DEF Summed
  <2> QED
    BY <2>2
<1>2. ASSUME NEW n \in N PROVE n + 1 \in N
  <2>1. n \in Nat /\ Good(n)
    OBVIOUS
  <2>2. PICK g \in [Small(n) -> Nat] : \A s \in Small(n) : g[s] = Summed(g, f, s)
    BY <2>1
  <2> DEFINE h == [s \in Small(n + 1) |-> IF s \in Small(n) THEN g[s] ELSE Summed(g, f, s)]
  <2>3. ASSUME NEW s \in Small(n + 1), s # {}
        PROVE  First(s) \in D /\ s \ {First(s)} \in Small(n) /\ s \ {First(s)} \in Small(n + 1)
    BY <1>0, <2>1, <2>3, FirstIn
  <2>4. h \in [Small(n + 1) -> Nat]
    <3>1. ASSUME NEW s \in Small(n + 1) PROVE Summed(g, f, s) \in Nat
      <4>1. CASE s = {}
        BY <4>1 DEF Summed
      <4>2. CASE s # {}
        <5>1. f[First(s)] \in Nat /\ g[s \ {First(s)}] \in Nat
          BY <2>2, <2>3, <4>2
        <5> QED
          BY <4>2, <5>1 DEF Summed
      <4> QED
        BY <4>1, <4>2
    <3> QED
      BY <2>2, <3>1
  <2>5. ASSUME NEW s \in Small(n + 1) PROVE h[s] = Summed(h, f, s)
    <3>1. h[s] = Summed(g, f, s)
      BY <2>2
    <3>2. CASE s = {}
      BY <3>1, <3>2 DEF Summed
    <3>3. CASE s # {}
      <4>1. h[s \ {First(s)}] = g[s \ {First(s)}]
        BY <2>3, <3>3
      <4> QED
        BY <3>1, <3>3, <4>1 DEF Summed
    <3> QED
      BY <3>2, <3>3
  <2>6. Good(n + 1)
    <3> HIDE DEF h
    <3> QED
      BY <2>4, <2>5
  <2> QED
    <3> HIDE DEF Good
    <3> QED
      BY <2>1, <2>6
<1>3. N = Nat
  <2> HIDE DEF N
  <2>1. N \in SUBSET Nat
    BY DEF N
  <2> QED
    BY <1>1, <1>2, <2>1, Induction
<1>4. Cardinality(S) \in Nat /\ Small(Cardinality(S)) = SUBSET S
  BY <1>0, FS_Subset
<1>5. Good(Cardinality(S))
  <2> HIDE DEF Good
  <2> QED
    BY <1>3, <1>4
<1>6. PICK g \in [SUBSET S -> Nat] : \A s \in SUBSET S : g[s] = Summed(g, f, s)
  BY <1>4, <1>5
<1>7. Summing(g, f, S)
  BY <1>6 DEF Summing
<1> QED
  BY <1>7

LEMMA SumIs ==
  ASSUME NEW D, NEW f \in [D -> Nat], NEW S \in SUBSET D, IsFiniteSet(S)
  PROVE  \E g : Sums(g, f, S) /\ SumFunctionOnSet(f, S) = g[S]
<1> DEFINE g == CHOOSE g : Summing(g, f, S)
<1>1. Summing(g, f, S)
  BY SummingExists
<1>2. SumFunctionOnSet(f, S) = g[S]
  BY DEF SumFunctionOnSet, FoldFunctionOnSet, MapThenFoldSet, Summing, Summed, First
<1> QED
  BY <1>1, <1>2 DEF Summing, Sums

(* However the sum over S is computed, that over a subset is the same.      *)
LEMMA SumsAgree ==
  ASSUME NEW f, NEW S, IsFiniteSet(S), NEW g, NEW h, Sums(g, f, S), Sums(h, f, S)
  PROVE  g[S] = h[S]
<1> DEFINE N == {n \in Nat : \A s \in SUBSET S : Cardinality(s) = n => g[s] = h[s]}
<1>0. \A s \in SUBSET S : IsFiniteSet(s) /\ Cardinality(s) \in Nat
  BY FS_Subset, FS_CardinalityType
<1>1. 0 \in N
  BY <1>0, FS_EmptySet DEF Sums, Summed
<1>2. ASSUME NEW n \in N PROVE n + 1 \in N
  <2> SUFFICES ASSUME NEW s \in SUBSET S, Cardinality(s) = n + 1
               PROVE  g[s] = h[s]
    OBVIOUS
  <2>1. s # {}
    BY FS_EmptySet
  <2>2. Cardinality(s \ {First(s)}) = n
    BY <1>0, <2>1, FirstIn
  <2>3. g[s \ {First(s)}] = h[s \ {First(s)}]
    BY <2>2
  <2> QED
    BY <2>1, <2>3 DEF Sums, Summed
<1>3. N = Nat
  <2> HIDE DEF N
  <2>1. N \in SUBSET Nat
    BY DEF N
  <2> QED
    BY <1>1, <1>2, <2>1, Induction
<1> QED
  BY <1>0, <1>3

(* A sum adds the element First chooses to the sum over the others.         *)
LEMMA SumFirst ==
  ASSUME NEW D, NEW f \in [D -> Nat], NEW S \in SUBSET D, IsFiniteSet(S), S # {}
  PROVE  SumFunctionOnSet(f, S) = f[First(S)] + SumFunctionOnSet(f, S \ {First(S)})
<1> DEFINE T == S \ {First(S)}
<1>1. IsFiniteSet(T) /\ T \in SUBSET D
  BY FirstIn
<1>2. PICK g : Sums(g, f, S) /\ SumFunctionOnSet(f, S) = g[S]
  BY SumIs
<1>3. PICK h : Sums(h, f, T) /\ SumFunctionOnSet(f, T) = h[T]
  BY <1>1, SumIs
<1>4. g[T] = h[T]
  <2>1. Sums(g, f, T)
    BY <1>2 DEF Sums
  <2> HIDE DEF T
  <2> QED
    BY <1>1, <1>3, <2>1, SumsAgree
<1> QED
  BY <1>2, <1>3, <1>4 DEF Sums, Summed

(* A sum of numbers is a number, that over no elements is 0, and any        *)
(* element may be taken out of it.                                          *)
LEMMA SumAny ==
  ASSUME NEW D, NEW f \in [D -> Nat], IsFiniteSet(D)
  PROVE  \A S \in SUBSET D :
           /\ SumFunctionOnSet(f, S) \in Nat
           /\ S = {} => SumFunctionOnSet(f, S) = 0
           /\ \A x \in S : SumFunctionOnSet(f, S) = f[x] + SumFunctionOnSet(f, S \ {x})
<1> DEFINE Sum(S) == SumFunctionOnSet(f, S)
           Good(S) == Sum(S) \in Nat /\ \A x \in S : Sum(S) = f[x] + Sum(S \ {x})
           N == {n \in Nat : \A S \in SUBSET D : Cardinality(S) <= n => Good(S)}
<1>0. \A S \in SUBSET D : IsFiniteSet(S) /\ Cardinality(S) \in Nat
  BY FS_Subset, FS_CardinalityType
<1>a. Sum({}) = 0
  <2>1. PICK g : Sums(g, f, {}) /\ SumFunctionOnSet(f, {}) = g[{}]
    BY SumIs, FS_EmptySet
  <2> QED
    BY <2>1 DEF Sums, Summed
<1>b. \A S \in SUBSET D : S # {} => Sum(S) = f[First(S)] + Sum(S \ {First(S)})
  BY <1>0, SumFirst
<1> HIDE DEF Sum
<1>1. 0 \in N
  BY <1>0, <1>a, FS_EmptySet
<1>2. ASSUME NEW n \in N PROVE n + 1 \in N
  <2>0. n \in Nat /\ n + 1 \in Nat /\ \A S \in SUBSET D : Cardinality(S) <= n => Good(S)
    BY <1>2
  <2> SUFFICES ASSUME NEW S \in SUBSET D, Cardinality(S) = n + 1
               PROVE  Good(S)
    <3> HIDE DEF Good
    <3>1. ASSUME \A S \in SUBSET D : Cardinality(S) = n + 1 => Good(S) PROVE n + 1 \in N
      <4>1. \A S \in SUBSET D : Cardinality(S) <= n + 1 => Cardinality(S) <= n \/ Cardinality(S) = n + 1
        BY <1>0, <2>0
      <4> QED
        BY <2>0, <3>1, <4>1
    <3> QED
      BY <3>1
  <2>1. S # {} /\ IsFiniteSet(S)
    BY <1>0, FS_EmptySet
  <2>2. \A x \in S : Cardinality(S \ {x}) <= n /\ S \ {x} \in SUBSET D
    <3>1. ASSUME NEW x \in S PROVE Cardinality(S \ {x}) = n
      <4>1. Cardinality(S \ {x}) = Cardinality(S) - 1 /\ n \in Nat
        BY <2>1, FS_RemoveElement
      <4> QED
        BY <4>1
    <3> QED
      BY <3>1
  <2>3. \A x \in S : Good(S \ {x})
    BY <2>2
  <2>4. First(S) \in S /\ Sum(S) = f[First(S)] + Sum(S \ {First(S)})
    BY <1>b, <2>1, FirstIn
  <2>5. Sum(S) \in Nat
    BY <2>3, <2>4
  <2>6. ASSUME NEW x \in S PROVE Sum(S) = f[x] + Sum(S \ {x})
    <3>1. CASE x = First(S)
      BY <2>4, <3>1
    <3>2. CASE x # First(S)
      <4>1. Sum(S \ {x}) = f[First(S)] + Sum((S \ {x}) \ {First(S)})
        BY <2>3, <2>4, <3>2
      <4>2. Sum(S \ {First(S)}) = f[x] + Sum((S \ {First(S)}) \ {x})
        BY <2>3, <2>4, <3>2
      <4>3. (S \ {x}) \ {First(S)} = (S \ {First(S)}) \ {x}
        OBVIOUS
      <4>4. /\ f[x] \in Nat /\ f[First(S)] \in Nat
            /\ Sum((S \ {First(S)}) \ {x}) \in Nat
        <5>1. Good((S \ {First(S)}) \ {x})
          <6>1. (S \ {First(S)}) \ {x} \in SUBSET D
            OBVIOUS
          <6>2. Cardinality((S \ {First(S)}) \ {x}) <= n
            BY <1>0, <2>1, <2>2, <2>4, <3>2, FS_Subset
          <6> QED
            BY <1>2, <6>1, <6>2
        <5> QED
          BY <2>4, <5>1
      <4> QED
        BY <2>4, <4>1, <4>2, <4>3, <4>4
    <3> QED
      BY <3>1, <3>2
  <2> QED
    BY <2>5, <2>6
<1>3. N = Nat
  <2> HIDE DEF N
  <2>1. N \in SUBSET Nat
    BY DEF N
  <2> QED
    BY <1>1, <1>2, <2>1, Induction
<1>4. ASSUME NEW S \in SUBSET D PROVE Good(S)
  BY <1>0, <1>3
<1> QED
  BY <1>4, <1>a DEF Sum

-----------------------------------------------------------------------------
(* What follows for sums, by induction on finite sets.                      *)

LEMMA FiniteInduction ==
  ASSUME NEW D, IsFiniteSet(D), NEW P \in SUBSET (SUBSET D), {} \in P,
         \A S \in SUBSET D : S # {} /\ (\A x \in S : S \ {x} \in P) => S \in P
  PROVE  P = SUBSET D
<1> DEFINE N == {n \in Nat : \A S \in SUBSET D : Cardinality(S) = n => S \in P}
<1>0. \A S \in SUBSET D : IsFiniteSet(S) /\ Cardinality(S) \in Nat
  BY FS_Subset, FS_CardinalityType
<1>1. 0 \in N
  BY <1>0, FS_EmptySet
<1>2. ASSUME NEW n \in N PROVE n + 1 \in N
  <2> SUFFICES ASSUME NEW S \in SUBSET D, Cardinality(S) = n + 1
               PROVE  S \in P
    OBVIOUS
  <2>1. S # {} /\ IsFiniteSet(S) /\ n \in Nat
    BY <1>0, FS_EmptySet
  <2>2. ASSUME NEW x \in S PROVE S \ {x} \in P
    <3>1. Cardinality(S \ {x}) = Cardinality(S) - 1
      BY <2>1, FS_RemoveElement
    <3> QED
      BY <2>1, <3>1
  <2> QED
    BY <2>1, <2>2
<1>3. N = Nat
  <2> HIDE DEF N
  <2>1. N \in SUBSET Nat
    BY DEF N
  <2> QED
    BY <1>1, <1>2, <2>1, Induction
<1> QED
  BY <1>0, <1>3

(* Functions that agree on a set have the same sum over it.                 *)
LEMMA SumsEqual ==
  ASSUME NEW D, IsFiniteSet(D), NEW f \in [D -> Nat],
         NEW E, IsFiniteSet(E), NEW g \in [E -> Nat],
         NEW S \in SUBSET D, S \in SUBSET E, \A x \in S : f[x] = g[x]
  PROVE  SumFunctionOnSet(f, S) = SumFunctionOnSet(g, S)
<1> DEFINE P == {T \in SUBSET S : SumFunctionOnSet(f, T) = SumFunctionOnSet(g, T)}
<1>1. IsFiniteSet(S) /\ P \in SUBSET (SUBSET S)
  BY FS_Subset
<1>2. {} \in P
  BY SumAny
<1>3. ASSUME NEW T \in SUBSET S, T # {}, \A x \in T : T \ {x} \in P
      PROVE  T \in P
  <2>1. PICK x \in T : T \ {x} \in P
    BY <1>3
  <2>2. /\ SumFunctionOnSet(f, T) = f[x] + SumFunctionOnSet(f, T \ {x})
        /\ SumFunctionOnSet(g, T) = g[x] + SumFunctionOnSet(g, T \ {x})
    BY SumAny
  <2> QED
    BY <2>1, <2>2
<1>4. P = SUBSET S
  <2> HIDE DEF P
  <2>1. \A T \in SUBSET S : T # {} /\ (\A x \in T : T \ {x} \in P) => T \in P
    BY <1>3
  <2> QED
    BY <1>1, <1>2, <2>1, FiniteInduction
<1> QED
  BY <1>4

(* A sum over two disjoint sets.                                            *)
LEMMA SumOfTwo ==
  ASSUME NEW D, IsFiniteSet(D), NEW f \in [D -> Nat],
         NEW S \in SUBSET D, NEW T \in SUBSET D, S \cap T = {}
  PROVE  SumFunctionOnSet(f, S \cup T) = SumFunctionOnSet(f, S) + SumFunctionOnSet(f, T)
<1> DEFINE Sum(U) == SumFunctionOnSet(f, U)
           P == {U \in SUBSET S : Sum(U \cup T) = Sum(U) + Sum(T)}
<1>0. \A U \in SUBSET D : /\ Sum(U) \in Nat /\ (U = {} => Sum(U) = 0)
                          /\ \A x \in U : Sum(U) = f[x] + Sum(U \ {x})
  BY SumAny
<1> HIDE DEF Sum
<1>1. IsFiniteSet(S) /\ P \in SUBSET (SUBSET S)
  BY FS_Subset
<1>2. {} \in P
  BY <1>0
<1>3. ASSUME NEW U \in SUBSET S, U # {}, \A x \in U : U \ {x} \in P
      PROVE  U \in P
  <2>1. PICK x \in U : Sum((U \ {x}) \cup T) = Sum(U \ {x}) + Sum(T)
    BY <1>3
  <2>2. (U \cup T) \ {x} = (U \ {x}) \cup T
    BY <2>1
  <2>3. Sum(U) = f[x] + Sum(U \ {x}) /\ Sum(U \cup T) = f[x] + Sum((U \cup T) \ {x})
    BY <1>0
  <2>4. Sum(U \ {x}) \in Nat /\ Sum(T) \in Nat /\ f[x] \in Nat
    BY <1>0
  <2> QED
    BY <2>1, <2>2, <2>3, <2>4
<1>4. P = SUBSET S
  <2> HIDE DEF P
  <2> QED
    BY <1>1, <1>2, <1>3, FiniteInduction
<1> QED
  BY <1>4 DEF Sum

(* If each element, a times, is at most b times its counterpart, then so    *)
(* are the sums.                                                            *)
LEMMA SumsBounded ==
  ASSUME NEW D, IsFiniteSet(D), NEW f \in [D -> Nat], NEW g \in [D -> Nat],
         NEW a \in Nat, NEW b \in Nat,
         NEW S \in SUBSET D, \A x \in S : f[x] * a <= g[x] * b
  PROVE  SumFunctionOnSet(f, S) * a <= SumFunctionOnSet(g, S) * b
<1> DEFINE F(U) == SumFunctionOnSet(f, U)
           G(U) == SumFunctionOnSet(g, U)
           P == {U \in SUBSET S : F(U) * a <= G(U) * b}
<1>0. \A U \in SUBSET D : /\ F(U) \in Nat /\ (U = {} => F(U) = 0)
                          /\ \A x \in U : F(U) = f[x] + F(U \ {x})
                          /\ G(U) \in Nat /\ (U = {} => G(U) = 0)
                          /\ \A x \in U : G(U) = g[x] + G(U \ {x})
  BY SumAny
<1> HIDE DEF F, G
<1>1. IsFiniteSet(S) /\ P \in SUBSET (SUBSET S)
  BY FS_Subset
<1>2. {} \in P
  BY <1>0
<1>3. ASSUME NEW U \in SUBSET S, U # {}, \A x \in U : U \ {x} \in P
      PROVE  U \in P
  <2>1. PICK x \in U : F(U \ {x}) * a <= G(U \ {x}) * b
    BY <1>3
  <2>2. F(U) = f[x] + F(U \ {x}) /\ G(U) = g[x] + G(U \ {x})
    BY <1>0
  <2>3. /\ F(U \ {x}) \in Nat /\ G(U \ {x}) \in Nat /\ f[x] \in Nat /\ g[x] \in Nat
        /\ f[x] * a <= g[x] * b
    BY <1>0
  <2>4. \A u, v, c \in Nat : (u + v) * c = u * c + v * c
    OBVIOUS
  <2>5. F(U) * a = f[x] * a + F(U \ {x}) * a /\ G(U) * b = g[x] * b + G(U \ {x}) * b
    BY <2>2, <2>3, <2>4
  <2>6. f[x] * a \in Nat /\ g[x] * b \in Nat /\ F(U \ {x}) * a \in Nat /\ G(U \ {x}) * b \in Nat
    BY <2>3
  <2>7. \A k, l, m, n \in Nat : k <= l /\ m <= n => k + m <= l + n
    OBVIOUS
  <2>8. F(U) * a <= G(U) * b
    BY <2>1, <2>3, <2>5, <2>6, <2>7
  <2> QED
    BY <2>8
<1>4. P = SUBSET S
  <2> HIDE DEF P
  <2> QED
    BY <1>1, <1>2, <1>3, FiniteInduction
<1> QED
  BY <1>4 DEF F, G

(* A sum of so many numbers of at most b.                                   *)
LEMMA SumAtMost ==
  ASSUME NEW D, IsFiniteSet(D), NEW f \in [D -> Nat], NEW b \in Nat,
         NEW S \in SUBSET D, \A x \in S : f[x] <= b
  PROVE  SumFunctionOnSet(f, S) <= b * Cardinality(S)
<1> DEFINE F(U) == SumFunctionOnSet(f, U)
           P == {U \in SUBSET S : F(U) <= b * Cardinality(U)}
<1>0. \A U \in SUBSET D : /\ F(U) \in Nat /\ (U = {} => F(U) = 0)
                          /\ \A x \in U : F(U) = f[x] + F(U \ {x})
  BY SumAny
<1> HIDE DEF F
<1>1. IsFiniteSet(S) /\ P \in SUBSET (SUBSET S)
  BY FS_Subset
<1>2. {} \in P
  BY <1>0, FS_EmptySet
<1>3. ASSUME NEW U \in SUBSET S, U # {}, \A x \in U : U \ {x} \in P
      PROVE  U \in P
  <2>1. PICK x \in U : F(U \ {x}) <= b * Cardinality(U \ {x})
    BY <1>3
  <2>2. F(U) = f[x] + F(U \ {x}) /\ F(U \ {x}) \in Nat /\ f[x] \in Nat /\ f[x] <= b
    BY <1>0
  <2>3. IsFiniteSet(U)
    BY <1>1, FS_Subset
  <2>4. Cardinality(U) \in Nat /\ Cardinality(U \ {x}) = Cardinality(U) - 1
    BY <2>3, FS_RemoveElement, FS_CardinalityType
  <2>5. \A c \in Nat : b * (c - 1) = b * c - b /\ b * c \in Nat
    OBVIOUS
  <2>6. b * Cardinality(U \ {x}) = b * Cardinality(U) - b /\ b * Cardinality(U) \in Nat
    BY <2>4, <2>5
  <2>7. F(U) <= b * Cardinality(U)
    <3> HIDE <2>4, <2>5
    <3> QED
      BY <2>1, <2>2, <2>6
  <2> QED
    BY <2>7
<1>4. P = SUBSET S
  <2> HIDE DEF P
  <2> QED
    BY <1>1, <1>2, <1>3, FiniteInduction
<1> QED
  BY <1>4 DEF F

-----------------------------------------------------------------------------
(* Division.                                                                *)

LEMMA Division ==
  ASSUME NEW n \in Nat, NEW d \in Nat \ {0}
  PROVE  /\ n \div d \in Nat /\ n % d \in 0 .. d - 1
         /\ n = d * (n \div d) + (n % d)
  OBVIOUS

LEMMA OneQuotient ==
  ASSUME NEW d \in Nat \ {0}, NEW q \in Nat, NEW r \in 0 .. d - 1,
         NEW p \in Nat, NEW s \in 0 .. d - 1, q * d + r = p * d + s
  PROVE  q = p /\ r = s
<1>1. (q - p) * d = s - r
  OBVIOUS
<1>2. s - r < d /\ r - s < d
  OBVIOUS
<1>3. q - p \in Int
  OBVIOUS
<1>4. CASE q - p >= 1
  <2>1. (q - p) * d >= d
    BY <1>3, <1>4
  <2> QED
    BY <1>1, <1>2, <2>1
<1>5. CASE q - p <= -1
  <2>1. (p - q) * d >= d
    BY <1>3, <1>5
  <2>2. (p - q) * d = r - s
    BY <1>1
  <2> QED
    BY <1>2, <2>1, <2>2
<1>6. CASE q - p = 0
  BY <1>6
<1> QED
  BY <1>3, <1>4, <1>5, <1>6

LEMMA DividedIs ==
  ASSUME NEW d \in Nat \ {0}, NEW q \in Nat, NEW r \in 0 .. d - 1
  PROVE  (q * d + r) \div d = q /\ (q * d + r) % d = r
<1> DEFINE n == q * d + r
<1>1. n \in Nat
  <2>1. q * d \in Nat
    OBVIOUS
  <2> QED
    BY <2>1
<1> HIDE DEF n
<1>2. n \div d \in Nat /\ n % d \in 0 .. d - 1 /\ n = d * (n \div d) + (n % d)
  BY <1>1, Division
<1>3. q * d + r = (n \div d) * d + (n % d)
  BY <1>2 DEF n
<1>4. q = n \div d /\ r = n % d
  BY <1>2, <1>3, OneQuotient
<1> QED
  BY <1>4 DEF n

LEMMA Product ==
  ASSUME NEW a \in Nat, NEW b \in Nat, NEW d \in Nat
  PROVE  a * d \in Nat /\ (a <= b => a * d <= b * d)
  OBVIOUS

LEMMA LessFactor ==
  ASSUME NEW s \in Nat, NEW t \in Nat, NEW d \in Nat \ {0}, s * d < t * d
  PROVE  s < t
<1> SUFFICES ASSUME t <= s PROVE FALSE
  OBVIOUS
<1>1. t * d <= s * d /\ t * d \in Nat /\ s * d \in Nat
  BY Product
<1> QED
  BY <1>1

-----------------------------------------------------------------------------
(* Recursion of one step at a time.                                         *)

Iterates(g, X, F, a, m) ==
  /\ g \in [0 .. m -> X]
  /\ g[0] = a /\ \A n \in 1 .. m : g[n] = F[<<n, g[n - 1]>>]

LEMMA IterationExists ==
  ASSUME NEW X, NEW F \in [Nat \X X -> X], NEW a \in X, NEW m \in Nat
  PROVE  \E g : Iterates(g, X, F, a, m)
<1> DEFINE Good(k, g) == g[0] = a /\ \A n \in 1 .. k : g[n] = F[<<n, g[n - 1]>>]
           N == {k \in Nat : \E g \in [0 .. k -> X] : Good(k, g)}
<1>1. 0 \in N
  <2>1. [n \in 0 .. 0 |-> a] \in [0 .. 0 -> X] /\ Good(0, [n \in 0 .. 0 |-> a])
    OBVIOUS
  <2> QED
    BY <2>1
<1>2. ASSUME NEW k \in N PROVE k + 1 \in N
  <2>1. k \in Nat /\ \E g \in [0 .. k -> X] : Good(k, g)
    OBVIOUS
  <2>2. PICK g \in [0 .. k -> X] : Good(k, g)
    BY <2>1
  <2> DEFINE h == [n \in 0 .. k + 1 |-> IF n <= k THEN g[n] ELSE F[<<k + 1, g[k]>>]]
  <2>3. h \in [0 .. k + 1 -> X]
    BY <2>1
  <2>4. Good(k + 1, h)
    <3>1. h[0] = a
      BY <2>1, <2>2
    <3>2. ASSUME NEW n \in 1 .. k + 1 PROVE h[n] = F[<<n, h[n - 1]>>]
      <4>1. CASE n <= k
        BY <2>1, <2>2, <4>1
      <4>2. CASE n = k + 1
        <5>1. n - 1 = k /\ n - 1 \in 0 .. k + 1 /\ n \in 0 .. k + 1 /\ ~(n <= k)
          BY <2>1, <4>2
        <5>2. h[n - 1] = g[k] /\ h[n] = F[<<k + 1, g[k]>>]
          BY <2>1, <5>1
        <5> QED
          BY <4>2, <5>2
      <4> QED
        BY <2>1, <4>1, <4>2
    <3> QED
      BY <3>1, <3>2
  <2> HIDE DEF Good, h
  <2>5. k + 1 \in Nat /\ \E q \in [0 .. k + 1 -> X] : Good(k + 1, q)
    BY <2>1, <2>3, <2>4
  <2> QED
    BY <2>5
<1>3. N = Nat
  <2> HIDE DEF N
  <2>1. N \in SUBSET Nat
    BY DEF N
  <2> QED
    BY <1>1, <1>2, <2>1, Induction
<1>4. m \in N
  BY <1>3
<1>5. PICK g \in [0 .. m -> X] : Good(m, g)
  BY <1>4
<1> QED
  BY <1>5 DEF Iterates

(* A finite set of integers has a least and a greatest one.                 *)
LEMMA ExtremesExist ==
  ASSUME NEW S \in SUBSET Int, IsFiniteSet(S), S # {}
  PROVE  /\ \E x \in S : \A y \in S : x <= y
         /\ \E x \in S : \A y \in S : x >= y
<1> DEFINE Low(T)  == \E x \in T : \A y \in T : x <= y
           High(T) == \E x \in T : \A y \in T : x >= y
           P == {T \in SUBSET S : T = {} \/ (Low(T) /\ High(T))}
<1>1. P \in SUBSET (SUBSET S) /\ {} \in P
  OBVIOUS
<1>2. ASSUME NEW T \in SUBSET S, T # {}, \A x \in T : T \ {x} \in P
      PROVE  T \in P
  <2>1. PICK z \in T : T \ {z} \in P
    BY <1>2
  <2>2. CASE T \ {z} = {}
    BY <1>2, <2>2
  <2>3. CASE T \ {z} # {}
    <3>1. Low(T \ {z}) /\ High(T \ {z})
      BY <2>1, <2>3
    <3>2. PICK x \in T \ {z} : \A y \in T \ {z} : x <= y
      BY <3>1
    <3>3. PICK w \in T \ {z} : \A y \in T \ {z} : w >= y
      BY <3>1
    <3>4. Low(T)
      <4>1. CASE x <= z
        BY <3>2, <4>1
      <4>2. CASE z <= x
        BY <3>2, <4>2
      <4> QED
        BY <4>1, <4>2
    <3>5. High(T)
      <4>1. CASE w >= z
        BY <3>3, <4>1
      <4>2. CASE z >= w
        BY <3>3, <4>2
      <4> QED
        BY <4>1, <4>2
    <3> QED
      BY <3>4, <3>5
  <2> QED
    BY <2>2, <2>3
<1>3. P = SUBSET S
  <2> HIDE DEF P
  <2> QED
    BY <1>1, <1>2, FiniteInduction
<1>4. S \in P
  BY <1>3
<1> QED
  BY <1>4
=============================================================================
