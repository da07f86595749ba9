------------------------- MODULE Vegetation_proofs --------------------------
(***************************************************************************)
(* Theorems of the vegetation bakers: of MapPicture, for grids, tiles and  *)
(* levels of every size, and of ProcVeg, for every terrain.                *)
(***************************************************************************)
EXTENDS MapPicture, ProcVeg, DataLemmas

-----------------------------------------------------------------------------
(* FillEnclosedAreas, started with the texels Z at 0: what is marked stays  *)
(* within any set K that no neighbour leaves.                               *)

Fills(Z)    == [zero : SUBSET Z, stack : Seq(Z)]
Stacked(f)  == {f.stack[i] : i \in 1 .. Len(f.stack)}
Measure(f)  == Cardinality(f.zero) + Len(f.stack)
Waits(f, Z) == \A u \in Z \ f.zero : u \in Stacked(f) \/ Near(u) \intersect f.zero = {}
Within(f, Z, K) == /\ f \in Fills(Z) /\ Stacked(f) \intersect f.zero = {}
                   /\ Z \ f.zero \subseteq K

(* g is f after some texels were pushed.                                    *)
Grows(f, g, Z, K) ==
  /\ Within(g, Z, K) /\ g.zero \subseteq f.zero /\ f.zero \ g.zero \subseteq Stacked(g)
  /\ Stacked(f) \subseteq Stacked(g) /\ Measure(g) = Measure(f)

LEMMA PushGrows ==
  ASSUME NEW Z, IsFiniteSet(Z), NEW K, NEW f, Within(f, Z, K), NEW t, t \in f.zero => t \in K
  PROVE  Grows(f, Push(f, t), Z, K) /\ t \notin Push(f, t).zero
<1>0. /\ f.zero \in SUBSET Z /\ f.stack \in Seq(Z) /\ Len(f.stack) \in Nat
      /\ Stacked(f) \intersect f.zero = {} /\ Z \ f.zero \subseteq K
      /\ f = [zero |-> f.zero, stack |-> f.stack]
  BY DEF Within, Fills
<1>1. CASE t \notin f.zero
  <2>1. Push(f, t) = f
    BY <1>1 DEF Push
  <2> QED
    BY <1>1, <2>1 DEF Grows
<1>2. CASE t \in f.zero
  <2> DEFINE g == Push(f, t)
             n == Len(f.stack)
  <2>1. g.zero = f.zero \ {t} /\ g.stack = Append(f.stack, t)
    BY <1>2 DEF Push
  <2>2. g \in Fills(Z)
    <3>1. Append(f.stack, t) \in Seq(Z)
      BY <1>0, <1>2
    <3> QED
      BY <1>0, <1>2, <3>1 DEF Push, Fills
  <2>3. /\ Len(g.stack) = n + 1 /\ n \in Nat /\ g.stack[n + 1] = t
        /\ \A i \in 1 .. n : g.stack[i] = f.stack[i]
    BY <1>0, <1>2, <2>1
  <2>4. Stacked(g) = Stacked(f) \union {t}
    <3>1. \A i : i \in 1 .. n + 1 <=> (i \in 1 .. n \/ i = n + 1)
      BY <2>3
    <3>2. Len(f.stack) = n /\ Len(g.stack) = n + 1 /\ g.stack[n + 1] = t
      BY <2>3
    <3> HIDE DEF g, n
    <3>3. \A i \in 1 .. n : g.stack[i] = f.stack[i]
      BY <2>3
    <3>4. ASSUME NEW u PROVE u \in Stacked(g) <=> u \in Stacked(f) \union {t}
      BY <3>1, <3>2, <3>3 DEF Stacked
    <3> QED
      BY <3>4
  <2>5. Measure(g) = Measure(f)
    <3>1. IsFiniteSet(f.zero)
      BY <1>0, FS_Subset
    <3>2. Cardinality(f.zero \ {t}) = Cardinality(f.zero) - 1 /\ Cardinality(f.zero) \in Nat
      BY <1>2, <3>1, FS_RemoveElement, FS_CardinalityType
    <3> QED
      BY <2>1, <2>3, <3>2 DEF Measure
  <2> HIDE DEF g
  <2>6. Z \ g.zero \subseteq K /\ Stacked(g) \intersect g.zero = {}
    BY <1>0, <1>2, <2>1, <2>4
  <2> QED
    BY <1>0, <1>2, <2>1, <2>2, <2>4, <2>5, <2>6 DEF Grows, Within, g
<1> QED
  BY <1>1, <1>2

LEMMA GrowsOn ==
  ASSUME NEW Z, NEW K, NEW f, NEW g, NEW h, Grows(f, g, Z, K), Grows(g, h, Z, K)
  PROVE  Grows(f, h, Z, K)
<1>1. f.zero \ h.zero \subseteq Stacked(h)
  BY DEF Grows
<1> QED
  BY <1>1 DEF Grows

(* No texel of K has a neighbour in Z outside K.                            *)
NoneLeaves(K, Z) == \A u \in K : Near(u) \intersect Z \subseteq K

LEMMA NearIs ==
  ASSUME NEW t
  PROVE  Near(t) = {t, <<t[1] - 1, t[2]>>, <<t[1] + 1, t[2]>>, <<t[1], t[2] - 1>>, <<t[1], t[2] + 1>>}
<1>1. /\ {<<t[1] + d, t[2]>> : d \in {-1, 1}} = {<<t[1] + (-1), t[2]>>, <<t[1] + 1, t[2]>>}
      /\ {<<t[1], t[2] + d>> : d \in {-1, 1}} = {<<t[1], t[2] + (-1)>>, <<t[1], t[2] + 1>>}
  OBVIOUS
<1> QED
  BY <1>1 DEF Near

LEMMA SpreadGrows ==
  ASSUME NEW Z, IsFiniteSet(Z), NEW K, NEW f, Within(f, Z, K), NEW t,
         \A u \in Near(t) : u \in f.zero => u \in K
  PROVE  /\ Grows(f, Spread(f, t), Z, K)
         /\ \A u \in Near(t) \ {t} : u \notin Spread(f, t).zero
<1> DEFINE p == <<t[1] - 1, t[2]>>  q == <<t[1] + 1, t[2]>>
           r == <<t[1], t[2] - 1>>  s == <<t[1], t[2] + 1>>
           f1 == Push(f, p)  f2 == Push(f1, q)  f3 == Push(f2, r)  f4 == Push(f3, s)
<1>0. Spread(f, t) = f4 /\ Near(t) = {t, p, q, r, s}
  BY NearIs DEF Spread
<1> HIDE DEF p, q, r, s
<1>1. Grows(f, f1, Z, K) /\ p \notin f1.zero
  BY <1>0, PushGrows
<1> HIDE DEF f1
<1>2. Grows(f1, f2, Z, K) /\ q \notin f2.zero
  <2>1. Within(f1, Z, K) /\ (q \in f1.zero => q \in K)
    BY <1>0, <1>1 DEF Grows
  <2> QED
    BY <2>1, PushGrows
<1> HIDE DEF f2
<1>3. Grows(f2, f3, Z, K) /\ r \notin f3.zero
  <2>1. Within(f2, Z, K) /\ (r \in f2.zero => r \in K)
    BY <1>0, <1>1, <1>2 DEF Grows
  <2> QED
    BY <2>1, PushGrows
<1> HIDE DEF f3
<1>4. Grows(f3, f4, Z, K) /\ s \notin f4.zero
  <2>1. Within(f3, Z, K) /\ (s \in f3.zero => s \in K)
    BY <1>0, <1>1, <1>2, <1>3 DEF Grows
  <2> QED
    BY <2>1, PushGrows
<1> HIDE DEF f4
<1>5. Grows(f, f4, Z, K)
  BY <1>1, <1>2, <1>3, <1>4, GrowsOn
<1>6. p \notin f4.zero /\ q \notin f4.zero /\ r \notin f4.zero
  BY <1>1, <1>2, <1>3, <1>4 DEF Grows
<1> QED
  BY <1>0, <1>4, <1>5, <1>6

(* A turn takes one texel off the stack, and none waits unmarked behind it. *)
LEMMA TurnKeeps ==
  ASSUME NEW Z, IsFiniteSet(Z), NEW K, NEW f, Within(f, Z, K), Waits(f, Z), NoneLeaves(K, Z),
         f.stack # <<>>
  PROVE  /\ Within(Turn(f), Z, K) /\ Waits(Turn(f), Z) /\ Turn(f).zero \subseteq f.zero
         /\ Measure(Turn(f)) = Measure(f) - 1
<1> DEFINE n == Len(f.stack)
           t == f.stack[n]
           e == [f EXCEPT !.stack = SubSeq(@, 1, n - 1)]
           g == Spread(e, t)
<1>0. /\ f.zero \in SUBSET Z /\ f.stack \in Seq(Z)
      /\ f = [zero |-> f.zero, stack |-> f.stack]
      /\ Stacked(f) \intersect f.zero = {} /\ Z \ f.zero \subseteq K
  BY DEF Within, Fills
<1>1. n \in Nat /\ n # 0 /\ t \in Z /\ t \in Stacked(f)
  <2>1. n \in Nat /\ n # 0
    BY <1>0
  <2> QED
    BY <1>0, <2>1 DEF Stacked
<1>2. Turn(f) = g
  BY <1>1 DEF Turn
<1>3. e.zero = f.zero /\ e.stack = SubSeq(f.stack, 1, n - 1)
  BY <1>0
<1>4. /\ e.stack \in Seq(Z) /\ Len(e.stack) = n - 1
      /\ \A i \in 1 .. n - 1 : e.stack[i] = f.stack[i]
  <2>1. \A q \in Seq(Z) : \A m \in 0 .. Len(q) :
          /\ SubSeq(q, 1, m) \in Seq(Z) /\ Len(SubSeq(q, 1, m)) = m
          /\ \A i \in 1 .. m : SubSeq(q, 1, m)[i] = q[i]
    OBVIOUS
  <2>2. n - 1 \in 0 .. Len(f.stack)
    BY <1>1
  <2> HIDE DEF n
  <2> QED
    BY <1>0, <1>3, <2>1, <2>2
<1>5. Stacked(f) = Stacked(e) \union {t}
  <2>1. \A i : i \in 1 .. n <=> (i \in 1 .. n - 1 \/ i = n)
    BY <1>1
  <2>2. f.stack[n] = t /\ Len(f.stack) = n /\ Len(e.stack) = n - 1
    BY <1>4
  <2> HIDE DEF e, n, t
  <2>3. \A i \in 1 .. n - 1 : e.stack[i] = f.stack[i]
    BY <1>4
  <2>4. ASSUME NEW u PROVE u \in Stacked(f) <=> u \in Stacked(e) \union {t}
    BY <2>1, <2>2, <2>3 DEF Stacked
  <2> QED
    BY <2>4
<1>6. e \in Fills(Z)
  BY <1>0, <1>4 DEF Fills
<1>7. Within(e, Z, K)
  <2> HIDE DEF e, t
  <2> QED
    BY <1>0, <1>3, <1>5, <1>6 DEF Within
<1>8. Measure(e) = Measure(f) - 1
  <2>1. Cardinality(f.zero) \in Nat
    BY <1>0, FS_Subset, FS_CardinalityType
  <2> QED
    BY <1>1, <1>3, <1>4, <2>1 DEF Measure
<1> HIDE DEF e, t
<1>9. t \in K /\ t \notin f.zero
  BY <1>0, <1>1
<1>10. /\ Grows(e, g, Z, K)
       /\ \A u \in Near(t) \ {t} : u \notin g.zero
  <2>1. \A u \in Near(t) : u \in e.zero => u \in K
    BY <1>0, <1>3, <1>9 DEF NoneLeaves
  <2> QED
    BY <1>7, <2>1, SpreadGrows
<1> HIDE DEF g
<1>11. Near(t) \intersect g.zero = {}
  BY <1>3, <1>9, <1>10 DEF Grows
<1>12. Waits(g, Z)
  <2> SUFFICES ASSUME NEW u \in Z \ g.zero
               PROVE  u \in Stacked(g) \/ Near(u) \intersect g.zero = {}
    BY DEF Waits
  <2>1. CASE u \in f.zero
    BY <1>3, <1>10, <2>1 DEF Grows
  <2>2. CASE u \notin f.zero /\ u \in Stacked(f)
    BY <1>5, <1>10, <1>11, <2>2 DEF Grows
  <2>3. CASE u \notin f.zero /\ u \notin Stacked(f)
    BY <1>3, <1>10, <2>3 DEF Grows, Waits
  <2> QED
    BY <2>1, <2>2, <2>3
<1> QED
  BY <1>2, <1>3, <1>8, <1>10, <1>12 DEF Grows

(* The loop ends with nothing on the stack.                                 *)
LEMMA DrainEnds ==
  ASSUME NEW Z, IsFiniteSet(Z), NEW K, NEW f, Within(f, Z, K), Waits(f, Z), NoneLeaves(K, Z)
  PROVE  /\ Drain(f).zero \subseteq f.zero /\ Z \ Drain(f).zero \subseteq K
         /\ \A u \in Z \ Drain(f).zero : Near(u) \intersect Drain(f).zero = {}
<1> DEFINE most == Measure(f)
           X == {g \in Fills(Z) : Within(g, Z, K) /\ Waits(g, Z) /\ g.zero \subseteq f.zero}
           F == [p \in Nat \X X |-> Turn(p[2])]
           Step(h) == [n \in 0 .. most |-> IF n = 0 THEN f ELSE Turn(h[n - 1])]
           after == CHOOSE h : h = Step(h)
<1>1. \A g \in X :  /\ Measure(g) \in Nat /\ Turn(g) \in X
                    /\ g.stack = <<>> => Turn(g) = g
                    /\ g.stack # <<>> => Measure(Turn(g)) = Measure(g) - 1
                    /\ Measure(g) = 0 => g.stack = <<>>
  <2> SUFFICES ASSUME NEW g \in X
               PROVE  /\ Measure(g) \in Nat /\ Turn(g) \in X
                      /\ g.stack = <<>> => Turn(g) = g
                      /\ g.stack # <<>> => Measure(Turn(g)) = Measure(g) - 1
                      /\ Measure(g) = 0 => g.stack = <<>>
    OBVIOUS
  <2>1. g.zero \in SUBSET Z /\ g.stack \in Seq(Z)
    BY DEF Fills
  <2>2. Cardinality(g.zero) \in Nat /\ Len(g.stack) \in Nat
    BY <2>1, FS_Subset, FS_CardinalityType
  <2>3. (Len(g.stack) = 0) <=> (g.stack = <<>>)
    BY <2>1
  <2>4. Measure(g) \in Nat /\ (Measure(g) = 0 => g.stack = <<>>)
    BY <2>2, <2>3 DEF Measure
  <2>5. CASE g.stack = <<>>
    BY <2>3, <2>4, <2>5 DEF Turn
  <2>6. CASE g.stack # <<>>
    BY <2>4, <2>6, TurnKeeps DEF Within
  <2> QED
    BY <2>5, <2>6
<1>2. f \in X
  BY DEF Within
<1> HIDE DEF X
<1>3. most \in Nat
  BY <1>1, <1>2
<1> HIDE DEF most
<1>4. \E h : h = Step(h)
  <2>1. F \in [Nat \X X -> X]
    <3>1. \A p \in Nat \X X : Turn(p[2]) \in X
      BY <1>1
    <3> QED
      BY <3>1
  <2>2. PICK h : Iterates(h, X, F, f, most)
    <3> HIDE DEF F
    <3> QED
      BY <1>2, <1>3, <2>1, IterationExists
  <2>3. ASSUME NEW n \in 1 .. most PROVE n - 1 \in 0 .. most /\ h[n] = Turn(h[n - 1])
    <3>1. n \in Nat /\ n - 1 \in 0 .. most /\ h[n - 1] \in X
      BY <1>3, <2>2 DEF Iterates
    <3> QED
      BY <2>2, <3>1 DEF Iterates
  <2>4. h = Step(h)
    BY <1>3, <2>2, <2>3 DEF Iterates
  <2> QED
    BY <2>4
<1>5. after = Step(after)
  BY <1>4
<1>6. Drain(f) = after[most]
  BY DEF Drain, Measure, most
<1> HIDE DEF after
<1>7. after[0] = f /\ \A n \in 1 .. most : after[n] = Turn(after[n - 1])
  BY <1>3, <1>5
<1> DEFINE N == {n \in Nat : n <= most =>
                   after[n] \in X /\ (after[n].stack = <<>> \/ Measure(after[n]) = most - n)}
<1>8. 0 \in N
  BY <1>2, <1>3, <1>7 DEF most
<1>9. ASSUME NEW n \in N PROVE n + 1 \in N
  <2>1. n \in Nat /\ n + 1 \in Nat
    OBVIOUS
  <2> SUFFICES ASSUME n + 1 <= most
               PROVE  after[n + 1] \in X /\ (\/ after[n + 1].stack = <<>>
                                              \/ Measure(after[n + 1]) = most - (n + 1))
    BY <2>1
  <2>2. after[n] \in X /\ (after[n].stack = <<>> \/ Measure(after[n]) = most - n)
    BY <1>3
  <2>3. after[n + 1] = Turn(after[n])
    <3>1. n + 1 \in 1 .. most /\ (n + 1) - 1 = n
      BY <1>3, <2>1
    <3> QED
      BY <1>7, <3>1
  <2> QED
    BY <1>1, <1>3, <2>1, <2>2, <2>3
<1>10. N = Nat
  <2> HIDE DEF N
  <2>1. N \in SUBSET Nat
    BY DEF N
  <2> QED
    BY <1>8, <1>9, <2>1, Induction
<1>11. after[most] \in X /\ after[most].stack = <<>>
  <2>1. /\ after[most] \in X
        /\ after[most].stack = <<>> \/ Measure(after[most]) = most - most
    BY <1>3, <1>10
  <2> QED
    BY <1>1, <1>3, <2>1
<1>12. Stacked(after[most]) = {}
  BY <1>11 DEF Stacked
<1> QED
  BY <1>6, <1>11, <1>12 DEF Within, Waits, X

(* With the border pushed, whatever is marked is on the stack.              *)
LEMMA MarkedIs ==
  ASSUME NEW Z, IsFiniteSet(Z), NEW K, NEW b, Len(b) \in Nat,
         \A i \in 1 .. Len(b) : b[i] \in Z => b[i] \in K
  PROVE  /\ Within(Marked(Z, b), Z, K) /\ Waits(Marked(Z, b), Z)
         /\ \A i \in 1 .. Len(b) : b[i] \notin Marked(Z, b).zero
<1> DEFINE most == Len(b)
           none == [zero |-> Z, stack |-> <<>>]
           X == {g \in Fills(Z) : Within(g, Z, K) /\ Z \ g.zero \subseteq Stacked(g)}
           F == [p \in Nat \X X |-> IF p[1] \in 1 .. most THEN Push(p[2], b[p[1]]) ELSE p[2]]
           Step(h) == [n \in 0 .. most |-> IF n = 0 THEN none ELSE Push(h[n - 1], b[n])]
           after == CHOOSE h : h = Step(h)
<1>1. none \in X
  <2>1. none \in Fills(Z) /\ Stacked(none) = {} /\ Z \ none.zero = {}
    BY DEF Fills, Stacked
  <2> QED
    BY <2>1 DEF Within
<1>2. ASSUME NEW g \in X, NEW n \in 1 .. most
      PROVE  /\ Push(g, b[n]) \in X /\ b[n] \notin Push(g, b[n]).zero
             /\ Push(g, b[n]).zero \subseteq g.zero
  <2>1. g.zero \in SUBSET Z
    BY DEF Fills
  <2>2. Grows(g, Push(g, b[n]), Z, K) /\ b[n] \notin Push(g, b[n]).zero
    BY <2>1, PushGrows
  <2>3. Z \ Push(g, b[n]).zero \subseteq Stacked(Push(g, b[n]))
    BY <2>1, <2>2 DEF Grows
  <2> QED
    BY <2>2, <2>3 DEF Grows, Within
<1> HIDE DEF X, none
<1>3. \E h : h = Step(h)
  <2>1. F \in [Nat \X X -> X]
    <3>1. ASSUME NEW p \in Nat \X X PROVE F[p] \in X
      <4>1. p[2] \in X
        OBVIOUS
      <4>2. CASE p[1] \in 1 .. most
        BY <1>2, <4>1, <4>2
      <4>3. CASE p[1] \notin 1 .. most
        BY <4>1, <4>3
      <4> QED
        BY <4>2, <4>3
    <3> QED
      BY <3>1
  <2>2. PICK h : Iterates(h, X, F, none, most)
    <3> HIDE DEF F
    <3> QED
      BY <1>1, <2>1, IterationExists
  <2>3. ASSUME NEW n \in 1 .. most PROVE n - 1 \in 0 .. most /\ h[n] = Push(h[n - 1], b[n])
    <3>1. n \in Nat /\ n - 1 \in 0 .. most /\ h[n - 1] \in X
      BY <2>2 DEF Iterates
    <3>2. F[<<n, h[n - 1]>>] = Push(h[n - 1], b[n])
      BY <3>1
    <3> QED
      BY <2>2, <3>1, <3>2 DEF Iterates
  <2>4. h = Step(h)
    BY <2>2, <2>3 DEF Iterates
  <2> QED
    BY <2>4
<1>4. after = Step(after)
  BY <1>3
<1>5. Marked(Z, b) = after[most]
  BY DEF Marked, none
<1> HIDE DEF after
<1>6. after[0] = none /\ \A n \in 1 .. most : after[n] = Push(after[n - 1], b[n])
  BY <1>4
<1> DEFINE N == {n \in Nat : n <= most =>
                   after[n] \in X /\ \A i \in 1 .. n : b[i] \notin after[n].zero}
<1>7. 0 \in N
  BY <1>1, <1>6
<1>8. ASSUME NEW n \in N PROVE n + 1 \in N
  <2>1. n \in Nat /\ n + 1 \in Nat
    OBVIOUS
  <2> SUFFICES ASSUME n + 1 <= most
               PROVE  after[n + 1] \in X /\ \A i \in 1 .. n + 1 : b[i] \notin after[n + 1].zero
    BY <2>1
  <2>2. after[n] \in X /\ \A i \in 1 .. n : b[i] \notin after[n].zero
    OBVIOUS
  <2>3. after[n + 1] = Push(after[n], b[n + 1]) /\ n + 1 \in 1 .. most
    <3>1. n + 1 \in 1 .. most /\ (n + 1) - 1 = n
      BY <2>1
    <3> QED
      BY <1>6, <3>1
  <2> HIDE DEF N
  <2>4. /\ after[n + 1] \in X /\ b[n + 1] \notin after[n + 1].zero
        /\ after[n + 1].zero \subseteq after[n].zero
    BY <1>2, <2>2, <2>3
  <2>5. \A i \in 1 .. n + 1 : i \in 1 .. n \/ i = n + 1
    BY <2>1
  <2> QED
    BY <2>2, <2>4, <2>5
<1>9. N = Nat
  <2> HIDE DEF N
  <2>1. N \in SUBSET Nat
    BY DEF N
  <2> QED
    BY <1>7, <1>8, <2>1, Induction
<1>10. after[most] \in X /\ \A i \in 1 .. most : b[i] \notin after[most].zero
  BY <1>9
<1> QED
  BY <1>5, <1>10 DEF Waits, X

-----------------------------------------------------------------------------
(* What is reached from the edge.                                           *)

LEMMA ReachableIs ==
  ASSUME NEW Z, IsFiniteSet(Z), NEW S \in SUBSET Z
  PROVE  /\ S \subseteq Reachable(S, Z) /\ Reachable(S, Z) \subseteq Z
         /\ NoneLeaves(Reachable(S, Z), Z)
         /\ \A M \in SUBSET Z : S \subseteq M /\ NoneLeaves(M, Z) => Reachable(S, Z) \subseteq M
<1> DEFINE most == Cardinality(Z)
           F == [p \in Nat \X SUBSET Z |-> Wider(p[2], Z)]
           Step(h) == [n \in 0 .. most |-> IF n = 0 THEN S ELSE Wider(h[n - 1], Z)]
           reached == CHOOSE h : h = Step(h)
<1>0. most \in Nat
  BY FS_CardinalityType
<1>1. ASSUME NEW R \in SUBSET Z
      PROVE  /\ Wider(R, Z) \in SUBSET Z /\ R \subseteq Wider(R, Z)
             /\ Wider(R, Z) = R <=> NoneLeaves(R, Z)
             /\ \A M \in SUBSET Z : R \subseteq M /\ NoneLeaves(M, Z) => Wider(R, Z) \subseteq M
  <2>1. \A t \in R : t \in Near(t)
    BY DEF Near
  <2>2. \A u : u \in Wider(R, Z) <=> u \in Z /\ \E t \in R : u \in Near(t)
    BY DEF Wider
  <2> QED
    BY <2>1, <2>2 DEF NoneLeaves
<1>2. \E h : h = Step(h)
  <2>1. F \in [Nat \X SUBSET Z -> SUBSET Z]
    <3>1. \A p \in Nat \X SUBSET Z : Wider(p[2], Z) \in SUBSET Z
      BY <1>1
    <3> QED
      BY <3>1
  <2>2. PICK h : Iterates(h, SUBSET Z, F, S, most)
    <3> HIDE DEF F
    <3> QED
      BY <1>0, <2>1, IterationExists
  <2>3. ASSUME NEW n \in 1 .. most PROVE n - 1 \in 0 .. most /\ h[n] = Wider(h[n - 1], Z)
    <3>1. n \in Nat /\ n - 1 \in 0 .. most /\ h[n - 1] \in SUBSET Z
      BY <1>0, <2>2 DEF Iterates
    <3>2. F[<<n, h[n - 1]>>] = Wider(h[n - 1], Z)
      BY <3>1
    <3> QED
      BY <2>2, <3>1, <3>2 DEF Iterates
  <2>4. h = Step(h)
    BY <1>0, <2>2, <2>3 DEF Iterates
  <2> QED
    BY <2>4
<1>3. reached = Step(reached)
  BY <1>2
<1>4. Reachable(S, Z) = reached[most]
  BY DEF Reachable
<1> HIDE DEF reached
<1>5. reached[0] = S /\ \A n \in 1 .. most : reached[n] = Wider(reached[n - 1], Z)
  BY <1>0, <1>3
<1> DEFINE Good(n, R) ==
             /\ R \in SUBSET Z /\ S \subseteq R /\ (NoneLeaves(R, Z) \/ Cardinality(R) >= n)
             /\ \A M \in SUBSET Z : S \subseteq M /\ NoneLeaves(M, Z) => R \subseteq M
           N == {n \in Nat : n <= most => Good(n, reached[n])}
<1>6. \A R \in SUBSET Z : IsFiniteSet(R) /\ Cardinality(R) \in Nat
  BY FS_Subset, FS_CardinalityType
<1>7. 0 \in N
  BY <1>5, <1>6
<1>8. ASSUME NEW n \in N PROVE n + 1 \in N
  <2>1. n \in Nat /\ n + 1 \in Nat
    OBVIOUS
  <2> SUFFICES ASSUME n + 1 <= most PROVE Good(n + 1, reached[n + 1])
    BY <2>1
  <2> DEFINE R == reached[n]
             W == Wider(R, Z)
  <2>2. Good(n, R)
    BY <1>0, <2>1
  <2>3. reached[n + 1] = W
    <3>1. n + 1 \in 1 .. most /\ (n + 1) - 1 = n
      BY <1>0, <2>1
    <3> QED
      BY <1>5, <3>1
  <2> HIDE DEF N, R
  <2>4. /\ W \in SUBSET Z /\ R \subseteq W /\ (W = R <=> NoneLeaves(R, Z))
        /\ \A M \in SUBSET Z : R \subseteq M /\ NoneLeaves(M, Z) => W \subseteq M
    BY <1>1, <2>2
  <2>5. NoneLeaves(W, Z) \/ Cardinality(W) >= n + 1
    <3>1. CASE NoneLeaves(R, Z)
      BY <2>4, <3>1
    <3>2. CASE ~NoneLeaves(R, Z)
      <4>1. PICK u \in W : u \notin R
        BY <2>4, <3>2
      <4>2. IsFiniteSet(W) /\ IsFiniteSet(W \ {u}) /\ Cardinality(W \ {u}) = Cardinality(W) - 1
        BY <1>6, <2>4, <4>1, FS_RemoveElement
      <4>3. R \subseteq W \ {u}
        BY <2>4, <4>1
      <4>4. Cardinality(R) <= Cardinality(W \ {u})
        BY <4>2, <4>3, FS_Subset
      <4>5. Cardinality(R) >= n /\ Cardinality(R) \in Nat /\ Cardinality(W) \in Nat
        BY <1>6, <2>2, <2>4, <3>2
      <4> QED
        BY <2>1, <4>2, <4>4, <4>5
    <3> QED
      BY <3>1, <3>2
  <2> QED
    BY <2>2, <2>3, <2>4, <2>5
<1>9. N = Nat
  <2> HIDE DEF N
  <2>1. N \in SUBSET Nat
    BY DEF N
  <2> QED
    BY <1>7, <1>8, <2>1, Induction
<1>10. Good(most, reached[most])
  BY <1>0, <1>9
<1> DEFINE T == reached[most]
<1> HIDE DEF T
<1>11. Good(most, T)
  BY <1>10 DEF T
<1>12. NoneLeaves(T, Z)
  <2>1. CASE NoneLeaves(T, Z)
    BY <2>1
  <2>2. CASE Cardinality(T) >= most
    <3>1. T = Z
      <4>1. T \in SUBSET Z /\ Cardinality(T) <= Cardinality(Z) /\ Cardinality(T) \in Nat
        BY <1>6, <1>11, FS_Subset
      <4>2. Cardinality(T) = Cardinality(Z)
        BY <1>0, <2>2, <4>1
      <4> QED
        BY <4>1, <4>2, FS_Subset
    <3> QED
      BY <3>1 DEF NoneLeaves
  <2> QED
    BY <1>11, <2>1, <2>2
<1> QED
  BY <1>4, <1>11, <1>12 DEF T

-----------------------------------------------------------------------------
(* The rectangle of an object, its texels and their border.                 *)

Rects == [x0 : Nat, x1 : Int, y0 : Nat, y1 : Int]

LEMMA LeastIs ==
  ASSUME NEW S \in SUBSET Int, IsFiniteSet(S), S # {}
  PROVE  Least(S) \in S /\ \A y \in S : Least(S) <= y
BY ExtremesExist DEF Least

LEMMA GreatestIs ==
  ASSUME NEW S \in SUBSET Int, IsFiniteSet(S), S # {}
  PROVE  Greatest(S) \in S /\ \A y \in S : Greatest(S) >= y
BY ExtremesExist DEF Greatest

LEMMA PairIsFinite ==
  ASSUME NEW a, NEW b
  PROVE  IsFiniteSet({a, b})
<1>1. IsFiniteSet({a}) /\ {a, b} = {a} \union {b}
  BY FS_Singleton
<1> QED
  BY <1>1, FS_AddElement

LEMMA ImageIsFinite ==
  ASSUME NEW S, IsFiniteSet(S), NEW f, DOMAIN f = S, f = [x \in S |-> f[x]]
  PROVE  IsFiniteSet({f[x] : x \in S})
<1> DEFINE T == {f[x] : x \in S}
<1>1. f \in Surjection(S, T)
  BY DEF Surjection
<1> QED
  BY <1>1, FS_Surjection

LEMMA LeastOfTwo ==
  ASSUME NEW a \in Int, NEW b \in Int
  PROVE  Least({a, b}) = IF a <= b THEN a ELSE b
<1>1. Least({a, b}) \in {a, b} /\ \A y \in {a, b} : Least({a, b}) <= y
  BY LeastIs, PairIsFinite
<1> QED
  BY <1>1

LEMMA GreatestOfTwo ==
  ASSUME NEW a \in Int, NEW b \in Int
  PROVE  Greatest({a, b}) = IF a >= b THEN a ELSE b
<1>1. Greatest({a, b}) \in {a, b} /\ \A y \in {a, b} : Greatest({a, b}) >= y
  BY GreatestIs, PairIsFinite
<1> QED
  BY <1>1

LEMMA SizesAre ==
  /\ GridWidth \in Nat \ {0} /\ GridHeight \in Nat \ {0} /\ Full \in Nat \ {0}
  /\ Sub \in Nat \ {0} /\ MaxScratch \in Nat
BY SplatAssumption

LEMMA RectIs ==
  ASSUME NEW o \in Objects, IsFiniteSet(o.texels), SplatsAsGeometry(o)
  PROVE  LET rect == ProjectBoundsToGrid(o)
         IN  rect \in Rects /\ rect.x1 <= GridWidth - 1 /\ rect.y1 <= GridHeight - 1
<1> DEFINE xs == {CellOf(t, Sub)[1] : t \in o.texels}
           ys == {CellOf(t, Sub)[2] : t \in o.texels}
<1>0. GridWidth - 1 \in Int /\ GridHeight - 1 \in Int /\ o.texels \in SUBSET (Int \X Int)
  BY SizesAre DEF Objects
<1>1. xs \in SUBSET Int /\ IsFiniteSet(xs) /\ xs # {}
  <2>1. ASSUME NEW t \in o.texels PROVE CellOf(t, Sub)[1] \in Int
    <3>1. t[1] \in Int
      BY <1>0
    <3>2. t[1] \div Sub \in Int
      BY <3>1, SizesAre
    <3> QED
      BY <3>2 DEF CellOf
  <2>2. IsFiniteSet(xs)
    <3> DEFINE f == [t \in o.texels |-> CellOf(t, Sub)[1]]
    <3>1. f = [t \in o.texels |-> f[t]] /\ DOMAIN f = o.texels
      OBVIOUS
    <3>2. {f[t] : t \in o.texels} = xs
      OBVIOUS
    <3> HIDE DEF f
    <3>3. IsFiniteSet({f[t] : t \in o.texels})
      BY <3>1, ImageIsFinite
    <3> QED
      BY <3>2, <3>3
  <2> QED
    BY <2>1, <2>2 DEF SplatsAsGeometry
<1>2. ys \in SUBSET Int /\ IsFiniteSet(ys) /\ ys # {}
  <2>1. ASSUME NEW t \in o.texels PROVE CellOf(t, Sub)[2] \in Int
    <3>1. t[2] \in Int
      BY <1>0
    <3>2. t[2] \div Sub \in Int
      BY <3>1, SizesAre
    <3> QED
      BY <3>2 DEF CellOf
  <2>2. IsFiniteSet(ys)
    <3> DEFINE f == [t \in o.texels |-> CellOf(t, Sub)[2]]
    <3>1. f = [t \in o.texels |-> f[t]] /\ DOMAIN f = o.texels
      OBVIOUS
    <3>2. {f[t] : t \in o.texels} = ys
      OBVIOUS
    <3> HIDE DEF f
    <3>3. IsFiniteSet({f[t] : t \in o.texels})
      BY <3>1, ImageIsFinite
    <3> QED
      BY <3>2, <3>3
  <2> QED
    BY <2>1, <2>2 DEF SplatsAsGeometry
<1> HIDE DEF xs, ys
<1>3. /\ Least(xs) \in Int /\ Greatest(xs) \in Int
      /\ Least(ys) \in Int /\ Greatest(ys) \in Int
  BY <1>1, <1>2, LeastIs, GreatestIs
<1>4. ProjectBoundsToGrid(o) =
        [x0 |-> Greatest({0, Least(xs)}), x1 |-> Least({GridWidth - 1, Greatest(xs)}),
         y0 |-> Greatest({0, Least(ys)}), y1 |-> Least({GridHeight - 1, Greatest(ys)})]
  BY DEF ProjectBoundsToGrid, xs, ys
<1>5. /\ Greatest({0, Least(xs)}) \in Nat /\ Greatest({0, Least(ys)}) \in Nat
      /\ Least({GridWidth - 1, Greatest(xs)}) \in Int
      /\ Least({GridWidth - 1, Greatest(xs)}) <= GridWidth - 1
      /\ Least({GridHeight - 1, Greatest(ys)}) \in Int
      /\ Least({GridHeight - 1, Greatest(ys)}) <= GridHeight - 1
  BY <1>0, <1>3, LeastOfTwo, GreatestOfTwo
<1> QED
  BY <1>4, <1>5 DEF Rects

LEMMA ResolutionIs ==
  ASSUME NEW rect \in Rects
  PROVE  Resolution(rect) \in Nat \ {0}
<1> DEFINE S == {1} \union {s \in 1 .. Sub : s * s * Cardinality(CellsOf(rect)) <= MaxScratch}
<1>1. S \in SUBSET (1 .. Sub) /\ 1 \in S
  BY SizesAre
<1>2. IsFiniteSet(S)
  <2>1. IsFiniteSet(1 .. Sub)
    BY SizesAre, FS_Interval
  <2> QED
    BY <1>1, <2>1, FS_Subset
<1>3. Greatest(S) \in S
  <2>1. S \in SUBSET Int /\ S # {}
    BY <1>1
  <2> HIDE DEF S
  <2> QED
    BY <1>2, <2>1, GreatestIs
<1> QED
  BY <1>1, <1>3 DEF Resolution

LEMMA TexelsAre ==
  ASSUME NEW rect \in Rects, IsValid(rect), NEW s \in Nat \ {0}
  PROVE  /\ rect.x0 * s \in Int /\ rect.y0 * s \in Int
         /\ Width(rect, s) \in Nat \ {0} /\ Height(rect, s) \in Nat \ {0}
         /\ rect.x1 * s + s - 1 = rect.x0 * s + Width(rect, s) - 1
         /\ rect.y1 * s + s - 1 = rect.y0 * s + Height(rect, s) - 1
         /\ TexelsOf(rect, s) = (rect.x0 * s .. rect.x0 * s + Width(rect, s) - 1) \X
                                (rect.y0 * s .. rect.y0 * s + Height(rect, s) - 1)
<1>0. /\ rect.x0 \in Nat /\ rect.x1 \in Int /\ rect.y0 \in Nat /\ rect.y1 \in Int
      /\ rect.x0 <= rect.x1 /\ rect.y0 <= rect.y1
  BY DEF Rects, IsValid
<1>1. ASSUME NEW a \in Nat, NEW b \in Int, a <= b
      PROVE  /\ a * s \in Int /\ (b - a + 1) * s \in Nat \ {0}
             /\ b * s + s - 1 = a * s + (b - a + 1) * s - 1
  <2>1. /\ a * s \in Int /\ b * s \in Int /\ (b - a) * s \in Int
        /\ (b - a) * s = b * s - a * s /\ (b - a + 1) * s = (b - a) * s + s
    OBVIOUS
  <2>2. (b - a) * s >= 0
    <3>1. b - a \in Nat
      BY <1>1
    <3> QED
      BY <3>1, Product
  <2> QED
    BY <2>1, <2>2
<1>2. /\ rect.x0 * s \in Int /\ Width(rect, s) \in Nat \ {0}
      /\ rect.x1 * s + s - 1 = rect.x0 * s + Width(rect, s) - 1
  BY <1>0, <1>1 DEF Width
<1>3. /\ rect.y0 * s \in Int /\ Height(rect, s) \in Nat \ {0}
      /\ rect.y1 * s + s - 1 = rect.y0 * s + Height(rect, s) - 1
  BY <1>0, <1>1 DEF Height
<1> QED
  BY <1>2, <1>3 DEF TexelsOf

LEMMA TexelsFinite ==
  ASSUME NEW rect \in Rects, IsValid(rect), NEW s \in Nat \ {0}
  PROVE  IsFiniteSet(TexelsOf(rect, s))
<1> DEFINE a == rect.x0 * s   w == Width(rect, s)
           c == rect.y0 * s   h == Height(rect, s)
<1>1. /\ a \in Int /\ w \in Nat /\ c \in Int /\ h \in Nat
      /\ TexelsOf(rect, s) = (a .. a + w - 1) \X (c .. c + h - 1)
  BY TexelsAre
<1> HIDE DEF a, w, c, h
<1>2. IsFiniteSet(a .. a + w - 1) /\ IsFiniteSet(c .. c + h - 1)
  <2>1. a + w - 1 \in Int /\ c + h - 1 \in Int
    BY <1>1
  <2> QED
    BY <1>1, <2>1, FS_Interval
<1>3. IsFiniteSet((a .. a + w - 1) \X (c .. c + h - 1))
  BY <1>2, FS_Product, Zenon
<1> QED
  BY <1>1, <1>3

(* What is pushed first is the edge.                                        *)
LEMMA BorderIsEdge ==
  ASSUME NEW rect \in Rects, IsValid(rect), NEW s \in Nat \ {0}
  PROVE  /\ Len(Border(rect, s)) \in Nat
         /\ \A n \in 1 .. Len(Border(rect, s)) :
              Border(rect, s)[n] \in TexelsOf(rect, s) => Border(rect, s)[n] \in Edge(rect, s)
         /\ \A t \in Edge(rect, s) : \E n \in 1 .. Len(Border(rect, s)) : Border(rect, s)[n] = t
<1> DEFINE a == rect.x0 * s   w == Width(rect, s)
           c == rect.y0 * s   h == Height(rect, s)
           K(n) == (n - 1) \div 2
           J(n) == (n - 1) % 2
           At(n) == IF n <= 2 * w THEN <<a + K(n), c + J(n) * (h - 1)>>
                    ELSE <<a + J(n) * (w - 1), c + K(n) - w>>
           b == [n \in 1 .. 2 * w + 2 * h |-> At(n)]
<1>1. /\ a \in Int /\ w \in Nat \ {0} /\ c \in Int /\ h \in Nat \ {0}
      /\ TexelsOf(rect, s) = (a .. a + w - 1) \X (c .. c + h - 1)
      /\ Edge(rect, s) = {t \in TexelsOf(rect, s) : t[1] \in {a, a + w - 1} \/ t[2] \in {c, c + h - 1}}
  BY TexelsAre DEF Edge
<1>2. Border(rect, s) = b
  BY DEF Border
<1> HIDE DEF a, w, c, h
<1>3. Len(b) = 2 * w + 2 * h
  <2>1. b \in [1 .. 2 * w + 2 * h -> Int \X Int]
    <3> SUFFICES ASSUME NEW n \in 1 .. 2 * w + 2 * h PROVE At(n) \in Int \X Int
      OBVIOUS
    <3>1. n \in Nat /\ K(n) \in Int /\ J(n) \in {0, 1}
      BY <1>1
    <3>2. J(n) * (h - 1) \in Int /\ J(n) * (w - 1) \in Int
      BY <1>1, <3>1
    <3> HIDE DEF K, J
    <3> QED
      BY <1>1, <3>1, <3>2
  <2>2. b \in Seq(Int \X Int)
    <3> HIDE DEF b
    <3> QED
      BY <1>1, <2>1, FunctionIsSeq
  <2>3. DOMAIN b = 1 .. 2 * w + 2 * h
    OBVIOUS
  <2> HIDE DEF b
  <2> QED
    BY <1>1, <2>2, <2>3
<1>4. ASSUME NEW n \in 1 .. 2 * w + 2 * h
      PROVE  b[n] \in TexelsOf(rect, s) => b[n] \in Edge(rect, s)
  <2>1. J(n) \in {0, 1} /\ K(n) \in Int
    BY <1>1
  <2>2. b[n] = At(n)
    OBVIOUS
  <2>3. J(n) * (h - 1) \in {0, h - 1} /\ J(n) * (w - 1) \in {0, w - 1}
    BY <1>1, <2>1
  <2> HIDE DEF K, J, b
  <2>4. b[n][1] \in {a, a + w - 1} \/ b[n][2] \in {c, c + h - 1}
    BY <1>1, <2>1, <2>2, <2>3
  <2> QED
    BY <1>1, <2>4
<1>5. ASSUME NEW t \in Edge(rect, s)
      PROVE  \E n \in 1 .. 2 * w + 2 * h : b[n] = t
  <2> DEFINE x == t[1]   y == t[2]
  <2>0. /\ t = <<x, y>> /\ x \in a .. a + w - 1 /\ y \in c .. c + h - 1
        /\ x \in {a, a + w - 1} \/ y \in {c, c + h - 1}
    BY <1>1
  <2> HIDE DEF x, y
  <2>1. ASSUME NEW k \in Nat, NEW j \in {0, 1}
        PROVE  K(2 * k + 1 + j) = k /\ J(2 * k + 1 + j) = j
    OBVIOUS
  <2>2. CASE y \in {c, c + h - 1}
    <3> DEFINE k == x - a
               j == IF y = c THEN 0 ELSE 1
               n == 2 * k + 1 + j
    <3>1. k \in Nat /\ j \in {0, 1} /\ n \in 1 .. 2 * w
      BY <1>1, <2>0
    <3>2. K(n) = k /\ J(n) = j
      BY <2>1, <3>1
    <3>3. j * (h - 1) = y - c
      BY <1>1, <2>0, <2>2
    <3>4. a + k = x /\ c + (y - c) = y
      BY <1>1, <2>0
    <3> HIDE DEF K, J, k, j, n
    <3>5. At(n) = t
      BY <1>1, <2>0, <3>1, <3>2, <3>3, <3>4
    <3>6. n \in 1 .. 2 * w + 2 * h
      BY <1>1, <3>1
    <3> QED
      BY <3>5, <3>6
  <2>3. CASE x \in {a, a + w - 1}
    <3> DEFINE k == w + (y - c)
               j == IF x = a THEN 0 ELSE 1
               n == 2 * k + 1 + j
    <3>1. k \in Nat /\ j \in {0, 1} /\ n \in 1 .. 2 * w + 2 * h /\ ~(n <= 2 * w)
      BY <1>1, <2>0
    <3>2. K(n) = k /\ J(n) = j
      BY <2>1, <3>1
    <3>3. j * (w - 1) = x - a
      BY <1>1, <2>0, <2>3
    <3>4. c + k - w = y /\ a + (x - a) = x
      BY <1>1, <2>0
    <3> HIDE DEF K, J, k, j, n
    <3>5. At(n) = t
      BY <1>1, <2>0, <3>1, <3>2, <3>3, <3>4
    <3> QED
      BY <3>1, <3>5
  <2> QED
    BY <2>0, <2>2, <2>3
<1> HIDE DEF b
<1>6. 2 * w + 2 * h \in Nat
  BY <1>1
<1> QED
  BY <1>2, <1>3, <1>4, <1>5, <1>6

-----------------------------------------------------------------------------
(* What is drawn is what is meant.                                          *)

LEMMA FillIs ==
  ASSUME NEW rect \in Rects, IsValid(rect), NEW s \in Nat \ {0},
         NEW bits \in SUBSET TexelsOf(rect, s)
  PROVE  FillEnclosedAreas(bits, rect, s) =
           TexelsOf(rect, s) \ Reachable(Edge(rect, s) \intersect (TexelsOf(rect, s) \ bits),
                                         TexelsOf(rect, s) \ bits)
<1> DEFINE T == TexelsOf(rect, s)
           Z == T \ bits
           b == Border(rect, s)
           S == Edge(rect, s) \intersect Z
           K == Reachable(S, Z)
           f == Marked(Z, b)
           g == Drain(f)
<1>0. Edge(rect, s) \subseteq T
  BY DEF Edge
<1>1. IsFiniteSet(Z)
  BY TexelsFinite, FS_Subset
<1>2. /\ Len(b) \in Nat
      /\ \A n \in 1 .. Len(b) : b[n] \in T => b[n] \in Edge(rect, s)
      /\ \A t \in Edge(rect, s) : \E n \in 1 .. Len(b) : b[n] = t
  BY BorderIsEdge
<1>3. FillEnclosedAreas(bits, rect, s) = bits \union g.zero
  BY DEF FillEnclosedAreas
<1> HIDE DEF T, b
<1>4. /\ S \subseteq K /\ K \subseteq Z /\ NoneLeaves(K, Z)
      /\ \A M \in SUBSET Z : S \subseteq M /\ NoneLeaves(M, Z) => K \subseteq M
  <2>1. S \in SUBSET Z
    OBVIOUS
  <2> HIDE DEF S, Z
  <2> QED
    BY <1>1, <2>1, ReachableIs
<1>5. \A n \in 1 .. Len(b) : b[n] \in Z => b[n] \in K
  BY <1>2, <1>4
<1> HIDE DEF K
<1>6. /\ Within(f, Z, K) /\ Waits(f, Z)
      /\ \A n \in 1 .. Len(b) : b[n] \notin f.zero
  <2> HIDE DEF Z
  <2> QED
    BY <1>1, <1>2, <1>5, MarkedIs
<1> HIDE DEF f
<1>7. /\ g.zero \subseteq f.zero /\ Z \ g.zero \subseteq K
      /\ \A u \in Z \ g.zero : Near(u) \intersect g.zero = {}
  <2> HIDE DEF Z
  <2> QED
    BY <1>1, <1>4, <1>6, DrainEnds
<1> HIDE DEF g
<1>8. f.zero \in SUBSET Z
  BY <1>6 DEF Within, Fills
<1>9. S \subseteq Z \ g.zero
  BY <1>2, <1>6, <1>7
<1>10. NoneLeaves(Z \ g.zero, Z)
  BY <1>7 DEF NoneLeaves
<1>11. K \subseteq Z \ g.zero
  <2>1. Z \ g.zero \in SUBSET Z
    OBVIOUS
  <2> QED
    BY <1>4, <1>9, <1>10, <2>1
<1>12. g.zero = Z \ K
  BY <1>7, <1>8, <1>11
<1>13. bits \union g.zero = T \ K
  BY <1>4, <1>12 DEF T
<1> QED
  BY <1>3, <1>13 DEF K, S, T

LEMMA RasterIsCovered ==
  ASSUME NEW o \in Objects, NEW rect \in Rects, IsValid(rect), NEW s \in Nat \ {0},
         NEW memory \in {"all", "outline"}
  PROVE  RasterizeProjected(o, rect, s, memory) =
           Covered([o EXCEPT !.fill = @ /\ memory # "outline"], rect, s)
<1> DEFINE p == [o EXCEPT !.fill = @ /\ memory # "outline"]
           bits == Sampled(o, rect, s)
<1>1. p.texels = o.texels /\ p.fill = (o.fill /\ memory # "outline")
  BY DEF Objects
<1>2. Sampled(p, rect, s) = bits /\ bits \in SUBSET TexelsOf(rect, s)
  BY <1>1 DEF Sampled
<1> HIDE DEF p, bits
<1>3. CASE o.fill /\ memory # "outline"
  <2>1. RasterizeProjected(o, rect, s, memory) = FillEnclosedAreas(bits, rect, s)
    BY <1>3 DEF RasterizeProjected, bits
  <2>2. Covered(p, rect, s) =
          TexelsOf(rect, s) \ Reachable(Edge(rect, s) \intersect (TexelsOf(rect, s) \ bits),
                                        TexelsOf(rect, s) \ bits)
    BY <1>1, <1>2, <1>3 DEF Covered
  <2>3. RasterizeProjected(o, rect, s, memory) = Covered(p, rect, s)
    BY <1>2, <2>1, <2>2, FillIs
  <2> QED
    BY <2>3 DEF p
<1>4. CASE ~(o.fill /\ memory # "outline")
  <2>1. RasterizeProjected(o, rect, s, memory) = bits
    BY <1>4 DEF RasterizeProjected, bits
  <2>2. Covered(p, rect, s) = TexelsOf(rect, s) \ (TexelsOf(rect, s) \ bits)
    BY <1>1, <1>2, <1>4 DEF Covered
  <2> QED
    BY <1>2, <2>1, <2>2 DEF p
<1> QED
  BY <1>3, <1>4 DEF p

LEMMA CountIsBounded ==
  ASSUME NEW rect \in Rects, IsValid(rect), NEW s \in Nat \ {0},
         NEW bits \in SUBSET TexelsOf(rect, s), NEW c \in Nat \X Nat
  PROVE  Cardinality({t \in bits : CellOf(t, s) = c}) \in 0 .. s * s
<1> DEFINE X == c[1] * s .. c[1] * s + s - 1
           Y == c[2] * s .. c[2] * s + s - 1
           H == {t \in bits : CellOf(t, s) = c}
<1>1. c = <<c[1], c[2]>> /\ c[1] \in Nat /\ c[2] \in Nat /\ c[1] * s \in Nat /\ c[2] * s \in Nat
  BY Product
<1>2. IsFiniteSet(X) /\ IsFiniteSet(Y) /\ Cardinality(X) = s /\ Cardinality(Y) = s
  <2>1. ASSUME NEW n \in Nat
        PROVE  IsFiniteSet(n .. n + s - 1) /\ Cardinality(n .. n + s - 1) = s
    <3>1. n \in Int /\ n + s - 1 \in Int /\ ~(n > n + s - 1) /\ (n + s - 1) - n + 1 = s
      OBVIOUS
    <3> QED
      BY <3>1, FS_Interval
  <2> QED
    BY <1>1, <2>1
<1>3. H \subseteq X \X Y
  <2> SUFFICES ASSUME NEW t \in bits, CellOf(t, s) = c
               PROVE  t \in X \X Y
    OBVIOUS
  <2>1. t \in Nat \X Nat
    <3>1. /\ rect.x0 * s \in Nat /\ rect.y0 * s \in Nat
          /\ TexelsOf(rect, s) = (rect.x0 * s .. rect.x1 * s + s - 1) \X
                                 (rect.y0 * s .. rect.y1 * s + s - 1)
      BY Product DEF Rects, TexelsOf
    <3>2. rect.x1 * s + s - 1 \in Int /\ rect.y1 * s + s - 1 \in Int
      BY DEF Rects
    <3> QED
      BY <3>1, <3>2
  <2>2. t[1] \div s = c[1] /\ t[2] \div s = c[2]
    BY DEF CellOf
  <2>3. \A n \in Nat : n = s * (n \div s) + (n % s) /\ n % s \in 0 .. s - 1 /\ n \div s \in Nat
    BY Division
  <2>4. \A n, q \in Nat : n \div s = q => n \in q * s .. q * s + s - 1
    <3> SUFFICES ASSUME NEW n \in Nat, NEW q \in Nat, n \div s = q
                 PROVE  n \in q * s .. q * s + s - 1
      OBVIOUS
    <3>1. n % s \in 0 .. s - 1 /\ n = s * q + (n % s) /\ s * q = q * s /\ q * s \in Nat
      <4>1. n = s * (n \div s) + (n % s) /\ n % s \in 0 .. s - 1
        BY <2>3
      <4>2. s * q = q * s /\ q * s \in Nat
        BY Product
      <4> QED
        BY <4>1, <4>2
    <3> QED
      BY <3>1
  <2> QED
    BY <1>1, <2>1, <2>2, <2>4
<1>4. IsFiniteSet(X \X Y) /\ Cardinality(X \X Y) = s * s
  <2> HIDE DEF X, Y
  <2> QED
    BY <1>2, FS_Product
<1>5. IsFiniteSet(H) /\ Cardinality(H) <= s * s
  <2> HIDE DEF X, Y, H
  <2> QED
    BY <1>3, <1>4, FS_Subset
<1>6. Cardinality(H) \in Nat
  BY <1>5, FS_CardinalityType
<1> HIDE DEF H
<1>7. s * s \in Nat
  BY Product
<1> QED
  BY <1>5, <1>6, <1>7 DEF H

(* Adding a half and cutting is rounding to the nearest.                    *)
LEMMA RoundIsLeast ==
  ASSUME NEW Q \in Nat \ {0}, NEW D \in Nat, NEW d \in Nat, D <= Q * d
  PROVE  LET S == {n \in 0 .. d : 2 * (Q * n) + Q > 2 * D}
         IN  Least(S) = (2 * D + Q) \div (2 * Q) /\ Least(S) \in Nat
<1> DEFINE S == {n \in 0 .. d : 2 * (Q * n) + Q > 2 * D}
           q == (2 * D + Q) \div (2 * Q)
           r == (2 * D + Q) % (2 * Q)
<1>1. q \in Nat /\ r \in 0 .. 2 * Q - 1 /\ 2 * D + Q = 2 * Q * q + r
  <2>1. 2 * D + Q \in Nat /\ 2 * Q \in Nat \ {0}
    OBVIOUS
  <2> QED
    BY <2>1, Division
<1> HIDE DEF q, r
<1>2. \A n \in Nat : Q * n \in Nat /\ 2 * Q * n = 2 * (Q * n)
  OBVIOUS
<1>3. \A m, n \in Nat : m < n => Q * m + Q <= Q * n
  <2> SUFFICES ASSUME NEW m \in Nat, NEW n \in Nat, m < n PROVE Q * m + Q <= Q * n
    OBVIOUS
  <2>1. m + 1 \in Nat /\ m + 1 <= n
    OBVIOUS
  <2>2. (m + 1) * Q <= n * Q
    BY <2>1, Product
  <2> QED
    BY <2>2
<1>4. q <= d
  <2> SUFFICES ASSUME d < q PROVE FALSE
    BY <1>1
  <2>1. Q * d + Q <= Q * q
    BY <1>1, <1>3
  <2> QED
    BY <1>1, <1>2, <2>1
<1>5. 2 * (Q * q) + Q > 2 * D
  BY <1>1, <1>2
<1>6. \A n \in Nat : n < q => ~(2 * (Q * n) + Q > 2 * D)
  <2> SUFFICES ASSUME NEW n \in Nat, n < q PROVE 2 * (Q * n) + Q <= 2 * D
    BY <1>2
  <2>1. Q * n + Q <= Q * q
    BY <1>1, <1>3
  <2> QED
    BY <1>1, <1>2, <2>1
<1>7. q \in S /\ S \in SUBSET Int /\ IsFiniteSet(S)
  <2>1. q \in S /\ S \in SUBSET (0 .. d)
    BY <1>1, <1>4, <1>5
  <2>2. IsFiniteSet(0 .. d) /\ 0 .. d \subseteq Int
    BY FS_Interval
  <2> HIDE DEF S
  <2>3. IsFiniteSet(S)
    BY <2>1, <2>2, FS_Subset
  <2> QED
    BY <2>1, <2>2, <2>3
<1>8. Least(S) \in S /\ Least(S) <= q
  <2> HIDE DEF S
  <2> QED
    BY <1>7, LeastIs
<1>9. \A n \in S : n \in Nat /\ 2 * (Q * n) + Q > 2 * D
  OBVIOUS
<1> HIDE DEF S
<1>11. Least(S) = q
  <2>1. Least(S) \in Nat /\ 2 * (Q * Least(S)) + Q > 2 * D
    BY <1>8, <1>9
  <2>2. ~(Least(S) < q)
    BY <1>6, <2>1
  <2> QED
    BY <1>1, <1>8, <2>1, <2>2
<1>10. Least(S) = q /\ Least(S) \in Nat
  BY <1>1, <1>11
<1> QED
  BY <1>10 DEF S, q

LEMMA ShareIsRounded ==
  ASSUME NEW s \in Nat \ {0}, NEW count \in 0 .. s * s, NEW d \in Nat
  PROVE  LET least == Least({n \in 0 .. d : 2 * s * s * n + s * s > 2 * count * d})
         IN  least = (2 * count * d + s * s) \div (2 * s * s) /\ least \in Nat
<1> DEFINE Q == s * s
           D == count * d
<1>0. Q \in Nat \ {0} /\ count \in Nat
  <2>1. \A a, b \in Nat \ {0} : a * b \in Nat \ {0}
    OBVIOUS
  <2> QED
    BY <2>1
<1>1. D \in Nat /\ D <= Q * d
  <2>1. count <= Q
    OBVIOUS
  <2> HIDE DEF Q
  <2> QED
    BY <1>0, <2>1, Product
<1>2. 2 * s * s = 2 * Q /\ 2 * count * d = 2 * D
  BY <1>0
<1>3. \A n \in 0 .. d : 2 * s * s * n = 2 * (Q * n)
  BY <1>0, <1>2
<1>4. {n \in 0 .. d : 2 * s * s * n + s * s > 2 * count * d} =
        {n \in 0 .. d : 2 * (Q * n) + Q > 2 * D}
  BY <1>2, <1>3
<1> HIDE DEF D
<1>5. (2 * D + Q) \div (2 * Q) = (2 * count * d + s * s) \div (2 * s * s)
  BY <1>2
<1> HIDE DEF Q
<1> QED
  BY <1>0, <1>1, <1>4, <1>5, RoundIsLeast

LEMMA CellsAreOnGrid ==
  ASSUME NEW rect \in Rects, rect.x1 <= GridWidth - 1, rect.y1 <= GridHeight - 1
  PROVE  CellsOf(rect) \subseteq Cells /\ Cells \subseteq Nat \X Nat
<1>1. /\ rect.x0 .. rect.x1 \subseteq 0 .. GridWidth - 1
      /\ rect.y0 .. rect.y1 \subseteq 0 .. GridHeight - 1
  BY SizesAre DEF Rects
<1>2. 0 .. GridWidth - 1 \subseteq Nat /\ 0 .. GridHeight - 1 \subseteq Nat
  BY SizesAre
<1> QED
  BY <1>1, <1>2 DEF CellsOf, Cells

(* One object on one cell.                                                  *)
LEMMA SplatIsMeant ==
  ASSUME NEW o \in Objects, IsFiniteSet(o.texels), NEW d \in Nat,
         NEW memory \in {"all", "outline"}
  PROVE  LET splat == Splat(o, d, memory)
             drawn == [o EXCEPT !.fill = @ /\ memory # "outline"]
         IN  /\ DOMAIN splat \subseteq Cells
             /\ \A c \in Cells : /\ Meant(drawn, c, d) \in Nat
                                 /\ c \in DOMAIN splat => splat[c] = Meant(drawn, c, d)
                                 /\ c \notin DOMAIN splat => Meant(drawn, c, d) = 0
<1> DEFINE splat == Splat(o, d, memory)
           p == [o EXCEPT !.fill = @ /\ memory # "outline"]
           rect == ProjectBoundsToGrid(o)
           s == Resolution(rect)
           home == {o.home} \intersect Cells
<1>1. /\ p.texels = o.texels /\ p.home = o.home
      /\ ProjectBoundsToGrid(p) = rect
      /\ SplatsAsGeometry(p) = SplatsAsGeometry(o)
  <2>1. p.texels = o.texels /\ p.home = o.home
    BY DEF Objects
  <2> HIDE DEF p
  <2> QED
    BY <2>1 DEF ProjectBoundsToGrid, SplatsAsGeometry
<1>2. CASE ~SplatsAsGeometry(o)
  <2>1. splat = [c \in home |-> d]
    BY <1>2 DEF Splat, SplatSinglePoint
  <2>2. \A c \in Cells : Meant(p, c, d) = IF c = o.home THEN d ELSE 0
    BY <1>1, <1>2 DEF Meant
  <2> HIDE DEF splat, p
  <2>3. /\ DOMAIN splat \subseteq Cells
        /\ \A c \in Cells : /\ Meant(p, c, d) \in Nat
                            /\ c \in DOMAIN splat => splat[c] = Meant(p, c, d)
                            /\ c \notin DOMAIN splat => Meant(p, c, d) = 0
    BY <2>1, <2>2
  <2> QED
    BY <2>3 DEF splat, p
<1>3. CASE SplatsAsGeometry(o) /\ ~(IsValid(rect) /\ FitsScratch(rect))
  <2>1. splat = Nothing
    BY <1>3 DEF Splat
  <2>2. \A c \in Cells : Meant(p, c, d) = 0
    BY <1>1, <1>3 DEF Meant
  <2>3. DOMAIN splat = {}
    BY <2>1 DEF Nothing
  <2> HIDE DEF splat, p
  <2>4. /\ DOMAIN splat \subseteq Cells
        /\ \A c \in Cells : /\ Meant(p, c, d) \in Nat
                            /\ c \in DOMAIN splat => splat[c] = Meant(p, c, d)
                            /\ c \notin DOMAIN splat => Meant(p, c, d) = 0
    BY <2>2, <2>3
  <2> QED
    BY <2>4 DEF splat, p
<1>4. CASE SplatsAsGeometry(o) /\ IsValid(rect) /\ FitsScratch(rect)
  <2> DEFINE bits == RasterizeProjected(o, rect, s, memory)
             Count(c) == Cardinality({t \in bits : CellOf(t, s) = c})
             Least2(c) == Least({n \in 0 .. d : 2 * s * s * n + s * s > 2 * Count(c) * d})
  <2>1. rect \in Rects /\ rect.x1 <= GridWidth - 1 /\ rect.y1 <= GridHeight - 1
    BY <1>4, RectIs
  <2>2. s \in Nat \ {0}
    BY <2>1, ResolutionIs
  <2>3. splat = DownsampleToGrid(o, rect, d, memory)
    BY <1>4 DEF Splat
  <2>4. splat = [c \in CellsOf(rect) \union home |-> IF c \in home THEN d ELSE Share(bits, s, c, d)]
    BY <2>3 DEF DownsampleToGrid
  <2>5. bits = Covered(p, rect, s)
    <3> HIDE DEF rect, s
    <3> QED
      BY <1>4, <2>1, <2>2, RasterIsCovered
  <2>6. \A c \in Cells : Meant(p, c, d) =
          IF c = o.home THEN d ELSE IF c \in CellsOf(rect) THEN Least2(c) ELSE 0
    BY <1>1, <1>4, <2>5 DEF Meant
  <2>7. bits \in SUBSET TexelsOf(rect, s)
    BY <2>5 DEF Covered
  <2>8. CellsOf(rect) \subseteq Cells /\ Cells \subseteq Nat \X Nat
    BY <2>1, CellsAreOnGrid
  <2> HIDE DEF splat, p, rect, s, bits
  <2>9. ASSUME NEW c \in Cells PROVE Share(bits, s, c, d) = Least2(c) /\ Least2(c) \in Nat
    <3>1. Count(c) \in 0 .. s * s
      BY <1>4, <2>1, <2>2, <2>7, <2>8, CountIsBounded
    <3>2. Share(bits, s, c, d) = (2 * Count(c) * d + s * s) \div (2 * s * s)
      BY DEF Share
    <3> HIDE DEF Count
    <3> QED
      BY <2>2, <3>1, <3>2, ShareIsRounded
  <2> HIDE DEF Least2
  <2>10. DOMAIN splat \subseteq Cells
    BY <2>4, <2>8
  <2>11. ASSUME NEW c \in Cells
         PROVE  /\ Meant(p, c, d) \in Nat
                /\ c \in DOMAIN splat => splat[c] = Meant(p, c, d)
                /\ c \notin DOMAIN splat => Meant(p, c, d) = 0
    <3>1. c \in home <=> c = o.home
      OBVIOUS
    <3> QED
      BY <2>4, <2>6, <2>9, <3>1
  <2> QED
    BY <2>10, <2>11 DEF splat, p
<1> QED
  BY <1>2, <1>3, <1>4

-----------------------------------------------------------------------------
(* Layers and the places of their bytes.                                    *)

LEMMA LayersAre ==
  /\ Len(LayerOrder) = 3 /\ IsFiniteSet(Layers)
  /\ \A i \in 1 .. 3 : LayerOrder[i] \in Layers
  /\ \A l \in Layers : \E i \in 1 .. 3 : LayerOrder[i] = l
  /\ \A i, j \in 1 .. 3 : LayerOrder[i] = LayerOrder[j] => i = j
<1>1. /\ Len(LayerOrder) = 3
      /\ LayerOrder[1] = "Tree" /\ LayerOrder[2] = "Grass" /\ LayerOrder[3] = "Bush"
  BY DEF LayerOrder
<1>2. IsFiniteSet({"Tree", "Grass"}) /\ Layers = {"Tree", "Grass"} \union {"Bush"}
  BY PairIsFinite DEF Layers
<1>3. IsFiniteSet(Layers)
  BY <1>2, FS_AddElement
<1>4. \A i \in 1 .. 3 : i = 1 \/ i = 2 \/ i = 3
  OBVIOUS
<1> QED
  BY <1>1, <1>3, <1>4 DEF Layers

LEMMA MasksAre ==
  ASSUME NEW mask \in SUBSET Layers
  PROVE  IsFiniteSet(mask) /\ PopCount(mask) \in Nat /\ (PopCount(mask) = 0 <=> mask = {})
<1>1. IsFiniteSet(mask)
  BY LayersAre, FS_Subset
<1> QED
  BY <1>1, FS_CardinalityType, FS_EmptySet DEF PopCount

LEMMA BeforeIs ==
  ASSUME NEW i \in 1 .. 3
  PROVE  Before(LayerOrder[i]) = {LayerOrder[k] : k \in 1 .. i - 1}
<1>1. DOMAIN LayerOrder = 1 .. 3
  BY DEF LayerOrder
<1>2. Before(LayerOrder[i]) =
        {m \in Layers : \E k, j \in 1 .. 3 : k < j /\ LayerOrder[k] = m /\ LayerOrder[j] = LayerOrder[i]}
  BY <1>1 DEF Before
<1>3. \A m : m \in Before(LayerOrder[i]) <=> \E k \in 1 .. i - 1 : LayerOrder[k] = m
  <2>1. \A k \in 1 .. i - 1 : k \in 1 .. 3 /\ k < i /\ LayerOrder[k] \in Layers
    BY LayersAre
  <2>2. \A k, j \in 1 .. 3 : k < j /\ LayerOrder[j] = LayerOrder[i] => k \in 1 .. i - 1
    BY LayersAre
  <2> QED
    BY <1>2, <2>1, <2>2
<1> QED
  BY <1>3

(* Every enabled layer has a channel of its own.                            *)
LEMMA ChannelsAre ==
  ASSUME NEW mask \in SUBSET Layers
  PROVE  /\ \A l \in mask : Channel(mask, l) \in 0 .. PopCount(mask) - 1
         /\ \A l, m \in mask : Channel(mask, l) = Channel(mask, m) => l = m
<1>1. ASSUME NEW S \in SUBSET mask, NEW T \in SUBSET mask, S \subseteq T, NEW x \in T, x \notin S
      PROVE  Cardinality(S) \in Nat /\ Cardinality(T) \in Nat /\ Cardinality(S) < Cardinality(T)
  <2>1. IsFiniteSet(S) /\ IsFiniteSet(T)
    BY MasksAre, FS_Subset
  <2>2. Cardinality(S) <= Cardinality(T) /\ (Cardinality(T) = Cardinality(S) => T = S)
    BY <1>1, <2>1, FS_Subset
  <2>3. Cardinality(S) \in Nat /\ Cardinality(T) \in Nat
    BY <2>1, FS_CardinalityType
  <2> QED
    BY <1>1, <2>2, <2>3
<1>2. ASSUME NEW l \in mask PROVE Channel(mask, l) \in 0 .. PopCount(mask) - 1
  <2>1. PICK i \in 1 .. 3 : LayerOrder[i] = l
    BY LayersAre
  <2>2. l \notin Before(l)
    <3>1. \A k \in 1 .. i - 1 : k \in 1 .. 3 /\ k # i
      OBVIOUS
    <3> QED
      BY <2>1, <3>1, BeforeIs, LayersAre
  <2>3. /\ Cardinality(Before(l) \intersect mask) \in Nat /\ Cardinality(mask) \in Nat
        /\ Cardinality(Before(l) \intersect mask) < Cardinality(mask)
    BY <1>1, <2>2
  <2> QED
    BY <2>3 DEF Channel, PopCount
<1>3. ASSUME NEW i \in 1 .. 3, NEW j \in 1 .. 3, i < j, LayerOrder[i] \in mask
      PROVE  Channel(mask, LayerOrder[i]) # Channel(mask, LayerOrder[j])
  <2> DEFINE l == LayerOrder[i]   m == LayerOrder[j]
             S == Before(l) \intersect mask
             T == Before(m) \intersect mask
  <2>1. Before(l) = {LayerOrder[k] : k \in 1 .. i - 1} /\ Before(m) = {LayerOrder[k] : k \in 1 .. j - 1}
    BY BeforeIs
  <2>2. \A k \in 1 .. i - 1 : k \in 1 .. j - 1 /\ k \in 1 .. 3 /\ k # i
    BY <1>3
  <2>3. i \in 1 .. j - 1
    BY <1>3
  <2>4. S \subseteq T /\ l \in T /\ l \notin S
    <3>1. l \notin Before(l)
      BY <2>1, <2>2, LayersAre
    <3>2. Before(l) \subseteq Before(m) /\ l \in Before(m)
      BY <2>1, <2>2, <2>3
    <3> QED
      BY <1>3, <3>1, <3>2
  <2>5. Cardinality(S) \in Nat /\ Cardinality(T) \in Nat /\ Cardinality(S) < Cardinality(T)
    <3> HIDE DEF l, S, T
    <3>1. S \in SUBSET mask /\ T \in SUBSET mask
      BY DEF S, T
    <3> QED
      BY <1>1, <2>4, <3>1
  <2> QED
    BY <2>5 DEF Channel
<1>4. ASSUME NEW l \in mask, NEW m \in mask, Channel(mask, l) = Channel(mask, m) PROVE l = m
  <2>1. PICK i \in 1 .. 3 : LayerOrder[i] = l
    BY LayersAre
  <2>2. PICK j \in 1 .. 3 : LayerOrder[j] = m
    BY LayersAre
  <2>3. ~(i < j) /\ ~(j < i)
    BY <1>3, <1>4, <2>1, <2>2
  <2> QED
    BY <2>1, <2>2, <2>3
<1> QED
  BY <1>2, <1>4

PlaceOf(c, mask, l) == (c[2] * GridWidth + c[1]) * PopCount(mask) + Channel(mask, l)

LEMMA CellIsCounted ==
  ASSUME NEW c \in Cells, NEW n \in Nat, NEW b \in 0 .. n - 1
  PROVE  /\ c[1] \in 0 .. GridWidth - 1 /\ c[2] \in 0 .. GridHeight - 1 /\ c = <<c[1], c[2]>>
         /\ c[2] * GridWidth + c[1] \in 0 .. GridWidth * GridHeight - 1
         /\ (c[2] * GridWidth + c[1]) * n + b \in 0 .. Size(n) - 1
<1>1. c[1] \in 0 .. GridWidth - 1 /\ c[2] \in 0 .. GridHeight - 1 /\ c = <<c[1], c[2]>>
  BY DEF Cells
<1> DEFINE w == GridWidth   h == GridHeight
           cell == c[2] * w + c[1]
<1>2. w \in Nat \ {0} /\ h \in Nat \ {0} /\ w * h \in Nat
  BY SizesAre, Product
<1>3. cell \in 0 .. w * h - 1
  <2>1. c[2] \in Nat /\ h - 1 \in Nat /\ c[2] <= h - 1
    BY <1>1, <1>2
  <2>2. c[2] * w \in Nat /\ c[2] * w <= (h - 1) * w
    BY <1>2, <2>1, Product
  <2>3. (h - 1) * w = w * h - w
    BY <1>2
  <2> HIDE DEF w, h
  <2> QED
    BY <1>1, <1>2, <2>2, <2>3 DEF w
<1> HIDE DEF cell
<1>4. cell * n + b \in 0 .. (w * h) * n - 1
  <2>1. cell \in Nat /\ w * h - 1 \in Nat /\ cell <= w * h - 1
    BY <1>2, <1>3
  <2>2. cell * n \in Nat /\ cell * n <= (w * h - 1) * n
    BY <2>1, Product
  <2>3. (w * h - 1) * n = (w * h) * n - n /\ (w * h) * n \in Nat
    <3> DEFINE a == w * h
    <3>1. a \in Nat
      BY <1>2
    <3> HIDE DEF a
    <3>2. (a - 1) * n = a * n - n /\ a * n \in Nat
      BY <3>1, Product
    <3> QED
      BY <3>2 DEF a
  <2> QED
    BY <2>2, <2>3
<1> QED
  BY <1>1, <1>3, <1>4 DEF cell, Size

LEMMA PlacesAre ==
  ASSUME NEW mask \in SUBSET Layers
  PROVE  /\ \A c \in Cells : \A l \in mask : PlaceOf(c, mask, l) \in 0 .. Size(PopCount(mask)) - 1
         /\ \A c, d \in Cells : \A l, m \in mask :
              PlaceOf(c, mask, l) = PlaceOf(d, mask, m) => c = d /\ l = m
<1> DEFINE n == PopCount(mask)
           At(c) == c[2] * GridWidth + c[1]
<1>1. \A l \in mask : Channel(mask, l) \in 0 .. n - 1 /\ n \in Nat
  BY ChannelsAre, MasksAre
<1>2. ASSUME NEW c \in Cells, NEW l \in mask PROVE PlaceOf(c, mask, l) \in 0 .. Size(n) - 1
  BY <1>1, CellIsCounted DEF PlaceOf
<1>3. ASSUME NEW c \in Cells, NEW d \in Cells, NEW l \in mask, NEW m \in mask,
             PlaceOf(c, mask, l) = PlaceOf(d, mask, m)
      PROVE  c = d /\ l = m
  <2>0. n \in Nat \ {0} /\ Channel(mask, l) \in 0 .. n - 1 /\ Channel(mask, m) \in 0 .. n - 1
    BY <1>1
  <2>1. /\ c = <<c[1], c[2]>> /\ d = <<d[1], d[2]>>
        /\ c[1] \in 0 .. GridWidth - 1 /\ d[1] \in 0 .. GridWidth - 1
        /\ c[2] \in Nat /\ d[2] \in Nat /\ At(c) \in Nat /\ At(d) \in Nat
    <3>1. c[2] \in 0 .. GridHeight - 1 /\ d[2] \in 0 .. GridHeight - 1
      BY <2>0, CellIsCounted
    <3> QED
      BY <2>0, <3>1, CellIsCounted, SizesAre
  <2>2. At(c) * n + Channel(mask, l) = At(d) * n + Channel(mask, m)
    BY <1>3 DEF PlaceOf
  <2> HIDE DEF n
  <2>3. At(c) = At(d) /\ Channel(mask, l) = Channel(mask, m)
    <3> HIDE DEF At
    <3> QED
      BY <2>0, <2>1, <2>2, OneQuotient
  <2>4. c[2] = d[2] /\ c[1] = d[1]
    BY <2>1, <2>3, SizesAre, OneQuotient
  <2> QED
    BY <2>1, <2>3, <2>4, ChannelsAre
<1> QED
  BY <1>2, <1>3

-----------------------------------------------------------------------------
(* Tiles.                                                                   *)

LEMMA TilesAre ==
  ASSUME NEW n \in {GridWidth, GridHeight}, tileSize \in TileSizes
  PROVE  /\ tileSize \in Nat \ {0}
         /\ TileCount(n) = (n + tileSize - 1) \div tileSize /\ TileCount(n) \in Nat \ {0}
         /\ \A x \in 0 .. n - 1 : /\ x \div tileSize \in 0 .. TileCount(n) - 1
                                  /\ x % tileSize \in 0 .. tileSize - 1
                                  /\ x = (x \div tileSize) * tileSize + (x % tileSize)
<1> DEFINE t == tileSize
           m == n + t - 1
           q == m \div t
<1>1. t \in Nat \ {0} /\ n \in Nat \ {0} /\ n + t <= Word /\ Word \in Nat
  BY PictureAssumption, SizesAre
<1> HIDE DEF t
<1>2. m \in Nat /\ m < Word /\ Word \in Nat \ {0}
  BY <1>1
<1>3. m % Word = m
  BY <1>2
<1>4. TileCount(n) = q
  BY <1>3 DEF TileCount, t
<1>5. q \in Nat /\ m = t * q + (m % t) /\ m % t \in 0 .. t - 1
  BY <1>1, <1>2, Division
<1>6. q * t >= n /\ q * t \in Nat
  <2>1. t * q = q * t /\ q * t \in Nat
    BY <1>1, <1>5, Product
  <2> HIDE DEF q
  <2> QED
    BY <1>1, <1>5, <2>1
<1>7. q # 0
  BY <1>1, <1>6
<1>8. ASSUME NEW x \in 0 .. n - 1
      PROVE  /\ x \div t \in 0 .. q - 1 /\ x % t \in 0 .. t - 1
             /\ x = (x \div t) * t + (x % t)
  <2>1. x \in Nat
    BY <1>1
  <2>2. x \div t \in Nat /\ x = t * (x \div t) + (x % t) /\ x % t \in 0 .. t - 1
    BY <1>1, <2>1, Division
  <2> DEFINE p == x \div t
  <2> HIDE DEF p, q
  <2>3. t * p = p * t /\ p * t \in Nat /\ p \in Nat
    BY <1>1, <2>2, Product DEF p
  <2>4. p * t < q * t
    BY <1>1, <1>6, <2>1, <2>2, <2>3 DEF p
  <2>5. p < q
    BY <1>1, <1>5, <2>3, <2>4, LessFactor
  <2> QED
    BY <1>5, <2>2, <2>3, <2>5 DEF p
<1> QED
  BY <1>1, <1>4, <1>5, <1>7, <1>8 DEF t

LEMMA TileOfCell ==
  ASSUME NEW c \in Cells, tileSize \in TileSizes
  PROVE  /\ TileOf(c) \in 0 .. TotalTiles - 1 /\ TotalTiles \in Nat
         /\ TileOf(c) \div TileCount(GridWidth) = c[2] \div tileSize
         /\ TileOf(c) % TileCount(GridWidth) = c[1] \div tileSize
<1> DEFINE cx == TileCount(GridWidth)   cy == TileCount(GridHeight)
           x == c[1] \div tileSize   y == c[2] \div tileSize
<1>0. c[1] \in 0 .. GridWidth - 1 /\ c[2] \in 0 .. GridHeight - 1
  BY DEF Cells
<1>1. cx \in Nat \ {0} /\ cy \in Nat \ {0} /\ x \in 0 .. cx - 1 /\ y \in 0 .. cy - 1
  BY <1>0, TilesAre
<1>2. TileOf(c) = y * cx + x /\ TotalTiles = cx * cy
  BY DEF TileOf, TotalTiles
<1> HIDE DEF cx, cy, x, y
<1>3. (y * cx + x) \div cx = y /\ (y * cx + x) % cx = x
  <2>1. y \in Nat
    BY <1>1
  <2> QED
    BY <1>1, <2>1, DividedIs
<1>4. y * cx + x \in 0 .. cx * cy - 1 /\ cx * cy \in Nat
  <2>1. y \in Nat /\ cy - 1 \in Nat /\ y <= cy - 1 /\ cx \in Nat
    BY <1>1
  <2>2. y * cx \in Nat /\ y * cx <= (cy - 1) * cx
    BY <2>1, Product
  <2>3. (cy - 1) * cx = cx * cy - cx /\ cx * cy \in Nat
    BY <1>1, Product
  <2> QED
    BY <1>1, <2>2, <2>3
<1> QED
  BY <1>2, <1>3, <1>4 DEF cx, x, y

(* A byte of a cell in its tile.                                            *)
LEMMA ExtractedIs ==
  ASSUME NEW c \in Cells, tileSize \in TileSizes, NEW n \in Nat, write.channels = n,
         NEW k \in 0 .. n - 1
  PROVE  ExtractTileData(TileOf(c))[((c[2] % tileSize) * tileSize + (c[1] % tileSize)) * n + k]
           = Byte((c[2] * GridWidth + c[1]) * n + k)
<1> DEFINE t == tileSize
           u == c[1] % t   v == c[2] % t
           i == (v * t + u) * n + k
<1>0. c[1] \in 0 .. GridWidth - 1 /\ c[2] \in 0 .. GridHeight - 1 /\ c = <<c[1], c[2]>>
  BY DEF Cells
<1>1. /\ t \in Nat \ {0} /\ u \in 0 .. t - 1 /\ v \in 0 .. t - 1
      /\ c[1] = (c[1] \div t) * t + u /\ c[2] = (c[2] \div t) * t + v
  BY <1>0, TilesAre
<1>2. n \in Nat \ {0} /\ k \in 0 .. n - 1
  OBVIOUS
<1> HIDE DEF t, u, v
<1>3. /\ v * t + u \in Nat /\ v * t + u <= t * t - 1 /\ t * t \in Nat
      /\ v * t \in Nat
  <2>1. v \in Nat /\ t - 1 \in Nat /\ v <= t - 1 /\ t \in Nat
    BY <1>1
  <2>2. v * t \in Nat /\ v * t <= (t - 1) * t
    BY <2>1, Product
  <2>3. (t - 1) * t = t * t - t /\ t * t \in Nat
    BY <1>1, Product
  <2> QED
    BY <1>1, <2>2, <2>3
<1>4. i \div n = v * t + u /\ i % n = k
  BY <1>2, <1>3, DividedIs
<1>5. (v * t + u) % t = u
  <2>1. v \in Nat
    BY <1>1
  <2> QED
    BY <1>1, <2>1, DividedIs
<1>6. i \in 0 .. t * t * n - 1
  <2> DEFINE a == v * t + u   b == t * t
  <2>1. a \in Nat /\ b - 1 \in Nat /\ a <= b - 1 /\ b \in Nat
    BY <1>3
  <2> HIDE DEF a, b
  <2>5. a * n \in Nat /\ a * n <= (b - 1) * n
    BY <1>2, <2>1, Product
  <2>6. (b - 1) * n = b * n - n
    BY <1>2, <2>1
  <2>2. a * n \in Nat /\ a * n <= (b - 1) * n /\ (b - 1) * n = b * n - n /\ b \in Nat
    BY <2>1, <2>5, <2>6
  <2>3. b * n \in Nat
    BY <1>2, <2>2, Product
  <2>4. a * n + k \in 0 .. b * n - 1
    BY <1>2, <2>2, <2>3
  <2> QED
    BY <2>4 DEF a, b
<1>7. i \div (n * t) = v
  <2>1. n * t \in Nat \ {0}
    <3>1. \A a, b \in Nat \ {0} : a * b \in Nat \ {0}
      OBVIOUS
    <3> QED
      BY <1>1, <1>2, <3>1
  <2>2. u * n + k \in 0 .. n * t - 1
    <3>1. u \in Nat /\ t - 1 \in Nat /\ u <= t - 1
      BY <1>1
    <3>2. u * n \in Nat /\ u * n <= (t - 1) * n
      BY <1>2, <3>1, Product
    <3>3. (t - 1) * n = n * t - n
      BY <1>1, <1>2
    <3> QED
      BY <1>2, <2>1, <3>2, <3>3
  <2>3. i = v * (n * t) + (u * n + k)
    <3>1. \A a, b \in Nat : (a + b) * n = a * n + b * n
      OBVIOUS
    <3>2. v \in Nat /\ u \in Nat /\ (v * t) * n = v * (n * t)
      BY <1>1, <1>2
    <3>3. (v * t + u) * n = (v * t) * n + u * n
      BY <1>3, <3>1, <3>2
    <3>4. (v * t) * n \in Nat /\ u * n \in Nat
      BY <1>2, <1>3, <3>2, Product
    <3> QED
      BY <1>2, <3>2, <3>3, <3>4
  <2>4. v \in Nat
    BY <1>1
  <2> HIDE DEF i
  <2> QED
    BY <2>1, <2>2, <2>3, <2>4, DividedIs
<1> HIDE DEF i
<1>8. /\ TileOf(c) \div TileCount(GridWidth) = c[2] \div t
      /\ TileOf(c) % TileCount(GridWidth) = c[1] \div t
  BY TileOfCell DEF t
<1>9. /\ (TileOf(c) % TileCount(GridWidth)) * t + ((i \div n) % t) = c[1]
      /\ (TileOf(c) \div TileCount(GridWidth)) * t + i \div (n * t) = c[2]
  BY <1>1, <1>4, <1>5, <1>7, <1>8
<1>10. ExtractTileData(TileOf(c)) =
         [j \in 0 .. t * t * n - 1 |->
            LET x == (TileOf(c) % TileCount(GridWidth)) * t + ((j \div n) % t)
                y == (TileOf(c) \div TileCount(GridWidth)) * t + j \div (n * t)
            IN  IF <<x, y>> \in Cells THEN Byte((y * GridWidth + x) * n + (j % n)) ELSE 0]
  BY DEF ExtractTileData, t
<1>11. ExtractTileData(TileOf(c))[i] = Byte((c[2] * GridWidth + c[1]) * n + k)
  BY <1>0, <1>4, <1>6, <1>9, <1>10
<1> QED
  BY <1>11 DEF i, t, u, v

-----------------------------------------------------------------------------
(* What is painted.                                                         *)

Pixel(view, p) ==
  DebugColor(view.mask, [k \in 0 .. PopCount(view.mask) - 1 |->
                           Byte((RowOf(p[2]) * GridWidth + p[1]) * view.channels + k)])

Written ==
  [written |-> TRUE, mask |-> write.mask,
   countX |-> TileCount(GridWidth), countY |-> TileCount(GridHeight),
   tiles |-> [t \in write.occupied \intersect (0 .. TotalTiles - 1) |-> ExtractTileData(t)]]

(* The preview of a tile, or of none, paints the bytes of the data.         *)
LEMMA PaintedIs ==
  ASSUME NEW p \in Cells, tileSize \in TileSizes, write.mask \in SUBSET Layers,
         PopCount(write.mask) = write.channels, map = Written, write.occupied = Occupied
  PROVE  PaintedPixel(p) = Pixel(write, p)
<1> DEFINE c == <<p[1], RowOf(p[2])>>
           n == write.channels
           tile == TileOf(c)
           bytes == [k \in 0 .. n - 1 |-> Byte((c[2] * GridWidth + c[1]) * n + k)]
           cell == ((c[2] % tileSize) * tileSize + (c[1] % tileSize)) * n
           read == [k \in 0 .. n - 1 |-> map.tiles[tile][cell + k]]
<1>1. c \in Cells /\ c[1] = p[1] /\ c[2] = RowOf(p[2])
  <2>1. p[1] \in 0 .. GridWidth - 1 /\ p[2] \in 0 .. GridHeight - 1
    BY DEF Cells
  <2>2. RowOf(p[2]) \in 0 .. GridHeight - 1
    BY <2>1, SizesAre DEF RowOf
  <2> QED
    BY <2>1, <2>2 DEF Cells
<1>2. n \in Nat
  BY MasksAre
<1>3. Pixel(write, p) = DebugColor(write.mask, bytes)
  BY <1>1 DEF Pixel
<1>4. PaintedPixel(p) = IF tile \in DOMAIN map.tiles THEN DebugColor(write.mask, read) ELSE Black
  BY <1>1 DEF PaintedPixel, Written, TileOf
<1>5. tile \in 0 .. TotalTiles - 1
  BY <1>1, TileOfCell
<1>6. map.tiles = [t \in Occupied \intersect (0 .. TotalTiles - 1) |-> ExtractTileData(t)]
  BY DEF Written
<1> HIDE DEF c, tile
<1>7. CASE tile \in Occupied
  <2>1. tile \in DOMAIN map.tiles /\ map.tiles[tile] = ExtractTileData(tile)
    BY <1>5, <1>6, <1>7
  <2>2. ASSUME NEW k \in 0 .. n - 1 PROVE read[k] = bytes[k]
    <3>1. ExtractTileData(TileOf(c))[cell + k] = Byte((c[2] * GridWidth + c[1]) * n + k)
      BY <1>1, <1>2, ExtractedIs
    <3> HIDE DEF cell
    <3> QED
      BY <2>1, <3>1 DEF tile
  <2>3. read = bytes
    <3>1. read = [k \in 0 .. n - 1 |-> read[k]] /\ bytes = [k \in 0 .. n - 1 |-> bytes[k]]
      OBVIOUS
    <3> HIDE DEF read, bytes
    <3> QED
      BY <2>2, <3>1
  <2> HIDE DEF read, bytes
  <2> QED
    BY <1>3, <1>4, <2>1, <2>3
<1>8. CASE tile \notin Occupied
  <2>1. ~PixelHasData(c)
    BY <1>1, <1>8 DEF Occupied, tile
  <2>2. \A k \in 0 .. n - 1 : bytes[k] = 0
    BY <2>1 DEF PixelHasData
  <2> HIDE DEF bytes
  <2>3. DebugColor(write.mask, bytes) = Black
    <3>1. \A l \in write.mask : Channel(write.mask, l) \in 0 .. n - 1
      BY ChannelsAre
    <3>2. \A l \in write.mask : Intensity(bytes[Channel(write.mask, l)]) = 0
      BY <2>2, <3>1 DEF Intensity
    <3> QED
      BY <3>2 DEF DebugColor, Black
  <2>4. tile \notin DOMAIN map.tiles
    BY <1>6, <1>8
  <2> HIDE DEF read
  <2> QED
    BY <1>3, <1>4, <2>3, <2>4
<1> QED
  BY <1>7, <1>8

-----------------------------------------------------------------------------
(* The invariant.                                                           *)

Painting == {"exportCount", "exportMask", "export", "exported"}
Settled  == {"layout"} \union Painting

TypesInv ==
  /\ flags \in [Layers -> BOOLEAN] /\ density \in Densities
  /\ level \in Levels /\ tileSize \in TileSizes /\ edits \in Nat
  /\ at \in 0 .. 3 /\ seen \subseteq Layers
  /\ bake = [channels |-> bake.channels, packed |-> bake.packed, left |-> bake.left,
             data |-> bake.data]
  /\ bake.packed \subseteq Layers /\ bake.left \subseteq DOMAIN level
  /\ write = [channels |-> write.channels, mask |-> write.mask, occupied |-> write.occupied]
  /\ write.mask \subseteq Layers
  /\ export = [channels |-> export.channels, mask |-> export.mask]
  /\ export.mask \subseteq Layers
  /\ lost = [outline |-> lost.outline, none |-> lost.none]

(* Map, preview and image are made of the data once and for all.            *)
ShownInv ==
  /\ pc \in Painting \/ map.written => write.occupied = Occupied
  /\ map.written => pc \in Painting \union {"crashed"} /\ map = Written
  /\ image.shown # "none" =>
       pc \in {"exported", "crashed"} /\ image = Picture([p \in Cells |-> Pixel(export, p)])
  /\ preview.shown = "picture" =>
       /\ pc = "exported" /\ map.written /\ PopCount(write.mask) = write.channels
       /\ preview = Picture([p \in Cells |-> Pixel(write, p)])
  /\ preview.shown # "none" => pc = "exported" /\ map.written

On == {l \in Layers : flags[l]}

FlagsUpTo(n) == {LayerOrder[i] : i \in 1 .. n}

(* Every read of the flags finds the same layers.                           *)
ReadsInv ==
  /\ seen = FlagsUpTo(at) \intersect On
  /\ bake.channels = IF pc = "count" THEN 0 ELSE PopCount(On)
  /\ bake.packed = IF pc \in {"count", "alloc", "query", "pack"} THEN {} ELSE On
  /\ pc \in {"writeMask", "failed"} \union Settled => write.channels = PopCount(On)
  /\ pc \in Settled => write.mask = On /\ On # {}
  /\ pc \in {"exportMask", "export", "exported"} => export.channels = PopCount(On)
  /\ pc \in {"export", "exported"} => export.mask = On

(* There is a byte for every cell and layer, and no other is touched.       *)
RoomInv ==
  /\ pc # "alloc" => DOMAIN bake.data = 0 .. Size(bake.channels) - 1
  /\ ~wild /\ pc # "crashed"
  /\ pc \in {"pack", "splat"} \/ bake.left = {}
  /\ pc \in {"count", "alloc", "query"} => lost.none = {} /\ lost.outline = {}
  /\ \A i \in bake.left : /\ level[i].layer \in On
                          /\ i \notin lost.none /\ i \notin lost.outline
  /\ preview.shown \in {"none", "picture"}

Drawn(i)   == [level[i] EXCEPT !.fill = @ /\ i \notin lost.outline]
MeantAt(c) == [i \in DOMAIN level |-> Meant(Drawn(i), c, density)]
Done(l)    == {i \in DOMAIN level \ lost.none : level[i].layer = l} \ bake.left

(* The bytes hold what the objects drawn so far sum up to.                  *)
DataInv ==
  pc \notin {"count", "alloc"} =>
    \A c \in Cells : \A l \in On :
      bake.data[PlaceOf(c, On, l)] =
        IF pc = "query" THEN 0 ELSE Least({Full, SumFunctionOnSet(MeantAt(c), Done(l))})

CleanInv == Undisturbed => ReadsInv /\ RoomInv /\ DataInv

PictureInv == TypesInv /\ ShownInv /\ CleanInv

-----------------------------------------------------------------------------
(* The initial states, and the types.                                       *)

LEMMA InitIsClean == Init => PictureInv
<1> SUFFICES ASSUME Init PROVE PictureInv
  OBVIOUS
<1>1. TypesInv
  BY DEF Init, TypesInv
<1>2. ShownInv
  BY DEF Init, ShownInv, Painting, NoMap, NoPicture
<1>3. ReadsInv
  <2>1. FlagsUpTo(at) = {}
    BY DEF Init, FlagsUpTo
  <2>2. pc = "count" /\ seen = {} /\ bake.packed = {} /\ bake.channels = 0
    BY DEF Init
  <2> QED
    BY <2>1, <2>2 DEF ReadsInv, Settled, Painting
<1>4. RoomInv
  <2>1. Size(0) = 0
    <3>1. GridWidth * GridHeight \in Nat
      BY SizesAre, Product
    <3> QED
      BY <3>1 DEF Size
  <2>2. /\ bake.channels = 0 /\ bake.left = {} /\ bake.data = <<>> /\ wild = FALSE
        /\ pc = "count" /\ preview.shown = "none" /\ lost.none = {} /\ lost.outline = {}
    BY DEF Init, NoPicture
  <2>3. DOMAIN <<>> = 0 .. 0 - 1
    OBVIOUS
  <2> QED
    BY <2>1, <2>2, <2>3 DEF RoomInv
<1>5. DataInv
  BY DEF Init, DataInv
<1> QED
  BY <1>1, <1>2, <1>3, <1>4, <1>5 DEF PictureInv, CleanInv

LEMMA LevelIs ==
  ASSUME level \in Levels
  PROVE  /\ level \in Seq(Objects) /\ IsFiniteSet(DOMAIN level) /\ DOMAIN level \in SUBSET Nat
         /\ \A i \in DOMAIN level : level[i] \in Objects /\ IsFiniteSet(level[i].texels)
<1>1. level \in Seq(Objects) /\ \A i \in DOMAIN level : IsFiniteSet(level[i].texels)
  BY PictureAssumption
<1>2. DOMAIN level = 1 .. Len(level) /\ Len(level) \in Nat
  BY <1>1
<1>3. IsFiniteSet(DOMAIN level)
  BY <1>2, FS_Interval
<1> QED
  BY <1>1, <1>2, <1>3

(* What waits to be drawn is finite, and the next object is one of it.      *)
LEMMA NextObject ==
  ASSUME TypesInv, bake.left # {}
  PROVE  Least(bake.left) \in bake.left
<1>1. bake.left \in SUBSET Int /\ IsFiniteSet(bake.left)
  BY LevelIs, FS_Subset DEF TypesInv
<1> QED
  BY <1>1, LeastIs

(* The parts of SplatObject.                                                *)
Extra(memory) ==
  LET o == level[Least(bake.left)]
  IN  IF o.layer \in bake.packed THEN Added(o, Splat(o, density, memory)) ELSE Nothing
DataWith(added) ==
  [k \in DOMAIN bake.data |->
     IF k \in DOMAIN added THEN Put(bake.data, k, added[k]) ELSE bake.data[k]]
Spills(added) == DOMAIN added \ DOMAIN bake.data # {}

LEMMA SplatStep ==
  ASSUME SplatObject
  PROVE  /\ pc = "splat" /\ bake.left # {}
         /\ UNCHANGED <<settings, inputs, edits, seen, at, write, export, map, preview, image,
                        starved>>
         /\ \E memory \in {"all", "outline", "none"} :
              /\ memory # "all" => SplatsAsGeometry(level[Least(bake.left)])
              /\ bake' = [bake EXCEPT !.left = @ \ {Least(bake.left)},
                                     !.data = DataWith(Extra(memory))]
              /\ lost' = IF memory = "all" THEN lost
                         ELSE [lost EXCEPT ![memory] = @ \union {Least(bake.left)}]
              /\ wild' = (wild \/ Spills(Extra(memory)))
              /\ pc' \in {"splat"} \union {p \in {"crashed"} : Spills(Extra(memory))}
BY DEF SplatObject, Extra, DataWith, Spills

LEMMA TypesKept == TypesInv /\ [Next]_vars => TypesInv'
<1> SUFFICES ASSUME TypesInv, [Next]_vars PROVE TypesInv'
  OBVIOUS
<1> USE DEF TypesInv
<1>1. CASE Edit
  <2>1. flags' \in [Layers -> BOOLEAN] /\ density' \in Densities
    BY <1>1, Zenon DEF Edit
  <2>2. edits' \in Nat
    BY <1>1 DEF Edit
  <2>3. UNCHANGED <<level, tileSize, at, seen, bake, write, export, lost>>
    BY <1>1 DEF Edit, inputs, history
  <2> QED
    BY <2>1, <2>2, <2>3
<1>2. CASE ReadFlag
  <2>1. at' \in 0 .. 3 /\ LayerOrder[at'] \in Layers
    BY <1>2, LayersAre DEF ReadFlag
  <2> QED
    BY <1>2, <2>1 DEF ReadFlag, settings, inputs, history
<1>3. CASE CountChannels
  BY <1>3 DEF CountChannels, AllRead, settings, inputs, history
<1>4. CASE AllocateData
  BY <1>4 DEF AllocateData, settings, inputs, history
<1>5. CASE AllocateFails
  BY <1>5 DEF AllocateFails, settings, inputs
<1>6. CASE QueryVegetation
  <2>1. /\ UNCHANGED <<flags, density, level, tileSize, edits, write, export>>
        /\ at' = 0 /\ seen' = {}
    BY <1>6 DEF QueryVegetation, AllRead, settings, inputs
  <2>2. PICK left \in SUBSET {i \in DOMAIN level : level[i].layer \in seen} :
          /\ bake' = [bake EXCEPT !.left = left]
          /\ lost' = [lost EXCEPT !.none = {i \in DOMAIN level : level[i].layer \in seen} \ left]
    BY <1>6 DEF QueryVegetation
  <2>3. left \subseteq DOMAIN level
    BY <2>2
  <2>4. /\ bake' = [channels |-> bake'.channels, packed |-> bake'.packed, left |-> bake'.left,
                    data |-> bake'.data]
        /\ bake'.packed = bake.packed /\ bake'.left \subseteq DOMAIN level
    BY <2>2, <2>3
  <2>5. lost' = [outline |-> lost'.outline, none |-> lost'.none]
    BY <2>2
  <2> QED
    BY <2>1, <2>4, <2>5
<1>7. CASE PackChannels
  BY <1>7 DEF PackChannels, AllRead, settings, inputs, history
<1>8. CASE SplatObject
  <2>1. UNCHANGED <<settings, inputs, edits, seen, at, write, export>>
    BY <1>8, SplatStep
  <2>2. PICK memory \in {"all", "outline", "none"} :
          /\ bake' = [bake EXCEPT !.left = @ \ {Least(bake.left)},
                                 !.data = DataWith(Extra(memory))]
          /\ lost' = IF memory = "all" THEN lost
                     ELSE [lost EXCEPT ![memory] = @ \union {Least(bake.left)}]
    BY <1>8, SplatStep, Zenon
  <2>3. /\ lost' = [outline |-> lost'.outline, none |-> lost'.none]
        /\ bake' = [channels |-> bake'.channels, packed |-> bake'.packed, left |-> bake'.left,
                    data |-> bake'.data]
        /\ bake'.packed \subseteq Layers /\ bake'.left \subseteq DOMAIN level
    BY <2>2
  <2> QED
    BY <2>1, <2>3 DEF settings, inputs
<1>9. CASE BakeReturns
  BY <1>9 DEF BakeReturns, settings, inputs, history
<1>10. CASE CountToWrite
  BY <1>10 DEF CountToWrite, AllRead, settings, inputs, history
<1>11. CASE MaskToWrite
  BY <1>11 DEF MaskToWrite, AllRead, settings, inputs, history
<1>12. CASE Layout
  BY <1>12 DEF Layout, settings, inputs
<1>13. CASE BakeMap
  BY <1>13 DEF BakeMap, settings, inputs, history
<1>14. CASE CountToExport
  BY <1>14 DEF CountToExport, AllRead, settings, inputs, history
<1>15. CASE MaskToExport
  BY <1>15 DEF MaskToExport, AllRead, settings, inputs, history
<1>16. CASE ExportImage
  BY <1>16 DEF ExportImage, settings, inputs
<1>17. CASE LoadPreview
  BY <1>17 DEF LoadPreview, settings, inputs, history
<1>18. CASE UNCHANGED vars
  BY <1>18 DEF vars, settings, inputs, history
<1> QED
  BY <1>1, <1>2, <1>3, <1>4, <1>5, <1>6, <1>7, <1>8, <1>9, <1>10, <1>11, <1>12, <1>13, <1>14,
     <1>15, <1>16, <1>17, <1>18 DEF Next

-----------------------------------------------------------------------------
(* What is shown.                                                           *)

LEMMA SameData ==
  ASSUME UNCHANGED <<bake, write, tileSize, beyond>>
  PROVE  /\ Written' = Written /\ Occupied' = Occupied
         /\ \A p \in Cells : Pixel(write, p)' = Pixel(write, p)
<1>1. \A n : TileCount(n)' = TileCount(n)
  BY DEF TileCount
<1>2. \A k : Byte(k)' = Byte(k)
  BY DEF Byte
<1>3. TotalTiles' = TotalTiles /\ \A c : TileOf(c)' = TileOf(c)
  BY <1>1 DEF TotalTiles, TileOf
<1>4. \A t : ExtractTileData(t)' = ExtractTileData(t)
  BY <1>1, <1>2 DEF ExtractTileData
<1>5. \A c : PixelHasData(c)' = PixelHasData(c)
  BY <1>2 DEF PixelHasData
<1>6. Occupied' = Occupied
  BY <1>3, <1>5 DEF Occupied
<1>7. Written' = Written
  BY <1>1, <1>3, <1>4 DEF Written
<1>8. \A p \in Cells : Pixel(write, p)' = Pixel(write, p)
  BY <1>2 DEF Pixel
<1> QED
  BY <1>6, <1>7, <1>8

LEMMA SameExport ==
  ASSUME UNCHANGED <<bake, export, beyond>>
  PROVE  \A p \in Cells : Pixel(export, p)' = Pixel(export, p)
<1>2. \A k : Byte(k)' = Byte(k)
  BY DEF Byte
<1> QED
  BY <1>2 DEF Pixel

(* Before the layout there is nothing to show.                              *)
LEMMA NothingShown ==
  ASSUME ShownInv, pc \notin Painting \union {"crashed"}, pc' \notin Painting,
         UNCHANGED <<map, preview, image>>
  PROVE  ShownInv'
<1>1. ~map.written /\ image.shown = "none" /\ preview.shown = "none"
  BY DEF ShownInv, Painting
<1>2. ~map'.written /\ image'.shown = "none" /\ preview'.shown = "none"
  BY <1>1
<1> QED
  BY <1>2 DEF ShownInv, Painting

(* What is shown stays, as do the data it shows.                            *)
LEMMA ShownStays ==
  ASSUME ShownInv,
         UNCHANGED <<pc, map, preview, image, bake, write, export, tileSize, beyond>>
  PROVE  ShownInv'
<1>1. /\ Written' = Written /\ Occupied' = Occupied
      /\ \A p \in Cells : Pixel(write, p)' = Pixel(write, p)
      /\ \A p \in Cells : Pixel(export, p)' = Pixel(export, p)
  BY SameData, SameExport
<1>2. /\ [p \in Cells |-> Pixel(write, p)]' = [p \in Cells |-> Pixel(write, p)]
      /\ [p \in Cells |-> Pixel(export, p)]' = [p \in Cells |-> Pixel(export, p)]
  BY <1>1
<1>3. pc' \in Painting \/ map'.written => write'.occupied = Occupied'
  BY <1>1 DEF ShownInv
<1>4. map'.written => pc' \in Painting \union {"crashed"} /\ map' = Written'
  BY <1>1 DEF ShownInv
<1>5. image'.shown # "none" =>
        pc' \in {"exported", "crashed"} /\ image' = Picture([p \in Cells |-> Pixel(export, p)]')
  BY <1>2 DEF ShownInv
<1>6. preview'.shown = "picture" =>
        /\ pc' = "exported" /\ map'.written /\ PopCount(write'.mask) = write'.channels
        /\ preview' = Picture([p \in Cells |-> Pixel(write, p)]')
  BY <1>2 DEF ShownInv
<1>7. preview'.shown # "none" => pc' = "exported" /\ map'.written
  BY DEF ShownInv
<1>8. [p \in Cells |-> Pixel(write, p)]' = [p \in Cells |-> Pixel(write, p)']
  OBVIOUS
<1> QED
  BY <1>3, <1>4, <1>5, <1>6, <1>7 DEF ShownInv, Picture

LEMMA LayoutShows ==
  ASSUME TypesInv, ShownInv, Layout
  PROVE  ShownInv'
<1>1. ~map.written /\ image.shown = "none" /\ preview.shown = "none"
  BY DEF ShownInv, Layout, Painting
<1>2. ~map'.written /\ image'.shown = "none" /\ preview'.shown = "none"
  BY <1>1 DEF Layout
<1>3. write'.channels = write.channels /\ write'.occupied = Occupied
  BY DEF TypesInv, Layout
<1>4. Occupied' = Occupied
  <2>1. UNCHANGED <<bake, tileSize, beyond>>
    BY DEF Layout, inputs
  <2>2. \A n : TileCount(n)' = TileCount(n)
    BY <2>1 DEF TileCount
  <2>3. \A k : Byte(k)' = Byte(k)
    BY <2>1 DEF Byte
  <2>4. \A c : TileOf(c)' = TileOf(c)
    BY <2>1, <2>2 DEF TileOf
  <2>5. \A c : PixelHasData(c)' = PixelHasData(c)
    BY <1>3, <2>3 DEF PixelHasData
  <2> QED
    BY <2>4, <2>5 DEF Occupied
<1> QED
  BY <1>2, <1>3, <1>4 DEF ShownInv

LEMMA ShownKept == TypesInv /\ ShownInv /\ [Next]_vars => ShownInv'
<1> SUFFICES ASSUME TypesInv, ShownInv, [Next]_vars PROVE ShownInv'
  OBVIOUS
<1>1. CASE Edit \/ ReadFlag \/ UNCHANGED vars
  <2>1. UNCHANGED <<pc, map, preview, image, bake, write, export, tileSize, beyond>>
    BY <1>1 DEF Edit, ReadFlag, vars, inputs
  <2> QED
    BY <2>1, ShownStays
<1>2. CASE CountChannels \/ AllocateData \/ AllocateFails \/ QueryVegetation \/ PackChannels
  <2>1. /\ UNCHANGED <<map, preview, image>>
        /\ pc \in {"count", "alloc", "query", "pack"}
        /\ pc' \in {"writeCount", "alloc", "query", "pack", "splat"}
    BY <1>2 DEF CountChannels, AllocateData, AllocateFails, QueryVegetation, PackChannels, AllRead
  <2> QED
    BY <2>1, NothingShown DEF Painting
<1>3. CASE SplatObject
  <2>1. pc = "splat" /\ UNCHANGED <<map, preview, image>>
    BY <1>3, SplatStep
  <2>2. pc' \in {"splat", "crashed"}
    BY <1>3, SplatStep
  <2> QED
    BY <2>1, <2>2, NothingShown DEF Painting
<1>4. CASE BakeReturns \/ CountToWrite \/ MaskToWrite
  <2>1. /\ UNCHANGED <<map, preview, image>>
        /\ pc \in {"splat", "writeCount", "writeMask"}
        /\ pc' \in {"writeCount", "writeMask", "failed", "layout"}
    BY <1>4 DEF BakeReturns, CountToWrite, MaskToWrite, AllRead
  <2> QED
    BY <2>1, NothingShown DEF Painting
<1>5. CASE Layout
  BY <1>5, LayoutShows
<1>6. CASE BakeMap
  <2>1. /\ UNCHANGED <<bake, write, export, tileSize, beyond, pc, image, preview>>
        /\ map' = Written /\ map'.written /\ pc \in Painting /\ ~map.written
    BY <1>6 DEF BakeMap, Written, inputs, Painting
  <2>2. preview.shown = "none"
    BY <2>1 DEF ShownInv
  <2>3. /\ Written' = Written /\ Occupied' = Occupied
        /\ \A p \in Cells : Pixel(export, p)' = Pixel(export, p)
    BY <2>1, SameData, SameExport
  <2>4. write'.occupied = Occupied'
    BY <2>1, <2>3 DEF ShownInv
  <2>5. [p \in Cells |-> Pixel(export, p)]' = [p \in Cells |-> Pixel(export, p)]
    BY <2>3
  <2>6. image'.shown # "none" =>
          pc' \in {"exported", "crashed"} /\ image' = Picture([p \in Cells |-> Pixel(export, p)]')
    BY <2>1, <2>5 DEF ShownInv
  <2> QED
    BY <2>1, <2>2, <2>3, <2>4, <2>6 DEF ShownInv, Painting, Picture
<1>7. CASE CountToExport \/ MaskToExport
  <2>1. /\ UNCHANGED <<bake, write, tileSize, beyond, map, preview, image>>
        /\ pc \in {"exportCount", "exportMask"} /\ pc' \in {"exportMask", "export"}
    BY <1>7 DEF CountToExport, MaskToExport, AllRead, inputs
  <2>2. image.shown = "none" /\ preview.shown = "none" /\ write.occupied = Occupied
    BY <2>1 DEF ShownInv, Painting
  <2>3. Written' = Written /\ Occupied' = Occupied
    BY <2>1, SameData
  <2>4. map.written => map = Written
    BY DEF ShownInv
  <2>5. pc' \in Painting
    BY <2>1 DEF Painting
  <2> QED
    BY <2>1, <2>2, <2>3, <2>4, <2>5 DEF ShownInv
<1>8. CASE ExportImage
  <2>1. /\ UNCHANGED <<bake, write, export, tileSize, beyond, map, preview>>
        /\ pc = "export" /\ pc' \in {"exported", "crashed"}
        /\ image' = Picture([p \in Cells |-> Pixel(export, p)])
    BY <1>8 DEF ExportImage, inputs, Pixel
  <2>2. preview.shown = "none" /\ write.occupied = Occupied
    BY <2>1 DEF ShownInv, Painting
  <2>3. /\ Written' = Written /\ Occupied' = Occupied
        /\ \A p \in Cells : Pixel(export, p)' = Pixel(export, p)
    BY <2>1, SameData, SameExport
  <2>4. [p \in Cells |-> Pixel(export, p)]' = [p \in Cells |-> Pixel(export, p)]
    BY <2>3
  <2>5. image' = Picture([p \in Cells |-> Pixel(export, p)]')
    BY <2>1, <2>4
  <2>6. map.written => map = Written
    BY DEF ShownInv
  <2> QED
    BY <2>1, <2>2, <2>3, <2>5, <2>6 DEF ShownInv, Painting, Picture
<1>9. CASE LoadPreview
  <2>1. /\ UNCHANGED <<bake, write, export, tileSize, beyond, map, image, pc>>
        /\ pc = "exported" /\ map.written
    BY <1>9 DEF LoadPreview, inputs
  <2>2. map = Written /\ write.occupied = Occupied /\ map.mask = write.mask
    BY <2>1 DEF ShownInv, Written
  <2>3. /\ Written' = Written /\ Occupied' = Occupied
        /\ \A p \in Cells : Pixel(export, p)' = Pixel(export, p)
        /\ \A p \in Cells : Pixel(write, p)' = Pixel(write, p)
    BY <2>1, SameData, SameExport
  <2>4. /\ [p \in Cells |-> Pixel(export, p)]' = [p \in Cells |-> Pixel(export, p)]
        /\ [p \in Cells |-> Pixel(write, p)]' = [p \in Cells |-> Pixel(write, p)]
    BY <2>3
  <2>5. image'.shown # "none" => image' = Picture([p \in Cells |-> Pixel(export, p)]')
    BY <2>1, <2>4 DEF ShownInv
  <2>6. CASE IsValidMapHeader /\ PopCount(map.mask) = write.channels
    <3>1. preview' = Picture([p \in Cells |-> PaintedPixel(p)])
      BY <1>9, <2>6 DEF LoadPreview
    <3>2. \A p \in Cells : PaintedPixel(p) = Pixel(write, p)
      BY <2>2, <2>6, PaintedIs DEF TypesInv
    <3>3. preview' = Picture([p \in Cells |-> Pixel(write, p)])
      BY <3>1, <3>2
    <3> QED
      BY <2>1, <2>2, <2>3, <2>4, <2>5, <2>6, <3>3 DEF ShownInv, Painting, Picture
  <2>7. CASE ~(IsValidMapHeader /\ PopCount(map.mask) = write.channels)
    <3>1. preview'.shown \in {"refused", "garbled"}
      BY <1>9, <2>7 DEF LoadPreview, NoPicture
    <3> QED
      BY <2>1, <2>2, <2>3, <2>5, <3>1 DEF ShownInv, Painting, Picture
  <2> QED
    BY <2>6, <2>7
<1> QED
  BY <1>1, <1>2, <1>3, <1>4, <1>5, <1>6, <1>7, <1>8, <1>9 DEF Next

-----------------------------------------------------------------------------
(* A bake whose settings are left alone.                                    *)

LEMMA CalmBefore ==
  ASSUME TypesInv, [Next]_vars, Undisturbed'
  PROVE  Undisturbed /\ UNCHANGED <<settings, inputs>> /\ ~AllocateFails
<1>1. edits' = 0 /\ ~starved'
  BY DEF Undisturbed
<1>2. ~Edit /\ ~AllocateFails
  BY <1>1 DEF Edit, AllocateFails, TypesInv
<1>3. CASE UNCHANGED vars
  BY <1>1, <1>2, <1>3 DEF vars, history, Undisturbed
<1>4. CASE SplatObject
  <2>1. UNCHANGED <<settings, inputs, edits, starved>>
    BY <1>4, SplatStep
  <2> QED
    BY <1>1, <1>2, <2>1 DEF Undisturbed
<1>5. CASE ReadFlag \/ CountChannels \/ AllocateData \/ QueryVegetation \/ PackChannels
  <2>1. UNCHANGED <<settings, inputs, edits, starved>>
    BY <1>5 DEF ReadFlag, CountChannels, AllocateData, QueryVegetation, PackChannels, history
  <2> QED
    BY <1>1, <1>2, <2>1 DEF Undisturbed
<1>6. CASE BakeReturns \/ CountToWrite \/ MaskToWrite \/ Layout \/ BakeMap
  <2>1. UNCHANGED <<settings, inputs, edits, starved>>
    BY <1>6 DEF BakeReturns, CountToWrite, MaskToWrite, Layout, BakeMap, history
  <2> QED
    BY <1>1, <1>2, <2>1 DEF Undisturbed
<1>7. CASE CountToExport \/ MaskToExport \/ ExportImage \/ LoadPreview
  <2>1. UNCHANGED <<settings, inputs, edits, starved>>
    BY <1>7 DEF CountToExport, MaskToExport, ExportImage, LoadPreview, history
  <2> QED
    BY <1>1, <1>2, <2>1 DEF Undisturbed
<1> QED
  BY <1>2, <1>3, <1>4, <1>5, <1>6, <1>7 DEF Next

LEMMA FirstAre ==
  /\ FlagsUpTo(0) = {} /\ FlagsUpTo(3) = Layers
  /\ \A n \in 0 .. 2 : FlagsUpTo(n + 1) = FlagsUpTo(n) \union {LayerOrder[n + 1]}
<1>1. FlagsUpTo(0) = {}
  BY DEF FlagsUpTo
<1>2. FlagsUpTo(3) = Layers
  BY LayersAre DEF FlagsUpTo
<1>3. \A n \in 0 .. 2 : FlagsUpTo(n + 1) = FlagsUpTo(n) \union {LayerOrder[n + 1]}
  <2> SUFFICES ASSUME NEW n \in 0 .. 2
               PROVE  FlagsUpTo(n + 1) = FlagsUpTo(n) \union {LayerOrder[n + 1]}
    OBVIOUS
  <2>1. \A i : i \in 1 .. n + 1 <=> (i \in 1 .. n \/ i = n + 1)
    OBVIOUS
  <2> QED
    BY <2>1 DEF FlagsUpTo
<1> QED
  BY <1>1, <1>2, <1>3

(* A loop over the flags ends with all that are on.                         *)
LEMMA AllAreRead ==
  ASSUME ReadsInv, at = Len(LayerOrder)
  PROVE  seen = On
<1>1. seen = Layers \intersect On
  BY LayersAre, FirstAre DEF ReadsInv
<1> QED
  BY <1>1 DEF On

LEMMA ReadsKept ==
  ASSUME TypesInv, ReadsInv, RoomInv, [Next]_vars, UNCHANGED <<settings, inputs>>, ~AllocateFails,
         ~Edit
  PROVE  ReadsInv'
<1>1. On' = On /\ On \subseteq Layers /\ (PopCount(On) = 0 <=> On = {})
  <2>1. On' = On
    BY DEF On, settings
  <2> QED
    BY <2>1, MasksAre DEF On
<1>2. ASSUME UNCHANGED <<at, seen>> PROVE seen' = FlagsUpTo(at') \intersect On'
  BY <1>1, <1>2 DEF ReadsInv
<1>3. ASSUME at' = 0, seen' = {} PROVE seen' = FlagsUpTo(at') \intersect On'
  BY <1>3, FirstAre
<1>4. CASE UNCHANGED vars
  BY <1>1, <1>2, <1>4 DEF vars, ReadsInv
<1>5. CASE ReadFlag
  <2>1. seen' = FlagsUpTo(at') \intersect On'
    <3>1. at \in 0 .. 2 /\ at' = at + 1 /\ seen' = seen \union {l \in {LayerOrder[at']} : flags[l]}
      BY <1>5, LayersAre DEF ReadFlag, TypesInv
    <3>2. LayerOrder[at'] \in Layers
      BY <3>1, LayersAre
    <3>3. {l \in {LayerOrder[at']} : flags[l]} = {LayerOrder[at']} \intersect On
      BY <3>2 DEF On
    <3>4. FlagsUpTo(at') = FlagsUpTo(at) \union {LayerOrder[at']}
      BY <3>1, FirstAre
    <3> QED
      BY <1>1, <3>1, <3>3, <3>4 DEF ReadsInv
  <2> QED
    BY <1>1, <1>5, <2>1 DEF ReadFlag, ReadsInv
<1>6. CASE CountChannels
  <2>1. seen = On /\ seen' = {} /\ at' = 0
    BY <1>6, AllAreRead DEF CountChannels, AllRead
  <2>2. /\ pc = "count" /\ pc' = (IF On = {} THEN "writeCount" ELSE "alloc")
        /\ bake' = [bake EXCEPT !.channels = PopCount(On)] /\ UNCHANGED <<write, export>>
    BY <1>6, <2>1 DEF CountChannels, AllRead
  <2>3. bake'.channels = PopCount(On) /\ bake'.packed = {}
    BY <2>2 DEF TypesInv, ReadsInv
  <2>4. seen' = FlagsUpTo(at') \intersect On'
    BY <1>3, <2>1
  <2> QED
    BY <1>1, <2>2, <2>3, <2>4 DEF ReadsInv, Settled, Painting
<1>7. CASE AllocateData
  <2>1. /\ pc = "alloc" /\ pc' = "query" /\ UNCHANGED <<at, seen, write, export>>
        /\ bake'.channels = bake.channels /\ bake'.packed = bake.packed
    BY <1>7 DEF AllocateData, TypesInv
  <2> QED
    BY <1>1, <1>2, <2>1 DEF ReadsInv, Settled, Painting
<1>8. CASE QueryVegetation
  <2>1. /\ pc = "query" /\ pc' = "pack" /\ at' = 0 /\ seen' = {} /\ UNCHANGED <<write, export>>
        /\ bake'.channels = bake.channels /\ bake'.packed = bake.packed
    BY <1>8 DEF QueryVegetation, AllRead, TypesInv
  <2> QED
    BY <1>1, <1>3, <2>1 DEF ReadsInv, Settled, Painting
<1>9. CASE PackChannels
  <2>1. seen = On
    BY <1>9, AllAreRead DEF PackChannels, AllRead
  <2>2. /\ pc = "pack" /\ pc' = "splat" /\ at' = 0 /\ seen' = {} /\ UNCHANGED <<write, export>>
        /\ bake'.channels = bake.channels /\ bake'.packed = On
    BY <1>9, <2>1 DEF PackChannels, AllRead, TypesInv
  <2> QED
    BY <1>1, <1>3, <2>2 DEF ReadsInv, Settled, Painting
<1>10. CASE SplatObject
  <2>1. pc = "splat" /\ UNCHANGED <<at, seen, write, export>>
    BY <1>10, SplatStep
  <2>2. pc' \in {"splat", "crashed"}
    BY <1>10, SplatStep
  <2>3. bake'.channels = bake.channels /\ bake'.packed = bake.packed
    BY <1>10, SplatStep DEF TypesInv
  <2> QED
    BY <1>1, <1>2, <2>1, <2>2, <2>3 DEF ReadsInv, Settled, Painting
<1>11. CASE BakeReturns
  BY <1>1, <1>2, <1>11 DEF BakeReturns, ReadsInv, Settled, Painting
<1>12. CASE CountToWrite
  <2>1. seen = On
    BY <1>12, AllAreRead DEF CountToWrite, AllRead
  <2>2. /\ pc = "writeCount" /\ pc' = "writeMask" /\ at' = 0 /\ seen' = {}
        /\ UNCHANGED <<bake, export>> /\ write'.channels = PopCount(On)
    BY <1>12, <2>1 DEF CountToWrite, AllRead, TypesInv
  <2> QED
    BY <1>1, <1>3, <2>2 DEF ReadsInv, Settled, Painting
<1>13. CASE MaskToWrite
  <2>1. seen = On
    BY <1>13, AllAreRead DEF MaskToWrite, AllRead
  <2>2. /\ pc = "writeMask" /\ pc' = (IF write.channels = 0 THEN "failed" ELSE "layout")
        /\ at' = 0 /\ seen' = {} /\ UNCHANGED <<bake, export>>
        /\ write'.channels = write.channels /\ write'.mask = On
    BY <1>13, <2>1 DEF MaskToWrite, AllRead, TypesInv
  <2> QED
    BY <1>1, <1>3, <2>2 DEF ReadsInv, Settled, Painting
<1>14. CASE Layout
  <2>1. /\ pc = "layout" /\ pc' \in {"exportCount", "failed", "crashed"}
        /\ UNCHANGED <<at, seen, bake, export>>
        /\ write'.channels = write.channels /\ write'.mask = write.mask
    BY <1>14 DEF Layout, TypesInv
  <2> QED
    BY <1>1, <1>2, <2>1 DEF ReadsInv, Settled, Painting
<1>15. CASE BakeMap \/ LoadPreview
  <2>1. UNCHANGED <<pc, at, seen, bake, write, export>>
    BY <1>15 DEF BakeMap, LoadPreview
  <2> QED
    BY <1>1, <1>2, <2>1 DEF ReadsInv
<1>16. CASE CountToExport
  <2>1. seen = On
    BY <1>16, AllAreRead DEF CountToExport, AllRead
  <2>2. /\ pc = "exportCount" /\ pc' = "exportMask" /\ at' = 0 /\ seen' = {}
        /\ UNCHANGED <<bake, write>> /\ export'.channels = PopCount(On)
    BY <1>16, <2>1 DEF CountToExport, AllRead, TypesInv
  <2> QED
    BY <1>1, <1>3, <2>2 DEF ReadsInv, Settled, Painting
<1>17. CASE MaskToExport
  <2>1. seen = On
    BY <1>17, AllAreRead DEF MaskToExport, AllRead
  <2>2. /\ pc = "exportMask" /\ pc' = "export" /\ at' = 0 /\ seen' = {}
        /\ UNCHANGED <<bake, write>>
        /\ export'.channels = export.channels /\ export'.mask = On
    BY <1>17, <2>1 DEF MaskToExport, AllRead, TypesInv
  <2> QED
    BY <1>1, <1>3, <2>2 DEF ReadsInv, Settled, Painting
<1>18. CASE ExportImage
  <2>1. /\ pc = "export" /\ pc' \in {"exported", "crashed"}
        /\ UNCHANGED <<at, seen, bake, write, export>>
    BY <1>18 DEF ExportImage
  <2> QED
    BY <1>1, <1>2, <2>1 DEF ReadsInv, Settled, Painting
<1> QED
  BY <1>4, <1>5, <1>6, <1>7, <1>8, <1>9, <1>10, <1>11, <1>12, <1>13, <1>14, <1>15, <1>16, <1>17,
     <1>18 DEF Next

(* What a splat adds, and where.                                            *)
LEMMA AddedIs ==
  ASSUME NEW mask \in SUBSET Layers, bake.packed = mask, bake.channels = PopCount(mask),
         NEW o \in Objects, o.layer \in mask, NEW splat, DOMAIN splat \subseteq Cells
  PROVE  /\ DOMAIN Added(o, splat) \subseteq 0 .. Size(PopCount(mask)) - 1
         /\ \A c \in DOMAIN splat : Added(o, splat)[PlaceOf(c, mask, o.layer)] = splat[c]
         /\ \A c \in Cells : \A l \in mask :
              PlaceOf(c, mask, l) \in DOMAIN Added(o, splat) <=> c \in DOMAIN splat /\ l = o.layer
<1> DEFINE P(c) == PlaceOf(c, mask, o.layer)
<1>1. Added(o, splat) = [k \in {P(c) : c \in DOMAIN splat} |->
                           splat[CHOOSE c \in DOMAIN splat : P(c) = k]]
  BY DEF Added, PlaceOf
<1>2. /\ \A c \in Cells : P(c) \in 0 .. Size(PopCount(mask)) - 1
      /\ \A c, d \in Cells : \A l, m \in mask :
           PlaceOf(c, mask, l) = PlaceOf(d, mask, m) => c = d /\ l = m
  BY PlacesAre
<1>3. ASSUME NEW c \in Cells, NEW l \in mask
      PROVE  PlaceOf(c, mask, l) \in {P(d) : d \in DOMAIN splat} <=> c \in DOMAIN splat /\ l = o.layer
  BY <1>2
<1> HIDE DEF P
<1>4. ASSUME NEW c \in DOMAIN splat PROVE Added(o, splat)[P(c)] = splat[c]
  <2>1. \A d \in DOMAIN splat : P(d) = P(c) => d = c
    BY <1>2 DEF P
  <2>2. (CHOOSE d \in DOMAIN splat : P(d) = P(c)) = c
    BY <2>1
  <2> QED
    BY <1>1, <2>2
<1>5. DOMAIN Added(o, splat) = {P(c) : c \in DOMAIN splat}
  BY <1>1
<1>6. \A k \in {P(c) : c \in DOMAIN splat} : k \in 0 .. Size(PopCount(mask)) - 1
  BY <1>2
<1> QED
  BY <1>3, <1>4, <1>5, <1>6 DEF P

(* The splat of the next object, when no setting was changed.               *)
LEMMA ExtraIs ==
  ASSUME TypesInv, ReadsInv, RoomInv, pc = "splat", bake.left # {},
         NEW memory \in {"all", "outline", "none"},
         memory # "all" => SplatsAsGeometry(level[Least(bake.left)])
  PROVE  LET i     == Least(bake.left)
             l     == level[i].layer
             splat == Splat(level[i], density, memory)
             drawn == [level[i] EXCEPT !.fill = @ /\ memory # "outline"]
             extra == Extra(memory)
         IN  /\ i \in bake.left /\ i \in DOMAIN level /\ l \in On
             /\ DOMAIN splat \subseteq Cells
             /\ DOMAIN extra \subseteq DOMAIN bake.data
             /\ \A c \in Cells : \A m \in On :
                  PlaceOf(c, On, m) \in DOMAIN extra <=> c \in DOMAIN splat /\ m = l
             /\ \A c \in DOMAIN splat : extra[PlaceOf(c, On, l)] = splat[c]
             /\ memory = "none" => splat = Nothing
             /\ memory # "none" =>
                  \A c \in Cells : /\ Meant(drawn, c, density) \in Nat
                                   /\ c \in DOMAIN splat => splat[c] = Meant(drawn, c, density)
                                   /\ c \notin DOMAIN splat => Meant(drawn, c, density) = 0
<1> DEFINE i == Least(bake.left)
           o == level[i]
           splat == Splat(o, density, memory)
           drawn == [o EXCEPT !.fill = @ /\ memory # "outline"]
<1>1. i \in bake.left /\ i \in DOMAIN level /\ o.layer \in On
  BY NextObject DEF TypesInv, RoomInv
<1>2. o \in Objects /\ IsFiniteSet(o.texels) /\ density \in Nat
  BY <1>1, LevelIs, PictureAssumption, SizesAre DEF TypesInv
<1>3. On \in SUBSET Layers /\ bake.packed = On /\ bake.channels = PopCount(On)
  BY DEF On, ReadsInv
<1>4. Extra(memory) = Added(o, splat)
  BY <1>1, <1>3 DEF Extra
<1>5. memory = "none" => splat = Nothing
  BY DEF Splat
<1> HIDE DEF i, o, splat, drawn
<1>6. memory # "none" =>
        /\ DOMAIN splat \subseteq Cells
        /\ \A c \in Cells : /\ Meant(drawn, c, density) \in Nat
                            /\ c \in DOMAIN splat => splat[c] = Meant(drawn, c, density)
                            /\ c \notin DOMAIN splat => Meant(drawn, c, density) = 0
  <2> SUFFICES ASSUME memory \in {"all", "outline"}
               PROVE  /\ DOMAIN splat \subseteq Cells
                      /\ \A c \in Cells : /\ Meant(drawn, c, density) \in Nat
                                          /\ c \in DOMAIN splat => splat[c] = Meant(drawn, c, density)
                                          /\ c \notin DOMAIN splat => Meant(drawn, c, density) = 0
    OBVIOUS
  <2> QED
    BY <1>2, SplatIsMeant DEF splat, drawn
<1>7. DOMAIN splat \subseteq Cells
  BY <1>5, <1>6 DEF Nothing
<1>8. /\ DOMAIN Added(o, splat) \subseteq 0 .. Size(PopCount(On)) - 1
      /\ \A c \in DOMAIN splat : Added(o, splat)[PlaceOf(c, On, o.layer)] = splat[c]
      /\ \A c \in Cells : \A l \in On :
           PlaceOf(c, On, l) \in DOMAIN Added(o, splat) <=> c \in DOMAIN splat /\ l = o.layer
  <2>1. o.layer \in On
    BY <1>1
  <2> QED
    BY <1>2, <1>3, <1>7, <2>1, AddedIs
<1>9. DOMAIN bake.data = 0 .. Size(PopCount(On)) - 1
  BY <1>3 DEF RoomInv
<1> QED
  BY <1>1, <1>4, <1>5, <1>6, <1>7, <1>8, <1>9 DEF i, o, splat, drawn

LEMMA InBitmask ==
  ASSUME tileSize \in TileSizes
  PROVE  ~OutOfBitmask
<1>1. MaskBits \in Nat \ {0}
  BY PictureAssumption
<1>2. ASSUME NEW d \in Nat \ {0}, NEW n \in Nat, NEW a \in 0 .. n - 1
      PROVE  a \div d < (n + d - 1) \div d
  <2> DEFINE q == a \div d   p == (n + d - 1) \div d
             r == a % d      s == (n + d - 1) % d
  <2>1. a \in Nat /\ n + d - 1 \in Nat /\ a < n
    OBVIOUS
  <2>2. /\ q \in Nat /\ r \in 0 .. d - 1 /\ a = d * q + r
        /\ p \in Nat /\ s \in 0 .. d - 1 /\ n + d - 1 = d * p + s
    BY <2>1, Division
  <2> HIDE DEF q, p, r, s
  <2>3. d * q = q * d /\ d * p = p * d /\ q * d \in Nat /\ p * d \in Nat
    BY <2>2
  <2>4. q * d < p * d
    BY <2>1, <2>2, <2>3
  <2>5. q < p
    BY <2>2, <2>4, LessFactor
  <2> QED
    BY <2>5 DEF q, p
<1>3. ASSUME NEW c \in Cells
      PROVE  ~(TileOf(c) \div MaskBits >= (TotalTiles + MaskBits - 1) \div MaskBits)
  <2>1. TileOf(c) \in 0 .. TotalTiles - 1 /\ TotalTiles \in Nat
    BY TileOfCell
  <2>2. TileOf(c) \div MaskBits < (TotalTiles + MaskBits - 1) \div MaskBits
    BY <1>1, <1>2, <2>1
  <2>3. TileOf(c) \div MaskBits \in Int /\ (TotalTiles + MaskBits - 1) \div MaskBits \in Int
    BY <1>1, <2>1
  <2> QED
    BY <2>2, <2>3
<1> QED
  BY <1>3 DEF OutOfBitmask

LEMMA RoomIs ==
  ASSUME NEW n \in Nat, DOMAIN bake.data = 0 .. Size(n) - 1
  PROVE  /\ ~(Size(n) > Cardinality(DOMAIN bake.data))
         /\ ~((GridWidth * GridHeight - 1) * n + n > Cardinality(DOMAIN bake.data))
<1> DEFINE a == GridWidth * GridHeight
<1>1. a \in Nat
  BY SizesAre, Product
<1> HIDE DEF a
<1>2. a * n \in Nat /\ (a - 1) * n + n = a * n
  BY <1>1, Product
<1>3. Cardinality(0 .. a * n - 1) = a * n
  BY <1>2, FS_Interval
<1>4. Size(n) = a * n
  BY DEF Size, a
<1> QED
  BY <1>2, <1>3, <1>4 DEF a

LEMMA RoomKept ==
  ASSUME TypesInv, ShownInv, ReadsInv, RoomInv, [Next]_vars, UNCHANGED <<settings, inputs>>,
         ~AllocateFails, ~Edit
  PROVE  RoomInv'
<1>1. /\ On' = On /\ UNCHANGED <<level, tileSize>>
      /\ On \in SUBSET Layers /\ PopCount(On) \in Nat /\ (PopCount(On) = 0 <=> On = {})
  <2>1. On' = On /\ UNCHANGED <<level, tileSize>>
    BY DEF On, settings, inputs
  <2> QED
    BY <2>1, MasksAre DEF On
(* Most steps leave the bake and what was shown alone.                      *)
<1>2. ASSUME UNCHANGED <<bake, lost, preview>>, ~wild',
             pc' # "crashed", pc # "alloc", pc' # "alloc",
             pc' \in {"pack", "splat"} \/ bake.left = {},
             pc' \in {"count", "query"} => pc' = pc
      PROVE  RoomInv'
  BY <1>1, <1>2 DEF RoomInv
<1>3. CASE UNCHANGED vars \/ ReadFlag
  <2>1. UNCHANGED <<pc, bake, lost, wild, preview>>
    BY <1>3 DEF vars, ReadFlag, history
  <2> QED
    BY <1>1, <2>1 DEF RoomInv
<1>4. CASE CountChannels
  <2>1. seen = On
    BY <1>4, AllAreRead DEF CountChannels, AllRead
  <2>2. /\ pc = "count" /\ pc' = (IF On = {} THEN "writeCount" ELSE "alloc")
        /\ bake'.channels = PopCount(On) /\ bake'.data = bake.data /\ bake'.left = bake.left
        /\ UNCHANGED <<lost, wild, preview>>
    BY <1>4, <2>1 DEF CountChannels, AllRead, history, TypesInv
  <2>3. bake.channels = 0 /\ bake.left = {}
    BY <2>2 DEF ReadsInv, RoomInv
  <2>4. pc' # "alloc" => DOMAIN bake'.data = 0 .. Size(bake'.channels) - 1
    BY <1>1, <2>2, <2>3 DEF RoomInv
  <2> QED
    BY <1>1, <2>2, <2>3, <2>4 DEF RoomInv
<1>5. CASE AllocateData
  <2>1. /\ pc = "alloc" /\ pc' = "query" /\ UNCHANGED <<lost, wild, preview>>
        /\ bake'.channels = bake.channels /\ bake'.left = bake.left
        /\ bake'.data = [k \in 0 .. Size(bake.channels) - 1 |-> 0]
    BY <1>5 DEF AllocateData, history, TypesInv
  <2>2. DOMAIN bake'.data = 0 .. Size(bake'.channels) - 1
    BY <2>1
  <2> QED
    BY <1>1, <2>1, <2>2 DEF RoomInv
<1>6. CASE QueryVegetation
  <2>1. pc = "query" /\ pc' = "pack" /\ UNCHANGED <<wild, preview>>
    BY <1>6 DEF QueryVegetation, AllRead
  <2>2. bake'.channels = bake.channels /\ bake'.data = bake.data
    BY <1>6 DEF QueryVegetation, TypesInv
  <2>3. PICK left \in SUBSET {i \in DOMAIN level : level[i].layer \in seen} :
          /\ bake'.left = left /\ lost'.outline = lost.outline
          /\ lost'.none = {i \in DOMAIN level : level[i].layer \in seen} \ left
    BY <1>6 DEF QueryVegetation, TypesInv
  <2>4. seen = On
    BY <1>6, AllAreRead DEF QueryVegetation, AllRead
  <2>5. \A i \in bake'.left : /\ level'[i].layer \in On'
                              /\ i \notin lost'.none /\ i \notin lost'.outline
    BY <1>1, <2>1, <2>3, <2>4 DEF RoomInv
  <2> QED
    BY <2>1, <2>2, <2>5 DEF RoomInv
<1>7. CASE PackChannels
  <2>1. /\ pc = "pack" /\ pc' = "splat" /\ UNCHANGED <<lost, wild, preview>>
        /\ bake'.channels = bake.channels /\ bake'.data = bake.data /\ bake'.left = bake.left
    BY <1>7 DEF PackChannels, AllRead, history, TypesInv
  <2> QED
    BY <1>1, <2>1 DEF RoomInv
<1>8. CASE SplatObject
  <2>1. pc = "splat" /\ bake.left # {} /\ UNCHANGED preview
    BY <1>8, SplatStep
  <2>2. PICK memory \in {"all", "outline", "none"} :
              /\ memory # "all" => SplatsAsGeometry(level[Least(bake.left)])
              /\ bake' = [bake EXCEPT !.left = @ \ {Least(bake.left)},
                                     !.data = DataWith(Extra(memory))]
              /\ lost' = IF memory = "all" THEN lost
                         ELSE [lost EXCEPT ![memory] = @ \union {Least(bake.left)}]
              /\ wild' = (wild \/ Spills(Extra(memory)))
              /\ pc' \in {"splat"} \union {p \in {"crashed"} : Spills(Extra(memory))}
    BY <1>8, SplatStep, Zenon
  <2>3. DOMAIN Extra(memory) \subseteq DOMAIN bake.data
    BY <2>1, <2>2, ExtraIs
  <2>4. ~Spills(Extra(memory))
    BY <2>3 DEF Spills
  <2>5. ~wild' /\ pc' = "splat"
    BY <2>2, <2>4 DEF RoomInv
  <2>6. DOMAIN bake'.data = DOMAIN bake.data /\ bake'.channels = bake.channels
    BY <2>2 DEF DataWith, TypesInv
  <2>7. bake'.left = bake.left \ {Least(bake.left)}
    BY <2>2 DEF TypesInv
  <2>8. /\ lost'.none \subseteq lost.none \union {Least(bake.left)}
        /\ lost'.outline \subseteq lost.outline \union {Least(bake.left)}
    BY <2>2 DEF TypesInv
  <2> QED
    BY <1>1, <2>1, <2>5, <2>6, <2>7, <2>8 DEF RoomInv
<1>9. CASE BakeReturns \/ CountToWrite \/ MaskToWrite \/ CountToExport \/ MaskToExport \/ BakeMap
  <2>1. /\ UNCHANGED <<bake, lost, wild, preview>> /\ pc # "alloc"
        /\ pc' \notin {"crashed", "alloc", "count", "query"}
    BY <1>9 DEF BakeReturns, CountToWrite, MaskToWrite, CountToExport, MaskToExport, BakeMap,
                AllRead, history
  <2>2. bake.left = {} /\ ~wild'
    BY <1>9, <2>1 DEF BakeReturns, CountToWrite, MaskToWrite, CountToExport, MaskToExport, BakeMap,
                AllRead, RoomInv
  <2> QED
    BY <1>2, <2>1, <2>2
<1>10. CASE Layout
  <2>1. pc = "layout"
    BY <1>10 DEF Layout
  <2>2. write.channels = PopCount(On) /\ bake.channels = PopCount(On)
    BY <2>1 DEF ReadsInv, Settled
  <2>3. DOMAIN bake.data = 0 .. Size(write.channels) - 1
    BY <2>1, <2>2 DEF RoomInv
  <2>4. ~OutOfBitmask /\ ~(Size(write.channels) > Cardinality(DOMAIN bake.data))
    BY <1>1, <2>2, <2>3, InBitmask, RoomIs DEF TypesInv
  <2>5. ~wild' /\ pc' \in {"exportCount", "failed"} /\ UNCHANGED <<bake, lost, preview>>
    BY <1>10, <2>4 DEF Layout, RoomInv
  <2> QED
    BY <1>2, <2>1, <2>5 DEF RoomInv
<1>11. CASE ExportImage
  <2>1. pc = "export"
    BY <1>11 DEF ExportImage
  <2>2. /\ export.channels = PopCount(On) /\ bake.channels = PopCount(On)
        /\ PopCount(export.mask) = PopCount(On)
    BY <2>1 DEF ReadsInv
  <2>3. DOMAIN bake.data = 0 .. Size(PopCount(On)) - 1
    BY <2>1, <2>2 DEF RoomInv
  <2>4. ~((GridWidth * GridHeight - 1) * export.channels + PopCount(export.mask)
            > Cardinality(DOMAIN bake.data))
    BY <1>1, <2>2, <2>3, RoomIs
  <2>5. ~wild' /\ pc' = "exported" /\ UNCHANGED <<bake, lost, preview>>
    BY <1>11, <2>4 DEF ExportImage, RoomInv
  <2> QED
    BY <1>2, <2>1, <2>5 DEF RoomInv
<1>12. CASE LoadPreview
  <2>1. /\ pc = "exported" /\ map.written /\ UNCHANGED <<pc, bake, lost, wild>>
    BY <1>12 DEF LoadPreview, history
  <2>2. map = Written /\ write.mask = On /\ On # {} /\ write.channels = PopCount(On)
    BY <2>1 DEF ShownInv, ReadsInv, Settled, Painting
  <2>3. /\ map.mask = On /\ map.countX = TileCount(GridWidth)
        /\ map.countY = TileCount(GridHeight)
    BY <2>2 DEF Written
  <2>4. IsValidMapHeader
    BY <2>2, <2>3, TilesAre DEF IsValidMapHeader, TypesInv
  <2>5. preview' = Picture([p \in Cells |-> PaintedPixel(p)])
    BY <1>12, <2>2, <2>3, <2>4 DEF LoadPreview
  <2>6. preview'.shown = "picture"
    BY <2>5 DEF Picture
  <2> QED
    BY <1>1, <2>1, <2>6 DEF RoomInv
<1> QED
  BY <1>3, <1>4, <1>5, <1>6, <1>7, <1>8, <1>9, <1>10, <1>11, <1>12 DEF Next

LEMMA MeantIs ==
  ASSUME TypesInv, NEW c \in Cells
  PROVE  MeantAt(c) \in [DOMAIN level -> Nat]
<1>1. ASSUME NEW i \in DOMAIN level PROVE Meant(Drawn(i), c, density) \in Nat
  <2>1. /\ level[i] \in Objects /\ IsFiniteSet(level[i].texels) /\ density \in Nat
    BY LevelIs, PictureAssumption, SizesAre DEF TypesInv
  <2>2. ASSUME NEW memory \in {"all", "outline"}
        PROVE  Meant([level[i] EXCEPT !.fill = @ /\ memory # "outline"], c, density) \in Nat
    BY <2>1, SplatIsMeant
  <2>3. CASE i \in lost.outline
    <3>1. (i \notin lost.outline) = ("outline" # "outline")
      BY <2>3
    <3>2. Drawn(i) = [level[i] EXCEPT !.fill = @ /\ "outline" # "outline"]
      BY <3>1 DEF Drawn
    <3> QED
      BY <2>2, <3>2
  <2>4. CASE i \notin lost.outline
    <3>1. (i \notin lost.outline) = ("all" # "outline")
      BY <2>4
    <3>2. Drawn(i) = [level[i] EXCEPT !.fill = @ /\ "all" # "outline"]
      BY <3>1 DEF Drawn
    <3> QED
      BY <2>2, <3>2
  <2> QED
    BY <2>3, <2>4
<1> QED
  BY <1>1 DEF MeantAt

LEMMA SumIsNat ==
  ASSUME TypesInv, NEW c \in Cells, NEW S \in SUBSET DOMAIN level
  PROVE  /\ SumFunctionOnSet(MeantAt(c), S) \in Nat
         /\ S = {} => SumFunctionOnSet(MeantAt(c), S) = 0
BY MeantIs, LevelIs, SumAny DEF TypesInv

(* The data say the same as long as nothing is drawn.                       *)
LEMMA DataStay ==
  ASSUME DataInv, UNCHANGED <<settings, inputs, lost>>,
         bake'.data = bake.data, bake'.left = bake.left,
         pc \notin {"count", "alloc"}, pc = "query" <=> pc' = "query"
  PROVE  DataInv'
<1>1. On' = On /\ UNCHANGED <<level, density>>
  BY DEF On, settings, inputs
<1>2. /\ \A c : MeantAt(c)' = MeantAt(c)
      /\ \A l : Done(l)' = Done(l)
      /\ \A c, l : PlaceOf(c, On, l)' = PlaceOf(c, On, l)
  BY <1>1 DEF MeantAt, Drawn, Done, PlaceOf
<1> QED
  BY <1>1, <1>2 DEF DataInv

(* Full cut off before or after adding.                                     *)
LEMMA CutOnce ==
  ASSUME NEW S \in Nat, NEW a \in Nat
  PROVE  Least({Full, Least({Full, S}) + a}) = Least({Full, a + S})
<1> DEFINE m == Least({Full, S})
<1>1. Full \in Nat
  BY SizesAre
<1>2. m = (IF Full <= S THEN Full ELSE S)
  BY <1>1, LeastOfTwo
<1>3. m \in Nat
  BY <1>1, <1>2
<1> HIDE DEF m
<1>4. Least({Full, m + a}) = IF Full <= m + a THEN Full ELSE m + a
  BY <1>1, <1>3, LeastOfTwo
<1>5. Least({Full, a + S}) = IF Full <= a + S THEN Full ELSE a + S
  BY <1>1, LeastOfTwo
<1> QED
  BY <1>1, <1>2, <1>4, <1>5 DEF m

(* Drawing an object adds what it means to the bytes of its layer.          *)
LEMMA SplatKeepsData ==
  ASSUME TypesInv, ReadsInv, RoomInv, DataInv, SplatObject, UNCHANGED <<settings, inputs>>,
         TypesInv'
  PROVE  DataInv'
<1>0. PICK i : i = Least(bake.left)
  OBVIOUS
<1> DEFINE l == level[i].layer
<1>1. pc = "splat" /\ bake.left # {}
  BY SplatStep
<1>2. PICK memory \in {"all", "outline", "none"} :
            /\ memory # "all" => SplatsAsGeometry(level[Least(bake.left)])
            /\ bake' = [bake EXCEPT !.left = @ \ {Least(bake.left)},
                                   !.data = DataWith(Extra(memory))]
            /\ lost' = IF memory = "all" THEN lost
                       ELSE [lost EXCEPT ![memory] = @ \union {Least(bake.left)}]
            /\ pc' \in {"splat"} \union {p \in {"crashed"} : Spills(Extra(memory))}
  BY SplatStep, Zenon
<1> DEFINE splat == Splat(level[i], density, memory)
           drawn == [level[i] EXCEPT !.fill = @ /\ memory # "outline"]
           extra == Extra(memory)
<1>3. /\ i \in bake.left /\ i \in DOMAIN level /\ l \in On
      /\ DOMAIN splat \subseteq Cells
      /\ \A c \in Cells : \A m \in On :
           PlaceOf(c, On, m) \in DOMAIN extra <=> c \in DOMAIN splat /\ m = l
      /\ \A c \in DOMAIN splat : extra[PlaceOf(c, On, l)] = splat[c]
      /\ memory = "none" => splat = Nothing
      /\ memory # "none" =>
           \A c \in Cells : /\ Meant(drawn, c, density) \in Nat
                            /\ c \in DOMAIN splat => splat[c] = Meant(drawn, c, density)
                            /\ c \notin DOMAIN splat => Meant(drawn, c, density) = 0
  BY <1>0, <1>1, <1>2, ExtraIs
<1>4. bake'.left = bake.left \ {i} /\ bake'.data = DataWith(extra)
  BY <1>0, <1>2 DEF TypesInv
<1>5. /\ memory = "none" => lost'.none = lost.none \union {i} /\ lost'.outline = lost.outline
      /\ memory = "outline" => lost'.none = lost.none /\ lost'.outline = lost.outline \union {i}
      /\ memory = "all" => lost'.none = lost.none /\ lost'.outline = lost.outline
  BY <1>0, <1>2 DEF TypesInv
<1>6. i \notin lost.none /\ i \notin lost.outline
  BY <1>3 DEF RoomInv
<1>7. On' = On /\ UNCHANGED <<level, density>>
  BY DEF On, settings, inputs
<1>8. /\ \A c, m : PlaceOf(c, On, m)' = PlaceOf(c, On, m)
      /\ \A c \in Cells : \A m \in On : PlaceOf(c, On, m) \in DOMAIN bake.data
  <2>1. DOMAIN bake.data = 0 .. Size(PopCount(On)) - 1
    BY <1>1 DEF RoomInv, ReadsInv
  <2>2. On \in SUBSET Layers
    BY DEF On
  <2> QED
    BY <1>7, <2>1, <2>2, PlacesAre DEF PlaceOf
<1> HIDE DEF l, splat, drawn, extra
<1>9. ASSUME NEW c \in Cells, NEW m \in On
      PROVE  bake'.data[PlaceOf(c, On, m)] =
               IF c \in DOMAIN splat /\ m = l
               THEN Least({Full, bake.data[PlaceOf(c, On, m)] + splat[c]})
               ELSE bake.data[PlaceOf(c, On, m)]
  <2> DEFINE k == PlaceOf(c, On, m)
  <2>1. /\ k \in DOMAIN bake.data /\ (k \in DOMAIN extra <=> c \in DOMAIN splat /\ m = l)
        /\ (c \in DOMAIN splat /\ m = l) => extra[k] = splat[c]
    BY <1>3, <1>8
  <2>2. bake'.data = DataWith(extra)
    BY <1>4
  <2> HIDE DEF k
  <2>3. bake'.data[k] = IF k \in DOMAIN extra THEN Put(bake.data, k, extra[k]) ELSE bake.data[k]
    BY <2>1, <2>2 DEF DataWith
  <2> QED
    BY <2>1, <2>3 DEF k, Put
<1>10. ASSUME NEW c \in Cells, NEW m \in On
       PROVE  bake.data[PlaceOf(c, On, m)] = Least({Full, SumFunctionOnSet(MeantAt(c), Done(m))})
  BY <1>1 DEF DataInv
<1>11. ASSUME NEW c \in Cells, NEW m \in On
       PROVE  bake'.data[PlaceOf(c, On, m)] = Least({Full, SumFunctionOnSet(MeantAt(c)', Done(m)')})
  <2> DEFINE f == MeantAt(c)   g == MeantAt(c)'
             S == Done(m)      T == Done(m)'
  <2>1. /\ f \in [DOMAIN level -> Nat] /\ g \in [DOMAIN level -> Nat]
        /\ IsFiniteSet(DOMAIN level) /\ S \in SUBSET DOMAIN level /\ i \notin S
    <3>1. f \in [DOMAIN level -> Nat] /\ IsFiniteSet(DOMAIN level)
      BY MeantIs, LevelIs DEF TypesInv
    <3>2. g \in [DOMAIN level -> Nat]
      <4>1. (MeantAt(c) \in [DOMAIN level -> Nat])'
        BY MeantIs, PTL
      <4> QED
        BY <1>7, <4>1
    <3> QED
      BY <1>3, <3>1, <3>2 DEF Done
  <2>2. \A j \in DOMAIN level : j # i => g[j] = f[j]
    <3> SUFFICES ASSUME NEW j \in DOMAIN level, j # i PROVE g[j] = f[j]
      OBVIOUS
    <3>1. Drawn(j)' = Drawn(j)
      BY <1>2, <1>5, <1>7 DEF Drawn
    <3> QED
      BY <1>7, <3>1 DEF MeantAt
  <2>3. /\ SumFunctionOnSet(f, S) \in Nat
        /\ SumFunctionOnSet(g, S) = SumFunctionOnSet(f, S)
    <3>1. \A j \in S : g[j] = f[j]
      BY <2>1, <2>2
    <3> HIDE DEF f, g, S
    <3> QED
      BY <2>1, <3>1, SumAny, SumsEqual
  <2>4. bake.data[PlaceOf(c, On, m)] = Least({Full, SumFunctionOnSet(f, S)})
    BY <1>10
  <2>5. CASE memory = "none" \/ m # l
    <3>1. T = S
      <4>1. CASE memory = "none"
        BY <1>3, <1>4, <1>5, <1>7, <4>1 DEF Done
      <4>2. CASE memory # "none" /\ m # l
        BY <1>2, <1>4, <1>5, <1>7, <4>2 DEF Done, l
      <4> QED
        BY <2>5, <4>1, <4>2
    <3>2. ~(c \in DOMAIN splat /\ m = l)
      BY <1>3, <2>5 DEF Nothing
    <3>3. bake'.data[PlaceOf(c, On, m)] = bake.data[PlaceOf(c, On, m)]
      BY <1>9, <3>2
    <3> QED
      BY <2>3, <2>4, <3>1, <3>3
  <2>6. CASE memory # "none" /\ m = l
    <3>1. T = S \union {i} /\ T \ {i} = S /\ T \in SUBSET DOMAIN level
      <4>1. lost'.none = lost.none
        BY <1>2, <1>5, <2>6
      <4>2. T = S \union {i}
        BY <1>3, <1>4, <1>6, <1>7, <2>6, <4>1 DEF Done, l
      <4> QED
        BY <1>3, <2>1, <4>2
    <3>2. g[i] = Meant(drawn, c, density)
      <4>1. (i \notin lost'.outline) = (memory # "outline")
        BY <1>2, <1>5, <1>6, <2>6
      <4>2. Drawn(i)' = drawn
        BY <1>7, <4>1 DEF Drawn, drawn
      <4> QED
        BY <1>3, <1>7, <4>2 DEF MeantAt
    <3> DEFINE a == g[i]   s == SumFunctionOnSet(f, S)
    <3>3. a \in Nat /\ (c \in DOMAIN splat => splat[c] = a) /\ (c \notin DOMAIN splat => a = 0)
      BY <1>3, <2>6, <3>2
    <3>4. SumFunctionOnSet(g, T) = a + s
      <4>1. SumFunctionOnSet(g, T) = g[i] + SumFunctionOnSet(g, T \ {i})
        <5> HIDE DEF g, T
        <5> QED
          BY <2>1, <3>1, SumAny
      <4> HIDE DEF g, T, f, S
      <4> QED
        BY <2>3, <3>1, <4>1
    <3> HIDE DEF a, s, f, g, S, T
    <3>5. CASE c \in DOMAIN splat
      <4>1. bake'.data[PlaceOf(c, On, m)] = Least({Full, Least({Full, s}) + a})
        BY <1>9, <2>4, <2>6, <3>3, <3>5 DEF s
      <4> QED
        BY <2>3, <3>3, <3>4, <4>1, CutOnce DEF s, g, T
    <3>6. CASE c \notin DOMAIN splat
      <4>1. bake'.data[PlaceOf(c, On, m)] = Least({Full, s}) /\ a = 0
        BY <1>9, <2>4, <3>3, <3>6 DEF s
      <4>2. a + s = s
        BY <2>3, <4>1 DEF s
      <4> QED
        BY <3>4, <4>1, <4>2 DEF g, T
    <3> QED
      BY <3>5, <3>6
  <2> QED
    BY <2>5, <2>6
<1>12. pc' # "query"
  BY <1>2
<1> QED
  BY <1>7, <1>8, <1>11, <1>12 DEF DataInv

LEMMA DataKept ==
  ASSUME TypesInv, ReadsInv, RoomInv, DataInv, [Next]_vars, UNCHANGED <<settings, inputs>>,
         ~AllocateFails, ~Edit, TypesInv'
  PROVE  DataInv'
<1>1. On' = On /\ On \in SUBSET Layers /\ UNCHANGED <<level, density>>
  BY DEF On, settings, inputs
<1>2. CASE UNCHANGED vars \/ ReadFlag
  <2>1. UNCHANGED <<pc, bake, lost>>
    BY <1>2 DEF vars, ReadFlag, history
  <2>2. CASE pc \in {"count", "alloc"}
    BY <2>1, <2>2 DEF DataInv
  <2>3. CASE pc \notin {"count", "alloc"}
    BY <2>1, <2>3, DataStay
  <2> QED
    BY <2>2, <2>3
<1>3. CASE CountChannels
  <2>1. seen = On
    BY <1>3, AllAreRead DEF CountChannels, AllRead
  <2>2. pc' = (IF On = {} THEN "writeCount" ELSE "alloc")
    BY <1>3, <2>1 DEF CountChannels, AllRead
  <2> QED
    BY <1>1, <2>2 DEF DataInv
<1>4. CASE AllocateData
  <2>1. /\ pc = "alloc" /\ pc' = "query"
        /\ bake'.data = [k \in 0 .. Size(bake.channels) - 1 |-> 0]
    BY <1>4 DEF AllocateData, TypesInv
  <2>2. bake.channels = PopCount(On)
    BY <2>1 DEF ReadsInv
  <2>3. ASSUME NEW c \in Cells, NEW l \in On PROVE bake'.data[PlaceOf(c, On, l)] = 0
    <3>1. PlaceOf(c, On, l) \in 0 .. Size(PopCount(On)) - 1
      BY <1>1, PlacesAre
    <3> QED
      BY <2>1, <2>2, <3>1
  <2>4. \A c, l : PlaceOf(c, On, l)' = PlaceOf(c, On, l)
    BY <1>1 DEF PlaceOf
  <2> QED
    BY <1>1, <2>1, <2>3, <2>4 DEF DataInv
<1>5. CASE QueryVegetation
  <2>1. pc = "query" /\ pc' = "pack" /\ bake'.data = bake.data
    BY <1>5 DEF QueryVegetation, AllRead, TypesInv
  <2>2. seen = On
    BY <1>5, AllAreRead DEF QueryVegetation, AllRead
  <2>3. lost'.none = {i \in DOMAIN level : level[i].layer \in On} \ bake'.left
    BY <1>5, <2>2 DEF QueryVegetation, TypesInv
  <2>4. ASSUME NEW l \in On PROVE Done(l)' = {}
    BY <1>1, <2>3 DEF Done
  <2>5. \A c, l : PlaceOf(c, On, l)' = PlaceOf(c, On, l)
    BY <1>1 DEF PlaceOf
  <2>6. ASSUME NEW c \in Cells PROVE SumFunctionOnSet(MeantAt(c)', {}) = 0
    <3>1. MeantAt(c)' \in [DOMAIN level -> Nat]
      <4>1. (MeantAt(c) \in [DOMAIN level -> Nat])'
        BY MeantIs, PTL
      <4> QED
        BY <1>1, <4>1
    <3>2. IsFiniteSet(DOMAIN level)
      BY LevelIs DEF TypesInv
    <3> DEFINE f == MeantAt(c)'
    <3> HIDE DEF f
    <3>3. f \in [DOMAIN level -> Nat]
      BY <3>1 DEF f
    <3>4. SumFunctionOnSet(f, {}) = 0
      BY <3>2, <3>3, SumAny
    <3> QED
      BY <3>4 DEF f
  <2>7. Least({Full, 0}) = 0
    BY LeastOfTwo, SizesAre
  <2>8. ASSUME NEW c \in Cells, NEW l \in On
        PROVE  bake'.data[PlaceOf(c, On, l)] = Least({Full, SumFunctionOnSet(MeantAt(c)', Done(l)')})
    <3>1. bake.data[PlaceOf(c, On, l)] = 0
      BY <2>1 DEF DataInv
    <3> QED
      BY <2>1, <2>4, <2>6, <2>7, <3>1
  <2> QED
    BY <1>1, <2>1, <2>5, <2>8 DEF DataInv
<1>6. CASE SplatObject
  BY <1>6, SplatKeepsData
<1>7. CASE PackChannels
  <2>1. pc = "pack" /\ pc' = "splat" /\ UNCHANGED lost
    BY <1>7 DEF PackChannels, AllRead, history
  <2>2. bake'.data = bake.data /\ bake'.left = bake.left
    BY <1>7 DEF PackChannels, TypesInv
  <2> QED
    BY <2>1, <2>2, DataStay
<1>8. CASE BakeReturns \/ CountToWrite \/ MaskToWrite \/ Layout \/ BakeMap
  <2>1. UNCHANGED <<bake, lost>> /\ pc \notin {"count", "alloc", "query"} /\ pc' # "query"
    BY <1>8 DEF BakeReturns, CountToWrite, MaskToWrite, Layout, BakeMap, AllRead, history
  <2> QED
    BY <2>1, DataStay
<1>9. CASE CountToExport \/ MaskToExport \/ ExportImage \/ LoadPreview
  <2>1. UNCHANGED <<bake, lost>> /\ pc \notin {"count", "alloc", "query"} /\ pc' # "query"
    BY <1>9 DEF CountToExport, MaskToExport, ExportImage, LoadPreview, AllRead, history
  <2> QED
    BY <2>1, DataStay
<1> QED
  BY <1>2, <1>3, <1>4, <1>5, <1>6, <1>7, <1>8, <1>9 DEF Next

LEMMA CleanKept == PictureInv /\ [Next]_vars => CleanInv'
<1> SUFFICES ASSUME PictureInv, [Next]_vars, Undisturbed' PROVE ReadsInv' /\ RoomInv' /\ DataInv'
  BY DEF CleanInv
<1>1. TypesInv /\ ShownInv /\ TypesInv'
  BY TypesKept DEF PictureInv
<1>2. Undisturbed /\ UNCHANGED <<settings, inputs>> /\ ~AllocateFails
  BY <1>1, CalmBefore
<1>3. ReadsInv /\ RoomInv /\ DataInv
  BY <1>2 DEF PictureInv, CleanInv
<1>4. ~Edit
  BY <1>1 DEF Edit, Undisturbed, TypesInv
<1> QED
  BY <1>1, <1>2, <1>3, <1>4, ReadsKept, RoomKept, DataKept

-----------------------------------------------------------------------------
(* The pixels of whoever read the same layers are the vegetation.           *)
LEMMA PixelsAreTrue ==
  ASSUME TypesInv, ReadsInv, RoomInv, DataInv, pc = "exported",
         NEW view, view.mask = On, view.channels = PopCount(On), NEW p \in Cells
  PROVE  Pixel(view, p) = Expected[p]
<1> DEFINE c == <<p[1], RowOf(p[2])>>
<1>1. c \in Cells /\ c[1] = p[1] /\ c[2] = RowOf(p[2])
  <2>1. p[1] \in 0 .. GridWidth - 1 /\ p[2] \in 0 .. GridHeight - 1
    BY DEF Cells
  <2>2. RowOf(p[2]) \in 0 .. GridHeight - 1
    BY <2>1, SizesAre DEF RowOf
  <2> QED
    BY <2>1, <2>2 DEF Cells
<1>2. Expected[p] = [l \in Layers |-> IF flags[l] THEN Intensity(Vegetation(l, c)) ELSE 0]
  BY DEF Expected
<1> DEFINE bytes == [k \in 0 .. PopCount(On) - 1 |->
                       Byte((c[2] * GridWidth + c[1]) * PopCount(On) + k)]
<1>3. Pixel(view, p) = [l \in Layers |-> IF l \in On THEN Intensity(bytes[Channel(On, l)]) ELSE 0]
  BY <1>1 DEF Pixel, DebugColor
<1>4. \A l \in Layers : l \in On <=> flags[l]
  BY DEF On
<1>5. On \in SUBSET Layers
  BY DEF On
<1> HIDE DEF c
<1>6. ASSUME NEW l \in On PROVE bytes[Channel(On, l)] = Vegetation(l, c)
  <2>1. Channel(On, l) \in 0 .. PopCount(On) - 1
    BY <1>5, ChannelsAre
  <2>2. bytes[Channel(On, l)] = Byte(PlaceOf(c, On, l))
    BY <2>1 DEF PlaceOf
  <2>3. DOMAIN bake.data = 0 .. Size(PopCount(On)) - 1 /\ bake.left = {}
    BY DEF RoomInv, ReadsInv
  <2>4. PlaceOf(c, On, l) \in DOMAIN bake.data
    BY <1>1, <1>5, <2>3, PlacesAre
  <2>5. Byte(PlaceOf(c, On, l)) = Least({Full, SumFunctionOnSet(MeantAt(c), Done(l))})
    BY <1>1, <2>4 DEF Byte, DataInv
  <2> DEFINE there == {i \in DOMAIN level \ lost.none : level[i].layer = l}
             f == MeantAt(c)
             g == [i \in there |-> Meant([level[i] EXCEPT !.fill = @ /\ i \notin lost.outline],
                                         c, density)]
  <2>6. Vegetation(l, c) = Least({Full, SumFunctionOnSet(g, there)})
    BY DEF Vegetation
  <2>7. Done(l) = there
    BY <2>3 DEF Done
  <2>8. f \in [DOMAIN level -> Nat] /\ IsFiniteSet(DOMAIN level) /\ there \in SUBSET DOMAIN level
    BY <1>1, MeantIs, LevelIs DEF TypesInv
  <2>9. g \in [there -> Nat] /\ \A i \in there : f[i] = g[i]
    <3>1. ASSUME NEW i \in there PROVE f[i] = g[i]
      BY DEF MeantAt, Drawn
    <3>2. \A i \in there : g[i] \in Nat
      <4> HIDE DEF f, g, there
      <4> QED
        BY <2>8, <3>1
    <3>3. DOMAIN g = there /\ g = [i \in there |-> g[i]]
      OBVIOUS
    <3> HIDE DEF g, there, f
    <3> QED
      BY <3>1, <3>2, <3>3
  <2>10. IsFiniteSet(there)
    BY <2>8, FS_Subset
  <2> HIDE DEF f, g, there
  <2>11. SumFunctionOnSet(f, there) = SumFunctionOnSet(g, there)
    BY <2>8, <2>9, <2>10, SumsEqual
  <2> QED
    BY <2>2, <2>5, <2>6, <2>7, <2>11 DEF f
<1> HIDE DEF bytes
<1> QED
  BY <1>2, <1>3, <1>4, <1>6

-----------------------------------------------------------------------------
(* The invariant holds: what is shown is what the data say, and while the   *)
(* settings are left alone every loop over the checkboxes finds the same    *)
(* layers, there is a byte for each cell and layer, and the bytes hold what *)
(* the objects drawn so far sum up to.                                      *)
THEOREM PictureInvariant == Spec => []PictureInv
<1>1. Init => PictureInv
  BY InitIsClean
<1>2. PictureInv /\ [Next]_vars => PictureInv'
  <2> SUFFICES ASSUME PictureInv, [Next]_vars PROVE PictureInv'
    OBVIOUS
  <2>1. TypesInv' /\ ShownInv'
    BY TypesKept, ShownKept DEF PictureInv
  <2>2. CleanInv'
    BY CleanKept
  <2> QED
    BY <2>1, <2>2 DEF PictureInv
<1> QED
  BY <1>1, <1>2, PTL DEF Spec

(* Whatever the size of the grid and of the tiles, baker, writer and        *)
(* exporter touch nothing beyond the baked data and the bitmask, unless a   *)
(* setting is changed in between or there was no memory.                    *)
THEOREM NothingOutside == Spec => []StaysInside
<1>1. PictureInv => StaysInside
  BY DEF PictureInv, CleanInv, Undisturbed, TypesInv, RoomInv, StaysInside
<1> QED
  BY <1>1, PictureInvariant, PTL

(* However the writer cuts the data into tiles and whichever of them it     *)
(* leaves out, the preview painted from a map shows what the exporter       *)
(* paints from the data, when both read the same layers.                    *)
THEOREM ViewsAlwaysAgree == Spec => []ViewsAgree
<1>1. PictureInv => ViewsAgree
  <2> SUFFICES ASSUME PictureInv, preview.shown = "picture", image.shown = "picture",
                      export.channels = write.channels, export.mask = write.mask
               PROVE  preview = image
    BY DEF ViewsAgree
  <2>1. /\ preview = Picture([p \in Cells |-> Pixel(write, p)])
        /\ image = Picture([p \in Cells |-> Pixel(export, p)])
    BY DEF PictureInv, ShownInv
  <2>2. \A p \in Cells : Pixel(write, p) = Pixel(export, p)
    BY DEF Pixel
  <2>3. [p \in Cells |-> Pixel(write, p)] = [p \in Cells |-> Pixel(export, p)]
    BY <2>2
  <2> QED
    BY <2>1, <2>3
<1> QED
  BY <1>1, PictureInvariant, PTL

(* With the settings left alone, preview and debug image show for every     *)
(* cell and layer what the vegetation there sums up to, for grids, tiles,   *)
(* geometries and levels of every size.                                     *)
THEOREM PicturesAreTrue == Spec => []PictureIsVegetation
<1>1. PictureInv => PictureIsVegetation
  <2> SUFFICES ASSUME PictureInv, Undisturbed
               PROVE  /\ preview.shown # "none" => preview = Picture(Expected)
                      /\ image.shown # "none" => image = Picture(Expected)
    BY DEF PictureIsVegetation
  <2>1. TypesInv /\ ShownInv /\ ReadsInv /\ RoomInv /\ DataInv
    BY DEF PictureInv, CleanInv
  <2>2. DOMAIN Expected = Cells /\ Expected = [p \in Cells |-> Expected[p]]
    BY DEF Expected
  <2>3. ASSUME NEW view, view.mask = On, view.channels = PopCount(On), pc = "exported"
        PROVE  [p \in Cells |-> Pixel(view, p)] = Expected
    <3>1. \A p \in Cells : Pixel(view, p) = Expected[p]
      BY <2>1, <2>3, PixelsAreTrue
    <3> QED
      BY <2>2, <3>1
  <2>4. ASSUME preview.shown # "none" PROVE preview = Picture(Expected)
    <3>1. pc = "exported" /\ preview = Picture([p \in Cells |-> Pixel(write, p)])
      BY <2>1, <2>4 DEF ShownInv, RoomInv
    <3>2. write.mask = On /\ write.channels = PopCount(On)
      BY <2>1, <3>1 DEF ReadsInv, Settled, Painting
    <3> QED
      BY <2>3, <3>1, <3>2
  <2>5. ASSUME image.shown # "none" PROVE image = Picture(Expected)
    <3>1. pc = "exported" /\ image = Picture([p \in Cells |-> Pixel(export, p)])
      BY <2>1, <2>5 DEF ShownInv, RoomInv
    <3>2. export.mask = On /\ export.channels = PopCount(On)
      BY <2>1, <3>1 DEF ReadsInv
    <3> QED
      BY <2>3, <3>1, <3>2
  <2> QED
    BY <2>4, <2>5
<1> QED
  BY <1>1, PictureInvariant, PTL

-----------------------------------------------------------------------------
(* ProcVeg: what is kept, against what the engine generates.                *)

(* What BakedOf keeps.                                                      *)
BakedParts(s, idxToLayer) ==
  [i \in DOMAIN s |-> IF IsBakedGroup(s[i].group, idxToLayer) THEN <<s[i]>> ELSE <<>>]

LEMMA BakedIs ==
  \A s, idxToLayer : BakedOf(s, idxToLayer) = FlattenSeq(BakedParts(s, idxToLayer))
  BY DEF BakedOf, BakedParts

LEMMA BakedPartsAre ==
  ASSUME NEW S, NEW s \in Seq(S), NEW idxToLayer
  PROVE  /\ BakedParts(s, idxToLayer) \in Seq(Seq(S))
         /\ Len(BakedParts(s, idxToLayer)) = Len(s)
         /\ BakedOf(s, idxToLayer) \in Seq(S)
<1> DEFINE parts == BakedParts(s, idxToLayer)
<1>1. parts \in [1 .. Len(s) -> Seq(S)]
  <2>1. ASSUME NEW i \in 1 .. Len(s) PROVE parts[i] \in Seq(S)
    <3>1. s[i] \in S /\ <<s[i]>> \in Seq(S) /\ <<>> \in Seq(S)
      OBVIOUS
    <3> QED
      BY <3>1 DEF BakedParts
  <2> QED
    BY <2>1 DEF BakedParts
<1>2. parts \in Seq(Seq(S)) /\ Len(parts) = Len(s)
  BY <1>1
<1>3. FlattenSeq(parts) \in Seq(S)
  BY <1>2, FlattenSeqType
<1> QED
  BY <1>2, <1>3, BakedIs

LEMMA BakedConcat ==
  ASSUME NEW S, NEW s \in Seq(S), NEW t \in Seq(S), NEW idxToLayer
  PROVE  BakedOf(s \o t, idxToLayer) = BakedOf(s, idxToLayer) \o BakedOf(t, idxToLayer)
<1> DEFINE both == s \o t
           a == BakedParts(s, idxToLayer)
           b == BakedParts(t, idxToLayer)
           ab == BakedParts(both, idxToLayer)
<1>1. both \in Seq(S) /\ Len(both) = Len(s) + Len(t) /\ Len(s) \in Nat /\ Len(t) \in Nat
  OBVIOUS
<1>2. /\ a \in Seq(Seq(S)) /\ Len(a) = Len(s)
      /\ b \in Seq(Seq(S)) /\ Len(b) = Len(t)
      /\ ab \in Seq(Seq(S)) /\ Len(ab) = Len(both)
  BY <1>1, BakedPartsAre
<1>3. ab = a \o b
  <2>1. ASSUME NEW i \in 1 .. Len(s) PROVE ab[i] = a[i]
    <3>1. both[i] = s[i] /\ i \in 1 .. Len(both)
      BY <1>1
    <3> QED
      BY <3>1 DEF BakedParts
  <2>2. ASSUME NEW i \in 1 .. Len(t) PROVE ab[Len(s) + i] = b[i]
    <3>1. both[Len(s) + i] = t[i] /\ Len(s) + i \in 1 .. Len(both)
      BY <1>1
    <3> QED
      BY <3>1 DEF BakedParts
  <2> HIDE DEF a, b, ab, both
  <2>3. /\ a \o b \in Seq(Seq(S)) /\ Len(a \o b) = Len(ab)
        /\ \A i \in 1 .. Len(ab) : (a \o b)[i] = IF i <= Len(a) THEN a[i] ELSE b[i - Len(a)]
    <3>1. Len(ab) = Len(a) + Len(b)
      BY <1>1, <1>2
    <3>2. /\ a \o b \in Seq(Seq(S)) /\ Len(a \o b) = Len(a) + Len(b)
          /\ \A i \in 1 .. Len(a) + Len(b) : (a \o b)[i] = IF i <= Len(a) THEN a[i] ELSE b[i - Len(a)]
      BY <1>2, ConcatProperties
    <3> QED
      BY <3>1, <3>2
  <2>4. ASSUME NEW i \in 1 .. Len(ab) PROVE ab[i] = (a \o b)[i]
    <3>1. CASE i <= Len(s)
      <4>1. i \in 1 .. Len(s)
        BY <1>1, <1>2, <3>1
      <4>2. (a \o b)[i] = a[i]
        BY <1>2, <2>3, <3>1
      <4> QED
        BY <2>1, <4>1, <4>2
    <3>2. CASE i > Len(s)
      <4>1. i - Len(s) \in 1 .. Len(t) /\ Len(s) + (i - Len(s)) = i
        BY <1>1, <1>2, <3>2
      <4>2. (a \o b)[i] = b[i - Len(s)]
        BY <1>1, <1>2, <2>3, <3>2
      <4> QED
        BY <2>2, <4>1, <4>2
    <3>3. i <= Len(s) \/ i > Len(s)
      BY <1>1, <1>2
    <3> QED
      BY <3>1, <3>2, <3>3
  <2> QED
    BY <1>2, <2>3, <2>4, SeqEqual
<1> QED
  <2>1. FlattenSeq(a \o b) = FlattenSeq(a) \o FlattenSeq(b)
    BY <1>2, FlattenConcat
  <2> QED
    BY <1>3, <2>1, BakedIs

LEMMA BakedFew ==
  ASSUME NEW idxToLayer
  PROVE  /\ BakedOf(<<>>, idxToLayer) = <<>>
         /\ \A v : BakedOf(<<v>>, idxToLayer) =
                     IF IsBakedGroup(v.group, idxToLayer) THEN <<v>> ELSE <<>>
<1>1. BakedParts(<<>>, idxToLayer) = <<>>
  BY DEF BakedParts
<1>2. ASSUME NEW v
      PROVE  BakedOf(<<v>>, idxToLayer) = IF IsBakedGroup(v.group, idxToLayer) THEN <<v>> ELSE <<>>
  <2> DEFINE part == IF IsBakedGroup(v.group, idxToLayer) THEN <<v>> ELSE <<>>
  <2>1. BakedParts(<<v>>, idxToLayer) = <<part>>
    BY DEF BakedParts
  <2>2. part \in Seq({v})
    <3>1. <<v>> \in Seq({v}) /\ <<>> \in Seq({v})
      OBVIOUS
    <3> QED
      BY <3>1
  <2>3. FlattenSeq(<<part>>) = part
    BY <2>2, FlattenFew
  <2> QED
    BY <2>1, <2>3, BakedIs
<1>3. FlattenSeq(<<>>) = <<>>
  BY FlattenFew
<1> QED
  BY <1>1, <1>2, <1>3, BakedIs

(* One more instance is kept or not.                                        *)
LEMMA BakedAppend ==
  ASSUME NEW S, NEW s \in Seq(S), NEW v \in S, NEW idxToLayer
  PROVE  BakedOf(Append(s, v), idxToLayer) =
           IF IsBakedGroup(v.group, idxToLayer) THEN Append(BakedOf(s, idxToLayer), v)
           ELSE BakedOf(s, idxToLayer)
<1>1. Append(s, v) = s \o <<v>> /\ <<v>> \in Seq(S)
  OBVIOUS
<1>2. BakedOf(s, idxToLayer) \in Seq(S)
  BY BakedPartsAre
<1>3. /\ BakedOf(s, idxToLayer) \o <<>> = BakedOf(s, idxToLayer)
      /\ BakedOf(s, idxToLayer) \o <<v>> = Append(BakedOf(s, idxToLayer), v)
  BY <1>2
<1>4. BakedOf(Append(s, v), idxToLayer) =
        BakedOf(s, idxToLayer) \o BakedOf(<<v>>, idxToLayer)
  <2> DEFINE one == <<v>>
  <2>1. BakedOf(s \o one, idxToLayer) = BakedOf(s, idxToLayer) \o BakedOf(one, idxToLayer)
    <3>1. one \in Seq(S)
      BY <1>1
    <3> HIDE DEF one
    <3> QED
      BY <3>1, BakedConcat
  <2> QED
    BY <1>1, <2>1
<1> QED
  BY <1>3, <1>4, BakedFew

(* Of groups that are not baked nothing is kept.                            *)
LEMMA NothingBaked ==
  ASSUME NEW idxToLayer, NEW S, \A v \in S : ~IsBakedGroup(v.group, idxToLayer),
         NEW s \in Seq(S)
  PROVE  BakedOf(s, idxToLayer) = <<>>
<1> DEFINE N == {k \in Nat : \A u \in Seq(S) : Len(u) = k => BakedOf(u, idxToLayer) = <<>>}
<1>1. 0 \in N
  BY BakedFew
<1>2. ASSUME NEW k \in N PROVE k + 1 \in N
  <2> SUFFICES ASSUME NEW u \in Seq(S), Len(u) = k + 1
               PROVE  BakedOf(u, idxToLayer) = <<>>
    OBVIOUS
  <2> DEFINE rest == SubSeq(u, 1, k)
  <2>1. rest \in Seq(S) /\ Len(rest) = k /\ u[k + 1] \in S /\ u = Append(rest, u[k + 1])
    OBVIOUS
  <2>2. BakedOf(rest, idxToLayer) = <<>>
    BY <2>1
  <2>3. ~IsBakedGroup(u[k + 1].group, idxToLayer)
    BY <2>1
  <2>4. BakedOf(Append(rest, u[k + 1]), idxToLayer) = BakedOf(rest, idxToLayer)
    <3> HIDE DEF N, rest
    <3> QED
      BY <2>1, <2>3, BakedAppend
  <2> QED
    BY <2>1, <2>2, <2>4
<1>3. N = Nat
  <2> HIDE DEF N
  <2>1. N \in SUBSET Nat
    BY DEF N
  <2> QED
    BY <1>1, <1>2, <2>1, Induction
<1> QED
  BY <1>3

(* What the engine may generate for a group, and its states on the way.     *)
Numbers(rndGen) == {Draw(rndGen, k) : k \in Nat}

Grown(node, rndGen, spot) ==
  {Instance(spot.group, Position(node, spot.group, c, a, b), s, t) :
     c \in Nat, a \in Numbers(rndGen), b \in Numbers(rndGen), s \in Numbers(rndGen), t \in Numbers(rndGen)}

States(S) == [drawn : Nat, out : Seq(S), full : BOOLEAN]

(* y is x with some instances of T more, and x itself if the limit was met. *)
Adds(x, y, T) == (x.full => y = x) /\ \E u \in Seq(T) : y.out = x.out \o u

LEMMA AddsNothing ==
  ASSUME NEW S, NEW T, NEW x \in States(S)
  PROVE  Adds(x, x, T)
<1>1. x.out \in Seq(S)
  BY DEF States
<1>2. x.out = x.out \o <<>>
  BY <1>1
<1>3. <<>> \in Seq(T)
  OBVIOUS
<1> QED
  BY <1>2, <1>3 DEF Adds

LEMMA AddsMore ==
  ASSUME NEW S, NEW T \in SUBSET S, NEW x \in States(S), NEW y \in States(S), NEW z \in States(S),
         Adds(x, y, T), Adds(y, z, T)
  PROVE  Adds(x, z, T)
<1>1. PICK u \in Seq(T) : y.out = x.out \o u
  BY DEF Adds
<1>2. PICK v \in Seq(T) : z.out = y.out \o v
  BY DEF Adds
<1>3. x.out \in Seq(S) /\ u \in Seq(S) /\ v \in Seq(S) /\ u \o v \in Seq(T)
  BY DEF States
<1>4. z.out = x.out \o (u \o v)
  <2>1. (x.out \o u) \o v = x.out \o (u \o v)
    <3> DEFINE o == x.out
    <3>1. o \in Seq(S)
      BY <1>3
    <3> HIDE DEF o
    <3>2. (o \o u) \o v = o \o (u \o v)
      <4>1. Regroups(o, u, v)
        BY <1>3, <3>1, Regroup
      <4> QED
        BY <4>1 DEF Regroups
    <3> QED
      BY <3>2 DEF o
  <2> QED
    BY <1>1, <1>2, <2>1
<1>5. x.full => z = x
  BY DEF Adds
<1> QED
  BY <1>3, <1>4, <1>5 DEF Adds

LEMMA AddsInTurn ==
  ASSUME NEW S, NEW T \in SUBSET S, NEW m \in Nat, NEW i \in 0 .. m, NEW g \in [0 .. m -> States(S)],
         \A k \in i + 1 .. m : Adds(g[k - 1], g[k], T)
  PROVE  \A j \in i .. m : Adds(g[i], g[j], T)
<1> DEFINE N == {d \in Nat : i + d <= m => Adds(g[i], g[i + d], T)}
<1>1. 0 \in N
  <2>1. g[i] \in States(S) /\ i + 0 = i
    OBVIOUS
  <2> QED
    BY <2>1, AddsNothing
<1>2. ASSUME NEW d \in N PROVE d + 1 \in N
  <2> SUFFICES ASSUME i + (d + 1) <= m PROVE Adds(g[i], g[i + (d + 1)], T)
    OBVIOUS
  <2>1. d \in Nat /\ Adds(g[i], g[i + d], T)
    OBVIOUS
  <2>2. i + (d + 1) \in i + 1 .. m /\ (i + (d + 1)) - 1 = i + d /\ i + d \in 0 .. m
    BY <2>1
  <2>3. Adds(g[i + d], g[i + (d + 1)], T)
    BY <2>2
  <2>4. g[i] \in States(S) /\ g[i + d] \in States(S) /\ g[i + (d + 1)] \in States(S)
    BY <2>2
  <2> QED
    BY <2>1, <2>3, <2>4, AddsMore
<1>3. N = Nat
  <2> HIDE DEF N
  <2>1. N \in SUBSET Nat
    BY DEF N
  <2> QED
    BY <1>1, <1>2, <2>1, Induction
<1> SUFFICES ASSUME NEW j \in i .. m PROVE Adds(g[i], g[j], T)
  OBVIOUS
<1>4. j - i \in Nat /\ i + (j - i) = j
  OBVIOUS
<1>5. Adds(g[i], g[i + (j - i)], T)
  <2>1. j - i \in N
    <3> HIDE DEF N
    <3> QED
      BY <1>3, <1>4
  <2>2. i + (j - i) <= m
    BY <1>4
  <2> QED
    BY <2>1, <2>2
<1> QED
  BY <1>4, <1>5

(* A cell adds an instance of its group at most.                            *)
LEMMA CellAdds ==
  ASSUME NEW node, NEW rndGen, NEW spot, NEW S, Grown(node, rndGen, spot) \in SUBSET S,
         NEW c \in Nat, NEW x \in States(S)
  PROVE  /\ EngineCell(node, rndGen, spot, c, x) \in States(S)
         /\ Adds(x, EngineCell(node, rndGen, spot, c, x), Grown(node, rndGen, spot))
<1> DEFINE y == EngineCell(node, rndGen, spot, c, x)
           d(i) == Draw(rndGen, x.drawn + i)
           p == Position(node, spot.group, c, d(1), d(2))
           v == Instance(spot.group, p, d(3), d(4))
           T == Grown(node, rndGen, spot)
<1>1. x.drawn \in Nat /\ x.out \in Seq(S) /\ x.full \in BOOLEAN /\ x = [drawn |-> x.drawn, out |-> x.out, full |-> x.full]
  BY DEF States
<1>2. \A i \in Nat : d(i) \in Numbers(rndGen)
  BY <1>1 DEF Numbers
<1>3. v \in T
  <2>1. d(1) \in Numbers(rndGen) /\ d(2) \in Numbers(rndGen) /\ d(3) \in Numbers(rndGen) /\ d(4) \in Numbers(rndGen)
    BY <1>2
  <2> HIDE DEF d
  <2> QED
    BY <2>1 DEF Grown
<1>4. v \in S
  BY <1>3
<1> DEFINE grown == [drawn |-> x.drawn + 4, out |-> Append(x.out, v), full |-> Len(x.out) + 1 >= MaxObjects]
<1>5. \/ y = x
      \/ ~x.full /\ y = [x EXCEPT !.drawn = @ + 2]
      \/ ~x.full /\ y = [x EXCEPT !.drawn = @ + 3]
      \/ ~x.full /\ y = grown
  BY DEF EngineCell
<1>6. CASE y = x
  <2> HIDE DEF y, T
  <2> QED
    BY <1>6, AddsNothing DEF y, T
<1>7. CASE \E k \in Nat : ~x.full /\ y = [x EXCEPT !.drawn = @ + k]
  <2>1. y \in States(S) /\ y.out = x.out
    <3> HIDE DEF y
    <3> QED
      BY <1>1, <1>7 DEF States
  <2>2. x.out = x.out \o <<>> /\ <<>> \in Seq(T)
    BY <1>1
  <2> HIDE DEF y, T
  <2> QED
    BY <1>7, <2>1, <2>2 DEF Adds, y, T
<1>8. CASE ~x.full /\ y = grown
  <2> HIDE DEF y, T, v
  <2>1. Append(x.out, v) \in Seq(S) /\ Append(x.out, v) = x.out \o <<v>> /\ <<v>> \in Seq(T)
    BY <1>1, <1>3, <1>4
  <2>2. (Len(x.out) + 1 >= MaxObjects) \in BOOLEAN
    OBVIOUS
  <2>3. y \in States(S) /\ y.out = Append(x.out, v)
    BY <1>1, <1>8, <2>1, <2>2 DEF States
  <2> QED
    BY <1>8, <2>1, <2>3 DEF Adds, y, T
<1> HIDE DEF y, d, T, v
<1> QED
  BY <1>5, <1>6, <1>7, <1>8 DEF y, T

LEMMA CellsAre ==
  ASSUME NEW node, NEW rndGen, NEW spot, NEW S, Grown(node, rndGen, spot) \in SUBSET S,
         NEW x \in States(S), Rows(spot.group) \in Nat
  PROVE  LET g == AfterCells(node, rndGen, spot, x)
             m == CellCount(spot)
         IN  /\ m \in Nat /\ g \in [0 .. m -> States(S)] /\ g[0] = x
             /\ \A c \in 1 .. m : /\ g[c] = EngineCell(node, rndGen, spot, c, g[c - 1])
                                  /\ Adds(g[c - 1], g[c], Grown(node, rndGen, spot))
<1> DEFINE m == CellCount(spot)
           X == States(S)
           Cell(c, y) == EngineCell(node, rndGen, spot, c, y)
           F == [q \in Nat \X X |-> Cell(q[1], q[2])]
           Step(h) == [c \in 0 .. m |-> IF c = 0 THEN x ELSE Cell(c, h[c - 1])]
           after == CHOOSE h : h = Step(h)
<1>1. m \in Nat
  BY DEF CellCount
<1>2. \A c \in Nat, y \in X : Cell(c, y) \in X /\ Adds(y, Cell(c, y), Grown(node, rndGen, spot))
  BY CellAdds
<1> HIDE DEF m, Cell, X
<1>3. F \in [Nat \X X -> X]
  BY <1>2
<1>4. PICK h : Iterates(h, X, F, x, m)
  <2>1. x \in X
    BY DEF X
  <2> HIDE DEF F
  <2> QED
    BY <1>1, <1>3, <2>1, IterationExists
<1>5. h = Step(h)
  <2>1. ASSUME NEW c \in 1 .. m PROVE h[c] = Cell(c, h[c - 1])
    <3>1. c \in Nat /\ c - 1 \in 0 .. m /\ h[c - 1] \in X
      BY <1>1, <1>4 DEF Iterates
    <3> QED
      BY <1>4, <3>1 DEF Iterates
  <2>2. h \in [0 .. m -> X] /\ h[0] = x
    BY <1>4 DEF Iterates
  <2> QED
    BY <1>1, <2>1, <2>2
<1>6. after = Step(after)
  BY <1>5
<1>7. AfterCells(node, rndGen, spot, x) = after
  BY DEF AfterCells, m, Cell
<1> HIDE DEF after
<1>8. after[0] = x /\ \A c \in 1 .. m : after[c] = Cell(c, after[c - 1])
  BY <1>1, <1>6
<1> DEFINE N == {k \in Nat : k <= m => after[k] \in X}
<1>9. 0 \in N
  BY <1>1, <1>8 DEF X
<1>10. ASSUME NEW k \in N PROVE k + 1 \in N
  <2> SUFFICES ASSUME k + 1 <= m PROVE after[k + 1] \in X
    OBVIOUS
  <2>1. k \in Nat /\ k + 1 \in Nat /\ k + 1 \in 1 .. m /\ (k + 1) - 1 = k /\ after[k] \in X
    BY <1>1
  <2>2. after[k + 1] = Cell(k + 1, after[k])
    BY <1>8, <2>1
  <2> HIDE DEF N
  <2> QED
    BY <1>2, <2>1, <2>2
<1>11. N = Nat
  <2> HIDE DEF N
  <2>1. N \in SUBSET Nat
    BY DEF N
  <2> QED
    BY <1>9, <1>10, <2>1, Induction
<1>12. \A k \in 0 .. m : after[k] \in X
  BY <1>1, <1>11
<1>13. after \in [0 .. m -> X]
  BY <1>6, <1>12
<1>14. ASSUME NEW c \in 1 .. m
       PROVE  after[c] = Cell(c, after[c - 1]) /\ Adds(after[c - 1], after[c], Grown(node, rndGen, spot))
  <2>1. c \in Nat /\ c - 1 \in 0 .. m
    BY <1>1
  <2> QED
    BY <1>2, <1>8, <1>12, <2>1
<1> QED
  BY <1>1, <1>7, <1>8, <1>13, <1>14 DEF m, Cell, X

LEMMA GroupAdds ==
  ASSUME NEW node, NEW rndGen, NEW spot, NEW S, Grown(node, rndGen, spot) \in SUBSET S,
         NEW x \in States(S), Rows(spot.group) \in Nat
  PROVE  /\ EngineGroup(node, rndGen, spot, x) \in States(S)
         /\ Adds(x, EngineGroup(node, rndGen, spot, x), Grown(node, rndGen, spot))
<1> DEFINE g == AfterCells(node, rndGen, spot, x)
           m == CellCount(spot)
           T == Grown(node, rndGen, spot)
<1>1. /\ m \in Nat /\ g \in [0 .. m -> States(S)] /\ g[0] = x
      /\ \A c \in 1 .. m : Adds(g[c - 1], g[c], T)
  BY CellsAre
<1> HIDE DEF g, m, T
<1>2. Adds(g[0], g[m], T)
  <2>1. 0 \in 0 .. m /\ m \in 0 .. m /\ \A c \in 0 + 1 .. m : Adds(g[c - 1], g[c], T)
    BY <1>1
  <2> QED
    BY <1>1, <2>1, AddsInTurn DEF T
<1>3. g[m] \in States(S)
  BY <1>1
<1>4. Adds(x, x, T)
  BY AddsNothing
<1> QED
  BY <1>1, <1>2, <1>3, <1>4 DEF EngineGroup, g, m, T

(* The groups of a node, and the last of them that is baked.                *)
Spots == [surface : Int, group : Int]

LEMMA SpotsAre ==
  ASSUME NEW node \in Nodes
  PROVE  Places(node) \in Seq(Spots)
<1> DEFINE of(s) == IF ~node.surfaces[s].known THEN <<>>
                    ELSE [g \in DOMAIN node.surfaces[s].groups |->
                            [surface |-> node.surfaces[s].type, group |-> node.surfaces[s].groups[g]]]
           parts == [s \in DOMAIN node.surfaces |-> of(s)]
<1>1. node.surfaces \in Seq(Surfaces)
  BY DEF Nodes
<1>2. ASSUME NEW s \in 1 .. Len(node.surfaces) PROVE of(s) \in Seq(Spots)
  <2>1. node.surfaces[s] \in Surfaces
    BY <1>1
  <2>2. node.surfaces[s].type \in Int /\ node.surfaces[s].groups \in Seq(Int)
    BY <2>1 DEF Surfaces
  <2> DEFINE surface == node.surfaces[s]
             all == [g \in DOMAIN surface.groups |-> [surface |-> surface.type, group |-> surface.groups[g]]]
  <2>3. all \in [1 .. Len(surface.groups) -> Spots]
    <3> HIDE DEF surface
    <3>1. surface.type \in Int /\ surface.groups \in Seq(Int)
      BY <2>2 DEF surface
    <3> QED
      BY <3>1 DEF Spots
  <2>4. all \in Seq(Spots)
    <3>1. Len(surface.groups) \in Nat
      BY <2>2
    <3> HIDE DEF surface, all
    <3> QED
      BY <2>3, <3>1, FunctionIsSeq
  <2>5. <<>> \in Seq(Spots)
    OBVIOUS
  <2> QED
    BY <2>4, <2>5
<1>3. parts \in Seq(Seq(Spots))
  <2>1. Len(node.surfaces) \in Nat /\ DOMAIN node.surfaces = 1 .. Len(node.surfaces)
    BY <1>1
  <2> HIDE DEF of
  <2>2. parts \in [1 .. Len(node.surfaces) -> Seq(Spots)]
    BY <1>2, <2>1
  <2> HIDE DEF parts
  <2> QED
    BY <2>1, <2>2, FunctionIsSeq
<1>4. Places(node) = FlattenSeq(parts)
  BY DEF Places
<1> HIDE DEF parts
<1> QED
  BY <1>3, <1>4, FlattenSeqType

LEMMA LastBakedIs ==
  ASSUME NEW node \in Nodes, NEW idxToLayer
  PROVE  LET places == Places(node)
             last   == LastBakedPos(node, idxToLayer)
         IN  /\ last \in 0 .. Len(places)
             /\ \A p \in last + 1 .. Len(places) : ~IsBakedGroup(places[p].group, idxToLayer)
<1> DEFINE places == Places(node)
           baked == {p \in DOMAIN places : IsBakedGroup(places[p].group, idxToLayer)}
<1>1. Len(places) \in Nat /\ DOMAIN places = 1 .. Len(places)
  BY SpotsAre
<1>2. LastBakedPos(node, idxToLayer) =
        IF baked = {} THEN 0 ELSE CHOOSE p \in baked : \A q \in baked : q <= p
  BY DEF LastBakedPos
<1>3. CASE baked = {}
  <2>1. LastBakedPos(node, idxToLayer) = 0
    BY <1>2, <1>3
  <2>2. \A p \in 1 .. Len(places) : ~IsBakedGroup(places[p].group, idxToLayer)
    BY <1>1, <1>3
  <2> HIDE DEF places
  <2> QED
    BY <1>1, <2>1, <2>2 DEF places
<1>4. CASE baked # {}
  <2>1. baked \in SUBSET (1 .. Len(places))
    BY <1>1
  <2>2. baked \in SUBSET Int /\ IsFiniteSet(baked)
    <3> HIDE DEF baked, places
    <3>1. IsFiniteSet(1 .. Len(places))
      BY <1>1, FS_Interval
    <3>2. IsFiniteSet(baked)
      BY <2>1, <3>1, FS_Subset
    <3> QED
      BY <1>1, <2>1, <3>2
  <2>3. \E p \in baked : \A q \in baked : q <= p
    <3> HIDE DEF baked
    <3>1. \E x \in baked : \A y \in baked : x >= y
      BY <1>4, <2>2, ExtremesExist
    <3> QED
      BY <2>2, <3>1
  <2> DEFINE last == CHOOSE p \in baked : \A q \in baked : q <= p
  <2>4. last \in baked /\ \A q \in baked : q <= last
    <3> HIDE DEF baked
    <3> QED
      BY <2>3
  <2> HIDE DEF last
  <2>5. LastBakedPos(node, idxToLayer) = last
    BY <1>2, <1>4 DEF last
  <2>6. \A p \in last + 1 .. Len(places) : ~IsBakedGroup(places[p].group, idxToLayer)
    <3> SUFFICES ASSUME NEW p \in last + 1 .. Len(places), IsBakedGroup(places[p].group, idxToLayer)
                 PROVE  FALSE
      OBVIOUS
    <3>1. last \in 1 .. Len(places)
      BY <2>1, <2>4
    <3>2. p \in 1 .. Len(places) /\ ~(p <= last)
      BY <1>1, <3>1
    <3>3. p \in baked
      BY <1>1, <3>2
    <3> QED
      BY <2>4, <3>2, <3>3
  <2>7. last \in 0 .. Len(places)
    <3> HIDE DEF baked, places
    <3> QED
      BY <1>1, <2>1, <2>4
  <2> HIDE DEF baked, places
  <2> QED
    BY <2>5, <2>6, <2>7 DEF places
<1> QED
  BY <1>3, <1>4

(* What a node's groups add, one after the other.                           *)
RowsAre(node) == \A p \in DOMAIN Places(node) : Rows(Places(node)[p].group) \in Nat

GrownIn(node, rndGen) ==
  UNION {Grown(node, rndGen, Places(node)[p]) : p \in 1 .. Len(Places(node))}

LEMMA GroupsAre ==
  ASSUME NEW node \in Nodes, RowsAre(node), NEW rndGen
  PROVE  LET g == AfterPlaces(node, rndGen)
             places == Places(node)
             m == Len(places)
         IN  /\ m \in Nat /\ g \in [0 .. m -> States(GrownIn(node, rndGen))]
             /\ g[0] = [drawn |-> 0, out |-> <<>>, full |-> FALSE]
             /\ \A p \in 1 .. m :
                  /\ Grown(node, rndGen, places[p]) \in SUBSET GrownIn(node, rndGen)
                  /\ Rows(places[p].group) \in Nat
                  /\ g[p] = EngineGroup(node, rndGen, places[p], g[p - 1])
                  /\ Adds(g[p - 1], g[p], Grown(node, rndGen, places[p]))
<1> DEFINE places == Places(node)
           m == Len(places)
           S == GrownIn(node, rndGen)
           X == States(S)
           x == [drawn |-> 0, out |-> <<>>, full |-> FALSE]
           Group(p, y) == EngineGroup(node, rndGen, places[p], y)
           T(p) == Grown(node, rndGen, places[p])
           F == [q \in Nat \X X |-> IF q[1] \in 1 .. m THEN Group(q[1], q[2]) ELSE q[2]]
           Step(h) == [p \in 0 .. m |-> IF p = 0 THEN x ELSE Group(p, h[p - 1])]
           after == CHOOSE h : h = Step(h)
<1>1. m \in Nat /\ DOMAIN places = 1 .. m
  BY SpotsAre
<1>2. \A p \in 1 .. m : T(p) \in SUBSET S /\ Rows(places[p].group) \in Nat
  BY <1>1 DEF RowsAre, GrownIn
<1>3. \A p \in 1 .. m, y \in X : Group(p, y) \in X /\ Adds(y, Group(p, y), T(p))
  <2> HIDE DEF places, S
  <2> QED
    BY <1>2, GroupAdds
<1>4. x \in X
  BY DEF States
<1>5. AfterPlaces(node, rndGen) = after
  BY DEF AfterPlaces
<1> HIDE DEF m, Group, X, x, T, S, places
<1>6. F \in [Nat \X X -> X]
  BY <1>3
<1>7. PICK h : Iterates(h, X, F, x, m)
  <2> HIDE DEF F
  <2> QED
    BY <1>1, <1>4, <1>6, IterationExists
<1>8. h = Step(h)
  <2>1. ASSUME NEW p \in 1 .. m PROVE h[p] = Group(p, h[p - 1])
    <3>1. p \in Nat /\ p - 1 \in 0 .. m /\ h[p - 1] \in X
      BY <1>1, <1>7 DEF Iterates
    <3> QED
      BY <1>7, <3>1 DEF Iterates
  <2>2. h \in [0 .. m -> X] /\ h[0] = x
    BY <1>7 DEF Iterates
  <2> QED
    BY <1>1, <2>1, <2>2
<1>9. after = Step(after)
  BY <1>8
<1> HIDE DEF after
<1>10. after[0] = x /\ \A p \in 1 .. m : after[p] = Group(p, after[p - 1])
  BY <1>1, <1>9
<1> DEFINE N == {k \in Nat : k <= m => after[k] \in X}
<1>11. 0 \in N
  BY <1>4, <1>10
<1>12. ASSUME NEW k \in N PROVE k + 1 \in N
  <2> SUFFICES ASSUME k + 1 <= m PROVE after[k + 1] \in X
    OBVIOUS
  <2>1. k \in Nat /\ k + 1 \in 1 .. m /\ (k + 1) - 1 = k /\ after[k] \in X
    BY <1>1
  <2>2. after[k + 1] = Group(k + 1, after[k])
    BY <1>10, <2>1
  <2> HIDE DEF N
  <2> QED
    BY <1>3, <2>1, <2>2
<1>13. N = Nat
  <2> HIDE DEF N
  <2>1. N \in SUBSET Nat
    BY DEF N
  <2> QED
    BY <1>11, <1>12, <2>1, Induction
<1>14. \A k \in 0 .. m : after[k] \in X
  BY <1>1, <1>13
<1>15. after \in [0 .. m -> X]
  BY <1>9, <1>14
<1>16. ASSUME NEW p \in 1 .. m
       PROVE  after[p] = Group(p, after[p - 1]) /\ Adds(after[p - 1], after[p], T(p))
  <2>1. p - 1 \in 0 .. m
    BY <1>1
  <2> QED
    BY <1>3, <1>10, <1>14, <2>1
<1> QED
  BY <1>1, <1>2, <1>5, <1>10, <1>15, <1>16 DEF m, Group, X, x, T, S, places

(* What a node's groups and cells lead to.                                  *)
LEMMA AddsWider ==
  ASSUME NEW T, NEW U, T \subseteq U, NEW x, NEW y, Adds(x, y, T)
  PROVE  Adds(x, y, U)
<1>1. Seq(T) \subseteq Seq(U)
  OBVIOUS
<1> QED
  BY <1>1 DEF Adds

LEMMA PlaceLeads ==
  ASSUME NEW node \in Nodes, RowsAre(node), NEW rndGen,
         NEW p \in 0 .. Len(Places(node))
  PROVE  LET g == AfterPlaces(node, rndGen)
         IN  Adds(g[p], g[Len(Places(node))], GrownIn(node, rndGen))
<1> DEFINE g == AfterPlaces(node, rndGen)
           places == Places(node)
           m == Len(places)
           S == GrownIn(node, rndGen)
<1>1. /\ m \in Nat /\ g \in [0 .. m -> States(S)]
      /\ \A q \in 1 .. m : /\ Grown(node, rndGen, places[q]) \in SUBSET S
                           /\ Adds(g[q - 1], g[q], Grown(node, rndGen, places[q]))
  BY GroupsAre
<1>2. p \in 0 .. m
  OBVIOUS
<1> HIDE DEF g, m, S
<1>3. \A q \in 1 .. m : Adds(g[q - 1], g[q], S)
  BY <1>1, AddsWider
<1>4. \A q \in p + 1 .. m : Adds(g[q - 1], g[q], S)
  BY <1>1, <1>2, <1>3
<1>5. m \in p .. m
  BY <1>1, <1>2
<1>6. S \in SUBSET S
  OBVIOUS
<1>7. \A j \in p .. m : Adds(g[p], g[j], S)
  BY <1>1, <1>2, <1>4, <1>6, AddsInTurn
<1> QED
  BY <1>5, <1>7 DEF g, m, S

LEMMA CellLeads ==
  ASSUME NEW node \in Nodes, RowsAre(node), NEW rndGen,
         NEW p \in 1 .. Len(Places(node)), MayGrow(node, Places(node)[p])
  PROVE  LET g == AfterPlaces(node, rndGen)
             spot == Places(node)[p]
             h == AfterCells(node, rndGen, spot, g[p - 1])
             m == CellCount(spot)
         IN  /\ m \in Nat /\ h[0] = g[p - 1] /\ h[m] = g[p]
             /\ \A c \in 0 .. m : /\ h[c] \in States(GrownIn(node, rndGen))
                                  /\ Adds(h[c], g[p], GrownIn(node, rndGen))
                                  /\ Adds(h[c], g[Len(Places(node))], GrownIn(node, rndGen))
             /\ \A c \in 1 .. m : h[c] = EngineCell(node, rndGen, spot, c, h[c - 1])
<1> DEFINE g == AfterPlaces(node, rndGen)
           places == Places(node)
           last == Len(places)
           spot == places[p]
           S == GrownIn(node, rndGen)
           T == Grown(node, rndGen, spot)
           x == g[p - 1]
           h == AfterCells(node, rndGen, spot, x)
           m == CellCount(spot)
<1>1. /\ last \in Nat /\ g \in [0 .. last -> States(S)]
      /\ T \in SUBSET S /\ Rows(spot.group) \in Nat
      /\ g[p] = EngineGroup(node, rndGen, spot, x)
  BY GroupsAre
<1>2. p - 1 \in 0 .. last /\ p \in 0 .. last /\ x \in States(S) /\ g[p] \in States(S) /\ g[last] \in States(S)
  <2>1. p \in 1 .. last
    OBVIOUS
  <2> HIDE DEF g, last, S
  <2> QED
    BY <1>1, <2>1 DEF x
<1>3. Adds(g[p], g[last], S)
  BY <1>2, PlaceLeads
<1>4. g[p] = h[m]
  BY <1>1 DEF EngineGroup
<1> HIDE DEF g, last, S, x, spot
<1>5. /\ m \in Nat /\ h \in [0 .. m -> States(S)] /\ h[0] = x
      /\ \A c \in 1 .. m : h[c] = EngineCell(node, rndGen, spot, c, h[c - 1]) /\ Adds(h[c - 1], h[c], T)
  BY <1>1, <1>2, CellsAre
<1> HIDE DEF h, m, T
<1>6. ASSUME NEW c \in 0 .. m
      PROVE  h[c] \in States(S) /\ Adds(h[c], g[p], S) /\ Adds(h[c], g[last], S)
  <2>1. h[c] \in States(S)
    BY <1>5
  <2>2. m \in c .. m /\ \A k \in c + 1 .. m : Adds(h[k - 1], h[k], T)
    BY <1>5
  <2>3. \A j \in c .. m : Adds(h[c], h[j], T)
    BY <1>1, <1>5, <2>2, AddsInTurn
  <2>4. Adds(h[c], h[m], T)
    BY <2>2, <2>3
  <2>5. Adds(h[c], g[p], S)
    BY <1>1, <1>4, <2>4, AddsWider
  <2>6. S \in SUBSET S
    OBVIOUS
  <2> QED
    BY <1>2, <1>3, <2>1, <2>5, <2>6, AddsMore
<1>7. h[0] = g[p - 1]
  BY <1>5 DEF x
<1> QED
  BY <1>4, <1>5, <1>6, <1>7 DEF g, last, S, h, m, spot, x

(* After the last baked group nothing is added that is kept.                *)
LEMMA NoMoreBaked ==
  ASSUME NEW node \in Nodes, RowsAre(node), NEW rndGen, NEW idxToLayer,
         NEW p \in LastBakedPos(node, idxToLayer) .. Len(Places(node))
  PROVE  LET g == AfterPlaces(node, rndGen)
         IN  BakedOf(g[Len(Places(node))].out, idxToLayer) = BakedOf(g[p].out, idxToLayer)
<1> DEFINE g == AfterPlaces(node, rndGen)
           places == Places(node)
           m == Len(places)
           S == GrownIn(node, rndGen)
           last == LastBakedPos(node, idxToLayer)
           T == {v \in S : ~IsBakedGroup(v.group, idxToLayer)}
<1>1. /\ m \in Nat /\ g \in [0 .. m -> States(S)]
      /\ \A q \in 1 .. m : /\ Grown(node, rndGen, places[q]) \in SUBSET S
                           /\ Adds(g[q - 1], g[q], Grown(node, rndGen, places[q]))
  BY GroupsAre
<1>2. last \in 0 .. m /\ \A q \in last + 1 .. m : ~IsBakedGroup(places[q].group, idxToLayer)
  BY LastBakedIs
<1>3. p \in last .. m
  OBVIOUS
<1> HIDE DEF g, m, S, last, places
<1>4. p \in 0 .. m
  BY <1>1, <1>2, <1>3
<1>5. ASSUME NEW q \in p + 1 .. m PROVE Adds(g[q - 1], g[q], T)
  <2>1. q \in 1 .. m /\ q \in last + 1 .. m
    BY <1>1, <1>2, <1>3
  <2>2. Grown(node, rndGen, places[q]) \subseteq S /\ ~IsBakedGroup(places[q].group, idxToLayer)
    BY <1>1, <1>2, <2>1
  <2>3. \A v \in Grown(node, rndGen, places[q]) : v.group = places[q].group
    BY DEF Grown, Instance
  <2>4. Grown(node, rndGen, places[q]) \subseteq T
    BY <2>2, <2>3
  <2> HIDE DEF T
  <2> QED
    BY <1>1, <2>1, <2>4, AddsWider
<1>6. T \in SUBSET S /\ \A v \in T : ~IsBakedGroup(v.group, idxToLayer)
  OBVIOUS
<1> HIDE DEF T
<1>7. \A j \in p .. m : Adds(g[p], g[j], T)
  BY <1>1, <1>4, <1>5, <1>6, AddsInTurn
<1>8. m \in p .. m
  BY <1>1, <1>4
<1>9. PICK u \in Seq(T) : g[m].out = g[p].out \o u
  BY <1>7, <1>8 DEF Adds
<1>10. BakedOf(u, idxToLayer) = <<>>
  BY <1>6, <1>9, NothingBaked
<1>11. g[p].out \in Seq(S) /\ u \in Seq(S)
  <2>1. g[p] \in States(S)
    BY <1>1, <1>4
  <2> QED
    BY <1>6, <2>1 DEF States
<1>12. BakedOf(g[m].out, idxToLayer) = BakedOf(g[p].out, idxToLayer) \o <<>>
  <2> DEFINE o == g[p].out
  <2>1. o \in Seq(S)
    BY <1>11
  <2> HIDE DEF o
  <2>2. BakedOf(o \o u, idxToLayer) = BakedOf(o, idxToLayer) \o BakedOf(u, idxToLayer)
    BY <1>11, <2>1, BakedConcat
  <2> QED
    BY <1>9, <1>10, <2>2 DEF o
<1>13. BakedOf(g[p].out, idxToLayer) \in Seq(S)
  BY <1>11, BakedPartsAre
<1>14. BakedOf(g[p].out, idxToLayer) \o <<>> = BakedOf(g[p].out, idxToLayer)
  BY <1>13, ConcatEmptySeq
<1> QED
  BY <1>12, <1>14 DEF g, m, places

(* What the first nodes of a terrain are good for.                          *)
Rnd(node, gen, same) == <<gen, IF same THEN 0 ELSE node.x + node.y>>

Made(t) == t \in Seq(Nodes) /\ \A i \in 1 .. Len(t) : RowsAre(t[i])

Nodewise(t, gen, same, k) == [i \in 1 .. k |-> EngineNode(t[i], Rnd(t[i], gen, same))]

Earlier(t, gen, same, idxToLayer, k) ==
  BakedOf(FlattenSeq(Nodewise(t, gen, same, k)), idxToLayer)

AllGrown(t, gen, same) == UNION {GrownIn(t[i], Rnd(t[i], gen, same)) : i \in 1 .. Len(t)}

LEMMA EngineNodeIs ==
  ASSUME NEW node \in Nodes, RowsAre(node), NEW rndGen
  PROVE  EngineNode(node, rndGen) \in Seq(GrownIn(node, rndGen))
<1> DEFINE g == AfterPlaces(node, rndGen)
           m == Len(Places(node))
           S == GrownIn(node, rndGen)
<1>1. m \in Nat /\ g \in [0 .. m -> States(S)]
  BY GroupsAre
<1> HIDE DEF g, m, S
<1>2. g[m].out \in Seq(S) /\ <<>> \in Seq(S)
  <2>1. g[m] \in States(S)
    BY <1>1
  <2> QED
    BY <2>1 DEF States
<1> QED
  BY <1>2 DEF EngineNode, g, m, S

LEMMA NodewiseIs ==
  ASSUME NEW t, Made(t), NEW gen, NEW same, NEW k \in 0 .. Len(t)
  PROVE  Nodewise(t, gen, same, k) \in Seq(Seq(AllGrown(t, gen, same)))
<1> DEFINE S == AllGrown(t, gen, same)
           parts == Nodewise(t, gen, same, k)
<1>0. t \in Seq(Nodes) /\ \A i \in 1 .. Len(t) : RowsAre(t[i])
  BY DEF Made
<1>1. ASSUME NEW i \in 1 .. k PROVE EngineNode(t[i], Rnd(t[i], gen, same)) \in Seq(S)
  <2> DEFINE rnd == Rnd(t[i], gen, same)
  <2>1. i \in 1 .. Len(t) /\ t[i] \in Nodes /\ RowsAre(t[i])
    BY <1>0
  <2> HIDE DEF rnd
  <2>2. EngineNode(t[i], rnd) \in Seq(GrownIn(t[i], rnd))
    BY <2>1, EngineNodeIs
  <2>3. GrownIn(t[i], rnd) \subseteq S
    BY <2>1 DEF AllGrown, rnd
  <2> HIDE DEF S
  <2>4. Seq(GrownIn(t[i], rnd)) \subseteq Seq(S)
    BY <2>3
  <2> QED
    BY <2>2, <2>4 DEF rnd
<1> HIDE DEF S
<1>2. parts \in [1 .. k -> Seq(S)]
  BY <1>1 DEF Nodewise
<1>3. k \in Nat
  BY <1>0
<1> HIDE DEF parts
<1> QED
  BY <1>2, <1>3, FunctionIsSeq DEF parts, S

LEMMA EarlierIs ==
  ASSUME NEW t, Made(t), NEW gen, NEW same, NEW idxToLayer, NEW k \in 0 .. Len(t)
  PROVE  Earlier(t, gen, same, idxToLayer, k) \in Seq(AllGrown(t, gen, same))
<1>1. FlattenSeq(Nodewise(t, gen, same, k)) \in Seq(AllGrown(t, gen, same))
  BY NodewiseIs, FlattenSeqType
<1> QED
  BY <1>1, BakedPartsAre DEF Earlier

(* One more node.                                                           *)
LEMMA EarlierNext ==
  ASSUME NEW t, Made(t), NEW gen, NEW same, NEW idxToLayer, NEW k \in 1 .. Len(t)
  PROVE  LET more == BakedOf(EngineNode(t[k], Rnd(t[k], gen, same)), idxToLayer)
         IN  /\ more \in Seq(AllGrown(t, gen, same))
             /\ Earlier(t, gen, same, idxToLayer, k) = Earlier(t, gen, same, idxToLayer, k - 1) \o more
<1> DEFINE S == AllGrown(t, gen, same)
           last == EngineNode(t[k], Rnd(t[k], gen, same))
           few == Nodewise(t, gen, same, k - 1)
           all == Nodewise(t, gen, same, k)
<1>0. Len(t) \in Nat /\ t \in Seq(Nodes) /\ k \in Nat /\ k - 1 \in 0 .. Len(t) /\ k \in 0 .. Len(t)
  BY DEF Made
<1>1. few \in Seq(Seq(S)) /\ all \in Seq(Seq(S))
  BY <1>0, NodewiseIs
<1>2. Len(few) = k - 1 /\ Len(all) = k
  BY <1>0 DEF Nodewise
<1>3. all[k] = last /\ \A i \in 1 .. k - 1 : all[i] = few[i]
  BY <1>0 DEF Nodewise
<1> HIDE DEF few, all, last, S
<1>4. last \in Seq(S)
  BY <1>0, <1>1, <1>2, <1>3
<1>5. all = Append(few, last)
  <2>1. Append(few, last) \in Seq(Seq(S)) /\ Len(Append(few, last)) = k
    BY <1>0, <1>1, <1>2, <1>4
  <2>2. ASSUME NEW i \in 1 .. Len(all) PROVE all[i] = Append(few, last)[i]
    <3>1. CASE i = k
      BY <1>0, <1>1, <1>2, <1>3, <1>4, <3>1
    <3>2. CASE i # k
      <4>1. i \in 1 .. k - 1 /\ i \in 1 .. Len(few)
        BY <1>0, <1>2, <3>2
      <4>2. Append(few, last)[i] = few[i]
        BY <1>1, <1>4, <4>1
      <4> QED
        BY <1>3, <4>1, <4>2
    <3> QED
      BY <3>1, <3>2
  <2> QED
    BY <1>1, <1>2, <2>1, <2>2, SeqEqual
<1>6. FlattenSeq(all) = FlattenSeq(few) \o last
  BY <1>1, <1>4, <1>5, FlattenAppend
<1>7. FlattenSeq(few) \in Seq(S)
  BY <1>1, FlattenSeqType
<1> DEFINE flat == FlattenSeq(few)
<1>8. BakedOf(flat \o last, idxToLayer) = BakedOf(flat, idxToLayer) \o BakedOf(last, idxToLayer)
  <2>1. flat \in Seq(S)
    BY <1>7
  <2> HIDE DEF flat
  <2> QED
    BY <1>4, <2>1, BakedConcat
<1>9. BakedOf(last, idxToLayer) \in Seq(S)
  BY <1>4, BakedPartsAre
<1>10. BakedOf(FlattenSeq(all), idxToLayer) =
         BakedOf(FlattenSeq(few), idxToLayer) \o BakedOf(last, idxToLayer)
  BY <1>6, <1>8
<1> QED
  BY <1>9, <1>10 DEF Earlier, few, all, last, S

LEMMA PrefixIs ==
  ASSUME NEW S, NEW s \in Seq(S), NEW u \in Seq(S)
  PROVE  IsPrefix(s, s \o u)
<1>1. Len(s) \in Nat /\ Len(u) \in Nat /\ s \o u \in Seq(S) /\ Len(s \o u) = Len(s) + Len(u)
  OBVIOUS
<1>2. SubSeq(s \o u, 1, Len(s)) = s /\ SubSeq(s, 1, Len(s)) = s
  OBVIOUS
<1> QED
  BY <1>1, <1>2 DEF IsPrefix

(* The vegetation of the first nodes begins that of them all.               *)
BeginsAll(t, gen, same, idxToLayer, k) ==
  \E u \in Seq(AllGrown(t, gen, same)) :
    Earlier(t, gen, same, idxToLayer, Len(t)) = Earlier(t, gen, same, idxToLayer, k) \o u

LEMMA EarlierBegins ==
  ASSUME NEW t, Made(t), NEW gen, NEW same, NEW idxToLayer, NEW k \in 0 .. Len(t)
  PROVE  BeginsAll(t, gen, same, idxToLayer, k)
<1> DEFINE S == AllGrown(t, gen, same)
           B(i) == Earlier(t, gen, same, idxToLayer, i)
           m == Len(t)
           g == [i \in 0 .. m |-> [drawn |-> 0, out |-> B(i), full |-> FALSE]]
<1>1. m \in Nat /\ \A i \in 0 .. m : B(i) \in Seq(S)
  BY EarlierIs DEF Made
<1>2. ASSUME NEW i \in 1 .. m PROVE \E u \in Seq(S) : B(i) = B(i - 1) \o u
  <2> DEFINE more == BakedOf(EngineNode(t[i], Rnd(t[i], gen, same)), idxToLayer)
  <2>1. more \in Seq(S) /\ B(i) = B(i - 1) \o more
    BY EarlierNext
  <2> HIDE DEF more, B, S
  <2> QED
    BY <2>1
<1>3. k \in 0 .. m
  OBVIOUS
<1> HIDE DEF S, B, m
<1>4. g \in [0 .. m -> States(S)]
  BY <1>1 DEF States
<1>5. \A i \in 0 .. m : g[i].out = B(i) /\ ~g[i].full
  OBVIOUS
<1> HIDE DEF g
<1>6. ASSUME NEW i \in k + 1 .. m PROVE Adds(g[i - 1], g[i], S)
  <2>1. i \in 1 .. m /\ i - 1 \in 0 .. m /\ i \in 0 .. m
    BY <1>1, <1>3
  <2> QED
    BY <1>2, <1>5, <2>1 DEF Adds
<1>7. S \in SUBSET S /\ m \in k .. m /\ m \in 0 .. m
  BY <1>1, <1>3
<1>8. \A j \in k .. m : Adds(g[k], g[j], S)
  BY <1>1, <1>3, <1>4, <1>6, <1>7, AddsInTurn
<1>9. \E u \in Seq(S) : g[m].out = g[k].out \o u
  BY <1>7, <1>8 DEF Adds
<1> QED
  BY <1>3, <1>5, <1>7, <1>9 DEF BeginsAll, S, B, m

(* What is kept in the middle of a node begins it, too.                     *)
LEMMA PartBegins ==
  ASSUME NEW t, Made(t), NEW gen, NEW same, NEW idxToLayer, NEW k \in 1 .. Len(t),
         IsVisited(t[k]),
         NEW x \in States(GrownIn(t[k], Rnd(t[k], gen, same))),
         Adds(x, AfterPlaces(t[k], Rnd(t[k], gen, same))[Len(Places(t[k]))],
              GrownIn(t[k], Rnd(t[k], gen, same)))
  PROVE  /\ BakedOf(x.out, idxToLayer) \in Seq(AllGrown(t, gen, same))
         /\ IsPrefix(Earlier(t, gen, same, idxToLayer, k - 1) \o BakedOf(x.out, idxToLayer),
                     Earlier(t, gen, same, idxToLayer, Len(t)))
<1> DEFINE node == t[k]
           rnd == Rnd(node, gen, same)
           S == AllGrown(t, gen, same)
           T == GrownIn(node, rnd)
           end == AfterPlaces(node, rnd)[Len(Places(node))]
           o == x.out
           B(i) == Earlier(t, gen, same, idxToLayer, i)
           K(s) == BakedOf(s, idxToLayer)
<1>0. Len(t) \in Nat /\ k - 1 \in 0 .. Len(t) /\ k \in 0 .. Len(t)
  BY DEF Made
<1>1. PICK u \in Seq(T) : end.out = o \o u
  BY DEF Adds
<1>2. o \in Seq(T)
  BY DEF States
<1>3. T \subseteq S
  BY DEF AllGrown
<1>4. EngineNode(node, rnd) = end.out
  BY DEF EngineNode
<1>5. B(k) = B(k - 1) \o K(end.out)
  BY <1>4, EarlierNext
<1>6. PICK v \in Seq(S) : B(Len(t)) = B(k) \o v
  <2>1. BeginsAll(t, gen, same, idxToLayer, k)
    BY <1>0, EarlierBegins
  <2> QED
    BY <2>1 DEF BeginsAll
<1>7. B(k - 1) \in Seq(S)
  BY <1>0, EarlierIs
<1> HIDE DEF node, rnd, S, T, end, o, B
<1>8. o \in Seq(S) /\ u \in Seq(S)
  BY <1>1, <1>2, <1>3
<1>9. K(o) \in Seq(S) /\ K(u) \in Seq(S)
  BY <1>8, BakedPartsAre
<1>10. K(end.out) = K(o) \o K(u)
  <2>1. BakedOf(o \o u, idxToLayer) =
          BakedOf(o, idxToLayer) \o BakedOf(u, idxToLayer)
    BY ONLY <1>8, BakedConcat
  <2> QED
    BY ONLY <1>1, <2>1
<1> HIDE DEF K
<1>11. /\ (B(k - 1) \o K(o)) \o K(u) = B(k - 1) \o (K(o) \o K(u))
       /\ B(k - 1) \o K(o) \in Seq(S)
  <2> DEFINE a == B(k - 1)
             b == K(o)
             c == K(u)
  <2>1. a \in Seq(S) /\ b \in Seq(S) /\ c \in Seq(S)
    BY <1>7, <1>9
  <2> HIDE DEF a, b, c
  <2>2. (a \o b) \o c = a \o (b \o c)
    <3>1. Regroups(a, b, c)
      BY <2>1, Regroup
    <3> QED
      BY <3>1 DEF Regroups
  <2>3. a \o b \in Seq(S)
    BY <2>1, ConcatProperties
  <2> QED
    BY <2>2, <2>3 DEF a, b, c
<1> DEFINE done == B(k - 1) \o K(o)
<1>12. B(Len(t)) = (done \o K(u)) \o v
  BY <1>5, <1>6, <1>10, <1>11
<1>13. done \in Seq(S)
  BY <1>11
<1> HIDE DEF done
<1>14. (done \o K(u)) \o v = done \o (K(u) \o v) /\ K(u) \o v \in Seq(S)
  <2>1. Regroups(done, K(u), v)
    BY <1>6, <1>9, <1>13, Regroup
  <2>2. K(u) \o v \in Seq(S)
    BY <1>6, <1>9, ConcatProperties
  <2> QED
    BY <2>1, <2>2 DEF Regroups
<1>15. IsPrefix(done, done \o (K(u) \o v))
  BY <1>13, <1>14, PrefixIs
<1>16. IsPrefix(done, B(Len(t)))
  BY <1>12, <1>14, <1>15
<1> QED
  BY <1>9, <1>16 DEF done, K, o, S, B

(* Both processors find the same surfaces, and so the same cells.           *)
LEMMA SameSurface ==
  ASSUME NEW type, NEW p, NEW vector \in BOOLEAN
  PROVE  OnSurface(type, p, vector) = OnSurface(type, p, FALSE)
<1>1. \A x, y, dx, dy : Vector(type, x, y, dx, dy) = Scalar(type, x, y, dx, dy)
  BY DEF Vector, Scalar, Lanes
<1> QED
  BY <1>1 DEF OnSurface

(* What a cell does once k numbers are drawn: as GrowCell has it.           *)
CellOutcome(node, rndGen, spot, c, x, k, vector, S) ==
  LET d(i) == Draw(rndGen, k + i)
      p    == Position(node, spot.group, c, d(1), d(2))
      on   == OnSurface(spot.surface, p, vector)
      born == on /\ Suits(spot.group, p, d(3))
      v    == Instance(spot.group, p, d(3), d(4))
      y    == EngineCell(node, rndGen, spot, c, x)
  IN  /\ y.drawn = k + (IF ~on THEN 2 ELSE IF ~born THEN 3 ELSE 4)
      /\ born => /\ y.out = Append(x.out, v) /\ v \in S /\ v.group = spot.group
                 /\ y.full <=> Len(x.out) + 1 >= MaxObjects
      /\ ~born => y.out = x.out /\ ~y.full

LEMMA CellIs ==
  ASSUME NEW node, NEW rndGen, NEW spot, NEW S, Grown(node, rndGen, spot) \in SUBSET S,
         NEW c \in Nat, NEW x \in States(S), ~x.full, NEW k, x.drawn = k, NEW vector \in BOOLEAN
  PROVE  CellOutcome(node, rndGen, spot, c, x, k, vector, S)
<1> DEFINE d(i) == Draw(rndGen, k + i)
           p    == Position(node, spot.group, c, d(1), d(2))
           on   == OnSurface(spot.surface, p, vector)
           suits == Suits(spot.group, p, d(3))
           v    == Instance(spot.group, p, d(3), d(4))
           y    == EngineCell(node, rndGen, spot, c, x)
<1>1. x.drawn \in Nat /\ x = [drawn |-> x.drawn, out |-> x.out, full |-> x.full]
  BY DEF States
<1>2. on <=> OnSurface(spot.surface, p, FALSE)
  <2> HIDE DEF p
  <2> QED
    BY SameSurface
<1>3. y = IF ~on THEN [x EXCEPT !.drawn = @ + 2]
          ELSE IF ~suits THEN [x EXCEPT !.drawn = @ + 3]
          ELSE [drawn |-> k + 4, out |-> Append(x.out, v), full |-> Len(x.out) + 1 >= MaxObjects]
  BY <1>2 DEF EngineCell
<1>4. v \in S
  <2>1. \A i \in Nat : d(i) \in Numbers(rndGen)
    BY <1>1 DEF Numbers
  <2>2. d(1) \in Numbers(rndGen) /\ d(2) \in Numbers(rndGen) /\ d(3) \in Numbers(rndGen) /\ d(4) \in Numbers(rndGen)
    BY <2>1
  <2>3. v \in Grown(node, rndGen, spot)
    <3> HIDE DEF d
    <3> QED
      BY <2>2 DEF Grown
  <2> HIDE DEF v
  <2> QED
    BY <2>3
<1>5. v.group = spot.group
  BY DEF Instance
<1> HIDE DEF y, v, on, suits
<1>6. /\ y.drawn = k + (IF ~on THEN 2 ELSE IF ~(on /\ suits) THEN 3 ELSE 4)
      /\ on /\ suits => y.out = Append(x.out, v) /\ (y.full <=> Len(x.out) + 1 >= MaxObjects)
      /\ ~(on /\ suits) => y.out = x.out /\ ~y.full
  <2>1. CASE ~on
    BY <1>1, <1>3, <2>1
  <2>2. CASE on /\ ~suits
    BY <1>1, <1>3, <2>2
  <2>3. CASE on /\ suits
    BY <1>1, <1>3, <2>3
  <2> QED
    BY <2>1, <2>2, <2>3
<1> QED
  BY <1>4, <1>5, <1>6 DEF CellOutcome, y, v, on, suits

(* What is kept so far: that of the nodes that were left, and of the        *)
(* engine's state x in the node that is visited.                            *)
Result(k) == Earlier(terrain, generator, noRandomSeed, layerOf, k)

Reached(x) ==
  /\ ~x.full /\ x.drawn = nDrawn /\ Len(x.out) = counter
  /\ result = Result(nNode - 1) \o BakedOf(x.out, layerOf)

Here      == terrain[nNode]
HereRnd   == Rnd(terrain[nNode], generator, noRandomSeed)
HereSpots == Places(Here)
AtPlace   == AfterPlaces(Here, HereRnd)[nPos - 1]
AtCell    == AfterCells(Here, HereRnd, HereSpots[nPos], AtPlace)[nCell - 1]

BetweenInv == phase = "nodes" => result = Result(nNode - 1)

VisitInv ==
  phase \in {"groups", "cells"} =>
    nNode <= Len(terrain) /\ IsVisited(Here) /\ nPos \in 1 .. Len(HereSpots) + 1

GroupsInv == phase = "groups" => Reached(AtPlace)

CellsInv ==
  phase = "cells" =>
    /\ nPos <= Len(HereSpots) /\ MayGrow(Here, HereSpots[nPos])
    /\ nCell \in 1 .. CellCount(HereSpots[nPos]) + 1
    /\ Reached(AtCell)

EndInv ==
  /\ phase = "faulted" => IsPrefix(result, Result(Len(terrain)))
  /\ phase = "done" => result = Result(Len(terrain))

ProcInv ==
  /\ Made(terrain) /\ nNode \in 1 .. Len(terrain) + 1 /\ sse2 \in BOOLEAN
  /\ phase \in {"nodes", "groups", "cells", "faulted", "done"}
  /\ BetweenInv /\ VisitInv /\ GroupsInv /\ CellsInv /\ EndInv

LEMMA GivenIs ==
  ASSUME ProcInv
  PROVE  /\ Len(terrain) \in Nat /\ nNode \in Nat /\ nNode - 1 \in 0 .. Len(terrain)
         /\ nNode <= Len(terrain) => /\ nNode \in 1 .. Len(terrain) /\ Here \in Nodes /\ RowsAre(Here)
                                 /\ HereSpots \in Seq(Spots)
  <1>1. /\ terrain \in Seq(Nodes) /\ nNode \in 1 .. Len(terrain) + 1
        /\ \A i \in 1 .. Len(terrain) : RowsAre(terrain[i])
    BY DEF ProcInv, Made
  <1>2. nNode <= Len(terrain) => nNode \in 1 .. Len(terrain) /\ Here \in Nodes /\ RowsAre(Here)
    BY <1>1 DEF Here
  <1> QED
    BY <1>1, <1>2, SpotsAre DEF HereSpots

LEMMA NamesAre ==
  /\ Node = Here /\ Spot = HereSpots[nPos]
  /\ RndGen(Here) = HereRnd
  BY DEF Node, Spot, RndGen, Rnd, Here, HereRnd, HereSpots

(* The node is left with all of the engine's that is kept.                  *)
LEMMA NodeLeft ==
  ASSUME ProcInv, nNode <= Len(terrain), NEW out,
         \/ IsVisited(Here) /\ BakedOf(out, layerOf) =
              BakedOf(AfterPlaces(Here, HereRnd)[Len(HereSpots)].out, layerOf)
         \/ ~IsVisited(Here) /\ out = <<>>
  PROVE  Result(nNode) = Result(nNode - 1) \o BakedOf(out, layerOf)
<1>1. BakedOf(out, layerOf) = BakedOf(EngineNode(Here, HereRnd), layerOf)
  BY DEF EngineNode, HereSpots
<1>2. Made(terrain) /\ nNode \in 1 .. Len(terrain)
  BY GivenIs DEF ProcInv
<1>3. Earlier(terrain, generator, noRandomSeed, layerOf, nNode) =
        Earlier(terrain, generator, noRandomSeed, layerOf, nNode - 1) \o
          BakedOf(EngineNode(terrain[nNode], Rnd(terrain[nNode], generator, noRandomSeed)), layerOf)
  BY <1>2, EarlierNext
<1> QED
  BY <1>1, <1>3 DEF Result, Here, HereRnd

LEMMA StartIs ==
  ASSUME ProcInv, nNode <= Len(terrain)
  PROVE  /\ AfterPlaces(Here, HereRnd)[0] = [drawn |-> 0, out |-> <<>>, full |-> FALSE]
         /\ Result(nNode - 1) \o BakedOf(<<>>, layerOf) = Result(nNode - 1)
<1>1. Here \in Nodes /\ RowsAre(Here)
  BY GivenIs
<1>2. AfterPlaces(Here, HereRnd)[0] = [drawn |-> 0, out |-> <<>>, full |-> FALSE]
  BY <1>1, GroupsAre
<1>3. Result(nNode - 1) \in Seq(AllGrown(terrain, generator, noRandomSeed))
  BY GivenIs, EarlierIs DEF ProcInv, Result
<1> QED
  BY <1>2, <1>3, BakedFew, ConcatEmptySeq

LEMMA InitKeeps ==
  ASSUME ProcVegInit
  PROVE  ProcInv
<1>1. Made(terrain)
  BY ProcVegAssumption DEF TerrainsAreMade, ProcVegInit, Made, RowsAre
<1>2. nNode \in 1 .. Len(terrain) + 1 /\ sse2 \in BOOLEAN /\ phase = "nodes" /\ nNode = 1 /\ result = <<>>
  <2>1. Len(terrain) \in Nat
    BY <1>1 DEF Made
  <2> QED
    BY <2>1 DEF ProcVegInit
<1>3. Result(0) = <<>>
  <2>1. Nodewise(terrain, generator, noRandomSeed, 0) = <<>>
    BY DEF Nodewise
  <2>2. FlattenSeq(<<>>) = <<>>
    BY FlattenFew
  <2> QED
    BY <2>1, <2>2, BakedFew DEF Result, Earlier
<1> QED
  BY <1>1, <1>2, <1>3 DEF ProcInv, BetweenInv, VisitInv, GroupsInv, CellsInv, EndInv

LEMMA HereStays ==
  ASSUME UNCHANGED <<terrain, generator, noRandomSeed, layerOf, nNode>>
  PROVE  Here' = Here /\ HereRnd' = HereRnd /\ HereSpots' = HereSpots /\ Result(nNode - 1)' = Result(nNode - 1)
  BY DEF Here, HereRnd, HereSpots, Result

LEMMA EnterNodeKeeps ==
  ASSUME ProcInv, EnterNode
  PROVE  ProcInv'
<1> DEFINE g == AfterPlaces(Here, HereRnd)
           last == LastBakedPos(Here, layerOf)
<1>1. phase = "nodes" /\ nNode <= Len(terrain) /\ result = Result(nNode - 1)
  BY DEF EnterNode, ProcInv, BetweenInv
<1>2. Here \in Nodes /\ RowsAre(Here) /\ Len(HereSpots) \in Nat /\ Len(terrain) \in Nat /\ nNode \in Nat
  BY <1>1, GivenIs
<1>3. g[0] = [drawn |-> 0, out |-> <<>>, full |-> FALSE] /\ Result(nNode - 1) \o BakedOf(<<>>, layerOf) = Result(nNode - 1)
  BY <1>1, StartIs
<1>4. UNCHANGED <<terrain, generator, noRandomSeed, layerOf, sse2, nCell, result>>
  BY DEF EnterNode, given
<1>5. CASE IsVisited(Here) /\ last > 0
  <2>1. phase' = "groups" /\ nPos' = 1 /\ nDrawn' = 0 /\ counter' = 0 /\ nNode' = nNode
    BY <1>5, NamesAre DEF EnterNode
  <2>2. Here' = Here /\ HereRnd' = HereRnd /\ HereSpots' = HereSpots /\ Result(nNode - 1)' = Result(nNode - 1)
    BY <1>4, <2>1, HereStays
  <2>3. AtPlace' = [drawn |-> 0, out |-> <<>>, full |-> FALSE]
    <3>1. nPos' - 1 = 0
      BY <2>1
    <3> QED
      BY <1>3, <2>2, <3>1 DEF AtPlace
  <2>4. Reached(AtPlace)'
    BY <1>1, <1>3, <1>4, <2>1, <2>2, <2>3 DEF Reached
  <2>5. VisitInv'
    BY <1>1, <1>2, <1>4, <1>5, <2>1, <2>2 DEF VisitInv
  <2> QED
    BY <1>4, <2>1, <2>4, <2>5 DEF ProcInv, BetweenInv, GroupsInv, CellsInv, EndInv
<1>6. CASE ~(IsVisited(Here) /\ last > 0)
  <2>1. phase' = phase /\ nNode' = nNode + 1
    BY <1>6, NamesAre DEF EnterNode
  <2>2. Result(nNode) = Result(nNode - 1)
    <3>1. CASE ~IsVisited(Here)
      BY <1>1, <1>3, <3>1, NodeLeft
    <3>2. CASE IsVisited(Here)
      <4>1. last \in 0 .. Len(HereSpots)
        BY <1>2, LastBakedIs DEF HereSpots
      <4>2. 0 \in last .. Len(HereSpots)
        BY <1>2, <1>6, <3>2, <4>1
      <4>3. BakedOf(g[0].out, layerOf) = BakedOf(g[Len(HereSpots)].out, layerOf)
        BY <1>2, <4>2, NoMoreBaked DEF HereSpots
      <4>4. BakedOf(<<>>, layerOf) = BakedOf(g[Len(HereSpots)].out, layerOf)
        BY <1>3, <4>3
      <4> QED
        BY <1>1, <1>3, <3>2, <4>4, NodeLeft
    <3> QED
      BY <3>1, <3>2
  <2>3. BetweenInv'
    <3>1. nNode' - 1 = nNode
      BY <1>2, <2>1
    <3>2. Result(nNode - 1)' = Result(nNode)
      BY <1>4, <3>1 DEF Result
    <3> QED
      BY <1>1, <1>4, <2>2, <3>2 DEF BetweenInv
  <2>4. nNode' \in 1 .. Len(terrain') + 1
    BY <1>1, <1>2, <1>4, <2>1
  <2> QED
    BY <1>1, <1>4, <2>1, <2>3, <2>4 DEF ProcInv, VisitInv, GroupsInv, CellsInv, EndInv
<1> QED
  BY <1>5, <1>6

LEMMA EnterGroupKeeps ==
  ASSUME ProcInv, EnterGroup
  PROVE  ProcInv'
<1> DEFINE g == AfterPlaces(Here, HereRnd)
           last == LastBakedPos(Here, layerOf)
           spot == HereSpots[nPos]
<1>1. /\ phase = "groups" /\ nNode <= Len(terrain) /\ IsVisited(Here)
      /\ nPos \in 1 .. Len(HereSpots) + 1 /\ Reached(AtPlace)
  BY DEF EnterGroup, ProcInv, VisitInv, GroupsInv
<1>2. Here \in Nodes /\ RowsAre(Here) /\ Len(HereSpots) \in Nat /\ Len(terrain) \in Nat /\ nNode \in Nat
  BY <1>1, GivenIs
<1>3. UNCHANGED <<terrain, generator, noRandomSeed, layerOf, sse2, nDrawn, counter, result>>
  BY DEF EnterGroup, given
<1>4. last \in 0 .. Len(HereSpots)
  BY <1>2, LastBakedIs DEF HereSpots
<1>5. CASE nPos > last
  <2>1. phase' = "nodes" /\ nNode' = nNode + 1
    BY <1>5, NamesAre DEF EnterGroup, LeaveNode
  <2>2. nPos - 1 \in last .. Len(HereSpots)
    BY <1>1, <1>2, <1>4, <1>5
  <2>3. BakedOf(AtPlace.out, layerOf) = BakedOf(g[Len(HereSpots)].out, layerOf)
    BY <1>2, <2>2, NoMoreBaked DEF HereSpots, AtPlace
  <2>4. result = Result(nNode)
    BY <1>1, <2>3, NodeLeft DEF Reached
  <2>5. BetweenInv'
    <3>1. nNode' - 1 = nNode
      BY <1>2, <2>1
    <3>2. Result(nNode - 1)' = Result(nNode)
      BY <1>3, <3>1 DEF Result
    <3> QED
      BY <1>3, <2>4, <3>2 DEF BetweenInv
  <2>6. nNode' \in 1 .. Len(terrain') + 1
    BY <1>1, <1>2, <1>3, <2>1
  <2> QED
    BY <1>3, <2>1, <2>5, <2>6 DEF ProcInv, VisitInv, GroupsInv, CellsInv, EndInv
<1>6. CASE ~(nPos > last)
  <2>1. nPos \in 1 .. Len(HereSpots) /\ nPos - 1 \in 0 .. Len(HereSpots)
    BY <1>1, <1>2, <1>4, <1>6
  <2>2. nNode' = nNode
    BY <1>6, NamesAre DEF EnterGroup
  <2>3. Here' = Here /\ HereRnd' = HereRnd /\ HereSpots' = HereSpots /\ Result(nNode - 1)' = Result(nNode - 1)
    BY <1>3, <2>2, HereStays
  <2>4. CASE ~MayGrow(Here, spot)
    <3>1. phase' = phase /\ nPos' = nPos + 1
      BY <1>6, <2>4, NamesAre DEF EnterGroup
    <3>2. g[nPos] = EngineGroup(Here, HereRnd, spot, AtPlace)
      BY <1>2, <2>1, GroupsAre DEF HereSpots, AtPlace
    <3>3. g[nPos] = AtPlace
      BY <2>4, <3>2 DEF EngineGroup
    <3>4. AtPlace' = AtPlace
      <4>1. nPos' - 1 = nPos
        BY <2>1, <3>1
      <4> QED
        BY <2>3, <3>3, <4>1 DEF AtPlace
    <3>5. Reached(AtPlace)'
      BY <1>1, <1>3, <2>3, <3>4 DEF Reached
    <3>6. VisitInv'
      BY <1>1, <1>2, <1>3, <2>1, <2>2, <2>3, <3>1 DEF VisitInv
    <3> QED
      BY <1>1, <1>3, <2>2, <3>1, <3>5, <3>6 DEF ProcInv, BetweenInv, GroupsInv, CellsInv, EndInv
  <2>5. CASE MayGrow(Here, spot)
    <3>1. phase' = "cells" /\ nCell' = 1 /\ nPos' = nPos
      BY <1>6, <2>5, NamesAre DEF EnterGroup
    <3>2. CellCount(spot) \in Nat /\ AfterCells(Here, HereRnd, spot, AtPlace)[0] = AtPlace
      BY <1>2, <2>1, <2>5, CellLeads DEF HereSpots, AtPlace
    <3>3. AtPlace' = AtPlace
      BY <2>3, <3>1 DEF AtPlace
    <3>4. AtCell' = AtPlace
      <4>1. nCell' - 1 = 0
        BY <3>1
      <4> QED
        BY <2>3, <3>1, <3>2, <3>3, <4>1 DEF AtCell
    <3>5. Reached(AtCell)'
      BY <1>1, <1>3, <2>3, <3>4 DEF Reached
    <3>6. VisitInv'
      BY <1>1, <1>2, <1>3, <2>1, <2>2, <2>3, <3>1 DEF VisitInv
    <3>7. CellsInv'
      <4>1. HereSpots'[nPos'] = spot /\ nCell' \in 1 .. CellCount(spot) + 1
        BY <2>3, <3>1, <3>2
      <4> QED
        BY <2>1, <2>3, <2>5, <3>1, <3>5, <4>1 DEF CellsInv
    <3> QED
      BY <1>1, <1>3, <2>2, <3>1, <3>6, <3>7 DEF ProcInv, BetweenInv, GroupsInv, EndInv
  <2> QED
    BY <2>4, <2>5
<1> QED
  BY <1>5, <1>6

LEMMA LeaveGroupKeeps ==
  ASSUME ProcInv, LeaveGroup
  PROVE  ProcInv'
<1> DEFINE g == AfterPlaces(Here, HereRnd)
           spot == HereSpots[nPos]
<1>1. /\ phase = "cells" /\ nNode <= Len(terrain) /\ IsVisited(Here)
      /\ nPos \in 1 .. Len(HereSpots) + 1 /\ nPos <= Len(HereSpots) /\ MayGrow(Here, spot)
      /\ nCell \in 1 .. CellCount(spot) + 1 /\ Reached(AtCell)
  BY DEF LeaveGroup, ProcInv, VisitInv, CellsInv
<1>2. Here \in Nodes /\ RowsAre(Here) /\ Len(HereSpots) \in Nat /\ Len(terrain) \in Nat /\ nNode \in Nat
  BY <1>1, GivenIs
<1>3. /\ nCell > CellCount(spot) /\ phase' = "groups" /\ nPos' = nPos + 1
      /\ UNCHANGED <<terrain, generator, noRandomSeed, layerOf, sse2, nNode, nCell, nDrawn, counter, result>>
  BY NamesAre DEF LeaveGroup, given
<1>4. nPos \in 1 .. Len(HereSpots)
  BY <1>1, <1>2
<1>5. CellCount(spot) \in Nat /\ AfterCells(Here, HereRnd, spot, AtPlace)[CellCount(spot)] = g[nPos]
  BY <1>1, <1>2, <1>4, CellLeads DEF HereSpots, AtPlace
<1>6. AtCell = g[nPos]
  <2>1. nCell - 1 = CellCount(spot)
    BY <1>1, <1>3, <1>5
  <2> QED
    BY <1>5, <2>1 DEF AtCell
<1>7. Here' = Here /\ HereRnd' = HereRnd /\ HereSpots' = HereSpots /\ Result(nNode - 1)' = Result(nNode - 1)
  BY <1>3, HereStays
<1>8. AtPlace' = AtCell
  <2>1. nPos' - 1 = nPos
    BY <1>3, <1>4
  <2> QED
    BY <1>6, <1>7, <2>1 DEF AtPlace
<1>9. Reached(AtPlace)'
  BY <1>1, <1>3, <1>7, <1>8 DEF Reached
<1>10. VisitInv'
  BY <1>1, <1>2, <1>3, <1>4, <1>7 DEF VisitInv
<1> QED
  BY <1>3, <1>9, <1>10 DEF ProcInv, BetweenInv, GroupsInv, CellsInv, EndInv

LEMMA GrowCellKeeps ==
  ASSUME ProcInv, GrowCell
  PROVE  ProcInv'
<1> DEFINE g == AfterPlaces(Here, HereRnd)
           spot == HereSpots[nPos]
           h == AfterCells(Here, HereRnd, spot, AtPlace)
           S == GrownIn(Here, HereRnd)
           x == AtCell
           y == h[nCell]
           d(i) == Draw(HereRnd, nDrawn + i)
           p == Position(Here, spot.group, nCell, d(1), d(2))
           on == OnSurface(spot.surface, p, sse2)
           born == on /\ Suits(spot.group, p, d(3))
           v == Instance(spot.group, p, d(3), d(4))
           B == Result(nNode - 1)
           K(s) == BakedOf(s, layerOf)
<1>1. /\ phase = "cells" /\ nNode <= Len(terrain) /\ IsVisited(Here)
      /\ nPos \in 1 .. Len(HereSpots) + 1 /\ nPos <= Len(HereSpots) /\ MayGrow(Here, spot)
      /\ nCell \in 1 .. CellCount(spot) + 1 /\ Reached(x)
  BY DEF GrowCell, ProcInv, VisitInv, CellsInv
<1>2. Here \in Nodes /\ RowsAre(Here) /\ Len(HereSpots) \in Nat /\ Len(terrain) \in Nat /\ nNode \in Nat
  BY <1>1, GivenIs
<1>3. /\ nCell <= CellCount(spot)
      /\ nDrawn' = nDrawn + (IF ~on THEN 2 ELSE IF ~born THEN 3 ELSE 4)
      /\ result' = IF born /\ IsBakedGroup(spot.group, layerOf) THEN Append(result, v) ELSE result
      /\ counter' = IF born THEN counter + 1 ELSE counter
      /\ IF born /\ counter' >= MaxObjects
         THEN phase' = "nodes" /\ nNode' = nNode + 1 /\ nCell' = nCell
         ELSE nCell' = nCell + 1 /\ phase' = phase /\ nNode' = nNode
  BY NamesAre DEF GrowCell, Number, Counted, LeaveNode
<1>4. UNCHANGED <<terrain, generator, noRandomSeed, layerOf, sse2, nPos>>
  BY DEF GrowCell, given
<1>5. nPos \in 1 .. Len(HereSpots)
  BY <1>1, <1>2
<1>6. /\ CellCount(spot) \in Nat
      /\ \A c \in 0 .. CellCount(spot) :
           /\ h[c] \in States(S)
           /\ Adds(h[c], g[Len(HereSpots)], S)
      /\ \A c \in 1 .. CellCount(spot) : h[c] = EngineCell(Here, HereRnd, spot, c, h[c - 1])
  BY <1>1, <1>2, <1>5, CellLeads DEF HereSpots, AtPlace
<1>7. /\ nCell \in 1 .. CellCount(spot) /\ nCell - 1 \in 0 .. CellCount(spot)
      /\ nCell \in 0 .. CellCount(spot) /\ nCell \in Nat
  BY <1>1, <1>3, <1>6
<1>8. /\ x \in States(S) /\ y \in States(S) /\ Adds(y, g[Len(HereSpots)], S)
      /\ y = EngineCell(Here, HereRnd, spot, nCell, x)
  BY <1>6, <1>7 DEF AtCell
<1>9. ~x.full /\ x.drawn = nDrawn /\ Len(x.out) = counter /\ result = B \o K(x.out)
  BY <1>1 DEF Reached
<1>10. Grown(Here, HereRnd, spot) \in SUBSET S
  BY <1>2, <1>5, GroupsAre DEF HereSpots
<1>11. /\ y.drawn = nDrawn'
       /\ born => y.out = Append(x.out, v) /\ v \in S /\ v.group = spot.group /\ (y.full <=> counter' >= MaxObjects)
       /\ ~born => y.out = x.out /\ ~y.full
  <2>1. sse2 \in BOOLEAN
    BY DEF ProcInv
  <2> HIDE DEF S, x, y, spot
  <2>2. /\ y.drawn = nDrawn + (IF ~on THEN 2 ELSE IF ~born THEN 3 ELSE 4)
        /\ born => y.out = Append(x.out, v) /\ v \in S /\ v.group = spot.group
                   /\ (y.full <=> Len(x.out) + 1 >= MaxObjects)
        /\ ~born => y.out = x.out /\ ~y.full
    <3>1. CellOutcome(Here, HereRnd, spot, nCell, x, nDrawn, sse2, S)
      BY <1>7, <1>8, <1>9, <1>10, <2>1, CellIs
    <3> QED
      BY <1>8, <3>1 DEF CellOutcome
  <2> QED
    BY <1>3, <1>9, <2>2
<1> HIDE DEF born, on, v, d, p, S, x, y, spot
<1>12. x.out \in Seq(S) /\ Len(x.out) \in Nat
  BY <1>8 DEF States
<1>13. counter' = Len(y.out)
  <2>1. born => Len(Append(x.out, v)) = Len(x.out) + 1
    BY <1>12
  <2> QED
    BY <1>3, <1>9, <1>11, <2>1
<1>14. result' = B \o K(y.out)
  <2>1. CASE born /\ IsBakedGroup(spot.group, layerOf)
    <3> DEFINE A == AllGrown(terrain, generator, noRandomSeed)
               k == K(x.out)
    <3>1. K(y.out) = Append(k, v)
      <4>1. BakedOf(Append(x.out, v), layerOf) = Append(BakedOf(x.out, layerOf), v)
        <5> DEFINE o == x.out
        <5>1. o \in Seq(S)
          BY <1>12
        <5> HIDE DEF o
        <5>2. BakedOf(Append(o, v), layerOf) = Append(BakedOf(o, layerOf), v)
          BY <1>11, <2>1, <5>1, BakedAppend
        <5> QED
          BY <5>2 DEF o
      <4> QED
        BY <1>11, <2>1, <4>1
    <3>2. result' = Append(B \o k, v)
      BY <1>3, <1>9, <2>1
    <3>3. B \in Seq(A) /\ k \in Seq(S)
      <4>1. B \in Seq(A)
        BY GivenIs, EarlierIs DEF ProcInv, Result
      <4>2. k \in Seq(S)
        BY <1>12, BakedPartsAre
      <4> QED
        BY <4>1, <4>2
    <3>4. v \in S
      BY <1>11, <2>1
    <3> HIDE DEF A, k, B, K
    <3>5. B \in Seq(A \union S) /\ k \in Seq(A \union S) /\ v \in A \union S
      BY <3>3, <3>4
    <3> DEFINE U == A \union S
    <3>6. B \in Seq(U) /\ k \in Seq(U) /\ v \in U
      BY <3>5
    <3> HIDE DEF U
    <3>7. Append(B \o k, v) = B \o Append(k, v)
      BY <3>6
    <3> QED
      BY <3>1, <3>2, <3>7
  <2>2. CASE born /\ ~IsBakedGroup(spot.group, layerOf)
    <3>1. BakedOf(Append(x.out, v), layerOf) = BakedOf(x.out, layerOf)
      <4> DEFINE o == x.out
      <4>1. o \in Seq(S)
        BY <1>12
      <4> HIDE DEF o
      <4>2. BakedOf(Append(o, v), layerOf) = BakedOf(o, layerOf)
        BY <1>11, <2>2, <4>1, BakedAppend
      <4> QED
        BY <4>2 DEF o
    <3> QED
      BY <1>3, <1>9, <1>11, <2>2, <3>1
  <2>3. CASE ~born
    BY <1>3, <1>9, <1>11, <2>3
  <2> QED
    BY <2>1, <2>2, <2>3
<1>15. CASE born /\ counter' >= MaxObjects
  <2>1. phase' = "nodes" /\ nNode' = nNode + 1 /\ y.full
    BY <1>3, <1>11, <1>15
  <2>2. g[Len(HereSpots)] = y
    BY <1>8, <2>1 DEF Adds
  <2>3. Result(nNode) = B \o K(y.out)
    BY <1>1, <2>2, NodeLeft
  <2>4. BetweenInv'
    <3>1. nNode' - 1 = nNode
      BY <1>2, <2>1
    <3>2. Result(nNode - 1)' = Result(nNode)
      BY <1>4, <3>1 DEF Result
    <3> QED
      BY <1>14, <2>3, <3>2 DEF BetweenInv
  <2>5. nNode' \in 1 .. Len(terrain') + 1
    BY <1>1, <1>2, <1>4, <2>1
  <2> QED
    BY <1>4, <2>1, <2>4, <2>5 DEF ProcInv, VisitInv, GroupsInv, CellsInv, EndInv
<1>16. CASE ~(born /\ counter' >= MaxObjects)
  <2>1. phase' = phase /\ nNode' = nNode /\ nCell' = nCell + 1 /\ ~y.full
    BY <1>3, <1>11, <1>16
  <2>2. Here' = Here /\ HereRnd' = HereRnd /\ HereSpots' = HereSpots /\ Result(nNode - 1)' = Result(nNode - 1)
    BY <1>4, <2>1, HereStays
  <2>3. AtPlace' = AtPlace
    BY <1>4, <2>2 DEF AtPlace
  <2>4. AtCell' = y
    <3>1. nCell' - 1 = nCell
      BY <1>7, <2>1
    <3> QED
      BY <1>4, <2>2, <2>3, <3>1 DEF AtCell, y, spot
  <2>5. Reached(AtCell)'
    BY <1>4, <1>11, <1>13, <1>14, <2>1, <2>2, <2>4 DEF Reached
  <2>6. VisitInv'
    BY <1>1, <1>4, <2>1, <2>2 DEF VisitInv
  <2>7. CellsInv'
    <3>1. HereSpots'[nPos'] = spot /\ nCell' \in 1 .. CellCount(spot) + 1
      BY <1>4, <1>6, <1>7, <2>1, <2>2 DEF spot
    <3> QED
      BY <1>1, <1>4, <2>2, <2>5, <3>1 DEF CellsInv
  <2> QED
    BY <1>1, <1>4, <2>1, <2>6, <2>7 DEF ProcInv, BetweenInv, GroupsInv, EndInv
<1> QED
  BY <1>15, <1>16

(* Wherever a fault ends it, what is kept begins what the engine has.       *)
LEMMA AlwaysBegins ==
  ASSUME ProcInv
  PROVE  /\ IsPrefix(result, Result(Len(terrain)))
         /\ phase = "done" => result = Result(Len(terrain))
<1> DEFINE A == AllGrown(terrain, generator, noRandomSeed)
<1>1. Made(terrain) /\ Len(terrain) \in Nat /\ nNode - 1 \in 0 .. Len(terrain)
  BY GivenIs DEF ProcInv
<1>2. CASE phase = "nodes"
  <2>1. result = Result(nNode - 1)
    BY <1>2 DEF ProcInv, BetweenInv
  <2>2. Result(nNode - 1) \in Seq(A)
    BY <1>1, EarlierIs DEF Result
  <2>3. \E u \in Seq(A) : Result(Len(terrain)) = Result(nNode - 1) \o u
    <3>1. BeginsAll(terrain, generator, noRandomSeed, layerOf, nNode - 1)
      BY <1>1, EarlierBegins
    <3> QED
      BY <3>1 DEF BeginsAll, Result
  <2> HIDE DEF A
  <2>4. IsPrefix(Result(nNode - 1), Result(Len(terrain)))
    BY <2>2, <2>3, PrefixIs
  <2> QED
    BY <1>2, <2>1, <2>4
<1>3. CASE phase \in {"groups", "cells"}
  <2>1. nNode <= Len(terrain) /\ IsVisited(Here) /\ nPos \in 1 .. Len(HereSpots) + 1
    BY <1>3 DEF ProcInv, VisitInv
  <2>2. Here \in Nodes /\ RowsAre(Here) /\ Len(HereSpots) \in Nat /\ nNode \in 1 .. Len(terrain)
    BY <2>1, GivenIs
  <2> DEFINE end == AfterPlaces(Here, HereRnd)[Len(HereSpots)]
             S == GrownIn(Here, HereRnd)
             Mid(x) == x \in States(S) /\ Adds(x, end, S) /\ result = Result(nNode - 1) \o BakedOf(x.out, layerOf)
  <2>3. \E x : Mid(x)
    <3>1. CASE phase = "groups"
      <4>1. Reached(AtPlace)
        BY <3>1 DEF ProcInv, GroupsInv
      <4>2. nPos - 1 \in 0 .. Len(HereSpots)
        BY <2>1, <2>2
      <4>3. Adds(AtPlace, end, S)
        BY <2>2, <4>2, PlaceLeads DEF AtPlace, HereSpots
      <4>4. AtPlace \in States(S)
        <5>1. AfterPlaces(Here, HereRnd) \in [0 .. Len(HereSpots) -> States(S)]
          BY <2>2, GroupsAre DEF HereSpots
        <5> HIDE DEF S
        <5> QED
          BY <4>2, <5>1 DEF AtPlace
      <4> QED
        BY <4>1, <4>3, <4>4 DEF Reached
    <3>2. CASE phase = "cells"
      <4>1. /\ nPos <= Len(HereSpots) /\ MayGrow(Here, HereSpots[nPos]) /\ Reached(AtCell)
            /\ nCell \in 1 .. CellCount(HereSpots[nPos]) + 1
        BY <3>2 DEF ProcInv, CellsInv
      <4>2. nPos \in 1 .. Len(HereSpots)
        BY <2>1, <2>2, <4>1
      <4> DEFINE h == AfterCells(Here, HereRnd, HereSpots[nPos], AtPlace)
                 m == CellCount(HereSpots[nPos])
      <4>3. m \in Nat /\ \A c \in 0 .. m : h[c] \in States(S) /\ Adds(h[c], end, S)
        BY <2>2, <4>1, <4>2, CellLeads DEF HereSpots, AtPlace
      <4>4. nCell - 1 \in 0 .. m
        BY <4>1, <4>3
      <4>5. AtCell \in States(S) /\ Adds(AtCell, end, S)
        BY <4>3, <4>4 DEF AtCell
      <4> QED
        BY <4>1, <4>5 DEF Reached
    <3> QED
      BY <1>3, <3>1, <3>2
  <2>4. PICK x : Mid(x)
    BY <2>3
  <2>5. IsPrefix(Result(nNode - 1) \o BakedOf(x.out, layerOf), Result(Len(terrain)))
    BY <1>1, <2>1, <2>2, <2>4, PartBegins DEF Result, Here, HereRnd, HereSpots
  <2> QED
    BY <1>3, <2>4, <2>5
<1>4. CASE phase = "faulted"
  BY <1>4 DEF ProcInv, EndInv
<1>5. CASE phase = "done"
  <2>1. result = Result(Len(terrain))
    BY <1>5 DEF ProcInv, EndInv
  <2>2. Result(Len(terrain)) \in Seq(A)
    BY <1>1, EarlierIs DEF Result
  <2>3. IsPrefix(result, result)
    <3>1. result \in Seq(A)
      BY <2>1, <2>2
    <3> HIDE DEF A
    <3>2. <<>> \in Seq(A) /\ result \o <<>> = result
      BY <3>1
    <3> QED
      BY <3>1, <3>2, PrefixIs
  <2> QED
    BY <2>1, <2>3
<1> QED
  BY <1>2, <1>3, <1>4, <1>5 DEF ProcInv

LEMMA EndsKeep ==
  ASSUME ProcInv, AccessViolation \/ Finish
  PROVE  ProcInv'
<1>1. /\ UNCHANGED <<terrain, generator, noRandomSeed, layerOf, sse2, nNode, result>>
      /\ phase' \in {"faulted", "done"}
      /\ phase' = "done" => phase = "nodes" /\ nNode > Len(terrain)
  BY DEF AccessViolation, Finish, given
<1>2. Result(Len(terrain))' = Result(Len(terrain))
  BY <1>1 DEF Result
<1>3. EndInv'
  <2>1. CASE phase' = "faulted"
    BY <1>1, <1>2, <2>1, AlwaysBegins DEF EndInv
  <2>2. CASE phase' = "done"
    <3>1. nNode \in Nat /\ nNode \in 1 .. Len(terrain) + 1 /\ Len(terrain) \in Nat
      BY GivenIs DEF ProcInv
    <3>2. nNode - 1 = Len(terrain)
      BY <1>1, <2>2, <3>1
    <3>3. result = Result(nNode - 1)
      BY <1>1, <2>2 DEF ProcInv, BetweenInv
    <3> QED
      BY <1>1, <1>2, <2>2, <3>2, <3>3 DEF EndInv
  <2> QED
    BY <1>1, <2>1, <2>2
<1> QED
  BY <1>1, <1>3 DEF ProcInv, BetweenInv, VisitInv, GroupsInv, CellsInv

LEMMA StaysInSync ==
  ASSUME ProcInv
  PROVE  InSyncWithEngine
<1>1. terrain \in Seq(Nodes)
  BY DEF ProcInv, Made
<1>2. BakedOf(EngineVegetation, layerOf) = Result(Len(terrain))
  <2>1. \A node : RndGen(node) = Rnd(node, generator, noRandomSeed)
    BY DEF RndGen, Rnd
  <2>2. DOMAIN terrain = 1 .. Len(terrain)
    BY <1>1
  <2>3. [i \in DOMAIN terrain |-> EngineNode(terrain[i], RndGen(terrain[i]))] =
          Nodewise(terrain, generator, noRandomSeed, Len(terrain))
    BY <2>1, <2>2 DEF Nodewise
  <2>4. EngineVegetation = FlattenSeq(Nodewise(terrain, generator, noRandomSeed, Len(terrain)))
    BY <2>3 DEF EngineVegetation
  <2> QED
    BY <2>4 DEF Result, Earlier
<1>3. IsPrefix(result, Result(Len(terrain)))
  BY AlwaysBegins
<1> QED
  BY <1>2, <1>3, AlwaysBegins DEF InSyncWithEngine

(* Procedural vegetation is the engine's for the baked groups, and what a   *)
(* fault leaves of it begins the engine's: for every terrain, whatever      *)
(* numbers are drawn and groups are baked (ProcVegGenerator.cpp:478).       *)
THEOREM VegetationInSync == ProcVegSpec => []InSyncWithEngine
<1>1. ProcVegInit => ProcInv
  BY InitKeeps
<1>2. ProcInv /\ [ProcVegNext]_(procVegVars) => ProcInv'
  <2> SUFFICES ASSUME ProcInv, [ProcVegNext]_(procVegVars) PROVE ProcInv'
    OBVIOUS
  <2>1. CASE UNCHANGED procVegVars
    <3>1. UNCHANGED <<terrain, generator, noRandomSeed, layerOf, sse2, phase, nNode, nPos, nCell, nDrawn, counter, result>>
      BY <2>1 DEF procVegVars, given
    <3>2. Here' = Here /\ HereRnd' = HereRnd /\ HereSpots' = HereSpots /\ Result(nNode - 1)' = Result(nNode - 1)
      BY <3>1, HereStays
    <3>3. AtPlace' = AtPlace /\ Result(Len(terrain))' = Result(Len(terrain))
      BY <3>1, <3>2 DEF AtPlace, Result
    <3>4. AtCell' = AtCell
      BY <3>1, <3>2, <3>3 DEF AtCell
    <3>5. Reached(AtPlace)' = Reached(AtPlace) /\ Reached(AtCell)' = Reached(AtCell)
      BY <3>1, <3>2, <3>3, <3>4 DEF Reached
    <3> QED
      BY <3>1, <3>2, <3>3, <3>5 DEF ProcInv, BetweenInv, VisitInv, GroupsInv, CellsInv, EndInv
  <2> QED
    BY <2>1, EnterNodeKeeps, EnterGroupKeeps, LeaveGroupKeeps, GrowCellKeeps, EndsKeep DEF ProcVegNext
<1>3. ProcInv => InSyncWithEngine
  BY StaysInSync
<1>4. ProcVegSpec => ProcVegInit /\ [][ProcVegNext]_(procVegVars)
  BY DEF ProcVegSpec
<1> QED
  BY <1>1, <1>2, <1>3, <1>4, PTL
=============================================================================
