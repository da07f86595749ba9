-------------------------- MODULE PngStream_proofs --------------------------
(***************************************************************************)
(* Proofs about PngStream: what is in the chunks of the file, what zlib    *)
(* holds and what is in the buffers is the picture, in its order, while it *)
(* is written and while it is read.                                        *)
(***************************************************************************)
EXTENDS PngStream, DataLemmas

-----------------------------------------------------------------------------
(* Units of a stream, and its data.                                         *)
Unit  == [of : {"none", "sub", "bake", "user", "end"}, row : Nat, at : Nat]
Datum == Unit \ {Ending}

(* The rows of a picture of n rows after the first k.                       *)
LinesLeft(of, f, n, k) == [r \in 1 .. n - k |-> Line(of, f, k + r)]
Left(of, f, n, k)      == FlattenSeq(LinesLeft(of, f, n, k))

(* The items of a file, and the stream in them.                             *)
Items ==
  [is : {"signature", "crc"}] \cup [is : {"head"}, type : {"IHDR", "tEXt", "IDAT", "IEND"}, length : Nat]
    \cup [is : {"byte"}, units : Seq(Unit)]
    \cup [is : {"format"}, width : Nat, height : Nat, format : {"rgb8", "adam7"}]

UnitsOf(item) == IF item.is = "byte" THEN item.units ELSE <<>>
Parts(items)  == [i \in 1 .. Len(items) |-> UnitsOf(items[i])]
Stream(items) == FlattenSeq(Parts(items))

(* A chunk in its place, as far as the file goes.                           *)
HeadFits(items, p) ==
  LET crc == p + items[p].length + 1 IN
  /\ \A q \in p + 1 .. crc - 1 : q <= Len(items) =>
       items[q].is = "byte" /\ (items[p].type # "IDAT" => items[q].units = <<>>)
  /\ crc <= Len(items) => items[crc].is = "crc"
  /\ crc + 1 <= Len(items) => items[crc + 1].is = "head"
  /\ items[p].type = "IEND" => items[p].length = 0 /\ p + 1 >= Len(items)

(* Chunks one after the other behind the first.                             *)
Chained(items) ==
  /\ \A p \in 1 .. 4 : p <= Len(items) => items[p].is # "byte"
  /\ 5 <= Len(items) => items[5].is = "head"
  /\ \A p \in 5 .. Len(items) : items[p].is = "head" => HeadFits(items, p)

(* No chunk is cut short, and the last one is or is not IEND.               *)
Entire(items) ==
  /\ 4 <= Len(items)
  /\ \A p \in 5 .. Len(items) : items[p].is = "head" => p + items[p].length + 1 <= Len(items)

Open(items) ==
  Entire(items) /\ \A p \in 5 .. Len(items) : items[p].is = "head" => items[p].type # "IEND"

Ended(items) ==
  Entire(items) /\ 6 <= Len(items) /\ items[Len(items) - 1] = HeadOf("IEND", 0)

(* a is a beginning of b, or all of it.                                     *)
Matches(a, b, all) == Begins(a, b) /\ (all => Len(a) = Len(b))

-----------------------------------------------------------------------------
(* The exporter.                                                            *)

(* From the file to what has not been taken yet.                            *)
Lay(stored, buffered, taken, rest) == stored \o (buffered \o (taken \o rest))

(* What it has made of the picture so far.                                  *)
Made == IF wpc \in {"row", "deflate"} THEN Rows("bake", "none", y)
        ELSE Rows("bake", "none", Height) \o <<Ending>>

Exporting ==
  /\ file \in Seq(Items) /\ Chained(file)
  /\ file[1] = Signature /\ file[2] = HeadOf("IHDR", 1) /\ file[3] = Format("rgb8")
  /\ IF wpc \in {"flush", "close"} THEN Ended(file) ELSE Open(file)
  /\ y \in 0 .. Height /\ input \in Seq(Datum) /\ held \in Seq(Unit) /\ buffer \in Bytes(Unit)
  /\ Lay(Stream(file), FlattenSeq(buffer), held, input) = Made
  /\ wpc \in {"row", "deflate"} => Len(buffer) < OutputBuffer
  /\ wpc # "deflate" => input = <<>>
  /\ wpc \in {"end", "flush", "close"} => held = <<>> /\ buffer = <<>>
  /\ wpc = "close" => synced

-----------------------------------------------------------------------------
(* The file between an export and an import.                                *)

Settled == {"ready", "exported", "stopped"}

(* The picture whose beginning it has.                                      *)
Of     == IF wpc = "ready" THEN "user" ELSE "bake"
Sort   == IF wpc = "ready" /\ stranger = "filtered" THEN "sub" ELSE "none"
Lines  == CASE wpc = "ready" /\ stranger = "short" -> Height - 1
            [] wpc = "ready" /\ stranger = "dictionary" -> 0
            [] OTHER -> Height
Spare  == IF wpc = "ready" /\ stranger \in Stalling THEN <<Ending>> ELSE <<>>

(* Files that the importer has to accept.                                   *)
Whole  == wpc = "exported" \/ (wpc = "ready" /\ stranger = "plain")

Readable == Item(1) = Signature /\ Item(2) = HeadOf("IHDR", 1) /\ Item(3) = Format("rgb8")

OnDisk ==
  /\ file \in Seq(Items)
  /\ Whole => Readable /\ Ended(file)
  /\ Readable => /\ Chained(file)
                 /\ Matches(Stream(file), Rows(Of, Sort, Lines) \o (<<Ending>> \o Spare), Whole)

WriterInv ==
  /\ wpc \in Settled \cup {"row", "deflate", "finish", "end", "flush", "close"}
  /\ stranger \in Strangers
  /\ IF wpc \in Settled THEN OnDisk ELSE Exporting
  /\ wpc = "ready" => y = 0 /\ input = <<>> /\ held = <<>> /\ buffer = <<>>

-----------------------------------------------------------------------------
(* The importer.                                                            *)

(* What is left of the stream in the file, and of the picture.              *)
RestOf(items, p) == Stream(SubSeq(items, p, Len(items)))
Rest(p) == RestOf(file, p)
Held    == row \o (decoded \o (FlattenSeq(chunk) \o Rest(pos)))
Due     == Left(Of, Sort, Lines, Len(image)) \o (IF ended THEN Spare ELSE <<Ending>> \o Spare)

AtRest == chunk = <<>> /\ decoded = <<>> /\ ended = FALSE /\ row = <<>> /\ image = <<>>

(* What is left of a chunk, and the chunk after it.                         *)
InChunk ==
  /\ remaining \in Nat
  /\ \A q \in pos .. pos + remaining - 1 : q <= Len(file) => file[q].is = "byte"
  /\ pos + remaining <= Len(file) => file[pos + remaining].is = "crc"
  /\ pos + remaining + 1 <= Len(file) => file[pos + remaining + 1].is = "head"
  /\ Whole => pos + remaining + 1 <= Len(file)

Reading ==
  /\ Readable /\ sizes = [width |-> Width, height |-> Height]
  /\ pos \in Nat \ (0 .. 4)
  /\ chunk \in Seq(Seq(Unit)) /\ decoded \in Seq(Datum) /\ row \in Seq(Datum)
  /\ ended \in BOOLEAN /\ (ended => decoded = <<>>)
  /\ Len(row) <= Width /\ image \in Seq(Seq(Unit)) /\ Len(image) <= Lines
  /\ \A r \in 1 .. Len(image) : image[r] = Pixels(Of, r)
  /\ Matches(Held, Due, Whole)
  /\ rpc \in {"chunk", "read"} => chunk = <<>>
  /\ rpc = "chunk" /\ Whole => pos <= Len(file)
  /\ rpc = "chunk" /\ pos <= Len(file) => file[pos].is = "head"
  /\ rpc \in {"read", "inflate"} => InChunk

ReaderInv ==
  /\ rpc \in {"idle", "info", "chunk", "read", "inflate", "refused", "imported", "stopped"}
  /\ rpc # "idle" => wpc \in Settled
  /\ rpc \in {"idle", "info"} => AtRest
  /\ rpc = "info" => Readable /\ sizes = [width |-> Width, height |-> Height]
  /\ rpc \in {"chunk", "read", "inflate"} => Reading
  /\ rpc = "imported" => image = PictureOf(Of)
  /\ rpc = "refused" => ~Whole

PngInv == WriterInv /\ ReaderInv

-----------------------------------------------------------------------------
(* Lemmas on beginnings of sequences.                                       *)

LEMMA Elements ==
  ASSUME NEW S, NEW s \in Seq(S), NEW t \in Seq(S)
  PROVE  /\ s \o t \in Seq(S) /\ Len(s \o t) = Len(s) + Len(t)
         /\ \A i \in 1 .. Len(s) : (s \o t)[i] = s[i]
         /\ \A i \in 1 .. Len(t) : (s \o t)[Len(s) + i] = t[i]
  OBVIOUS

LEMMA SameElements ==
  ASSUME NEW S, NEW s \in Seq(S), NEW t \in Seq(S), Len(s) = Len(t),
         \A i \in 1 .. Len(s) : s[i] = t[i]
  PROVE  s = t
  OBVIOUS

(* What follows the same beginning.                                         *)
LEMMA MatchesRest ==
  ASSUME NEW S, NEW a \in Seq(S), NEW b \in Seq(S), NEW c \in Seq(S), NEW all
  PROVE  Matches(a \o b, a \o c, all) <=> Matches(b, c, all)
<1> DEFINE x == a \o b
           z == a \o c
<1>1. /\ Len(x) = Len(a) + Len(b) /\ \A i \in 1 .. Len(b) : x[Len(a) + i] = b[i]
      /\ \A i \in 1 .. Len(a) : x[i] = a[i]
  BY Elements
<1>2. /\ Len(z) = Len(a) + Len(c) /\ \A i \in 1 .. Len(c) : z[Len(a) + i] = c[i]
      /\ \A i \in 1 .. Len(a) : z[i] = a[i]
  BY Elements
<1>3. Len(a) \in Nat /\ Len(b) \in Nat /\ Len(c) \in Nat
  OBVIOUS
<1> HIDE DEF x, z
<1>4. ASSUME Begins(x, z) PROVE Begins(b, c)
  <2> SUFFICES ASSUME NEW i \in 1 .. Len(b) PROVE b[i] = c[i]
    BY <1>1, <1>2, <1>3, <1>4 DEF Begins
  <2>1. Len(a) + i \in 1 .. Len(x) /\ i \in 1 .. Len(c)
    BY <1>1, <1>2, <1>3, <1>4 DEF Begins
  <2> QED
    BY <1>1, <1>2, <1>4, <2>1 DEF Begins
<1>5. ASSUME Begins(b, c) PROVE Begins(x, z)
  <2> SUFFICES ASSUME NEW i \in 1 .. Len(x) PROVE x[i] = z[i]
    BY <1>1, <1>2, <1>3, <1>5 DEF Begins
  <2>1. CASE i <= Len(a)
    BY <1>1, <1>2, <1>3, <2>1
  <2>2. CASE i > Len(a)
    <3> DEFINE j == i - Len(a)
    <3>1. j \in 1 .. Len(b) /\ Len(a) + j = i
      BY <1>1, <1>3, <2>2
    <3>2. j \in 1 .. Len(c) /\ b[j] = c[j]
      BY <1>3, <1>5, <3>1 DEF Begins
    <3> HIDE DEF j
    <3>3. x[i] = b[j] /\ z[i] = c[j]
      BY <1>1, <1>2, <3>1, <3>2
    <3> QED
      BY <3>2, <3>3
  <2> QED
    BY <1>3, <2>1, <2>2
<1> QED
  BY <1>1, <1>2, <1>3, <1>4, <1>5 DEF Matches, x, z

(* Two beginnings of the same length.                                       *)
LEMMA MatchesFront ==
  ASSUME NEW S, NEW a \in Seq(S), NEW b \in Seq(S), NEW c \in Seq(S), NEW d \in Seq(S), NEW all,
         Len(a) = Len(b), Matches(a \o c, b \o d, all)
  PROVE  a = b /\ Matches(c, d, all)
<1> DEFINE x == a \o c
           z == b \o d
<1>1. Len(x) = Len(a) + Len(c) /\ \A i \in 1 .. Len(a) : x[i] = a[i]
  BY Elements
<1>2. Len(z) = Len(b) + Len(d) /\ \A i \in 1 .. Len(b) : z[i] = b[i]
  BY Elements
<1>3. Begins(x, z)
  BY DEF Matches
<1>4. Len(a) \in Nat /\ Len(c) \in Nat /\ Len(d) \in Nat
  OBVIOUS
<1> HIDE DEF x, z
<1>5. \A i \in 1 .. Len(a) : a[i] = b[i]
  BY <1>1, <1>2, <1>3, <1>4 DEF Begins
<1>6. a = b
  BY <1>5, SameElements
<1> QED
  BY <1>6, MatchesRest

(* The ending is where the data stop, in both.                              *)
StopsAt(S, D, a, e, u) ==
  /\ D \in SUBSET S /\ e \in S \ D
  /\ a \in Seq(D) /\ u \in Seq(S) /\ u # <<>> /\ u[1] = e

LEMMA DataStop ==
  ASSUME NEW S, NEW D, NEW e, NEW a, NEW b, NEW u, NEW v,
         StopsAt(S, D, a, e, u), StopsAt(S, D, b, e, v), Begins(a \o u, b \o v)
  PROVE  Len(a) = Len(b)
<1>0. /\ D \in SUBSET S /\ e \in S /\ e \notin D /\ a \in Seq(D) /\ b \in Seq(D)
      /\ u \in Seq(S) /\ v \in Seq(S) /\ u # <<>> /\ v # <<>> /\ u[1] = e /\ v[1] = e
  BY DEF StopsAt
<1> DEFINE x == a \o u
           z == b \o v
<1>1. a \in Seq(S) /\ b \in Seq(S)
  BY <1>0
<1>2. Len(a) \in Nat /\ Len(b) \in Nat /\ Len(u) \in Nat \ {0} /\ Len(v) \in Nat \ {0}
  BY <1>0
<1>3. \A i \in 1 .. Len(a) : a[i] # e
  BY <1>0
<1>4. \A i \in 1 .. Len(b) : b[i] # e
  BY <1>0
<1>5. /\ Len(x) = Len(a) + Len(u) /\ \A i \in 1 .. Len(a) : x[i] = a[i]
      /\ \A i \in 1 .. Len(u) : x[Len(a) + i] = u[i]
  BY <1>0, <1>1, Elements
<1>6. /\ Len(z) = Len(b) + Len(v) /\ \A i \in 1 .. Len(b) : z[i] = b[i]
      /\ \A i \in 1 .. Len(v) : z[Len(b) + i] = v[i]
  BY <1>0, <1>1, Elements
<1> HIDE DEF x, z
<1>7. x[Len(a) + 1] = e /\ z[Len(b) + 1] = e
  BY <1>0, <1>2, <1>5, <1>6
<1>8. Begins(x, z)
  BY DEF x, z
<1>9. ASSUME Len(a) < Len(b) PROVE FALSE
  <2>1. Len(a) + 1 \in 1 .. Len(b) /\ Len(a) + 1 \in 1 .. Len(x)
    BY <1>2, <1>5, <1>9
  <2>2. z[Len(a) + 1] = e
    BY <1>7, <1>8, <2>1 DEF Begins
  <2> QED
    BY <1>4, <1>6, <2>1, <2>2
<1>10. ASSUME Len(b) < Len(a) PROVE FALSE
  <2>1. Len(b) + 1 \in 1 .. Len(a) /\ Len(b) + 1 \in 1 .. Len(x)
    BY <1>2, <1>5, <1>10
  <2>2. x[Len(b) + 1] = e
    BY <1>7, <1>8, <2>1 DEF Begins
  <2> QED
    BY <1>3, <1>5, <2>1, <2>2
<1> QED
  BY <1>2, <1>9, <1>10

LEMMA MatchesEnding ==
  ASSUME NEW S, NEW D \in SUBSET S, NEW e \in S, e \notin D, NEW a \in Seq(D), NEW b \in Seq(D),
         NEW c \in Seq(S), NEW d \in Seq(S), NEW all,
         Matches(a \o (<<e>> \o c), b \o (<<e>> \o d), all)
  PROVE  a = b /\ Matches(c, d, all)
<1> DEFINE u == <<e>> \o c
           v == <<e>> \o d
<1>1. a \in Seq(S) /\ b \in Seq(S) /\ <<e>> \in Seq(S)
  OBVIOUS
<1>2. u \in Seq(S) /\ u # <<>> /\ u[1] = e /\ v \in Seq(S) /\ v # <<>> /\ v[1] = e
  OBVIOUS
<1>3. Matches(a \o u, b \o v, all)
  OBVIOUS
<1> HIDE DEF u, v
<1>4. Len(a) = Len(b)
  <2>1. Begins(a \o u, b \o v)
    BY <1>3 DEF Matches
  <2>2. StopsAt(S, D, a, e, u) /\ StopsAt(S, D, b, e, v)
    BY <1>2 DEF StopsAt
  <2> QED
    BY <2>1, <2>2, DataStop
<1>5. a = b /\ Matches(u, v, all)
  BY <1>1, <1>2, <1>3, <1>4, MatchesFront
<1> QED
  BY <1>1, <1>5, MatchesRest DEF u, v

LEMMA BeginsTransitive ==
  ASSUME NEW a, NEW b, NEW c, Len(a) \in Nat, Len(b) \in Nat, Len(c) \in Nat, Begins(a, b), Begins(b, c)
  PROVE  Begins(a, c)
  BY DEF Begins

LEMMA BeginsMore ==
  ASSUME NEW S, NEW a \in Seq(S), NEW b \in Seq(S)
  PROVE  Begins(a, a \o b) /\ Matches(a, a, TRUE)
<1>1. Len(a \o b) = Len(a) + Len(b) /\ \A i \in 1 .. Len(a) : (a \o b)[i] = a[i]
  BY Elements
<1>2. Len(a) \in Nat /\ Len(b) \in Nat
  OBVIOUS
<1> QED
  BY <1>1, <1>2 DEF Begins, Matches

-----------------------------------------------------------------------------
(* Lemmas on pictures.                                                      *)

LEMMA UnitTypes ==
  /\ Ending \in Unit /\ Datum \in SUBSET Unit /\ Ending \notin Datum
  /\ \A f \in {"none", "sub"} : Filter(f) \in Datum
  /\ \A of \in {"bake", "user"}, r \in Nat, x \in Nat : [of |-> of, row |-> r, at |-> x] \in Datum
  BY DEF Unit, Datum, Ending, Filter

LEMMA DataAreUnits ==
  ASSUME NEW s \in Seq(Datum)
  PROVE  s \in Seq(Unit)
  BY UnitTypes

LEMMA LineType ==
  ASSUME NEW of \in {"bake", "user"}, NEW f \in {"none", "sub"}, NEW r \in Nat
  PROVE  /\ Pixels(of, r) \in Seq(Datum)
         /\ Line(of, f, r) \in Seq(Datum) /\ Len(Line(of, f, r)) = Width + 1
         /\ Head(Line(of, f, r)) = Filter(f) /\ Tail(Line(of, f, r)) = Pixels(of, r)
<1>1. Width \in Nat
  BY PngAssumption
<1>2. Pixels(of, r) \in [1 .. Width -> Datum]
  BY <1>1, UnitTypes DEF Pixels
<1>3. Pixels(of, r) \in Seq(Datum) /\ Len(Pixels(of, r)) = Width
  <2>1. Pixels(of, r) \in Seq(Datum)
    BY <1>1, <1>2, FunctionIsSeq
  <2> QED
    BY <1>1, <2>1 DEF Pixels
<1>4. Filter(f) \in Datum
  BY UnitTypes
<1> HIDE DEF Pixels
<1> QED
  BY <1>1, <1>3, <1>4 DEF Line

LEMMA LeftIs ==
  ASSUME NEW of \in {"bake", "user"}, NEW f \in {"none", "sub"}, NEW n \in Nat, NEW k \in 0 .. n
  PROVE  /\ LinesLeft(of, f, n, k) \in Seq(Seq(Datum)) /\ Len(LinesLeft(of, f, n, k)) = n - k
         /\ \A r \in 1 .. n - k : LinesLeft(of, f, n, k)[r] = Line(of, f, k + r)
         /\ Left(of, f, n, k) \in Seq(Datum) /\ Left(of, f, n, k) \in Seq(Unit)
<1>1. n - k \in Nat
  OBVIOUS
<1>2. LinesLeft(of, f, n, k) \in [1 .. n - k -> Seq(Datum)]
  <2>1. ASSUME NEW r \in 1 .. n - k PROVE Line(of, f, k + r) \in Seq(Datum)
    <3>1. k + r \in Nat
      OBVIOUS
    <3> QED
      BY <3>1, LineType
  <2> QED
    BY <2>1 DEF LinesLeft
<1>3. LinesLeft(of, f, n, k) \in Seq(Seq(Datum))
  BY <1>1, <1>2, FunctionIsSeq
<1>4. Left(of, f, n, k) \in Seq(Datum)
  BY <1>3, FlattenSeqType DEF Left
<1>5. Left(of, f, n, k) \in Seq(Unit)
  BY <1>4, UnitTypes
<1>6. Len(LinesLeft(of, f, n, k)) = n - k
  BY <1>1, <1>2, <1>3
<1>7. \A r \in 1 .. n - k : LinesLeft(of, f, n, k)[r] = Line(of, f, k + r)
  BY DEF LinesLeft
<1> QED
  BY <1>3, <1>4, <1>5, <1>6, <1>7

LEMMA NoneLeft ==
  ASSUME NEW of \in {"bake", "user"}, NEW f \in {"none", "sub"}, NEW n \in Nat
  PROVE  Left(of, f, n, n) = <<>>
<1>1. n \in 0 .. n
  OBVIOUS
<1>2. LinesLeft(of, f, n, n) \in Seq(Seq(Datum)) /\ Len(LinesLeft(of, f, n, n)) = n - n
  BY <1>1, LeftIs
<1>3. LinesLeft(of, f, n, n) = <<>>
  BY <1>2
<1> QED
  BY <1>3, FlattenFew DEF Left

(* The next row is the first of those left.                                 *)
LEMMA NextLine ==
  ASSUME NEW of \in {"bake", "user"}, NEW f \in {"none", "sub"}, NEW n \in Nat, NEW k \in 0 .. n - 1
  PROVE  Left(of, f, n, k) = Line(of, f, k + 1) \o Left(of, f, n, k + 1)
<1> DEFINE all  == LinesLeft(of, f, n, k)
           more == LinesLeft(of, f, n, k + 1)
           line == Line(of, f, k + 1)
<1>1. k \in 0 .. n /\ k + 1 \in 0 .. n /\ k + 1 \in Nat
  OBVIOUS
<1>2. /\ all \in Seq(Seq(Datum)) /\ Len(all) = n - k
      /\ \A r \in 1 .. n - k : all[r] = Line(of, f, k + r)
  BY <1>1, LeftIs
<1>3. /\ more \in Seq(Seq(Datum)) /\ Len(more) = n - (k + 1)
      /\ \A r \in 1 .. n - (k + 1) : more[r] = Line(of, f, (k + 1) + r)
  BY <1>1, LeftIs
<1>4. line \in Seq(Datum)
  BY <1>1, LineType
<1>5. \A i \in 1 .. n - k : all[i] = IF i = 1 THEN line ELSE more[i - 1]
  <2> SUFFICES ASSUME NEW i \in 1 .. n - k, i # 1 PROVE all[i] = more[i - 1]
    BY <1>2
  <2>1. i - 1 \in 1 .. n - (k + 1) /\ (k + 1) + (i - 1) = k + i
    OBVIOUS
  <2> QED
    BY <1>2, <1>3, <2>1
<1> HIDE DEF all, more, line
<1>6. all = <<line>> \o more
  <2> DEFINE s == <<line>> \o more
  <2>1. <<line>> \in Seq(Seq(Datum)) /\ Len(<<line>>) = 1 /\ <<line>>[1] = line
    BY <1>4
  <2>2. /\ s \in Seq(Seq(Datum)) /\ Len(s) = 1 + Len(more)
        /\ s[1] = line /\ \A i \in 1 .. Len(more) : s[1 + i] = more[i]
    BY <1>3, <2>1, Elements
  <2>3. Len(s) = Len(all)
    BY <1>2, <1>3, <2>2
  <2>4. ASSUME NEW i \in 1 .. n - k, i # 1 PROVE s[i] = more[i - 1]
    <3>1. i - 1 \in 1 .. Len(more) /\ 1 + (i - 1) = i
      BY <1>3, <2>4
    <3> QED
      BY <2>2, <3>1
  <2> HIDE DEF s
  <2>5. \A i \in 1 .. Len(all) : all[i] = s[i]
    BY <1>2, <1>5, <2>2, <2>4
  <2>6. all = s
    BY <1>2, <2>2, <2>3, <2>5, SameElements
  <2> QED
    BY <2>6 DEF s
<1>7. <<line>> \in Seq(Seq(Datum)) /\ FlattenSeq(<<line>>) = line
  BY <1>4, FlattenFew
<1>8. FlattenSeq(all) = line \o FlattenSeq(more)
  BY <1>3, <1>6, <1>7, FlattenConcat
<1> QED
  BY <1>8 DEF Left, all, more, line

LEMMA RowsAre ==
  ASSUME NEW of \in {"bake", "user"}, NEW f \in {"none", "sub"}, NEW n \in Nat
  PROVE  /\ Rows(of, f, n) = Left(of, f, n, 0)
         /\ Rows(of, f, n) \in Seq(Datum)
<1>1. 0 \in 0 .. n
  OBVIOUS
<1>2. [r \in 1 .. n |-> Line(of, f, r)] = [r \in 1 .. n - 0 |-> Line(of, f, 0 + r)]
  OBVIOUS
<1>3. Rows(of, f, n) = Left(of, f, n, 0)
  BY <1>2 DEF Rows, Left, LinesLeft
<1> QED
  BY <1>1, <1>3, LeftIs

(* One row more.                                                            *)
LEMMA RowsNext ==
  ASSUME NEW of \in {"bake", "user"}, NEW f \in {"none", "sub"}, NEW n \in Nat
  PROVE  Rows(of, f, n + 1) = Rows(of, f, n) \o Line(of, f, n + 1)
<1> DEFINE all  == LinesLeft(of, f, n + 1, 0)
           some == LinesLeft(of, f, n, 0)
           line == Line(of, f, n + 1)
<1>1. n + 1 \in Nat /\ 0 \in 0 .. n /\ 0 \in 0 .. n + 1
  OBVIOUS
<1>2. /\ all \in Seq(Seq(Datum)) /\ Len(all) = n + 1
      /\ \A r \in 1 .. n + 1 : all[r] = Line(of, f, r)
  <2>1. /\ all \in Seq(Seq(Datum)) /\ Len(all) = (n + 1) - 0
        /\ \A r \in 1 .. (n + 1) - 0 : all[r] = Line(of, f, 0 + r)
    BY <1>1, LeftIs
  <2> QED
    BY <2>1
<1>3. /\ some \in Seq(Seq(Datum)) /\ Len(some) = n
      /\ \A r \in 1 .. n : some[r] = Line(of, f, r)
  <2>1. /\ some \in Seq(Seq(Datum)) /\ Len(some) = n - 0
        /\ \A r \in 1 .. n - 0 : some[r] = Line(of, f, 0 + r)
    BY <1>1, LeftIs
  <2> QED
    BY <2>1
<1>4. line \in Seq(Datum)
  BY <1>1, LineType
<1>5. all[n + 1] = line
  BY <1>2
<1> HIDE DEF all, some, line
<1>6. all = Append(some, line)
  <2>1. Append(some, line) \in Seq(Seq(Datum)) /\ Len(Append(some, line)) = n + 1
    BY <1>3, <1>4
  <2>2. \A i \in 1 .. n : Append(some, line)[i] = some[i]
    BY <1>3, <1>4
  <2>3. Append(some, line)[n + 1] = line
    BY <1>3, <1>4
  <2>4. \A i \in 1 .. n + 1 : all[i] = Append(some, line)[i]
    BY <1>2, <1>3, <1>5, <2>2, <2>3
  <2> QED
    BY <1>2, <2>1, <2>4, SameElements
<1>7. FlattenSeq(all) = FlattenSeq(some) \o line
  BY <1>3, <1>4, <1>6, FlattenAppend
<1>8. Rows(of, f, n + 1) = FlattenSeq(all) /\ Rows(of, f, n) = FlattenSeq(some)
  BY <1>1, RowsAre DEF Left, all, some
<1> QED
  BY <1>7, <1>8 DEF line

(* The first rows of a picture.                                             *)
LEMMA RowsBegin ==
  ASSUME NEW of \in {"bake", "user"}, NEW f \in {"none", "sub"}, NEW n \in Nat
  PROVE  \A k \in 0 .. n : Begins(Rows(of, f, k), Rows(of, f, n))
<1> DEFINE K == {k \in Nat : k <= n => Begins(Rows(of, f, n - k), Rows(of, f, n))}
<1>1. \A m \in Nat : Rows(of, f, m) \in Seq(Datum) /\ Len(Rows(of, f, m)) \in Nat
  <2>1. \A m \in Nat : Rows(of, f, m) \in Seq(Datum)
    BY RowsAre
  <2>2. \A s \in Seq(Datum) : Len(s) \in Nat
    OBVIOUS
  <2> QED
    BY <2>1, <2>2
<1>2. 0 \in K
  <2>1. n - 0 = n
    OBVIOUS
  <2> QED
    BY <1>1, <2>1, BeginsMore DEF Matches
<1>3. ASSUME NEW k \in K PROVE k + 1 \in K
  <2> SUFFICES ASSUME k + 1 <= n PROVE Begins(Rows(of, f, n - (k + 1)), Rows(of, f, n))
    OBVIOUS
  <2>1. k \in Nat /\ n - (k + 1) \in Nat /\ n - k = (n - (k + 1)) + 1 /\ n - k \in Nat
    OBVIOUS
  <2>2. Begins(Rows(of, f, n - k), Rows(of, f, n))
    BY <2>1
  <2> DEFINE m == n - (k + 1)
  <2>3. m \in Nat /\ n - k = m + 1 /\ m + 1 \in Nat
    BY <2>1
  <2> HIDE DEF m
  <2>4. Line(of, f, m + 1) \in Seq(Datum)
    BY <2>3, LineType
  <2>5. Rows(of, f, m + 1) = Rows(of, f, m) \o Line(of, f, m + 1)
    BY <2>3, RowsNext
  <2>6. Begins(Rows(of, f, m), Rows(of, f, m + 1))
    BY <1>1, <2>3, <2>4, <2>5, BeginsMore
  <2>7. Begins(Rows(of, f, m), Rows(of, f, n))
    BY <1>1, <2>2, <2>3, <2>6, BeginsTransitive
  <2> QED
    BY <2>7 DEF m
<1>4. K = Nat
  <2> HIDE DEF K
  <2>1. K \in SUBSET Nat
    BY DEF K
  <2> QED
    BY <1>2, <1>3, <2>1, Induction
<1> SUFFICES ASSUME NEW k \in 0 .. n PROVE Begins(Rows(of, f, k), Rows(of, f, n))
  OBVIOUS
<1>5. n - k \in K /\ n - (n - k) = k /\ n - k <= n
  <2>1. n - k \in Nat
    OBVIOUS
  <2> HIDE DEF K
  <2> QED
    BY <1>4, <2>1
<1> QED
  BY <1>5

-----------------------------------------------------------------------------
(* Lemmas on the items of a file.                                           *)

LEMMA ItemTypes ==
  /\ Signature \in Items /\ Crc \in Items /\ Signature.is # "byte" /\ Crc.is = "crc"
  /\ \A n \in Nat, type \in {"IHDR", "tEXt", "IDAT", "IEND"} :
       HeadOf(type, n) \in Items /\ HeadOf(type, n).is = "head"
  /\ \A units \in Seq(Unit) : Byte(units) \in Items /\ Byte(units).is = "byte"
  /\ \A f \in {"rgb8", "adam7"} : Format(f) \in Items /\ Format(f).is = "format"
  BY PngAssumption DEF Items, Signature, Crc, HeadOf, Byte, Format

LEMMA UnitsType ==
  ASSUME NEW item \in Items
  PROVE  UnitsOf(item) \in Seq(Unit)
  BY DEF Items, UnitsOf

LEMMA HeadIs ==
  ASSUME NEW item \in Items, item.is = "head"
  PROVE  item.type \in {"IHDR", "tEXt", "IDAT", "IEND"} /\ item.length \in Nat /\ UnitsOf(item) = <<>>
  BY DEF Items, UnitsOf

LEMMA PartsAre ==
  ASSUME NEW items \in Seq(Items)
  PROVE  /\ Parts(items) \in Seq(Seq(Unit)) /\ Len(Parts(items)) = Len(items)
         /\ \A i \in 1 .. Len(items) : Parts(items)[i] = UnitsOf(items[i])
<1>1. Len(items) \in Nat /\ \A i \in 1 .. Len(items) : items[i] \in Items
  OBVIOUS
<1>2. Parts(items) \in [1 .. Len(items) -> Seq(Unit)]
  BY <1>1, UnitsType DEF Parts
<1>3. Parts(items) \in Seq(Seq(Unit))
  BY <1>1, <1>2, FunctionIsSeq
<1>4. Len(Parts(items)) = Len(items)
  BY <1>1, <1>2, <1>3
<1> QED
  BY <1>3, <1>4 DEF Parts

LEMMA StreamType ==
  ASSUME NEW items \in Seq(Items)
  PROVE  Stream(items) \in Seq(Unit)
  BY PartsAre, FlattenSeqType DEF Stream

LEMMA StreamConcat ==
  ASSUME NEW a \in Seq(Items), NEW b \in Seq(Items)
  PROVE  Stream(a \o b) = Stream(a) \o Stream(b)
<1> DEFINE c == a \o b
           d == Parts(a) \o Parts(b)
<1>1. /\ c \in Seq(Items) /\ Len(c) = Len(a) + Len(b)
      /\ \A i \in 1 .. Len(a) : c[i] = a[i]
      /\ \A i \in 1 .. Len(b) : c[Len(a) + i] = b[i]
  BY Elements
<1>2. /\ Parts(a) \in Seq(Seq(Unit)) /\ Len(Parts(a)) = Len(a)
      /\ \A i \in 1 .. Len(a) : Parts(a)[i] = UnitsOf(a[i])
  BY PartsAre
<1>3. /\ Parts(b) \in Seq(Seq(Unit)) /\ Len(Parts(b)) = Len(b)
      /\ \A i \in 1 .. Len(b) : Parts(b)[i] = UnitsOf(b[i])
  BY PartsAre
<1>4. /\ d \in Seq(Seq(Unit)) /\ Len(d) = Len(a) + Len(b)
      /\ \A i \in 1 .. Len(a) : d[i] = Parts(a)[i]
      /\ \A i \in 1 .. Len(b) : d[Len(a) + i] = Parts(b)[i]
  <2> DEFINE p == Parts(a)
             q == Parts(b)
  <2>1. p \in Seq(Seq(Unit)) /\ q \in Seq(Seq(Unit))
    BY <1>2, <1>3
  <2> HIDE DEF p, q
  <2>2. /\ p \o q \in Seq(Seq(Unit)) /\ Len(p \o q) = Len(p) + Len(q)
        /\ \A i \in 1 .. Len(p) : (p \o q)[i] = p[i]
        /\ \A i \in 1 .. Len(q) : (p \o q)[Len(p) + i] = q[i]
    BY <2>1, Elements
  <2>3. Len(p) = Len(a) /\ Len(q) = Len(b)
    BY <1>2, <1>3 DEF p, q
  <2>4. d = p \o q
    BY DEF p, q
  <2> HIDE DEF d
  <2> QED
    BY <2>2, <2>3, <2>4 DEF p, q
<1>5. Len(a) \in Nat /\ Len(b) \in Nat
  OBVIOUS
<1> HIDE DEF c, d
<1>6. /\ Parts(c) \in Seq(Seq(Unit)) /\ Len(Parts(c)) = Len(c)
      /\ \A i \in 1 .. Len(c) : Parts(c)[i] = UnitsOf(c[i])
  BY <1>1, PartsAre
<1>7. ASSUME NEW i \in 1 .. Len(c) PROVE Parts(c)[i] = d[i]
  <2>1. CASE i <= Len(a)
    BY <1>1, <1>2, <1>4, <1>5, <1>6, <2>1
  <2>2. CASE i > Len(a)
    <3>1. i - Len(a) \in 1 .. Len(b) /\ Len(a) + (i - Len(a)) = i
      BY <1>1, <1>5, <2>2
    <3>2. c[i] = b[i - Len(a)] /\ d[i] = Parts(b)[i - Len(a)]
      BY <1>1, <1>4, <3>1
    <3> QED
      BY <1>3, <1>6, <3>1, <3>2
  <2> QED
    BY <1>1, <1>5, <2>1, <2>2
<1>8. Parts(c) = d
  BY <1>1, <1>4, <1>6, <1>7, SameElements
<1>9. FlattenSeq(d) = FlattenSeq(Parts(a)) \o FlattenSeq(Parts(b))
  BY <1>2, <1>3, FlattenConcat DEF d
<1> QED
  BY <1>8, <1>9 DEF Stream, c

(* Items without units.                                                     *)
LEMMA QuietStream ==
  ASSUME NEW items \in Seq(Items), \A i \in 1 .. Len(items) : UnitsOf(items[i]) = <<>>
  PROVE  Stream(items) = <<>>
<1>1. <<>> \in Seq({})
  OBVIOUS
<1>2. Len(items) \in Nat
  OBVIOUS
<1>3. Parts(items) \in [1 .. Len(items) -> Seq({})]
  BY <1>1 DEF Parts
<1>4. Parts(items) \in Seq(Seq({}))
  BY <1>2, <1>3, FunctionIsSeq
<1>5. Stream(items) \in Seq({})
  BY <1>4, FlattenSeqType DEF Stream
<1> QED
  BY <1>5

-----------------------------------------------------------------------------
(* Lemmas on chunks.                                                        *)

IsChunk(c, type) ==
  /\ c \in Seq(Items) /\ 2 <= Len(c)
  /\ c[1].is = "head" /\ c[1].type = type /\ c[1].length + 2 = Len(c)
  /\ \A q \in 2 .. Len(c) - 1 :
       c[q].is = "byte" /\ (type # "IDAT" => c[q].units = <<>>)
  /\ c[Len(c)].is = "crc"
  /\ type = "IEND" => c[1] = HeadOf("IEND", 0)

Body(bytes) == [i \in DOMAIN bytes |-> Byte(bytes[i])]

LEMMA ByteIs ==
  ASSUME NEW units \in Seq(Unit)
  PROVE  /\ Byte(units) \in Items /\ Byte(units).is = "byte" /\ Byte(units).units = units
         /\ UnitsOf(Byte(units)) = units
<1>1. Byte(units).is = "byte" /\ Byte(units).units = units
  BY DEF Byte
<1> QED
  BY <1>1, ItemTypes DEF UnitsOf

LEMMA BodyIs ==
  ASSUME NEW bytes \in Seq(Seq(Unit))
  PROVE  /\ Body(bytes) \in Seq(Items) /\ Len(Body(bytes)) = Len(bytes)
         /\ \A i \in 1 .. Len(bytes) : Body(bytes)[i] = Byte(bytes[i])
         /\ Stream(Body(bytes)) = FlattenSeq(bytes)
<1>1. Len(bytes) \in Nat /\ DOMAIN bytes = 1 .. Len(bytes) /\ \A i \in 1 .. Len(bytes) : bytes[i] \in Seq(Unit)
  OBVIOUS
<1>2. Body(bytes) \in [1 .. Len(bytes) -> Items]
  BY <1>1, ItemTypes DEF Body
<1>3. Body(bytes) \in Seq(Items)
  BY <1>1, <1>2, FunctionIsSeq
<1>4. Len(Body(bytes)) = Len(bytes)
  BY <1>1, <1>2, <1>3
<1>5. \A i \in 1 .. Len(bytes) : Body(bytes)[i] = Byte(bytes[i])
  BY <1>1 DEF Body
<1>6. /\ Parts(Body(bytes)) \in Seq(Seq(Unit)) /\ Len(Parts(Body(bytes))) = Len(bytes)
      /\ \A i \in 1 .. Len(bytes) : Parts(Body(bytes))[i] = UnitsOf(Body(bytes)[i])
  BY <1>3, <1>4, PartsAre
<1>7. \A i \in 1 .. Len(bytes) : Parts(Body(bytes))[i] = bytes[i]
  BY <1>1, <1>5, <1>6, ByteIs
<1>8. Parts(Body(bytes)) = bytes
  BY <1>6, <1>7, SameElements
<1> QED
  BY <1>3, <1>4, <1>5, <1>8 DEF Stream

LEMMA HeadIsQuiet ==
  /\ Stream(<<Crc>>) = <<>> /\ <<Crc>> \in Seq(Items)
  /\ \A n \in Nat, type \in {"IHDR", "tEXt", "IDAT", "IEND"} :
       <<HeadOf(type, n)>> \in Seq(Items) /\ Stream(<<HeadOf(type, n)>>) = <<>>
<1>1. Crc \in Items /\ UnitsOf(Crc) = <<>>
  BY ItemTypes DEF UnitsOf
<1>2. <<Crc>> \in Seq(Items) /\ Stream(<<Crc>>) = <<>>
  <2>1. <<Crc>> \in Seq(Items) /\ \A i \in 1 .. Len(<<Crc>>) : UnitsOf(<<Crc>>[i]) = <<>>
    BY <1>1
  <2> QED
    BY <2>1, QuietStream
<1>3. ASSUME NEW n \in Nat, NEW type \in {"IHDR", "tEXt", "IDAT", "IEND"}
      PROVE  <<HeadOf(type, n)>> \in Seq(Items) /\ Stream(<<HeadOf(type, n)>>) = <<>>
  <2> DEFINE h == HeadOf(type, n)
  <2>1. h \in Items /\ UnitsOf(h) = <<>>
    BY ItemTypes DEF UnitsOf
  <2> HIDE DEF h
  <2>2. <<h>> \in Seq(Items) /\ \A i \in 1 .. Len(<<h>>) : UnitsOf(<<h>>[i]) = <<>>
    BY <2>1
  <2>3. Stream(<<h>>) = <<>>
    BY <2>2, QuietStream
  <2> QED
    BY <2>2, <2>3 DEF h
<1> QED
  BY <1>2, <1>3

LEMMA IDATIs ==
  ASSUME NEW bytes \in Seq(Seq(Unit))
  PROVE  IsChunk(IDAT(bytes), "IDAT") /\ Stream(IDAT(bytes)) = FlattenSeq(bytes)
<1> DEFINE h == HeadOf("IDAT", Len(bytes))
           b == Body(bytes)
           c == (<<h>> \o b) \o <<Crc>>
<1>1. Len(bytes) \in Nat
  OBVIOUS
<1>2. h \in Items /\ <<h>> \in Seq(Items) /\ Stream(<<h>>) = <<>> /\ h.is = "head" /\ h.type = "IDAT" /\ h.length = Len(bytes)
  BY <1>1, ItemTypes, HeadIsQuiet DEF HeadOf
<1>3. /\ b \in Seq(Items) /\ Len(b) = Len(bytes) /\ Stream(b) = FlattenSeq(bytes)
      /\ \A i \in 1 .. Len(bytes) : b[i].is = "byte"
  <2>1. /\ b \in Seq(Items) /\ Len(b) = Len(bytes) /\ Stream(b) = FlattenSeq(bytes)
        /\ \A i \in 1 .. Len(bytes) : b[i] = Byte(bytes[i])
    BY BodyIs
  <2>2. \A i \in 1 .. Len(bytes) : bytes[i] \in Seq(Unit)
    OBVIOUS
  <2> HIDE DEF b
  <2> QED
    BY <2>1, <2>2, ByteIs
<1>4. Crc \in Items /\ <<Crc>> \in Seq(Items) /\ Stream(<<Crc>>) = <<>> /\ Crc.is = "crc"
  BY ItemTypes, HeadIsQuiet
<1>5. IDAT(bytes) = c
  BY DEF IDAT, Body
<1> HIDE DEF h, b
<1>6. c \in Seq(Items) /\ Len(c) = Len(bytes) + 2 /\ c[1] = h /\ c[Len(c)] = Crc
  BY <1>1, <1>2, <1>3, <1>4
<1>7. ASSUME NEW q \in 2 .. Len(c) - 1 PROVE c[q].is = "byte"
  <2>1. q - 1 \in 1 .. Len(bytes) /\ c[q] = b[q - 1]
    BY <1>1, <1>2, <1>3, <1>4, <1>6
  <2> QED
    BY <1>3, <2>1
<1>8. IsChunk(c, "IDAT")
  <2> HIDE DEF c
  <2> QED
    BY <1>1, <1>2, <1>4, <1>6, <1>7 DEF IsChunk
<1>9. Stream(c) = FlattenSeq(bytes)
  <2>1. <<h>> \o b \in Seq(Items)
    BY <1>2, <1>3
  <2>2. Stream(c) = Stream(<<h>> \o b) \o Stream(<<Crc>>)
    BY <1>4, <2>1, StreamConcat
  <2>3. Stream(<<h>> \o b) = Stream(<<h>>) \o Stream(b)
    BY <1>2, <1>3, StreamConcat
  <2>4. FlattenSeq(bytes) \in Seq(Unit)
    BY FlattenSeqType
  <2>5. \A u \in Seq(Unit) : (<<>> \o u) \o <<>> = u
    OBVIOUS
  <2> HIDE DEF c
  <2> QED
    BY <1>2, <1>3, <1>4, <2>2, <2>3, <2>4, <2>5
<1> QED
  BY <1>5, <1>8, <1>9

LEMMA QuietChunksAre ==
  /\ IsChunk(Ends, "IEND") /\ Stream(Ends) = <<>>
  /\ IsChunk(Comment, "tEXt") /\ Stream(Comment) = <<>>
<1>1. /\ HeadOf("IEND", 0) \in Items /\ HeadOf("tEXt", 2) \in Items
      /\ HeadOf("IEND", 0).is = "head" /\ HeadOf("tEXt", 2).is = "head"
      /\ Crc \in Items /\ Crc.is = "crc" /\ Byte(<<>>) \in Items /\ Byte(<<>>).is = "byte" /\ Byte(<<>>).units = <<>>
  <2>1. <<>> \in Seq(Unit) /\ 0 \in Nat /\ 2 \in Nat
    OBVIOUS
  <2> QED
    BY <2>1, ItemTypes, ByteIs
<1>2. /\ Ends \in Seq(Items) /\ Len(Ends) = 2 /\ Ends[1] = HeadOf("IEND", 0) /\ Ends[2] = Crc
      /\ Comment \in Seq(Items) /\ Len(Comment) = 4 /\ Comment[1] = HeadOf("tEXt", 2)
      /\ Comment[2] = Byte(<<>>) /\ Comment[3] = Byte(<<>>) /\ Comment[4] = Crc
  BY <1>1 DEF Ends, Comment
<1>3. HeadOf("IEND", 0).type = "IEND" /\ HeadOf("IEND", 0).length = 0 /\ HeadOf("tEXt", 2).type = "tEXt" /\ HeadOf("tEXt", 2).length = 2
  BY DEF HeadOf
<1>4. IsChunk(Ends, "IEND")
  BY <1>1, <1>2, <1>3 DEF IsChunk
<1>5. IsChunk(Comment, "tEXt")
  <2>1. \A q \in 2 .. 3 : Comment[q] = Byte(<<>>)
    BY <1>2
  <2> QED
    BY <1>1, <1>2, <1>3, <2>1 DEF IsChunk
<1>6. \A i \in 1 .. Len(Ends) : UnitsOf(Ends[i]) = <<>>
  BY <1>1, <1>2 DEF UnitsOf
<1>7. \A i \in 1 .. Len(Comment) : UnitsOf(Comment[i]) = <<>>
  <2>1. \A i \in 1 .. 4 : i = 1 \/ i = 2 \/ i = 3 \/ i = 4
    OBVIOUS
  <2>2. UnitsOf(HeadOf("tEXt", 2)) = <<>> /\ UnitsOf(Byte(<<>>)) = <<>> /\ UnitsOf(Crc) = <<>>
    BY <1>1 DEF UnitsOf
  <2> QED
    BY <1>2, <2>1, <2>2
<1> QED
  BY <1>2, <1>4, <1>5, <1>6, <1>7, QuietStream

(* Another chunk after one that is entire.                                  *)
LEMMA ChunkKept ==
  ASSUME NEW f \in Seq(Items), Chained(f), Open(f),
         NEW type \in {"tEXt", "IDAT", "IEND"}, NEW c, IsChunk(c, type)
  PROVE  /\ f \o c \in Seq(Items) /\ Chained(f \o c)
         /\ IF type = "IEND" THEN Ended(f \o c) ELSE Open(f \o c)
<1> DEFINE g == f \o c
           L == Len(f)
<1>1. /\ c \in Seq(Items) /\ 2 <= Len(c)
      /\ c[1].is = "head" /\ c[1].type = type /\ c[1].length + 2 = Len(c)
      /\ \A q \in 2 .. Len(c) - 1 : c[q].is = "byte" /\ (type # "IDAT" => c[q].units = <<>>)
      /\ c[Len(c)].is = "crc"
      /\ type = "IEND" => c[1] = HeadOf("IEND", 0)
  BY DEF IsChunk
<1>2. L \in Nat /\ Len(c) \in Nat /\ 4 <= L
  BY <1>1 DEF Open, Entire
<1>3. /\ g \in Seq(Items) /\ Len(g) = L + Len(c)
      /\ \A i \in 1 .. L : g[i] = f[i]
      /\ \A i \in 1 .. Len(c) : g[L + i] = c[i]
  BY <1>1, Elements
<1>4. c[1].length \in Nat
  BY <1>1, HeadIs
<1> HIDE DEF g
<1>5. g[L + 1] = c[1]
  BY <1>1, <1>2, <1>3
<1>6. /\ \A p \in 1 .. 4 : p <= Len(g) => g[p].is # "byte"
      /\ 5 <= Len(g) => g[5].is = "head"
  <2>1. \A p \in 1 .. 4 : p <= L /\ g[p] = f[p]
    BY <1>2, <1>3
  <2>2. CASE L = 4
    BY <1>1, <1>5, <2>1, <2>2 DEF Chained
  <2>3. CASE 5 <= L
    BY <1>2, <1>3, <2>1, <2>3 DEF Chained
  <2>4. L = 4 \/ 5 <= L
    <3> HIDE DEF L
    <3> QED
      BY <1>2
  <2> QED
    BY <2>2, <2>3, <2>4
<1>7. ASSUME NEW p \in 5 .. Len(g), g[p].is = "head", p <= L
      PROVE  /\ HeadFits(g, p) /\ g[p].type # "IEND"
             /\ p + g[p].length + 1 <= L
  <2>1. f[p].is = "head" /\ g[p] = f[p] /\ p \in 5 .. L
    BY <1>2, <1>3, <1>7
  <2>2. HeadFits(f, p) /\ p + f[p].length + 1 <= L /\ f[p].type # "IEND"
    BY <2>1 DEF Chained, Open, Entire
  <2>3. f[p].length \in Nat
    BY <2>1, HeadIs
  <2> DEFINE crc == p + f[p].length + 1
  <2>4. crc \in Nat /\ crc <= L /\ crc > p
    BY <2>2, <2>3
  <2>5. \A q \in p + 1 .. crc - 1 : q \in 1 .. L /\ g[q] = f[q]
    BY <1>3, <2>4
  <2>6. g[crc] = f[crc] /\ f[crc].is = "crc"
    BY <1>3, <2>2, <2>4 DEF HeadFits
  <2>7. crc + 1 <= Len(g) => g[crc + 1].is = "head"
    <3>1. CASE crc = L
      BY <1>1, <1>5, <3>1
    <3>2. CASE crc < L
      <4>1. g[crc + 1] = f[crc + 1] /\ crc + 1 <= L
        BY <1>2, <1>3, <2>4, <3>2
      <4> QED
        BY <2>2, <4>1 DEF HeadFits
    <3> QED
      BY <1>2, <2>4, <3>1, <3>2
  <2>8. \A q \in p + 1 .. crc - 1 :
          f[q].is = "byte" /\ (f[p].type # "IDAT" => f[q].units = <<>>)
    BY <2>2, <2>5 DEF HeadFits
  <2> HIDE DEF crc
  <2>9. crc = p + g[p].length + 1
    BY <2>1 DEF crc
  <2> QED
    BY <2>1, <2>2, <2>4, <2>5, <2>6, <2>7, <2>8, <2>9 DEF HeadFits
<1>8. ASSUME NEW p \in 5 .. Len(g), g[p].is = "head", p > L
      PROVE  /\ HeadFits(g, p) /\ g[p].type = type /\ p = L + 1
             /\ p + g[p].length + 1 = Len(g)
  <2>1. p - L \in 1 .. Len(c) /\ L + (p - L) = p
    BY <1>2, <1>3, <1>8
  <2>2. g[p] = c[p - L]
    BY <1>3, <2>1
  <2>3. p = L + 1
    <3>1. p - L \in 2 .. Len(c) - 1 \/ p - L = Len(c) \/ p - L = 1
      BY <1>2, <2>1
    <3>2. c[p - L].is = "head"
      BY <1>8, <2>2
    <3>3. p - L = 1
      BY <1>1, <3>1, <3>2
    <3> QED
      BY <1>2, <3>3
  <2>4. g[p] = c[1]
    BY <1>5, <2>3
  <2>5. p + g[p].length + 1 = Len(g)
    <3> DEFINE n == c[1].length
               m == Len(c)
    <3>1. n \in Nat /\ n + 2 = m /\ g[p].length = n /\ p = L + 1 /\ L \in Nat /\ Len(g) = L + m
      BY <1>1, <1>2, <1>3, <1>4, <2>3, <2>4
    <3> HIDE DEF n, m, L
    <3> QED
      BY <3>1
  <2>6. ASSUME NEW q \in p + 1 .. (p + g[p].length + 1) - 1
        PROVE  g[q].is = "byte" /\ (type # "IDAT" => g[q].units = <<>>)
    <3>1. q - L \in 2 .. Len(c) - 1 /\ L + (q - L) = q
      BY <1>2, <1>3, <2>3, <2>5
    <3>2. g[q] = c[q - L]
      BY <1>2, <1>3, <3>1
    <3> QED
      BY <1>1, <3>1, <3>2
  <2>7. g[Len(g)].is = "crc"
    <3>1. g[L + Len(c)] = c[Len(c)]
      BY <1>1, <1>2, <1>3
    <3> QED
      BY <1>1, <1>3, <3>1
  <2>8. type = "IEND" => g[p].length = 0 /\ p + 1 >= Len(g)
    <3>1. type = "IEND" => g[p].length = 0
      BY <1>1, <2>4 DEF HeadOf
    <3> QED
      BY <1>2, <2>3, <2>5, <3>1
  <2>9. Len(g) \in Nat /\ ~(Len(g) + 1 <= Len(g)) /\ g[p].type = type
    BY <1>1, <1>2, <1>3, <2>4
  <2> QED
    BY <2>3, <2>5, <2>6, <2>7, <2>8, <2>9 DEF HeadFits
<1>9. \A p \in 5 .. Len(g) : p <= L \/ p > L
  BY <1>2
<1>10. Chained(g)
  BY <1>6, <1>7, <1>8, <1>9 DEF Chained
<1>11. Entire(g)
  <2>1. 4 <= Len(g)
    BY <1>2, <1>3
  <2>2. ASSUME NEW p \in 5 .. Len(g), g[p].is = "head" PROVE p + g[p].length + 1 <= Len(g)
    <3>1. CASE p <= L
      <4>1. p + g[p].length + 1 <= L /\ g[p].length \in Nat
        BY <1>3, <1>7, <2>2, <3>1, HeadIs
      <4> QED
        BY <1>2, <1>3, <4>1
    <3>2. CASE p > L
      <4>1. p + g[p].length + 1 = Len(g) /\ Len(g) \in Nat
        BY <1>2, <1>3, <1>8, <2>2, <3>2
      <4> QED
        BY <4>1
    <3> QED
      BY <1>9, <3>1, <3>2
  <2> QED
    BY <2>1, <2>2 DEF Entire
<1>12. CASE type = "IEND"
  <2>1. Len(c) = 2 /\ c[1] = HeadOf("IEND", 0)
    <3>1. c[1] = HeadOf("IEND", 0)
      BY <1>1, <1>12
    <3>2. c[1].length = 0
      BY <3>1 DEF HeadOf
    <3> DEFINE n == c[1].length
               m == Len(c)
    <3>3. n = 0 /\ n + 2 = m
      BY <1>1, <3>2
    <3>4. m = 2
      <4> HIDE DEF n, m
      <4> QED
        BY <3>3
    <3> QED
      BY <3>1, <3>4
  <2>2. Len(g) - 1 = L + 1 /\ 6 <= Len(g)
    BY <1>2, <1>3, <2>1
  <2>3. Ended(g)
    BY <1>5, <1>11, <2>1, <2>2 DEF Ended
  <2> QED
    BY <1>3, <1>10, <1>12, <2>3 DEF g
<1>13. CASE type # "IEND"
  <2>1. Open(g)
    BY <1>7, <1>8, <1>9, <1>11, <1>13 DEF Open
  <2> QED
    BY <1>3, <1>10, <1>13, <2>1 DEF g
<1> QED
  BY <1>12, <1>13

(* The signature and the first chunk.                                       *)
LEMMA PreambleIs ==
  ASSUME NEW f \in {"rgb8", "adam7"}
  PROVE  LET s == <<Signature>> \o Info(f) IN
         /\ s \in Seq(Items) /\ Chained(s) /\ Open(s) /\ Stream(s) = <<>>
         /\ s[1] = Signature /\ s[2] = HeadOf("IHDR", 1) /\ s[3] = Format(f)
<1> DEFINE s == <<Signature>> \o Info(f)
           h == HeadOf("IHDR", 1)
           t == Format(f)
<1>1. /\ Signature \in Items /\ Signature.is # "byte" /\ Crc \in Items /\ Crc.is # "byte"
      /\ h \in Items /\ h.is # "byte" /\ t \in Items /\ t.is # "byte"
  BY ItemTypes
<1>2. Info(f) = <<h, t, Crc>>
  BY DEF Info
<1> HIDE DEF h, t
<1>3. s \in Seq(Items) /\ Len(s) = 4 /\ s[1] = Signature /\ s[2] = h /\ s[3] = t /\ s[4] = Crc
  BY <1>1, <1>2
<1> HIDE DEF s
<1>4. \A p \in 1 .. 4 : s[p].is # "byte"
  <2>1. \A p \in 1 .. 4 : p = 1 \/ p = 2 \/ p = 3 \/ p = 4
    OBVIOUS
  <2> QED
    BY <1>1, <1>3, <2>1
<1>5. Chained(s) /\ Open(s)
  BY <1>3, <1>4 DEF Chained, Open, Entire
<1>6. Stream(s) = <<>>
  <2>1. \A p \in 1 .. Len(s) : UnitsOf(s[p]) = <<>>
    BY <1>3, <1>4 DEF UnitsOf
  <2> QED
    BY <1>3, <2>1, QuietStream
<1> QED
  BY <1>3, <1>5, <1>6 DEF s, h, t

(* A beginning of a file.                                                   *)
LEMMA FileCut ==
  ASSUME NEW f \in Seq(Items), Chained(f), NEW n \in 0 .. Len(f)
  PROVE  /\ FirstOf(f, n) \in Seq(Items) /\ Chained(FirstOf(f, n))
         /\ Begins(Stream(FirstOf(f, n)), Stream(f))
<1> DEFINE g == FirstOf(f, n)
<1>1. /\ g \in Seq(Items) /\ Len(g) = n /\ After(f, n) \in Seq(Items)
      /\ g \o After(f, n) = f
  BY FirstAndAfter
<1>2. \A i \in 1 .. n : g[i] = f[i]
  BY DEF FirstOf
<1>3. Stream(f) = Stream(g) \o Stream(After(f, n))
  BY <1>1, StreamConcat
<1>4. Begins(Stream(g), Stream(f))
  BY <1>1, <1>3, StreamType, BeginsMore
<1> HIDE DEF g
<1>5. ASSUME NEW p \in 5 .. n, g[p].is = "head" PROVE HeadFits(g, p)
  <2>1. p \in 5 .. Len(f) /\ p \in 1 .. n /\ g[p] = f[p]
    BY <1>2
  <2>2. HeadFits(f, p) /\ f[p].length \in Nat
    BY <1>5, <2>1, HeadIs DEF Chained
  <2> DEFINE crc == p + f[p].length + 1
  <2>3. crc \in Nat /\ crc > p /\ p \in Nat /\ n \in Nat /\ Len(f) \in Nat /\ n <= Len(f)
    BY <2>2
  <2>4. \A q \in p + 1 .. crc - 1 : q <= n =>
          g[q] = f[q] /\ f[q].is = "byte" /\ (f[p].type # "IDAT" => f[q].units = <<>>)
    BY <1>2, <2>2, <2>3 DEF HeadFits
  <2>5. crc <= n => g[crc].is = "crc"
    BY <1>2, <2>2, <2>3 DEF HeadFits
  <2>6. crc + 1 <= n => g[crc + 1].is = "head"
    <3>1. crc + 1 <= n => g[crc + 1] = f[crc + 1] /\ crc + 1 <= Len(f)
      BY <1>2, <2>3
    <3> QED
      BY <2>2, <3>1 DEF HeadFits
  <2>7. f[p].type = "IEND" => f[p].length = 0 /\ p + 1 >= n
    BY <2>2, <2>3 DEF HeadFits
  <2> HIDE DEF crc
  <2>8. crc = p + g[p].length + 1
    BY <2>1 DEF crc
  <2> QED
    BY <1>1, <2>1, <2>4, <2>5, <2>6, <2>7, <2>8 DEF HeadFits
<1>6. Chained(g)
  <2>1. \A p \in 1 .. 4 : p <= n => g[p].is # "byte"
    BY <1>2 DEF Chained
  <2>2. 5 <= n => g[5].is = "head"
    BY <1>2 DEF Chained
  <2> QED
    BY <1>1, <1>5, <2>1, <2>2 DEF Chained
<1> QED
  BY <1>1, <1>4, <1>6 DEF g

(* In a file that ends with IEND, every other chunk has one after it.       *)
LEMMA EndedChain ==
  ASSUME NEW f \in Seq(Items), Chained(f), Ended(f), NEW p \in 5 .. Len(f), f[p].is = "head"
  PROVE  IF f[p].type = "IEND" THEN p + 1 = Len(f) /\ f[p + 1].is = "crc"
         ELSE p + f[p].length + 2 <= Len(f) /\ f[p + f[p].length + 2].is = "head"
<1>1. HeadFits(f, p) /\ f[p].length \in Nat /\ p + f[p].length + 1 <= Len(f)
  BY HeadIs DEF Chained, Ended, Entire
<1> DEFINE n == f[p].length
           m == Len(f)
<1>2. n \in Nat /\ p \in Nat /\ m \in Nat /\ p + n + 1 <= m /\ p >= 5
  BY <1>1
<1>3. CASE f[p].type = "IEND"
  <2>1. n = 0 /\ p + 1 >= m
    BY <1>1, <1>3 DEF HeadFits
  <2>2. p + 1 = m /\ p + n + 1 = p + 1
    <3> HIDE DEF n, m
    <3> QED
      BY <1>2, <2>1
  <2>3. f[p + n + 1].is = "crc"
    BY <1>1 DEF HeadFits
  <2> QED
    BY <1>3, <2>2, <2>3
<1>4. CASE f[p].type # "IEND"
  <2>1. f[m - 1].is = "head" /\ f[m - 1].type = "IEND"
    BY DEF Ended, HeadOf
  <2>2. ASSUME p + n + 1 = m PROVE FALSE
    <3>1. m - 1 = p \/ m - 1 \in p + 1 .. (p + n + 1) - 1
      <4> HIDE DEF n, m
      <4> QED
        BY <1>2, <2>2
    <3>2. m - 1 # p
      BY <1>4, <2>1
    <3>3. m - 1 <= m
      <4> HIDE DEF m
      <4> QED
        BY <1>2
    <3>4. f[m - 1].is = "byte"
      BY <1>1, <3>1, <3>2, <3>3 DEF HeadFits
    <3> QED
      BY <2>1, <3>4
  <2>3. p + n + 2 <= m /\ p + n + 2 = (p + n + 1) + 1
    <3> HIDE DEF n, m
    <3> QED
      BY <1>2, <2>2
  <2>4. f[(p + n + 1) + 1].is = "head"
    BY <1>1, <2>3 DEF HeadFits
  <2> QED
    BY <1>4, <2>3, <2>4
<1> QED
  BY <1>3, <1>4

-----------------------------------------------------------------------------
(* Lemmas on the rest of a file.                                            *)

LEMMA Windows ==
  ASSUME NEW f \in Seq(Items), NEW p \in 1 .. Len(f) + 1, NEW n \in 0 .. Len(f), p <= n + 1
  PROVE  /\ SubSeq(f, p, n) \in Seq(Items) /\ Len(SubSeq(f, p, n)) = n + 1 - p
         /\ \A i \in 1 .. n + 1 - p : SubSeq(f, p, n)[i] = f[p + i - 1]
  OBVIOUS

LEMMA RestType ==
  ASSUME NEW f \in Seq(Items), NEW p \in Nat \ {0}
  PROVE  RestOf(f, p) \in Seq(Unit) /\ (p > Len(f) => RestOf(f, p) = <<>>)
<1>1. Len(f) \in Nat
  OBVIOUS
<1>2. CASE p > Len(f)
  <2>1. SubSeq(f, p, Len(f)) = <<>>
    BY <1>1, <1>2
  <2>2. Stream(<<>>) = <<>>
    <3>1. <<>> \in Seq(Items) /\ \A i \in 1 .. Len(<<>>) : UnitsOf(<<>>[i]) = <<>>
      OBVIOUS
    <3> QED
      BY <3>1, QuietStream
  <2>3. <<>> \in Seq(Unit)
    OBVIOUS
  <2> QED
    BY <2>1, <2>2, <2>3 DEF RestOf
<1>3. CASE p <= Len(f)
  <2>1. SubSeq(f, p, Len(f)) \in Seq(Items)
    BY <1>1, <1>3
  <2>2. ~(p > Len(f))
    BY <1>1, <1>3
  <2> QED
    BY <2>1, <2>2, StreamType DEF RestOf
<1> QED
  BY <1>1, <1>2, <1>3

LEMMA RestSplit ==
  ASSUME NEW f \in Seq(Items), NEW p \in 1 .. Len(f), NEW n \in p - 1 .. Len(f)
  PROVE  RestOf(f, p) = Stream(SubSeq(f, p, n)) \o RestOf(f, n + 1)
<1> DEFINE m == Len(f)
           all == SubSeq(f, p, m)
           one == SubSeq(f, p, n)
           two == SubSeq(f, n + 1, m)
<1>1. m \in Nat /\ p \in 1 .. m + 1 /\ n \in 0 .. m /\ p <= n + 1 /\ n + 1 \in 1 .. m + 1 /\ m \in 0 .. m /\ p <= m + 1 /\ n + 1 <= m + 1
  OBVIOUS
<1>2. all \in Seq(Items) /\ Len(all) = m + 1 - p /\ \A i \in 1 .. m + 1 - p : all[i] = f[p + i - 1]
  BY <1>1, Windows
<1>3. one \in Seq(Items) /\ Len(one) = n + 1 - p /\ \A i \in 1 .. n + 1 - p : one[i] = f[p + i - 1]
  BY <1>1, Windows
<1>4. two \in Seq(Items) /\ Len(two) = m + 1 - (n + 1) /\ \A i \in 1 .. m + 1 - (n + 1) : two[i] = f[(n + 1) + i - 1]
  BY <1>1, Windows
<1> HIDE DEF m, all, one, two
<1>5. /\ one \o two \in Seq(Items) /\ Len(one \o two) = Len(one) + Len(two)
      /\ \A i \in 1 .. Len(one) : (one \o two)[i] = one[i]
      /\ \A i \in 1 .. Len(two) : (one \o two)[Len(one) + i] = two[i]
  <2>1. one \in Seq(Items) /\ two \in Seq(Items)
    BY <1>3, <1>4
  <2> QED
    BY <2>1, Elements
<1>6. Len(one \o two) = Len(all) /\ Len(all) \in Nat /\ Len(one) \in Nat
  BY <1>1, <1>2, <1>3, <1>4, <1>5
<1>7. ASSUME NEW i \in 1 .. Len(all) PROVE all[i] = (one \o two)[i]
  <2>1. CASE i <= Len(one)
    <3>1. i \in 1 .. Len(one) /\ i \in 1 .. n + 1 - p /\ i \in 1 .. m + 1 - p
      BY <1>2, <1>3, <1>6, <2>1
    <3> QED
      BY <1>2, <1>3, <1>5, <3>1
  <2>2. CASE i > Len(one)
    <3> DEFINE j == i - Len(one)
    <3>1. j \in 1 .. Len(two) /\ Len(one) + j = i /\ j \in 1 .. m + 1 - (n + 1) /\ (n + 1) + j - 1 = p + i - 1
      BY <1>1, <1>2, <1>3, <1>4, <1>6, <2>2
    <3> HIDE DEF j
    <3>2. (one \o two)[i] = f[(n + 1) + j - 1]
      BY <1>4, <1>5, <3>1
    <3>3. all[i] = f[p + i - 1]
      BY <1>2
    <3> QED
      BY <3>1, <3>2, <3>3
  <2> QED
    BY <1>6, <2>1, <2>2
<1>8. all = one \o two
  BY <1>2, <1>5, <1>6, <1>7, SameElements
<1> QED
  BY <1>3, <1>4, <1>8, StreamConcat DEF RestOf, m, all, one, two

(* Items without units, as far as there are any, are passed over.           *)
LEMMA RestSkips ==
  ASSUME NEW f \in Seq(Items), NEW p \in Nat \ {0}, NEW n \in Nat,
         \A q \in p .. p + n - 1 : q <= Len(f) => UnitsOf(f[q]) = <<>>
  PROVE  RestOf(f, p) = RestOf(f, p + n)
<1>1. Len(f) \in Nat
  OBVIOUS
<1>2. CASE p > Len(f)
  <2>1. p + n \in Nat \ {0} /\ p + n > Len(f)
    BY <1>1, <1>2
  <2> QED
    BY <1>2, <2>1, RestType
<1>3. CASE p <= Len(f)
  <2> DEFINE e == IF p + n - 1 <= Len(f) THEN p + n - 1 ELSE Len(f)
             s == SubSeq(f, p, e)
  <2>1. p \in 1 .. Len(f) + 1 /\ p \in 1 .. Len(f) /\ e \in 0 .. Len(f) /\ p <= e + 1 /\ e \in p - 1 .. Len(f)
    BY <1>1, <1>3
  <2>2. s \in Seq(Items) /\ Len(s) = e + 1 - p /\ \A i \in 1 .. e + 1 - p : s[i] = f[p + i - 1]
    BY <2>1, Windows
  <2>3. RestOf(f, p) = Stream(s) \o RestOf(f, e + 1)
    BY <2>1, RestSplit
  <2>4. ASSUME NEW i \in 1 .. Len(s) PROVE UnitsOf(s[i]) = <<>>
    <3>1. p + i - 1 \in p .. p + n - 1 /\ p + i - 1 <= Len(f) /\ i \in 1 .. e + 1 - p
      BY <1>1, <2>1, <2>2
    <3> QED
      BY <2>2, <3>1
  <2>5. Stream(s) = <<>>
    BY <2>2, <2>4, QuietStream
  <2>6. RestOf(f, e + 1) = RestOf(f, p + n) /\ RestOf(f, e + 1) \in Seq(Unit)
    <3>1. CASE p + n - 1 <= Len(f)
      <4>1. e + 1 = p + n /\ e + 1 \in Nat \ {0}
        BY <1>1, <2>1, <3>1
      <4> QED
        BY <4>1, RestType
    <3>2. CASE p + n - 1 > Len(f)
      <4>1. e + 1 = Len(f) + 1 /\ e + 1 \in Nat \ {0} /\ e + 1 > Len(f) /\ p + n > Len(f) /\ p + n \in Nat \ {0}
        BY <1>1, <2>1, <3>2
      <4> HIDE DEF e
      <4> QED
        BY <4>1, RestType
    <3> QED
      BY <1>1, <3>1, <3>2
  <2>7. \A u \in Seq(Unit) : <<>> \o u = u
    OBVIOUS
  <2> HIDE DEF e, s
  <2> QED
    BY <2>3, <2>5, <2>6, <2>7
<1> QED
  BY <1>1, <1>2, <1>3

(* Bytes that are read.                                                     *)
LEMMA RestReads ==
  ASSUME NEW f \in Seq(Items), NEW p \in Nat \ {0}, NEW n \in Nat \ {0}, p + n - 1 <= Len(f),
         \A q \in p .. p + n - 1 : f[q].is = "byte", NEW c, c = [i \in 1 .. n |-> f[p + i - 1].units]
  PROVE  c \in Seq(Seq(Unit)) /\ RestOf(f, p) = FlattenSeq(c) \o RestOf(f, p + n)
<1> DEFINE e == p + n - 1
           s == SubSeq(f, p, e)
<1>1. /\ Len(f) \in Nat /\ p \in 1 .. Len(f) + 1 /\ p \in 1 .. Len(f) /\ e \in 0 .. Len(f)
      /\ p <= e + 1 /\ e \in p - 1 .. Len(f) /\ e + 1 - p = n /\ e + 1 = p + n
  OBVIOUS
<1>2. s \in Seq(Items) /\ Len(s) = e + 1 - p /\ \A i \in 1 .. e + 1 - p : s[i] = f[p + i - 1]
  BY <1>1, Windows
<1>3. RestOf(f, p) = Stream(s) \o RestOf(f, e + 1)
  BY <1>1, RestSplit
<1>4. \A i \in 1 .. n : s[i].is = "byte" /\ c[i] = s[i].units
  <2>1. \A i \in 1 .. n : p + i - 1 \in p .. p + n - 1
    OBVIOUS
  <2> HIDE DEF e, s
  <2> QED
    BY <1>1, <1>2, <2>1
<1> HIDE DEF e, s
<1>5. /\ Parts(s) \in Seq(Seq(Unit)) /\ Len(Parts(s)) = n
      /\ \A i \in 1 .. n : Parts(s)[i] = UnitsOf(s[i])
  BY <1>1, <1>2, PartsAre
<1>6. \A i \in 1 .. n : Parts(s)[i] = c[i]
  BY <1>4, <1>5 DEF UnitsOf
<1>7. c \in Seq(Seq(Unit)) /\ Len(c) = n
  <2>1. \A i \in 1 .. n : Parts(s)[i] \in Seq(Unit)
    BY <1>5
  <2>2. c \in [1 .. n -> Seq(Unit)]
    BY <1>6, <2>1
  <2>3. c \in Seq(Seq(Unit))
    BY <2>2, FunctionIsSeq
  <2> QED
    BY <2>2, <2>3
<1>8. Parts(s) = c
  BY <1>5, <1>6, <1>7, SameElements
<1> QED
  BY <1>1, <1>3, <1>7, <1>8 DEF Stream

(* All of the stream is in the chunks after the first.                      *)
LEMMA RestOfAll ==
  ASSUME NEW f \in Seq(Items), Chained(f)
  PROVE  RestOf(f, 5) = Stream(f)
<1>1. \A q \in 1 .. 1 + 4 - 1 : q <= Len(f) => UnitsOf(f[q]) = <<>>
  BY DEF Chained, UnitsOf
<1>2. 1 \in Nat \ {0} /\ 4 \in Nat /\ 1 + 4 = 5
  OBVIOUS
<1>3. RestOf(f, 1) = RestOf(f, 5)
  BY <1>1, <1>2, RestSkips
<1>4. SubSeq(f, 1, Len(f)) = f
  OBVIOUS
<1> QED
  BY <1>3, <1>4 DEF RestOf

-----------------------------------------------------------------------------
(* Files that may be there already.                                         *)

LEMMA SingleIs ==
  ASSUME NEW units \in Seq(Unit)
  PROVE  Single(units) \in Seq(Seq(Unit)) /\ FlattenSeq(Single(units)) = units
<1>1. Len(units) \in Nat /\ DOMAIN units = 1 .. Len(units) /\ \A i \in 1 .. Len(units) : <<units[i]>> \in Seq(Unit)
  OBVIOUS
<1>2. Single(units) = [i \in 1 .. Len(units) |-> <<units[i]>>]
  BY <1>1 DEF Single
<1>3. FlattenSeq(Single(units)) = units
  BY <1>2, FlattenSingles
<1>4. Single(units) \in [1 .. Len(units) -> Seq(Unit)]
  BY <1>1, <1>2
<1> QED
  BY <1>1, <1>3, <1>4, FunctionIsSeq

LEMMA EmptyEnds ==
  ASSUME NEW S, NEW s \in Seq(S)
  PROVE  <<>> \o s = s /\ s \o <<>> = s
  OBVIOUS

Kept3(f, g) == 3 <= Len(g) /\ g[1] = f[1] /\ g[2] = f[2] /\ g[3] = f[3]

LEMMA KeptBehind ==
  ASSUME NEW f \in Seq(Items), NEW c \in Seq(Items), 4 <= Len(f)
  PROVE  Kept3(f, f \o c)
  BY DEF Kept3

LEMMA PictureFile ==
  ASSUME NEW s \in Seq(Items), Chained(s), Open(s), Stream(s) = <<>>, NEW units \in Seq(Unit)
  PROVE  LET g == s \o IDAT(Single(units)) \o Ends IN
         /\ g \in Seq(Items) /\ Chained(g) /\ Ended(g) /\ Stream(g) = units /\ Kept3(s, g)
<1> DEFINE c == IDAT(Single(units))
           t == s \o c
           g == t \o Ends
<1>1. IsChunk(c, "IDAT") /\ Stream(c) = units /\ c \in Seq(Items)
  BY SingleIs, IDATIs DEF IsChunk
<1>2. IsChunk(Ends, "IEND") /\ Stream(Ends) = <<>> /\ Ends \in Seq(Items)
  BY QuietChunksAre DEF IsChunk
<1> HIDE DEF c
<1>3. t \in Seq(Items) /\ Chained(t) /\ Open(t)
  BY <1>1, ChunkKept
<1>4. Stream(t) = units
  <2>1. Stream(t) = Stream(s) \o Stream(c)
    BY <1>1, StreamConcat
  <2> HIDE DEF t
  <2> QED
    BY <1>1, <2>1, EmptyEnds
<1>5. 4 <= Len(s) /\ 4 <= Len(t)
  BY <1>3 DEF Open, Entire
<1>6. Kept3(s, t)
  BY <1>1, <1>5, KeptBehind
<1> HIDE DEF t
<1>7. g \in Seq(Items) /\ Chained(g) /\ Ended(g)
  BY <1>2, <1>3, ChunkKept
<1>8. Stream(g) = units
  <2>1. Stream(g) = Stream(t) \o Stream(Ends)
    BY <1>2, <1>3, StreamConcat
  <2> HIDE DEF g
  <2> QED
    BY <1>2, <1>4, <2>1, EmptyEnds
<1>9. Kept3(t, g)
  BY <1>2, <1>3, <1>5, KeptBehind
<1>10. Kept3(s, g)
  <2> HIDE DEF g
  <2> QED
    BY <1>6, <1>9 DEF Kept3
<1> QED
  BY <1>7, <1>8, <1>10 DEF g, t, c

LEMMA MatchesSelf ==
  ASSUME NEW S, NEW a \in Seq(S), NEW all
  PROVE  Matches(a, a, all)
  BY BeginsMore DEF Matches

(* What is read of a file of the user's.                                    *)
LEMMA UserFile ==
  ASSUME NEW g \in Seq(Items), Chained(g), Ended(g), NEW f \in {"none", "sub"}, NEW n \in Nat,
         NEW spare \in {<<>>, <<Ending>>},
         Stream(g) = Rows("user", f, n) \o (<<Ending>> \o spare),
         NEW s, Kept3(s, g), s[1] = Signature, s[2] = HeadOf("IHDR", 1), s[3] = Format("rgb8"),
         file = g, wpc = "ready", Sort = f, Lines = n, Spare = spare
  PROVE  OnDisk
<1>1. Of = "user"
  BY DEF Of
<1>2. Readable
  BY DEF Kept3, Readable, Item
<1>3. Stream(g) \in Seq(Unit)
  BY StreamType
<1>4. Matches(Stream(file), Rows(Of, Sort, Lines) \o (<<Ending>> \o Spare), Whole)
  BY <1>1, <1>3, MatchesSelf
<1> QED
  BY <1>2, <1>4 DEF OnDisk

LEMMA InitOnDisk == Init => OnDisk
<1> SUFFICES ASSUME Init PROVE OnDisk
  OBVIOUS
<1>1. /\ stranger \in {"missing", "plain", "filtered", "short", "trailing", "dictionary", "interlaced"}
      /\ wpc = "ready" /\ file = Stranger(stranger)
      /\ Height \in Nat /\ Height - 1 \in Nat
  BY PngAssumption DEF Init
<1> DEFINE s == <<Signature>> \o Info("rgb8")
           t == s \o Comment
           e2 == <<Ending, Ending>>
<1>2. /\ s \in Seq(Items) /\ Chained(s) /\ Open(s) /\ Stream(s) = <<>>
      /\ s[1] = Signature /\ s[2] = HeadOf("IHDR", 1) /\ s[3] = Format("rgb8")
  BY PreambleIs
<1>3. t \in Seq(Items) /\ Chained(t) /\ Open(t) /\ Stream(t) = <<>> /\ Kept3(s, t)
  <2>1. IsChunk(Comment, "tEXt") /\ Stream(Comment) = <<>> /\ Comment \in Seq(Items)
    BY QuietChunksAre DEF IsChunk
  <2> HIDE DEF s
  <2>2. t \in Seq(Items) /\ Chained(t) /\ Open(t)
    BY <1>2, <2>1, ChunkKept
  <2>3. Stream(t) = Stream(s) \o Stream(Comment)
    BY <1>2, <2>1, StreamConcat
  <2>4. 4 <= Len(s)
    BY <1>2 DEF Open, Entire
  <2>5. Kept3(s, t)
    BY <1>2, <2>1, <2>4, KeptBehind
  <2>6. Stream(t) = <<>>
    BY <1>2, <2>1, <2>3
  <2> QED
    BY <2>2, <2>5, <2>6
<1>4. \A f \in {"none", "sub"}, n \in Nat : Rows("user", f, n) \in Seq(Unit)
  <2>1. \A f \in {"none", "sub"}, n \in Nat : Rows("user", f, n) \in Seq(Datum)
    BY RowsAre
  <2> QED
    BY <2>1, DataAreUnits
<1>5. /\ Ending \in Unit /\ <<Ending>> = <<Ending>> \o <<>> /\ e2 = <<Ending>> \o <<Ending>>
      /\ <<Ending>> \in Seq(Unit) /\ e2 \in Seq(Unit)
  BY UnitTypes
<1>6. t[1] = s[1] /\ t[2] = s[2] /\ t[3] = s[3]
  BY <1>3 DEF Kept3
<1> HIDE DEF s, t, e2
<1>7. CASE stranger = "plain"
  <2> DEFINE u == Rows("user", "none", Height) \o <<Ending>>
             g == t \o IDAT(Single(u)) \o Ends
  <2>1. u \in Seq(Unit) /\ u = Rows("user", "none", Height) \o (<<Ending>> \o <<>>)
    BY <1>1, <1>4, <1>5
  <2>2. file = g
    BY <1>1, <1>7 DEF Stranger, s, t
  <2>3. g \in Seq(Items) /\ Chained(g) /\ Ended(g) /\ Stream(g) = u /\ Kept3(t, g)
    BY <1>3, <2>1, PictureFile
  <2>4. Sort = "none" /\ Lines = Height /\ Spare = <<>>
    BY <1>7 DEF Sort, Lines, Spare, Stalling
  <2> HIDE DEF u, g
  <2> QED
    BY <1>1, <1>2, <1>6, <2>1, <2>2, <2>3, <2>4, UserFile
<1>8. CASE stranger = "filtered"
  <2> DEFINE u == Rows("user", "sub", Height) \o <<Ending>>
             g == s \o IDAT(Single(u)) \o Ends
  <2>1. u \in Seq(Unit) /\ u = Rows("user", "sub", Height) \o (<<Ending>> \o <<>>)
    BY <1>1, <1>4, <1>5
  <2>2. file = g
    BY <1>1, <1>8 DEF Stranger, s
  <2>3. g \in Seq(Items) /\ Chained(g) /\ Ended(g) /\ Stream(g) = u /\ Kept3(s, g)
    BY <1>2, <2>1, PictureFile
  <2>4. Sort = "sub" /\ Lines = Height /\ Spare = <<>>
    BY <1>1, <1>8 DEF Sort, Lines, Spare, Stalling
  <2> HIDE DEF u, g
  <2> QED
    BY <1>1, <1>2, <2>1, <2>2, <2>3, <2>4, UserFile
<1>9. CASE stranger = "short"
  <2> DEFINE u == Rows("user", "none", Height - 1) \o <<Ending>>
             g == s \o IDAT(Single(u)) \o Ends
  <2>1. u \in Seq(Unit) /\ u = Rows("user", "none", Height - 1) \o (<<Ending>> \o <<>>)
    BY <1>1, <1>4, <1>5
  <2>2. file = g
    BY <1>1, <1>9 DEF Stranger, s
  <2>3. g \in Seq(Items) /\ Chained(g) /\ Ended(g) /\ Stream(g) = u /\ Kept3(s, g)
    BY <1>2, <2>1, PictureFile
  <2>4. Sort = "none" /\ Lines = Height - 1 /\ Spare = <<>>
    BY <1>1, <1>9 DEF Sort, Lines, Spare, Stalling
  <2> HIDE DEF u, g
  <2> QED
    BY <1>1, <1>2, <2>1, <2>2, <2>3, <2>4, UserFile
<1>10. CASE stranger = "trailing"
  <2> DEFINE u == Rows("user", "none", Height) \o e2
             g == s \o IDAT(Single(u)) \o Ends
  <2>1. u \in Seq(Unit) /\ u = Rows("user", "none", Height) \o (<<Ending>> \o <<Ending>>)
    BY <1>1, <1>4, <1>5
  <2>2. file = g
    BY <1>1, <1>10 DEF Stranger, s, e2
  <2>3. g \in Seq(Items) /\ Chained(g) /\ Ended(g) /\ Stream(g) = u /\ Kept3(s, g)
    BY <1>2, <2>1, PictureFile
  <2>4. Sort = "none" /\ Lines = Height /\ Spare = <<Ending>>
    BY <1>1, <1>10 DEF Sort, Lines, Spare, Stalling
  <2> HIDE DEF u, g
  <2> QED
    BY <1>1, <1>2, <2>1, <2>2, <2>3, <2>4, UserFile
<1>11. CASE stranger = "dictionary"
  <2> DEFINE g == s \o IDAT(Single(e2)) \o Ends
  <2>1. e2 = Rows("user", "none", 0) \o (<<Ending>> \o <<Ending>>)
    <3>1. 0 \in Nat
      OBVIOUS
    <3>2. Rows("user", "none", 0) = <<>>
      BY <3>1, RowsAre, NoneLeft
    <3> QED
      BY <1>5, <3>2
  <2>2. file = g
    BY <1>1, <1>11 DEF Stranger, s, e2
  <2>3. g \in Seq(Items) /\ Chained(g) /\ Ended(g) /\ Stream(g) = e2 /\ Kept3(s, g)
    BY <1>2, <1>5, PictureFile
  <2>4. Sort = "none" /\ Lines = 0 /\ Spare = <<Ending>>
    BY <1>1, <1>11 DEF Sort, Lines, Spare, Stalling
  <2> HIDE DEF g
  <2> QED
    BY <1>1, <1>2, <2>1, <2>2, <2>3, <2>4, UserFile
<1>12. CASE stranger = "missing"
  <2>1. file = <<>>
    BY <1>1, <1>12 DEF Stranger
  <2>2. ~Whole
    BY <1>1, <1>12 DEF Whole
  <2>3. Item(1).is = "nothing" /\ Signature.is = "signature"
    BY <2>1 DEF Item, Signature
  <2>4. ~Readable
    BY <2>3 DEF Readable
  <2> QED
    BY <2>1, <2>2, <2>4 DEF OnDisk
<1>13. CASE stranger = "interlaced"
  <2> DEFINE v == <<Signature>> \o Info("adam7")
             g == v \o Ends
  <2>1. file = g
    BY <1>1, <1>13 DEF Stranger
  <2>2. v \in Seq(Items) /\ v[3] = Format("adam7") /\ Open(v)
    BY PreambleIs
  <2>3. Ends \in Seq(Items)
    BY QuietChunksAre DEF IsChunk
  <2> HIDE DEF v
  <2>4. g \in Seq(Items) /\ 3 <= Len(g) /\ g[3] = v[3]
    BY <2>2, <2>3 DEF Open, Entire
  <2> HIDE DEF g
  <2>5. ~Whole
    BY <1>1, <1>13 DEF Whole
  <2>6. Item(3).format = "adam7" /\ Format("rgb8").format = "rgb8"
    BY <2>1, <2>2, <2>4 DEF Item, Format
  <2>7. ~Readable
    BY <2>6 DEF Readable
  <2> QED
    BY <2>1, <2>4, <2>5, <2>7 DEF OnDisk
<1> QED
  BY <1>1, <1>7, <1>8, <1>9, <1>10, <1>11, <1>12, <1>13

-----------------------------------------------------------------------------
(* Lemmas on what the exporter has made: what is in the file, in the        *)
(* buffer, held by deflate and not taken yet.                               *)

LEMMA LayType ==
  ASSUME NEW S, NEW a \in Seq(S), NEW b \in Seq(S), NEW h \in Seq(S), NEW i \in Seq(S)
  PROVE  Lay(a, b, h, i) \in Seq(S)
  BY DEF Lay

(* A row more to take.                                                      *)
LayGains(a, b, h, i) == Lay(a, b, h, <<>>) \o i = Lay(a, b, h, i)

LEMMA LayMore ==
  ASSUME NEW S, NEW a \in Seq(S), NEW b \in Seq(S), NEW h \in Seq(S), NEW i \in Seq(S)
  PROVE  LayGains(a, b, h, i)
<1>1. h \o <<>> = h /\ b \o h \in Seq(S)
  OBVIOUS
<1>2. Regroups(a, b \o h, i) /\ Regroups(b, h, i)
  BY <1>1, Regroup
<1> QED
  BY <1>1, <1>2 DEF Lay, Regroups, LayGains

(* The ending is held.                                                      *)
LEMMA LayHeld ==
  ASSUME NEW S, NEW a \in Seq(S), NEW b \in Seq(S), NEW h \in Seq(S), NEW i \in Seq(S)
  PROVE  Lay(a, b, h, i) = Lay(a, b, h \o i, <<>>)
<1>1. (h \o i) \o <<>> = h \o i
  OBVIOUS
<1> QED
  BY <1>1 DEF Lay

(* The buffer is written.                                                   *)
LEMMA LayStored ==
  ASSUME NEW S, NEW a \in Seq(S), NEW b \in Seq(S), NEW h \in Seq(S), NEW i \in Seq(S)
  PROVE  Lay(a, b, h, i) = Lay(a \o b, <<>>, h, i)
<1>1. h \o i \in Seq(S)
  OBVIOUS
<1>2. Regroups(a, b, h \o i)
  BY <1>1, Regroup
<1>3. <<>> \o (h \o i) = h \o i
  BY <1>1, EmptyEnds
<1> QED
  BY <1>2, <1>3 DEF Lay, Regroups

(* deflate takes some and puts some out.                                    *)
LayMoves(a, b, h, i, t, x, r) == Lay(a, b, h, i \o t) = Lay(a, b \o x, r, t)

LEMMA LayPasses ==
  ASSUME NEW S, NEW a \in Seq(S), NEW b \in Seq(S), NEW h \in Seq(S), NEW i \in Seq(S),
         NEW t \in Seq(S), NEW x \in Seq(S), NEW r \in Seq(S), Passes(x, r, h, i)
  PROVE  LayMoves(a, b, h, i, t, x, r)
<1>1. Kept(b, x, r, h, i, t)
  BY OrderIsKept
<1> QED
  BY <1>1 DEF Lay, Kept, LayMoves

(* All of it is taken.                                                      *)
LEMMA LayFinishes ==
  ASSUME NEW S, NEW a \in Seq(S), NEW b \in Seq(S), NEW h \in Seq(S), NEW i \in Seq(S),
         NEW x \in Seq(S), NEW r \in Seq(S), Passes(x, r, h, i)
  PROVE  Lay(a, b, h, i) = Lay(a \o b, x, r, <<>>)
<1>1. r \o <<>> = r /\ h \o i \in Seq(S)
  OBVIOUS
<1>2. Regroups(a, b, h \o i)
  BY <1>1, Regroup
<1> QED
  BY <1>1, <1>2 DEF Lay, Regroups, Passes

LEMMA LayEnds ==
  ASSUME NEW S, NEW a \in Seq(S), NEW b \in Seq(S)
  PROVE  Lay(a, b, <<>>, <<>>) = Lay(a \o b, <<>>, <<>>, <<>>)
<1>1. a \o b \in Seq(S)
  OBVIOUS
<1>2. \A c \in Seq(S) : c \o (<<>> \o <<>>) = c /\ c \o (<<>> \o (<<>> \o <<>>)) = c
  OBVIOUS
<1> QED
  BY <1>1, <1>2 DEF Lay

-----------------------------------------------------------------------------
(* The exporter's steps.                                                    *)

LEMMA Sizes ==
  /\ Width \in Nat \ {0} /\ Height \in Nat \ {0}
  /\ OutputBuffer \in Nat \ {0} /\ InputBuffer \in Nat \ {0}
  BY PngAssumption

(* A file of complete chunks, without the last.                             *)
Begun(f) ==
  /\ f \in Seq(Items) /\ Chained(f) /\ Open(f)
  /\ f[1] = Signature /\ f[2] = HeadOf("IHDR", 1) /\ f[3] = Format("rgb8")

LEMMA Written ==
  ASSUME NEW f, Begun(f), NEW bytes \in Bytes(Unit), NEW c,
         c = IDAT(bytes) \/ (bytes = <<>> /\ c = <<>>)
  PROVE  Begun(f \o c) /\ Stream(f \o c) = Stream(f) \o FlattenSeq(bytes)
<1>1. f \in Seq(Items) /\ Stream(f) \in Seq(Unit) /\ bytes \in Seq(Seq(Unit)) /\ 4 <= Len(f)
  BY StreamType, BytesAreParts DEF Begun, Open, Entire
<1>2. CASE c = IDAT(bytes)
  <2>1. IsChunk(c, "IDAT") /\ Stream(c) = FlattenSeq(bytes) /\ c \in Seq(Items)
    BY <1>1, <1>2, IDATIs DEF IsChunk
  <2>2. f \o c \in Seq(Items) /\ Chained(f \o c) /\ Open(f \o c)
    BY <2>1, ChunkKept DEF Begun
  <2>3. Kept3(f, f \o c)
    BY <1>1, <2>1, KeptBehind
  <2>4. Stream(f \o c) = Stream(f) \o Stream(c)
    BY <1>1, <2>1, StreamConcat
  <2> QED
    BY <2>1, <2>2, <2>3, <2>4 DEF Begun, Kept3
<1>3. CASE bytes = <<>> /\ c = <<>>
  <2>1. FlattenSeq(bytes) = <<>>
    BY <1>3, FlattenFew
  <2>2. f \o c = f /\ Stream(f) \o FlattenSeq(bytes) = Stream(f)
    BY <1>1, <1>3, <2>1, EmptyEnds
  <2> QED
    BY <2>2
<1> QED
  BY <1>2, <1>3

LEMMA OpenExportInv ==
  ASSUME WriterInv, OpenExport, UNCHANGED stranger
  PROVE  WriterInv'
<1>1. /\ wpc = "ready" /\ file' = <<Signature>> \o Info("rgb8") /\ wpc' = "row"
      /\ y' = 0 /\ input' = <<>> /\ held' = <<>> /\ buffer' = <<>>
  BY DEF WriterInv, OpenExport
<1>2. file' \in Seq(Items) /\ Chained(file') /\ Open(file') /\ Stream(file') = <<>>
      /\ file'[1] = Signature /\ file'[2] = HeadOf("IHDR", 1) /\ file'[3] = Format("rgb8")
  BY <1>1, PreambleIs
<1>3. FlattenSeq(buffer') = <<>>
  BY <1>1, FlattenFew
<1>4. Rows("bake", "none", 0) = <<>>
  <2>1. 0 \in Nat
    OBVIOUS
  <2> QED
    BY <2>1, RowsAre, NoneLeft
<1>5. <<>> \o (<<>> \o (<<>> \o <<>>)) = <<>>
  OBVIOUS
<1>6. Lay(Stream(file'), FlattenSeq(buffer'), held', input') = Made'
  BY <1>1, <1>2, <1>3, <1>4, <1>5 DEF Lay, Made
<1>7. 0 \in 0 .. Height /\ <<>> \in Seq(Datum) /\ <<>> \in Seq(Unit) /\ <<>> \in Bytes(Unit) /\ Len(<<>>) < OutputBuffer
  BY Sizes, BytesType
<1>8. Exporting'
  BY <1>1, <1>2, <1>6, <1>7 DEF Exporting
<1>9. stranger' \in Strangers
  BY DEF WriterInv
<1> QED
  BY <1>1, <1>8, <1>9 DEF WriterInv, Settled

LEMMA FetchRowInv ==
  ASSUME WriterInv, FetchRow, UNCHANGED stranger
  PROVE  WriterInv'
<1>1. /\ wpc = "row" /\ y < Height /\ y' = y + 1 /\ input' = Line("bake", "none", y + 1)
      /\ wpc' = "deflate" /\ UNCHANGED <<file, held, buffer>> /\ Exporting
  BY DEF WriterInv, FetchRow, Settled
<1>2. /\ y \in Nat /\ y + 1 \in 0 .. Height /\ input = <<>>
      /\ held \in Seq(Unit) /\ FlattenSeq(buffer) \in Seq(Unit) /\ Stream(file) \in Seq(Unit)
  BY <1>1, Sizes, StreamType, BytesAreParts, FlattenSeqType DEF Exporting
<1>3. input' \in Seq(Datum) /\ input' \in Seq(Unit)
  <2>1. y + 1 \in Nat
    BY <1>2
  <2> QED
    BY <1>1, <2>1, LineType, DataAreUnits
<1>4. Lay(Stream(file), FlattenSeq(buffer), held, <<>>) = Rows("bake", "none", y)
  BY <1>1, <1>2 DEF Exporting, Made
<1>5. Rows("bake", "none", y) \o input' = Rows("bake", "none", y + 1)
  BY <1>1, <1>2, RowsNext
<1>6. Lay(Stream(file), FlattenSeq(buffer), held, <<>>) \o input' = Lay(Stream(file), FlattenSeq(buffer), held, input')
  <2> DEFINE F == Stream(file)
             B == FlattenSeq(buffer)
  <2>1. F \in Seq(Unit) /\ B \in Seq(Unit)
    BY <1>2
  <2>2. held \in Seq(Unit) /\ input' \in Seq(Unit)
    BY <1>2, <1>3
  <2> HIDE DEF F, B
  <2>3. LayGains(F, B, held, input')
    BY <2>1, <2>2, LayMore, Zenon
  <2> QED
    BY <2>3 DEF F, B, LayGains
<1>7. Lay(Stream(file'), FlattenSeq(buffer'), held', input') = Made'
  BY <1>1, <1>4, <1>5, <1>6 DEF Made
<1>8. Exporting'
  BY <1>1, <1>2, <1>3, <1>7 DEF Exporting
<1>9. stranger' \in Strangers
  BY DEF WriterInv
<1> QED
  BY <1>1, <1>8, <1>9 DEF WriterInv, Settled

LEMMA DeflateRowInv ==
  ASSUME WriterInv, DeflateRow, UNCHANGED stranger
  PROVE  WriterInv'
<1>1. wpc = "deflate" /\ Exporting /\ wpc' \in {"row", "deflate"} /\ (wpc' = "row" => input' = <<>>)
      /\ y' = y
  BY DEF WriterInv, DeflateRow, Settled
<1> DEFINE F == Stream(file)
           B == FlattenSeq(buffer)
<1>2. /\ input \in Seq(Datum) /\ held \in Seq(Unit) /\ buffer \in Bytes(Unit) /\ Len(buffer) < OutputBuffer
      /\ F \in Seq(Unit) /\ B \in Seq(Unit) /\ buffer \in Seq(Seq(Unit)) /\ y \in 0 .. Height
      /\ Lay(F, B, held, input) = Made
  BY <1>1, StreamType, BytesAreParts, FlattenSeqType DEF Exporting
<1>3. Begun(file)
  BY <1>1 DEF Exporting, Begun
<1>4. PICK taken \in 0 .. Len(input) :
        \E e \in Emissions(held \o FirstOf(input, taken), OutputBuffer - Len(buffer), Ending) :
          /\ input' = After(input, taken)
          /\ held' = e.rest
          /\ IF Len(buffer \o e.bytes) = OutputBuffer
             THEN file' = file \o IDAT(buffer \o e.bytes) /\ buffer' = <<>>
             ELSE buffer' = buffer \o e.bytes /\ UNCHANGED file
  BY DEF DeflateRow
<1>5. PICK e \in Emissions(held \o FirstOf(input, taken), OutputBuffer - Len(buffer), Ending) :
        /\ input' = After(input, taken)
        /\ held' = e.rest
        /\ IF Len(buffer \o e.bytes) = OutputBuffer
           THEN file' = file \o IDAT(buffer \o e.bytes) /\ buffer' = <<>>
           ELSE buffer' = buffer \o e.bytes /\ UNCHANGED file
  BY <1>4
<1> HIDE DEF F, B
<1>6. /\ FirstOf(input, taken) \in Seq(Datum) /\ After(input, taken) \in Seq(Datum)
      /\ FirstOf(input, taken) \o After(input, taken) = input
  BY <1>2, FirstAndAfter
<1>7. FirstOf(input, taken) \in Seq(Unit) /\ After(input, taken) \in Seq(Unit)
  BY <1>6, DataAreUnits
<1>8. OutputBuffer - Len(buffer) \in Nat /\ held \o FirstOf(input, taken) \in Seq(Unit)
  BY <1>2, <1>7, Sizes
<1>9. /\ e.bytes \in Bytes(Unit) /\ Len(e.bytes) <= OutputBuffer - Len(buffer)
      /\ e.rest \in Seq(Unit) /\ FlattenSeq(e.bytes) \o e.rest = held \o FirstOf(input, taken)
  BY <1>8, EmissionIs
<1> DEFINE filled == buffer \o e.bytes
<1>10. filled \in Bytes(Unit) /\ Len(filled) <= OutputBuffer
  <2>1. e.bytes \in Seq(Seq(Unit))
    BY <1>9, BytesAreParts
  <2>2. Len(filled) = Len(buffer) + Len(e.bytes) /\ Len(buffer) \in Nat /\ Len(e.bytes) \in Nat
    BY <1>2, <2>1
  <2>3. filled \in Bytes(Unit)
    BY <1>2, <1>9, BytesType
  <2> HIDE DEF filled
  <2> QED
    BY <1>9, <2>2, <2>3, Sizes
<1>11. FlattenSeq(filled) = B \o FlattenSeq(e.bytes) /\ FlattenSeq(e.bytes) \in Seq(Unit)
  <2>1. e.bytes \in Seq(Seq(Unit)) /\ buffer \in Seq(Seq(Unit))
    BY <1>2, <1>9, BytesAreParts
  <2>2. FlattenSeq(e.bytes) \in Seq(Unit)
    BY <2>1, FlattenSeqType
  <2>3. FlattenSeq(buffer \o e.bytes) = FlattenSeq(buffer) \o FlattenSeq(e.bytes)
    BY <2>1, FlattenConcat
  <2> QED
    BY <2>2, <2>3 DEF B
<1>12. Lay(F, B, held, input) = Lay(F, FlattenSeq(filled), held', input')
  <2>1. Passes(FlattenSeq(e.bytes), e.rest, held, FirstOf(input, taken))
    BY <1>9 DEF Passes
  <2>2. Lay(F, B, held, FirstOf(input, taken) \o After(input, taken))
        = Lay(F, B \o FlattenSeq(e.bytes), e.rest, After(input, taken))
    <3> DEFINE i == FirstOf(input, taken)
               t == After(input, taken)
               x == FlattenSeq(e.bytes)
               l == e.rest
    <3>1. i \in Seq(Unit) /\ t \in Seq(Unit) /\ x \in Seq(Unit) /\ l \in Seq(Unit) /\ Passes(x, l, held, i)
      BY <1>7, <1>9, <1>11, <2>1
    <3>2. F \in Seq(Unit) /\ B \in Seq(Unit) /\ held \in Seq(Unit)
      BY <1>2
    <3> HIDE DEF i, t, x, l
    <3>3. LayMoves(F, B, held, i, t, x, l)
      BY <3>1, <3>2, LayPasses, Zenon
    <3> QED
      BY <3>3 DEF i, t, x, l, LayMoves
  <2> HIDE DEF filled
  <2> QED
    BY <1>5, <1>6, <1>11, <2>2
<1>13. Made' = Made
  BY <1>1 DEF Made
<1>14. FlattenSeq(filled) \in Seq(Unit) /\ held' \in Seq(Unit) /\ input' \in Seq(Datum) /\ input' \in Seq(Unit)
  <2>1. FlattenSeq(filled) \in Seq(Unit)
    <3> HIDE DEF filled
    <3>1. filled \in Seq(Seq(Unit))
      BY <1>10, BytesAreParts
    <3> QED
      BY <3>1, FlattenSeqType
  <2> HIDE DEF filled
  <2>2. held' \in Seq(Unit)
    BY <1>5, <1>9
  <2>3. input' = After(input, taken)
    BY <1>5
  <2> QED
    BY <1>6, <1>7, <2>1, <2>2, <2>3
<1>15. CASE Len(filled) = OutputBuffer
  <2>1. file' = file \o IDAT(filled) /\ buffer' = <<>>
    BY <1>5, <1>15
  <2> HIDE DEF filled
  <2>2. Begun(file') /\ Stream(file') = F \o FlattenSeq(filled)
    BY <1>3, <1>10, <2>1, Written DEF F
  <2>3. FlattenSeq(buffer') = <<>> /\ Len(buffer') < OutputBuffer /\ buffer' \in Bytes(Unit)
    <3>1. buffer' = <<>>
      BY <2>1
    <3>2. FlattenSeq(<<>>) = <<>>
      BY FlattenFew
    <3>3. <<>> \in Bytes(Unit)
      BY BytesType
    <3> QED
      BY <3>1, <3>2, <3>3, Sizes
  <2>4. Lay(F, FlattenSeq(filled), held', input') = Lay(F \o FlattenSeq(filled), <<>>, held', input')
    BY <1>2, <1>14, LayStored
  <2>5. Lay(Stream(file'), FlattenSeq(buffer'), held', input') = Made'
    BY <1>2, <1>12, <1>13, <2>2, <2>3, <2>4
  <2>6. Exporting'
    BY <1>1, <1>2, <1>14, <2>2, <2>3, <2>5 DEF Exporting, Begun
  <2> QED
    BY <1>1, <2>6 DEF WriterInv, Settled
<1>16. CASE Len(filled) # OutputBuffer
  <2>1. file' = file /\ buffer' = filled
    BY <1>5, <1>16
  <2>2. Len(filled) < OutputBuffer
    <3>1. Len(filled) \in Nat
      BY <1>10, BytesAreParts
    <3> HIDE DEF filled
    <3> QED
      BY <1>10, <1>16, <3>1, Sizes
  <2> HIDE DEF filled
  <2>5. Lay(Stream(file'), FlattenSeq(buffer'), held', input') = Made'
    BY <1>2, <1>12, <1>13, <2>1 DEF F
  <2>6. Exporting'
    BY <1>1, <1>2, <1>3, <1>10, <1>14, <2>1, <2>2, <2>5 DEF Exporting, Begun
  <2> QED
    BY <1>1, <2>6 DEF WriterInv, Settled
<1> QED
  BY <1>15, <1>16

LEMMA EndRowsInv ==
  ASSUME WriterInv, EndRows, UNCHANGED stranger
  PROVE  WriterInv'
<1>1. /\ wpc = "row" /\ y = Height /\ held' = Append(held, Ending)
      /\ wpc' = "finish" /\ UNCHANGED <<file, y, input, buffer>> /\ Exporting
  BY DEF WriterInv, EndRows, Settled
<1>2. /\ input = <<>> /\ held \in Seq(Unit) /\ FlattenSeq(buffer) \in Seq(Unit) /\ Stream(file) \in Seq(Unit)
      /\ Lay(Stream(file), FlattenSeq(buffer), held, <<>>) = Rows("bake", "none", Height)
  BY <1>1, StreamType, BytesAreParts, FlattenSeqType DEF Exporting, Made
<1> DEFINE last == <<Ending>>
<1>3. last \in Seq(Unit)
  BY UnitTypes
<1>4. held' = held \o last /\ held' \in Seq(Unit)
  BY <1>1, <1>2, <1>3
<1> HIDE DEF last
<1>5. Lay(Stream(file), FlattenSeq(buffer), held, <<>>) \o last
      = Lay(Stream(file), FlattenSeq(buffer), held, last)
  <2>1. LayGains(Stream(file), FlattenSeq(buffer), held, last)
    BY <1>2, <1>3, LayMore, Zenon
  <2> QED
    BY <2>1 DEF LayGains
<1>6. Lay(Stream(file), FlattenSeq(buffer), held, last)
      = Lay(Stream(file), FlattenSeq(buffer), held \o last, <<>>)
  BY <1>2, <1>3, LayHeld
<1>7. Lay(Stream(file'), FlattenSeq(buffer'), held', input') = Made'
  BY <1>1, <1>2, <1>4, <1>5, <1>6 DEF Made, last
<1>8. Exporting'
  BY <1>1, <1>4, <1>7 DEF Exporting
<1> QED
  BY <1>1, <1>8 DEF WriterInv, Settled

LEMMA FinishStreamInv ==
  ASSUME WriterInv, FinishStream, UNCHANGED stranger
  PROVE  WriterInv'
<1>1. wpc = "finish" /\ Exporting /\ y' = y /\ input' = input
  BY DEF WriterInv, FinishStream, Settled
<1> DEFINE F == Stream(file)
           B == FlattenSeq(buffer)
<1>2. /\ held \in Seq(Unit) /\ buffer \in Bytes(Unit) /\ y \in 0 .. Height
      /\ F \in Seq(Unit) /\ B \in Seq(Unit) /\ Lay(F, B, held, input) = Made
      /\ input \in Seq(Unit) /\ input \in Seq(Datum)
  BY <1>1, StreamType, BytesAreParts, FlattenSeqType DEF Exporting
<1>12. input = <<>>
  BY <1>1 DEF Exporting
<1>3. Begun(file)
  BY <1>1 DEF Exporting, Begun
<1> HIDE DEF F, B
<1> DEFINE X == IF buffer = <<>> THEN <<>> ELSE IDAT(buffer)
           Z(e) == Flushed(e.bytes, ~FinishAgain(e.rest))
<1>4. PICK e \in Emissions(held, OutputBuffer, Ending) :
        /\ held' = e.rest
        /\ file' = file \o X \o Z(e)
        /\ buffer' = IF FinishAgain(e.rest) THEN e.bytes ELSE <<>>
        /\ wpc' = IF FinishAgain(e.rest) THEN "finish" ELSE "end"
  BY DEF FinishStream
<1> DEFINE part == file \o X
           O == FlattenSeq(e.bytes)
<1>5. /\ e.bytes \in Bytes(Unit) /\ e.rest \in Seq(Unit) /\ O \o e.rest = held
  BY <1>2, Sizes, EmissionIs
<1>6. O \in Seq(Unit)
  BY <1>5, BytesAreParts, FlattenSeqType
<1>7. Begun(part) /\ Stream(part) = F \o B /\ Stream(part) \in Seq(Unit)
  <2>1. X = IDAT(buffer) \/ (buffer = <<>> /\ X = <<>>)
    OBVIOUS
  <2> HIDE DEF X
  <2>2. Begun(part) /\ Stream(part) = F \o B
    BY <1>2, <1>3, <2>1, Written DEF F, B
  <2> QED
    BY <1>2, <2>2
<1> HIDE DEF X, part, O
<1>8. Lay(F, B, held, input) = Lay(Stream(part), O, e.rest, <<>>)
  <2>1. held \o input = held
    BY <1>2, <1>12
  <2>2. Passes(O, e.rest, held, input)
    BY <1>5, <2>1 DEF Passes
  <2>3. Lay(F, B, held, input) = Lay(F \o B, O, e.rest, <<>>)
    BY <1>2, <1>5, <1>6, <2>2, LayFinishes
  <2> QED
    BY <1>7, <2>3
<1>10. CASE FinishAgain(e.rest)
  <2>1. /\ held' = e.rest /\ buffer' = e.bytes /\ wpc' = "finish" /\ file' = part \o <<>>
    BY <1>4, <1>10 DEF Flushed, part
  <2>2. file' = part
    <3>1. part \in Seq(Items)
      BY <1>7 DEF Begun
    <3> QED
      BY <2>1, <3>1, EmptyEnds
  <2>3. Made' = Made
    BY <1>1, <2>1 DEF Made
  <2>4. Lay(Stream(file'), FlattenSeq(buffer'), held', input') = Made'
    BY <1>1, <1>2, <1>8, <1>12, <2>1, <2>2, <2>3 DEF O
  <2>5. Exporting'
    BY <1>1, <1>2, <1>5, <1>7, <2>1, <2>2, <2>4, <1>12 DEF Exporting, Begun
  <2> QED
    BY <2>1, <2>5 DEF WriterInv, Settled
<1>11. CASE ~FinishAgain(e.rest)
  <2>1. /\ held' = <<>> /\ buffer' = <<>> /\ wpc' = "end" /\ e.rest = <<>>
        /\ file' = part \o (IF e.bytes # <<>> THEN IDAT(e.bytes) ELSE <<>>)
    BY <1>4, <1>11 DEF Flushed, part, FinishAgain
  <2>2. Begun(file') /\ Stream(file') = Stream(part) \o O
    <3> DEFINE c == IF e.bytes # <<>> THEN IDAT(e.bytes) ELSE <<>>
    <3>1. c = IDAT(e.bytes) \/ (e.bytes = <<>> /\ c = <<>>)
      OBVIOUS
    <3>2. file' = part \o c
      BY <2>1
    <3> HIDE DEF c
    <3> QED
      BY <1>5, <1>7, <3>1, <3>2, Written DEF O
  <2>3. Made' = Made
    BY <1>1, <2>1 DEF Made
  <2>4. Lay(Stream(part), O, <<>>, <<>>) = Lay(Stream(part) \o O, <<>>, <<>>, <<>>)
    BY <1>6, <1>7, LayEnds
  <2>5. FlattenSeq(buffer') = <<>> /\ buffer' \in Bytes(Unit)
    BY <2>1, FlattenFew, BytesType
  <2>6. Lay(Stream(file'), FlattenSeq(buffer'), held', input') = Made'
    BY <1>1, <1>2, <1>8, <1>12, <2>1, <2>2, <2>3, <2>4, <2>5
  <2>7. Exporting'
    BY <1>1, <1>2, <2>1, <2>2, <2>5, <2>6, <1>12 DEF Exporting, Begun
  <2> QED
    BY <2>1, <2>7 DEF WriterInv, Settled
<1> QED
  BY <1>10, <1>11

LEMMA WriteIENDInv ==
  ASSUME WriterInv, WriteIEND, UNCHANGED stranger
  PROVE  WriterInv'
<1>1. /\ wpc = "end" /\ file' = file \o Ends /\ wpc' = "flush" /\ UNCHANGED <<y, input, held, buffer>>
      /\ Exporting
  BY DEF WriterInv, WriteIEND, Settled
<1>2. file \in Seq(Items) /\ Chained(file) /\ Open(file) /\ 4 <= Len(file)
  BY <1>1 DEF Exporting, Open, Entire
<1>3. IsChunk(Ends, "IEND") /\ Stream(Ends) = <<>> /\ Ends \in Seq(Items)
  BY QuietChunksAre DEF IsChunk
<1>4. file' \in Seq(Items) /\ Chained(file') /\ Ended(file')
  BY <1>1, <1>2, <1>3, ChunkKept
<1>5. Kept3(file, file')
  BY <1>1, <1>2, <1>3, KeptBehind
<1>6. Stream(file') = Stream(file)
  <2>1. Stream(file') = Stream(file) \o Stream(Ends) /\ Stream(file) \in Seq(Unit)
    BY <1>1, <1>2, <1>3, StreamConcat, StreamType
  <2> QED
    BY <1>3, <2>1, EmptyEnds
<1>7. Made' = Made
  BY <1>1 DEF Made
<1>8. Exporting'
  BY <1>1, <1>4, <1>5, <1>6, <1>7 DEF Exporting, Kept3
<1> QED
  BY <1>1, <1>8 DEF WriterInv, Settled

LEMMA FlushFileInv ==
  ASSUME WriterInv, FlushFile, UNCHANGED stranger
  PROVE  WriterInv'
<1>1. /\ wpc = "flush" /\ synced' /\ wpc' = "close" /\ UNCHANGED <<file, y, input, held, buffer>>
      /\ Exporting
  BY DEF WriterInv, FlushFile, Settled
<1>2. Made' = Made
  BY <1>1 DEF Made
<1>3. Exporting'
  BY <1>1, <1>2 DEF Exporting
<1> QED
  BY <1>1, <1>3 DEF WriterInv, Settled

LEMMA CloseFileInv ==
  ASSUME WriterInv, CloseFile, UNCHANGED stranger
  PROVE  WriterInv'
<1>1. wpc = "close" /\ wpc' = "exported" /\ Exporting /\ synced
  BY DEF WriterInv, CloseFile, Settled, Exporting
<1>2. /\ file \in Seq(Items) /\ Chained(file) /\ Ended(file) /\ 4 <= Len(file)
      /\ file[1] = Signature /\ file[2] = HeadOf("IHDR", 1) /\ file[3] = Format("rgb8")
      /\ held = <<>> /\ buffer = <<>> /\ input = <<>> /\ Lay(Stream(file), FlattenSeq(buffer), held, input) = Made
  BY <1>1 DEF Exporting, Ended, Entire
<1>3. file' = file
  <2>1. file' = FirstOf(file, Len(file))
    BY <1>1 DEF CloseFile
  <2> QED
    BY <1>2, <2>1, FirstOfAll
<1>4. Stream(file) = Rows("bake", "none", Height) \o <<Ending>> /\ Stream(file) \in Seq(Unit)
  <2>1. Stream(file) \in Seq(Unit) /\ FlattenSeq(buffer) = <<>>
    BY <1>2, StreamType, FlattenFew
  <2>2. \A s \in Seq(Unit) : s \o (<<>> \o (<<>> \o <<>>)) = s
    OBVIOUS
  <2> QED
    BY <1>1, <1>2, <2>1, <2>2 DEF Lay, Made
<1>5. Of' = "bake" /\ Sort' = "none" /\ Lines' = Height /\ Spare' = <<>> /\ Whole'
  BY <1>1 DEF Of, Sort, Lines, Spare, Stalling, Whole
<1>6. Readable'
  BY <1>2, <1>3 DEF Readable, Item
<1>7. <<Ending>> \o <<>> = <<Ending>>
  OBVIOUS
<1>8. Matches(Stream(file'), Rows(Of', Sort', Lines') \o (<<Ending>> \o Spare'), Whole')
  BY <1>3, <1>4, <1>5, <1>7, MatchesSelf
<1>9. OnDisk'
  BY <1>2, <1>3, <1>6, <1>8 DEF OnDisk
<1> QED
  BY <1>1, <1>9 DEF WriterInv, Settled

LEMMA ExportStopsInv ==
  ASSUME WriterInv, ExportStops, UNCHANGED stranger
  PROVE  WriterInv'
<1>1. wpc \notin Settled /\ wpc' = "stopped" /\ Exporting
  BY DEF WriterInv, ExportStops, Settled
<1>2. PICK n \in 0 .. Len(file) : file' = FirstOf(file, n)
  BY DEF ExportStops
<1> DEFINE all == Rows("bake", "none", Height) \o (<<Ending>> \o <<>>)
<1>3. file \in Seq(Items) /\ Chained(file) /\ Lay(Stream(file), FlattenSeq(buffer), held, input) = Made
  BY <1>1 DEF Exporting
<1>4. file' \in Seq(Items) /\ Chained(file') /\ Begins(Stream(file'), Stream(file))
  BY <1>2, <1>3, FileCut
<1>5. /\ Stream(file) \in Seq(Unit) /\ Stream(file') \in Seq(Unit) /\ FlattenSeq(buffer) \in Seq(Unit)
      /\ held \in Seq(Unit) /\ input \in Seq(Unit) /\ y \in 0 .. Height
  BY <1>1, <1>3, <1>4, StreamType, BytesAreParts, FlattenSeqType, DataAreUnits DEF Exporting
<1>6. Rows("bake", "none", y) \in Seq(Unit) /\ Rows("bake", "none", Height) \in Seq(Unit)
      /\ Begins(Rows("bake", "none", y), Rows("bake", "none", Height))
  <2>1. y \in Nat /\ Height \in Nat
    BY <1>5, Sizes
  <2>2. Rows("bake", "none", y) \in Seq(Datum) /\ Rows("bake", "none", Height) \in Seq(Datum)
    BY <2>1, RowsAre
  <2> QED
    BY <1>5, <2>1, <2>2, RowsBegin, DataAreUnits
<1>7. <<Ending>> \in Seq(Unit) /\ <<Ending>> \o <<>> = <<Ending>>
  BY UnitTypes
<1>8. all \in Seq(Unit) /\ Begins(Rows("bake", "none", Height), all) /\ Begins(all, all)
  <2>1. all = Rows("bake", "none", Height) \o <<Ending>>
    BY <1>7
  <2>2. Rows("bake", "none", Height) \o <<Ending>> \in Seq(Unit)
    BY <1>6, <1>7
  <2>3. Begins(Rows("bake", "none", Height), Rows("bake", "none", Height) \o <<Ending>>)
    BY <1>6, <1>7, BeginsMore
  <2> HIDE DEF all
  <2>4. Begins(all, all)
    BY <2>1, <2>2, MatchesSelf DEF Matches
  <2> QED
    BY <2>1, <2>2, <2>3, <2>4
<1>9. \A s \in Seq(Unit) : Len(s) \in Nat
  OBVIOUS
<1> HIDE DEF all
<1>10. Made \in Seq(Unit) /\ Begins(Made, all)
  <2>1. CASE wpc \in {"row", "deflate"}
    <3>1. Made = Rows("bake", "none", y)
      BY <2>1 DEF Made
    <3> QED
      BY <1>6, <1>8, <1>9, <3>1, BeginsTransitive
  <2>2. CASE wpc \notin {"row", "deflate"}
    <3>1. Made = all
      BY <1>7, <2>2 DEF Made, all
    <3> QED
      BY <1>8, <3>1
  <2> QED
    BY <2>1, <2>2
<1>11. Begins(Stream(file), Made)
  <2>1. FlattenSeq(buffer) \o (held \o input) \in Seq(Unit)
    BY <1>5
  <2>2. Begins(Stream(file), Stream(file) \o (FlattenSeq(buffer) \o (held \o input)))
    BY <1>5, <2>1, BeginsMore
  <2> QED
    BY <1>3, <2>2 DEF Lay
<1>12. Begins(Stream(file'), all)
  <2>1. Begins(Stream(file), all)
    BY <1>5, <1>8, <1>9, <1>10, <1>11, BeginsTransitive
  <2> QED
    BY <1>4, <1>5, <1>8, <1>9, <2>1, BeginsTransitive
<1>13. Of' = "bake" /\ Sort' = "none" /\ Lines' = Height /\ Spare' = <<>> /\ ~Whole'
  BY <1>1 DEF Of, Sort, Lines, Spare, Stalling, Whole
<1>14. Matches(Stream(file'), Rows(Of', Sort', Lines') \o (<<Ending>> \o Spare'), Whole')
  BY <1>12, <1>13 DEF Matches, all
<1>15. OnDisk'
  BY <1>4, <1>13, <1>14 DEF OnDisk
<1> QED
  BY <1>1, <1>15 DEF WriterInv, Settled

-----------------------------------------------------------------------------
(* The importer's steps.                                                    *)

LEMMA FileKinds ==
  ASSUME WriterInv
  PROVE  /\ Of \in {"bake", "user"} /\ Sort \in {"none", "sub"} /\ Lines \in Nat /\ Lines <= Height
         /\ Spare \in {<<>>, <<Ending>>} /\ Spare \in Seq(Unit)
         /\ Whole \in BOOLEAN /\ (Whole => Sort = "none" /\ Lines = Height /\ Spare = <<>>)
<1>1. Height \in Nat /\ Height - 1 \in Nat /\ Height - 1 <= Height
  BY Sizes
<1>2. <<Ending>> \in Seq(Unit) /\ <<>> \in Seq(Unit)
  BY UnitTypes
<1> QED
  BY <1>1, <1>2 DEF Of, Sort, Lines, Spare, Stalling, Whole

FileStays == UNCHANGED <<stranger, file, wpc>>

LEMMA KindsStay ==
  ASSUME FileStays
  PROVE  /\ Of' = Of /\ Sort' = Sort /\ Lines' = Lines /\ Spare' = Spare /\ Whole' = Whole
         /\ Readable' = Readable /\ (wpc' \in Settled <=> wpc \in Settled)
  BY DEF FileStays, Of, Sort, Lines, Spare, Stalling, Whole, Readable, Item, Settled

LEMMA ReadPNGInfoInv ==
  ASSUME WriterInv, ReaderInv, ReadPNGInfo, FileStays
  PROVE  ReaderInv'
<1>1. /\ rpc = "idle" /\ wpc \in Settled /\ AtRest /\ OnDisk
      /\ UNCHANGED <<chunk, decoded, ended, row, image>>
  BY DEF ReadPNGInfo, ReaderInv, WriterInv, Settled
<1>2. AtRest'
  BY <1>1 DEF AtRest
<1>3. CASE Readable
  <2>1. rpc' = "info" /\ sizes' = [width |-> Width, height |-> Height]
    BY <1>3 DEF ReadPNGInfo, Readable, Format
  <2> QED
    BY <1>1, <1>2, <1>3, <2>1, KindsStay DEF ReaderInv
<1>4. CASE ~Readable
  <2>1. rpc' = "refused"
    BY <1>4 DEF ReadPNGInfo, Readable
  <2>2. ~Whole
    BY <1>1, <1>4 DEF OnDisk
  <2> QED
    BY <1>1, <2>1, <2>2, KindsStay DEF ReaderInv
<1> QED
  BY <1>3, <1>4

LEMMA BeginReadPNGInv ==
  ASSUME WriterInv, ReaderInv, BeginReadPNG, FileStays
  PROVE  ReaderInv'
<1>1. /\ rpc = "info" /\ wpc \in Settled /\ AtRest /\ OnDisk /\ Readable
      /\ sizes' = [width |-> Width, height |-> Height] /\ pos' = 5 /\ rpc' = "chunk"
      /\ UNCHANGED <<chunk, decoded, ended, row, image>>
  BY DEF BeginReadPNG, ReaderInv, WriterInv
<1>2. /\ chunk' = <<>> /\ decoded' = <<>> /\ ended' = FALSE /\ row' = <<>> /\ image' = <<>>
  BY <1>1 DEF AtRest
<1>3. /\ file \in Seq(Items) /\ Chained(file) /\ (Whole => Ended(file))
      /\ Matches(Stream(file), Rows(Of, Sort, Lines) \o (<<Ending>> \o Spare), Whole)
  BY <1>1 DEF OnDisk
<1>4. Due' = Rows(Of, Sort, Lines) \o (<<Ending>> \o Spare)
  <2>1. Len(<<>>) = 0
    OBVIOUS
  <2>2. Left(Of', Sort', Lines', Len(image')) = Left(Of, Sort, Lines, 0)
    BY <1>2, <2>1, KindsStay
  <2>3. Left(Of, Sort, Lines, 0) = Rows(Of, Sort, Lines)
    BY FileKinds, RowsAre
  <2> QED
    BY <1>2, <2>2, <2>3, KindsStay DEF Due
<1>5. Held' = Stream(file)
  <2>1. Rest(pos)' = Stream(file)
    BY <1>1, <1>3, RestOfAll DEF Rest, FileStays
  <2>2. FlattenSeq(chunk') = <<>>
    BY <1>2, FlattenFew
  <2>3. Stream(file) \in Seq(Unit)
    BY <1>3, StreamType
  <2>4. \A s \in Seq(Unit) : <<>> \o (<<>> \o (<<>> \o s)) = s
    OBVIOUS
  <2>5. Held' = <<>> \o (<<>> \o (<<>> \o Stream(file)))
    BY <1>2, <2>1, <2>2 DEF Held
  <2> QED
    BY <2>3, <2>4, <2>5
<1>6. 5 \in Nat \ (0 .. 4)
  OBVIOUS
<1>7. (Whole => 5 <= Len(file)) /\ (5 <= Len(file) => file[5].is = "head")
  <2>1. Len(file) \in Nat
    BY <1>3
  <2> QED
    BY <1>3, <2>1 DEF Ended, Chained
<1>8. Len(<<>>) = 0 /\ 0 <= Width /\ 0 <= Lines
  BY Sizes, FileKinds
<1>9. Matches(Held', Due', Whole') /\ Readable' /\ 0 <= Lines' /\ file' = file
  BY <1>1, <1>3, <1>4, <1>5, <1>8, KindsStay DEF FileStays
<1>10. chunk' \in Seq(Seq(Unit)) /\ decoded' \in Seq(Datum) /\ row' \in Seq(Datum) /\ image' \in Seq(Seq(Unit))
      /\ ended' \in BOOLEAN /\ (ended' => decoded' = <<>>)
  <2>1. ended' \in BOOLEAN /\ (ended' => decoded' = <<>>)
    BY <1>2, Zenon
  <2>2. \A S : <<>> \in Seq(S)
    OBVIOUS
  <2> QED
    BY <1>2, <2>1, <2>2, Zenon
<1>11. Len(row') <= Width /\ Len(image') <= Lines' /\ \A r \in 1 .. Len(image') : image'[r] = Pixels(Of', r)
  BY <1>2, <1>8, <1>9
<1>12. (rpc' = "chunk" /\ Whole' => pos' <= Len(file')) /\ (rpc' = "chunk" /\ pos' <= Len(file') => file'[pos'].is = "head")
  BY <1>1, <1>7, <1>9, KindsStay
<1>13. Reading'
  BY <1>1, <1>2, <1>6, <1>9, <1>10, <1>11, <1>12 DEF Reading
<1> QED
  BY <1>1, <1>13, KindsStay DEF ReaderInv

(* The file and the importer's place in it.                                 *)
LEMMA ReadingTypes ==
  ASSUME WriterInv, ReaderInv, rpc \in {"chunk", "read", "inflate"}
  PROVE  /\ Reading /\ wpc \in Settled /\ Readable /\ (Whole => Ended(file))
         /\ file \in Seq(Items) /\ Len(file) \in Nat /\ Chained(file)
         /\ pos \in Nat \ (0 .. 4) /\ pos \in Nat \ {0}
         /\ row \in Seq(Datum) /\ row \in Seq(Unit) /\ decoded \in Seq(Datum) /\ decoded \in Seq(Unit)
         /\ chunk \in Seq(Seq(Unit)) /\ FlattenSeq(chunk) \in Seq(Unit) /\ Rest(pos) \in Seq(Unit)
         /\ Len(image) \in Nat /\ Len(image) <= Lines
         /\ sizes = [width |-> Width, height |-> Height]
<1>1. /\ Reading /\ wpc \in Settled
  BY DEF ReaderInv
<1>2. Readable /\ file \in Seq(Items) /\ Chained(file) /\ (Whole => Ended(file))
  BY <1>1 DEF Reading, WriterInv, OnDisk
<1>3. /\ pos \in Nat \ (0 .. 4) /\ row \in Seq(Datum) /\ decoded \in Seq(Datum) /\ chunk \in Seq(Seq(Unit))
      /\ Len(image) \in Nat /\ Len(image) <= Lines /\ sizes = [width |-> Width, height |-> Height]
  BY <1>1 DEF Reading
<1>4. pos \in Nat \ {0} /\ Len(file) \in Nat
  BY <1>2, <1>3
<1> QED
  BY <1>1, <1>2, <1>3, <1>4, DataAreUnits, FlattenSeqType, RestType DEF Rest

(* The importer goes on in the file, with the same units to come.           *)
LEMMA PassesOn ==
  ASSUME WriterInv, ReaderInv, rpc \in {"chunk", "read", "inflate"}, FileStays,
         UNCHANGED <<sizes, decoded, ended, row, image>>,
         rpc' \in {"chunk", "read", "inflate"}, pos' \in Nat \ {0}, pos <= pos',
         chunk' \in Seq(Seq(Unit)),
         FlattenSeq(chunk') \o Rest(pos)' = FlattenSeq(chunk) \o Rest(pos),
         rpc' \in {"chunk", "read"} => chunk' = <<>>,
         rpc' = "chunk" => /\ Whole => pos' <= Len(file)
                           /\ pos' <= Len(file) => file[pos'].is = "head",
         rpc' \in {"read", "inflate"} => InChunk'
  PROVE  ReaderInv'
<1>1. Reading /\ wpc \in Settled /\ pos \in Nat \ (0 .. 4)
  BY ReadingTypes
<1>2. pos' \in Nat \ (0 .. 4)
  BY <1>1
<1>3. Held' = Held
  BY DEF Held
<1>4. Due' = Due
  BY KindsStay DEF Due
<1>5. Matches(Held', Due', Whole')
  BY <1>1, <1>3, <1>4, KindsStay DEF Reading
<1>6. Reading'
  BY <1>1, <1>2, <1>5, KindsStay DEF Reading, FileStays
<1> QED
  BY <1>1, <1>6, KindsStay DEF ReaderInv

LEMMA InChunkIs ==
  ASSUME FileStays, NEW p \in Nat, NEW n \in Nat, pos' = p, remaining' = n, NEW e \in Nat, e = p + n,
         \A q \in p .. e - 1 : q <= Len(file) => file[q].is = "byte",
         e <= Len(file) => file[e].is = "crc", e + 1 <= Len(file) => file[e + 1].is = "head",
         Whole => e + 1 <= Len(file)
  PROVE  InChunk'
<1>1. Whole' = Whole /\ file' = file
  BY KindsStay DEF FileStays
<1>2. pos' + remaining' = e
  OBVIOUS
<1> QED
  BY <1>1, <1>2 DEF InChunk

LEMMA NextHead ==
  ASSUME WriterInv, ReaderInv, rpc = "chunk", Item(pos).is = "head"
  PROVE  /\ pos \in 5 .. Len(file) /\ Item(pos) = file[pos] /\ file[pos] \in Items
         /\ HeadFits(file, pos) /\ file[pos].length \in Nat /\ UnitsOf(file[pos]) = <<>>
         /\ file[pos].type \in {"IHDR", "tEXt", "IDAT", "IEND"}
<1>1. file \in Seq(Items) /\ Len(file) \in Nat /\ Chained(file) /\ pos \in Nat \ (0 .. 4)
  BY ReadingTypes
<1>2. pos <= Len(file)
  <2>1. [is |-> "nothing"].is # "head"
    OBVIOUS
  <2> QED
    BY <2>1 DEF Item
<1>3. Item(pos) = file[pos] /\ pos \in 5 .. Len(file) /\ file[pos].is = "head"
  BY <1>1, <1>2 DEF Item
<1>4. file[pos] \in Items
  BY <1>1, <1>3
<1> QED
  BY <1>1, <1>3, <1>4, HeadIs DEF Chained

(* After the last chunk the picture has come to its end.                    *)
LEMMA EndIsReached ==
  ASSUME WriterInv, ReaderInv, rpc = "chunk", Item(pos).is = "head", file[pos].type = "IEND", Whole
  PROVE  Len(image) = Height
<1>1. /\ Reading /\ Ended(file) /\ file \in Seq(Items) /\ Chained(file) /\ chunk = <<>>
      /\ row \in Seq(Datum) /\ decoded \in Seq(Datum) /\ Len(image) \in Nat /\ Len(image) <= Lines
      /\ Len(row) <= Width /\ (ended => decoded = <<>>) /\ Matches(Held, Due, Whole)
  BY ReadingTypes DEF Reading
<1>2. Sort = "none" /\ Lines = Height /\ Spare = <<>> /\ Of \in {"bake", "user"}
  BY FileKinds
<1>3. pos \in 5 .. Len(file) /\ file[pos].is = "head" /\ UnitsOf(file[pos]) = <<>>
  BY NextHead
<1>4. pos + 1 = Len(file) /\ file[pos + 1].is = "crc"
  BY <1>1, <1>3, EndedChain
<1>5. Rest(pos) = <<>>
  <2>1. UnitsOf(file[pos + 1]) = <<>>
    BY <1>4 DEF UnitsOf
  <2>2. \A q \in pos .. pos + 2 - 1 : q <= Len(file) => UnitsOf(file[q]) = <<>>
    <3>1. \A q \in pos .. pos + 2 - 1 : q = pos \/ q = pos + 1
      BY <1>3
    <3> QED
      BY <1>3, <2>1, <3>1
  <2>3. pos \in Nat \ {0} /\ pos + 2 \in Nat \ {0} /\ pos + 2 > Len(file)
    BY <1>3, <1>4
  <2>4. RestOf(file, pos) = RestOf(file, pos + 2)
    BY <1>1, <2>2, <2>3, RestSkips
  <2> QED
    BY <1>1, <2>3, <2>4, RestType DEF Rest
<1> DEFINE k == Len(image)
           left == Left(Of, "none", Height, k)
           read == row \o decoded
<1>6. Held = read /\ read \in Seq(Datum)
  <2>1. FlattenSeq(chunk) = <<>>
    BY <1>1, FlattenFew
  <2>2. <<>> \o <<>> = <<>> /\ decoded \o <<>> = decoded
    BY <1>1
  <2>3. read \in Seq(Datum)
    BY <1>1
  <2> HIDE DEF read
  <2>4. Held = read
    BY <1>5, <2>1, <2>2 DEF Held, read
  <2> QED
    BY <2>3, <2>4
<1>7. k \in 0 .. Height /\ Height \in Nat /\ Width \in Nat
  BY <1>1, <1>2, Sizes
<1> HIDE DEF k
<1>8. left \in Seq(Datum) /\ left \in Seq(Unit)
  BY <1>2, <1>7, LeftIs
<1>9. Due = left \o (IF ended THEN <<>> ELSE <<Ending>> \o <<>>)
  BY <1>2 DEF Due, k
<1> HIDE DEF left, read
<1>10. Matches(read, Due, TRUE)
  BY <1>1, <1>6
<1>11. ended
  <2> SUFFICES ASSUME ~ended PROVE FALSE
    OBVIOUS
  <2>1. <<Ending>> \o <<>> = <<Ending>>
    OBVIOUS
  <2>2. Due = left \o <<Ending>>
    BY <1>9, <2>1
  <2>3. Len(Due) = Len(left) + 1 /\ Due[Len(left) + 1] = Ending /\ Len(left) \in Nat
    BY <1>8, <2>2
  <2>4. Len(read) = Len(left) + 1 /\ read[Len(left) + 1] = Ending
    BY <1>10, <2>3 DEF Matches, Begins
  <2>5. read[Len(left) + 1] \in Datum
    BY <1>6, <2>3, <2>4
  <2> QED
    BY <2>4, <2>5, UnitTypes
<1>12. Len(row) = Len(left)
  <2>1. Due = left
    BY <1>8, <1>9, <1>11, EmptyEnds
  <2>2. read = row
    BY <1>1, <1>11, EmptyEnds DEF read
  <2> QED
    BY <1>10, <2>1, <2>2 DEF Matches
<1>13. ASSUME k < Height PROVE FALSE
  <2>1. k \in 0 .. Height - 1 /\ k + 1 \in 0 .. Height /\ k + 1 \in Nat
    BY <1>7, <1>13
  <2>2. left = Line(Of, "none", k + 1) \o Left(Of, "none", Height, k + 1)
    BY <1>2, <1>7, <2>1, NextLine DEF left
  <2>3. Line(Of, "none", k + 1) \in Seq(Datum) /\ Len(Line(Of, "none", k + 1)) = Width + 1
    BY <1>2, <2>1, LineType
  <2>4. Left(Of, "none", Height, k + 1) \in Seq(Datum)
    BY <1>2, <1>7, <2>1, LeftIs
  <2>5. Len(left) >= Width + 1
    <3>1. Len(left) = Len(Line(Of, "none", k + 1)) + Len(Left(Of, "none", Height, k + 1))
      BY <2>2, <2>3, <2>4
    <3>2. Len(Left(Of, "none", Height, k + 1)) \in Nat
      BY <2>4
    <3> QED
      BY <1>7, <2>3, <3>1, <3>2
  <2> QED
    BY <1>1, <1>7, <1>12, <2>5
<1> QED
  BY <1>7, <1>13 DEF k

LEMMA PictureType ==
  ASSUME NEW of \in {"bake", "user"}
  PROVE  /\ PictureOf(of) \in Seq(Seq(Unit)) /\ Len(PictureOf(of)) = Height
         /\ \A r \in 1 .. Height : PictureOf(of)[r] = Pixels(of, r)
<1>1. \A r \in 1 .. Height : Pixels(of, r) \in Seq(Unit)
  <2>1. ASSUME NEW r \in 1 .. Height PROVE Pixels(of, r) \in Seq(Unit)
    <3>1. r \in Nat
      OBVIOUS
    <3>2. Pixels(of, r) \in Seq(Datum)
      BY <3>1, LineType
    <3> QED
      BY <3>2, DataAreUnits
  <2> QED
    BY <2>1
<1>2. PictureOf(of) \in [1 .. Height -> Seq(Unit)] /\ Height \in Nat
  BY <1>1, Sizes DEF PictureOf
<1>3. PictureOf(of) \in Seq(Seq(Unit))
  BY <1>2, FunctionIsSeq
<1>4. \A r \in 1 .. Height : PictureOf(of)[r] = Pixels(of, r)
  BY DEF PictureOf
<1> QED
  BY <1>2, <1>3, <1>4

LEMMA ReadChunkHeaderInv ==
  ASSUME WriterInv, ReaderInv, ReadChunkHeader, FileStays
  PROVE  ReaderInv'
<1>1. /\ rpc = "chunk" /\ UNCHANGED <<sizes, chunk, decoded, ended, row, image>>
  BY DEF ReadChunkHeader
<1>2. /\ Reading /\ wpc \in Settled /\ (Whole => Ended(file)) /\ file \in Seq(Items) /\ Len(file) \in Nat
      /\ Chained(file) /\ pos \in Nat \ {0} /\ sizes = [width |-> Width, height |-> Height]
      /\ Rest(pos) \in Seq(Unit) /\ chunk = <<>> /\ image \in Seq(Seq(Unit)) /\ Len(image) \in Nat
      /\ Len(image) <= Lines /\ \A r \in 1 .. Len(image) : image[r] = Pixels(Of, r)
  BY <1>1, ReadingTypes DEF Reading
<1>3. chunk' = chunk /\ chunk' = <<>> /\ chunk' \in Seq(Seq(Unit)) /\ file' = file
  BY <1>1, <1>2 DEF FileStays
<1>4. CASE Item(pos).is # "head"
  <2>1. rpc' = "refused"
    BY <1>4 DEF ReadChunkHeader
  <2>2. ~Whole
    <3> SUFFICES ASSUME Whole PROVE FALSE
      OBVIOUS
    <3>1. pos <= Len(file) /\ file[pos].is = "head"
      BY <1>1, <1>2 DEF Reading
    <3> QED
      BY <1>4, <3>1 DEF Item
  <2> QED
    BY <1>2, <2>1, <2>2, KindsStay DEF ReaderInv
<1>5. CASE Item(pos).is = "head"
  <2> DEFINE n == file[pos].length
  <2>1. /\ pos \in 5 .. Len(file) /\ Item(pos) = file[pos] /\ HeadFits(file, pos) /\ n \in Nat
        /\ UnitsOf(file[pos]) = <<>> /\ file[pos].type \in {"IHDR", "tEXt", "IDAT", "IEND"}
        /\ file[pos].is = "head"
    BY <1>1, <1>5, NextHead
  <2>2. /\ pos' = IF file[pos].type \in {"IDAT", "IEND"} THEN pos + 1 ELSE pos + 1 + n + 1
        /\ remaining' = IF file[pos].type = "IDAT" THEN n ELSE remaining
        /\ rpc' = CASE file[pos].type = "IDAT" -> "read"
                    [] file[pos].type = "IEND" -> IF AllRows THEN "imported" ELSE "refused"
                    [] OTHER -> "chunk"
    BY <1>5, <2>1 DEF ReadChunkHeader
  <2>3. /\ \A q \in pos + 1 .. pos + n : q <= Len(file) =>
              file[q].is = "byte" /\ (file[pos].type # "IDAT" => file[q].units = <<>>)
        /\ pos + n + 1 <= Len(file) => file[pos + n + 1].is = "crc"
        /\ pos + n + 2 <= Len(file) => file[pos + n + 2].is = "head"
    <3>1. (pos + n + 1) - 1 = pos + n /\ (pos + n + 1) + 1 = pos + n + 2
      BY <2>1
    <3> QED
      BY <3>1, <2>1 DEF HeadFits
  <2>4. Whole /\ file[pos].type # "IEND" => pos + n + 2 <= Len(file)
    BY <1>2, <2>1, EndedChain
  <2> HIDE DEF n
  <2>5. CASE file[pos].type = "IDAT"
    <3>1. pos' = pos + 1 /\ remaining' = n /\ rpc' = "read"
      BY <2>2, <2>5
    <3>2. Rest(pos)' = Rest(pos)
      <4>1. \A q \in pos .. pos + 1 - 1 : q <= Len(file) => UnitsOf(file[q]) = <<>>
        BY <1>2, <2>1
      <4>2. RestOf(file, pos) = RestOf(file, pos + 1)
        BY <1>2, <4>1, RestSkips
      <4> QED
        BY <1>3, <3>1, <4>2 DEF Rest
    <3>3. InChunk'
      <4> DEFINE e == pos + n + 1
      <4>1. /\ e \in Nat /\ e = (pos + 1) + n /\ e - 1 = pos + n /\ e + 1 = pos + n + 2
            /\ pos + 1 \in Nat
        BY <1>2, <2>1
      <4>2. /\ \A q \in pos + 1 .. e - 1 : q <= Len(file) => file[q].is = "byte"
            /\ e <= Len(file) => file[e].is = "crc"
            /\ e + 1 <= Len(file) => file[e + 1].is = "head"
            /\ Whole => e + 1 <= Len(file)
        BY <2>3, <2>4, <2>5, <4>1
      <4> HIDE DEF e
      <4> QED
        BY <2>1, <3>1, <4>1, <4>2, InChunkIs
    <3>4. pos' \in Nat \ {0} /\ pos <= pos'
      BY <1>2, <3>1
    <3> QED
      BY <1>1, <1>2, <1>3, <3>1, <3>2, <3>3, <3>4, PassesOn
  <2>6. CASE file[pos].type \in {"IHDR", "tEXt"}
    <3>1. pos' = pos + n + 2 /\ rpc' = "chunk"
      BY <1>2, <2>1, <2>2, <2>6
    <3>2. Rest(pos)' = Rest(pos)
      <4>1. ASSUME NEW q \in pos .. pos + (n + 2) - 1, q <= Len(file)
            PROVE  UnitsOf(file[q]) = <<>>
        <5>1. q = pos \/ q \in pos + 1 .. pos + n \/ q = pos + n + 1
          BY <1>2, <2>1
        <5>2. CASE q = pos
          BY <2>1, <5>2
        <5>3. CASE q \in pos + 1 .. pos + n
          BY <2>3, <2>6, <4>1, <5>3 DEF UnitsOf
        <5>4. CASE q = pos + n + 1
          BY <2>3, <4>1, <5>4 DEF UnitsOf
        <5> QED
          BY <5>1, <5>2, <5>3, <5>4
      <4>2. n + 2 \in Nat /\ pos + (n + 2) = pos + n + 2
        BY <1>2, <2>1
      <4>3. RestOf(file, pos) = RestOf(file, pos + (n + 2))
        BY <1>2, <4>1, <4>2, RestSkips
      <4> QED
        BY <1>3, <3>1, <4>2, <4>3 DEF Rest
    <3>3. pos' \in Nat \ {0} /\ pos <= pos'
      BY <1>2, <2>1, <3>1
    <3>4. (Whole => pos' <= Len(file)) /\ (pos' <= Len(file) => file[pos'].is = "head")
      BY <2>3, <2>4, <2>6, <3>1
    <3> QED
      BY <1>1, <1>2, <1>3, <3>1, <3>2, <3>3, <3>4, PassesOn
  <2>7. CASE file[pos].type = "IEND"
    <3>1. rpc' = IF AllRows THEN "imported" ELSE "refused"
      BY <2>2, <2>7
    <3>2. AllRows <=> Len(image) = Height
      BY <1>2 DEF AllRows
    <3>3. CASE AllRows
      <4>1. image = PictureOf(Of)
        <5>1. PictureOf(Of) \in Seq(Seq(Unit)) /\ Len(PictureOf(Of)) = Height
              /\ \A r \in 1 .. Height : PictureOf(Of)[r] = Pixels(Of, r)
          BY PictureType, FileKinds
        <5> QED
          BY <1>2, <3>2, <3>3, <5>1, SameElements
      <4> QED
        BY <1>1, <1>2, <3>1, <3>3, <4>1, KindsStay DEF ReaderInv, PictureOf
    <3>4. CASE ~AllRows
      <4>1. ~Whole
        BY <1>1, <1>5, <2>7, <3>2, <3>4, EndIsReached
      <4> QED
        BY <1>2, <3>1, <3>4, <4>1, KindsStay DEF ReaderInv
    <3> QED
      BY <3>3, <3>4
  <2> QED
    BY <2>1, <2>5, <2>6, <2>7
<1> QED
  BY <1>4, <1>5

LEMMA ReadBufferInv ==
  ASSUME WriterInv, ReaderInv, ReadBuffer, FileStays
  PROVE  ReaderInv'
<1>1. /\ rpc = "read" /\ UNCHANGED <<sizes, decoded, ended, row, image>>
  BY DEF ReadBuffer
<1>2. /\ Reading /\ wpc \in Settled /\ file \in Seq(Items) /\ Len(file) \in Nat
      /\ pos \in Nat \ {0} /\ Rest(pos) \in Seq(Unit) /\ chunk = <<>> /\ InChunk
  BY <1>1, ReadingTypes DEF Reading
<1>3. /\ remaining \in Nat
      /\ \A q \in pos .. pos + remaining - 1 : q <= Len(file) => file[q].is = "byte"
      /\ pos + remaining <= Len(file) => file[pos + remaining].is = "crc"
      /\ pos + remaining + 1 <= Len(file) => file[pos + remaining + 1].is = "head"
      /\ Whole => pos + remaining + 1 <= Len(file)
  BY <1>2 DEF InChunk
<1>4. file' = file /\ FlattenSeq(chunk) = <<>>
  BY <1>2, FlattenFew DEF FileStays
<1>5. CASE remaining = 0
  <2>1. pos' = pos + 1 /\ rpc' = "chunk" /\ chunk' = chunk /\ chunk' = <<>> /\ chunk' \in Seq(Seq(Unit))
    BY <1>2, <1>5 DEF ReadBuffer
  <2>2. pos + remaining = pos
    BY <1>2, <1>5
  <2>3. Rest(pos)' = Rest(pos)
    <3>1. \A q \in pos .. pos + 1 - 1 : q <= Len(file) => UnitsOf(file[q]) = <<>>
      BY <1>2, <1>3, <2>2 DEF UnitsOf
    <3>2. RestOf(file, pos) = RestOf(file, pos + 1)
      BY <1>2, <3>1, RestSkips
    <3> QED
      BY <1>4, <2>1, <3>2 DEF Rest
  <2>4. pos' \in Nat \ {0} /\ pos <= pos' /\ (Whole => pos' <= Len(file)) /\ (pos' <= Len(file) => file[pos'].is = "head")
    BY <1>2, <1>3, <2>1, <2>2
  <2> QED
    BY <1>1, <1>2, <2>1, <2>3, <2>4, PassesOn
<1>6. CASE remaining # 0
  <2> DEFINE n == ToRead
  <2>1. n \in Nat \ {0} /\ n <= remaining
    BY <1>3, <1>6, Sizes DEF ToRead
  <2> HIDE DEF n
  <2>2. CASE pos + n - 1 > Len(file)
    <3>1. rpc' = "refused"
      BY <1>6, <2>2 DEF ReadBuffer, n
    <3>2. ~Whole
      BY <1>2, <1>3, <2>1, <2>2
    <3> QED
      BY <1>2, <3>1, <3>2, KindsStay DEF ReaderInv
  <2>3. CASE pos + n - 1 <= Len(file)
    <3>1. /\ chunk' = [i \in 1 .. n |-> file[pos + i - 1].units]
          /\ pos' = pos + n /\ remaining' = remaining - n /\ rpc' = "inflate"
      BY <1>2, <1>6, <2>1, <2>3 DEF ReadBuffer, n
    <3>2. \A q \in pos .. pos + n - 1 : file[q].is = "byte"
      BY <1>2, <1>3, <2>1, <2>3
    <3>3. chunk' \in Seq(Seq(Unit)) /\ RestOf(file, pos) = FlattenSeq(chunk') \o RestOf(file, pos + n)
      BY <1>2, <2>1, <2>3, <3>1, <3>2, RestReads
    <3>4. FlattenSeq(chunk') \o Rest(pos)' = FlattenSeq(chunk) \o Rest(pos)
      <4>1. Rest(pos)' = RestOf(file, pos + n)
        BY <1>4, <3>1 DEF Rest
      <4>2. <<>> \o Rest(pos) = Rest(pos)
        BY <1>2
      <4> QED
        BY <1>4, <3>3, <4>1, <4>2 DEF Rest
    <3>5. InChunk'
      <4> DEFINE e == pos + remaining
      <4>1. /\ e \in Nat /\ e = (pos + n) + (remaining - n) /\ remaining - n \in Nat /\ pos + n \in Nat
        BY <1>2, <1>3, <2>1
      <4> HIDE DEF e
      <4>2. ASSUME NEW q \in pos + n .. e - 1, q <= Len(file) PROVE file[q].is = "byte"
        <5>1. q \in pos .. e - 1
          BY <1>2, <2>1, <4>1
        <5>2. q \in pos .. pos + remaining - 1
          BY <1>2, <1>3, <5>1 DEF e
        <5> QED
          BY <1>3, <4>2, <5>2
      <4> QED
        BY <1>3, <3>1, <4>1, <4>2, InChunkIs DEF e
    <3>6. pos' \in Nat \ {0} /\ pos <= pos'
      BY <1>2, <2>1, <3>1
    <3> QED
      BY <1>1, <3>1, <3>3, <3>4, <3>5, <3>6, PassesOn
  <2> QED
    BY <1>2, <2>1, <2>2, <2>3
<1> QED
  BY <1>5, <1>6

LEMMA BufferDoneInv ==
  ASSUME WriterInv, ReaderInv, BufferDone, FileStays
  PROVE  ReaderInv'
<1>1. /\ rpc = "inflate" /\ chunk = <<>> /\ rpc' = "read"
      /\ UNCHANGED <<pos, sizes, remaining, chunk, decoded, ended, row, image>> /\ file' = file
  BY DEF BufferDone, FileStays
<1>2. InChunk /\ pos \in Nat \ {0} /\ pos <= pos
  BY <1>1, ReadingTypes DEF Reading
<1>3. InChunk'
  BY <1>1, <1>2, KindsStay DEF InChunk
<1>4. Rest(pos)' = Rest(pos) /\ chunk' = <<>> /\ chunk' \in Seq(Seq(Unit))
  BY <1>1 DEF Rest
<1> QED
  BY <1>1, <1>2, <1>3, <1>4, PassesOn

LEMMA ImportStopsInv ==
  ASSUME WriterInv, ReaderInv, ImportStops, FileStays
  PROVE  ReaderInv'
  BY KindsStay DEF ReaderInv, ImportStops

LEMMA UnitsSplit ==
  ASSUME NEW u \in Seq(Unit), \A i \in 1 .. Len(u) - 1 : u[i] # Ending
  PROVE  /\ DataOf(u) \in Seq(Datum)
         /\ Finishes(u) => u = DataOf(u) \o <<Ending>>
         /\ ~Finishes(u) => u = DataOf(u)
<1>1. Len(u) \in Nat /\ \A i \in 1 .. Len(u) : u[i] \in Unit
  OBVIOUS
<1>2. CASE Finishes(u)
  <2>1. DataOf(u) = SubSeq(u, 1, Len(u) - 1) /\ u # <<>> /\ u[Len(u)] = Ending
    BY <1>2 DEF DataOf, Finishes, Front, Last
  <2> DEFINE n == Len(u) - 1
             d == SubSeq(u, 1, n)
  <2>2. n \in Nat /\ n + 1 = Len(u)
    BY <1>1, <2>1
  <2>3. d = [i \in 1 .. n |-> u[i]]
    BY <2>2
  <2>4. \A i \in 1 .. n : u[i] \in Datum
    BY <1>1, <2>2 DEF Datum
  <2>5. d \in [1 .. n -> Datum]
    BY <2>3, <2>4
  <2>6. d \in Seq(Datum)
    <3> HIDE DEF d, n
    <3> QED
      BY <2>2, <2>5, FunctionIsSeq
  <2>7. u = d \o <<Ending>>
    <3>1. n \in 0 .. Len(u)
      BY <2>2
    <3>2. FirstOf(u, n) \o After(u, n) = u
      BY <3>1, FirstAndAfter
    <3>3. After(u, n) = <<Ending>>
      <4>1. After(u, n) = SubSeq(u, Len(u), Len(u))
        BY <2>2 DEF After
      <4>2. SubSeq(u, Len(u), Len(u)) = <<u[Len(u)]>>
        <5>1. Len(u) \in 1 .. Len(u) /\ Len(u) + 1 - Len(u) = 1
          BY <1>1, <2>1
        <5>2. ASSUME NEW m \in 1 .. Len(u) PROVE SubSeq(u, m, m) = <<u[m]>>
          <6> DEFINE t == SubSeq(u, m, m)
                     o == <<u[m]>>
          <6>1. m \in Nat /\ m + 1 - m = 1 /\ m + 1 - 1 = m
            BY <1>1
          <6>2. t \in Seq(Unit) /\ Len(t) = 1 /\ t[1] = u[m]
            BY <1>1, <6>1
          <6>3. o \in Seq(Unit) /\ Len(o) = 1 /\ o[1] = u[m]
            BY <1>1
          <6> HIDE DEF t, o
          <6>4. t = o
            BY <6>2, <6>3, SameElements
          <6> QED
            BY <6>4 DEF t, o
        <5> QED
          BY <5>1, <5>2
      <4> QED
        BY <2>1, <4>1, <4>2
    <3> QED
      BY <3>2, <3>3 DEF FirstOf
  <2> HIDE DEF d, n
  <2>8. DataOf(u) = d
    BY <2>1 DEF d, n
  <2> QED
    BY <1>2, <2>6, <2>7, <2>8, Zenon
<1>3. CASE ~Finishes(u)
  <2>1. DataOf(u) = u
    BY <1>3 DEF DataOf
  <2>2. \A i \in 1 .. Len(u) : u[i] \in Datum
    <3>1. u # <<>> => u[Len(u)] # Ending
      BY <1>3 DEF Finishes, Last
    <3>2. ASSUME NEW i \in 1 .. Len(u) PROVE u[i] # Ending
      <4>1. i \in 1 .. Len(u) - 1 \/ (i = Len(u) /\ u # <<>>)
        BY <1>1
      <4> QED
        BY <3>1, <4>1
    <3> QED
      BY <1>1, <3>2 DEF Datum
  <2>3. u \in Seq(Datum)
    BY <2>2
  <2> QED
    BY <1>3, <2>1, <2>3, Zenon
<1> QED
  BY <1>2, <1>3, Zenon

(* Units on their way from a file into a row.                               *)
Way(r, d, u, x) == r \o (d \o (u \o x))

Decodes(r, d, u, e, x) ==
  /\ Way(r, d, u \o e, x) = (r \o (d \o u)) \o (e \o x)
  /\ Way(r, d, u, x) = r \o ((d \o u) \o x)
  /\ r \o ((d \o u) \o x) = (r \o (d \o u)) \o x

LEMMA WayDecoded ==
  ASSUME NEW S, NEW r \in Seq(S), NEW d \in Seq(S), NEW u \in Seq(S), NEW e \in Seq(S), NEW x \in Seq(S)
  PROVE  Decodes(r, d, u, e, x)
<1>1. d \o u \in Seq(S) /\ e \o x \in Seq(S)
  OBVIOUS
<1>2. Regroups(u, e, x) /\ Regroups(d, u, e \o x) /\ Regroups(r, d \o u, e \o x)
  BY <1>1, Regroup
<1>3. Regroups(d, u, x) /\ Regroups(r, d \o u, x)
  BY <1>1, Regroup
<1> QED
  BY <1>2, <1>3 DEF Decodes, Way, Regroups

FillsRow(r, f, l, x) == r \o ((f \o l) \o x) = (r \o f) \o (l \o x)

LEMMA WayIntoRow ==
  ASSUME NEW S, NEW r \in Seq(S), NEW f \in Seq(S), NEW l \in Seq(S), NEW x \in Seq(S)
  PROVE  FillsRow(r, f, l, x)
<1>1. l \o x \in Seq(S)
  OBVIOUS
<1>2. Regroups(f, l, x) /\ Regroups(r, f, l \o x)
  BY <1>1, Regroup
<1> QED
  BY <1>2 DEF Regroups, FillsRow

(* inflate takes the stream's ending with all the picture behind it.        *)
LEMMA EndingIsTaken ==
  ASSUME NEW r \in Seq(Datum), NEW d \in Seq(Datum), NEW u \in Seq(Datum), NEW x \in Seq(Unit),
         NEW l \in Seq(Datum), NEW s \in Seq(Unit), NEW all,
         Matches(Way(r, d, u \o <<Ending>>, x), l \o (<<Ending>> \o s), all)
  PROVE  Matches(r \o ((d \o u) \o x), l \o s, all)
<1> DEFINE data == r \o (d \o u)
           e == <<Ending>>
<1>1. /\ r \in Seq(Unit) /\ d \in Seq(Unit) /\ u \in Seq(Unit) /\ l \in Seq(Unit)
      /\ e \in Seq(Unit) /\ Datum \in SUBSET Unit /\ Ending \in Unit /\ Ending \notin Datum
  BY DataAreUnits, UnitTypes
<1>2. data \in Seq(Datum)
  OBVIOUS
<1>3. data \in Seq(Unit)
  BY <1>2, DataAreUnits
<1>4. Matches(Way(r, d, u \o e, x), l \o (e \o s), all)
  OBVIOUS
<1>5. Way(r, d, u \o e, x) = data \o (e \o x) /\ r \o ((d \o u) \o x) = data \o x
  <2> HIDE DEF e
  <2>1. Decodes(r, d, u, e, x)
    BY <1>1, WayDecoded
  <2> QED
    BY <2>1 DEF Decodes
<1> HIDE DEF data
<1>6. Matches(data \o (<<Ending>> \o x), l \o (<<Ending>> \o s), all)
  BY <1>4, <1>5
<1>7. data = l /\ Matches(x, s, all)
  BY <1>1, <1>2, <1>6, MatchesEnding
<1> QED
  BY <1>1, <1>5, <1>7, MatchesRest

IsNextLine(of, f, n, k) == Left(of, f, n, k) = Line(of, f, k + 1) \o Left(of, f, n, k + 1)

LEMMA NextLineIs ==
  ASSUME NEW of \in {"bake", "user"}, NEW f \in {"none", "sub"}, NEW n \in Nat, NEW k \in 0 .. n - 1
  PROVE  IsNextLine(of, f, n, k)
  BY NextLine DEF IsNextLine

Awaits(full, x, of, f, n, k, e, all) == Matches(full \o x, Left(of, f, n, k) \o e, all)

(* A full row is the picture's next, if it has one.                         *)
LEMMA RowIsNext ==
  ASSUME NEW of \in {"bake", "user"}, NEW f \in {"none", "sub"}, NEW n \in Nat, NEW k \in 0 .. n,
         NEW full \in Seq(Datum), Len(full) = Width + 1, NEW x \in Seq(Unit), NEW e \in Seq(Unit),
         \A i \in 1 .. Len(e) : e[i] = Ending, NEW all,
         Awaits(full, x, of, f, n, k, e, all)
  PROVE  /\ k < n /\ full = Line(of, f, k + 1)
         /\ Matches(x, Left(of, f, n, k + 1) \o e, all)
<1>0. Matches(full \o x, Left(of, f, n, k) \o e, all)
  BY DEF Awaits
<1>1. full \in Seq(Unit) /\ Width \in Nat
  BY DataAreUnits, Sizes
<1>2. k # n
  <2> SUFFICES ASSUME k = n PROVE FALSE
    OBVIOUS
  <2>1. Left(of, f, n, k) \o e = e
    BY NoneLeft, EmptyEnds
  <2> DEFINE s == full \o x
  <2>2. Len(s) = Len(full) + Len(x) /\ \A i \in 1 .. Len(full) : s[i] = full[i]
    BY <1>1, Elements
  <2>3. Len(x) \in Nat
    OBVIOUS
  <2>4. Matches(s, e, all)
    BY <1>0, <2>1
  <2> HIDE DEF s
  <2>5. 1 \in 1 .. Len(s) /\ 1 \in 1 .. Len(full)
    BY <1>1, <2>2, <2>3
  <2>6. 1 <= Len(e) /\ s[1] = e[1] /\ Len(e) \in Nat
    BY <2>4, <2>5 DEF Matches, Begins
  <2>7. full[1] = Ending
    BY <2>2, <2>5, <2>6
  <2>8. full[1] \in Datum
    BY <2>5
  <2> QED
    BY <2>7, <2>8, UnitTypes
<1>3. k \in 0 .. n - 1 /\ k + 1 \in 0 .. n /\ k + 1 \in Nat /\ k < n
  BY <1>2
<1> DEFINE line == Line(of, f, k + 1)
           more == Left(of, f, n, k + 1)
<1>4. Left(of, f, n, k) = line \o more
  <2>1. IsNextLine(of, f, n, k)
    BY <1>3, NextLineIs, Zenon
  <2> QED
    BY <2>1 DEF IsNextLine
<1>5. line \in Seq(Datum) /\ Len(line) = Width + 1 /\ more \in Seq(Unit)
  <2>1. line \in Seq(Datum) /\ Len(line) = Width + 1
    BY <1>3, LineType, Zenon
  <2>2. more \in Seq(Unit)
    BY <1>3, LeftIs, Zenon
  <2> QED
    BY <2>1, <2>2
<1> HIDE DEF line, more
<1>6. line \in Seq(Unit) /\ more \o e \in Seq(Unit)
  BY <1>5, DataAreUnits
<1>7. Regroups(line, more, e)
  BY <1>5, <1>6, Regroup
<1>8. Matches(full \o x, line \o (more \o e), all)
  BY <1>0, <1>4, <1>7 DEF Regroups
<1>9. full = line /\ Matches(x, more \o e, all)
  BY <1>1, <1>5, <1>6, <1>8, MatchesFront
<1> QED
  BY <1>3, <1>9 DEF line, more

(* One turn of the inner loop, for what inflate takes.                      *)
Turn(taken) ==
  LET units == FlattenSeq(FirstOf(chunk, taken))
      data  == decoded \o DataOf(units)
      room  == sizes.width + 1 - Len(row)
      put   == IF Len(data) < room THEN Len(data) ELSE room
      full  == row \o FirstOf(data, put)
  IN /\ Inflates(units, taken, put, room, After(data, put))
     /\ chunk' = After(chunk, taken)
     /\ decoded' = After(data, put)
     /\ ended' = (ended \/ Finishes(units))
     /\ IF Len(full) < sizes.width + 1
        THEN row' = full /\ UNCHANGED <<rpc, image>>
        ELSE IF Refuses(full)
        THEN rpc' = "refused" /\ UNCHANGED <<row, image>>
        ELSE image' = Painted(full) /\ row' = <<>> /\ UNCHANGED rpc

(* The ending and what follows it, before and after.                        *)
Endings(done) == IF done THEN Spare ELSE <<Ending>> \o Spare

LEMMA EndingsAre ==
  ASSUME WriterInv, NEW done
  PROVE  Endings(done) \in Seq(Unit) /\ \A i \in 1 .. Len(Endings(done)) : Endings(done)[i] = Ending
<1>1. Spare \in {<<>>, <<Ending>>} /\ Ending \in Unit
  BY FileKinds, UnitTypes
<1>2. Endings(done) \in {<<>>, <<Ending>>, <<Ending>> \o <<>>, <<Ending>> \o <<Ending>>}
  BY <1>1 DEF Endings
<1>3. Endings(done) \in {<<>>, <<Ending>>, <<Ending, Ending>>}
  BY <1>2
<1> HIDE DEF Endings
<1>4. ASSUME NEW s, s = <<>> PROVE s \in Seq(Unit) /\ \A i \in 1 .. Len(s) : s[i] = Ending
  BY <1>4
<1>5. ASSUME NEW s, s = <<Ending>> PROVE s \in Seq(Unit) /\ \A i \in 1 .. Len(s) : s[i] = Ending
  BY <1>1, <1>5
<1>6. ASSUME NEW s, s = <<Ending, Ending>> PROVE s \in Seq(Unit) /\ \A i \in 1 .. Len(s) : s[i] = Ending
  BY <1>1, <1>6
<1>7. \/ Endings(done) = <<>>
      \/ Endings(done) = <<Ending>>
      \/ Endings(done) = <<Ending, Ending>>
  BY <1>3
<1> QED
  BY <1>4, <1>5, <1>6, <1>7, Zenon

(* What is held is the rest of the picture, whatever inflate takes of it.   *)
LEMMA InflateKeepsOrder ==
  ASSUME WriterInv, ReaderInv, rpc = "inflate", NEW taken \in 0 .. Len(chunk),
         NEW units, units = FlattenSeq(FirstOf(chunk, taken)),
         ended => taken = 0, \A i \in 1 .. Len(units) - 1 : units[i] # Ending,
         NEW x, x = FlattenSeq(After(chunk, taken)) \o Rest(pos),
         NEW done, done = (ended \/ Finishes(units))
  PROVE  /\ DataOf(units) \in Seq(Datum) /\ x \in Seq(Unit)
         /\ ended => DataOf(units) = <<>>
         /\ Matches(row \o ((decoded \o DataOf(units)) \o x),
                    Left(Of, Sort, Lines, Len(image)) \o Endings(done), Whole)
<1>1. /\ chunk \in Seq(Seq(Unit)) /\ row \in Seq(Datum) /\ decoded \in Seq(Datum) /\ Rest(pos) \in Seq(Unit)
      /\ row \in Seq(Unit) /\ decoded \in Seq(Unit) /\ Len(image) \in 0 .. Lines /\ Matches(Held, Due, Whole)
  <2>1. Len(image) \in Nat /\ Len(image) <= Lines /\ Lines \in Nat
    BY ReadingTypes, FileKinds
  <2> QED
    BY <2>1, ReadingTypes DEF Reading
<1>2. /\ FirstOf(chunk, taken) \in Seq(Seq(Unit)) /\ After(chunk, taken) \in Seq(Seq(Unit))
      /\ FirstOf(chunk, taken) \o After(chunk, taken) = chunk
      /\ Len(FirstOf(chunk, taken)) = taken
  BY <1>1, FirstAndAfter
<1> DEFINE more == FlattenSeq(After(chunk, taken))
           rest == Rest(pos)
           left == Left(Of, Sort, Lines, Len(image))
           D    == DataOf(units)
<1>3. units \in Seq(Unit) /\ more \in Seq(Unit) /\ FlattenSeq(chunk) = units \o more
  <2>1. FlattenSeq(FirstOf(chunk, taken) \o After(chunk, taken)) = units \o more
    BY <1>2, FlattenConcat
  <2> QED
    BY <1>2, <2>1, FlattenSeqType
<1>4. left \in Seq(Datum) /\ left \in Seq(Unit)
  BY <1>1, FileKinds, LeftIs
<1>5. D \in Seq(Datum) /\ (Finishes(units) => units = D \o <<Ending>>) /\ (~Finishes(units) => units = D)
  BY <1>3, UnitsSplit
<1>6. D \in Seq(Unit)
  BY <1>5, DataAreUnits
<1>7. ended => D = <<>> /\ ~Finishes(units)
  <2> SUFFICES ASSUME ended PROVE D = <<>> /\ ~Finishes(units)
    OBVIOUS
  <2>1. FirstOf(chunk, taken) = <<>>
    BY <1>2
  <2>2. units = <<>>
    BY <2>1, FlattenFew
  <2> QED
    BY <2>2 DEF Finishes, DataOf
<1>8. x \in Seq(Unit) /\ x = more \o rest
  BY <1>1, <1>3
<1>9. Held = Way(row, decoded, units, x)
  <2>1. Regroups(units, more, rest)
    BY <1>1, <1>3, Regroup
  <2> QED
    BY <1>3, <1>8, <2>1 DEF Held, Way, Regroups
<1>10. Due = left \o Endings(ended)
  BY DEF Due, Endings
<1> HIDE DEF more, rest, left, D
<1>11. Matches(Way(row, decoded, units, x), left \o Endings(ended), Whole)
  BY <1>1, <1>9, <1>10
<1>12. CASE ~Finishes(units)
  <2>1. Decodes(row, decoded, D, <<>>, x)
    <3>1. <<>> \in Seq(Unit)
      OBVIOUS
    <3> QED
      BY <1>1, <1>6, <1>8, <3>1, WayDecoded, Zenon
  <2>2. Way(row, decoded, units, x) = row \o ((decoded \o D) \o x)
    BY <1>5, <1>12, <2>1 DEF Decodes
  <2>3. Endings(done) = Endings(ended)
    BY <1>12 DEF Endings
  <2>4. Matches(row \o ((decoded \o D) \o x), left \o Endings(done), Whole)
    BY <1>11, <2>2, <2>3
  <2> QED
    BY <1>5, <1>7, <1>8, <2>4 DEF D, left
<1>13. CASE Finishes(units)
  <2>1. ~ended /\ units = D \o <<Ending>>
    BY <1>5, <1>7, <1>13
  <2>2. Endings(ended) = <<Ending>> \o Spare /\ Endings(done) = Spare
    BY <1>13, <2>1 DEF Endings
  <2>3. Matches(Way(row, decoded, D \o <<Ending>>, x), left \o (<<Ending>> \o Spare), Whole)
    BY <1>11, <2>1, <2>2
  <2>4. Spare \in Seq(Unit)
    BY FileKinds
  <2>5. Matches(row \o ((decoded \o D) \o x), left \o Spare, Whole)
    BY <1>1, <1>4, <1>5, <1>8, <2>3, <2>4, EndingIsTaken
  <2> QED
    BY <1>5, <1>7, <1>8, <2>2, <2>5 DEF D, left
<1> QED
  BY <1>12, <1>13

LEMMA InflateInv ==
  ASSUME WriterInv, ReaderInv, Inflate, FileStays
  PROVE  ReaderInv'
<1>1. rpc = "inflate" /\ UNCHANGED <<pos, sizes, remaining>> /\ file' = file
  BY DEF Inflate, FileStays
<1>2. PICK taken \in 0 .. Len(chunk) : Turn(taken)
  BY DEF Inflate, Turn
<1>3. /\ Reading /\ wpc \in Settled /\ pos \in Nat \ (0 .. 4) /\ InChunk /\ Readable
      /\ row \in Seq(Datum) /\ row \in Seq(Unit) /\ decoded \in Seq(Datum) /\ chunk \in Seq(Seq(Unit))
      /\ Len(row) <= Width /\ image \in Seq(Seq(Unit)) /\ Len(image) \in Nat /\ Len(image) <= Lines
      /\ sizes = [width |-> Width, height |-> Height] /\ (ended => decoded = <<>>)
  BY <1>1, ReadingTypes DEF Reading
<1>4. \A r \in 1 .. Len(image) : image[r] = Pixels(Of, r)
  BY <1>3 DEF Reading
<1>5. /\ Of \in {"bake", "user"} /\ Sort \in {"none", "sub"} /\ Lines \in Nat /\ Lines <= Height
      /\ (Whole => Sort = "none") /\ Width \in Nat /\ Height \in Nat
  BY FileKinds, Sizes
<1> DEFINE units == FlattenSeq(FirstOf(chunk, taken))
           D     == DataOf(units)
           data  == decoded \o D
           room  == Width + 1 - Len(row)
           put   == IF Len(data) < room THEN Len(data) ELSE room
           full  == row \o FirstOf(data, put)
           rest  == After(data, put)
           x     == FlattenSeq(After(chunk, taken)) \o Rest(pos)
           done  == ended \/ Finishes(units)
           k     == Len(image)
<1>6. /\ Inflates(units, taken, put, room, rest)
      /\ chunk' = After(chunk, taken) /\ decoded' = rest /\ ended' = done
      /\ IF Len(full) < Width + 1 THEN row' = full /\ UNCHANGED <<rpc, image>>
         ELSE IF Refuses(full) THEN rpc' = "refused" /\ UNCHANGED <<row, image>>
         ELSE image' = Painted(full) /\ row' = <<>> /\ UNCHANGED rpc
  <2>1. sizes.width = Width
    BY <1>3
  <2> QED
    BY <1>2, <2>1 DEF Turn
<1>7. /\ ended => taken = 0
      /\ \A i \in 1 .. Len(units) - 1 : units[i] # Ending
      /\ Finishes(units) => rest = <<>>
  BY <1>6 DEF Inflates
<1>8. /\ D \in Seq(Datum) /\ x \in Seq(Unit) /\ (ended => D = <<>>)
      /\ Matches(row \o (data \o x), Left(Of, Sort, Lines, k) \o Endings(done), Whole)
  <2> HIDE DEF done, units, x
  <2>1. ended => taken = 0
    BY <1>7
  <2>2. \A i \in 1 .. Len(units) - 1 : units[i] # Ending
    BY <1>7
  <2> QED
    BY <1>1, <2>1, <2>2, InflateKeepsOrder DEF done, units, x
<1>9. chunk' \in Seq(Seq(Unit)) /\ x = FlattenSeq(chunk') \o Rest(pos)'
  <2>1. After(chunk, taken) \in Seq(Seq(Unit))
    BY <1>3, FirstAndAfter
  <2> QED
    BY <1>1, <1>6, <2>1 DEF Rest
<1> HIDE DEF units, D, x, done
<1>11. /\ data \in Seq(Datum) /\ Len(data) \in Nat /\ room \in Nat /\ put \in 0 .. Len(data) /\ put <= room
  <2>1. data \in Seq(Datum) /\ Len(row) \in Nat
    BY <1>3, <1>8
  <2>2. Len(data) \in Nat
    BY <2>1
  <2> HIDE DEF data
  <2> QED
    BY <1>3, <1>5, <2>1, <2>2
<1> HIDE DEF put, room, data
<1>12. /\ FirstOf(data, put) \in Seq(Datum) /\ Len(FirstOf(data, put)) = put /\ rest \in Seq(Datum)
       /\ FirstOf(data, put) \o rest = data
  BY <1>11, FirstAndAfter
<1>13. /\ full \in Seq(Datum) /\ Len(full) = Len(row) + put
  <2> DEFINE first == FirstOf(data, put)
  <2>1. first \in Seq(Datum) /\ Len(first) = put
    BY <1>12
  <2>2. row \in Seq(Datum)
    BY <1>3
  <2> HIDE DEF first
  <2>3. row \o first \in Seq(Datum) /\ Len(row \o first) = Len(row) + Len(first)
    BY <2>1, <2>2
  <2> QED
    BY <2>1, <2>3 DEF first, full
<1>14. row \o (data \o x) = full \o (rest \o x) /\ rest \o x \in Seq(Unit) /\ full \in Seq(Unit)
  <2> DEFINE first == FirstOf(data, put)
  <2>1. first \in Seq(Unit) /\ rest \in Seq(Unit) /\ full \in Seq(Unit) /\ first \o rest = data
        /\ full = row \o first
    BY <1>12, <1>13, DataAreUnits
  <2>4. row \in Seq(Unit) /\ x \in Seq(Unit) /\ first \in Seq(Unit) /\ rest \in Seq(Unit)
    BY <1>3, <1>8, <2>1
  <2> HIDE DEF rest, first, full
  <2>2. FillsRow(row, first, rest, x)
    BY <2>4, WayIntoRow, Zenon
  <2>3. rest \o x \in Seq(Unit)
    BY <2>4
  <2> QED
    BY <2>1, <2>2, <2>3 DEF FillsRow
<1> HIDE DEF full, rest
<1>15. Matches(full \o (rest \o x), Left(Of, Sort, Lines, k) \o Endings(done), Whole)
  BY <1>8, <1>14
<1>16. Len(full) <= Width + 1 /\ Len(full) \in Nat
  BY <1>3, <1>5, <1>11, <1>13 DEF room
<1>17. ended' => decoded' = <<>>
  <2>1. ASSUME ended PROVE rest = <<>>
    <3>1. data = <<>>
      BY <1>3, <1>8, <2>1 DEF data
    <3> QED
      BY <1>11, <1>12, <3>1
  <2> QED
    BY <1>6, <1>7, <2>1 DEF done
<1>18. decoded' \in Seq(Datum) /\ ended' \in BOOLEAN
  BY <1>6, <1>12 DEF done
<1>19. InChunk'
  BY <1>1, <1>3, KindsStay DEF InChunk
<1>20. /\ Of' = Of /\ Sort' = Sort /\ Lines' = Lines /\ Whole' = Whole /\ Readable' /\ wpc' \in Settled
       /\ pos' = pos /\ sizes' = sizes
  BY <1>1, <1>3, KindsStay
<1>21. Due' = Left(Of, Sort, Lines, Len(image')) \o Endings(done)
  BY <1>6, <1>20, KindsStay DEF Due, Endings
<1>22. ASSUME rpc' = "inflate", row' \in Seq(Datum), Len(row') <= Width,
              image' \in Seq(Seq(Unit)), Len(image') <= Lines,
              \A r \in 1 .. Len(image') : image'[r] = Pixels(Of, r), Matches(Held', Due', Whole)
       PROVE  ReaderInv'
  <2>1. Reading'
    BY <1>3, <1>9, <1>17, <1>18, <1>19, <1>20, <1>22 DEF Reading
  <2> QED
    BY <1>20, <1>22, <2>1 DEF ReaderInv
<1>23. CASE Len(full) < Width + 1
  <2>1. row' = full /\ rpc' = "inflate" /\ image' = image
    BY <1>1, <1>6, <1>23
  <2>2. Held' = full \o (rest \o x)
    BY <1>6, <1>9, <2>1 DEF Held
  <2>3. Matches(Held', Due', Whole)
    BY <1>15, <1>21, <2>1, <2>2 DEF k
  <2>4. Len(row') <= Width
    BY <1>5, <1>16, <1>23, <2>1
  <2> QED
    BY <1>3, <1>4, <1>13, <1>22, <2>1, <2>3, <2>4
<1>24. CASE ~(Len(full) < Width + 1)
  <2>1. Len(full) = Width + 1 /\ k \in 0 .. Lines
    BY <1>3, <1>5, <1>16, <1>24
  <2>2. Endings(done) \in Seq(Unit) /\ \A i \in 1 .. Len(Endings(done)) : Endings(done)[i] = Ending
    BY EndingsAre
  <2> HIDE DEF k
  <2>3. /\ k < Lines /\ full = Line(Of, Sort, k + 1)
        /\ Matches(rest \o x, Left(Of, Sort, Lines, k + 1) \o Endings(done), Whole)
    <3> DEFINE e == Endings(done)
               t == rest \o x
    <3>1. e \in Seq(Unit) /\ \A i \in 1 .. Len(e) : e[i] = Ending
      BY <2>2
    <3>2. full \in Seq(Datum) /\ t \in Seq(Unit) /\ Awaits(full, t, Of, Sort, Lines, k, e, Whole)
      BY <1>13, <1>14, <1>15 DEF Awaits
    <3>3. Of \in {"bake", "user"} /\ Sort \in {"none", "sub"} /\ Lines \in Nat /\ k \in 0 .. Lines
          /\ Len(full) = Width + 1
      BY <1>5, <2>1
    <3> HIDE DEF e, t
    <3>4. k < Lines /\ full = Line(Of, Sort, k + 1) /\ Matches(t, Left(Of, Sort, Lines, k + 1) \o e, Whole)
      BY <3>1, <3>2, <3>3, RowIsNext, Zenon
    <3> QED
      BY <3>4 DEF e, t
  <2>4. k + 1 \in Nat /\ k \in Nat
    BY <1>5, <2>1
  <2>5. Head(full) = Filter(Sort) /\ Tail(full) = Pixels(Of, k + 1) /\ Pixels(Of, k + 1) \in Seq(Datum)
    BY <1>5, <2>3, <2>4, LineType, Zenon
  <2>6. k < Height /\ sizes.height = Height
    BY <1>3, <1>5, <2>3, <2>4
  <2>7. CASE Refuses(full)
    <3>1. rpc' = "refused"
      BY <1>6, <1>24, <2>7
    <3>2. ~Whole
      BY <1>5, <2>5, <2>7 DEF Refuses
    <3> QED
      BY <1>20, <3>1, <3>2 DEF ReaderInv
  <2>8. CASE ~Refuses(full)
    <3>1. /\ image' = Append(image, Pixels(Of, k + 1)) /\ row' = <<>> /\ rpc' = "inflate"
      BY <1>1, <1>6, <1>24, <2>5, <2>6, <2>8 DEF Painted, k
    <3>2. Pixels(Of, k + 1) \in Seq(Unit)
      BY <2>5, DataAreUnits
    <3>3. /\ image' \in Seq(Seq(Unit)) /\ Len(image') = k + 1
          /\ \A r \in 1 .. Len(image') : image'[r] = Pixels(Of, r)
      <4> DEFINE p == Pixels(Of, k + 1)
      <4>1. image' = Append(image, p) /\ p \in Seq(Unit)
        BY <3>1, <3>2
      <4> HIDE DEF p
      <4>2. /\ image' \in Seq(Seq(Unit)) /\ Len(image') = k + 1 /\ image'[k + 1] = p
            /\ \A r \in 1 .. k : image'[r] = image[r]
        BY <1>3, <4>1 DEF k
      <4>3. \A r \in 1 .. k + 1 : r \in 1 .. k \/ r = k + 1
        BY <2>4
      <4> QED
        BY <1>4, <4>2, <4>3 DEF k, p
    <3>4. Held' = rest \o x
      <4>1. Held' = <<>> \o (rest \o x)
        BY <1>6, <1>9, <3>1 DEF Held
      <4> QED
        BY <1>14, <4>1, EmptyEnds
    <3>5. Matches(Held', Due', Whole)
      BY <1>21, <2>3, <3>3, <3>4
    <3>6. row' \in Seq(Datum) /\ Len(row') <= Width /\ Len(image') <= Lines
      BY <1>5, <2>3, <2>4, <3>1, <3>3
    <3> QED
      BY <1>22, <3>1, <3>3, <3>5, <3>6
  <2> QED
    BY <2>7, <2>8
<1> QED
  BY <1>23, <1>24

-----------------------------------------------------------------------------
(* The steps of the system.                                                 *)

LEMMA InitInv == Init => PngInv
<1> SUFFICES ASSUME Init PROVE PngInv
  OBVIOUS
<1>1. OnDisk
  BY InitOnDisk
<1>2. /\ wpc = "ready" /\ stranger \in Strangers /\ rpc = "idle" /\ AtRest
      /\ y = 0 /\ input = <<>> /\ held = <<>> /\ buffer = <<>>
  BY DEF Init, AtRest
<1>3. WriterInv
  BY <1>1, <1>2 DEF WriterInv, Settled
<1>4. ReaderInv
  BY <1>2 DEF ReaderInv
<1> QED
  BY <1>3, <1>4 DEF PngInv

(* An importer that waits is not touched by the exporter.                   *)
LEMMA ReaderWaits ==
  ASSUME ReaderInv, rpc = "idle", UNCHANGED importer
  PROVE  ReaderInv'
<1>1. AtRest /\ rpc' = "idle"
  BY DEF ReaderInv, importer
<1>2. AtRest'
  BY <1>1 DEF AtRest, importer
<1> QED
  BY <1>1, <1>2 DEF ReaderInv

(* The exporter works only while the importer waits.                        *)
LEMMA ExporterIsAlone ==
  ASSUME ReaderInv, OpenExport \/ ExportStep \/ ExportStops
  PROVE  rpc = "idle"
<1>1. rpc = "idle" \/ wpc \in Settled
  BY DEF ReaderInv
<1>2. OpenExport => rpc = "idle"
  BY DEF OpenExport
<1>3. ExportStep => wpc \in {"row", "deflate", "finish", "end", "flush", "close"}
  BY DEF ExportStep, FetchRow, DeflateRow, EndRows, FinishStream, WriteIEND, FlushFile, CloseFile
<1>4. ExportStops => wpc \notin Settled
  BY DEF ExportStops, Settled
<1> QED
  BY <1>1, <1>2, <1>3, <1>4 DEF Settled

(* Nor is the exporter by the importer.                                     *)
LEMMA WriterWaits ==
  ASSUME WriterInv, UNCHANGED <<stranger, file, synced, exporter>>
  PROVE  WriterInv'
<1>1. /\ stranger' = stranger /\ file' = file /\ synced' = synced /\ wpc' = wpc /\ y' = y
      /\ input' = input /\ held' = held /\ buffer' = buffer /\ FileStays
  BY DEF exporter, FileStays
<1>2. OnDisk => OnDisk'
  BY <1>1, KindsStay DEF OnDisk
<1>3. Exporting => Exporting'
  BY <1>1 DEF Exporting, Made
<1> QED
  BY <1>1, <1>2, <1>3 DEF WriterInv

LEMMA ExportInv ==
  ASSUME PngInv, Export
  PROVE  PngInv'
<1>1. WriterInv /\ ReaderInv /\ UNCHANGED stranger /\ UNCHANGED importer
  BY DEF PngInv, Export
<1>2. ReaderInv'
  BY <1>1, ExporterIsAlone, ReaderWaits DEF Export
<1>3. CASE OpenExport
  BY <1>1, <1>2, <1>3, OpenExportInv DEF PngInv
<1>4. CASE FetchRow
  BY <1>1, <1>2, <1>4, FetchRowInv DEF PngInv
<1>5. CASE DeflateRow
  BY <1>1, <1>2, <1>5, DeflateRowInv DEF PngInv
<1>6. CASE EndRows
  BY <1>1, <1>2, <1>6, EndRowsInv DEF PngInv
<1>7. CASE FinishStream
  BY <1>1, <1>2, <1>7, FinishStreamInv DEF PngInv
<1>8. CASE WriteIEND
  BY <1>1, <1>2, <1>8, WriteIENDInv DEF PngInv
<1>9. CASE FlushFile
  BY <1>1, <1>2, <1>9, FlushFileInv DEF PngInv
<1>10. CASE CloseFile
  BY <1>1, <1>2, <1>10, CloseFileInv DEF PngInv
<1>11. CASE ExportStops
  BY <1>1, <1>2, <1>11, ExportStopsInv DEF PngInv
<1> QED
  BY <1>3, <1>4, <1>5, <1>6, <1>7, <1>8, <1>9, <1>10, <1>11 DEF Export, ExportStep

LEMMA ImportInv ==
  ASSUME PngInv, Import
  PROVE  PngInv'
<1>1. WriterInv /\ ReaderInv /\ UNCHANGED <<stranger, file, synced, exporter>> /\ FileStays
  BY DEF PngInv, Import, FileStays, exporter
<1>2. WriterInv'
  BY <1>1, WriterWaits
<1>3. CASE ReadPNGInfo
  BY <1>1, <1>2, <1>3, ReadPNGInfoInv DEF PngInv
<1>4. CASE BeginReadPNG
  BY <1>1, <1>2, <1>4, BeginReadPNGInv DEF PngInv
<1>5. CASE ReadChunkHeader
  BY <1>1, <1>2, <1>5, ReadChunkHeaderInv DEF PngInv
<1>6. CASE ReadBuffer
  BY <1>1, <1>2, <1>6, ReadBufferInv DEF PngInv
<1>7. CASE Inflate
  BY <1>1, <1>2, <1>7, InflateInv DEF PngInv
<1>8. CASE BufferDone
  BY <1>1, <1>2, <1>8, BufferDoneInv DEF PngInv
<1>9. CASE ImportStops
  BY <1>1, <1>2, <1>9, ImportStopsInv DEF PngInv
<1> QED
  BY <1>3, <1>4, <1>5, <1>6, <1>7, <1>8, <1>9 DEF Import, ImportStep

(* Nothing moves.                                                           *)
LEMMA StutterInv ==
  ASSUME PngInv, UNCHANGED vars
  PROVE  PngInv'
<1>1. WriterInv /\ ReaderInv /\ UNCHANGED <<stranger, file, synced, exporter>>
  BY DEF PngInv, vars
<1>2. UNCHANGED importer /\ FileStays
  BY DEF vars, FileStays, exporter
<1>3. WriterInv'
  BY <1>1, WriterWaits
<1>4. /\ rpc' = rpc /\ pos' = pos /\ sizes' = sizes /\ remaining' = remaining /\ chunk' = chunk
      /\ decoded' = decoded /\ ended' = ended /\ row' = row /\ image' = image
      /\ wpc' = wpc /\ file' = file
  BY <1>2 DEF importer, FileStays
<1>5. /\ Of' = Of /\ Sort' = Sort /\ Lines' = Lines /\ Spare' = Spare /\ Whole' = Whole
      /\ Readable' = Readable /\ (wpc' \in Settled <=> wpc \in Settled)
  BY <1>2, KindsStay
<1>6. AtRest => AtRest'
  BY <1>4 DEF AtRest
<1>7. Held' = Held /\ Due' = Due
  BY <1>4, <1>5 DEF Held, Due, Rest
<1>8. InChunk => InChunk'
  BY <1>4, <1>5 DEF InChunk
<1>9. Reading => Reading'
  BY <1>4, <1>5, <1>7, <1>8 DEF Reading
<1>10. ReaderInv'
  BY <1>1, <1>4, <1>5, <1>6, <1>9 DEF ReaderInv
<1> QED
  BY <1>3, <1>10 DEF PngInv

-----------------------------------------------------------------------------
(* The exporter and the importer keep the picture in its order: what the    *)
(* file's IDAT chunks hold, outBuffer, deflate and the row on its way are   *)
(* the rows fetched so far, and the rows painted, rowBuffer, inflate,       *)
(* inBuffer and the rest of the file are a beginning of the picture, or all *)
(* of it (WritePNG, ReadPNG), for every size of picture and of buffers.     *)
THEOREM PngInvariant == Spec => []PngInv
<1>1. Init => PngInv
  BY InitInv
<1>2. PngInv /\ [Next]_vars => PngInv'
  <2> SUFFICES ASSUME PngInv, [Next]_vars PROVE PngInv'
    OBVIOUS
  <2> QED
    BY ExportInv, ImportInv, StutterInv DEF Next
<1> QED
  BY <1>1, <1>2, PTL DEF Spec

(* No beginning of a picture passes for the picture: what CImageImporter    *)
(* accepts is every row in its place (ReadPNG).                             *)
THEOREM AcceptedImagesAreWhole == Spec => []ImportedIsWhole
<1>1. PngInv => ImportedIsWhole
  <2> SUFFICES ASSUME PngInv, rpc = "imported" PROVE image \in {PictureOf("bake"), PictureOf("user")}
    BY DEF ImportedIsWhole
  <2>1. image = PictureOf(Of) /\ Of \in {"bake", "user"}
    BY FileKinds DEF PngInv, ReaderInv
  <2> QED
    BY <2>1
<1> QED
  BY <1>1, PngInvariant, PTL

(* CImageImporter accepts what a successful ExportImage has left, and a     *)
(* plain picture of the user's, with that picture.                          *)
THEOREM ExportsAreReadable == Spec => []ExportedIsReadable
<1>1. PngInv => ExportedIsReadable
  <2> SUFFICES ASSUME PngInv, rpc \in {"refused", "imported"}
               PROVE  /\ wpc = "exported" => rpc = "imported" /\ image = PictureOf("bake")
                      /\ wpc = "ready" /\ stranger = "plain" => rpc = "imported" /\ image = PictureOf("user")
    BY DEF ExportedIsReadable
  <2>1. (rpc = "imported" => image = PictureOf(Of)) /\ (rpc = "refused" => ~Whole)
    BY DEF PngInv, ReaderInv
  <2>2. wpc = "exported" => Whole /\ Of = "bake"
    BY DEF Whole, Of
  <2>3. wpc = "ready" /\ stranger = "plain" => Whole /\ Of = "user"
    BY DEF Whole, Of
  <2> QED
    BY <2>1, <2>2, <2>3
<1> QED
  BY <1>1, PngInvariant, PTL
=============================================================================
