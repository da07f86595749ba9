--------------------------- MODULE VegetationSplat --------------------------
(***************************************************************************)
(* How CVegetationBaker::Bake puts one instance of vegetation on the grid: *)
(* as a point, or as the texels its geometry covers, with enclosed areas   *)
(* filled, counted cell by cell.  The projection to texels at the finest   *)
(* resolution is the input: the floating-point geometry is not modelled.   *)
(* Src: src/Core/Bakers/Vegetation/VegetationBaker.cpp,                    *)
(* src/Core/Bakers/Geometry/GroupGeometry.cpp.                             *)
(***************************************************************************)
EXTENDS Integers, FiniteSets, Sequences

CONSTANTS
  GridWidth, GridHeight,  (* in cells                                       *)
  Full,                   (* the largest density, 255                       *)
  Sub,                    (* texels of a cell's side, at most               *)
  MaxScratch              (* kMaxScratchPixels                              *)

ASSUME SplatAssumption ==
  /\ GridWidth \in Nat \ {0} /\ GridHeight \in Nat \ {0}
  /\ Full \in Nat \ {0} /\ Sub \in Nat \ {0} /\ MaxScratch \in Nat

Cells == (0 .. GridWidth - 1) \X (0 .. GridHeight - 1)

Least(S)    == CHOOSE x \in S : \A y \in S : x <= y
Greatest(S) == CHOOSE x \in S : \A y \in S : x >= y

CellOf(texel, s) == <<texel[1] \div s, texel[2] \div s>>

(* An object o has a home cell and, when its size is simulated and its      *)
(* reach is more than half a cell, the texels it projects to, all in world  *)
(* coordinates; either may lie outside the grid.                            *)
SplatsAsGeometry(o) == o.texels # {}

(* ProjectBoundsToGrid: the bounds of the geometry, cut to the grid.        *)
ProjectBoundsToGrid(o) ==
  LET xs == {CellOf(t, Sub)[1] : t \in o.texels}
      ys == {CellOf(t, Sub)[2] : t \in o.texels}
  IN  [x0 |-> Greatest({0, Least(xs)}), x1 |-> Least({GridWidth - 1, Greatest(xs)}),
       y0 |-> Greatest({0, Least(ys)}), y1 |-> Least({GridHeight - 1, Greatest(ys)})]

IsValid(rect) == rect.x0 <= rect.x1 /\ rect.y0 <= rect.y1

CellsOf(rect)  == (rect.x0 .. rect.x1) \X (rect.y0 .. rect.y1)
TexelsOf(rect, s) == (rect.x0 * s .. rect.x1 * s + s - 1) \X
                     (rect.y0 * s .. rect.y1 * s + s - 1)

(* outS: the finest resolution whose texels fit the scratch, else 1.        *)
Resolution(rect) ==
  Greatest({1} \union {s \in 1 .. Sub : s * s * Cardinality(CellsOf(rect)) <= MaxScratch})

FitsScratch(rect) == Cardinality(TexelsOf(rect, Resolution(rect))) <= MaxScratch

(* RasterizeTriangle samples the geometry at the centres of the texels.     *)
Centre(t, s) == <<((2 * t[1] + 1) * Sub) \div (2 * s), ((2 * t[2] + 1) * Sub) \div (2 * s)>>
Sampled(o, rect, s) == {t \in TexelsOf(rect, s) : Centre(t, s) \in o.texels}

-----------------------------------------------------------------------------
(* FillEnclosedAreas.  The fill keeps the texels still 0 and the stack of   *)
(* those marked 2 whose neighbours are not looked at yet.                   *)

Push(fill, t) ==
  IF t \in fill.zero
  THEN [zero |-> fill.zero \ {t}, stack |-> Append(fill.stack, t)] ELSE fill

(* The texels of the first and last row, in turn, then of the columns.      *)
Width(rect, s)  == (rect.x1 - rect.x0 + 1) * s
Height(rect, s) == (rect.y1 - rect.y0 + 1) * s
Border(rect, s) ==
  LET w == Width(rect, s)
      h == Height(rect, s)
  IN  [n \in 1 .. 2 * w + 2 * h |->
         LET k == (n - 1) \div 2
             j == (n - 1) % 2
         IN  IF n <= 2 * w THEN <<rect.x0 * s + k, rect.y0 * s + j * (h - 1)>>
             ELSE <<rect.x0 * s + j * (w - 1), rect.y0 * s + k - w>>]

Marked(zero, border) ==
  LET after[n \in 0 .. Len(border)] ==
        IF n = 0 THEN [zero |-> zero, stack |-> <<>>] ELSE Push(after[n - 1], border[n])
  IN  after[Len(border)]

(* The neighbours of t; those outside the texels are not 0.                 *)
Spread(fill, t) ==
  Push(Push(Push(Push(fill, <<t[1] - 1, t[2]>>), <<t[1] + 1, t[2]>>),
            <<t[1], t[2] - 1>>), <<t[1], t[2] + 1>>)

Turn(fill) ==
  LET top == Len(fill.stack)
  IN  IF top = 0 THEN fill
      ELSE Spread([fill EXCEPT !.stack = SubSeq(@, 1, top - 1)], fill.stack[top])

MutantDrain(fill) ==  (* as many turns as the stack is deep at first *)
  LET after[n \in 0 .. Len(fill.stack)] == IF n = 0 THEN fill ELSE Turn(after[n - 1])
  IN  after[Len(fill.stack)]

(* The loop ends within so many turns: each takes a texel off the stack,    *)
(* and a texel is pushed once.                                              *)
Drain(fill) ==
  LET most == Cardinality(fill.zero) + Len(fill.stack)
      after[n \in 0 .. most] == IF n = 0 THEN fill ELSE Turn(after[n - 1])
  IN  after[most]

(* What is still 0 in the end becomes 1, what is 2 becomes 0.              *)
FillEnclosedAreas(bits, rect, s) ==
  bits \union Drain(Marked(TexelsOf(rect, s) \ bits, Border(rect, s))).zero

(* Without memory for its stack the fill leaves the outline as it is.       *)
RasterizeProjected(o, rect, s, memory) ==
  LET bits == Sampled(o, rect, s)
  IN  IF o.fill /\ memory # "outline" THEN FillEnclosedAreas(bits, rect, s) ELSE bits

-----------------------------------------------------------------------------
(* What is added to the cells: a function from cells of the grid.           *)

(* count * invArea * density + 0.5f, cut to an integer.                     *)
Share(bits, s, c, density) ==
  (2 * Cardinality({t \in bits : CellOf(t, s) = c}) * density + s * s) \div (2 * s * s)

SplatSinglePoint(o, density) == [c \in {o.home} \intersect Cells |-> density]

(* DownsampleToGrid: the home cell gets the whole density, once, also when  *)
(* the geometry does not reach it; the others get their share.              *)
DownsampleToGrid(o, rect, density, memory) ==
  LET s    == Resolution(rect)
      bits == RasterizeProjected(o, rect, s, memory)
      home == {o.home} \intersect Cells
  IN  [c \in CellsOf(rect) \union home |->
         IF c \in home THEN density ELSE Share(bits, s, c, density)]

Nothing == [c \in {} |-> 0]

(* The splat of one object, with memory for "all" it needs, not for the    *)
(* fill ("outline"), or for nothing ("none").  A geometry outside the     *)
(* grid, too large for the scratch or without memory adds nothing, not even *)
(* at home.                                                                 *)
Splat(o, density, memory) ==
  IF ~SplatsAsGeometry(o) THEN SplatSinglePoint(o, density)
  ELSE LET rect == ProjectBoundsToGrid(o)
       IN  IF memory # "none" /\ IsValid(rect) /\ FitsScratch(rect)
           THEN DownsampleToGrid(o, rect, density, memory) ELSE Nothing

-----------------------------------------------------------------------------
(* The reference: texels that no way through empty texels joins to the      *)
(* edge of the cells looked at are inside.                                  *)
Near(t) == {t} \union {<<t[1] + d, t[2]>> : d \in {-1, 1}} \union {<<t[1], t[2] + d>> : d \in {-1, 1}}

Edge(rect, s) ==
  {t \in TexelsOf(rect, s) : \/ t[1] \in {rect.x0 * s, rect.x1 * s + s - 1}
                             \/ t[2] \in {rect.y0 * s, rect.y1 * s + s - 1}}

Wider(reached, empty) == {u \in empty : \E t \in reached : u \in Near(t)}

(* What so many steps from start reach; none is longer than all of empty.   *)
Reachable(start, empty) ==
  LET reached[n \in 0 .. Cardinality(empty)] ==
        IF n = 0 THEN start ELSE Wider(reached[n - 1], empty)
  IN  reached[Cardinality(empty)]

Covered(o, rect, s) ==
  LET empty == TexelsOf(rect, s) \ Sampled(o, rect, s)
  IN  TexelsOf(rect, s) \ (IF o.fill THEN Reachable(Edge(rect, s) \intersect empty, empty) ELSE empty)

(* The density an object means for a cell of the grid: all of it at home,   *)
(* elsewhere in proportion to the part of the cell it covers, rounded to    *)
(* the nearest.                                                             *)
Meant(o, c, density) ==
  LET rect  == ProjectBoundsToGrid(o)
      s     == Resolution(rect)
      count == Cardinality({t \in Covered(o, rect, s) : CellOf(t, s) = c})
  IN  IF ~SplatsAsGeometry(o) THEN (IF c = o.home THEN density ELSE 0)
      ELSE IF ~IsValid(rect) \/ ~FitsScratch(rect) THEN 0
      ELSE IF c = o.home THEN density
      ELSE IF c \in CellsOf(rect)
      THEN Least({n \in 0 .. density : 2 * s * s * n + s * s > 2 * count * density})
      ELSE 0
=============================================================================
