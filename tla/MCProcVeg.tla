------------------------------ MODULE MCProcVeg -----------------------------
(* An instance of ProcVeg for TLC: terrains of one to three nodes, with     *)
(* groups 0 to 2 known to the editor, group 5 only to the engine.           *)
EXTENDS ProcVeg

Surface(type, groups) == [known |-> TRUE, type |-> type, groups |-> groups]
Unknown == [known |-> FALSE, type |-> 0, groups |-> <<1>>]
NodeOf(level, x, y, side, surfaces) ==
  [there |-> TRUE, level |-> level, x |-> x, y |-> y, side |-> side, surfaces |-> surfaces]
NoNode == [NodeOf(0, 0, 0, 2, <<>>) EXCEPT !.there = FALSE]

MCTerrains ==
  {<<NodeOf(0, 0, 0, 2, <<Surface(1, <<1, 0, 2>>)>>),
     NodeOf(0, 2, 0, 2, <<Unknown, Surface(1, <<5>>), Surface(2, <<-1, 0>>)>>)>>,
   <<NoNode, NodeOf(0, 2, 2, 2, <<Surface(2, <<2, 1>>), Surface(1, <<0>>)>>),
     NodeOf(1, 0, 0, 4, <<Surface(1, <<0, 1>>)>>)>>,
   <<NodeOf(2, 0, 0, 4, <<Surface(1, <<0>>)>>),
     NodeOf(0, 0, 2, 2, <<Surface(1, <<2>>), Surface(2, <<5, 1, 0>>)>>)>>}

MCLayersOf == [0..2 -> {"Tree", "Unknown"}]

MCDraw(rnd, k) ==
  LET g == rnd[1] + rnd[2] IN ((g + 3) * k * k + 5 * k + g) % 4
MCTypes(x, y)   == IF x + 2 * y < 6 THEN 1 ELSE IF x = 4 THEN 0 ELSE 2
MCCreates(g, level) == level = (IF g = 1 THEN 1 ELSE 0) \/ g = 0
MCRows(g) == IF g = 0 THEN 2 ELSE 1 + (g % 3)
MCSuits(g, p, size) == size + g > 0 /\ (p.x + p.y) % 5 # g
=============================================================================
